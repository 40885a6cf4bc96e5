------------------------ MODULE MCUncertainBroadcast ------------------------
EXTENDS UncertainBroadcast
CONSTANTS s1, s2
OneNear == {<<s1, s2>>}
=============================================================================
