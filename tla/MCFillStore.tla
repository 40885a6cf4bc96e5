---------------------------- MODULE MCFillStore -----------------------------
(* How a fill is delivered at least once and credited at most once: a behaviour is *)
(* one of the feed or one of the record of processed fills.                         *)
EXTENDS FillFeed, FillStore, TLC
VARIABLE part

\* A feed none of whose fair steps is enabled: its scan does not end.
IdleFeed ==
    /\ head = 1 /\ fills = {} /\ given = {} /\ cursor = 0 /\ gap = FALSE
    /\ busy = TRUE /\ scanDue = FALSE /\ scan = [c \in Callers |-> None]
    /\ link = TRUE /\ pushes = TRUE /\ noticed = 1 /\ joining = {} /\ retry = FALSE
    /\ refused = 0 /\ broken = 0 /\ cutOff = {} /\ turnedAway = {}

bothVars == <<feedVars, vars, part>>
BothInit ==
    /\ Init
    /\ \/ part = "feed" /\ FeedInit
       \/ part = "store" /\ IdleFeed
BothNext ==
    \/ part = "feed" /\ FeedNext /\ UNCHANGED <<vars, part>>
    \/ part = "store" /\ Next /\ UNCHANGED <<feedVars, part>>
BothSpec == BothInit /\ [][BothNext]_bothVars /\ FeedFairness /\ StoreFairness
=============================================================================
