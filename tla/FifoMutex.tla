------------------------------ MODULE FifoMutex ------------------------------
(***************************************************************************)
(* What async_lock.ts promises its users: one owner at a time, waiters     *)
(* served in order, waiters may drop out, and only the owner itself gives  *)
(* the mutex up.  A forced release therefore may drop waiters but may not  *)
(* take the mutex from its owner.                                          *)
(***************************************************************************)
EXTENDS Naturals, Sequences

CONSTANTS Callers, NoCaller

VARIABLES owner, waiters

vars == <<owner, waiters>>

Init == owner = NoCaller /\ waiters = <<>>

Request(c) ==
    /\ c # owner
    /\ \A i \in 1 .. Len(waiters) : waiters[i] # c
    /\ IF owner = NoCaller
         THEN owner' = c /\ UNCHANGED waiters
         ELSE waiters' = Append(waiters, c) /\ UNCHANGED owner

\* One waiter gives up, wherever it stands, or all of them are sent away; those
\* who stay keep their order.
DropOut ==
    /\ \/ waiters' = <<>>
       \/ \E i \in 1 .. Len(waiters) :
             waiters' = SubSeq(waiters, 1, i - 1) \o SubSeq(waiters, i + 1, Len(waiters))
    /\ UNCHANGED owner

\* The owner leaves; the first waiter that is still interested takes over.
Release ==
    /\ owner # NoCaller
    /\ \E k \in 0 .. Len(waiters) :
          /\ owner' = IF k < Len(waiters) THEN waiters[k + 1] ELSE NoCaller
          /\ waiters' = SubSeq(waiters, k + 2, Len(waiters))

Next == (\E c \in Callers : Request(c)) \/ DropOut \/ Release

Spec == Init /\ [][Next]_vars
=============================================================================
