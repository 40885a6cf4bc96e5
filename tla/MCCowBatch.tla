----------------------------- MODULE MCCowBatch -----------------------------
(* A small instance of CowBatch for TLC.  A behaviour has one cast of frames; the frames *)
(* of the other cast have ended before it starts.                                        *)
EXTENDS CowBatch

\* A fill batch beside a recovery batch; or a plan beside a broadcasting region and the
\* watchdog of the flag.
CastInit ==
    \E cast \in {FillFrames \cup RecoveryFrames, PlanFrames} :
        /\ master = [s \in Slots |-> 0] /\ version = 0
        /\ grid = [f \in Frames |-> NoGrid]
        /\ stack = <<>> /\ pushed = [f \in Frames |-> FALSE] /\ state = "NORMAL"
        /\ flag = 0 /\ batchInFlight = 0 /\ slot = FALSE
        /\ held = [f \in Frames |-> FALSE] /\ entered = [f \in Frames |-> 0]
        /\ mode = [f \in Frames |-> "none"]
        /\ pc = [f \in Frames |-> IF f \in cast THEN "idle" ELSE "done"]
        /\ regions = (IF cast = PlanFrames THEN 0 ELSE MaxRegions) /\ inRegion = FALSE
        /\ watchdogs = (IF cast = PlanFrames THEN 0 ELSE MaxWatchdogs)

CastSpec == CastInit /\ [][Next]_vars /\ BatchFairness
=============================================================================
