------------------------------ MODULE Supervisor ------------------------------
(***************************************************************************)
(* The process supervisor: createBotSupervisor() of modules/launcher/      *)
(* bot_supervisor.ts.  Each app (a bot, the market adapter, the updater    *)
(* job) has a state and at most one child process named by it.  Children   *)
(* are started by the start-up loop, the close handler of the previous     *)
(* child, a restart timer, a cron timer and the commands of the control    *)
(* socket; they may end at any time, with a clean exit or not, so SIGTERM  *)
(* is not a step of its own.  Sizes of memory and the clock are left out:  *)
(* a memory check may find any running child too large, and an exit may    *)
(* come before or after minUptimeMs.                                       *)
(***************************************************************************)
EXTENDS Naturals, Sequences

CONSTANTS
    AppOrder,        \* the apps in the order start() takes them
    Jobs,            \* those with a cron schedule, autorestart false, bulk_control false
    MaxRestarts

Apps == {AppOrder[i] : i \in 1 .. Len(AppOrder)}

\* Names are unique: settings with two bots of one name are refused
\* (assertNoDuplicateBotKeys()), and the jobs have names of their own.
ASSUME SupervisorAssumption ==
    /\ MaxRestarts \in Nat \ {0}
    /\ AppOrder \in Seq(Apps)
    /\ \A i, j \in 1 .. Len(AppOrder) : AppOrder[i] = AppOrder[j] => i = j

\* Two processes of one app are enough to see a stray one.
Slots == 1 .. 2

VARIABLES
    app,             \* botStates
    next,            \* where the loop of start() stands
    starting,        \* it awaits the spawn of AppOrder[next]
    bulk,            \* restartRunning() or restartAll() awaits the adapter's end
    userStopped,
    shuttingDown,
    ending           \* the promise of shutdown(): "none", "pending" or "resolved"

supervisorVars == <<app, next, starting, bulk, userStopped, shuttingDown, ending>>

SupervisorInit ==
    /\ app = [a \in Apps |->
                [status |-> "starting", child |-> 0, processes |-> [n \in Slots |-> "none"],
                 pendingRestart |-> FALSE, stoppedByUser |-> FALSE, restartCount |-> 0,
                 restartTimer |-> FALSE, cronTimer |-> FALSE, cronAwaits |-> FALSE]]
    /\ next = 1 /\ starting = FALSE
    /\ bulk = "none"
    /\ userStopped = FALSE /\ shuttingDown = FALSE
    /\ ending = "none"

-----------------------------------------------------------------------------
AllStopped(f) == \A a \in Apps : f[a].status \notin {"running", "restarting", "starting"}

\* checkAllStopped() with the states f.
CheckAllStopped(f) ==
    ending' = IF ending = "pending" /\ AllStopped(f) THEN "resolved" ELSE ending

\* spawnApp() on the state s of an app; during a shutdown it starts nothing.
Spawned(s) ==
    IF shuttingDown
      THEN [s EXCEPT !.status = "stopped"]
      ELSE LET n == CHOOSE m \in Slots : s.processes[m] = "none"
           IN [s EXCEPT !.status = "running", !.child = n, !.processes[n] = "launching",
                        !.stoppedByUser = FALSE]

Becomes(a, s) ==
    LET f == [app EXCEPT ![a] = s] IN app' = f /\ CheckAllStopped(f)

AsLong(f) == app' = f /\ UNCHANGED ending

\* scheduleNextRun() arms nothing for an app without a schedule or during a shutdown.
Scheduled(a, s) == [s EXCEPT !.cronTimer = a \in Jobs /\ ~shuttingDown]

-----------------------------------------------------------------------------
\* start(): the next app.
StartNext ==
    /\ next <= Len(AppOrder) /\ ~starting
    /\ Becomes(AppOrder[next], Spawned(app[AppOrder[next]]))
    /\ starting' = ~shuttingDown
    /\ next' = IF shuttingDown THEN next + 1 ELSE next
    /\ UNCHANGED <<bulk, userStopped, shuttingDown>>

\* The loop is over: the jobs are scheduled.
ScheduleJobs ==
    /\ next = Len(AppOrder) + 1
    /\ AsLong([a \in Apps |-> Scheduled(a, app[a])])
    /\ next' = next + 1
    /\ UNCHANGED <<starting, bulk, userStopped, shuttingDown>>

\* The child's "spawn" or "error" event, for whoever awaits it: the loop of start() or
\* a cron run, which both mark a failed app crashed.
Launched(a, fails) ==
    LET awaitedByStart == starting /\ AppOrder[next] = a
        s == [app[a] EXCEPT
                !.processes[app[a].child] = IF fails THEN "failed" ELSE "up",
                !.status = IF fails /\ (awaitedByStart \/ app[a].cronAwaits)
                             THEN "crashed" ELSE @,
                !.cronAwaits = FALSE]
    IN /\ app[a].child # 0 /\ app[a].processes[app[a].child] = "launching"
       /\ AsLong([app EXCEPT ![a] = IF app[a].cronAwaits THEN Scheduled(a, s) ELSE s])
       /\ starting' = (starting /\ ~awaitedByStart)
       /\ next' = IF awaitedByStart THEN next + 1 ELSE next
       /\ UNCHANGED <<bulk, userStopped, shuttingDown>>

\* Mutation: a job that fails is restarted like a bot.
AlwaysRestarts(a) == TRUE
AutoRestart(a) == a \notin Jobs

\* An unclean exit that nobody asked for.
Crashed(a, s, stable) ==
    LET count == IF stable THEN 0 ELSE s.restartCount + 1
    IN IF ~AutoRestart(a)
         THEN [s EXCEPT !.status = "crashed"]
         ELSE IF count >= MaxRestarts
           THEN [s EXCEPT !.status = "crashed", !.restartCount = count]
           ELSE [s EXCEPT !.status = "restarting", !.restartCount = count,
                          !.restartTimer = TRUE]

\* The close handler of a child.
Close(a, n, clean, stable) ==
    LET s == [app[a] EXCEPT !.processes[n] = "none", !.child = 0]
    IN /\ app[a].processes[n] \in {"up", "failed", "killed"}
       /\ app[a].processes[n] \in {"failed", "killed"} => ~clean
       /\ Becomes(a, IF shuttingDown
                       THEN [s EXCEPT !.status = "stopped"]
                       ELSE IF s.pendingRestart
                         THEN Spawned([s EXCEPT !.pendingRestart = FALSE])
                         ELSE IF clean
                           THEN [s EXCEPT !.status = "stopped"]
                           ELSE Crashed(a, s, stable))
       /\ UNCHANGED <<next, starting, bulk, userStopped, shuttingDown>>

\* The timer set by the close handler; no shutdown and no command clears it.
RestartTimer(a) ==
    LET s == [app[a] EXCEPT !.restartTimer = FALSE]
    IN /\ app[a].restartTimer
       /\ AsLong([app EXCEPT ![a] = IF shuttingDown THEN s ELSE Spawned(s)])
       /\ UNCHANGED <<next, starting, bulk, userStopped, shuttingDown>>

\* A scheduled run, skipped while the previous one is active.  A child that could not be
\* spawned closes long before the next minute of a schedule.
CronTimer(a) ==
    LET s == [app[a] EXCEPT !.cronTimer = FALSE]
    IN /\ app[a].cronTimer /\ \A n \in Slots : s.processes[n] # "failed"
       /\ AsLong([app EXCEPT ![a] =
                    IF s.status = "running" \/ s.pendingRestart
                      THEN Scheduled(a, s)
                      ELSE [Spawned(s) EXCEPT !.cronAwaits = TRUE]])
       /\ UNCHANGED <<next, starting, bulk, userStopped, shuttingDown>>

-----------------------------------------------------------------------------
Running(a) == app[a].status = "running" /\ app[a].child # 0

\* runMemoryCheck() finds a; the jobs have no limit.
MemoryCheck(a) ==
    /\ ~shuttingDown /\ a \notin Jobs /\ Running(a)
    /\ AsLong([app EXCEPT ![a].pendingRestart = TRUE])
    /\ UNCHANGED <<next, starting, bulk, userStopped, shuttingDown>>

StopCommand(a) ==
    /\ ~shuttingDown
    /\ app[a].status = "running"
    /\ AsLong([app EXCEPT ![a].pendingRestart = FALSE, ![a].stoppedByUser = TRUE])
    /\ userStopped' = TRUE
    /\ UNCHANGED <<next, starting, bulk, shuttingDown>>

MayRestart(a) ==
    (userStopped \/ app[a].stoppedByUser) /\ app[a].status = "stopped"

RestartCommand(a) ==
    /\ ~shuttingDown
    /\ AsLong([app EXCEPT ![a] =
                 IF Running(a) THEN [@ EXCEPT !.pendingRestart = TRUE]
                 ELSE IF MayRestart(a) THEN Spawned(@) ELSE @])
    /\ UNCHANGED <<next, starting, bulk, userStopped, shuttingDown>>

StopAll ==
    /\ ~shuttingDown
    /\ userStopped' = TRUE
    /\ AsLong([a \in Apps |->
                 IF a \in Jobs THEN app[a]
                 ELSE [app[a] EXCEPT !.pendingRestart = FALSE,
                                     !.stoppedByUser = @ \/ Running(a)]])
    /\ UNCHANGED <<next, starting, bulk, shuttingDown>>

\* restartRunning(), up to its await, alone or as the first half of restartAll().
BulkRestart(kind) ==
    /\ ~shuttingDown
    /\ bulk = "none"
    /\ bulk' = kind
    /\ userStopped' = FALSE
    /\ AsLong([a \in Apps |->
                 [app[a] EXCEPT !.pendingRestart = @ \/ (a \notin Jobs /\ Running(a))]])
    /\ UNCHANGED <<next, starting, shuttingDown>>

\* The rest, a shutdown or not: restartAll() starts what the user had stopped.
BulkContinues ==
    /\ bulk # "none"
    /\ bulk' = "none"
    /\ LET revived == {a \in Apps \ Jobs : /\ bulk = "all" /\ app[a].status = "stopped"
                                           /\ app[a].stoppedByUser}
       IN app' = [a \in Apps |-> IF a \in revived THEN Spawned(app[a]) ELSE app[a]]
    /\ CheckAllStopped(app')
    /\ UNCHANGED <<next, starting, userStopped, shuttingDown>>

-----------------------------------------------------------------------------
\* shutdown(): the delete command, or the cleanup of the launcher.
Shutdown ==
    /\ ~shuttingDown
    /\ shuttingDown' = TRUE
    /\ userStopped' = FALSE
    /\ app' = [a \in Apps |-> [app[a] EXCEPT !.cronTimer = FALSE]]
    /\ ending' = IF AllStopped(app) THEN "resolved" ELSE "pending"
    /\ UNCHANGED <<next, starting, bulk>>

\* Its first timer: SIGKILL for every child that is left.
ForceKill ==
    /\ ending = "pending"
    /\ app' = [a \in Apps |->
                 LET s == app[a]
                 IN IF s.child # 0 /\ s.status # "stopped"
                      THEN [s EXCEPT !.processes[s.child] = "killed", !.status = "stopped",
                                     !.child = 0]
                      ELSE s]
    /\ ending' = "resolved"
    /\ UNCHANGED <<next, starting, bulk, userStopped, shuttingDown>>

SupervisorNext ==
    \/ StartNext \/ ScheduleJobs
    \/ \E a \in Apps :
          \/ \E fails \in BOOLEAN : Launched(a, fails)
          \/ \E n \in Slots, clean, stable \in BOOLEAN : Close(a, n, clean, stable)
          \/ RestartTimer(a) \/ CronTimer(a)
          \/ MemoryCheck(a) \/ StopCommand(a) \/ RestartCommand(a)
    \/ StopAll \/ \E kind \in {"running", "all"} : BulkRestart(kind)
    \/ BulkContinues
    \/ Shutdown \/ ForceKill

SupervisorSpec == SupervisorInit /\ [][SupervisorNext]_supervisorVars

-----------------------------------------------------------------------------
\* Whatever timers, commands and exits come together, no process is lost sight of: one
\* that lives is the child its app's state names, or has been sent SIGKILL.  So an app
\* never runs twice, and nothing outlives a shutdown.
NoStrayProcess ==
    \A a \in Apps, n \in Slots :
        app[a].processes[n] \in {"launching", "up"} => app[a].child = n
===============================================================================
