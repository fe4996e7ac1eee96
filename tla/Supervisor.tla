----------------------------- MODULE Supervisor -----------------------------
(***************************************************************************)
(* The trusted supervisor: the monitors of supervisor/manager.py over the  *)
(* processes of supervisor/process.py, what supervisor/persistence.py      *)
(* keeps of them, and the commands of supervisor/cli.py that start, stop   *)
(* and restore it.  One process supervises at a time (single_instance.py). *)
(* It may die between any two steps; the pipes it held then end, and the   *)
(* components with them.                                                   *)
(***************************************************************************)
EXTENDS SupervisorStore, Sequences, FiniteSets

CONSTANTS
    Order,              \* the components of cli.py, in the order of the tuple
    Critical,           \* ComponentSpec.critical
    MaximumFailures,    \* RestartPolicy.maximum_failures
    MaxLaunches,        \* bound: per component, its launches
    MaxFailures,        \* bound: failures, numbered 1 .. MaxFailures
    MaxRuns             \* bound: supervisors started one after the other

\* RestartPolicy.__post_init__ refuses a limit of no failures.
ASSUME SupervisorAssumption ==
    /\ Order \in Seq({Order[i] : i \in DOMAIN Order})
    /\ Critical \subseteq {Order[i] : i \in DOMAIN Order}
    /\ MaximumFailures \in Nat \ {0}
    /\ MaxFailures \in Nat /\ MaxRuns \in Nat

VARIABLES
    runs,               \* how many supervisors were started
    supervised,         \* the components of the one that runs; {} if none does
    monitor,            \* per component, where _monitor is
    process,            \* per component, the newest operating system process
    told,               \* components whose process was told to stop
    instance,           \* ComponentStatus.instance_id
    health,             \* ComponentStatus.health
    restartCount,       \* ComponentStatus.restart_count
    crashTimes,         \* crash_times of the monitor
    planned,            \* _planned_restarts
    shutdown,           \* how far shutdown() is
    toStop,             \* how many of the components it has still to stop
    failures,           \* history: how many failures were handled
    oldest,             \* the first failure that is within the crash window
    failed              \* history: the failures of each component

ownVars == <<runs, supervised, monitor, process, told, instance, health,
             restartCount, crashTimes, planned, shutdown, toStop, failures,
             oldest, failed>>
superVars == <<storeVars, ownVars>>

Components == {Order[i] : i \in DOMAIN Order}
Known(c) == monitor[c] \in {"starting", "stopping", "up"}   \* in _processes
Shutting == shutdown # "no"

SupervisorInit ==
    /\ StoreInit
    /\ runs = 0 /\ supervised = {}
    /\ monitor = [c \in Components |-> "off"]
    /\ process = [c \in Components |-> "none"]
    /\ told = {}
    /\ instance = [c \in Components |-> 0]
    /\ health = [c \in Components |-> "STOPPED"]
    /\ restartCount = [c \in Components |-> 0]
    /\ crashTimes = [c \in Components |-> {}]
    /\ planned = {} 
    /\ shutdown = "no" /\ toStop = 0
    /\ failures = 0 /\ oldest = 1
    /\ failed = [c \in Components |-> {}]

-----------------------------------------------------------------------------
(* Starting and launching *)

\* The iteration of a monitor's loop up to the launch it awaits.  That the new
\* instance is told the security state of the moment is left out.
Launching(cs) ==
    /\ monitor' = [c \in Components |-> IF c \in cs THEN "launch" ELSE monitor[c]]
    /\ instance' = [c \in Components |-> IF c \in cs THEN instance[c] + 1 ELSE instance[c]]

\* A supervisor that got the lock starts a monitor per component, none for a
\* critical one in persisted safe mode.  The user interface may be left out.
Start(cs) ==
    /\ supervised = {} /\ runs < MaxRuns
    /\ runs' = runs + 1
    /\ supervised' = cs
    /\ LET monitored == {c \in cs : ~(security.safeMode /\ c \in Critical)}
       IN /\ Launching(monitored)
          /\ health' = [c \in Components |->
                 IF c \in monitored THEN "STARTING"
                 ELSE IF c \in cs THEN "SAFE_MODE" ELSE health[c]]
    /\ crashTimes' = [c \in Components |->
           {n \in oldest .. failures : <<c, n>> \in journal}]
    /\ UNCHANGED <<security, journal, process, told, restartCount, planned,
                   shutdown, toStop, failures, oldest, failed>>

\* restore_capabilities_trusted, by the operator while nothing is supervised.
RestoreTrusted ==
    /\ supervised = {} /\ security.revoked /\ runs < MaxRuns
    /\ security' = Restored(security)
    /\ journal' = {}
    /\ failed' = [c \in Components |-> {}]
    /\ UNCHANGED <<runs, supervised, monitor, process, told, instance,
                   health, restartCount, crashTimes, planned, shutdown,
                   toStop, failures, oldest>>

\* create_subprocess_exec: the process runs before launch() returns.
Spawn(c) ==
    /\ monitor[c] = "launch" /\ process[c] = "none"
    /\ instance[c] <= MaxLaunches[c]
    /\ process' = [process EXCEPT ![c] = "alive"]
    /\ UNCHANGED <<runs, supervised, security, journal, monitor, told, instance,
                   health, restartCount, crashTimes, planned, shutdown,
                   toStop, failures, oldest, failed>>

Moves(c, from, to) == monitor[c] = from /\ monitor' = [monitor EXCEPT ![c] = to]

\* launch() returns and the process is registered, whatever happened meanwhile.
LaunchReturns(c) ==
    /\ process[c] # "none" /\ Moves(c, "launch", "starting")
    /\ UNCHANGED <<runs, supervised, security, journal, process, told, instance,
                   health, restartCount, crashTimes, planned, shutdown,
                   toStop, failures, oldest, failed>>

\* The report arrives.  HEALTHY stands for DEGRADED as well.
BecomesReady(c) ==
    /\ process[c] = "alive" /\ Moves(c, "starting", "up")
    /\ health' = [health EXCEPT ![c] = "HEALTHY"]
    /\ UNCHANGED <<runs, supervised, security, journal, process, told, instance,
                   restartCount, crashTimes, planned, shutdown,
                   toStop, failures, oldest, failed>>

\* No report in time, an invalid one or that of another instance.
ReadinessFails(c) ==
    /\ Moves(c, "starting", "stopping")
    /\ told' = told \cup {c}
    /\ UNCHANGED <<runs, supervised, security, journal, process, instance,
                   health, restartCount, crashTimes, planned, shutdown,
                   toStop, failures, oldest, failed>>

\* A component ends when it is told to, when it is killed after that, or by itself.
ProcessExits(c) ==
    /\ process[c] = "alive"
    /\ process' = [process EXCEPT ![c] = "exited"]
    /\ UNCHANGED <<runs, supervised, security, journal, monitor, told, instance,
                   health, restartCount, crashTimes, planned, shutdown,
                   toStop, failures, oldest, failed>>

-----------------------------------------------------------------------------
(* What a monitor does when its process has ended or could not be launched *)

Ended(c) ==
    \/ Known(c) /\ process[c] = "exited"
    \/ monitor[c] = "launch" /\ process[c] = "none"     \* launch_failed

Forgotten(c) ==
    /\ process' = [process EXCEPT ![c] = "none"]
    /\ told' = told \ {c}

MonitorStops(c) ==
    /\ Ended(c) /\ Shutting
    /\ Forgotten(c)
    /\ monitor' = [monitor EXCEPT ![c] = "ended"]
    /\ health' = [health EXCEPT ![c] = "STOPPED"]
    /\ UNCHANGED <<runs, supervised, security, journal, instance,
                   restartCount, crashTimes, planned, shutdown, toStop,
                   failures, oldest, failed>>

\* Variant: the mark of a planned restart stays.
PlannedRestart_KeepsMark(c) ==
    /\ Ended(c) /\ ~Shutting /\ c \in planned
    /\ Forgotten(c)
    /\ Launching({c})
    /\ health' = [health EXCEPT ![c] = "STARTING"]
    /\ UNCHANGED <<planned, runs, supervised, security, journal, restartCount,
                   crashTimes, shutdown, toStop, failures, oldest, failed>>

PlannedRestart(c) ==
    /\ Ended(c) /\ ~Shutting /\ c \in planned
    /\ Forgotten(c)
    /\ planned' = planned \ {c}
    /\ Launching({c})
    /\ health' = [health EXCEPT ![c] = "STARTING"]
    /\ UNCHANGED <<runs, supervised, security, journal, restartCount,
                   crashTimes, shutdown, toStop, failures, oldest, failed>>

\* Variant: whoever was ready clears them.
Counted_Cleared(c, stable) ==
    {failures + 1} \cup {n \in crashTimes[c] : n >= oldest /\ monitor[c] # "up"}

\* The failures within the window with the new one; an instance that was ready
\* for stable_after_s clears those before it.
Counted(c, stable) ==
    {failures + 1} \cup {n \in crashTimes[c] : n >= oldest /\ ~stable}

CrashLoop(times) == Cardinality(times) >= MaximumFailures

\* The failure of a critical component revokes; its crash loop is safe mode.
SecurityAfter(c, times) ==
    IF c \notin Critical THEN security
    ELSE IF CrashLoop(times) THEN InSafeMode(Revoked(security)) ELSE Revoked(security)

Fails(c) ==
    /\ Ended(c) /\ ~Shutting /\ c \notin planned
    /\ failures < MaxFailures
    /\ Forgotten(c)
    /\ failures' = failures + 1
    /\ restartCount' = [restartCount EXCEPT ![c] = @ + 1]
    /\ \E stable \in {FALSE, monitor[c] = "up"} :
           LET times == Counted(c, stable)
           IN /\ crashTimes' = [crashTimes EXCEPT ![c] = times]
              /\ failed' = [failed EXCEPT ![c] =
                     {failures + 1} \cup (IF stable THEN {} ELSE @)]
              /\ security' = SecurityAfter(c, times)
              /\ health' = [health EXCEPT ![c] =
                     IF CrashLoop(times) THEN "CRASH_LOOP" ELSE "UNHEALTHY"]
              /\ monitor' = [monitor EXCEPT ![c] =
                     IF CrashLoop(times) THEN "ended" ELSE "backoff"]
    /\ journal' = journal \cup {<<c, failures'>>}
    /\ UNCHANGED <<runs, supervised, instance, planned, shutdown,
                   toStop, oldest>>

\* Variant: a shutdown does not end the sleep.
BackoffEnds_Asleep(c) ==
    /\ monitor[c] = "backoff" /\ ~Shutting
    /\ Launching({c})
    /\ health' = [health EXCEPT ![c] = "STARTING"]
    /\ UNCHANGED <<runs, supervised, security, journal, process, told,
                   restartCount, crashTimes, planned, shutdown, toStop,
                   failures, oldest, failed>>

\* _sleep_or_shutdown, and the condition of the loop.
BackoffEnds(c) ==
    /\ monitor[c] = "backoff"
    /\ IF Shutting
       THEN /\ monitor' = [monitor EXCEPT ![c] = "ended"]
            /\ UNCHANGED <<instance, health>>
       ELSE /\ Launching({c})
            /\ health' = [health EXCEPT ![c] = "STARTING"]
    /\ UNCHANGED <<runs, supervised, security, journal, process, told,
                   restartCount, crashTimes, planned, shutdown, toStop,
                   failures, oldest, failed>>

\* The oldest failure leaves the crash window.
WindowMoves ==
    /\ oldest <= failures /\ oldest < MaxFailures
    /\ oldest' = oldest + 1
    /\ UNCHANGED <<runs, supervised, security, journal, monitor, process, told,
                   instance, health, restartCount, crashTimes, planned,
                   shutdown, toStop, failures, failed>>

-----------------------------------------------------------------------------
(* Planned restarts and shutdown *)

\* restart_component, for a component that asks for it or an update; it raises
\* for one that is not registered.  A second request changes nothing.
Restart(c) ==
    /\ Known(c) /\ c \notin planned
    /\ planned' = planned \cup {c}
    /\ told' = told \cup {c}
    /\ UNCHANGED <<runs, supervised, security, journal, monitor, process,
                   instance, health, restartCount, crashTimes, shutdown,
                   toStop, failures, oldest, failed>>

\* shutdown(), asked for by a signal, the window or the core.
ShutdownBegins ==
    /\ supervised # {} /\ shutdown = "no"
    /\ shutdown' = "stopping" /\ toStop' = Len(Order)
    /\ UNCHANGED <<runs, supervised, security, journal, monitor, process, told,
                   instance, health, restartCount, crashTimes, planned,
                   failures, oldest, failed>>

\* The components it finds registered are stopped one after the other.
ShutdownStops ==
    /\ toStop > 0
    /\ LET c == Order[toStop]
       IN IF Known(c) /\ process[c] = "alive"
          THEN c \notin told /\ told' = told \cup {c} /\ UNCHANGED toStop
          ELSE toStop' = toStop - 1 /\ UNCHANGED told
    /\ UNCHANGED <<runs, supervised, security, journal, monitor, process,
                   instance, health, restartCount, crashTimes, planned,
                   shutdown, failures, oldest, failed>>

\* Every monitor has returned.
ShutdownReturns ==
    /\ shutdown = "stopping" /\ toStop = 0
    /\ \A c \in Components : monitor[c] \in {"off", "ended"}
    /\ shutdown' = "done"
    /\ health' = [c \in Components |->
           IF c \notin supervised \/ health[c] \in {"CRASH_LOOP", "SAFE_MODE"}
           THEN health[c] ELSE "STOPPED"]
    /\ UNCHANGED <<runs, supervised, security, journal, monitor, process, told,
                   instance, restartCount, crashTimes, planned, toStop,
                   failures, oldest, failed>>

\* What the supervisor only holds in memory.
MemoryLost ==
    /\ supervised' = {}
    /\ monitor' = [c \in Components |-> "off"]
    /\ process' = [c \in Components |-> "none"]
    /\ told' = {} /\ planned' = {}
    /\ crashTimes' = [c \in Components |-> {}]
    /\ shutdown' = "no" /\ toStop' = 0

\* The supervisor ends after its shutdown, or dies.
SupervisorEnds ==
    /\ supervised # {}
    /\ MemoryLost
    /\ UNCHANGED <<runs, security, journal, instance, health,
                   restartCount, failures, oldest, failed>>

\* It dies after what it revoked was persisted and before the crash was.
DiesRecording(c) ==
    /\ Ended(c) /\ ~Shutting /\ c \notin planned /\ c \in Critical
    /\ MemoryLost
    /\ \/ security' = Revoked(security)
       \/ \E stable \in {FALSE, monitor[c] = "up"} :
              security' = SecurityAfter(c, Counted(c, stable))
    /\ UNCHANGED <<runs, journal, instance, health, restartCount,
                   failures, oldest, failed>>

-----------------------------------------------------------------------------
MonitorStep(c) ==
    \/ LaunchReturns(c) \/ MonitorStops(c) \/ PlannedRestart(c) \/ Fails(c)
    \/ BackoffEnds(c)

Environment(c) ==
    \/ Spawn(c) \/ BecomesReady(c) \/ ReadinessFails(c) \/ ProcessExits(c)

SupervisorStep ==
    \/ \E c \in Components : MonitorStep(c) \/ Environment(c) \/ DiesRecording(c)
    \/ WindowMoves \/ ShutdownBegins \/ ShutdownStops \/ ShutdownReturns
    \/ SupervisorEnds

SupervisorNext ==
    \/ Start(Components) \/ Start(Components \cap Critical)
    \/ RestoreTrusted
    \/ \E c \in Components : Restart(c)
    \/ SupervisorStep

\* The event loop runs, and a process that was told to stop ends or is killed.
SupervisorFairness ==
    /\ \A c \in Components :
           /\ WF_superVars(MonitorStep(c))
           /\ WF_superVars(c \in told /\ ProcessExits(c))
           /\ WF_superVars(Shutting /\ (Spawn(c) \/ MonitorStops(c)))
    /\ WF_superVars(ShutdownStops) /\ WF_superVars(ShutdownReturns)

SupervisorSpec ==
    SupervisorInit /\ [][SupervisorNext]_superVars /\ SupervisorFairness

-----------------------------------------------------------------------------
SupervisorTypeInv ==
    /\ supervised \subseteq Components
    /\ StoreTypeInv
    /\ journal \subseteq Components \X (1 .. MaxFailures)
    /\ monitor \in [Components ->
           {"off", "launch", "starting", "stopping", "up", "backoff", "ended"}]
    /\ process \in [Components -> {"none", "alive", "exited"}]
    /\ told \subseteq Components /\ planned \subseteq Components
    /\ health \in [Components ->
           {"STOPPED", "STARTING", "HEALTHY", "UNHEALTHY", "CRASH_LOOP", "SAFE_MODE"}]
    /\ shutdown \in {"no", "stopping", "done"}
    /\ toStop \in 0 .. Len(Order)
    /\ runs \in 0 .. MaxRuns
    /\ instance \in [Components -> Nat] /\ restartCount \in [Components -> Nat]
    /\ failures \in 0 .. MaxFailures /\ oldest \in 1 .. failures + 1
    /\ crashTimes \in [Components -> SUBSET (1 .. failures)]
    /\ failed \in [Components -> SUBSET (1 .. failures)]

\* The failures of a component that still count.
Recent(c) == {n \in failed[c] : n >= oldest}

\* A mark for a planned restart is used up by the very end it asked for, so it
\* excuses no later crash (manager.py _planned_restarts).
PlannedRestartIsUsedUp ==
    \A c \in planned : Known(c) \/ Shutting

\* A critical component that has failed once too often within the crash window
\* does not run again, not even under the next supervisor, until the operator
\* restores it (manager.py _monitor, persistence.py enter_safe_mode).
CrashLoopIsFinal ==
    \A c \in Critical : CrashLoop(Recent(c)) => monitor[c] \in {"off", "ended"}

\* The two together, with the types of what the supervisor keeps.
SupervisionIsSound ==
    SupervisorTypeInv /\ PlannedRestartIsUsedUp /\ CrashLoopIsFinal

\* Why the two hold.  A supervisor that is gone left nothing behind in memory;
\* what failed is in the journal, and a monitor that runs counts all of it that
\* is recent; a crash loop of a critical component left safe mode behind.
NothingIsLeft ==
    supervised = {} =>
        planned = {} /\ shutdown = "no" /\ (\A c \in Components : monitor[c] = "off")
FailuresAreCounted ==
    \A c \in Components :
        /\ \A n \in failed[c] : <<c, n>> \in journal
        /\ monitor[c] \notin {"off", "ended"} => Recent(c) \subseteq crashTimes[c]
CrashLoopIsKnown ==
    \A c \in Critical : CrashLoop(Recent(c)) => security.safeMode

SupervisorInv ==
    /\ SupervisionIsSound
    /\ NothingIsLeft /\ FailuresAreCounted /\ CrashLoopIsKnown

\* shutdown passed a component whose launch it could not see.
LaunchOvertaken ==
    \E c \in Components :
        /\ Shutting /\ process[c] = "alive" /\ c \notin told
        /\ toStop = 0

\* A shutdown that was asked for returns, unless a launch overtook it.
ShutdownCompletes ==
    shutdown = "stopping" ~> (shutdown # "stopping" \/ LaunchOvertaken)
=============================================================================
