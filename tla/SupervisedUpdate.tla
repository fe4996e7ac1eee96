--------------------------- MODULE SupervisedUpdate ---------------------------
(***************************************************************************)
(* An update whose component runs under the supervisor:                    *)
(* SupervisorUpdateRuntime of supervisor/updater.py joins the steps of     *)
(* UpdateTransaction that restart and observe with those of Supervisor.    *)
(***************************************************************************)
EXTENDS Supervisor, UpdateTransaction

CONSTANT Updated    \* the component that is updated

VARIABLE watched    \* what restart_and_observe remembers of the component

NotWatched == [pc |-> "none", instance |-> 0, restarts |-> 0]
Watching(pc) == watched' = [watched EXCEPT !.pc = pc]

SupervisedInit == SupervisorInit /\ UpdateInit /\ watched = NotWatched

\* restart_component, with the status of before.
RestartUpdated ==
    /\ Known(Updated) /\ Restarted
    /\ IF Updated \in planned THEN UNCHANGED ownVars ELSE Restart(Updated)
    /\ watched' = [pc |-> "stop", instance |-> instance[Updated],
                   restarts |-> restartCount[Updated]]

RestartUnknown == ~Known(Updated) /\ RestartRaises /\ UNCHANGED <<ownVars, watched>>

Poll == UNCHANGED <<superVars, updateVars>>

OldEnded ==
    /\ watched.pc = "stop"
    /\ instance[Updated] # watched.instance \/ process[Updated] # "alive"
    /\ Watching("poll") /\ Poll

HasFailed ==
    \/ health[Updated] \in {"CRASH_LOOP", "SAFE_MODE"}
    \/ restartCount[Updated] > watched.restarts

\* The failure of the new instance is seen before its readiness.
NewReady ==
    /\ watched.pc = "poll" /\ ~HasFailed
    /\ instance[Updated] # watched.instance /\ health[Updated] = "HEALTHY"
    /\ watched' = [watched EXCEPT !.pc = "window", !.instance = instance[Updated]]
    /\ Poll

SameHealthy == instance[Updated] = watched.instance /\ health[Updated] = "HEALTHY"

\* The readiness timeout is longer than a launch, or what the monitor does with
\* an end that it is told of.
TimesOut == monitor[Updated] # "launch" /\ ~Ended(Updated)

Observed ==
    /\ \/ watched.pc = "poll" /\ (HasFailed \/ TimesOut) /\ Rejected
       \/ watched.pc = "window" /\ ~SameHealthy /\ Rejected
       \/ watched.pc = "window" /\ SameHealthy /\ Stable
    /\ watched' = NotWatched /\ UNCHANGED ownVars

\* The supervisor goes on meanwhile; when it ends, the call is lost.
Supervise ==
    /\ SupervisorNext
    /\ IF supervised' = {}
       THEN call' = NoCall /\ watched' = NotWatched
       ELSE UNCHANGED <<call, watched>>
    /\ UNCHANGED <<pointer, registry, tx, staged, changed, proven, losses>>

SupervisedNext ==
    \/ Supervise \/ RestartUpdated \/ RestartUnknown \/ OldEnded \/ NewReady \/ Observed
    \/ supervised # {} /\ UpdateStep /\ UNCHANGED <<ownVars, watched>>

SupervisedSpec ==
    SupervisedInit /\ [][SupervisedNext]_<<superVars, updateVars, watched>>

-----------------------------------------------------------------------------
\* Safe mode is for the double failure: a candidate ran and was rejected, and the
\* version that is restored runs and fails as well (docs/ARCHITECTURE.md:530
\* "Failure restores the previous version; double failure enters safe mode").
SafeModeNeedsDoubleFailure ==
    call.pc = "safe" /\ call.ran /\ ~Shutting => call.cause # "restart"
=============================================================================
