-------------------------- MODULE UpdateTransaction --------------------------
(***************************************************************************)
(* Staged updates of a supervised component: supervisor/updater.py with    *)
(* the state it persists (update_store.py, update_models.py) and the       *)
(* version directories and pointer of update_layout.py.  Transaction t     *)
(* installs version t; version 0 is the one registered at first.  The      *)
(* coordinator is lost with the supervisor's process; what is persisted    *)
(* stays, and incomplete transactions are recovered before anything else   *)
(* is asked of it.  Its caller makes one call at a time.  How a restart    *)
(* turns out is open here; SupervisedUpdate composes it with Supervisor.   *)
(***************************************************************************)
EXTENDS SupervisorStore, FiniteSets

CONSTANTS
    MaxUpdates,     \* bound: transactions
    MaxFailed,      \* cleanup_failed(maximum_failed)
    MaxLosses,      \* bound: how often the coordinator is lost
    MayChange       \* whether an artifact on disk may change unexpectedly

VARIABLES
    pointer,        \* persisted: the version active.json names
    registry,       \* persisted: ComponentVersionState
    tx,             \* persisted: the transactions
    staged,         \* on disk: the version directories
    changed,        \* on disk: versions that no longer have their hash
    call,           \* the call of the coordinator that is going on
    proven,         \* history: the versions whose observation was accepted
    losses          \* how often the coordinator was lost

updateVars == <<pointer, registry, tx, staged, changed, call, proven, losses>>

Transactions == 1 .. MaxUpdates
NoCall == [pc |-> "none", tx |-> 0, back |-> FALSE, before |-> 0,
           ran |-> FALSE, cause |-> "none"]

UpdateInit ==
    /\ pointer = 0
    /\ registry = [active |-> 0, lastKnownGood |-> 0]
    /\ tx = [t \in Transactions |-> [state |-> "NONE", previous |-> 0, activated |-> FALSE]]
    /\ staged = {0} /\ changed = {} /\ proven = {0}
    /\ call = NoCall /\ losses = 0

Preparing == {"CREATED", "VERIFYING", "STAGING", "VALIDATING"}
Ambiguous == {"ACTIVATING", "OBSERVING", "ROLLING_BACK"}
Idling == call.pc = "none"
Recovered == \A t \in Transactions : tx[t].state \notin Preparing \cup Ambiguous

\* UpdateTransaction.transition and save_transaction.
Persist(t, state) == tx' = [tx EXCEPT ![t].state = state]
Go(pc) == call' = [call EXCEPT !.pc = pc]

\* cleanup_failed: of the versions that need not be kept, the newest stay.  Which
\* those are is up to the time stamps copied with the sources.
Cleanup(keep) ==
    LET others == staged \ keep
    IN \E stay \in SUBSET others :
           /\ Cardinality(stay) = IF Cardinality(others) < MaxFailed
                                  THEN Cardinality(others) ELSE MaxFailed
           /\ staged' = (staged \cap keep) \cup stay

-----------------------------------------------------------------------------
(* prepare *)

Prepare(t) ==
    /\ Idling /\ Recovered /\ tx[t].state = "NONE"
    /\ \A u \in 1 .. t - 1 : tx[u].state # "NONE"
    /\ tx' = [tx EXCEPT ![t] = [state |-> "CREATED", previous |-> registry.active,
                                activated |-> FALSE]]
    /\ call' = [NoCall EXCEPT !.pc = "prepare", !.tx = t]
    /\ UNCHANGED <<storeVars, pointer, registry, staged, changed, proven, losses>>

\* Verified, staged and validated, the candidate is READY.  What save_component
\* then stores differs in the candidate it names, which nobody reads.
PrepareStep ==
    /\ call.pc = "prepare"
    /\ LET t == call.tx
           step == [CREATED |-> "VERIFYING", VERIFYING |-> "STAGING",
                    STAGING |-> "VALIDATING", VALIDATING |-> "READY"]
       IN /\ Persist(t, step[tx[t].state])
          /\ staged' = IF tx[t].state = "STAGING" THEN staged \cup {t} ELSE staged
          /\ IF tx[t].state = "VALIDATING" THEN call' = NoCall ELSE UNCHANGED call
    /\ UNCHANGED <<storeVars, pointer, registry, changed, proven, losses>>

\* It is refused, its validation fails, or the caller cancels it.
PrepareFails ==
    /\ call.pc = "prepare" /\ tx[call.tx].state # "CREATED"
    /\ Persist(call.tx, "FAILED")
    /\ Cleanup({registry.active, registry.lastKnownGood})
    /\ call' = NoCall
    /\ UNCHANGED <<storeVars, pointer, registry, changed, proven, losses>>

-----------------------------------------------------------------------------
(* activate *)

\* A candidate that is missing is refused as it is, one that changed fails.
Activate(t) ==
    /\ Idling /\ Recovered /\ tx[t].state = "READY" /\ t \in staged
    /\ IF t \in changed
       THEN Persist(t, "FAILED") /\ UNCHANGED <<call, storeVars>>
       ELSE /\ security' = Revoked(security) /\ UNCHANGED journal
            /\ tx' = [tx EXCEPT ![t].state = "ACTIVATING", ![t].activated = TRUE]
            /\ call' = [NoCall EXCEPT !.pc = "switch", !.tx = t, !.before = registry.active]
    /\ UNCHANGED <<pointer, registry, staged, changed, proven, losses>>

Target == IF call.back THEN tx[call.tx].previous ELSE call.tx

\* What fails while a candidate is activated is rolled back, what fails while it
\* is rolled back fails for good.
Broken(cause) ==
    IF call.back THEN call' = [call EXCEPT !.pc = "fail", !.cause = cause]
    ELSE Go("rollback")

\* VersionLayout.activate replaces the pointer in one step.
SwitchPointer ==
    /\ call.pc = "switch"
    /\ \/ pointer' = Target /\ Go("register")
       \/ Broken("switch") /\ UNCHANGED pointer
    /\ UNCHANGED <<storeVars, registry, tx, staged, changed, proven, losses>>

Register ==
    /\ call.pc = "register"
    /\ registry' = [active |-> Target,
                    lastKnownGood |-> IF call.back THEN Target ELSE registry.lastKnownGood]
    /\ Go(IF call.back THEN "restart" ELSE "mark")
    /\ UNCHANGED <<storeVars, pointer, tx, staged, changed, proven, losses>>

MarkObserving ==
    /\ call.pc = "mark"
    /\ Persist(call.tx, "OBSERVING")
    /\ Go("restart")
    /\ UNCHANGED <<storeVars, pointer, registry, staged, changed, proven, losses>>

\* Variant: without the hash of what was observed.
Accept_Unchecked ==
    /\ call.pc = "accepted" /\ ~call.back
    /\ registry' = [active |-> call.tx, lastKnownGood |-> call.tx]
    /\ proven' = IF call.tx \in changed THEN proven ELSE proven \cup {call.tx}
    /\ Go("commit")
    /\ UNCHANGED <<storeVars, pointer, tx, staged, changed, losses>>

\* What was observed is what was staged: it is the last known good version.
Accept ==
    /\ call.pc = "accepted" /\ ~call.back
    /\ IF call.tx \in changed
       THEN Go("rollback") /\ UNCHANGED <<registry, proven, losses>>
       ELSE /\ registry' = [active |-> call.tx, lastKnownGood |-> call.tx]
            /\ proven' = proven \cup {call.tx}
            /\ Go("commit")
    /\ UNCHANGED <<storeVars, pointer, tx, staged, changed, losses>>

Commit ==
    /\ call.pc = "commit"
    /\ Persist(call.tx, "COMMITTED")
    /\ Cleanup({call.tx, call.before})
    /\ call' = NoCall
    /\ UNCHANGED <<storeVars, pointer, registry, changed, proven, losses>>

-----------------------------------------------------------------------------
(* SupervisorUpdateRuntime.restart_and_observe *)

NothingPersisted ==
    UNCHANGED <<storeVars, pointer, registry, tx, staged, changed, proven, losses>>

\* restart_component returns, or raises if no process is registered.
Restarted ==
    /\ call.pc = "restart"
    /\ call' = [call EXCEPT !.pc = "observe", !.ran = TRUE]
    /\ NothingPersisted

RestartRaises ==
    /\ call.pc = "restart"
    /\ Broken("restart")
    /\ NothingPersisted

\* A new instance was ready and stayed so for the window.
Stable ==
    /\ call.pc = "observe"
    /\ Go("accepted")
    /\ NothingPersisted

\* It gave up, failed, was not ready in time or changed during the window.
Rejected ==
    /\ call.pc = "observe"
    /\ Broken("health")
    /\ NothingPersisted

-----------------------------------------------------------------------------
(* _rollback and recovery *)

BeginRollback ==
    /\ call.pc = "rollback"
    /\ Persist(call.tx, "ROLLING_BACK")
    /\ call' = [call EXCEPT !.pc = "target", !.back = TRUE]
    /\ UNCHANGED <<storeVars, pointer, registry, staged, changed, proven, losses>>

\* The version to go back to is there and what it was, or the rollback fails.
CheckTarget ==
    /\ call.pc = "target"
    /\ IF Target \in staged \ changed
       THEN security' = Revoked(security) /\ UNCHANGED journal /\ Go("switch")
       ELSE Broken("target") /\ UNCHANGED storeVars
    /\ UNCHANGED <<pointer, registry, tx, staged, changed, proven, losses>>

RolledBack ==
    /\ call.pc = "accepted" /\ call.back
    /\ Persist(call.tx, "ROLLED_BACK")
    /\ Cleanup({Target, call.tx})
    /\ call' = NoCall
    /\ UNCHANGED <<storeVars, pointer, registry, changed, proven, losses>>

FailRollback ==
    /\ call.pc = "fail"
    /\ Persist(call.tx, "FAILED")
    /\ Go("safe")
    /\ UNCHANGED <<storeVars, pointer, registry, staged, changed, proven, losses>>

\* SupervisorStore.enter_safe_mode; the running supervisor does not look at it.
EnterSafeMode ==
    /\ call.pc = "safe"
    /\ security' = InSafeMode(security) /\ UNCHANGED journal
    /\ call' = NoCall
    /\ UNCHANGED <<pointer, registry, tx, staged, changed, proven, losses>>

\* Variant: an activation that had not switched the registry is given up as if
\* the candidate had not become READY.
Recover_Activating(t) ==
    /\ Idling
    /\ \/ /\ tx[t].state \in Ambiguous \ {"ACTIVATING"}
          /\ call' = [NoCall EXCEPT !.pc = "rollback", !.tx = t, !.before = registry.active]
          /\ UNCHANGED tx
       \/ /\ tx[t].state \in Preparing \cup {"ACTIVATING"}
          /\ tx' = [tx EXCEPT ![t].state = "FAILED", ![t].activated = FALSE]
          /\ UNCHANGED call
    /\ UNCHANGED <<storeVars, pointer, registry, staged, changed, proven, losses>>

\* recover_incomplete: an update that may have switched is rolled back, one that
\* was not READY has failed.
Recover(t) ==
    /\ Idling
    /\ \/ /\ tx[t].state \in Ambiguous
          /\ call' = [NoCall EXCEPT !.pc = "rollback", !.tx = t, !.before = registry.active]
          /\ UNCHANGED tx
       \/ tx[t].state \in Preparing /\ Persist(t, "FAILED") /\ UNCHANGED call
    /\ UNCHANGED <<storeVars, pointer, registry, staged, changed, proven, losses>>

-----------------------------------------------------------------------------
\* Something writes into a version directory.
ArtifactChanges(v) ==
    /\ MayChange /\ v \in staged /\ changed = {}
    /\ changed' = {v}
    /\ UNCHANGED <<storeVars, pointer, registry, tx, staged, call, proven, losses>>

\* The process of the supervisor ends or dies.
CoordinatorLost ==
    /\ call.pc # "none" /\ losses < MaxLosses
    /\ call' = NoCall /\ losses' = losses + 1
    /\ UNCHANGED <<storeVars, pointer, registry, tx, staged, changed, proven>>

UpdateStep ==
    \/ PrepareStep \/ PrepareFails \/ SwitchPointer \/ Register \/ MarkObserving
    \/ Accept \/ Commit \/ BeginRollback \/ CheckTarget \/ RolledBack
    \/ FailRollback \/ EnterSafeMode
    \/ \E t \in Transactions : Prepare(t) \/ Activate(t) \/ Recover(t)
    \/ \E v \in 0 .. MaxUpdates : ArtifactChanges(v)

UpdateNext ==
    \/ UpdateStep
    \/ Restarted \/ RestartRaises \/ Stable \/ Rejected
    \/ CoordinatorLost

UpdateSpec == StoreInit /\ UpdateInit /\ [][UpdateNext]_<<storeVars, updateVars>>

-----------------------------------------------------------------------------
States == Preparing \cup Ambiguous \cup {"NONE", "READY", "COMMITTED", "ROLLED_BACK", "FAILED"}

\* From where on the version to run is there, the pointer names it, and so does the
\* registry.
Registered == {"mark", "restart", "observe", "accepted", "commit"}
Pointed == {"register"} \cup Registered
Found == {"switch"} \cup Pointed
Pcs == Found \cup {"prepare", "rollback", "target", "fail", "safe"}
Calls == [pc : Pcs, tx : Transactions, back : BOOLEAN, before : 0 .. MaxUpdates, ran : BOOLEAN,
          cause : {"none", "switch", "restart", "health", "target"}]

UpdateTypeInv ==
    /\ StoreTypeInv
    /\ pointer \in 0 .. MaxUpdates
    /\ registry \in [active : 0 .. MaxUpdates, lastKnownGood : 0 .. MaxUpdates]
    /\ staged \cup changed \cup proven \subseteq 0 .. MaxUpdates
    /\ tx \in [Transactions -> [state : States, previous : 0 .. MaxUpdates, activated : BOOLEAN]]
    /\ call \in Calls \cup {NoCall}

\* A rollback failed: the operator has been asked for help by safe mode.
RollbackFailed ==
    \E t \in Transactions : tx[t].state = "FAILED" /\ tx[t].activated

\* Whatever the supervisor's end interrupted, after recovery the pointer the
\* launcher resolves and the registry name one version, and it is on disk
\* (updater.py recover_incomplete, update_layout.py activate).
PointerMatchesRegistry ==
    call.pc = "none" /\ Recovered /\ ~RollbackFailed =>
        pointer = registry.active /\ pointer \in staged

\* The last known good version was observed to be good, as it was staged
\* (updater.py activate, _rollback).
LastKnownGoodWasObserved ==
    registry.lastKnownGood \in proven \/ RollbackFailed

\* After a recovery the pointer and the registry name one version that is there,
\* and the last known good one was observed.
UpdateIsRecoverable ==
    UpdateTypeInv /\ PointerMatchesRegistry /\ LastKnownGoodWasObserved

-----------------------------------------------------------------------------
(* The inductive invariant of the transactions.                             *)

Unfinished == {t \in Transactions : tx[t].state \in Preparing \cup Ambiguous}

\* At most one transaction is unfinished, and it is the one the call is about.
OneIsUnfinished ==
    /\ \A t, u \in Unfinished : t = u
    /\ call.pc \notin {"none", "safe"} =>
           IF call.pc = "prepare" THEN tx[call.tx].state \in Preparing
           ELSE tx[call.tx].state \in Ambiguous
    /\ \A t \in Transactions : tx[t].state \in Ambiguous => tx[t].activated

\* What can be gone back to was observed, and so was what runs when no activation
\* is going on.
VersionsWereObserved ==
    /\ registry.lastKnownGood \in proven
    /\ \A t \in Transactions : tx[t].previous \in proven
    /\ (\A t \in Transactions : tx[t].state \notin Ambiguous) =>
           pointer = registry.active /\ pointer \in staged \cap proven

\* How far the switch to the version of the call has come.
SwitchIsOrdered ==
    /\ call.pc \in Found => Target \in staged
    /\ call.pc \in Pointed => pointer = Target
    /\ call.pc \in Registered => registry.active = Target
    /\ call.pc = "commit" => ~call.back /\ call.tx \in proven

UpdateInv ==
    /\ UpdateTypeInv /\ OneIsUnfinished
    /\ RollbackFailed \/ (VersionsWereObserved /\ SwitchIsOrdered)

=============================================================================
