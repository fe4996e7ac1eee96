-------------------------- MODULE SupervisorStore --------------------------
(***************************************************************************)
(* What the supervisor keeps in SQLite about its components and shares     *)
(* with the updater (supervisor/persistence.py).  Every operation is one   *)
(* transaction; enter_safe_mode is two.                                    *)
(***************************************************************************)
EXTENDS Naturals

VARIABLES
    security,       \* SecurityState
    journal         \* the crash journal: <<component, number of the failure>>

storeVars == <<security, journal>>

StoreInit ==
    /\ security = [epoch |-> 0, revoked |-> FALSE, safeMode |-> FALSE]
    /\ journal = {}

\* revoke_capabilities: every revocation is a new epoch, so leases of any
\* earlier one are void.
Revoked(s) == [s EXCEPT !.epoch = @ + 1, !.revoked = TRUE]

\* enter_safe_mode, which revokes unless that was done.
InSafeMode(s) ==
    [(IF s.revoked THEN s ELSE Revoked(s)) EXCEPT !.safeMode = TRUE]

\* restore_capabilities_trusted
Restored(s) == [epoch |-> s.epoch + 1, revoked |-> FALSE, safeMode |-> FALSE]

StoreTypeInv == security \in [epoch : Nat, revoked : BOOLEAN, safeMode : BOOLEAN]
=============================================================================
