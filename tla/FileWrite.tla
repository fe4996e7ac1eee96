------------------------------ MODULE FileWrite ------------------------------
(***************************************************************************)
(* files.write (core/tools/filesystem.py): _atomic_write_utf8 in worker    *)
(* threads that no deadline and no cancellation stops, several at once on  *)
(* one path, beside other programs.  The content is written to a temporary *)
(* file of the same directory and then renamed or linked to the target.    *)
(***************************************************************************)
EXTENDS FiniteSets

CONSTANTS
    Careful,        \* calls without overwrite
    Replacing       \* calls with overwrite=true

VARIABLES
    at,             \* where each call is
    existed,        \* whether a call saw a target when it began
    target,         \* whose content the target has, "other" or "none"
    temporary,      \* temporary files: "empty" or "whole", by call
    told,           \* what each call reported
    replaced        \* history: the calls that took a place, and whose it was

writeVars == <<at, existed, target, temporary, told, replaced>>
Calls == Careful \cup Replacing

WriteInit ==
    /\ at = [c \in Calls |-> "begin"] /\ existed = [c \in Calls |-> FALSE]
    /\ target \in {"none", "other"}
    /\ temporary = [c \in Calls |-> "none"] /\ told = [c \in Calls |-> "nothing"]
    /\ replaced = {}

To(c, next) == at' = [at EXCEPT ![c] = next]
Temp(c, t) == temporary' = [temporary EXCEPT ![c] = t]
Tells(c, what) == told' = [told EXCEPT ![c] = what]

Begin(c) ==
    /\ at[c] = "begin" /\ existed' = [existed EXCEPT ![c] = target # "none"]
    /\ IF target # "none" /\ c \in Careful
       THEN To(c, "end") /\ Tells(c, "exists") /\ UNCHANGED temporary
       ELSE To(c, "write") /\ Temp(c, "empty") /\ UNCHANGED told
    /\ UNCHANGED <<target, replaced>>

Write(c) ==
    /\ at[c] = "write" /\ To(c, "place") /\ Temp(c, "whole")
    /\ UNCHANGED <<existed, target, told, replaced>>

\* os.replace takes the place of what is there, os.link fails if something is.
Placed_Renamed(c) == target' = c
Placed(c) == /\ c \in Careful => target = "none"
             /\ target' = c

Place(c) ==
    /\ at[c] = "place" /\ Placed(c)
    /\ To(c, "unlink")
    /\ Temp(c, IF c \in Careful THEN "whole" ELSE "none")
    /\ Tells(c, IF existed[c] THEN "overwritten" ELSE "created")
    /\ replaced' = replaced \cup {[call |-> c, of |-> target, with |-> temporary[c]]}
    /\ UNCHANGED existed

PlaceTaken(c) ==
    /\ at[c] = "place" /\ c \in Careful /\ target # "none"
    /\ To(c, "unlink") /\ Tells(c, "exists")
    /\ UNCHANGED <<existed, target, temporary, replaced>>

\* An OSError in the way.
Fails(c) ==
    /\ at[c] \in {"write", "place"}
    /\ To(c, "unlink") /\ Tells(c, "failed")
    /\ UNCHANGED <<existed, target, temporary, replaced>>

\* The finally clause.
Unlink(c) ==
    /\ at[c] = "unlink" /\ To(c, "end") /\ Temp(c, "none")
    /\ UNCHANGED <<existed, target, told, replaced>>

\* A temporary file that stays, and an error for a file that may be in place.
UnlinkFails(c) ==
    /\ at[c] = "unlink" /\ temporary[c] # "none"
    /\ To(c, "end") /\ Tells(c, "failed")
    /\ UNCHANGED <<existed, target, temporary, replaced>>

Outside ==
    /\ target' \in {"none", "other"} \ {target}
    /\ \E c \in Calls : at[c] # "end"
    /\ UNCHANGED <<at, existed, temporary, told, replaced>>

WriteNext ==
    \/ \E c \in Calls : Begin(c) \/ Write(c) \/ Place(c) \/ PlaceTaken(c) \/ Fails(c)
                        \/ Unlink(c) \/ UnlinkFails(c)
    \/ Outside

WriteSpec == WriteInit /\ [][WriteNext]_writeVars

-----------------------------------------------------------------------------
\* A call without overwrite takes the place of nothing, even of a file that
\* came into being after it looked, and what is put in place is whole; an
\* answer other than "failed" says whether the call put its content there
\* (_atomic_write_utf8).
NothingIsOverwritten ==
    /\ \A r \in replaced : /\ r.call \in Careful => r.of = "none"
                           /\ r.with = "whole"
    /\ \A c \in Calls : at[c] = "end" /\ told[c] # "failed" =>
           (told[c] \in {"created", "overwritten"}) = (\E r \in replaced : r.call = c)

\* What a call reports is what it did; not held with overwrite, where the answer
\* is the look it began with.
ReportIsTrue ==
    [][\A c \in Calls : told'[c] # told[c] =>
          /\ told'[c] = "created" => target = "none"
          /\ told'[c] = "overwritten" => target # "none"]_writeVars

-----------------------------------------------------------------------------
(* The inductive invariant of the writes                                    *)

WriteTypes ==
    /\ at \in [Calls -> {"begin", "write", "place", "unlink", "end"}]
    /\ temporary \in [Calls -> {"none", "empty", "whole"}]
    /\ told \in [Calls -> {"nothing", "exists", "created", "overwritten", "failed"}]

HasPlaced(c) == \E r \in replaced : r.call = c

\* Only a whole file is placed; who has not come to place has told nothing, and
\* who has placed told so, until the cleanup fails.
PlacesAreTold ==
    /\ \A r \in replaced : /\ r.call \in Careful => r.of = "none"
                           /\ r.with = "whole"
    /\ \A c \in Calls :
          /\ at[c] = "place" => temporary[c] = "whole"
          /\ at[c] \in {"begin", "write", "place"} => ~HasPlaced(c)
          /\ at[c] \in {"unlink", "end"} /\ told[c] # "failed" =>
                (told[c] \in {"created", "overwritten"}) = HasPlaced(c)

WritesInv == WriteTypes /\ PlacesAreTold
=============================================================================
