--------------------------- MODULE MCOwnerBridge ---------------------------
(***************************************************************************)
(* Two clients.  In the scenario of the bridge one starts an action and    *)
(* asks for a rescan, and the other cancels and shuts the runtime down.    *)
(* In that of the actions both send the same request, as a client does     *)
(* that connects again, and may cancel it.                                 *)
(***************************************************************************)
EXTENDS OwnerBridge

VARIABLE scenario

Command(id, kind, sequence, target) ==
    [id |-> id, kind |-> kind, sequence |-> sequence, target |-> target]

Execute == Command("k1", "execute", 1, "none")
Cancel == Command("k2", "cancel", 0, "k1")
RescanCommand == Command("k3", "rescan", 0, "none")
Quit == Command("k4", "quit", 0, "none")

ClientCommands == [c1 |-> {Execute, Cancel, RescanCommand}, c2 |-> {Execute, Cancel, Quit}]

\* What the clients send in each scenario.
Sent ==
    IF scenario = "bridge" THEN [c1 |-> {Execute, RescanCommand}, c2 |-> {Cancel, Quit}]
                           ELSE [c1 |-> {Execute, Cancel}, c2 |-> {Execute, Cancel}]

MCInit == scenario \in {"bridge", "actions"} /\ BridgeInit

\* Only what is consumed depends on the scenario, and no client is bound to send
\* anything, so the fairness is that of the bridge.
MCNext ==
    /\ BridgeNext
    /\ UNCHANGED scenario
    /\ \A c \in Subscribers : consumer'[c].command \in Sent[c] \cup {NoCommand}

MCSpec == MCInit /\ [][MCNext]_<<scenario, allVars>> /\ BridgeFairness
=============================================================================
