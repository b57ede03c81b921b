----------------------------- MODULE MCNodeHub -----------------------------
(***************************************************************************)
(* Two parts NodeHub drives, for TLC, each on its own: the mapping         *)
(* (NodeMapping) and whether the Gateway answers (GatewayWatch).  Neither  *)
(* reads the other's state, so a behaviour is of the one or of the other.  *)
(* Two PDUs and a panel; NODE_IDS.md names one PDU, which feeds the panel. *)
(***************************************************************************)
EXTENDS NodeMapping, GatewayWatch, TLC
CONSTANTS pdu, adopted, panel
MCBoards == {pdu, adopted, panel}
MCPdus == {pdu, adopted}
MCRegistry == {pdu, panel}
MCHome == (panel :> pdu) @@ [b \in {pdu, adopted} |-> NoZone]

VARIABLE part  \* the part a behaviour is of

MCInit ==
    /\ Init /\ WatchInit /\ part \in {"mapping", "watch"}
    /\ part = "mapping" => offers

MCNext ==
    \/ part = "mapping" /\ Next /\ UNCHANGED <<part, gatewayVars>>
    \/ part = "watch" /\ WatchNext /\ UNCHANGED <<part, vars>>

MCSpec == MCInit /\ [][MCNext]_<<vars, gatewayVars, part>>
=============================================================================
