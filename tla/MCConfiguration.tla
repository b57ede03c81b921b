-------------------------- MODULE MCConfiguration --------------------------
(***************************************************************************)
(* The configuration's two parts for TLC, each on its own: how one file is *)
(* written (JsonStore), and an import over three of them (ConfigTransfer). *)
(* They share no state, so a behaviour is of the one or of the other.      *)
(***************************************************************************)
EXTENDS JsonStore, ConfigTransfer

VARIABLE part  \* the part a behaviour is of

\* One state of the part that stands still is enough.
MCInit ==
    /\ Init /\ TransferInit /\ part \in {"file", "import"}
    /\ part = "file" => file = NoFiles
    /\ part = "import" => folderSync

MCNext ==
    \/ part = "file" /\ Next /\ UNCHANGED <<part, importVars>>
    \/ part = "import" /\ TransferNext /\ UNCHANGED <<part, vars>>

MCSpec == MCInit /\ [][MCNext]_<<vars, importVars, part>>
=============================================================================
