----------------------------- MODULE AtomicFile -----------------------------
(***************************************************************************)
(* What a saved file promises, as its callers rely on it: a write happens  *)
(* as a whole or not at all, a write that was acknowledged is there after  *)
(* a crash, and one that was not may be there or not.                      *)
(*                                                                         *)
(* The promise holds while nothing but the store touches the file: once    *)
(* something else damages it or keeps it from being read, nothing is said. *)
(***************************************************************************)
CONSTANT Contents

VARIABLES
    durable,  \* an acknowledgement means that the write survives a crash
    may,      \* the contents a restart may find
    writing,  \* what is being written: nothing, or one content
    answer,   \* what came of the last write
    sound     \* nothing but the store has touched the file

vars == <<durable, may, writing, answer, sound>>

Init ==
    /\ durable \in BOOLEAN
    /\ may \in {{c} : c \in Contents}
    /\ writing = {}
    /\ answer = "none"
    /\ sound = TRUE

Begin ==
    /\ writing = {}
    /\ \E c \in Contents : writing' = {c}
    /\ answer' = "none"
    /\ UNCHANGED may

(* The disk catches up, with old or new. *)
Settle ==
    /\ writing # {}
    /\ may' \subseteq may \cup writing
    /\ may' # {}
    /\ UNCHANGED <<writing, answer>>

Acknowledge ==
    /\ writing # {}
    /\ writing' = {}
    /\ answer' = "ok"
    /\ writing \subseteq may'
    /\ may' \subseteq may \cup writing
    /\ durable => may' = writing

Refuse ==
    /\ writing # {}
    /\ writing' = {}
    /\ answer' = "failed"
    /\ UNCHANGED may

Crash ==
    /\ \E c \in may : may' = {c}
    /\ writing' = {}
    /\ answer' = "none"

Step == Begin \/ Settle \/ Acknowledge \/ Refuse \/ Crash

Next ==
    \/ sound /\ sound' /\ UNCHANGED durable /\ Step
    \/ ~sound'

Spec == Init /\ [][Next]_vars
=============================================================================
