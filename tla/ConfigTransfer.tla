--------------------------- MODULE ConfigTransfer ---------------------------
(***************************************************************************)
(* An import or a restore of a configuration: ConfigTransfer               *)
(* (config/config-transfer.ts) over the files it writes and the backups    *)
(* folder (backup-folder.ts).  It copies the files it will write, saves a  *)
(* backup when asked, writes them in turn, and puts them back when one     *)
(* fails.  Each write is a step; the application may die in it.            *)
(*                                                                         *)
(* A setup is its number, 0 for the defaults.  How one file is written is  *)
(* JsonStore's matter: here a write that fails, or is cut short, leaves    *)
(* one of few outcomes.  What a section holds, and how an import merges    *)
(* it, are left out: what is picked is taken whole.                        *)
(*                                                                         *)
(* The operators marked "Mutant" are plausible slips in the definition     *)
(* that follows them; no specification uses them.                          *)
(***************************************************************************)
EXTENDS Integers, FiniteSets, Functions

CONSTANTS
    KeptBackups,    \* how many backups are kept
    MaxSetups,      \* bound: setups there ever are, the first one counted
    MaxImports,     \* bound: imports and restores applied
    MaxFileFaults,  \* bound: file operations that fail, and crashes
    TransferOdds    \* what a run lets in: a folder's "sync" that fails after the rename, a
                    \* "clock" set back between two backups

ASSUME KeptAssumption == KeptBackups \in Nat \ {0}
ASSUME ImportBoundsAssumption ==
    MaxSetups \in Nat \ {0} /\ {MaxImports, MaxFileFaults} \subseteq Nat
ASSUME OddsAssumption == TransferOdds \subseteq {"sync", "clock"}

VARIABLES
    file,     \* each target's file and its .bak
    memory,   \* what main holds of the mapping and the settings
    backups,  \* the folder
    clock,    \* the last backup's stamp
    opened,   \* ConfigTransfer.pending: the setup of the file under review
    import,   \* how far apply() is
    insured,  \* the setup before the last import that saved a backup
    setups, imports, failures

importVars == <<file, memory, backups, clock, opened, import, insured, setups, imports, failures>>

\* The order apply() writes them in.
Order == <<"mapping", "calibration", "config">>
Targets == Range(Order)
Setups == 0..MaxSetups
Missing == -1

Whole == [Targets -> Setups]
Unknown == [t \in Targets |-> Missing]
Files == [Targets -> [main : Setups \cup {Missing}, bak : Setups \cup {Missing}]]
Stamps == 0..MaxImports

TransferTypeOK ==
    /\ file \in Files /\ memory \in [Targets \ {"calibration"} -> Setups]
    /\ backups \subseteq [stamp : Stamps, holds : Whole \cup {Unknown}]
    /\ clock \in Stamps /\ {opened, insured} \subseteq Whole \cup {Unknown}
    /\ import \in [at : {"idle", "backup", "commit", "roll back", "put back", "answered"},
                   picked : SUBSET Targets, done : SUBSET Targets, stuck : SUBSET Targets,
                   takes : Whole \cup {Unknown}, was : Whole \cup {Unknown}, copy : Files,
                   failed : Targets \cup {"none"},
                   answer : {"none", "applied", "nothing changed", "partly applied"}]
    /\ setups \in Setups /\ imports \in 0..MaxImports /\ failures \in 0..MaxFileFaults

Loaded(f) == IF f.main = Missing THEN 0 ELSE f.main
InMemory(files) == [t \in Targets \ {"calibration"} |-> Loaded(files[t])]
\* snapshot(): the calibration copy is read from its file on each use.
Setup == [t \in Targets |-> IF t = "calibration" THEN Loaded(file[t]) ELSE memory[t]]

NoFiles == [t \in Targets |-> [main |-> Missing, bak |-> Missing]]
NoImport == [at |-> "idle", picked |-> {}, done |-> {}, stuck |-> {}, takes |-> Unknown,
             was |-> Unknown, copy |-> NoFiles, failed |-> "none", answer |-> "none"]

TransferInit ==
    /\ file \in [Targets -> [main : {Missing, 1}, bak : {Missing}]] /\ memory = InMemory(file)
    /\ backups = {} /\ clock = 0 /\ opened = Unknown /\ insured = Unknown
    /\ import = NoImport /\ setups = 1 /\ imports = 0 /\ failures = 0

Breaks == failures < MaxFileFaults /\ failures' = failures + 1

---------------------------------------------------------------------------
(***************************************************************************)
(* One file                                                                *)
(***************************************************************************)
\* A write keeps the file it replaces as .bak first; a restore puts the .bak
\* back first.
Rotated(f) == IF f.main = Missing THEN f ELSE [f EXCEPT !.bak = f.main]
Written(f, setup) == [Rotated(f) EXCEPT !.main = setup]
CutWrite(f, setup) == {f, Rotated(f), Written(f, setup)}
CutRestore(f, copy) == {f, [f EXCEPT !.bak = copy.bak], copy}

\* A write whose rename stands has failed when its folder could not be synced.
Failed(outcomes, done) == IF "sync" \in TransferOdds THEN outcomes ELSE outcomes \ {done}
WriteFailed(f, setup) == Failed(CutWrite(f, setup), Written(f, setup)) \cup {f}
RestoreFailed(f, copy) == Failed(CutRestore(f, copy), copy) \cup {f}

Holds(t, setup) == [u \in DOMAIN memory |-> IF u = t THEN setup ELSE memory[u]]

\* A change the application saves by itself: the settings change in memory
\* though their write fails, the mapping does not.
Edit(t) ==
    /\ import = NoImport /\ setups < MaxSetups /\ setups' = setups + 1
    /\ \/ /\ file' = [file EXCEPT ![t] = Written(@, setups')] /\ UNCHANGED failures
          /\ memory' = Holds(t, setups')
       \/ /\ Breaks /\ \E f \in WriteFailed(file[t], setups') : file' = [file EXCEPT ![t] = f]
          /\ IF t = "config" THEN memory' = Holds(t, setups') ELSE UNCHANGED memory
    /\ UNCHANGED <<backups, clock, opened, import, insured, imports>>

---------------------------------------------------------------------------
(***************************************************************************)
(* The import                                                              *)
(***************************************************************************)
\* preview() of a file with another setup, previewBackup(), or a file that
\* is none: the one opened before is let go.
Open ==
    /\ import = NoImport
    /\ \/ setups < MaxSetups /\ setups' = setups + 1 /\ opened' = [t \in Targets |-> setups']
       \/ opened' \in {b.holds : b \in backups} \cup {Unknown} /\ UNCHANGED setups
    /\ UNCHANGED <<file, memory, backups, clock, import, insured, imports, failures>>

\* apply() copies every file picked before anything is written; one that
\* cannot be copied stops it.
Apply ==
    /\ import = NoImport /\ opened # Unknown /\ imports < MaxImports /\ imports' = imports + 1
    /\ \E picked \in SUBSET Targets \ {{}}, at \in {"backup", "commit", "answered"} :
         /\ IF at = "answered" THEN Breaks ELSE UNCHANGED failures
         /\ import' = [NoImport EXCEPT !.at = at, !.picked = picked, !.takes = opened,
                         !.was = Setup, !.copy = file,
                         !.answer = IF at = "answered" THEN "nothing changed" ELSE "none"]
    /\ UNCHANGED <<file, memory, backups, clock, opened, insured, setups>>

\* Mutant: the oldest.
OldestKept(all) == {b \in all : Cardinality({c \in all : c.stamp < b.stamp}) < KeptBackups}
\* The newest, by their stamps.
Kept(all) == {b \in all : Cardinality({c \in all : c.stamp > b.stamp}) < KeptBackups}

With(stamp, holds) ==
    {b \in backups : b.stamp # stamp} \cup {[stamp |-> stamp, holds |-> holds]}
Stamped == IF "clock" \in TransferOdds THEN 0..clock + 1 ELSE {clock + 1}

\* BackupFolder.save(): what cannot be deleted is left; a write that fails may
\* leave half a file.
Backup ==
    /\ import.at = "backup"
    /\ \E stamp \in Stamped :
         \/ /\ \/ backups' = Kept(With(stamp, Setup)) /\ UNCHANGED failures
               \/ Breaks /\ backups' = With(stamp, Setup)
            /\ clock' = stamp /\ insured' = Setup
            /\ import' = [import EXCEPT !.at = "commit"]
         \/ /\ Breaks /\ backups' \in {backups, With(stamp, Unknown)}
            /\ clock' = stamp /\ UNCHANGED insured
            /\ import' = [import EXCEPT !.at = "answered", !.answer = "nothing changed"]
    /\ UNCHANGED <<file, memory, opened, setups, imports>>

\* The first target still to write, and the last one to put back.
Place(t) == CHOOSE i \in DOMAIN Order : Order[i] = t
Todo == import.picked \ import.done
First == CHOOSE t \in Todo : \A u \in Todo : Place(t) <= Place(u)
Last == CHOOSE t \in import.done : \A u \in import.done : Place(t) >= Place(u)

RollBack(job) ==
    IF job.done # {} THEN [job EXCEPT !.at = "roll back"]
    ELSE [job EXCEPT !.at = "answered",
                     !.answer = IF job.stuck = {} THEN "nothing changed" ELSE "partly applied"]

Commit ==
    /\ import.at = "commit" /\ Todo # {}
    /\ \/ /\ file' = [file EXCEPT ![First] = Written(@, import.takes[First])]
          /\ memory' = Holds(First, import.takes[First])
          /\ import' = [import EXCEPT !.done = @ \cup {First}] /\ UNCHANGED failures
       \/ /\ Breaks /\ import' = RollBack([import EXCEPT !.failed = First]) /\ UNCHANGED memory
          /\ \E f \in WriteFailed(file[First], import.takes[First]) :
               file' = [file EXCEPT ![First] = f]
    /\ UNCHANGED <<backups, clock, opened, insured, setups, imports>>

Applied ==
    /\ import.at = "commit" /\ Todo = {} /\ opened' = Unknown
    /\ import' = [import EXCEPT !.at = "answered", !.answer = "applied"]
    /\ UNCHANGED <<file, memory, backups, clock, insured, setups, imports, failures>>

PutBackDone == RollBack([import EXCEPT !.done = @ \ {Last}])
PutBackFailed == RollBack([import EXCEPT !.done = @ \ {Last}, !.stuck = @ \cup {Last}])

\* The store's own write puts back what main holds; the calibration copy is
\* its file.
WriteBack ==
    /\ import.at = "roll back"
    /\ \/ /\ import' = [import EXCEPT !.at = "put back"] /\ UNCHANGED failures
          /\ IF Last = "calibration" THEN UNCHANGED <<file, memory>>
             ELSE /\ file' = [file EXCEPT ![Last] = Written(@, import.was[Last])]
                  /\ memory' = Holds(Last, import.was[Last])
       \/ /\ Last # "calibration" /\ Breaks /\ import' = PutBackFailed /\ UNCHANGED memory
          /\ \E f \in WriteFailed(file[Last], import.was[Last]) : file' = [file EXCEPT ![Last] = f]
    /\ UNCHANGED <<backups, clock, opened, insured, setups, imports>>

\* Mutant: the bytes are left as the store wrote them.
LeavesBytes ==
    /\ import.at = "put back" /\ import' = PutBackDone
    /\ UNCHANGED <<file, memory, backups, clock, opened, insured, setups, imports, failures>>

\* Then the bytes of its copy, the .bak with them.
PutBack ==
    /\ import.at = "put back"
    /\ \/ /\ file' = [file EXCEPT ![Last] = import.copy[Last]]
          /\ import' = PutBackDone /\ UNCHANGED failures
       \/ /\ Breaks /\ import' = PutBackFailed
          /\ \E f \in RestoreFailed(file[Last], import.copy[Last]) :
               file' = [file EXCEPT ![Last] = f]
    /\ UNCHANGED <<memory, backups, clock, opened, insured, setups, imports>>

GoesOn ==
    /\ import.at = "answered" /\ import' = NoImport
    /\ UNCHANGED <<file, memory, backups, clock, opened, insured, setups, imports, failures>>

---------------------------------------------------------------------------
\* What is under way when the application dies may be done or cut short.
Dies ==
    \/ /\ import.at = "backup" /\ UNCHANGED file
       /\ backups' \in {backups, With(clock + 1, Unknown)}
    \/ /\ import.at = "commit" /\ Todo # {} /\ UNCHANGED backups
       /\ \E f \in CutWrite(file[First], import.takes[First]) : file' = [file EXCEPT ![First] = f]
    \/ /\ import.at = "roll back" /\ Last # "calibration" /\ UNCHANGED backups
       /\ \E f \in CutWrite(file[Last], import.was[Last]) : file' = [file EXCEPT ![Last] = f]
    \/ /\ import.at = "put back" /\ UNCHANGED backups
       /\ \E f \in CutRestore(file[Last], import.copy[Last]) : file' = [file EXCEPT ![Last] = f]
    \/ UNCHANGED <<file, backups>>

Restart ==
    /\ Breaks /\ Dies
    /\ memory' = InMemory(file') /\ clock' = IF backups' = backups THEN clock ELSE clock + 1
    /\ opened' = Unknown /\ import' = NoImport
    /\ UNCHANGED <<insured, setups, imports>>

TransferNext ==
    \/ \E t \in Targets : Edit(t)
    \/ Open \/ Apply \/ Backup \/ Commit \/ Applied \/ WriteBack \/ PutBack \/ GoesOn
    \/ Restart

TransferSpec == TransferInit /\ [][TransferNext]_importVars

---------------------------------------------------------------------------
(***************************************************************************)
(* Properties                                                              *)
(***************************************************************************)
\* As it was: in force and on the disk.  The file whose write failed may have
\* its .bak rotated.
AsItWas(t) ==
    /\ Setup[t] = import.was[t] /\ file[t].main = import.copy[t].main
    /\ t # import.failed => file[t] = import.copy[t]

\* What the answer says of an import is so: with "Nothing was changed" all is
\* as it was, .bak files included; after "partly applied", all that it does
\* not name; and what was applied is in force and on the disk.
AnswerIsTrue ==
    /\ import.answer = "nothing changed" => \A t \in Targets : AsItWas(t)
    /\ import.answer = "partly applied" => \A t \in Targets \ import.stuck : AsItWas(t)
    /\ import.answer = "applied" =>
         \A t \in Targets :
           IF t \in import.picked
           THEN Setup[t] = import.takes[t] /\ file[t].main = import.takes[t]
           ELSE AsItWas(t)

\* The setup before the last import that saved a backup is in the folder,
\* whatever became of the import, and of backups tried since.
BackupIsThere == insured # Unknown => \E b \in backups : b.holds = insured
=============================================================================
