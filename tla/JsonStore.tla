------------------------------ MODULE JsonStore ------------------------------
(***************************************************************************)
(* The JSON store (src/main/config/json-store.ts): how one file under the  *)
(* user's data folder, and its `.bak`, are written, read and put back.     *)
(* Every file main keeps goes through it.                                  *)
(*                                                                         *)
(* An operation is synchronous; what comes between two of its file system  *)
(* calls is a failure of the next one, or a crash of the machine.  A       *)
(* rename is durable once the folder is fsynced: until then a crash leaves *)
(* the old entry or the new one.  A renamed file that was never fsynced    *)
(* may be torn.                                                            *)
(*                                                                         *)
(* Contents are numbered: 0 is no file, -1 a file that does not parse, and *)
(* n > 0 what the n-th write saved.                                        *)
(*                                                                         *)
(* The operators marked "Mutant" are plausible slips in the definition     *)
(* that follows them; no specification uses them.  Put in its place, each  *)
(* violates the property it names.                                         *)
(***************************************************************************)
EXTENDS Integers

CONSTANTS
    NoCopy,     \* no snapshot has been taken
    MaxWrites,  \* bound: writes in one behaviour
    MaxFaults,  \* bound: failed calls and crashes
    MaxSpoils   \* bound: what is not the store's doing

ASSUME BoundsAssumption ==
    /\ MaxWrites \in Nat
    /\ MaxFaults \in Nat
    /\ MaxSpoils \in Nat

VARIABLES
    folderSync,  \* the folder can be fsynced (not on win32, nor everywhere)
    disk,        \* what a read of each file finds now
    maybe,       \* per file, what a read may find after a crash
    op,          \* "none", "write", "repair" or "restore"
    new,         \* per file, what the operation puts there
    target,      \* the file it is replacing
    step,        \* the next call of replace(): "tmp", "sync", "rename", "folder"
    synced,      \* the temporary file has been fsynced
    answer,      \* what the last write or restore returned
    copy,        \* the snapshot an import holds for its rollback
    kept,        \* a write has been acknowledged and left a good `.bak`
    writes, faults, spoils

fileVars == <<folderSync, disk, maybe>>
opVars == <<op, new, target, step, synced, answer>>
counters == <<writes, faults, spoils>>
vars == <<fileVars, opVars, copy, kept, counters>>

Names == {"main", "bak"}
NoFile == 0
Torn == -1
Versions == 1 .. MaxWrites
Contents == {NoFile, Torn} \cup Versions

ASSUME CopyAssumption == NoCopy \notin [Names -> Contents]

TypeOK ==
    /\ folderSync \in BOOLEAN
    /\ disk \in [Names -> Contents]
    /\ maybe \in [Names -> SUBSET Contents]
    /\ op \in {"none", "write", "repair", "restore"}
    /\ new \in [Names -> Contents]
    /\ target \in Names
    /\ step \in {"tmp", "sync", "rename", "folder"}
    /\ synced \in BOOLEAN
    /\ answer \in {"none", "ok", "failed"}
    /\ copy \in [Names -> Contents] \cup {NoCopy}
    /\ kept \in BOOLEAN
    /\ writes \in 0 .. MaxWrites
    /\ faults \in 0 .. MaxFaults
    /\ spoils \in 0 .. MaxSpoils

Nothing == [n \in Names |-> NoFile]

Init ==
    /\ folderSync \in BOOLEAN
    /\ disk = Nothing
    /\ maybe = [n \in Names |-> {NoFile}]
    /\ op = "none"
    /\ new = Nothing
    /\ target = "main"
    /\ step = "tmp"
    /\ synced = FALSE
    /\ answer = "none"
    /\ copy = NoCopy
    /\ kept = FALSE
    /\ writes = 0
    /\ faults = 0
    /\ spoils = 0

-----------------------------------------------------------------------------
Idle == op = "none"
Good(n) == disk[n] \in Versions

Begin(o, contents, first) ==
    /\ op' = o
    /\ new' = contents
    /\ target' = first
    /\ step' = "tmp"
    /\ synced' = FALSE
    /\ answer' = "none"

Ended(result) ==
    /\ op' = "none"
    /\ answer' = IF op = "repair" THEN "none" ELSE result
    /\ UNCHANGED <<new, target, step, synced>>

Fault == faults < MaxFaults /\ faults' = faults + 1
Spoil == spoils < MaxSpoils /\ spoils' = spoils + 1

(* A file is readable, or for once it is not (busy, no permission).         *)
ReadsFine == UNCHANGED spoils
Unreadable == Spoil

-----------------------------------------------------------------------------
(* The store's operations. *)

(* Mutant, LastGoodSurvives: whatever is there is backed up.                *)
WriteBacksUpAnything ==
    /\ Idle /\ writes < MaxWrites
    /\ writes' = writes + 1
    /\ ReadsFine
    /\ Begin("write", [disk EXCEPT !["bak"] = disk["main"],
                                   !["main"] = writes + 1], "bak")
    /\ UNCHANGED <<fileVars, copy, kept, faults>>

(* write(): the file it replaces, if it is a good one, is kept as `.bak`    *)
(* first.                                                                   *)
Write ==
    /\ Idle /\ writes < MaxWrites
    /\ writes' = writes + 1
    /\ \/ /\ Good("main") /\ ReadsFine
          /\ Begin("write", [n \in Names |-> IF n = "bak" THEN disk["main"]
                                             ELSE writes + 1], "bak")
       \/ /\ (~Good("main") /\ ReadsFine) \/ Unreadable
          /\ Begin("write", [disk EXCEPT !["main"] = writes + 1], "main")
    /\ UNCHANGED <<fileVars, copy, kept, faults>>

(* moveAside() *)
MoveAside ==
    /\ disk' = [disk EXCEPT !["main"] = NoFile]
    /\ maybe' = [maybe EXCEPT !["main"] = @ \cup {NoFile}]
    /\ UNCHANGED folderSync

(* read() of a bad file whose backup is good: the bad file is moved aside   *)
(* and the backup copied in its place.  A file that cannot be moved is left *)
(* where it is.                                                             *)
ReadFallsBack ==
    /\ Idle /\ Good("bak")
    /\ disk["main"] # NoFile
    /\ (disk["main"] = Torn /\ ReadsFine) \/ Unreadable
    /\ MoveAside
    /\ Begin("repair", [disk EXCEPT !["main"] = disk["bak"]], "main")
    /\ UNCHANGED <<copy, kept, writes, faults>>

(* read() of a file that does not parse, with no backup to load either: it  *)
(* is moved aside all the same.                                             *)
ReadFails ==
    /\ Idle
    /\ disk["main"] = Torn
    /\ (~Good("bak") /\ ReadsFine) \/ Unreadable
    /\ MoveAside
    /\ UNCHANGED <<opVars, copy, kept, writes, faults>>

Snapshot ==
    /\ Idle
    /\ copy' = disk
    /\ UNCHANGED <<fileVars, opVars, kept, counters>>

(* restore(): `.bak` first, then the file, byte for byte.                   *)
Restore ==
    /\ Idle /\ copy # NoCopy
    /\ kept' = FALSE
    /\ Begin("restore", copy, "bak")
    /\ UNCHANGED <<fileVars, copy, counters>>

-----------------------------------------------------------------------------
(* replace() and put(), call by call. *)

WriteTmp ==
    /\ ~Idle /\ step = "tmp" /\ new[target] # NoFile
    /\ step' = "sync"
    /\ synced' = FALSE
    /\ UNCHANGED <<fileVars, op, new, target, answer, copy, kept, counters>>

SyncTmp ==
    /\ ~Idle /\ step = "sync"
    /\ step' = "rename"
    /\ synced' = TRUE
    /\ UNCHANGED <<fileVars, op, new, target, answer, copy, kept, counters>>

Rename ==
    /\ ~Idle /\ step = "rename"
    /\ step' = "folder"
    /\ disk' = [disk EXCEPT ![target] = new[target]]
    /\ maybe' = [maybe EXCEPT ![target] =
                   @ \cup {new[target]} \cup (IF synced THEN {} ELSE {Torn})]
    /\ UNCHANGED <<folderSync, op, new, target, synced, answer, copy, kept,
                   counters>>

Remove ==
    /\ ~Idle /\ step = "tmp" /\ new[target] = NoFile
    /\ step' = "folder"
    /\ disk' = [disk EXCEPT ![target] = NoFile]
    /\ maybe' = [maybe EXCEPT ![target] = @ \cup {NoFile}]
    /\ UNCHANGED <<folderSync, op, new, target, synced, answer, copy, kept,
                   counters>>

(* Past replace(): the file after its `.bak`, or the end of the operation.  *)
Continue ==
    IF target = "bak"
    THEN /\ target' = "main"
         /\ step' = "tmp"
         /\ UNCHANGED <<op, new, synced, answer, kept>>
    ELSE /\ Ended("ok")
         /\ kept' = (kept \/ (op = "write" /\ Good("bak")))

(* Mutant, Atomic: the rename is taken to be durable.                       *)
SyncFolderSkipped ==
    /\ ~Idle /\ step = "folder"
    /\ UNCHANGED <<fileVars, copy, counters>>
    /\ Continue

(* syncDir(): where the folder cannot be fsynced the rename stands.         *)
SyncFolder ==
    /\ ~Idle /\ step = "folder"
    /\ maybe' = IF folderSync THEN [n \in Names |-> {disk[n]}] ELSE maybe
    /\ UNCHANGED <<folderSync, disk, copy, counters>>
    /\ Continue

(* A call fails: the operation ends there.  A repair is best effort, so its *)
(* failure is no answer.                                                    *)
CallFails ==
    /\ ~Idle /\ Fault
    /\ Ended("failed")
    /\ UNCHANGED <<fileVars, copy, kept, writes, spoils>>

-----------------------------------------------------------------------------
(* The machine (external). *)

Crash ==
    /\ Fault
    /\ \E found \in [Names -> Contents] :
         /\ \A n \in Names : found[n] \in maybe[n]
         /\ disk' = found
         /\ maybe' = [n \in Names |-> {found[n]}]
    /\ op' = "none"
    /\ answer' = "none"
    /\ copy' = NoCopy
    /\ UNCHANGED <<folderSync, new, target, step, synced, kept, writes, spoils>>

(* Something else damages a file. *)
Damage ==
    /\ Spoil
    /\ \E n \in Names :
         /\ Good(n)
         /\ disk' = [disk EXCEPT ![n] = Torn]
         /\ maybe' = [maybe EXCEPT ![n] = {Torn}]
    /\ UNCHANGED <<folderSync, opVars, copy, kept, writes, faults>>

-----------------------------------------------------------------------------
Operation == Write \/ ReadFallsBack \/ ReadFails \/ Snapshot \/ Restore
Call == WriteTmp \/ SyncTmp \/ Rename \/ Remove \/ SyncFolder \/ CallFails

Next == Operation \/ Call \/ Crash \/ Damage

Spec == Init /\ [][Next]_vars

-----------------------------------------------------------------------------
(* Properties. *)

(* "A crash at any point leaves a whole file behind, never half of one":    *)
(* no crash makes a file that does not parse, if none was there.            *)
NeverHalf == spoils = 0 => \A n \in Names : Torn \notin maybe[n]

(* Once a write over a good file was acknowledged, a good version is found  *)
(* in the file or its backup, whatever crashes and failures follow and      *)
(* whichever one of the two is damaged, or could not be read, once.         *)
LastGoodSurvives ==
    folderSync /\ kept /\ spoils <= 1 =>
        \E n \in Names : maybe[n] \subseteq Versions

(* A write or a restore is all or nothing, and durable once acknowledged.   *)
Saved ==
    INSTANCE AtomicFile WITH
        durable <- folderSync,
        may <- maybe["main"],
        writing <- IF op \in {"write", "restore"} THEN {new["main"]} ELSE {},
        sound <- spoils = 0

Atomic == Saved!Spec
=============================================================================
