------------------------ MODULE Configuration_proofs ------------------------
(***************************************************************************)
(* What holds of a stored file for any number of writes, failures, crashes *)
(* and damages, with its proof: the types, that no crash makes half a      *)
(* file, that a good version survives one damage, and that the call-by-    *)
(* call store keeps the promise of AtomicFile.  Then what holds of an      *)
(* import over such files: the types, that its answer is true, and that    *)
(* the backup made before it stays.                                        *)
(***************************************************************************)
EXTENDS JsonStore, ConfigTransfer, FiniteSetTheorems, TLAPS

(* What is found now is among what may be found.                            *)
DiskPossible == \A n \in Names : disk[n] \in maybe[n]

(* A file is renamed only once its bytes are on the disk.                   *)
RenamesSynced == op # "none" /\ step = "rename" => synced

(* A repair copies a good backup over the file.                             *)
RepairCopiesGood ==
    op = "repair" => target = "main" /\ new["main"] \in Versions

(* A write puts whole versions where it writes.                             *)
WritePutsGood ==
    op = "write" =>
        /\ new["main"] \in Versions
        /\ target = "bak" => new["bak"] \in Versions

(* Until something else touches the files, nothing the store holds is torn, *)
(* nothing needs a repair, and a replaced file is what was put there.       *)
Untouched ==
    spoils = 0 =>
        /\ op # "repair"
        /\ \A n \in Names : Torn \notin maybe[n]
        /\ copy # NoCopy => \A n \in Names : copy[n] # Torn
        /\ op # "none" => \A n \in Names : new[n] # Torn
        /\ op # "none" /\ step = "folder" => disk[target] = new[target]

Inv ==
    /\ TypeOK
    /\ DiskPossible
    /\ RenamesSynced
    /\ RepairCopiesGood
    /\ WritePutsGood
    /\ Untouched

-----------------------------------------------------------------------------
LEMMA InitInv == Init => Inv
<1> SUFFICES ASSUME Init PROVE Inv
  OBVIOUS
<1> USE DEF Init, Names, Nothing, NoFile, Torn, Contents, Versions
<1>1. TypeOK
  <2>1. [n \in Names |-> NoFile] \in [Names -> Contents]
    OBVIOUS
  <2>2. [n \in Names |-> {NoFile}] \in [Names -> SUBSET Contents]
    OBVIOUS
  <2>3. 0 \in 0 .. MaxWrites /\ 0 \in 0 .. MaxFaults /\ 0 \in 0 .. MaxSpoils
    BY BoundsAssumption DEF BoundsAssumption
  <2> HIDE DEF Contents, Names
  <2> QED
    BY <2>1, <2>2, <2>3 DEF TypeOK, Names
<1>2. DiskPossible /\ RenamesSynced /\ RepairCopiesGood /\ WritePutsGood
  BY DEF DiskPossible, RenamesSynced, RepairCopiesGood, WritePutsGood
<1>3. Untouched
  BY DEF Untouched
<1> QED
  BY <1>1, <1>2, <1>3 DEF Inv

(* The operations, which begin a sequence of calls or end at once.          *)
LEMMA OperationKeepsInv == ASSUME Inv, Operation PROVE Inv'
<1> USE DEF Names, NoFile, Torn, Contents, Versions
<1>1. CASE Write
  <2>1. writes + 1 \in Versions /\ writes' \in 0 .. MaxWrites
    BY <1>1, BoundsAssumption DEF Inv, TypeOK, Write, BoundsAssumption
  <2>2. /\ UNCHANGED <<folderSync, disk, maybe, copy, kept, faults>>
        /\ op' = "write" /\ step' = "tmp" /\ synced' = FALSE
        /\ answer' = "none"
        /\ spoils' \in 0 .. MaxSpoils /\ spoils' >= spoils
    BY <1>1, BoundsAssumption
    DEF Inv, TypeOK, Write, Begin, fileVars, ReadsFine, Unreadable, Spoil,
        BoundsAssumption
  <2>3. \/ /\ target' = "bak" /\ disk["main"] \in Versions
           /\ new' = [n \in Names |-> IF n = "bak" THEN disk["main"]
                                      ELSE writes + 1]
        \/ /\ target' = "main"
           /\ new' = [disk EXCEPT !["main"] = writes + 1]
    BY <1>1 DEF Write, Begin, Good
  <2>4. /\ new' \in [Names -> Contents] /\ target' \in Names
        /\ new'["main"] = writes + 1
        /\ target' = "bak" => new'["bak"] \in Versions
    BY <2>1, <2>3 DEF Inv, TypeOK
  <2>5. TypeOK'
    BY <2>1, <2>2, <2>4 DEF Inv, TypeOK
  <2>6. DiskPossible' /\ RenamesSynced' /\ RepairCopiesGood' /\ WritePutsGood'
    BY <2>1, <2>2, <2>4
    DEF Inv, DiskPossible, RenamesSynced, RepairCopiesGood, WritePutsGood
  <2>7. Untouched'
    <3> SUFFICES ASSUME spoils' = 0 PROVE Untouched'
      BY DEF Untouched
    <3>1. spoils = 0
      BY <2>2 DEF Inv, TypeOK
    <3>2. \A n \in Names : disk[n] # Torn
      BY <3>1 DEF Inv, Untouched, DiskPossible
    <3>3. \A n \in Names : new'[n] # Torn
      BY <2>1, <2>3, <3>2 DEF Inv, TypeOK
    <3> QED
      BY <2>2, <3>1, <3>3 DEF Inv, Untouched
  <2> QED
    BY <2>5, <2>6, <2>7 DEF Inv
<1>2. CASE ReadFallsBack
  <2>1. /\ disk' = [disk EXCEPT !["main"] = NoFile]
        /\ maybe' = [maybe EXCEPT !["main"] = @ \cup {NoFile}]
        /\ UNCHANGED <<folderSync, copy, kept, writes, faults>>
        /\ op' = "repair" /\ step' = "tmp" /\ synced' = FALSE
        /\ target' = "main" /\ answer' = "none"
        /\ disk["bak"] \in Versions
        /\ new' = [disk EXCEPT !["main"] = disk["bak"]]
    BY <1>2 DEF ReadFallsBack, MoveAside, Begin, Good
  <2>2. spoils' \in 1 .. MaxSpoils
    <3>1. CASE disk["main"] = Torn /\ ReadsFine
      BY <3>1 DEF Inv, TypeOK, Untouched, DiskPossible, ReadsFine
    <3>2. CASE Unreadable
      BY <3>2, BoundsAssumption
      DEF Inv, TypeOK, Unreadable, Spoil, BoundsAssumption
    <3> QED
      BY <1>2, <3>1, <3>2 DEF ReadFallsBack
  <2>3. TypeOK'
    <3>1. disk' \in [Names -> Contents] /\ new' \in [Names -> Contents]
      BY <2>1 DEF Inv, TypeOK
    <3>2. maybe' \in [Names -> SUBSET Contents]
      BY <2>1 DEF Inv, TypeOK
    <3>3. spoils' \in 0 .. MaxSpoils
      BY <2>2
    <3> HIDE DEF Contents
    <3> QED
      BY <2>1, <3>1, <3>2, <3>3 DEF Inv, TypeOK
  <2>4. DiskPossible' /\ RenamesSynced' /\ RepairCopiesGood' /\ WritePutsGood'
    BY <2>1
    DEF Inv, TypeOK, DiskPossible, RenamesSynced, RepairCopiesGood,
        WritePutsGood
  <2>5. Untouched'
    BY <2>2 DEF Untouched
  <2> QED
    BY <2>3, <2>4, <2>5 DEF Inv
<1>3. CASE ReadFails
  <2>1. /\ disk' = [disk EXCEPT !["main"] = NoFile]
        /\ maybe' = [maybe EXCEPT !["main"] = @ \cup {NoFile}]
        /\ UNCHANGED <<folderSync, op, new, target, step, synced, answer,
                       copy, kept, writes, faults>>
        /\ op = "none"
    BY <1>3 DEF ReadFails, MoveAside, opVars, Idle
  <2>2. spoils' \in 1 .. MaxSpoils
    <3>1. spoils # 0
      BY <1>3 DEF ReadFails, Inv, TypeOK, Untouched, DiskPossible
    <3> QED
      BY <1>3, <3>1, BoundsAssumption
      DEF Inv, TypeOK, ReadFails, ReadsFine, Unreadable, Spoil,
          BoundsAssumption
  <2>3. TypeOK'
    BY <2>1, <2>2 DEF Inv, TypeOK
  <2>4. DiskPossible' /\ RenamesSynced' /\ RepairCopiesGood' /\ WritePutsGood'
    BY <2>1
    DEF Inv, TypeOK, DiskPossible, RenamesSynced, RepairCopiesGood,
        WritePutsGood
  <2>5. Untouched'
    BY <2>2 DEF Untouched
  <2> QED
    BY <2>3, <2>4, <2>5 DEF Inv
<1>4. CASE Snapshot
  <2>1. /\ copy' = disk
        /\ UNCHANGED <<folderSync, disk, maybe, op, new, target, step, synced,
                       answer, kept, writes, faults, spoils>>
        /\ op = "none"
    BY <1>4 DEF Snapshot, fileVars, opVars, counters, Idle
  <2>2. TypeOK'
    BY <2>1 DEF Inv, TypeOK
  <2>3. DiskPossible' /\ RenamesSynced' /\ RepairCopiesGood' /\ WritePutsGood'
    BY <2>1
    DEF Inv, DiskPossible, RenamesSynced, RepairCopiesGood, WritePutsGood
  <2>4. Untouched'
    BY <2>1 DEF Inv, Untouched, DiskPossible
  <2> QED
    BY <2>2, <2>3, <2>4 DEF Inv
<1>5. CASE Restore
  <2>1. /\ copy # NoCopy /\ new' = copy
        /\ op' = "restore" /\ target' = "bak" /\ step' = "tmp"
        /\ synced' = FALSE /\ answer' = "none" /\ kept' = FALSE
        /\ UNCHANGED <<folderSync, disk, maybe, copy, writes, faults, spoils>>
    BY <1>5 DEF Restore, Begin, fileVars, counters
  <2>2. TypeOK'
    BY <2>1 DEF Inv, TypeOK
  <2>3. DiskPossible' /\ RenamesSynced' /\ RepairCopiesGood' /\ WritePutsGood'
    BY <2>1
    DEF Inv, DiskPossible, RenamesSynced, RepairCopiesGood, WritePutsGood
  <2>4. Untouched'
    BY <2>1 DEF Inv, Untouched
  <2> QED
    BY <2>2, <2>3, <2>4 DEF Inv
<1> QED
  BY <1>1, <1>2, <1>3, <1>4, <1>5 DEF Operation

(* The calls an operation is made of, and a call that fails.                *)
LEMMA CallKeepsInv == ASSUME Inv, Call PROVE Inv'
<1> USE DEF Names, NoFile, Torn, Contents, Versions, Idle
<1>1. CASE WriteTmp
  <2>1. /\ op # "none" /\ step' = "sync" /\ synced' = FALSE
        /\ UNCHANGED <<folderSync, disk, maybe, op, new, target, answer, copy,
                       kept, writes, faults, spoils>>
    BY <1>1 DEF WriteTmp, fileVars, counters
  <2>2. TypeOK'
    BY <2>1 DEF Inv, TypeOK
  <2>3. DiskPossible' /\ RenamesSynced' /\ RepairCopiesGood' /\ WritePutsGood'
    BY <2>1
    DEF Inv, DiskPossible, RenamesSynced, RepairCopiesGood, WritePutsGood
  <2>4. Untouched'
    BY <2>1 DEF Inv, Untouched
  <2> QED
    BY <2>2, <2>3, <2>4 DEF Inv
<1>2. CASE SyncTmp
  <2>1. /\ op # "none" /\ step' = "rename" /\ synced' = TRUE
        /\ UNCHANGED <<folderSync, disk, maybe, op, new, target, answer, copy,
                       kept, writes, faults, spoils>>
    BY <1>2 DEF SyncTmp, fileVars, counters
  <2>2. TypeOK'
    BY <2>1 DEF Inv, TypeOK
  <2>3. DiskPossible' /\ RenamesSynced' /\ RepairCopiesGood' /\ WritePutsGood'
    BY <2>1
    DEF Inv, DiskPossible, RenamesSynced, RepairCopiesGood, WritePutsGood
  <2>4. Untouched'
    BY <2>1 DEF Inv, Untouched
  <2> QED
    BY <2>2, <2>3, <2>4 DEF Inv
<1>3. CASE Rename \/ Remove
  <2>1. /\ op # "none" /\ step' = "folder"
        /\ disk' = [disk EXCEPT ![target] = new[target]]
        /\ UNCHANGED <<folderSync, op, new, target, synced, answer, copy, kept,
                       writes, faults, spoils>>
    BY <1>3 DEF Rename, Remove, counters
  <2>2. maybe' = [maybe EXCEPT ![target] = @ \cup {new[target]}]
    <3>1. CASE Rename
      <4>1. synced
        BY <3>1 DEF Rename, Inv, RenamesSynced
      <4> QED
        BY <3>1, <4>1 DEF Rename, Inv, TypeOK
    <3>2. CASE Remove
      BY <3>2 DEF Remove, Inv, TypeOK
    <3> QED
      BY <1>3, <3>1, <3>2
  <2>3. TypeOK'
    <3>1. disk' \in [Names -> Contents]
      BY <2>1 DEF Inv, TypeOK
    <3>2. maybe' \in [Names -> SUBSET Contents]
      BY <2>2 DEF Inv, TypeOK
    <3> HIDE DEF Contents
    <3> QED
      BY <2>1, <3>1, <3>2 DEF Inv, TypeOK
  <2>4. DiskPossible'
    BY <2>1, <2>2 DEF Inv, TypeOK, DiskPossible
  <2>5. RenamesSynced' /\ RepairCopiesGood' /\ WritePutsGood'
    BY <2>1 DEF Inv, RenamesSynced, RepairCopiesGood, WritePutsGood
  <2>6. Untouched'
    BY <2>1, <2>2 DEF Inv, TypeOK, Untouched
  <2> QED
    BY <2>3, <2>4, <2>5, <2>6 DEF Inv
<1>4. CASE SyncFolder
  <2>1. /\ op # "none"
        /\ UNCHANGED <<folderSync, disk, new, synced, copy, writes, faults,
                       spoils>>
    BY <1>4 DEF SyncFolder, Continue, Ended, counters
  <2>2. maybe' = IF folderSync THEN [n \in Names |-> {disk[n]}] ELSE maybe
    BY <1>4 DEF SyncFolder
  <2>3. \/ target = "bak" /\ target' = "main" /\ step' = "tmp" /\ op' = op
           /\ answer' = answer /\ kept' = kept
        \/ target' = target /\ step' = step /\ op' = "none"
           /\ answer' \in {"none", "ok"} /\ kept' \in BOOLEAN
    BY <1>4 DEF SyncFolder, Continue, Ended, Inv, TypeOK
  <2>4. maybe' \in [Names -> SUBSET Contents]
    BY <2>2 DEF Inv, TypeOK
  <2>5. TypeOK'
    <3> HIDE DEF Contents
    <3> QED
      BY <2>1, <2>3, <2>4 DEF Inv, TypeOK
  <2>6. DiskPossible'
    BY <2>1, <2>2 DEF Inv, TypeOK, DiskPossible
  <2>7. RenamesSynced' /\ RepairCopiesGood' /\ WritePutsGood'
    BY <2>1, <2>3 DEF Inv, RenamesSynced, RepairCopiesGood, WritePutsGood
  <2>8. Untouched'
    <3> SUFFICES ASSUME spoils' = 0 PROVE Untouched'
      BY DEF Untouched
    <3>1. \A n \in Names : disk[n] # Torn /\ Torn \notin maybe[n]
      BY <2>1 DEF Inv, Untouched, DiskPossible
    <3>2. \A n \in Names : Torn \notin maybe'[n]
      BY <2>2, <3>1
    <3> QED
      BY <2>1, <2>3, <3>2 DEF Inv, Untouched
  <2> QED
    BY <2>5, <2>6, <2>7, <2>8 DEF Inv
<1>5. CASE CallFails
  <2>1. /\ op' = "none" /\ answer' \in {"none", "failed"}
        /\ faults' \in 0 .. MaxFaults
        /\ UNCHANGED <<folderSync, disk, maybe, new, target, step, synced, copy,
                       kept, writes, spoils>>
    BY <1>5, BoundsAssumption
    DEF CallFails, Ended, Fault, fileVars, Inv, TypeOK, BoundsAssumption
  <2>2. TypeOK'
    BY <2>1 DEF Inv, TypeOK
  <2>3. DiskPossible' /\ RenamesSynced' /\ RepairCopiesGood' /\ WritePutsGood'
    BY <2>1
    DEF Inv, DiskPossible, RenamesSynced, RepairCopiesGood, WritePutsGood
  <2>4. Untouched'
    BY <2>1 DEF Inv, Untouched
  <2> QED
    BY <2>2, <2>3, <2>4 DEF Inv
<1> QED
  BY <1>1, <1>2, <1>3, <1>4, <1>5 DEF Call

(* The machine: a crash, and a file something else damages.                 *)
LEMMA MachineKeepsInv == ASSUME Inv, Crash \/ Damage PROVE Inv'
<1> USE DEF Names, NoFile, Torn, Contents, Versions
<1>1. CASE Crash
  <2>1. /\ op' = "none" /\ answer' = "none" /\ copy' = NoCopy
        /\ faults' \in 0 .. MaxFaults
        /\ UNCHANGED <<folderSync, new, target, step, synced, kept, writes,
                       spoils>>
    BY <1>1, BoundsAssumption
    DEF Crash, Fault, Inv, TypeOK, BoundsAssumption
  <2>2. /\ disk' \in [Names -> Contents]
        /\ \A n \in Names : disk'[n] \in maybe[n]
        /\ maybe' = [n \in Names |-> {disk'[n]}]
    BY <1>1 DEF Crash
  <2>3. TypeOK'
    <3>1. maybe' \in [Names -> SUBSET Contents]
      BY <2>2
    <3> HIDE DEF Contents
    <3> QED
      BY <2>1, <2>2, <3>1 DEF Inv, TypeOK
  <2>4. DiskPossible' /\ RenamesSynced' /\ RepairCopiesGood' /\ WritePutsGood'
    BY <2>1, <2>2
    DEF DiskPossible, RenamesSynced, RepairCopiesGood, WritePutsGood
  <2>5. Untouched'
    BY <2>1, <2>2 DEF Inv, Untouched
  <2> QED
    BY <2>3, <2>4, <2>5 DEF Inv
<1>2. CASE Damage
  <2>1. spoils' \in 1 .. MaxSpoils
    BY <1>2, BoundsAssumption
    DEF Damage, Spoil, Inv, TypeOK, BoundsAssumption
  <2>2. UNCHANGED <<folderSync, op, new, target, step, synced, answer, copy,
                    kept, writes, faults>>
    BY <1>2 DEF Damage, opVars
  <2>3. PICK n \in Names : /\ disk' = [disk EXCEPT ![n] = Torn]
                           /\ maybe' = [maybe EXCEPT ![n] = {Torn}]
    BY <1>2 DEF Damage
  <2>4. TypeOK'
    <3>1. disk' \in [Names -> Contents]
      BY <2>3 DEF Inv, TypeOK
    <3>2. maybe' \in [Names -> SUBSET Contents]
      BY <2>3 DEF Inv, TypeOK
    <3> HIDE DEF Contents
    <3> QED
      BY <2>1, <2>2, <3>1, <3>2 DEF Inv, TypeOK
  <2>5. DiskPossible' /\ RenamesSynced' /\ RepairCopiesGood' /\ WritePutsGood'
    BY <2>2, <2>3
    DEF Inv, TypeOK, DiskPossible, RenamesSynced, RepairCopiesGood,
        WritePutsGood
  <2>6. Untouched'
    BY <2>1 DEF Untouched
  <2> QED
    BY <2>4, <2>5, <2>6 DEF Inv
<1> QED
  BY <1>1, <1>2

LEMMA StutterKeepsInv == ASSUME Inv, UNCHANGED vars PROVE Inv'
BY DEF vars, fileVars, opVars, counters, Inv, TypeOK, DiskPossible,
       RenamesSynced, RepairCopiesGood, WritePutsGood, Untouched

(* The store's inductive invariant holds whatever is written, fails,        *)
(* crashes or is damaged.                                                   *)
THEOREM Invariant == Spec => []Inv
<1>1. Init => Inv
  BY InitInv
<1>2. Inv /\ [Next]_vars => Inv'
  BY OperationKeepsInv, CallKeepsInv, MachineKeepsInv, StutterKeepsInv DEF Next
<1> QED
  BY <1>1, <1>2, PTL DEF Spec

(* Every variable of the store keeps its type.                              *)
THEOREM Typing == Spec => []TypeOK
<1>1. Inv => TypeOK
  BY DEF Inv
<1> QED
  BY <1>1, Invariant, PTL

(* No crash and no failed call leaves half a file behind.                   *)
THEOREM WholeFile == Spec => []NeverHalf
<1>1. Inv => NeverHalf
  BY DEF Inv, Untouched, NeverHalf
<1> QED
  BY <1>1, Invariant, PTL

-----------------------------------------------------------------------------
(* The good versions. *)

Intact(n) == maybe[n] \subseteq Versions

(* Both files are whole until one of them is touched, and then one is.      *)
Backed ==
    /\ op = "restore" => ~kept
    /\ folderSync /\ kept =>
          /\ spoils = 0 => Intact("main") /\ Intact("bak")
          /\ spoils = 1 => Intact("main") \/ Intact("bak")

(* What is whole is a good file now, and stays whole as long as it is not   *)
(* given anything else.                                                     *)
LEMMA WholeIsGood ==
    ASSUME Inv, NEW n \in Names, Intact(n) PROVE disk[n] \in Versions
BY DEF Inv, DiskPossible, Intact

LEMMA WholeStays ==
    ASSUME Intact("main"), maybe'["main"] \subseteq maybe["main"] \cup Versions
    PROVE  Intact("main")'
BY DEF Intact, Versions

LEMMA WholeBackupStays ==
    ASSUME Intact("bak"), maybe'["bak"] \subseteq maybe["bak"] \cup Versions
    PROVE  Intact("bak")'
BY DEF Intact, Versions

LEMMA OperationKeepsBacked == ASSUME Inv, Backed, Operation PROVE Backed'
<1> USE DEF Names, NoFile, Torn
<1>0. 0 \notin Versions /\ -1 \notin Versions
  BY DEF Versions
<1>1. CASE Write
  <2>1. /\ op' = "write" /\ spoils' >= spoils /\ spoils' \in Nat
        /\ UNCHANGED <<folderSync, maybe, kept>>
    BY <1>1, BoundsAssumption
    DEF Write, Begin, fileVars, ReadsFine, Unreadable, Spoil, Inv, TypeOK,
        BoundsAssumption
  <2> QED
    BY <2>1 DEF Backed, Intact, Versions, Inv, TypeOK
<1>2. CASE ReadFallsBack \/ ReadFails
  <2>1. /\ maybe'["bak"] = maybe["bak"]
        /\ UNCHANGED <<folderSync, kept>>
        /\ op' # "restore"
    BY <1>2
    DEF ReadFallsBack, ReadFails, MoveAside, Begin, opVars, Idle, Inv, TypeOK
  <2>2. spoils' # 0
    <3>1. disk["main"] = Torn => spoils # 0
      BY DEF Inv, Untouched, DiskPossible
    <3> QED
      BY <1>2, <3>1
      DEF ReadFallsBack, ReadFails, ReadsFine, Unreadable, Spoil, Inv, TypeOK
  <2>3. ASSUME folderSync', kept', spoils' = 1 PROVE Intact("bak")'
    <3>1. spoils = 0 \/ (spoils = 1 /\ ReadsFine)
      <4>1. ReadsFine \/ spoils' = spoils + 1
        BY <1>2 DEF ReadFallsBack, ReadFails, Unreadable, Spoil
      <4>2. spoils \in Int
        BY DEF Inv, TypeOK
      <4> QED
        BY <2>3, <4>1, <4>2 DEF ReadsFine
    <3>2. CASE spoils = 0
      BY <2>1, <2>3, <3>2 DEF Backed, Intact, Versions
    <3>3. CASE spoils = 1 /\ ReadsFine
      <4>1. disk["main"] = Torn
        BY <1>2, <3>3
        DEF ReadFallsBack, ReadFails, ReadsFine, Unreadable, Spoil, Inv, TypeOK
      <4>2. ~Intact("main")
        BY <1>0, <4>1, WholeIsGood
      <4> QED
        BY <2>1, <2>3, <3>3, <4>2 DEF Backed, Intact, Versions
    <3> QED
      BY <3>1, <3>2, <3>3
  <2> QED
    BY <2>1, <2>2, <2>3 DEF Backed
<1>3. CASE Snapshot
  BY <1>3 DEF Snapshot, fileVars, opVars, counters, Backed, Intact, Versions
<1>4. CASE Restore
  BY <1>4 DEF Restore, Begin, Backed
<1> QED
  BY <1>1, <1>2, <1>3, <1>4 DEF Operation

LEMMA CallKeepsBacked == ASSUME Inv, Backed, Call PROVE Backed'
<1> USE DEF Names, NoFile, Torn, Idle
<1>0. 0 \notin Versions /\ -1 \notin Versions
  BY DEF Versions
<1>1. CASE WriteTmp \/ SyncTmp
  BY <1>1
  DEF WriteTmp, SyncTmp, fileVars, counters, Backed, Intact, Versions
<1>2. CASE Rename \/ Remove
  <2>1. op # "none" /\ UNCHANGED <<folderSync, op, kept, spoils>>
    BY <1>2 DEF Rename, Remove, counters
  <2>2. ASSUME kept PROVE new[target] \in Versions
    BY <2>1, <2>2
    DEF Backed, Inv, TypeOK, RepairCopiesGood, WritePutsGood
  <2>3. ASSUME kept, NEW n \in Names
        PROVE  maybe'[n] \subseteq maybe[n] \cup Versions
    <3>1. CASE Rename
      <4>1. synced
        BY <3>1 DEF Rename, Inv, RenamesSynced
      <4>2. maybe' = [maybe EXCEPT ![target] = @ \cup {new[target]}]
        BY <3>1, <4>1 DEF Rename, Inv, TypeOK
      <4> QED
        BY <2>2, <2>3, <4>2 DEF Inv, TypeOK, Versions
    <3>2. CASE Remove
      BY <1>0, <2>2, <2>3, <3>2 DEF Remove
    <3> QED
      BY <1>2, <3>1, <3>2
  <2> QED
    BY <2>1, <2>3, WholeStays, WholeBackupStays DEF Backed
<1>3. CASE SyncFolder
  <2>1. UNCHANGED <<folderSync, spoils, disk>>
    BY <1>3 DEF SyncFolder, counters
  <2>2. \A n \in Names : maybe'[n] \subseteq maybe[n]
    BY <1>3 DEF SyncFolder, Inv, DiskPossible
  <2>3. CASE kept' = kept
    <3>1. op' = "restore" => op = "restore"
      BY <1>3 DEF SyncFolder, Continue, Ended
    <3> QED
      BY <2>1, <2>2, <2>3, <3>1, WholeStays, WholeBackupStays DEF Backed
  <2>4. CASE kept' # kept
    <3>1. op = "write" /\ target = "main" /\ Good("bak") /\ op' = "none"
      BY <1>3, <2>4 DEF SyncFolder, Continue, Ended, Inv, TypeOK
    <3>2. folderSync => Intact("bak")'
      BY <1>3, <3>1 DEF SyncFolder, Good, Intact, Versions
    <3>3. spoils = 0 => disk["main"] = new["main"]
      BY <1>3, <3>1 DEF SyncFolder, Inv, Untouched
    <3>4. new["main"] \in Versions
      BY <3>1 DEF Inv, WritePutsGood
    <3>5. folderSync /\ spoils = 0 => Intact("main")'
      BY <1>3, <3>3, <3>4 DEF SyncFolder, Intact, Versions
    <3> QED
      BY <2>1, <3>1, <3>2, <3>5 DEF Backed
  <2> QED
    BY <2>3, <2>4
<1>4. CASE CallFails
  BY <1>4 DEF CallFails, Ended, fileVars, Backed, Intact, Versions
<1> QED
  BY <1>1, <1>2, <1>3, <1>4 DEF Call

LEMMA MachineKeepsBacked == ASSUME Inv, Backed, Crash \/ Damage PROVE Backed'
<1> USE DEF Names
<1>1. CASE Crash
  <2>1. op' = "none" /\ UNCHANGED <<folderSync, kept, spoils>>
    BY <1>1 DEF Crash
  <2>2. \A n \in Names : maybe'[n] \subseteq maybe[n]
    BY <1>1 DEF Crash
  <2> QED
    BY <2>1, <2>2, WholeStays, WholeBackupStays DEF Backed
<1>2. CASE Damage
  <2>1. op' = op /\ spoils' = spoils + 1 /\ UNCHANGED <<folderSync, kept>>
    BY <1>2 DEF Damage, Spoil, opVars
  <2>2. \/ maybe'["main"] = maybe["main"]
        \/ maybe'["bak"] = maybe["bak"]
    BY <1>2 DEF Damage, Inv, TypeOK
  <2> QED
    BY <2>1, <2>2 DEF Backed, Intact, Versions, Inv, TypeOK
<1> QED
  BY <1>1, <1>2

(* Once a write over a good file was acknowledged, one damage leaves a good *)
(* version to load, whatever crashes and failures there are.                *)
THEOREM LastGood == Spec => []LastGoodSurvives
<1>1. Init => Backed
  BY DEF Init, Backed
<1>2. Inv /\ Backed /\ [Next]_vars => Backed'
  <2>1. ASSUME Backed, UNCHANGED vars PROVE Backed'
    BY <2>1
    DEF vars, fileVars, opVars, counters, Backed, Intact, Versions
  <2> QED
    BY <2>1, OperationKeepsBacked, CallKeepsBacked, MachineKeepsBacked DEF Next
<1>3. Inv /\ Backed => LastGoodSurvives
  BY DEF Inv, TypeOK, Backed, LastGoodSurvives, Intact, Names
<1> QED
  BY <1>1, <1>2, <1>3, Invariant, PTL DEF Spec

-----------------------------------------------------------------------------
(* The store keeps the promise of a saved file. *)

SavedWriting == IF op \in {"write", "restore"} THEN {new["main"]} ELSE {}

(* A step that changes nothing of what is promised.                         *)
LEMMA SavedStutters ==
    ASSUME UNCHANGED <<folderSync, answer, spoils>>,
           maybe'["main"] = maybe["main"],
           SavedWriting' = SavedWriting
    PROVE  UNCHANGED Saved!vars
BY DEF SavedWriting, Saved!vars

LEMMA InitSaved == Init => Saved!Init
BY DEF Init, Nothing, Saved!Init, Names, Contents

(* Each step of an untouched store is one the promise allows.               *)
LEMMA StepSaved ==
    ASSUME Inv, Inv', Next, spoils = 0, spoils' = 0
    PROVE  UNCHANGED Saved!vars \/ (UNCHANGED folderSync /\ Saved!Step)
<1> USE DEF Names, Idle
<1>1. CASE Write
  <2>1. /\ op = "none" /\ op' = "write" /\ answer' = "none"
        /\ UNCHANGED <<folderSync, maybe>>
    BY <1>1 DEF Write, Begin, fileVars
  <2>2. new'["main"] \in Contents
    BY DEF Inv, TypeOK
  <2> QED
    BY <2>1, <2>2 DEF Saved!Step, Saved!Begin, Contents
<1>2. CASE ReadFallsBack \/ ReadFails
  <2>1. disk["main"] # Torn
    BY DEF Inv, Untouched, DiskPossible
  <2> QED
    BY <1>2, <2>1 DEF ReadFallsBack, ReadFails, Unreadable, Spoil
<1>3. CASE Snapshot
  BY <1>3, SavedStutters
  DEF Snapshot, fileVars, opVars, counters, SavedWriting
<1>4. CASE Restore
  <2>1. /\ op = "none" /\ op' = "restore" /\ answer' = "none"
        /\ UNCHANGED <<folderSync, maybe>>
    BY <1>4 DEF Restore, Begin, fileVars
  <2>2. new'["main"] \in Contents
    BY DEF Inv, TypeOK
  <2> QED
    BY <2>1, <2>2 DEF Saved!Step, Saved!Begin, Contents
<1>5. CASE WriteTmp \/ SyncTmp
  BY <1>5, SavedStutters
  DEF WriteTmp, SyncTmp, fileVars, counters, SavedWriting
<1>6. CASE Rename \/ Remove
  <2>1. /\ op \in {"write", "restore"}
        /\ UNCHANGED <<folderSync, op, new, target, answer, spoils>>
    BY <1>6 DEF Rename, Remove, counters, Inv, TypeOK, Untouched
  <2>2. CASE target = "bak"
    <3>1. maybe'["main"] = maybe["main"]
      BY <1>6, <2>2 DEF Rename, Remove, Inv, TypeOK
    <3> QED
      BY <2>1, <3>1, SavedStutters DEF SavedWriting
  <2>3. CASE target = "main"
    <3>1. maybe'["main"] = maybe["main"] \cup {new["main"]}
      <4>1. CASE Rename
        BY <2>3, <4>1 DEF Rename, Inv, TypeOK, RenamesSynced
      <4>2. CASE Remove
        BY <2>3, <4>2 DEF Remove, Inv, TypeOK
      <4> QED
        BY <1>6, <4>1, <4>2
    <3> QED
      BY <2>1, <3>1 DEF Saved!Step, Saved!Settle
  <2> QED
    BY <2>2, <2>3 DEF Inv, TypeOK
<1>7. CASE SyncFolder
  <2>1. /\ op \in {"write", "restore"}
        /\ UNCHANGED <<folderSync, disk, new, spoils>>
        /\ maybe'["main"] = IF folderSync THEN {disk["main"]}
                            ELSE maybe["main"]
    BY <1>7 DEF SyncFolder, Continue, Ended, counters, Inv, TypeOK, Untouched
  <2>2. disk["main"] \in maybe["main"]
    BY DEF Inv, DiskPossible
  <2>3. CASE target = "bak"
    <3>1. op' = op /\ answer' = answer
      BY <1>7, <2>3 DEF SyncFolder, Continue
    <3> QED
      BY <2>1, <2>2, <3>1 DEF Saved!Step, Saved!Settle
  <2>4. CASE target = "main"
    <3>1. op' = "none" /\ answer' = "ok"
      BY <1>7, <2>1, <2>4 DEF SyncFolder, Continue, Ended
    <3>2. disk["main"] = new["main"]
      BY <1>7, <2>4 DEF SyncFolder, Inv, Untouched
    <3> QED
      BY <2>1, <2>2, <3>1, <3>2 DEF Saved!Step, Saved!Acknowledge
  <2> QED
    BY <2>3, <2>4 DEF Inv, TypeOK
<1>8. CASE CallFails
  <2>1. /\ op \in {"write", "restore"} /\ op' = "none" /\ answer' = "failed"
        /\ UNCHANGED <<folderSync, maybe>>
    BY <1>8 DEF CallFails, Ended, fileVars, Inv, TypeOK, Untouched
  <2> QED
    BY <2>1 DEF Saved!Step, Saved!Refuse
<1>9. CASE Crash
  <2>1. /\ op' = "none" /\ answer' = "none" /\ folderSync' = folderSync
        /\ disk'["main"] \in maybe["main"]
        /\ maybe'["main"] = {disk'["main"]}
    BY <1>9 DEF Crash
  <2> QED
    BY <2>1 DEF Saved!Step, Saved!Crash
<1>10. CASE Damage
  BY <1>10 DEF Damage, Spoil
<1> QED
  BY <1>1, <1>2, <1>3, <1>4, <1>5, <1>6, <1>7, <1>8, <1>9, <1>10
  DEF Next, Operation, Call

(* What touches the files does not undo it.                                 *)
LEMMA SpoilsStay == ASSUME Inv, Inv', [Next]_vars PROVE spoils' >= spoils
BY DEF Inv, TypeOK, Next, Operation, Call, Crash, Damage, vars, Write,
       ReadFallsBack, ReadFails, Snapshot, Restore, WriteTmp, SyncTmp, Rename,
       Remove, SyncFolder, CallFails, fileVars, opVars, counters, ReadsFine,
       Unreadable, Spoil

(* Until something else touches it, a file is saved as a whole or not at    *)
(* all, and what was acknowledged survives a crash.                         *)
THEOREM AllOrNothing == Spec => Atomic
<1>1. Inv /\ Inv' /\ [Next]_vars => [Saved!Next]_(Saved!vars)
  <2> SUFFICES ASSUME Inv, Inv', [Next]_vars
               PROVE  [Saved!Next]_(Saved!vars)
    OBVIOUS
  <2>1. CASE spoils' # 0
    BY <2>1 DEF Saved!Next
  <2>2. CASE spoils' = 0
    <3>1. spoils = 0
      BY <2>2, SpoilsStay DEF Inv, TypeOK
    <3>2. CASE Next
      BY <2>2, <3>1, <3>2, StepSaved DEF Saved!Next
    <3>3. CASE UNCHANGED vars
      BY <3>3, SavedStutters
      DEF vars, fileVars, opVars, counters, SavedWriting
    <3> QED
      BY <3>2, <3>3
  <2> QED
    BY <2>1, <2>2
<1> QED
  BY <1>1, InitSaved, Invariant, PTL DEF Spec, Atomic, Saved!Spec

-----------------------------------------------------------------------------
(***************************************************************************)
(* An import of a configuration.                                           *)
(***************************************************************************)
(* Backups are stamped later and later, one for each import at most.        *)
StampsSpent ==
    /\ clock <= imports
    /\ import.at = "backup" => clock < imports

(* What an import is made of is there, and where it has got to is so.       *)
JobShape ==
    /\ import.at = "idle" => import = NoImport
    /\ import.at # "idle" => import.takes \in Whole /\ import.was \in Whole
    /\ import.at = "backup" => import.done = {}
    /\ import.at \in {"roll back", "put back"} => import.done # {}
    /\ import.done \subseteq import.picked
    /\ import.answer # "none" <=> import.at = "answered"

TransferTypes == TransferTypeOK /\ StampsSpent /\ JobShape

(* What an import has not touched, or has put back, is as it was; what it   *)
(* has written is as the file under review has it.                          *)
Forward ==
    import.at \in {"backup", "commit"} =>
      /\ import.failed = "none" /\ import.stuck = {}
      /\ \A t \in Targets :
           IF t \in import.done THEN Setup[t] = import.takes[t] /\ file[t].main = import.takes[t]
           ELSE AsItWas(t)
Backward ==
    /\ import.at \in {"roll back", "put back"} =>
         \A t \in Targets \ (import.done \cup import.stuck) : AsItWas(t)
    /\ import.at = "put back" /\ Last # "calibration" => memory[Last] = import.was[Last]
CopyIsOfThen ==
    import.at # "idle" => import.was["calibration"] = Loaded(import.copy["calibration"])

TransferInv == Forward /\ Backward /\ CopyIsOfThen /\ AnswerIsTrue

(* The newest stamp is the clock's, and is never pushed out.                *)
InsuredIsThere == (\A b \in backups : b.stamp <= clock) /\ BackupIsThere

(* The three files, in the order they are written.                          *)
LEMMA TheTargets ==
    /\ Targets = {"mapping", "calibration", "config"}
    /\ Place("mapping") = 1 /\ Place("calibration") = 2 /\ Place("config") = 3
<1>1. DOMAIN Order = {1, 2, 3} /\ Order[1] = "mapping" /\ Order[2] = "calibration" /\ Order[3] = "config"
  BY DEF Order
<1>2. Targets = {"mapping", "calibration", "config"}
  BY <1>1 DEF Targets, Range
<1>3. Place("mapping") = 1
  BY <1>1 DEF Place
<1>4. Place("calibration") = 2
  BY <1>1 DEF Place
<1>5. Place("config") = 3
  BY <1>1 DEF Place
<1> QED
  BY <1>2, <1>3, <1>4, <1>5

LEMMA FirstIsTodo ==
    ASSUME import.picked \subseteq Targets, Todo # {}
    PROVE  First \in Todo /\ First \in Targets
<1>1. Todo \subseteq {"mapping", "calibration", "config"}
  BY TheTargets DEF Todo
<1>2. \E t \in Todo : \A u \in Todo : Place(t) <= Place(u)
  <2>1. CASE "mapping" \in Todo
    BY <1>1, <2>1, TheTargets
  <2>2. CASE "mapping" \notin Todo /\ "calibration" \in Todo
    BY <1>1, <2>2, TheTargets
  <2>3. CASE Todo = {"config"}
    BY <2>3, TheTargets
  <2> QED
    BY <1>1, <2>1, <2>2, <2>3
<1> QED
  BY <1>1, <1>2, TheTargets DEF First

LEMMA LastIsDone ==
    ASSUME import.done \subseteq Targets, import.done # {}
    PROVE  Last \in import.done /\ Last \in Targets
<1>1. import.done \subseteq {"mapping", "calibration", "config"}
  BY TheTargets
<1>2. \E t \in import.done : \A u \in import.done : Place(t) >= Place(u)
  <2>1. CASE "config" \in import.done
    BY <1>1, <2>1, TheTargets
  <2>2. CASE "config" \notin import.done /\ "calibration" \in import.done
    BY <1>1, <2>2, TheTargets
  <2>3. CASE import.done = {"mapping"}
    BY <2>3, TheTargets
  <2> QED
    BY <1>1, <2>1, <2>2, <2>3
<1> QED
  BY <1>1, <1>2, TheTargets DEF Last

(* What a write or a restore, done or cut short, makes of a file.           *)
OneFile == [main : Setups \cup {Missing}, bak : Setups \cup {Missing}]

LEMMA SetupsAreNumbers == Setups \subseteq Nat /\ Missing \notin Setups /\ 0 \in Setups /\ MaxImports \in Nat
                          /\ MaxSetups \in Nat /\ MaxFileFaults \in Nat
<1>1. MaxSetups \in Nat /\ MaxImports \in Nat /\ MaxFileFaults \in Nat
  BY ImportBoundsAssumption
<1> QED
  BY <1>1 DEF Setups, Missing

LEMMA WritesOneFile ==
    ASSUME NEW f \in OneFile, NEW s \in Setups
    PROVE  /\ Rotated(f) \in OneFile /\ Rotated(f).main = f.main
           /\ Written(f, s) \in OneFile /\ Written(f, s).main = s
           /\ CutWrite(f, s) \subseteq OneFile /\ WriteFailed(f, s) \subseteq OneFile
           /\ "sync" \notin TransferOdds => \A g \in WriteFailed(f, s) : g.main = f.main
<1>1. Rotated(f) \in OneFile /\ Rotated(f).main = f.main
  BY DEF Rotated, OneFile
<1>2. Written(f, s) \in OneFile /\ Written(f, s).main = s
  BY <1>1 DEF Written, OneFile
<1>3. CutWrite(f, s) \subseteq OneFile
  BY <1>1, <1>2 DEF CutWrite
<1>4. WriteFailed(f, s) \subseteq OneFile
  BY <1>3 DEF WriteFailed, Failed
<1>5. "sync" \notin TransferOdds => \A g \in WriteFailed(f, s) : g.main = f.main
  BY <1>1 DEF WriteFailed, Failed, CutWrite
<1> QED
  BY <1>1, <1>2, <1>3, <1>4, <1>5

LEMMA RestoresOneFile ==
    ASSUME NEW f \in OneFile, NEW c \in OneFile
    PROVE  CutRestore(f, c) \subseteq OneFile /\ RestoreFailed(f, c) \subseteq OneFile
<1>1. [f EXCEPT !.bak = c.bak] \in OneFile
  BY DEF OneFile
<1>2. CutRestore(f, c) \subseteq OneFile
  BY <1>1 DEF CutRestore
<1> QED
  BY <1>2 DEF RestoreFailed, Failed

LEMMA FilesAre == Files = [Targets -> OneFile]
  BY DEF Files, OneFile

LEMMA LoadedIsSetup ==
    ASSUME NEW f \in OneFile
    PROVE  Loaded(f) \in Setups /\ (f.main \in Setups => Loaded(f) = f.main)
  BY SetupsAreNumbers DEF Loaded, OneFile

LEMMA SetupIsWhole ==
    ASSUME file \in Files, memory \in [Targets \ {"calibration"} -> Setups]
    PROVE  Setup \in Whole
<1>1. \A t \in Targets : Loaded(file[t]) \in Setups
  BY FilesAre, LoadedIsSetup
<1> QED
  BY <1>1 DEF Setup, Whole

LEMMA MemoryIsLoaded ==
    ASSUME NEW files \in Files
    PROVE  InMemory(files) \in [Targets \ {"calibration"} -> Setups]
  BY FilesAre, LoadedIsSetup DEF InMemory

LEMMA WholeIsKnown == Unknown \notin Whole
  BY SetupsAreNumbers, TheTargets DEF Unknown, Whole

Jobs == [at : {"idle", "backup", "commit", "roll back", "put back", "answered"},
         picked : SUBSET Targets, done : SUBSET Targets, stuck : SUBSET Targets,
         takes : Whole \cup {Unknown}, was : Whole \cup {Unknown}, copy : Files,
         failed : Targets \cup {"none"},
         answer : {"none", "applied", "nothing changed", "partly applied"}]
Folder == [stamp : Stamps, holds : Whole \cup {Unknown}]

FileTypes == file \in Files /\ memory \in [Targets \ {"calibration"} -> Setups]
FolderTypes == backups \subseteq Folder /\ clock \in Stamps /\ opened \in Whole \cup {Unknown}
               /\ insured \in Whole \cup {Unknown}
CountTypes == setups \in Setups /\ imports \in 0..MaxImports /\ failures \in 0..MaxFileFaults

LEMMA TransferTypesAre ==
    TransferTypes <=> /\ FileTypes /\ FolderTypes /\ import \in Jobs /\ CountTypes
                      /\ StampsSpent /\ JobShape
  BY DEF TransferTypes, TransferTypeOK, FileTypes, FolderTypes, CountTypes, Jobs, Folder

LEMMA NoJob == NoFiles \in Files /\ NoImport \in Jobs /\ NoImport.at = "idle" /\ NoImport.answer = "none"
               /\ NoImport.done = {} /\ NoImport.picked = {}
<1>1. NoFiles \in Files
  BY FilesAre DEF NoFiles, OneFile
<1> QED
  BY <1>1 DEF NoImport, Jobs

LEMMA Rolls ==
    ASSUME NEW job \in Jobs
    PROVE  /\ RollBack(job) \in Jobs
           /\ RollBack(job).at = IF job.done # {} THEN "roll back" ELSE "answered"
           /\ RollBack(job).answer = IF job.done # {} THEN job.answer
                                     ELSE IF job.stuck = {} THEN "nothing changed" ELSE "partly applied"
           /\ RollBack(job).picked = job.picked /\ RollBack(job).done = job.done
           /\ RollBack(job).stuck = job.stuck /\ RollBack(job).takes = job.takes
           /\ RollBack(job).was = job.was /\ RollBack(job).copy = job.copy
           /\ RollBack(job).failed = job.failed
<1>1. CASE job.done # {}
  BY <1>1 DEF RollBack, Jobs
<1>2. CASE job.done = {} /\ job.stuck = {}
  BY <1>2 DEF RollBack, Jobs
<1>3. CASE job.done = {} /\ job.stuck # {}
  BY <1>3 DEF RollBack, Jobs
<1> QED
  BY <1>1, <1>2, <1>3

(* A file fails to be written, and one that was is put back or is not.      *)
FailedAt == [import EXCEPT !.failed = First]
BackAt == [import EXCEPT !.done = @ \ {Last}]
StuckAt == [import EXCEPT !.done = @ \ {Last}, !.stuck = @ \cup {Last}]

LEMMA JobsGoOn ==
    ASSUME import \in Jobs
    PROVE  /\ Todo # {} => FailedAt \in Jobs
           /\ import.done # {} => BackAt \in Jobs /\ StuckAt \in Jobs
<1>1. Todo # {} => First \in Targets
  BY FirstIsTodo DEF Jobs
<1>2. import.done # {} => Last \in Targets
  BY LastIsDone DEF Jobs
<1>3. Todo # {} => FailedAt \in Jobs
  BY <1>1 DEF FailedAt, Jobs
<1>4. import.done # {} => BackAt \in Jobs /\ StuckAt \in Jobs
  BY <1>2 DEF BackAt, StuckAt, Jobs
<1> QED
  BY <1>3, <1>4

LEMMA Faults == ASSUME CountTypes, Breaks PROVE failures' \in 0..MaxFileFaults
  BY SetupsAreNumbers DEF CountTypes, Breaks

(* The steps of an import keep its job's shape.                             *)
LEMMA EditTyped == ASSUME TransferTypes, NEW t \in Targets, Edit(t) PROVE TransferTypes'
<1>0. FileTypes /\ FolderTypes /\ import \in Jobs /\ CountTypes /\ StampsSpent /\ JobShape
  BY TransferTypesAre
<1>1. setups' \in Setups /\ failures' \in 0..MaxFileFaults
  <2>1. setups' \in Setups
    BY <1>0, SetupsAreNumbers DEF Edit, CountTypes, Setups
  <2>2. failures' \in 0..MaxFileFaults
    BY <1>0, Faults DEF Edit, CountTypes
  <2> QED
    BY <2>1, <2>2
<1>2. file[t] \in OneFile /\ file \in [Targets -> OneFile]
  BY <1>0, FilesAre DEF FileTypes
<1>3. file' \in Files
  <2>1. CASE file' = [file EXCEPT ![t] = Written(@, setups')]
    BY <1>1, <1>2, <2>1, FilesAre, WritesOneFile
  <2>2. CASE \E f \in WriteFailed(file[t], setups') : file' = [file EXCEPT ![t] = f]
    <3>1. PICK f \in WriteFailed(file[t], setups') : file' = [file EXCEPT ![t] = f]
      BY <2>2
    <3>2. f \in OneFile
      BY <1>1, <1>2, WritesOneFile
    <3> QED
      BY <1>2, <3>1, <3>2, FilesAre
  <2> QED
    BY <2>1, <2>2 DEF Edit
<1>4. memory' \in [Targets \ {"calibration"} -> Setups]
  <2>1. Holds(t, setups') \in [Targets \ {"calibration"} -> Setups]
    BY <1>0, <1>1 DEF Holds, FileTypes
  <2> QED
    BY <1>0, <2>1 DEF Edit, FileTypes
<1>5. FolderTypes' /\ import' = import /\ StampsSpent' /\ JobShape'
  BY <1>0 DEF Edit, FolderTypes, StampsSpent, JobShape
<1>6. FileTypes' /\ CountTypes'
  BY <1>0, <1>1, <1>3, <1>4 DEF Edit, FileTypes, CountTypes
<1> QED
  BY <1>0, <1>5, <1>6, TransferTypesAre DEF FileTypes, FolderTypes, CountTypes, StampsSpent, JobShape,
     TransferTypes, TransferTypeOK, Jobs, Folder

LEMMA TypesNext ==
    ASSUME FileTypes', FolderTypes', import' \in Jobs, CountTypes', StampsSpent', JobShape'
    PROVE  TransferTypes'
  BY DEF FileTypes, FolderTypes, CountTypes, TransferTypes, TransferTypeOK, Jobs, Folder

LEMMA OpenTyped == ASSUME TransferTypes, Open PROVE TransferTypes'
<1>0. FileTypes /\ FolderTypes /\ import \in Jobs /\ CountTypes /\ StampsSpent /\ JobShape
  BY TransferTypesAre
<1>1. setups' \in Setups
  BY <1>0, SetupsAreNumbers DEF Open, CountTypes, Setups
<1>2. opened' \in Whole \cup {Unknown}
  BY <1>0, <1>1 DEF Open, FolderTypes, Folder, Whole
<1>3. FileTypes' /\ FolderTypes' /\ import' = import /\ CountTypes' /\ StampsSpent' /\ JobShape'
  BY <1>0, <1>1, <1>2 DEF Open, FileTypes, FolderTypes, CountTypes, StampsSpent, JobShape
<1> QED
  BY <1>0, <1>3, TypesNext

LEMMA ApplyTyped == ASSUME TransferTypes, Apply PROVE TransferTypes'
<1>0. FileTypes /\ FolderTypes /\ import \in Jobs /\ CountTypes /\ StampsSpent /\ JobShape
  BY TransferTypesAre
<1>1. PICK picked \in SUBSET Targets \ {{}}, at \in {"backup", "commit", "answered"} :
        /\ IF at = "answered" THEN Breaks ELSE UNCHANGED failures
        /\ import' = [NoImport EXCEPT !.at = at, !.picked = picked, !.takes = opened,
                        !.was = Setup, !.copy = file,
                        !.answer = IF at = "answered" THEN "nothing changed" ELSE "none"]
  BY DEF Apply
<1>2. opened \in Whole /\ Setup \in Whole /\ file \in Files
  BY <1>0, SetupIsWhole DEF FileTypes, FolderTypes, Apply
<1>3. /\ import' = [at |-> at, picked |-> picked, done |-> {}, stuck |-> {}, takes |-> opened,
                    was |-> Setup, copy |-> file, failed |-> "none",
                    answer |-> IF at = "answered" THEN "nothing changed" ELSE "none"]
  BY <1>1 DEF NoImport
<1>4. import' \in Jobs /\ JobShape'
  <2>1. CASE at = "answered"
    BY <1>2, <1>3, <2>1 DEF Jobs, JobShape
  <2>2. CASE at # "answered"
    BY <1>2, <1>3, <2>2 DEF Jobs, JobShape
  <2> QED
    BY <2>1, <2>2
<1>5. failures' \in 0..MaxFileFaults
  BY <1>0, <1>1, Faults DEF CountTypes
<1>6. CountTypes' /\ StampsSpent'
  <2>1. imports' = imports + 1 /\ imports' \in 0..MaxImports /\ clock' = clock /\ setups' = setups
    BY <1>0, SetupsAreNumbers DEF Apply, CountTypes
  <2>2. clock \in Nat /\ clock < imports'
    BY <1>0, <2>1, SetupsAreNumbers DEF StampsSpent, FolderTypes, Stamps, CountTypes
  <2> QED
    BY <1>0, <1>5, <2>1, <2>2, SetupsAreNumbers DEF CountTypes, StampsSpent
<1>7. FileTypes' /\ FolderTypes'
  BY <1>0 DEF Apply, FileTypes, FolderTypes
<1> QED
  BY <1>4, <1>6, <1>7, TypesNext

LEMMA StampsInTime ==
    ASSUME TransferTypes, import.at = "backup", NEW stamp \in Stamped
    PROVE  /\ stamp \in Stamps /\ stamp <= imports
           /\ clock + 1 \in Stamps /\ clock + 1 <= imports
<1>0. FolderTypes /\ CountTypes /\ StampsSpent
  BY TransferTypesAre
<1>1. clock \in Nat /\ imports \in Nat /\ imports <= MaxImports /\ clock < imports /\ MaxImports \in Nat
  BY <1>0, SetupsAreNumbers DEF FolderTypes, CountTypes, StampsSpent, Stamps
<1>2. stamp \in 0..clock + 1
  BY <1>1 DEF Stamped
<1> QED
  BY <1>1, <1>2 DEF Stamps

LEMMA FolderAfter ==
    ASSUME backups \subseteq Folder, NEW stamp \in Stamps, NEW holds \in Whole \cup {Unknown}
    PROVE  With(stamp, holds) \subseteq Folder /\ Kept(With(stamp, holds)) \subseteq Folder
<1>1. With(stamp, holds) \subseteq Folder
  BY DEF With, Folder
<1> QED
  BY <1>1 DEF Kept

LEMMA BackupTyped == ASSUME TransferTypes, Backup PROVE TransferTypes'
<1>0. FileTypes /\ FolderTypes /\ import \in Jobs /\ CountTypes /\ StampsSpent /\ JobShape
  BY TransferTypesAre
<1>1. PICK stamp \in Stamped :
         \/ /\ \/ backups' = Kept(With(stamp, Setup)) /\ UNCHANGED failures
               \/ Breaks /\ backups' = With(stamp, Setup)
            /\ clock' = stamp /\ insured' = Setup
            /\ import' = [import EXCEPT !.at = "commit"]
         \/ /\ Breaks /\ backups' \in {backups, With(stamp, Unknown)}
            /\ clock' = stamp /\ UNCHANGED insured
            /\ import' = [import EXCEPT !.at = "answered", !.answer = "nothing changed"]
  BY DEF Backup
<1>2. import.at = "backup" /\ import.takes \in Whole /\ import.was \in Whole /\ import.answer = "none"
      /\ import.done = {}
  BY <1>0 DEF Backup, JobShape
<1>3. clock' \in Stamps /\ clock' <= imports /\ stamp \in Stamps
  BY <1>1, <1>2, StampsInTime
<1>4. Setup \in Whole
  BY <1>0, SetupIsWhole DEF FileTypes
<1>5. backups' \subseteq Folder /\ insured' \in Whole \cup {Unknown}
  <2>1. With(stamp, Setup) \subseteq Folder /\ Kept(With(stamp, Setup)) \subseteq Folder
    BY <1>0, <1>3, <1>4, FolderAfter DEF FolderTypes
  <2>2. With(stamp, Unknown) \subseteq Folder
    BY <1>0, <1>3, FolderAfter DEF FolderTypes
  <2> QED
    BY <1>0, <1>1, <1>4, <2>1, <2>2 DEF FolderTypes
<1>6. failures' \in 0..MaxFileFaults
  BY <1>0, <1>1, Faults DEF CountTypes
<1>7. import' \in Jobs /\ JobShape' /\ import'.at # "backup"
  <2>1. CASE import' = [import EXCEPT !.at = "commit"]
    BY <1>0, <1>2, <2>1 DEF Jobs, JobShape
  <2>2. CASE import' = [import EXCEPT !.at = "answered", !.answer = "nothing changed"]
    BY <1>0, <1>2, <2>2 DEF Jobs, JobShape
  <2> QED
    BY <1>1, <2>1, <2>2
<1>8. FileTypes' /\ FolderTypes' /\ CountTypes' /\ StampsSpent'
  BY <1>0, <1>3, <1>5, <1>6, <1>7 DEF Backup, FileTypes, FolderTypes, CountTypes, StampsSpent
<1> QED
  BY <1>7, <1>8, TypesNext

(* The job after a file failed or was put back.                             *)
LEMMA RollsShape ==
    ASSUME NEW job \in Jobs, import' = RollBack(job), job.takes \in Whole, job.was \in Whole,
           job.done \subseteq job.picked, job.answer = "none"
    PROVE  import' \in Jobs /\ JobShape' /\ import'.at # "backup"
<1>1. /\ import' \in Jobs
      /\ import'.at = IF job.done # {} THEN "roll back" ELSE "answered"
      /\ import'.answer = IF job.done # {} THEN job.answer
                          ELSE IF job.stuck = {} THEN "nothing changed" ELSE "partly applied"
      /\ import'.picked = job.picked /\ import'.done = job.done
      /\ import'.takes = job.takes /\ import'.was = job.was
  BY Rolls
<1>2. CASE job.done # {}
  BY <1>1, <1>2 DEF JobShape
<1>3. CASE job.done = {} /\ job.stuck = {}
  BY <1>1, <1>3 DEF JobShape
<1>4. CASE job.done = {} /\ job.stuck # {}
  BY <1>1, <1>4 DEF JobShape
<1> QED
  BY <1>1, <1>2, <1>3, <1>4

LEMMA CommitTyped == ASSUME TransferTypes, Commit PROVE TransferTypes'
<1>0. FileTypes /\ FolderTypes /\ import \in Jobs /\ CountTypes /\ StampsSpent /\ JobShape
  BY TransferTypesAre
<1>1. /\ import.at = "commit" /\ import.takes \in Whole /\ import.was \in Whole
      /\ import.answer = "none" /\ import.done \subseteq import.picked /\ import.picked \subseteq Targets
  BY <1>0 DEF Commit, JobShape, Jobs
<1>2. First \in Todo /\ First \in Targets
  BY <1>1, FirstIsTodo DEF Commit
<1>3. import.takes[First] \in Setups /\ file[First] \in OneFile /\ file \in [Targets -> OneFile]
  BY <1>0, <1>1, <1>2, FilesAre DEF FileTypes, Whole
<1>4. CASE /\ file' = [file EXCEPT ![First] = Written(@, import.takes[First])]
           /\ memory' = Holds(First, import.takes[First])
           /\ import' = [import EXCEPT !.done = @ \cup {First}] /\ UNCHANGED failures
  <2>1. file' \in Files
    BY <1>2, <1>3, <1>4, FilesAre, WritesOneFile
  <2>2. memory' \in [Targets \ {"calibration"} -> Setups]
    BY <1>0, <1>3, <1>4 DEF Holds, FileTypes
  <2>3. import' \in Jobs /\ JobShape' /\ import'.at # "backup"
    BY <1>0, <1>1, <1>2, <1>4 DEF Jobs, JobShape, Todo
  <2>4. FileTypes' /\ FolderTypes' /\ CountTypes' /\ StampsSpent'
    BY <1>0, <1>4, <2>1, <2>2, <2>3 DEF Commit, FileTypes, FolderTypes, CountTypes, StampsSpent
  <2> QED
    BY <2>3, <2>4, TypesNext
<1>5. CASE /\ Breaks /\ import' = RollBack([import EXCEPT !.failed = First]) /\ UNCHANGED memory
           /\ \E f \in WriteFailed(file[First], import.takes[First]) :
                file' = [file EXCEPT ![First] = f]
  <2>1. file' \in Files
    <3>1. PICK f \in WriteFailed(file[First], import.takes[First]) :
            file' = [file EXCEPT ![First] = f]
      BY <1>5
    <3>2. f \in OneFile
      BY <1>3, WritesOneFile
    <3> QED
      BY <1>3, <3>1, <3>2, FilesAre
  <2>2. import' = RollBack(FailedAt) /\ FailedAt \in Jobs
    BY <1>0, <1>5, JobsGoOn DEF FailedAt, Commit
  <2>3. /\ FailedAt.takes \in Whole /\ FailedAt.was \in Whole
        /\ FailedAt.done \subseteq FailedAt.picked /\ FailedAt.answer = "none"
    BY <1>0, <1>1 DEF FailedAt, Jobs
  <2>4. import' \in Jobs /\ JobShape' /\ import'.at # "backup"
    BY <2>2, <2>3, RollsShape
  <2>5. failures' \in 0..MaxFileFaults
    BY <1>0, <1>5, Faults
  <2>6. FileTypes' /\ FolderTypes' /\ CountTypes' /\ StampsSpent'
    BY <1>0, <1>5, <2>1, <2>4, <2>5 DEF Commit, FileTypes, FolderTypes, CountTypes, StampsSpent
  <2> QED
    BY <2>4, <2>6, TypesNext
<1> QED
  BY <1>4, <1>5 DEF Commit

LEMMA AppliedTyped == ASSUME TransferTypes, Applied PROVE TransferTypes'
<1>0. FileTypes /\ FolderTypes /\ import \in Jobs /\ CountTypes /\ StampsSpent /\ JobShape
  BY TransferTypesAre
<1>1. import' \in Jobs /\ JobShape' /\ import'.at # "backup"
  BY <1>0 DEF Applied, Jobs, JobShape
<1>2. FileTypes' /\ FolderTypes' /\ CountTypes' /\ StampsSpent'
  BY <1>0, <1>1 DEF Applied, FileTypes, FolderTypes, CountTypes, StampsSpent
<1> QED
  BY <1>1, <1>2, TypesNext

LEMMA StepBackShape ==
    ASSUME import \in Jobs, JobShape, import.at \in {"roll back", "put back"},
           import' = PutBackDone \/ import' = PutBackFailed
    PROVE  import' \in Jobs /\ JobShape' /\ import'.at # "backup"
<1>1. /\ import.takes \in Whole /\ import.was \in Whole /\ import.answer = "none"
      /\ import.done \subseteq import.picked /\ import.done # {}
  BY DEF JobShape
<1>2. BackAt \in Jobs /\ StuckAt \in Jobs
  BY <1>1, JobsGoOn
<1>3. CASE import' = PutBackDone
  <2>1. import' = RollBack(BackAt)
    BY <1>3 DEF PutBackDone, BackAt
  <2>2. /\ BackAt.takes \in Whole /\ BackAt.was \in Whole
        /\ BackAt.done \subseteq BackAt.picked /\ BackAt.answer = "none"
    BY <1>1 DEF BackAt, Jobs
  <2> QED
    BY <1>2, <2>1, <2>2, RollsShape
<1>4. CASE import' = PutBackFailed
  <2>1. import' = RollBack(StuckAt)
    BY <1>4 DEF PutBackFailed, StuckAt
  <2>2. /\ StuckAt.takes \in Whole /\ StuckAt.was \in Whole
        /\ StuckAt.done \subseteq StuckAt.picked /\ StuckAt.answer = "none"
    BY <1>1 DEF StuckAt, Jobs
  <2> QED
    BY <1>2, <2>1, <2>2, RollsShape
<1> QED
  BY <1>3, <1>4

LEMMA WriteBackTyped == ASSUME TransferTypes, WriteBack PROVE TransferTypes'
<1>0. FileTypes /\ FolderTypes /\ import \in Jobs /\ CountTypes /\ StampsSpent /\ JobShape
  BY TransferTypesAre
<1>1. import.at = "roll back" /\ import.was \in Whole /\ import.done # {} /\ import.done \subseteq Targets
  BY <1>0 DEF WriteBack, JobShape, Jobs
<1>2. Last \in Targets
  BY <1>1, LastIsDone
<1>3. import.was[Last] \in Setups /\ file[Last] \in OneFile /\ file \in [Targets -> OneFile]
  BY <1>0, <1>1, <1>2, FilesAre DEF FileTypes, Whole
<1>4. CASE /\ import' = [import EXCEPT !.at = "put back"] /\ UNCHANGED failures
           /\ IF Last = "calibration" THEN UNCHANGED <<file, memory>>
              ELSE /\ file' = [file EXCEPT ![Last] = Written(@, import.was[Last])]
                   /\ memory' = Holds(Last, import.was[Last])
  <2>1. FileTypes'
    <3>1. CASE Last = "calibration"
      BY <1>0, <1>4, <3>1 DEF FileTypes
    <3>2. CASE Last # "calibration"
      <4>1. file' \in Files
        <5>1. file' = [file EXCEPT ![Last] = Written(file[Last], import.was[Last])]
          BY <1>2, <1>3, <1>4, <3>2
        <5>2. Written(file[Last], import.was[Last]) \in OneFile
          BY <1>3, WritesOneFile
        <5> QED
          BY <1>3, <5>1, <5>2, FilesAre
      <4>2. memory' \in [Targets \ {"calibration"} -> Setups]
        BY <1>0, <1>3, <1>4, <3>2 DEF Holds, FileTypes
      <4> QED
        BY <4>1, <4>2 DEF FileTypes
    <3> QED
      BY <3>1, <3>2
  <2>2. import' \in Jobs /\ JobShape' /\ import'.at # "backup"
    BY <1>0, <1>1, <1>4 DEF Jobs, JobShape
  <2>3. FolderTypes' /\ CountTypes' /\ StampsSpent'
    BY <1>0, <1>4, <2>2 DEF WriteBack, FolderTypes, CountTypes, StampsSpent
  <2> QED
    BY <2>1, <2>2, <2>3, TypesNext
<1>5. CASE /\ Last # "calibration" /\ Breaks /\ import' = PutBackFailed /\ UNCHANGED memory
           /\ \E f \in WriteFailed(file[Last], import.was[Last]) : file' = [file EXCEPT ![Last] = f]
  <2>1. file' \in Files
    <3>1. PICK f \in WriteFailed(file[Last], import.was[Last]) : file' = [file EXCEPT ![Last] = f]
      BY <1>5
    <3>2. f \in OneFile
      BY <1>3, WritesOneFile
    <3> QED
      BY <1>3, <3>1, <3>2, FilesAre
  <2>2. import' \in Jobs /\ JobShape' /\ import'.at # "backup"
    BY <1>0, <1>1, <1>5, StepBackShape
  <2>3. failures' \in 0..MaxFileFaults
    BY <1>0, <1>5, Faults
  <2>4. FileTypes' /\ FolderTypes' /\ CountTypes' /\ StampsSpent'
    BY <1>0, <1>5, <2>1, <2>2, <2>3 DEF WriteBack, FileTypes, FolderTypes, CountTypes, StampsSpent
  <2> QED
    BY <2>2, <2>4, TypesNext
<1> QED
  BY <1>4, <1>5 DEF WriteBack

LEMMA PutBackTyped == ASSUME TransferTypes, PutBack PROVE TransferTypes'
<1>0. FileTypes /\ FolderTypes /\ import \in Jobs /\ CountTypes /\ StampsSpent /\ JobShape
  BY TransferTypesAre
<1>1. import.at = "put back" /\ import.done # {} /\ import.done \subseteq Targets
  BY <1>0 DEF PutBack, JobShape, Jobs
<1>2. Last \in Targets
  BY <1>1, LastIsDone
<1>3. import.copy[Last] \in OneFile /\ file[Last] \in OneFile /\ file \in [Targets -> OneFile]
  BY <1>0, <1>2, FilesAre DEF FileTypes, Jobs
<1>4. file' \in Files
  <2>1. CASE file' = [file EXCEPT ![Last] = import.copy[Last]]
    BY <1>3, <2>1, FilesAre
  <2>2. CASE \E f \in RestoreFailed(file[Last], import.copy[Last]) : file' = [file EXCEPT ![Last] = f]
    <3>1. PICK f \in RestoreFailed(file[Last], import.copy[Last]) : file' = [file EXCEPT ![Last] = f]
      BY <2>2
    <3>2. f \in OneFile
      BY <1>3, RestoresOneFile
    <3> QED
      BY <1>3, <3>1, <3>2, FilesAre
  <2> QED
    BY <2>1, <2>2 DEF PutBack
<1>5. import' = PutBackDone \/ import' = PutBackFailed
  BY DEF PutBack
<1>6. import' \in Jobs /\ JobShape' /\ import'.at # "backup"
  BY <1>0, <1>1, <1>5, StepBackShape
<1>7. failures' \in 0..MaxFileFaults
  BY <1>0, Faults DEF PutBack, CountTypes
<1>8. FileTypes' /\ FolderTypes' /\ CountTypes' /\ StampsSpent'
  BY <1>0, <1>4, <1>6, <1>7 DEF PutBack, FileTypes, FolderTypes, CountTypes, StampsSpent
<1> QED
  BY <1>6, <1>8, TypesNext

LEMMA GoesOnTyped == ASSUME TransferTypes, GoesOn PROVE TransferTypes'
<1>0. FileTypes /\ FolderTypes /\ import \in Jobs /\ CountTypes /\ StampsSpent /\ JobShape
  BY TransferTypesAre
<1>1. import' \in Jobs /\ JobShape' /\ import'.at # "backup"
  BY NoJob DEF GoesOn, JobShape
<1>2. FileTypes' /\ FolderTypes' /\ CountTypes' /\ StampsSpent'
  BY <1>0, <1>1 DEF GoesOn, FileTypes, FolderTypes, CountTypes, StampsSpent
<1> QED
  BY <1>1, <1>2, TypesNext

(* What a crash leaves.                                                     *)
LEMMA DiesTyped ==
    ASSUME TransferTypes, Dies
    PROVE  /\ file' \in Files /\ backups' \subseteq Folder
           /\ backups' = backups \/ (import.at = "backup" /\ backups' = With(clock + 1, Unknown))
<1>0. FileTypes /\ FolderTypes /\ import \in Jobs /\ CountTypes /\ StampsSpent /\ JobShape
  BY TransferTypesAre
<1>1. file \in [Targets -> OneFile] /\ import.copy \in [Targets -> OneFile]
      /\ import.picked \subseteq Targets /\ import.done \subseteq Targets
  BY <1>0, FilesAre DEF FileTypes, Jobs
<1>2. CASE /\ import.at = "backup" /\ UNCHANGED file
           /\ backups' \in {backups, With(clock + 1, Unknown)}
  <2>1. clock + 1 \in Stamped
    BY <1>0 DEF Stamped, FolderTypes, Stamps
  <2>2. clock + 1 \in Stamps
    BY <1>2, <2>1, StampsInTime
  <2>3. With(clock + 1, Unknown) \subseteq Folder
    BY <1>0, <2>2, FolderAfter DEF FolderTypes
  <2> QED
    BY <1>0, <1>2, <2>3 DEF FileTypes, FolderTypes
<1>3. CASE /\ import.at = "commit" /\ Todo # {} /\ UNCHANGED backups
           /\ \E f \in CutWrite(file[First], import.takes[First]) : file' = [file EXCEPT ![First] = f]
  <2>1. PICK f \in CutWrite(file[First], import.takes[First]) : file' = [file EXCEPT ![First] = f]
    BY <1>3
  <2>2. First \in Targets /\ import.takes \in Whole
    BY <1>0, <1>1, <1>3, FirstIsTodo DEF JobShape
  <2>3. f \in OneFile
    BY <1>1, <2>2, WritesOneFile DEF Whole
  <2> QED
    BY <1>0, <1>1, <1>3, <2>1, <2>3, FilesAre DEF FolderTypes
<1>4. CASE /\ import.at = "roll back" /\ Last # "calibration" /\ UNCHANGED backups
           /\ \E f \in CutWrite(file[Last], import.was[Last]) : file' = [file EXCEPT ![Last] = f]
  <2>1. PICK f \in CutWrite(file[Last], import.was[Last]) : file' = [file EXCEPT ![Last] = f]
    BY <1>4
  <2>2. Last \in Targets /\ import.was \in Whole
    BY <1>0, <1>1, <1>4, LastIsDone DEF JobShape
  <2>3. f \in OneFile
    BY <1>1, <2>2, WritesOneFile DEF Whole
  <2> QED
    BY <1>0, <1>1, <1>4, <2>1, <2>3, FilesAre DEF FolderTypes
<1>5. CASE /\ import.at = "put back" /\ UNCHANGED backups
           /\ \E f \in CutRestore(file[Last], import.copy[Last]) : file' = [file EXCEPT ![Last] = f]
  <2>1. PICK f \in CutRestore(file[Last], import.copy[Last]) : file' = [file EXCEPT ![Last] = f]
    BY <1>5
  <2>2. Last \in Targets
    BY <1>0, <1>1, <1>5, LastIsDone DEF JobShape
  <2>3. f \in OneFile
    BY <1>1, <2>2, RestoresOneFile
  <2> QED
    BY <1>0, <1>1, <1>5, <2>1, <2>3, FilesAre DEF FolderTypes
<1>6. CASE UNCHANGED <<file, backups>>
  BY <1>0, <1>6 DEF FileTypes, FolderTypes
<1> QED
  BY <1>2, <1>3, <1>4, <1>5, <1>6 DEF Dies

LEMMA RestartTyped == ASSUME TransferTypes, Restart PROVE TransferTypes'
<1>0. FileTypes /\ FolderTypes /\ import \in Jobs /\ CountTypes /\ StampsSpent /\ JobShape
  BY TransferTypesAre
<1>1. /\ file' \in Files /\ backups' \subseteq Folder
      /\ backups' = backups \/ (import.at = "backup" /\ backups' = With(clock + 1, Unknown))
  BY DiesTyped DEF Restart
<1>2. memory' \in [Targets \ {"calibration"} -> Setups]
  BY <1>1, MemoryIsLoaded DEF Restart
<1>3. clock' \in Stamps /\ clock' <= imports
  <2>1. CASE backups' = backups
    BY <1>0, <2>1 DEF Restart, FolderTypes, StampsSpent
  <2>2. CASE backups' # backups
    <3>1. import.at = "backup" /\ clock' = clock + 1
      BY <1>1, <2>2 DEF Restart
    <3>2. clock + 1 \in Stamped
      BY <1>0 DEF Stamped, FolderTypes, Stamps
    <3> QED
      BY <3>1, <3>2, StampsInTime
  <2> QED
    BY <2>1, <2>2
<1>4. import' = NoImport /\ import' \in Jobs /\ import'.at # "backup"
  BY NoJob DEF Restart
<1>5. JobShape'
  BY <1>4, NoJob DEF JobShape
<1>6. failures' \in 0..MaxFileFaults
  BY <1>0, Faults DEF Restart
<1>7. FileTypes' /\ FolderTypes' /\ CountTypes' /\ StampsSpent'
  BY <1>0, <1>1, <1>2, <1>3, <1>4, <1>6 DEF Restart, FileTypes, FolderTypes, CountTypes, StampsSpent
<1> QED
  BY <1>4, <1>5, <1>7, TypesNext

LEMMA TransferTypesHold == TransferSpec => []TransferTypes
<1>1. ASSUME TransferInit PROVE TransferTypes
  <2>1. file \in Files /\ memory \in [Targets \ {"calibration"} -> Setups]
    <3>1. file \in Files
      <4>1. 1 \in Setups
        BY ImportBoundsAssumption DEF Setups
      <4> QED
        BY <1>1, <4>1, FilesAre DEF TransferInit, OneFile
    <3> QED
      BY <1>1, <3>1, MemoryIsLoaded DEF TransferInit
  <2>2. FileTypes /\ FolderTypes
    BY <1>1, <2>1, SetupsAreNumbers DEF TransferInit, FileTypes, FolderTypes, Stamps
  <2>3. CountTypes /\ StampsSpent
    BY <1>1, NoJob, SetupsAreNumbers, ImportBoundsAssumption
    DEF TransferInit, CountTypes, StampsSpent, Setups
  <2>4. import \in Jobs /\ JobShape
    BY <1>1, NoJob DEF TransferInit, JobShape
  <2> QED
    BY <2>2, <2>3, <2>4, TransferTypesAre
<1>2. ASSUME TransferTypes, [TransferNext]_importVars PROVE TransferTypes'
  <2>1. ASSUME NEW t \in Targets, Edit(t) PROVE TransferTypes'
    BY <1>2, <2>1, EditTyped
  <2>2. CASE UNCHANGED importVars
    <3>1. FileTypes /\ FolderTypes /\ import \in Jobs /\ CountTypes /\ StampsSpent /\ JobShape
      BY <1>2, TransferTypesAre
    <3>2. FileTypes' /\ FolderTypes' /\ import' \in Jobs /\ CountTypes' /\ StampsSpent' /\ JobShape'
      BY <2>2, <3>1 DEF importVars, FileTypes, FolderTypes, CountTypes, StampsSpent, JobShape
    <3> QED
      BY <3>2, TypesNext
  <2> QED
    BY <1>2, <2>1, <2>2, OpenTyped, ApplyTyped, BackupTyped, CommitTyped, AppliedTyped,
       WriteBackTyped, PutBackTyped, GoesOnTyped, RestartTyped DEF TransferNext
<1> QED
  BY <1>1, <1>2, PTL DEF TransferSpec

(* Every state of the files, the folder and an import is one the model      *)
(* describes: config-transfer.ts and backup-folder.ts.                      *)
THEOREM TransferTyping == TransferSpec => []TransferTypeOK
<1>1. TransferTypes => TransferTypeOK
  BY DEF TransferTypes
<1> QED
  BY <1>1, TransferTypesHold, PTL

(* A backup made later than all the others pushes out none that it should   *)
(* not, and stays itself.                                                   *)
LEMMA NewestKept ==
    ASSUME TransferTypes, InsuredIsThere, "clock" \notin TransferOdds,
           NEW stamp \in Stamped, NEW holds
    PROVE  /\ stamp = clock + 1
           /\ backups \subseteq With(stamp, holds)
           /\ [stamp |-> stamp, holds |-> holds] \in Kept(With(stamp, holds))
           /\ \A b \in With(stamp, holds) : b.stamp <= stamp
<1>0. FolderTypes
  BY TransferTypesAre
<1>1. clock \in Nat /\ \A b \in backups : b.stamp \in Nat
  BY <1>0, SetupsAreNumbers DEF FolderTypes, Folder, Stamps
<1>2. stamp = clock + 1
  BY DEF Stamped
<1>3. backups \subseteq With(stamp, holds)
  BY <1>1, <1>2 DEF InsuredIsThere, With
<1>4. \A b \in With(stamp, holds) : b.stamp \in Nat /\ b.stamp <= stamp
  BY <1>1, <1>2 DEF InsuredIsThere, With
<1>5. [stamp |-> stamp, holds |-> holds] \in Kept(With(stamp, holds))
  <2>1. {c \in With(stamp, holds) : c.stamp > [stamp |-> stamp, holds |-> holds].stamp} = {}
    BY <1>1, <1>2, <1>4
  <2>2. Cardinality({c \in With(stamp, holds) :
                       c.stamp > [stamp |-> stamp, holds |-> holds].stamp}) < KeptBackups
    BY <2>1, FS_EmptySet, KeptAssumption
  <2>3. [stamp |-> stamp, holds |-> holds] \in With(stamp, holds)
    BY DEF With
  <2> QED
    BY <2>2, <2>3 DEF Kept
<1> QED
  BY <1>2, <1>3, <1>4, <1>5

LEMMA BackupInsures ==
    ASSUME TransferTypes, InsuredIsThere, "clock" \notin TransferOdds, Backup
    PROVE  InsuredIsThere'
<1>1. PICK stamp \in Stamped :
         \/ /\ \/ backups' = Kept(With(stamp, Setup)) /\ UNCHANGED failures
               \/ Breaks /\ backups' = With(stamp, Setup)
            /\ clock' = stamp /\ insured' = Setup
            /\ import' = [import EXCEPT !.at = "commit"]
         \/ /\ Breaks /\ backups' \in {backups, With(stamp, Unknown)}
            /\ clock' = stamp /\ UNCHANGED insured
            /\ import' = [import EXCEPT !.at = "answered", !.answer = "nothing changed"]
  BY DEF Backup
<1>2. /\ stamp = clock + 1 /\ backups \subseteq With(stamp, Unknown)
      /\ \A b \in With(stamp, Unknown) : b.stamp <= stamp
  BY <1>1, NewestKept
<1>3. /\ [stamp |-> stamp, holds |-> Setup] \in Kept(With(stamp, Setup))
      /\ \A b \in With(stamp, Setup) : b.stamp <= stamp
  BY <1>1, NewestKept
<1>4. Kept(With(stamp, Setup)) \subseteq With(stamp, Setup)
  BY DEF Kept
<1>5. CASE backups' \in {Kept(With(stamp, Setup)), With(stamp, Setup)} /\ clock' = stamp /\ insured' = Setup
  <2>1. [stamp |-> stamp, holds |-> Setup] \in backups' /\ \A b \in backups' : b.stamp <= clock'
    BY <1>3, <1>4, <1>5
  <2>2. \E b \in backups' : b.holds = insured'
    BY <1>5, <2>1
  <2> QED
    BY <2>1, <2>2 DEF InsuredIsThere, BackupIsThere
<1>6. CASE backups' \in {backups, With(stamp, Unknown)} /\ clock' = stamp /\ insured' = insured
  <2>1. \A b \in backups' : b.stamp <= clock'
    BY <1>2, <1>6
  <2>2. backups \subseteq backups'
    BY <1>2, <1>6
  <2> QED
    BY <1>6, <2>1, <2>2 DEF InsuredIsThere, BackupIsThere
<1> QED
  BY <1>1, <1>5, <1>6

LEMMA RestartInsures ==
    ASSUME TransferTypes, InsuredIsThere, "clock" \notin TransferOdds, Restart
    PROVE  InsuredIsThere'
<1>0. clock \in Nat
  BY TransferTypesAre, SetupsAreNumbers DEF FolderTypes, Stamps
<1>1. backups' = backups \/ (import.at = "backup" /\ backups' = With(clock + 1, Unknown))
  BY DiesTyped DEF Restart
<1>2. clock' = (IF backups' = backups THEN clock ELSE clock + 1) /\ insured' = insured
  BY DEF Restart
<1>3. CASE backups' = backups
  BY <1>2, <1>3 DEF InsuredIsThere, BackupIsThere
<1>4. CASE backups' # backups
  <2>1. backups' = With(clock + 1, Unknown) /\ clock' = clock + 1 /\ clock + 1 \in Stamped
    BY <1>0, <1>1, <1>2, <1>4 DEF Stamped
  <2>2. backups \subseteq backups' /\ \A b \in backups' : b.stamp <= clock'
    BY <2>1, NewestKept
  <2> QED
    BY <1>2, <2>2 DEF InsuredIsThere, BackupIsThere
<1> QED
  BY <1>3, <1>4

(* Unless the clock is set back between two backups, the setup there was    *)
(* before the last import that saved one can be restored, whatever became   *)
(* of that import, of backups tried since and of the application: save()    *)
(* and prune() of backup-folder.ts.                                         *)
THEOREM BackupsStay ==
    ASSUME "clock" \notin TransferOdds PROVE TransferSpec => []BackupIsThere
<1>1. TransferInit => InsuredIsThere
  BY DEF TransferInit, InsuredIsThere, BackupIsThere
<1>2. ASSUME TransferTypes, InsuredIsThere, [TransferNext]_importVars PROVE InsuredIsThere'
  <2>1. CASE Backup
    BY <1>2, <2>1, BackupInsures
  <2>2. CASE Restart
    BY <1>2, <2>2, RestartInsures
  <2>3. CASE backups' = backups /\ clock' = clock /\ insured' = insured
    BY <1>2, <2>3 DEF InsuredIsThere, BackupIsThere
  <2>4. Backup \/ Restart \/ (backups' = backups /\ clock' = clock /\ insured' = insured)
    BY <1>2 DEF TransferNext, importVars, Edit, Open, Apply, Commit, Applied, WriteBack, PutBack, GoesOn
  <2> QED
    BY <2>1, <2>2, <2>3, <2>4
<1>3. InsuredIsThere => BackupIsThere
  BY DEF InsuredIsThere
<1> QED
  BY <1>1, <1>2, <1>3, TransferTypesHold, PTL DEF TransferSpec

(* What is in force of a target, now and after a step.                      *)
LEMMA SetupAt ==
    /\ \A t \in Targets : Setup[t] = IF t = "calibration" THEN Loaded(file[t]) ELSE memory[t]
    /\ \A t \in Targets : Setup'[t] = IF t = "calibration" THEN Loaded(file'[t]) ELSE memory'[t]
  BY DEF Setup

LEMMA StillAsItWas ==
    ASSUME NEW t \in Targets, AsItWas(t), file'[t] = file[t],
           t # "calibration" => memory'[t] = memory[t],
           import'.was = import.was, import'.copy = import.copy,
           t = import.failed => t = import'.failed
    PROVE  AsItWas(t)'
<1>1. Setup'[t] = Setup[t]
  <2>1. CASE t = "calibration"
    BY <2>1, SetupAt
  <2>2. CASE t # "calibration"
    BY <2>2, SetupAt
  <2> QED
    BY <2>1, <2>2
<1> QED
  BY <1>1 DEF AsItWas

LEMMA StillTaken ==
    ASSUME NEW t \in Targets, Setup[t] = import.takes[t] /\ file[t].main = import.takes[t],
           file'[t] = file[t], t # "calibration" => memory'[t] = memory[t],
           import'.takes = import.takes
    PROVE  Setup'[t] = import'.takes[t] /\ file'[t].main = import'.takes[t]
<1>1. CASE t = "calibration"
  BY <1>1, SetupAt
<1>2. CASE t # "calibration"
  BY <1>2, SetupAt
<1> QED
  BY <1>1, <1>2

(* An import that is not under way says nothing.                            *)
LEMMA NothingSaid ==
    ASSUME import'.at = "idle", import'.answer = "none" PROVE TransferInv'
  BY DEF TransferInv, Forward, Backward, CopyIsOfThen, AnswerIsTrue

(* Before anything is written, all is as it was.                            *)
LEMMA AllAsItWas ==
    ASSUME import'.at \in {"backup", "commit", "answered"}, import'.done = {}, import'.stuck = {},
           import'.failed = "none", \A t \in Targets : AsItWas(t)', CopyIsOfThen',
           import'.answer = IF import'.at = "answered" THEN "nothing changed" ELSE "none"
    PROVE  TransferInv'
<1>1. CASE import'.at = "answered"
  BY <1>1 DEF TransferInv, Forward, Backward, AnswerIsTrue
<1>2. CASE import'.at # "answered"
  BY <1>2 DEF TransferInv, Forward, Backward, AnswerIsTrue
<1> QED
  BY <1>1, <1>2

LEMMA ApplyTrue == ASSUME TransferTypes, Apply PROVE TransferInv'
<1>1. PICK picked \in SUBSET Targets \ {{}}, at \in {"backup", "commit", "answered"} :
        /\ IF at = "answered" THEN Breaks ELSE UNCHANGED failures
        /\ import' = [NoImport EXCEPT !.at = at, !.picked = picked, !.takes = opened,
                        !.was = Setup, !.copy = file,
                        !.answer = IF at = "answered" THEN "nothing changed" ELSE "none"]
  BY DEF Apply
<1>2. /\ import' = [at |-> at, picked |-> picked, done |-> {}, stuck |-> {}, takes |-> opened,
                    was |-> Setup, copy |-> file, failed |-> "none",
                    answer |-> IF at = "answered" THEN "nothing changed" ELSE "none"]
      /\ file' = file /\ memory' = memory
  BY <1>1 DEF NoImport, Apply
<1>3. Setup' = Setup
  BY <1>2 DEF Setup
<1>4. \A t \in Targets : AsItWas(t)'
  BY <1>2, <1>3 DEF AsItWas
<1>5. CopyIsOfThen'
  BY <1>2, SetupAt, TheTargets DEF CopyIsOfThen
<1>6. /\ import'.at \in {"backup", "commit", "answered"} /\ import'.done = {} /\ import'.stuck = {}
      /\ import'.failed = "none"
      /\ import'.answer = IF import'.at = "answered" THEN "nothing changed" ELSE "none"
  <2>1. import'.at = at /\ import'.done = {} /\ import'.stuck = {} /\ import'.failed = "none"
    BY <1>2
  <2>2. import'.answer = IF at = "answered" THEN "nothing changed" ELSE "none"
    BY <1>2
  <2> QED
    BY <1>1, <2>1, <2>2
<1> QED
  BY <1>4, <1>5, <1>6, AllAsItWas

LEMMA BackupTrue == ASSUME TransferTypes, TransferInv, Backup PROVE TransferInv'
<1>0. import \in Jobs /\ JobShape
  BY TransferTypesAre
<1>1. import.at = "backup" /\ import.done = {} /\ import.answer = "none" /\ file' = file /\ memory' = memory
  BY <1>0 DEF Backup, JobShape
<1>2. import.failed = "none" /\ import.stuck = {} /\ \A t \in Targets : AsItWas(t)
  BY <1>1 DEF TransferInv, Forward
<1>3. \/ import' = [import EXCEPT !.at = "commit"]
      \/ import' = [import EXCEPT !.at = "answered", !.answer = "nothing changed"]
  BY DEF Backup
<1>4. /\ import'.done = import.done /\ import'.stuck = import.stuck /\ import'.failed = import.failed
      /\ import'.was = import.was /\ import'.copy = import.copy
      /\ import'.at \in {"commit", "answered"}
      /\ import'.answer = IF import'.at = "answered" THEN "nothing changed" ELSE "none"
  BY <1>0, <1>1, <1>3 DEF Jobs
<1>5. \A t \in Targets : AsItWas(t)'
  BY <1>1, <1>2, <1>4, StillAsItWas
<1>6. CopyIsOfThen'
  BY <1>1, <1>4 DEF TransferInv, CopyIsOfThen
<1> QED
  BY <1>1, <1>2, <1>4, <1>5, <1>6, AllAsItWas

LEMMA AppliedTrue == ASSUME TransferTypes, TransferInv, Applied PROVE TransferInv'
<1>0. import \in Jobs /\ JobShape
  BY TransferTypesAre
<1>1. /\ import.at = "commit" /\ Todo = {} /\ file' = file /\ memory' = memory
      /\ import.answer = "none" /\ import.done = import.picked
  BY <1>0 DEF Applied, JobShape, Todo
<1>2. /\ import'.at = "answered" /\ import'.answer = "applied" /\ import'.picked = import.picked
      /\ import'.was = import.was /\ import'.copy = import.copy /\ import'.takes = import.takes
      /\ import'.failed = import.failed
  BY <1>0 DEF Applied, Jobs
<1>3. \A t \in Targets :
        IF t \in import.picked THEN Setup[t] = import.takes[t] /\ file[t].main = import.takes[t]
        ELSE AsItWas(t)
  BY <1>1 DEF TransferInv, Forward
<1>4. ASSUME NEW t \in Targets, t \in import.picked
      PROVE  Setup'[t] = import'.takes[t] /\ file'[t].main = import'.takes[t]
  BY <1>1, <1>2, <1>3, <1>4, StillTaken
<1>5. ASSUME NEW t \in Targets, t \notin import.picked PROVE AsItWas(t)'
  BY <1>1, <1>2, <1>3, <1>5, StillAsItWas
<1>6. AnswerIsTrue'
  BY <1>2, <1>4, <1>5 DEF AnswerIsTrue
<1>7. CopyIsOfThen'
  BY <1>1, <1>2 DEF TransferInv, CopyIsOfThen
<1> QED
  BY <1>2, <1>6, <1>7 DEF TransferInv, Forward, Backward

(* The next file to put back, or the answer when there is none left.        *)
LEMMA RollsTrue ==
    ASSUME NEW job \in Jobs, import' = RollBack(job), job.answer = "none", CopyIsOfThen',
           \A t \in Targets \ (job.done \cup job.stuck) : AsItWas(t)'
    PROVE  TransferInv'
<1>1. /\ import'.at = IF job.done # {} THEN "roll back" ELSE "answered"
      /\ import'.answer = IF job.done # {} THEN job.answer
                          ELSE IF job.stuck = {} THEN "nothing changed" ELSE "partly applied"
      /\ import'.done = job.done /\ import'.stuck = job.stuck
  BY Rolls
<1>2. CASE job.done # {}
  BY <1>1, <1>2 DEF TransferInv, Forward, Backward, AnswerIsTrue
<1>3. CASE job.done = {} /\ job.stuck = {}
  BY <1>1, <1>3 DEF TransferInv, Forward, Backward, AnswerIsTrue
<1>4. CASE job.done = {} /\ job.stuck # {}
  BY <1>1, <1>4 DEF TransferInv, Forward, Backward, AnswerIsTrue
<1> QED
  BY <1>2, <1>3, <1>4

LEMMA CommitTrue ==
    ASSUME TransferTypes, TransferInv, "sync" \notin TransferOdds, Commit PROVE TransferInv'
<1>0. FileTypes /\ import \in Jobs /\ JobShape
  BY TransferTypesAre
<1>1. /\ import.at = "commit" /\ import.takes \in Whole /\ import.answer = "none"
      /\ import.done \subseteq import.picked /\ import.picked \subseteq Targets
      /\ file \in [Targets -> OneFile] /\ memory \in [Targets \ {"calibration"} -> Setups]
  BY <1>0, FilesAre DEF Commit, JobShape, Jobs, FileTypes
<1>2. First \in Todo /\ First \in Targets /\ First \notin import.done
  BY <1>1, FirstIsTodo DEF Commit, Todo
<1>3. import.takes[First] \in Setups /\ file[First] \in OneFile
  BY <1>1, <1>2 DEF Whole
<1>4. /\ import.failed = "none" /\ import.stuck = {}
      /\ \A t \in Targets :
           IF t \in import.done THEN Setup[t] = import.takes[t] /\ file[t].main = import.takes[t]
           ELSE AsItWas(t)
      /\ import.was["calibration"] = Loaded(import.copy["calibration"])
  BY <1>1 DEF TransferInv, Forward, CopyIsOfThen
<1>5. CASE /\ file' = [file EXCEPT ![First] = Written(@, import.takes[First])]
           /\ memory' = Holds(First, import.takes[First])
           /\ import' = [import EXCEPT !.done = @ \cup {First}] /\ UNCHANGED failures
  <2>1. /\ import'.at = "commit" /\ import'.done = import.done \cup {First}
        /\ import'.stuck = {} /\ import'.failed = "none" /\ import'.answer = "none"
        /\ import'.was = import.was /\ import'.copy = import.copy /\ import'.takes = import.takes
    BY <1>0, <1>1, <1>4, <1>5 DEF Jobs
  <2>2. Written(file[First], import.takes[First]) \in OneFile
        /\ Written(file[First], import.takes[First]).main = import.takes[First]
    BY <1>3, WritesOneFile
  <2>3. /\ file'[First] = Written(file[First], import.takes[First])
        /\ file'[First] \in OneFile /\ file'[First].main = import.takes[First]
    BY <1>1, <1>2, <1>5, <2>2
  <2>4. Setup'[First] = import.takes[First]
    <3>1. CASE First = "calibration"
      <4>1. Setup'[First] = Loaded(file'[First])
        BY <1>2, <3>1, SetupAt
      <4> QED
        BY <1>3, <2>3, <4>1, LoadedIsSetup
    <3>2. CASE First # "calibration"
      <4>1. Setup'[First] = memory'[First]
        BY <1>2, <3>2, SetupAt
      <4>2. memory'[First] = import.takes[First]
        BY <1>1, <1>2, <1>5, <3>2 DEF Holds
      <4> QED
        BY <4>1, <4>2
    <3> QED
      BY <3>1, <3>2
  <2>5. ASSUME NEW t \in Targets, t # First
        PROVE  file'[t] = file[t] /\ (t # "calibration" => memory'[t] = memory[t])
    BY <1>1, <1>5, <2>5 DEF Holds
  <2>6. ASSUME NEW t \in Targets, t \in import'.done
        PROVE  Setup'[t] = import'.takes[t] /\ file'[t].main = import'.takes[t]
    <3>1. CASE t = First
      BY <2>1, <2>3, <2>4, <3>1
    <3>2. CASE t # First
      <4>1. Setup[t] = import.takes[t] /\ file[t].main = import.takes[t]
        BY <1>4, <2>1, <2>6, <3>2
      <4> QED
        BY <2>1, <2>5, <3>2, <4>1, StillTaken
    <3> QED
      BY <3>1, <3>2
  <2>7. ASSUME NEW t \in Targets, t \notin import'.done PROVE AsItWas(t)'
    <3>1. t # First /\ AsItWas(t)
      BY <1>4, <2>1, <2>7
    <3>2. t # import.failed
      BY <1>4, TheTargets
    <3> QED
      BY <2>1, <2>5, <3>1, <3>2, StillAsItWas
  <2>8. Forward'
    BY <2>1, <2>6, <2>7 DEF Forward
  <2> QED
    BY <1>4, <2>1, <2>8 DEF TransferInv, Backward, CopyIsOfThen, AnswerIsTrue
<1>6. CASE /\ Breaks /\ import' = RollBack([import EXCEPT !.failed = First]) /\ UNCHANGED memory
           /\ \E f \in WriteFailed(file[First], import.takes[First]) :
                file' = [file EXCEPT ![First] = f]
  <2>1. import' = RollBack(FailedAt) /\ FailedAt \in Jobs
    BY <1>0, <1>6, JobsGoOn DEF FailedAt, Commit
  <2>2. /\ FailedAt.answer = "none" /\ FailedAt.done = import.done /\ FailedAt.stuck = {}
        /\ FailedAt.was = import.was /\ FailedAt.copy = import.copy /\ FailedAt.failed = First
    BY <1>0, <1>1, <1>4 DEF FailedAt, Jobs
  <2>3. import'.was = import.was /\ import'.copy = import.copy /\ import'.failed = First
    BY <2>1, <2>2, Rolls
  <2>4. PICK f \in WriteFailed(file[First], import.takes[First]) : file' = [file EXCEPT ![First] = f]
    BY <1>6
  <2>5. f.main = file[First].main
    <3>1. \A g \in WriteFailed(file[First], import.takes[First]) : g.main = file[First].main
      BY <1>3, WritesOneFile
    <3> QED
      BY <2>4, <3>1
  <2>6. file'[First] = f /\ \A t \in Targets : t # First => file'[t] = file[t]
    BY <1>1, <1>2, <2>4
  <2>7. ASSUME NEW t \in Targets, t = First PROVE AsItWas(t)'
    <3>1. AsItWas(t)
      BY <1>2, <1>4, <2>7
    <3>2. file'[t] = f /\ f.main = file[t].main
      BY <2>5, <2>6, <2>7
    <3>3. Setup'[t] = Setup[t]
      <4>1. CASE t = "calibration"
        <5>1. Loaded(file'[t]) = Loaded(file[t])
          BY <3>2 DEF Loaded
        <5> QED
          BY <4>1, <5>1, SetupAt
      <4>2. CASE t # "calibration"
        BY <1>6, <4>2, SetupAt
      <4> QED
        BY <4>1, <4>2
    <3> QED
      BY <2>3, <2>7, <3>1, <3>2, <3>3 DEF AsItWas
  <2>8. ASSUME NEW t \in Targets, t \notin import.done, t # First PROVE AsItWas(t)'
    <3>1. AsItWas(t) /\ t # import.failed
      BY <1>4, <2>8, TheTargets
    <3> QED
      BY <1>6, <2>3, <2>6, <2>8, <3>1, StillAsItWas
  <2>9. \A t \in Targets \ (FailedAt.done \cup FailedAt.stuck) : AsItWas(t)'
    <3>1. ASSUME NEW t \in Targets, t \notin import.done PROVE AsItWas(t)'
      BY <2>7, <2>8, <3>1
    <3> QED
      BY <2>2, <3>1
  <2>10. CopyIsOfThen'
    BY <1>4, <2>3 DEF CopyIsOfThen
  <2> QED
    BY <2>1, <2>2, <2>9, <2>10, RollsTrue
<1> QED
  BY <1>5, <1>6 DEF Commit

(* A file that cannot be put back is named; those before it are as they     *)
(* were.                                                                    *)
LEMMA StuckTrue ==
    ASSUME TransferTypes, TransferInv, import.at \in {"roll back", "put back"},
           import' = PutBackFailed, memory' = memory,
           \A t \in Targets : t # Last => file'[t] = file[t]
    PROVE  TransferInv'
<1>0. import \in Jobs /\ JobShape
  BY TransferTypesAre
<1>1. import.done # {} /\ import.answer = "none" /\ import.done \subseteq Targets
  BY <1>0 DEF JobShape, Jobs
<1>2. Last \in import.done
  BY <1>1, LastIsDone
<1>3. import' = RollBack(StuckAt) /\ StuckAt \in Jobs
  BY <1>0, <1>1, JobsGoOn DEF PutBackFailed, StuckAt
<1>4. /\ StuckAt.answer = "none" /\ StuckAt.done = import.done \ {Last}
      /\ StuckAt.stuck = import.stuck \cup {Last} /\ StuckAt.was = import.was
      /\ StuckAt.copy = import.copy /\ StuckAt.failed = import.failed
  BY <1>0, <1>1 DEF StuckAt, Jobs
<1>5. import'.was = import.was /\ import'.copy = import.copy /\ import'.failed = import.failed
  BY <1>3, <1>4, Rolls
<1>6. ASSUME NEW t \in Targets, t \notin StuckAt.done \cup StuckAt.stuck PROVE AsItWas(t)'
  <2>1. t \notin import.done \cup import.stuck /\ t # Last
    BY <1>4, <1>6
  <2>2. AsItWas(t)
    BY <2>1 DEF TransferInv, Backward
  <2> QED
    BY <1>5, <2>1, <2>2, StillAsItWas
<1>7. CopyIsOfThen'
  BY <1>5 DEF TransferInv, CopyIsOfThen
<1> QED
  BY <1>3, <1>4, <1>6, <1>7, RollsTrue

LEMMA WriteBackTrue == ASSUME TransferTypes, TransferInv, WriteBack PROVE TransferInv'
<1>0. FileTypes /\ import \in Jobs /\ JobShape
  BY TransferTypesAre
<1>1. /\ import.at = "roll back" /\ import.done # {} /\ import.answer = "none"
      /\ import.done \subseteq Targets
      /\ file \in [Targets -> OneFile] /\ memory \in [Targets \ {"calibration"} -> Setups]
  BY <1>0, FilesAre DEF WriteBack, JobShape, Jobs, FileTypes
<1>2. Last \in import.done /\ Last \in Targets
  BY <1>1, LastIsDone
<1>3. CASE /\ import' = [import EXCEPT !.at = "put back"] /\ UNCHANGED failures
           /\ IF Last = "calibration" THEN UNCHANGED <<file, memory>>
              ELSE /\ file' = [file EXCEPT ![Last] = Written(@, import.was[Last])]
                   /\ memory' = Holds(Last, import.was[Last])
  <2>1. /\ import'.at = "put back" /\ import'.done = import.done /\ import'.stuck = import.stuck
        /\ import'.failed = import.failed /\ import'.answer = "none"
        /\ import'.was = import.was /\ import'.copy = import.copy
    BY <1>0, <1>1, <1>3 DEF Jobs
  <2>2. Last' = Last
    BY <2>1 DEF Last
  <2>3. ASSUME NEW t \in Targets, t # Last
        PROVE  file'[t] = file[t] /\ (t # "calibration" => memory'[t] = memory[t])
    <3>1. CASE Last = "calibration"
      BY <1>3, <3>1
    <3>2. CASE Last # "calibration"
      BY <1>1, <1>3, <2>3, <3>2 DEF Holds
    <3> QED
      BY <3>1, <3>2
  <2>4. ASSUME NEW t \in Targets, t \notin import.done \cup import.stuck PROVE AsItWas(t)'
    <3>1. AsItWas(t) /\ t # Last
      BY <1>1, <1>2, <2>4 DEF TransferInv, Backward
    <3> QED
      BY <2>1, <2>3, <3>1, StillAsItWas
  <2>5. Last # "calibration" => memory'[Last] = import.was[Last]
    BY <1>1, <1>2, <1>3 DEF Holds
  <2>6. Last' # "calibration" => memory'[Last'] = import'.was[Last']
    BY <2>1, <2>2, <2>5
  <2>7. \A t \in Targets \ (import'.done \cup import'.stuck) : AsItWas(t)'
    BY <2>1, <2>4
  <2>8. Backward'
    BY <2>6, <2>7 DEF Backward
  <2>9. CopyIsOfThen'
    BY <1>1, <2>1 DEF TransferInv, CopyIsOfThen
  <2> QED
    BY <2>1, <2>8, <2>9 DEF TransferInv, Forward, AnswerIsTrue
<1>4. CASE /\ Last # "calibration" /\ Breaks /\ import' = PutBackFailed /\ UNCHANGED memory
           /\ \E f \in WriteFailed(file[Last], import.was[Last]) : file' = [file EXCEPT ![Last] = f]
  <2>1. \A t \in Targets : t # Last => file'[t] = file[t]
    BY <1>1, <1>4
  <2> QED
    BY <1>1, <1>4, <2>1, StuckTrue
<1> QED
  BY <1>3, <1>4 DEF WriteBack

LEMMA PutBackTrue == ASSUME TransferTypes, TransferInv, PutBack PROVE TransferInv'
<1>0. FileTypes /\ import \in Jobs /\ JobShape
  BY TransferTypesAre
<1>1. /\ import.at = "put back" /\ import.done # {} /\ import.answer = "none"
      /\ import.done \subseteq Targets /\ memory' = memory
      /\ file \in [Targets -> OneFile]
  BY <1>0, FilesAre DEF PutBack, JobShape, Jobs, FileTypes
<1>2. Last \in import.done /\ Last \in Targets
  BY <1>1, LastIsDone
<1>3. CASE file' = [file EXCEPT ![Last] = import.copy[Last]] /\ import' = PutBackDone
  <2>1. import' = RollBack(BackAt) /\ BackAt \in Jobs
    BY <1>0, <1>1, <1>3, JobsGoOn DEF PutBackDone, BackAt
  <2>2. /\ BackAt.answer = "none" /\ BackAt.done = import.done \ {Last}
        /\ BackAt.stuck = import.stuck /\ BackAt.was = import.was
        /\ BackAt.copy = import.copy /\ BackAt.failed = import.failed
    BY <1>0, <1>1 DEF BackAt, Jobs
  <2>3. import'.was = import.was /\ import'.copy = import.copy /\ import'.failed = import.failed
    BY <2>1, <2>2, Rolls
  <2>4. /\ Last # "calibration" => memory[Last] = import.was[Last]
        /\ import.was["calibration"] = Loaded(import.copy["calibration"])
    BY <1>1 DEF TransferInv, Backward, CopyIsOfThen
  <2>5. ASSUME NEW t \in Targets, t = Last PROVE AsItWas(t)'
    <3>1. file'[t] = import.copy[t]
      BY <1>1, <1>3, <2>5
    <3>2. Setup'[t] = import.was[t]
      <4>1. CASE t = "calibration"
        <5>1. Setup'[t] = Loaded(file'[t])
          BY <4>1, SetupAt
        <5> QED
          BY <2>4, <3>1, <4>1, <5>1
      <4>2. CASE t # "calibration"
        <5>1. Setup'[t] = memory'[t]
          BY <4>2, SetupAt
        <5> QED
          BY <1>1, <2>4, <2>5, <4>2, <5>1
      <4> QED
        BY <4>1, <4>2
    <3> QED
      BY <2>3, <3>1, <3>2 DEF AsItWas
  <2>6. ASSUME NEW t \in Targets, t # Last, t \notin import.done \cup import.stuck PROVE AsItWas(t)'
    <3>1. AsItWas(t)
      BY <1>1, <2>6 DEF TransferInv, Backward
    <3>2. file'[t] = file[t]
      BY <1>1, <1>3, <2>6
    <3> QED
      BY <1>1, <2>3, <3>1, <3>2, StillAsItWas
  <2>7. \A t \in Targets \ (BackAt.done \cup BackAt.stuck) : AsItWas(t)'
    BY <2>2, <2>5, <2>6
  <2>8. CopyIsOfThen'
    BY <2>3, <2>4 DEF CopyIsOfThen
  <2> QED
    BY <2>1, <2>2, <2>7, <2>8, RollsTrue
<1>4. CASE /\ import' = PutBackFailed
           /\ \E f \in RestoreFailed(file[Last], import.copy[Last]) : file' = [file EXCEPT ![Last] = f]
  <2>1. \A t \in Targets : t # Last => file'[t] = file[t]
    BY <1>1, <1>4
  <2> QED
    BY <1>1, <1>4, <2>1, StuckTrue
<1> QED
  BY <1>3, <1>4 DEF PutBack

(* While no import is under way, or none any more, nothing is said of one.  *)
LEMMA IdleTrue ==
    ASSUME TransferTypes,
           (\E t \in Targets : Edit(t)) \/ Open \/ GoesOn \/ Restart
    PROVE  TransferInv'
<1>1. import' = NoImport
  BY DEF Edit, Open, GoesOn, Restart
<1> QED
  BY <1>1, NoJob, NothingSaid

(* Unless a folder cannot be synced once the rename of a file in it stands, *)
(* what the answer of an import or a restore says is so, however many       *)
(* writes and restores failed on the way: apply(), commitOrRollBack() and   *)
(* rollBack() of config-transfer.ts.                                        *)
THEOREM AnswersAreTrue ==
    ASSUME "sync" \notin TransferOdds PROVE TransferSpec => []AnswerIsTrue
<1>1. TransferInit => TransferInv
  BY NoJob DEF TransferInit, TransferInv, Forward, Backward, CopyIsOfThen, AnswerIsTrue
<1>2. ASSUME TransferTypes, TransferInv, [TransferNext]_importVars PROVE TransferInv'
  <2>1. CASE UNCHANGED importVars
    <3>1. \A t \in Targets : AsItWas(t)' <=> AsItWas(t)
      BY <2>1 DEF importVars, AsItWas, Setup
    <3> QED
      BY <1>2, <2>1, <3>1
      DEF importVars, TransferInv, Forward, Backward, CopyIsOfThen, AnswerIsTrue, Setup, Last
  <2> QED
    BY <1>2, <2>1, IdleTrue, ApplyTrue, BackupTrue, CommitTrue, AppliedTrue, WriteBackTrue,
       PutBackTrue DEF TransferNext
<1>3. TransferInv => AnswerIsTrue
  BY DEF TransferInv
<1> QED
  BY <1>1, <1>2, <1>3, TransferTypesHold, PTL DEF TransferSpec
=============================================================================
