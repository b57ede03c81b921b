------------------------- MODULE FirmwareUpdate_proofs -------------------------
(***************************************************************************)
(* Theorems about the firmware update, for every value of the constants.   *)
(* CockpitUpdate: the types, and each invariant its run checks.  UpdateHost *)
(* (the dialog and the USB side's run): the types, NoSilentLoss and         *)
(* WritesAreSafe.  Releases (the images an update reads, in the second      *)
(* half): the types and the three invariants its run checks.  The           *)
(* definitions of the three have names of their own, so that all can be     *)
(* extended here.  An invariant is kept by every step, so each step lemma   *)
(* has one case per action; the actions that touch nothing of it share the  *)
(* last one.                                                                *)
(***************************************************************************)
EXTENDS CockpitUpdate, UpdateHost, Releases, SequenceTheorems, FiniteSetTheorems,
        WellFoundedInduction, TLAPS

-----------------------------------------------------------------------------
(* Type correctness, in parts the provers treat apart. *)

Numbers ==
    /\ missed \in 0 .. LostAfter - 1
    /\ tries \in 0 .. ChunkTries
    /\ runs \in 0 .. MaxRuns
    /\ lost \in 0 .. MaxLost
    /\ flashes \in Nat
    /\ erasedIn \in 0 .. MaxRuns

Flags ==
    /\ staging \in BOOLEAN /\ ours \in BOOLEAN /\ staged \in BOOLEAN
    /\ partial \in BOOLEAN /\ erased \in BOOLEAN
    /\ linkUp \in BOOLEAN /\ booting \in BOOLEAN /\ bundle \in BOOLEAN

Names ==
    /\ pc \in {"confirm", "ended"} \cup Awaits
    /\ result \in [end : {"none", "ok"} \cup Failures,
                   after : {"none", "refused", "erased"}]
    /\ state \in {"IDLE", "STAGING", "STAGED", "FLASHING"}
    /\ image \in {"none", "own", "foreign"}
    /\ lastResult \in Results
    /\ phase \in {"entering", "erased", "written"}
    /\ board \in {"old", "erased", "written", "new"}
    /\ row \in {"none", "old", "new"}

LEMMA TypeParts == TypeOK <=> Numbers /\ Flags /\ Names
BY DEF TypeOK, Numbers, Flags, Names

LEMMA TypeInit == Init => TypeOK
<1> SUFFICES ASSUME Init PROVE TypeOK
  OBVIOUS
<1>1. Numbers
  BY TimingAssumption, BoundsAssumption
     DEF TimingAssumption, BoundsAssumption, Init, Numbers
<1>2. Flags
  BY DEF Init, Flags
<1>3. Names
  BY DEF Init, Names, NoResult, Results
<1> QED
  BY <1>1, <1>2, <1>3, TypeParts

LEMMA TypeStep ==
    ASSUME TypeOK, [Next]_vars
    PROVE  TypeOK'
<1>0. Numbers /\ Flags /\ Names
  BY TypeParts
<1> SUFFICES Numbers' /\ Flags' /\ Names'
  BY DEF TypeOK, Numbers, Flags, Names
<1> USE <1>0, TimingAssumption, BoundsAssumption
    DEF TimingAssumption, BoundsAssumption, Numbers, Flags, Names
<1> USE DEF runVars, gatewayVars, linkVars, counted, Elsewhere
<1>1. CASE Start
  <2>1. Numbers'
    BY <1>1 DEF Start
  <2>2. Flags'
    BY <1>1 DEF Start
  <2>3. Names'
    BY <1>1 DEF Start, NoResult, Awaits
  <2> QED
    BY <2>1, <2>2, <2>3
<1>2. CASE Info
  <2>1. Numbers'
    BY <1>2 DEF Info, AskInfo, Exchange, Losing, Watch
  <2>2. Flags'
    BY <1>2 DEF Info, AskInfo, Exchange
  <2>3. Names'
    BY <1>2 DEF Info, AskInfo, Exchange, RunEnds, Flash, Stage, Watch, Awaits, Failures
  <2> QED
    BY <2>1, <2>2, <2>3
<1>3. CASE Abort
  <2>1. Numbers'
    BY <1>3 DEF Abort, Exchange, Losing
  <2>2. Flags'
    BY <1>3 DEF Abort, Exchange
  <2>3. Names'
    BY <1>3 DEF Abort, Exchange, Flash, Stage, Awaits
  <2> QED
    BY <2>1, <2>2, <2>3
<1>4. CASE ImageDamaged
  <2>1. Numbers'
    BY <1>4 DEF ImageDamaged
  <2>2. Flags'
    BY <1>4 DEF ImageDamaged
  <2>3. Names'
    BY <1>4 DEF ImageDamaged, RunEnds, Failures
  <2> QED
    BY <2>1, <2>2, <2>3
<1>5. CASE Begin
  <2>1. Numbers'
    BY <1>5 DEF Begin, Exchange, Losing
  <2>2. Flags'
    BY <1>5 DEF Begin, Exchange
  <2>3. Names'
    BY <1>5 DEF Begin, Exchange, RunEnds, Awaits, Failures
  <2> QED
    BY <2>1, <2>2, <2>3
<1>6. CASE Data
  <2>1. Numbers'
    BY <1>6 DEF Data, Exchange, Losing
  <2>2. Flags'
    BY <1>6 DEF Data, Exchange
  <2>3. Names'
    BY <1>6 DEF Data, Exchange, RunEnds, Awaits, Failures
  <2> QED
    BY <2>1, <2>2, <2>3
<1>7. CASE End
  <2>1. Numbers'
    BY <1>7 DEF End, Exchange, Losing
  <2>2. linkUp' \in BOOLEAN /\ booting' \in BOOLEAN
    BY <1>7 DEF End, Exchange
  <2>3. ours' \in BOOLEAN /\ staged' \in BOOLEAN
    BY <1>7 DEF End
  <2>4. UNCHANGED <<staging, partial, erased, bundle>>
    BY <1>7 DEF End
  <2>5. Names'
    BY <1>7 DEF End, Exchange, RunEnds, Awaits, Failures
  <2> QED
    BY <2>1, <2>2, <2>3, <2>4, <2>5
<1>8. CASE FlashRequest
  <2>1. Numbers'
    BY <1>8 DEF FlashRequest, Exchange, Losing, Watch
  <2>2. Flags'
    BY <1>8 DEF FlashRequest, Exchange
  <2>3. Names'
    BY <1>8 DEF FlashRequest, Exchange, RunEnds, Watch, Stage, Awaits, Failures
  <2> QED
    BY <2>1, <2>2, <2>3
<1>9. CASE FlashInfo
  <2>1. Numbers'
    BY <1>9 DEF FlashInfo, AskInfo, Exchange, Losing, Watch
  <2>2. Flags'
    BY <1>9 DEF FlashInfo, AskInfo, Exchange
  <2>3. Names'
    BY <1>9 DEF FlashInfo, AskInfo, Exchange, Watch, Awaits
  <2> QED
    BY <2>1, <2>2, <2>3
<1>10. CASE Probe
  <2>1. Numbers'
    BY <1>10 DEF Probe, AskInfo, Exchange, Losing
  <2>2. Flags'
    BY <1>10 DEF Probe, AskInfo, Exchange
  <2>3. Names'
    BY <1>10 DEF Probe, AskInfo, Exchange, Settle, Outcome, RunEnds, Awaits, Failures, Results
  <2> QED
    BY <2>1, <2>2, <2>3
<1>11. CASE Reconnect
  <2>1. PICK heard \in BOOLEAN :
          /\ AskInfo(heard)
          /\ \/ Watch /\ UNCHANGED result
             \/ Settle(lastResult) /\ UNCHANGED missed
             \/ UNCHANGED <<pc, missed, result>>
    BY <1>11, Zenon DEF Reconnect
  <2>2. lost' \in 0 .. MaxLost /\ linkUp' \in BOOLEAN
        /\ booting' \in BOOLEAN /\ UNCHANGED row
    <3>1. lost' \in 0 .. MaxLost
      BY <2>1 DEF AskInfo, Exchange, Losing
    <3>2. linkUp' \in BOOLEAN
      BY <2>1 DEF AskInfo, Exchange
    <3>3. booting' \in BOOLEAN
      BY <2>1 DEF AskInfo, Exchange
    <3>4. UNCHANGED row
      BY <2>1 DEF AskInfo, Exchange
    <3> QED
      BY <3>1, <3>2, <3>3, <3>4
  <2>5. UNCHANGED gatewayVars
    BY <2>1 DEF AskInfo
  <2>3. UNCHANGED <<staging, ours, staged, partial, erased, tries, flashes>>
        /\ Elsewhere
    BY <1>11 DEF Reconnect
  <2>4. /\ pc' \in {"confirm", "ended"} \cup Awaits
        /\ result' \in [end : {"none", "ok"} \cup Failures,
                          after : {"none", "refused", "erased"}]
        /\ missed' \in 0 .. LostAfter - 1
    BY <2>1 DEF Watch, Settle, Outcome, RunEnds, Awaits, Failures
  <2> QED
    BY <2>2, <2>3, <2>4, <2>5
<1>12. CASE JudgeFromRow
  <2>1. Numbers'
    BY <1>12 DEF JudgeFromRow
  <2>2. Flags'
    BY <1>12 DEF JudgeFromRow
  <2>3. Names'
    BY <1>12 DEF JudgeFromRow, RunEnds, Failures
  <2> QED
    BY <2>1, <2>2, <2>3
<1>13. CASE Reopen
  <2>1. Numbers'
    BY <1>13 DEF Reopen
  <2>2. Flags'
    BY <1>13 DEF Reopen
  <2>3. Names'
    BY <1>13 DEF Reopen, NoResult
  <2> QED
    BY <2>1, <2>2, <2>3
<1>14. CASE Erase
  <2>1. Numbers'
    BY <1>14 DEF Erase, Status, Losing
  <2>2. Flags'
    BY <1>14 DEF Erase, Status
  <2>3. Names'
    BY <1>14 DEF Erase, Status
  <2> QED
    BY <2>1, <2>2, <2>3
<1>15. CASE Written
  <2>1. Numbers'
    BY <1>15 DEF Written, Status, Losing
  <2>2. Flags'
    BY <1>15 DEF Written, Status
  <2>3. Names'
    BY <1>15 DEF Written, Status
  <2> QED
    BY <2>1, <2>2, <2>3
<1>16. CASE FlashEnds
  <2>1. Numbers'
    BY <1>16 DEF FlashEnds, Losing
  <2>2. Flags'
    BY <1>16 DEF FlashEnds
  <2>3. Names'
    BY <1>16 DEF FlashEnds, EndsWith, Outcome, RunEnds, Failures, Results
  <2> QED
    BY <2>1, <2>2, <2>3
<1>17. CASE IdleDrop
  <2>1. Numbers'
    BY <1>17 DEF IdleDrop
  <2>2. Flags'
    BY <1>17 DEF IdleDrop
  <2>3. Names'
    BY <1>17 DEF IdleDrop
  <2> QED
    BY <2>1, <2>2, <2>3
<1>18. CASE PowerCycle
  <2>1. Numbers'
    BY <1>18 DEF PowerCycle
  <2>2. Flags'
    BY <1>18 DEF PowerCycle
  <2>3. Names'
    BY <1>18 DEF PowerCycle, Results
  <2> QED
    BY <2>1, <2>2, <2>3
<1>19. CASE LinkDrops
  <2>1. Numbers'
    BY <1>19 DEF LinkDrops
  <2>2. Flags'
    BY <1>19 DEF LinkDrops
  <2>3. Names'
    BY <1>19 DEF LinkDrops
  <2> QED
    BY <2>1, <2>2, <2>3
<1>20. CASE LinkReturns
  <2>1. Numbers'
    BY <1>20 DEF LinkReturns
  <2>2. Flags'
    BY <1>20 DEF LinkReturns
  <2>3. Names'
    BY <1>20 DEF LinkReturns
  <2> QED
    BY <2>1, <2>2, <2>3
<1>21. CASE BoardStarts
  <2>1. Numbers'
    BY <1>21 DEF BoardStarts
  <2>2. Flags'
    BY <1>21 DEF BoardStarts
  <2>3. Names'
    BY <1>21 DEF BoardStarts
  <2> QED
    BY <2>1, <2>2, <2>3
<1>22. CASE RowComes
  <2>1. Numbers'
    BY <1>22 DEF RowComes
  <2>2. Flags'
    BY <1>22 DEF RowComes
  <2>3. Names'
    BY <1>22 DEF RowComes
  <2> QED
    BY <2>1, <2>2, <2>3
<1>23. CASE UNCHANGED vars
  <2>1. Numbers'
    BY <1>23 DEF vars
  <2>2. Flags'
    BY <1>23 DEF vars
  <2>3. Names'
    BY <1>23 DEF vars
  <2> QED
    BY <2>1, <2>2, <2>3
<1> QED
  BY <1>1, <1>2, <1>3, <1>4, <1>5, <1>6, <1>7, <1>8, <1>9, <1>10, <1>11, <1>12, <1>13, <1>14, <1>15,
     <1>16, <1>17, <1>18, <1>19, <1>20, <1>21, <1>22, <1>23 DEF Next, Run, Gateway

(* Every variable keeps its type: of a chunk's sends and the probes missed,  *)
(* neither goes past its limit.                                             *)
THEOREM Typing == Spec => []TypeOK
<1> QED
  BY TypeInit, TypeStep, PTL DEF Spec

-----------------------------------------------------------------------------
(* One flash per run. *)

(* A flash is asked for once: until then this run began none.               *)
Asked ==
    /\ pc \in {"info", "abort", "begin", "data", "end", "flash"} => flashes = 0
    /\ flashes <= 1

LEMMA AskedInit == Init => Asked
BY DEF Init, Asked

LEMMA AskedStep ==
    ASSUME TypeOK, Asked, [Next]_vars
    PROVE  Asked'
<1> USE DEF TypeOK, Asked, runVars, gatewayVars, linkVars, counted, Elsewhere
<1>1. CASE Start
  BY <1>1 DEF Start
<1>2. CASE Info
  BY <1>2 DEF Info, RunEnds, Flash, Stage, Watch
<1>3. CASE Abort
  BY <1>3 DEF Abort, Flash, Stage
<1>4. CASE ImageDamaged
  BY <1>4 DEF ImageDamaged, RunEnds
<1>5. CASE Begin
  BY <1>5 DEF Begin, RunEnds
<1>6. CASE Data
  BY <1>6 DEF Data, RunEnds
<1>7. CASE End
  BY <1>7 DEF End, RunEnds
<1>8. CASE FlashRequest
  BY <1>8 DEF FlashRequest, RunEnds, Watch, Stage
<1>9. CASE FlashInfo
  BY <1>9 DEF FlashInfo, Watch
<1>10. CASE Probe
  BY <1>10 DEF Probe, Settle, Outcome, RunEnds
<1>11. CASE Reconnect
  BY <1>11 DEF Reconnect, Watch, Settle, Outcome, RunEnds
<1>12. CASE JudgeFromRow
  BY <1>12 DEF JudgeFromRow, RunEnds
<1>13. CASE Reopen
  BY <1>13 DEF Reopen
<1>14. CASE Erase
  BY <1>14 DEF Erase
<1>15. CASE Written
  BY <1>15 DEF Written
<1>16. CASE FlashEnds
  BY <1>16 DEF FlashEnds, Outcome, RunEnds
<1>17. CASE IdleDrop
  BY <1>17 DEF IdleDrop
<1>18. CASE PowerCycle
  BY <1>18 DEF PowerCycle
<1>19. CASE LinkDrops
  BY <1>19 DEF LinkDrops
<1>20. CASE LinkReturns
  BY <1>20 DEF LinkReturns
<1>21. CASE BoardStarts
  BY <1>21 DEF BoardStarts
<1>22. CASE RowComes
  BY <1>22 DEF RowComes
<1>23. CASE UNCHANGED vars
  BY <1>23 DEF vars
<1> QED
  BY <1>1, <1>2, <1>3, <1>4, <1>5, <1>6, <1>7, <1>8, <1>9, <1>10, <1>11, <1>12, <1>13, <1>14, <1>15,
     <1>16, <1>17, <1>18, <1>19, <1>20, <1>21, <1>22, <1>23 DEF Next, Run, Gateway

(* Whatever is lost, and however often contact is, no run has the Gateway   *)
(* flash twice.                                                             *)
THEOREM FlashedOnce == Spec => []OneFlashPerRun
<1>1. Asked => OneFlashPerRun
  BY DEF Asked, OneFlashPerRun
<1> QED
  BY <1>1, AskedInit, AskedStep, Typing, PTL DEF Spec

-----------------------------------------------------------------------------
(* "Done" means installed. *)

(* What the Gateway or the board's row says of a board that is not being    *)
(* flashed is true: OK, or the new version, is of a board that has it.      *)
Truthful ==
    /\ lastResult = "OK" /\ state # "FLASHING" => board = "new"
    /\ linkUp /\ state # "FLASHING" /\ lastResult = "NONE" /\ row = "new" =>
           board = "new"
    /\ pc = "row" => state # "FLASHING" /\ (row = "new" => board = "new")
    /\ result.end = "ok" =>
           pc = "ended" /\ state # "FLASHING" /\ board = "new"

LEMMA TruthfulInit == Init => Truthful
BY DEF Init, Truthful, NoResult

LEMMA TruthfulStep ==
    ASSUME TypeOK, Truthful, [Next]_vars
    PROVE  Truthful'
<1> USE DEF TypeOK, Truthful, NoResult, runVars, gatewayVars, linkVars,
   counted, Elsewhere
<1>1. CASE Start
  BY <1>1 DEF Start
<1>2. CASE Info
  BY <1>2 DEF Info, AskInfo, Exchange, RunEnds, Flash, Stage, Watch
<1>3. CASE Abort
  BY <1>3 DEF Abort, Exchange, Flash, Stage
<1>4. CASE ImageDamaged
  BY <1>4 DEF ImageDamaged, RunEnds
<1>5. CASE Begin
  BY <1>5 DEF Begin, Exchange, RunEnds
<1>6. CASE Data
  BY <1>6 DEF Data, Exchange, RunEnds
<1>7. CASE End
  BY <1>7 DEF End, Exchange, RunEnds
<1>8. CASE FlashRequest
  BY <1>8 DEF FlashRequest, Exchange, RunEnds, Watch, Stage
<1>9. CASE FlashInfo
  BY <1>9 DEF FlashInfo, AskInfo, Exchange, Watch
<1>10. CASE Probe
  BY <1>10 DEF Probe, AskInfo, Exchange, Settle, Outcome, RunEnds
<1>11. CASE Reconnect
  <2>1. PICK heard \in BOOLEAN :
          /\ AskInfo(heard)
          /\ \/ Watch /\ UNCHANGED result
             \/ heard /\ state # "FLASHING" /\ Settle(lastResult)
             \/ UNCHANGED <<pc, result>>
    BY <1>11, Zenon DEF Reconnect
  <2>2. UNCHANGED <<state, lastResult, board, row>> /\ (linkUp' => linkUp)
    BY <2>1, <1>11 DEF Reconnect, AskInfo, Exchange
  <2>3. heard => linkUp
    BY <2>1 DEF AskInfo, Exchange
  <2>4. result.end # "ok" /\ pc = "cutOff"
    BY <1>11 DEF Reconnect
  <2> QED
    BY <2>1, <2>2, <2>3, <2>4 DEF Watch, Settle, Outcome, RunEnds
<1>12. CASE JudgeFromRow
  BY <1>12 DEF JudgeFromRow, RunEnds
<1>13. CASE Reopen
  BY <1>13 DEF Reopen
<1>14. CASE Erase
  BY <1>14 DEF Erase, Status
<1>15. CASE Written
  BY <1>15 DEF Written, Status
<1>16. CASE FlashEnds
  BY <1>16 DEF FlashEnds, EndsWith, Outcome, RunEnds
<1>17. CASE IdleDrop
  BY <1>17 DEF IdleDrop
<1>18. CASE PowerCycle
  BY <1>18 DEF PowerCycle
<1>19. CASE LinkDrops
  BY <1>19 DEF LinkDrops
<1>20. CASE LinkReturns
  BY <1>20 DEF LinkReturns
<1>21. CASE BoardStarts
  BY <1>21 DEF BoardStarts
<1>22. CASE RowComes
  BY <1>22 DEF RowComes
<1>23. CASE UNCHANGED vars
  BY <1>23 DEF vars
<1> QED
  BY <1>1, <1>2, <1>3, <1>4, <1>5, <1>6, <1>7, <1>8, <1>9, <1>10, <1>11, <1>12, <1>13, <1>14, <1>15,
     <1>16, <1>17, <1>18, <1>19, <1>20, <1>21, <1>22, <1>23 DEF Next, Run, Gateway

(* A run that ends "ok" installed the version, by whichever way it learnt   *)
(* so: the Gateway's answer, its UPL_INFO later, or the board's own row.    *)
THEOREM DoneIsInstalled == Spec => []OkMeansInstalled
<1>1. Truthful => OkMeansInstalled
  BY DEF Truthful, OkMeansInstalled
<1> QED
  BY <1>1, TruthfulInit, TruthfulStep, Typing, PTL DEF Spec

-----------------------------------------------------------------------------
(* "Nothing was written" means that this run erased nothing. *)

(* The board was erased by the flash this run follows, or followed.         *)
Mine == runs > 0 /\ erasedIn = runs

(* Runs are numbered from 1, and only an ended one says "nothing written".  *)
Numbered ==
    /\ runs = 0 => pc = "confirm"
    /\ erasedIn <= runs
    /\ pc # "ended" => result.after = "none"

(* A run whose flash erased the board asks for no other, and neither the    *)
(* Gateway's result nor the board's row speaks of the time before it.       *)
ErasedForGood ==
    Mine =>
      /\ board # "old" /\ phase # "entering"
      /\ pc \in {"confirm", "flashInfo", "watch", "cutOff", "row", "ended"}
      /\ state # "FLASHING" =>
            lastResult \notin {"NO_RESPONSE", "KIND_MISMATCH"}
      /\ result.after # "refused"

(* A result that is gone went with the Gateway's power: a client that still *)
(* listens has not heard of it since, and one that is cut off knows that it *)
(* missed statuses, and has no row from before.                             *)
PowerNoticed ==
    /\ pc = "cutOff" => partial
    /\ Mine /\ pc = "row" => partial /\ row # "old"
    /\ Mine /\ state # "FLASHING" /\ lastResult = "NONE" =>
          /\ Listening => booting /\ ~linkUp
          /\ pc = "cutOff" /\ linkUp => row # "old"

Erasure == Numbered /\ ErasedForGood /\ PowerNoticed

LEMMA EraseInit == Init => Erasure
BY DEF Init, Erasure, Numbered, ErasedForGood, PowerNoticed, Mine, NoResult

LEMMA EraseStep ==
    ASSUME ~QuickBoot, TypeOK, [Next]_vars,
           Numbered, ErasedForGood, PowerNoticed
    PROVE  Numbered' /\ ErasedForGood' /\ PowerNoticed'
<1> USE DEF TypeOK, Numbered, ErasedForGood, PowerNoticed, Mine, Listening,
   Following, NoResult, runVars, gatewayVars, linkVars, counted, Elsewhere
<1>1. CASE Start
  <2>1. Numbered'
    BY <1>1 DEF Start
  <2>2. ErasedForGood'
    BY <1>1 DEF Start
  <2>3. PowerNoticed'
    BY <1>1 DEF Start
  <2> QED
    BY <2>1, <2>2, <2>3
<1>2. CASE Info
  <2>1. Numbered'
    BY <1>2 DEF Info, RunEnds, Flash, Stage, Watch
  <2>2. ErasedForGood'
    BY <1>2 DEF Info, AskInfo, Exchange, RunEnds, Flash, Stage, Watch
  <2>3. PowerNoticed'
    BY <1>2 DEF Info, AskInfo, Exchange, RunEnds, Flash, Stage, Watch
  <2> QED
    BY <2>1, <2>2, <2>3
<1>3. CASE Abort
  <2>1. Numbered'
    BY <1>3 DEF Abort, Flash, Stage
  <2>2. ErasedForGood'
    BY <1>3 DEF Abort, Exchange, Flash, Stage
  <2>3. PowerNoticed'
    BY <1>3 DEF Abort, Exchange, Flash, Stage
  <2> QED
    BY <2>1, <2>2, <2>3
<1>4. CASE ImageDamaged
  <2>1. Numbered'
    BY <1>4 DEF ImageDamaged, RunEnds
  <2>2. ErasedForGood'
    BY <1>4 DEF ImageDamaged, RunEnds
  <2>3. PowerNoticed'
    BY <1>4 DEF ImageDamaged, RunEnds
  <2> QED
    BY <2>1, <2>2, <2>3
<1>5. CASE Begin
  <2>1. Numbered'
    BY <1>5 DEF Begin, RunEnds
  <2>2. ErasedForGood'
    BY <1>5 DEF Begin, Exchange, RunEnds
  <2>3. PowerNoticed'
    BY <1>5 DEF Begin, Exchange, RunEnds
  <2> QED
    BY <2>1, <2>2, <2>3
<1>6. CASE Data
  <2>1. Numbered'
    BY <1>6 DEF Data, RunEnds
  <2>2. ErasedForGood'
    BY <1>6 DEF Data, Exchange, RunEnds
  <2>3. PowerNoticed'
    BY <1>6 DEF Data, Exchange, RunEnds
  <2> QED
    BY <2>1, <2>2, <2>3
<1>7. CASE End
  <2>1. Numbered'
    BY <1>7 DEF End, RunEnds
  <2>2. ErasedForGood'
    BY <1>7 DEF End, Exchange, RunEnds
  <2>3. PowerNoticed'
    BY <1>7 DEF End, Exchange, RunEnds
  <2> QED
    BY <2>1, <2>2, <2>3
<1>8. CASE FlashRequest
  <2>1. Numbered'
    BY <1>8 DEF FlashRequest, RunEnds, Watch, Stage
  <2>2. ErasedForGood'
    BY <1>8 DEF FlashRequest, Exchange, RunEnds, Watch, Stage
  <2>3. PowerNoticed'
    BY <1>8 DEF FlashRequest, Exchange, RunEnds, Watch, Stage
  <2> QED
    BY <2>1, <2>2, <2>3
<1>9. CASE FlashInfo
  <2>1. Numbered'
    BY <1>9 DEF FlashInfo, Watch
  <2>2. ErasedForGood'
    BY <1>9 DEF FlashInfo, AskInfo, Exchange, Watch
  <2>3. PowerNoticed'
    BY <1>9 DEF FlashInfo, AskInfo, Exchange, Watch
  <2> QED
    BY <2>1, <2>2, <2>3
<1>10. CASE Probe
  <2>1. Numbered'
    BY <1>10 DEF Probe, Settle, Outcome, RunEnds
  <2>2. ErasedForGood'
    BY <1>10 DEF Probe, AskInfo, Exchange, Settle, Outcome, RunEnds, MayBeErased
  <2>3. PowerNoticed'
    BY <1>10 DEF Probe, AskInfo, Exchange, Settle, Outcome, RunEnds, MayBeErased
  <2> QED
    BY <2>1, <2>2, <2>3
<1>11. CASE Reconnect
  <2>1. Numbered'
    BY <1>11 DEF Reconnect, Watch, Settle, Outcome, RunEnds
  <2>2. ErasedForGood'
    BY <1>11 DEF Reconnect, AskInfo, Exchange, Watch, Settle, Outcome, RunEnds, MayBeErased
  <2>3. PowerNoticed'
    BY <1>11 DEF Reconnect, AskInfo, Exchange, Watch, Settle, Outcome, RunEnds, MayBeErased
  <2> QED
    BY <2>1, <2>2, <2>3
<1>12. CASE JudgeFromRow
  <2>1. Numbered'
    BY <1>12 DEF JudgeFromRow, RunEnds
  <2>2. ErasedForGood'
    BY <1>12 DEF JudgeFromRow, RunEnds, MayBeErased
  <2>3. PowerNoticed'
    BY <1>12 DEF JudgeFromRow, RunEnds, MayBeErased
  <2> QED
    BY <2>1, <2>2, <2>3
<1>13. CASE Reopen
  <2>1. Numbered'
    BY <1>13 DEF Reopen
  <2>2. ErasedForGood'
    BY <1>13 DEF Reopen
  <2>3. PowerNoticed'
    BY <1>13 DEF Reopen
  <2> QED
    BY <2>1, <2>2, <2>3
<1>14. CASE Erase
  <2>1. Numbered'
    BY <1>14 DEF Erase, Status
  <2>2. ErasedForGood'
    BY <1>14 DEF Erase, Status
  <2>3. PowerNoticed'
    BY <1>14 DEF Erase, Status
  <2> QED
    BY <2>1, <2>2, <2>3
<1>15. CASE Written
  <2>1. Numbered'
    BY <1>15 DEF Written, Status
  <2>2. ErasedForGood'
    BY <1>15 DEF Written, Status
  <2>3. PowerNoticed'
    BY <1>15 DEF Written, Status
  <2> QED
    BY <2>1, <2>2, <2>3
<1>16. CASE FlashEnds
  <2>1. Numbered'
    BY <1>16 DEF FlashEnds, Outcome, RunEnds
  <2>2. ErasedForGood'
    BY <1>16 DEF FlashEnds, EndsWith, Outcome, RunEnds, MayBeErased
  <2>3. PowerNoticed'
    BY <1>16 DEF FlashEnds, EndsWith, Outcome, RunEnds, MayBeErased
  <2> QED
    BY <2>1, <2>2, <2>3
<1>17. CASE IdleDrop
  <2>1. Numbered'
    BY <1>17 DEF IdleDrop
  <2>2. ErasedForGood'
    BY <1>17 DEF IdleDrop
  <2>3. PowerNoticed'
    BY <1>17 DEF IdleDrop
  <2> QED
    BY <2>1, <2>2, <2>3
<1>18. CASE PowerCycle
  <2>1. Numbered'
    BY <1>18 DEF PowerCycle
  <2>2. ErasedForGood'
    BY <1>18 DEF PowerCycle
  <2>3. PowerNoticed'
    BY <1>18 DEF PowerCycle
  <2> QED
    BY <2>1, <2>2, <2>3
<1>19. CASE LinkDrops
  <2>1. Numbered'
    BY <1>19 DEF LinkDrops
  <2>2. ErasedForGood'
    BY <1>19 DEF LinkDrops
  <2>3. PowerNoticed'
    BY <1>19 DEF LinkDrops
  <2> QED
    BY <2>1, <2>2, <2>3
<1>20. CASE LinkReturns
  <2>1. Numbered'
    BY <1>20 DEF LinkReturns
  <2>2. ErasedForGood'
    BY <1>20 DEF LinkReturns
  <2>3. PowerNoticed'
    BY <1>20 DEF LinkReturns
  <2> QED
    BY <2>1, <2>2, <2>3
<1>21. CASE BoardStarts
  <2>1. Numbered'
    BY <1>21 DEF BoardStarts
  <2>2. ErasedForGood'
    BY <1>21 DEF BoardStarts
  <2>3. PowerNoticed'
    BY <1>21 DEF BoardStarts
  <2> QED
    BY <2>1, <2>2, <2>3
<1>22. CASE RowComes
  <2>1. Numbered'
    BY <1>22 DEF RowComes
  <2>2. ErasedForGood'
    BY <1>22 DEF RowComes
  <2>3. PowerNoticed'
    BY <1>22 DEF RowComes
  <2> QED
    BY <2>1, <2>2, <2>3
<1>23. CASE UNCHANGED vars
  <2>1. Numbered'
    BY <1>23 DEF vars
  <2>2. ErasedForGood'
    BY <1>23 DEF vars
  <2>3. PowerNoticed'
    BY <1>23 DEF vars
  <2> QED
    BY <2>1, <2>2, <2>3
<1> QED
  BY <1>1, <1>2, <1>3, <1>4, <1>5, <1>6, <1>7, <1>8, <1>9, <1>10, <1>11, <1>12, <1>13, <1>14, <1>15,
     <1>16, <1>17, <1>18, <1>19, <1>20, <1>21, <1>22, <1>23 DEF Next, Run, Gateway

(* A run that says nothing was written did not erase the board, as long as  *)
(* a USB side that lost power is missed before it answers again.            *)
THEOREM RefusedIsUntouched ==
    ASSUME ~QuickBoot
    PROVE  Spec => []RefusedWroteNothing
<1>1. TypeOK /\ Erasure => RefusedWroteNothing
  BY BoundsAssumption
     DEF BoundsAssumption, TypeOK, Erasure, Numbered, ErasedForGood, Mine,
         RefusedWroteNothing
<1>2. TypeOK /\ Erasure /\ [Next]_vars => Erasure'
  BY EraseStep DEF Erasure
<1> QED
  BY <1>1, <1>2, EraseInit, Typing, PTL DEF Spec

(***************************************************************************)
(* The update dialog and the USB side's run.                               *)
(***************************************************************************)

BoardsTyped ==
    /\ gw \in Roots \cup {"port", "toDrive", "toApp", "away"}
    /\ other \in [Others -> Roots \cup {"away"}]
    /\ firmware \in {"old", "new"}
    /\ calibrated \in BOOLEAN /\ inBoot \in BOOLEAN
    /\ stood \subseteq Others

PortTyped ==
    /\ link \in {"off", "look", "up"}
    /\ held \in BOOLEAN /\ reading \in BOOLEAN
    /\ snap \in Snaps

DialogTyped ==
    /\ open \in {"none", "confirm", "run", "fail", "done"}
    /\ kind \in Kinds
    /\ failure \in {"none", "image", "many", "no-drive", "left", "copy",
                    "no-reconnect", "wrong-version", "cockpit"}
    /\ cut \in BOOLEAN

FlowTyped ==
    /\ await \in HostAwaits \cup {"idle", "cockpit"}
    /\ imageRead \in BOOLEAN /\ took \in BOOLEAN /\ wrote \in BOOLEAN
    /\ calBefore \in Snaps
    /\ root \in Roots \cup {"none"} /\ strays \subseteq Roots
    /\ lastHello \in {"none", "old", "new"}
    /\ reported \in {"none", "old", "new"}
    /\ notice \in {"none", "unread", "no-copy", "restored", "failed"}

WatchTyped ==
    /\ watching \in BOOLEAN /\ settling \in BOOLEAN /\ looking \in BOOLEAN

CountsTyped ==
    /\ at \in 0 .. 3 /\ retryFrom \in 0 .. 3
    /\ asks \in 0 .. MaxAsks
    /\ drives \in 0 .. Cardinality(Roots)
    /\ moves \in 0 .. MaxMoves

LEMMA HostTypeParts ==
    HostTypeOK <=>
      BoardsTyped /\ PortTyped /\ DialogTyped /\ FlowTyped /\ WatchTyped /\ CountsTyped
BY DEF HostTypeOK, BoardsTyped, PortTyped, DialogTyped, FlowTyped, WatchTyped, CountsTyped

(* The mounted drives are among the paths.                                 *)
LEMMA MountedCount ==
    /\ Mounted \subseteq Roots
    /\ Cardinality(Roots) \in Nat
    /\ Cardinality(Mounted) \in 0 .. Cardinality(Roots)
<1>1. Mounted \in SUBSET Roots
  BY DEF Mounted
<1>2. IsFiniteSet(Roots)
  BY RootsAssumption DEF RootsAssumption
<1>3. IsFiniteSet(Mounted) /\ Cardinality(Mounted) <= Cardinality(Roots)
  BY <1>1, <1>2, FS_Subset
<1>4. Cardinality(Roots) \in Nat /\ Cardinality(Mounted) \in Nat
  BY <1>2, <1>3, FS_CardinalityType
<1> QED
  BY <1>1, <1>3, <1>4

(* Wherever a run starts or goes on, it awaits one of these.               *)
LEMMA AwaitsFirst ==
    \A n \in 0 .. 3 :
      /\ FirstAwait(n) \in {"take", "drive", "present", "rec"}
      /\ FirstAwait(n) = "drive" => n = 1
<1> SUFFICES ASSUME NEW n \in 0 .. 3
             PROVE  /\ FirstAwait(n) \in {"take", "drive", "present", "rec"}
                    /\ FirstAwait(n) = "drive" => n = 1
  OBVIOUS
<1>1. n = 0 \/ n = 1 \/ n >= 2
  OBVIOUS
<1>2. CASE n = 0
  BY <1>2 DEF FirstAwait
<1>3. CASE n = 1
  BY <1>3 DEF FirstAwait
<1>4. CASE n >= 2
  BY <1>4 DEF FirstAwait
<1> QED
  BY <1>1, <1>2, <1>3, <1>4

LEMMA HostTypeInit == HostInit => HostTypeOK
<1> SUFFICES ASSUME HostInit PROVE HostTypeOK
  OBVIOUS
<1>1. BoardsTyped
  BY DEF HostInit, BoardsTyped
<1>2. PortTyped /\ DialogTyped
  BY DEF HostInit, PortTyped, DialogTyped, Snaps, Kinds
<1>3. FlowTyped
  BY DEF HostInit, FlowTyped, Snaps
<1>4. WatchTyped
  BY DEF HostInit, WatchTyped
<1>5. CountsTyped
  BY HostBounds, MountedCount DEF HostBounds, HostInit, CountsTyped
<1> QED
  BY <1>1, <1>2, <1>3, <1>4, <1>5, HostTypeParts

LEMMA HostTypeStep ==
    ASSUME HostTypeOK, [HostNext]_hostVars
    PROVE  HostTypeOK'
<1>0. BoardsTyped /\ PortTyped /\ DialogTyped /\ FlowTyped /\ WatchTyped /\ CountsTyped
  BY HostTypeParts
<1> SUFFICES BoardsTyped' /\ PortTyped' /\ DialogTyped' /\ FlowTyped' /\ WatchTyped' /\ CountsTyped'
  BY DEF HostTypeOK, BoardsTyped, PortTyped, DialogTyped, FlowTyped, WatchTyped, CountsTyped
<1> USE <1>0, HostBounds, MountedCount, AwaitsFirst
    DEF HostBounds, BoardsTyped, PortTyped, DialogTyped, FlowTyped, WatchTyped,
       CountsTyped
<1> USE DEF boards, portVars, dialog, flowVars, watchVars, HostAwaits, Snaps, Kinds
<1>1. CASE moves < MaxMoves /\ moves' = moves + 1
           /\ (\E to \in Roots \cup {"port", "away"} : MoveGateway(to))
  BY <1>1 DEF MoveGateway, boardsOnly
<1>2. CASE moves < MaxMoves /\ moves' = moves + 1
           /\ (\E o \in Others, to \in Free \cup {"away"} : MoveOther(o, to))
  BY <1>2 DEF MoveOther, boardsOnly, Free
<1>3. CASE moves < MaxMoves /\ moves' = moves + 1 /\ Disconnect
  <2>1. BoardsTyped' /\ PortTyped'
    BY <1>3 DEF Disconnect, Forgets, InputsChanged, Dropped, NewFlow, Rewatch, WatchFor
  <2>2. DialogTyped' /\ FlowTyped'
    BY <1>3 DEF Disconnect, Forgets, InputsChanged, Dropped, NewFlow, Rewatch, WatchFor
  <2>3. WatchTyped'
    BY <1>3 DEF Disconnect, Forgets, InputsChanged, Dropped, NewFlow, Rewatch, WatchFor
  <2>4. CountsTyped'
    BY <1>3 DEF Disconnect, Forgets, InputsChanged, Dropped, NewFlow, Rewatch, WatchFor
  <2> QED
    BY <2>1, <2>2, <2>3, <2>4
<1>4. CASE Connect /\ UNCHANGED moves
  BY <1>4 DEF Connect, InputsChanged, Dropped, NewFlow, Rewatch, WatchFor
<1>5. CASE (\E k \in Kinds : OpenUpdate(k)) /\ UNCHANGED moves
  <2>1. BoardsTyped' /\ PortTyped'
    BY <1>5 DEF OpenUpdate, NewFlow
  <2>2. DialogTyped' /\ FlowTyped'
    BY <1>5 DEF OpenUpdate, NewFlow
  <2>3. WatchTyped'
    BY <1>5 DEF OpenUpdate, NewFlow
  <2>4. CountsTyped'
    BY <1>5 DEF OpenUpdate, NewFlow
  <2> QED
    BY <2>1, <2>2, <2>3, <2>4
<1>6. CASE StartUpdate /\ UNCHANGED moves
  BY <1>6 DEF StartUpdate, Runs, ForgetsHello, HostKeeps, Rewatch, WatchFor
<1>7. CASE Retry /\ UNCHANGED moves
  BY <1>7 DEF Retry, Runs, First, ForgetsHello, HostKeeps, Rewatch, WatchFor
<1>8. CASE Close /\ UNCHANGED moves
  <2>1. BoardsTyped' /\ PortTyped'
    BY <1>8 DEF Close, Dropped, NewFlow, GivesBack, HandBack, Rewatch, WatchFor
  <2>2. DialogTyped' /\ FlowTyped'
    BY <1>8 DEF Close, Dropped, NewFlow, GivesBack, HandBack, Rewatch, WatchFor
  <2>3. WatchTyped'
    BY <1>8 DEF Close, Dropped, NewFlow, GivesBack, HandBack, Rewatch, WatchFor
  <2>4. CountsTyped'
    BY <1>8 DEF Close, Dropped, NewFlow, GivesBack, HandBack, Rewatch, WatchFor
  <2> QED
    BY <2>1, <2>2, <2>3, <2>4
<1>9. CASE CockpitRun /\ UNCHANGED moves
  <2>1. BoardsTyped' /\ PortTyped'
    BY <1>9 DEF CockpitRun, CockpitKeeps, WatchFor
  <2>2. DialogTyped' /\ FlowTyped'
    BY <1>9 DEF CockpitRun, CockpitKeeps, WatchFor
  <2>3. WatchTyped'
    BY <1>9 DEF CockpitRun, CockpitKeeps, WatchFor
  <2>4. CountsTyped'
    BY <1>9 DEF CockpitRun, CockpitKeeps, WatchFor
  <2> QED
    BY <2>1, <2>2, <2>3, <2>4
<1>10. CASE CockpitLeave /\ UNCHANGED moves
  <2>1. BoardsTyped' /\ PortTyped'
    BY <1>10 DEF CockpitLeave, Dropped, NewFlow, Rewatch, WatchFor
  <2>2. DialogTyped' /\ FlowTyped'
    BY <1>10 DEF CockpitLeave, Dropped, NewFlow, Rewatch, WatchFor
  <2>3. WatchTyped'
    BY <1>10 DEF CockpitLeave, Dropped, NewFlow, Rewatch, WatchFor
  <2>4. CountsTyped'
    BY <1>10 DEF CockpitLeave, Dropped, NewFlow, Rewatch, WatchFor
  <2> QED
    BY <2>1, <2>2, <2>3, <2>4
<1>11. CASE Restarts /\ UNCHANGED moves
  BY <1>11 DEF Restarts, boardsOnly, Free
<1>12. CASE LeavesBoot /\ UNCHANGED moves
  <2>1. BoardsTyped' /\ PortTyped'
    BY <1>12 DEF LeavesBoot
  <2>2. DialogTyped' /\ FlowTyped'
    BY <1>12 DEF LeavesBoot
  <2>3. WatchTyped'
    BY <1>12 DEF LeavesBoot
  <2>4. CountsTyped'
    BY <1>12 DEF LeavesBoot
  <2> QED
    BY <2>1, <2>2, <2>3, <2>4
<1>13. CASE BeginLook /\ UNCHANGED moves
  BY <1>13 DEF BeginLook, LookOnly, SetDrives, Present
<1>14. CASE LookList /\ UNCHANGED moves
  <2>1. BoardsTyped' /\ PortTyped'
    BY <1>14 DEF LookList, LookOnly, SetDrives
  <2>2. DialogTyped' /\ FlowTyped'
    BY <1>14 DEF LookList, LookOnly, SetDrives
  <2>3. WatchTyped'
    BY <1>14 DEF LookList, LookOnly, SetDrives
  <2>4. CountsTyped'
    BY <1>14 DEF LookList, LookOnly, SetDrives
  <2> QED
    BY <2>1, <2>2, <2>3, <2>4
<1>15. CASE LinkUp /\ UNCHANGED moves
  <2>1. BoardsTyped' /\ PortTyped'
    BY <1>15 DEF LinkUp, Forgets, InputsChanged, Dropped, NewFlow, Rewatch, WatchFor
  <2>2. DialogTyped' /\ FlowTyped'
    BY <1>15 DEF LinkUp, Forgets, InputsChanged, Dropped, NewFlow, Rewatch, WatchFor
  <2>3. WatchTyped'
    BY <1>15 DEF LinkUp, Forgets, InputsChanged, Dropped, NewFlow, Rewatch, WatchFor
  <2>4. CountsTyped'
    BY <1>15 DEF LinkUp, Forgets, InputsChanged, Dropped, NewFlow, Rewatch, WatchFor
  <2> QED
    BY <2>1, <2>2, <2>3, <2>4
<1>16. CASE LinkLost /\ UNCHANGED moves
  <2>1. BoardsTyped' /\ PortTyped'
    BY <1>16 DEF LinkLost, Forgets, InputsChanged, Dropped, NewFlow, Rewatch, WatchFor
  <2>2. DialogTyped' /\ FlowTyped'
    BY <1>16 DEF LinkLost, Forgets, InputsChanged, Dropped, NewFlow, Rewatch, WatchFor
  <2>3. WatchTyped'
    BY <1>16 DEF LinkLost, Forgets, InputsChanged, Dropped, NewFlow, Rewatch, WatchFor
  <2>4. CountsTyped'
    BY <1>16 DEF LinkLost, Forgets, InputsChanged, Dropped, NewFlow, Rewatch, WatchFor
  <2> QED
    BY <2>1, <2>2, <2>3, <2>4
<1>17. CASE HelloComes /\ UNCHANGED moves
  BY <1>17 DEF HelloComes, HelloAnswered, LinkOnly
<1>18. CASE HelloFails /\ UNCHANGED moves
  BY <1>18 DEF HelloFails, HelloAnswered, LinkOnly
<1>19. CASE CalibrationRead /\ UNCHANGED moves
  <2>1. BoardsTyped' /\ PortTyped'
    BY <1>19 DEF CalibrationRead, LinkOnly
  <2>2. DialogTyped' /\ FlowTyped'
    BY <1>19 DEF CalibrationRead, LinkOnly
  <2>3. WatchTyped'
    BY <1>19 DEF CalibrationRead, LinkOnly
  <2>4. CountsTyped'
    BY <1>19 DEF CalibrationRead, LinkOnly
  <2> QED
    BY <2>1, <2>2, <2>3, <2>4
<1>20. CASE CockpitCut /\ UNCHANGED moves
  BY <1>20 DEF CockpitCut, CockpitKeeps, Rewatch, WatchFor
<1>21. CASE (\E refused \in BOOLEAN : CockpitEnds(refused)) /\ UNCHANGED moves
  BY <1>21 DEF CockpitEnds, CockpitKeeps, WatchFor
<1>22. CASE BeginReconnect /\ UNCHANGED moves
  <2>1. BoardsTyped' /\ PortTyped'
    BY <1>22 DEF RunKeeps, Untouched, BeginReconnect, HandBack, Goes
  <2>2. DialogTyped' /\ FlowTyped'
    BY <1>22 DEF RunKeeps, Untouched, BeginReconnect, HandBack, Goes
  <2>3. WatchTyped'
    BY <1>22 DEF RunKeeps, Untouched, BeginReconnect, HandBack, Goes
  <2>4. CountsTyped'
    BY <1>22 DEF RunKeeps, Untouched, BeginReconnect, HandBack, Goes
  <2> QED
    BY <2>1, <2>2, <2>3, <2>4
<1>23. CASE ImageRead /\ UNCHANGED moves
  <2>1. BoardsTyped' /\ PortTyped'
    BY <1>23 DEF RunKeeps, Untouched, ImageRead, Goes, Fails, ForgetsHello, Rewatch, WatchFor
  <2>2. DialogTyped' /\ FlowTyped'
    BY <1>23 DEF RunKeeps, Untouched, ImageRead, Goes, Fails, ForgetsHello, Rewatch, WatchFor
  <2>3. WatchTyped'
    BY <1>23 DEF RunKeeps, Untouched, ImageRead, Goes, Fails, ForgetsHello, Rewatch, WatchFor
  <2>4. CountsTyped'
    BY <1>23 DEF RunKeeps, Untouched, ImageRead, Goes, Fails, ForgetsHello, Rewatch, WatchFor
  <2> QED
    BY <2>1, <2>2, <2>3, <2>4
<1>24. CASE Take /\ UNCHANGED moves
  <2>1. BoardsTyped' /\ PortTyped'
    BY <1>24 DEF RunKeeps, Untouched, Take, Forgets, Rewatch, WatchFor
  <2>2. DialogTyped'
    BY <1>24 DEF RunKeeps, Untouched, Take, Forgets, Rewatch, WatchFor
  <2>3. FlowTyped'
    BY <1>24 DEF RunKeeps, Untouched, Take, Forgets, Rewatch, WatchFor
  <2>4. WatchTyped' /\ CountsTyped'
    BY <1>24 DEF RunKeeps, Untouched, Take, Forgets, Rewatch, WatchFor
  <2> QED
    BY <2>1, <2>2, <2>3, <2>4
<1>25. CASE ListStrays /\ UNCHANGED moves
  BY <1>25 DEF RunKeeps, Untouched, ListStrays, Goes
<1>26. CASE Touch /\ UNCHANGED moves
  BY <1>26 DEF RunKeeps, Untouched, Touch, Goes
<1>27. CASE ManyDrives /\ UNCHANGED moves
  <2>1. BoardsTyped' /\ PortTyped'
    BY <1>27 DEF RunKeeps, Untouched, ManyDrives, Fails, Goes, Rewatch, WatchFor
  <2>2. DialogTyped' /\ FlowTyped'
    BY <1>27 DEF RunKeeps, Untouched, ManyDrives, Fails, Goes, Rewatch, WatchFor
  <2>3. WatchTyped'
    BY <1>27 DEF RunKeeps, Untouched, ManyDrives, Fails, Goes, Rewatch, WatchFor
  <2>4. CountsTyped'
    BY <1>27 DEF RunKeeps, Untouched, ManyDrives, Fails, Goes, Rewatch, WatchFor
  <2> QED
    BY <2>1, <2>2, <2>3, <2>4
<1>28. CASE LeftDrive /\ UNCHANGED moves
  <2>1. BoardsTyped' /\ PortTyped'
    BY <1>28 DEF RunKeeps, Untouched, LeftDrive, Fails, Goes, Rewatch, WatchFor
  <2>2. DialogTyped' /\ FlowTyped'
    BY <1>28 DEF RunKeeps, Untouched, LeftDrive, Fails, Goes, Rewatch, WatchFor
  <2>3. WatchTyped'
    BY <1>28 DEF RunKeeps, Untouched, LeftDrive, Fails, Goes, Rewatch, WatchFor
  <2>4. CountsTyped'
    BY <1>28 DEF RunKeeps, Untouched, LeftDrive, Fails, Goes, Rewatch, WatchFor
  <2> QED
    BY <2>1, <2>2, <2>3, <2>4
<1>29. CASE DriveFound /\ UNCHANGED moves
  BY <1>29 DEF RunKeeps, Untouched, DriveFound, ItsDrive, Goes, ForgetsHello
<1>30. CASE Write /\ UNCHANGED moves
  <2>1. BoardsTyped' /\ PortTyped'
    BY <1>30 DEF RunKeeps, Untouched, Write, Goes
  <2>2. DialogTyped'
    BY <1>30 DEF RunKeeps, Untouched, Write, Goes
  <2>3. FlowTyped'
    BY <1>30 DEF RunKeeps, Untouched, Write, Goes
  <2>4. WatchTyped' /\ CountsTyped'
    BY <1>30 DEF RunKeeps, Untouched, Write, Goes
  <2> QED
    BY <2>1, <2>2, <2>3, <2>4
<1>31. CASE WriteFails /\ UNCHANGED moves
  BY <1>31 DEF RunKeeps, Untouched, WriteFails, Fails, Rewatch, WatchFor
<1>32. CASE NoReconnect /\ UNCHANGED moves
  BY <1>32 DEF RunKeeps, Untouched, NoReconnect, Fails, RetryAfterSilence, Rewatch, WatchFor
<1>33. CASE CheckVersion /\ UNCHANGED moves
  <2>1. BoardsTyped' /\ PortTyped'
    BY <1>33 DEF RunKeeps, Untouched, CheckVersion, Goes, Fails, Rewatch, WatchFor
  <2>2. DialogTyped' /\ FlowTyped'
    BY <1>33 DEF RunKeeps, Untouched, CheckVersion, Goes, Fails, Rewatch, WatchFor
  <2>3. WatchTyped'
    BY <1>33 DEF RunKeeps, Untouched, CheckVersion, Goes, Fails, Rewatch, WatchFor
  <2>4. CountsTyped'
    BY <1>33 DEF RunKeeps, Untouched, CheckVersion, Goes, Fails, Rewatch, WatchFor
  <2> QED
    BY <2>1, <2>2, <2>3, <2>4
<1>34. CASE CalibrationSeen /\ UNCHANGED moves
  <2>1. BoardsTyped' /\ PortTyped'
    BY <1>34 DEF RunKeeps, Untouched, CalibrationSeen, Goes, Succeeds, Rewatch, WatchFor
  <2>2. DialogTyped' /\ FlowTyped'
    BY <1>34 DEF RunKeeps, Untouched, CalibrationSeen, Goes, Succeeds, Rewatch, WatchFor
  <2>3. WatchTyped'
    BY <1>34 DEF RunKeeps, Untouched, CalibrationSeen, Goes, Succeeds, Rewatch, WatchFor
  <2>4. CountsTyped'
    BY <1>34 DEF RunKeeps, Untouched, CalibrationSeen, Goes, Succeeds, Rewatch, WatchFor
  <2> QED
    BY <2>1, <2>2, <2>3, <2>4
<1>35. CASE Restore /\ UNCHANGED moves
  <2>1. BoardsTyped' /\ PortTyped'
    BY <1>35 DEF RunKeeps, Untouched, Restore, Succeeds, Rewatch, WatchFor
  <2>2. DialogTyped' /\ FlowTyped'
    BY <1>35 DEF RunKeeps, Untouched, Restore, Succeeds, Rewatch, WatchFor
  <2>3. WatchTyped'
    BY <1>35 DEF RunKeeps, Untouched, Restore, Succeeds, Rewatch, WatchFor
  <2>4. CountsTyped'
    BY <1>35 DEF RunKeeps, Untouched, Restore, Succeeds, Rewatch, WatchFor
  <2> QED
    BY <2>1, <2>2, <2>3, <2>4
<1>36. CASE NoDrive /\ UNCHANGED moves
  <2>1. BoardsTyped' /\ PortTyped'
    BY <1>36 DEF RunKeeps, Untouched, NoDrive, Fails, Rewatch, WatchFor
  <2>2. DialogTyped' /\ FlowTyped'
    BY <1>36 DEF RunKeeps, Untouched, NoDrive, Fails, Rewatch, WatchFor
  <2>3. WatchTyped'
    BY <1>36 DEF RunKeeps, Untouched, NoDrive, Fails, Rewatch, WatchFor
  <2>4. CountsTyped'
    BY <1>36 DEF RunKeeps, Untouched, NoDrive, Fails, Rewatch, WatchFor
  <2> QED
    BY <2>1, <2>2, <2>3, <2>4
<1>37. CASE HelloTimeout /\ UNCHANGED moves
  BY <1>37 DEF RunKeeps, Untouched, HelloTimeout, Goes
<1>38. CASE CalibrationTimeout /\ UNCHANGED moves
  BY <1>38 DEF RunKeeps, Untouched, CalibrationTimeout, Succeeds, Rewatch, WatchFor
<1>39. CASE UNCHANGED hostVars
  BY <1>39 DEF hostVars
<1> QED
  BY <1>1, <1>2, <1>3, <1>4, <1>5, <1>6, <1>7, <1>8, <1>9, <1>10, <1>11, <1>12, <1>13, <1>14, <1>15,
     <1>16, <1>17, <1>18, <1>19, <1>20, <1>21, <1>22, <1>23, <1>24, <1>25, <1>26, <1>27, <1>28,
     <1>29, <1>30, <1>31, <1>32, <1>33, <1>34, <1>35, <1>36, <1>37, <1>38, <1>39 DEF HostNext,
     Moves, Intents, Events, RunStep, Timeouts

(* Every variable of the dialog, of its run, of the link and of the boards *)
(* keeps its type, for any drives, boards and moves.                       *)
THEOREM HostTyping == HostSpec => []HostTypeOK
<1> QED
  BY HostTypeInit, HostTypeStep, PTL DEF HostSpec

(* What the dialog may say of the Gateway's calibration.  A linked board is *)
(* not in its drive; what was read was read on this link, and is still so;  *)
(* only a run awaits, and a cockpit side's has no reading of before.        *)
Linked == link = "up" => gw \notin Roots
ReadOnThisLink == snap # "none" => link = "up"
ReadIsTrue == snap = "kept" => calibrated
OnlyRunsAwait ==
    /\ await # "idle" => open = "run"
    /\ await = "cockpit" => kind = "cockpit"
CockpitReadsNone == kind = "cockpit" => calBefore # "kept"

Known ==
    Linked /\ ReadOnThisLink /\ ReadIsTrue /\ OnlyRunsAwait /\ CockpitReadsNone
    /\ NoSilentLoss

LEMMA KnownInit == HostInit => Known
BY RootsAssumption DEF RootsAssumption, HostInit, Known, Linked, ReadOnThisLink, ReadIsTrue,
   OnlyRunsAwait, CockpitReadsNone, NoSilentLoss

LEMMA KnownStep ==
    ASSUME HostTypeOK, Known, [HostNext]_hostVars
    PROVE  Known'
<1>0. BoardsTyped /\ PortTyped /\ DialogTyped /\ FlowTyped /\ at \in 0 .. 3 /\ retryFrom \in 0 .. 3
  BY HostTypeParts DEF CountsTyped
<1> USE <1>0, RootsAssumption, AwaitsFirst
    DEF RootsAssumption, BoardsTyped, PortTyped, DialogTyped, FlowTyped,
        HostAwaits, Snaps, Kinds, boards, portVars, dialog, flowVars, watchVars,
        Known, Linked, ReadOnThisLink, ReadIsTrue, OnlyRunsAwait, CockpitReadsNone,
           NoSilentLoss
<1>1. CASE (\E to \in Roots \cup {"port", "away"} : MoveGateway(to))
  BY <1>1 DEF MoveGateway, boardsOnly
<1>2. CASE Disconnect
  BY <1>2 DEF Disconnect, Forgets, InputsChanged, Dropped, NewFlow, Rewatch, WatchFor
<1>3. CASE Connect
  BY <1>3 DEF Connect, InputsChanged, Dropped, NewFlow, Rewatch, WatchFor
<1>4. CASE (\E k \in Kinds : OpenUpdate(k))
  BY <1>4 DEF OpenUpdate, NewFlow
<1>5. CASE StartUpdate
  BY <1>5 DEF StartUpdate, Runs, ForgetsHello, HostKeeps, Rewatch, WatchFor
<1>6. CASE Retry
  BY <1>6 DEF Retry, Runs, First, ForgetsHello, HostKeeps, Rewatch, WatchFor
<1>7. CASE Close
  BY <1>7 DEF Close, Dropped, NewFlow, GivesBack, HandBack, Rewatch, WatchFor
<1>8. CASE CockpitRun
  BY <1>8 DEF CockpitRun, CockpitKeeps, WatchFor
<1>9. CASE CockpitLeave
  BY <1>9 DEF CockpitLeave, Dropped, NewFlow, Rewatch, WatchFor
<1>10. CASE Restarts
  BY <1>10 DEF Restarts, boardsOnly, Free, Mounted
<1>11. CASE LinkUp
  BY <1>11 DEF LinkUp, Forgets, InputsChanged, Dropped, NewFlow, Rewatch, WatchFor
<1>12. CASE LinkLost
  BY <1>12 DEF LinkLost, Forgets, InputsChanged, Dropped, NewFlow, Rewatch, WatchFor
<1>13. CASE HelloComes
  BY <1>13 DEF HelloComes, HelloAnswered, LinkOnly
<1>14. CASE HelloFails
  BY <1>14 DEF HelloFails, HelloAnswered, LinkOnly
<1>15. CASE CalibrationRead
  BY <1>15 DEF CalibrationRead, LinkOnly
<1>16. CASE CockpitCut
  BY <1>16 DEF CockpitCut, CockpitKeeps, Rewatch, WatchFor
<1>17. CASE (\E refused \in BOOLEAN : CockpitEnds(refused))
  BY <1>17 DEF CockpitEnds, CockpitKeeps, WatchFor
<1>18. CASE BeginReconnect
  BY <1>18 DEF RunKeeps, Untouched, BeginReconnect, HandBack, Goes
<1>19. CASE ImageRead
  BY <1>19 DEF RunKeeps, Untouched, ImageRead, Goes, Fails, ForgetsHello, Rewatch, WatchFor
<1>20. CASE Take
  BY <1>20 DEF RunKeeps, Untouched, Take, Forgets, Rewatch, WatchFor
<1>21. CASE ListStrays
  BY <1>21 DEF RunKeeps, Untouched, ListStrays, Goes
<1>22. CASE Touch
  BY <1>22 DEF RunKeeps, Untouched, Touch, Goes
<1>23. CASE ManyDrives
  BY <1>23 DEF RunKeeps, Untouched, ManyDrives, Fails, Goes, Rewatch, WatchFor
<1>24. CASE LeftDrive
  BY <1>24 DEF RunKeeps, Untouched, LeftDrive, Fails, Goes, Rewatch, WatchFor
<1>25. CASE DriveFound
  BY <1>25 DEF RunKeeps, Untouched, DriveFound, ItsDrive, Goes, ForgetsHello
<1>26. CASE Write
  BY <1>26 DEF RunKeeps, Untouched, Write, Goes
<1>27. CASE WriteFails
  BY <1>27 DEF RunKeeps, Untouched, WriteFails, Fails, Rewatch, WatchFor
<1>28. CASE NoReconnect
  BY <1>28 DEF RunKeeps, Untouched, NoReconnect, Fails, RetryAfterSilence, Rewatch, WatchFor
<1>29. CASE CheckVersion
  BY <1>29 DEF RunKeeps, Untouched, CheckVersion, Goes, Fails, Rewatch, WatchFor
<1>30. CASE CalibrationSeen
  BY <1>30 DEF RunKeeps, Untouched, CalibrationSeen, Goes, Succeeds, Rewatch, WatchFor, Cleared
<1>31. CASE Restore
  BY <1>31 DEF RunKeeps, Untouched, Restore, Succeeds, Rewatch, WatchFor
<1>32. CASE NoDrive
  BY <1>32 DEF RunKeeps, Untouched, NoDrive, Fails, Rewatch, WatchFor
<1>33. CASE HelloTimeout
  BY <1>33 DEF RunKeeps, Untouched, HelloTimeout, Goes
<1>34. CASE CalibrationTimeout
  BY <1>34 DEF RunKeeps, Untouched, CalibrationTimeout, Succeeds, Rewatch, WatchFor
<1>35. CASE \/ BeginLook \/ LookList
            \/ (\E o \in Others, to \in Free \cup {"away"} : MoveOther(o, to))
            \/ LeavesBoot
  BY <1>35 DEF BeginLook, LookOnly, SetDrives, Present, LookList, MoveOther, boardsOnly, Free,
     LeavesBoot
<1>36. CASE UNCHANGED hostVars
  BY <1>36 DEF hostVars
<1> QED
  BY <1>1, <1>2, <1>3, <1>4, <1>5, <1>6, <1>7, <1>8, <1>9, <1>10, <1>11, <1>12, <1>13, <1>14, <1>15,
     <1>16, <1>17, <1>18, <1>19, <1>20, <1>21, <1>22, <1>23, <1>24, <1>25, <1>26, <1>27, <1>28,
     <1>29, <1>30, <1>31, <1>32, <1>33, <1>34, <1>35, <1>36 DEF HostNext, Moves, Intents, Events,
     RunStep, Timeouts

(* Another board that stood in its drive at the touch is at a drive that    *)
(* was there then, and the drive the run takes for the Gateway's was not.   *)
StoodAtStrays == \A o \in stood : other[o] \in strays
RootIsNoStray == root \notin strays
ListsUnrooted == await = "list" => root = "none"
ManyStoodNone == await = "many" => stood = {}

Apart == StoodAtStrays /\ RootIsNoStray /\ ListsUnrooted /\ ManyStoodNone

LEMMA ApartInit == HostInit => Apart
BY RootsAssumption DEF RootsAssumption, HostInit, OnlyRunsAwait, Apart, StoodAtStrays,
   RootIsNoStray, ListsUnrooted, ManyStoodNone

LEMMA ApartStep ==
    ASSUME HostTypeOK, OnlyRunsAwait, Apart, [HostNext]_hostVars
    PROVE  Apart'
<1>0. BoardsTyped /\ PortTyped /\ DialogTyped /\ FlowTyped /\ at \in 0 .. 3 /\ retryFrom \in 0 .. 3
  BY HostTypeParts DEF CountsTyped
<1> USE <1>0, RootsAssumption, AwaitsFirst
    DEF RootsAssumption, BoardsTyped, PortTyped, DialogTyped, FlowTyped,
        HostAwaits, Snaps, Kinds, boards, portVars, dialog, flowVars, watchVars,
        OnlyRunsAwait, Apart, StoodAtStrays, RootIsNoStray, ListsUnrooted, ManyStoodNone
<1>1. CASE (\E o \in Others, to \in Free \cup {"away"} : MoveOther(o, to))
  BY <1>1 DEF MoveOther, boardsOnly, Free, Mounted
<1>2. CASE Disconnect
  BY <1>2 DEF Disconnect, Forgets, InputsChanged, Dropped, NewFlow, Rewatch, WatchFor
<1>3. CASE (\E k \in Kinds : OpenUpdate(k))
  BY <1>3 DEF OpenUpdate, NewFlow
<1>4. CASE StartUpdate
  BY <1>4 DEF StartUpdate, Runs, ForgetsHello, HostKeeps, Rewatch, WatchFor
<1>5. CASE Retry
  BY <1>5 DEF Retry, Runs, First, ForgetsHello, HostKeeps, Rewatch, WatchFor
<1>6. CASE Close
  BY <1>6 DEF Close, Dropped, NewFlow, GivesBack, HandBack, Rewatch, WatchFor
<1>7. CASE CockpitRun
  BY <1>7 DEF CockpitRun, CockpitKeeps, WatchFor
<1>8. CASE CockpitLeave
  BY <1>8 DEF CockpitLeave, Dropped, NewFlow, Rewatch, WatchFor
<1>9. CASE Restarts
  BY <1>9 DEF Restarts, boardsOnly, Free, Mounted
<1>10. CASE LinkUp
  BY <1>10 DEF LinkUp, Forgets, InputsChanged, Dropped, NewFlow, Rewatch, WatchFor
<1>11. CASE LinkLost
  BY <1>11 DEF LinkLost, Forgets, InputsChanged, Dropped, NewFlow, Rewatch, WatchFor
<1>12. CASE (\E refused \in BOOLEAN : CockpitEnds(refused))
  BY <1>12 DEF CockpitEnds, CockpitKeeps, WatchFor
<1>13. CASE BeginReconnect
  BY <1>13 DEF RunKeeps, Untouched, BeginReconnect, HandBack, Goes
<1>14. CASE ImageRead
  BY <1>14 DEF RunKeeps, Untouched, ImageRead, Goes, Fails, ForgetsHello, Rewatch, WatchFor
<1>15. CASE Take
  BY <1>15 DEF RunKeeps, Untouched, Take, Forgets, Rewatch, WatchFor
<1>16. CASE ListStrays
  BY <1>16 DEF RunKeeps, Untouched, ListStrays, Goes, Mounted
<1>17. CASE ManyDrives
  BY <1>17 DEF RunKeeps, Untouched, ManyDrives, Fails, Goes, Rewatch, WatchFor, Mounted
<1>18. CASE LeftDrive
  BY <1>18 DEF RunKeeps, Untouched, LeftDrive, Fails, Goes, Rewatch, WatchFor
<1>19. CASE DriveFound
  BY <1>19 DEF RunKeeps, Untouched, DriveFound, ItsDrive, Goes, ForgetsHello, Mounted
<1>20. CASE Write
  BY <1>20 DEF RunKeeps, Untouched, Write, Goes
<1>21. CASE WriteFails
  BY <1>21 DEF RunKeeps, Untouched, WriteFails, Fails, Rewatch, WatchFor
<1>22. CASE NoReconnect
  BY <1>22 DEF RunKeeps, Untouched, NoReconnect, Fails, RetryAfterSilence, Rewatch, WatchFor
<1>23. CASE CheckVersion
  BY <1>23 DEF RunKeeps, Untouched, CheckVersion, Goes, Fails, Rewatch, WatchFor
<1>24. CASE CalibrationSeen
  BY <1>24 DEF RunKeeps, Untouched, CalibrationSeen, Goes, Succeeds, Rewatch, WatchFor
<1>25. CASE Restore
  BY <1>25 DEF RunKeeps, Untouched, Restore, Succeeds, Rewatch, WatchFor
<1>26. CASE NoDrive
  BY <1>26 DEF RunKeeps, Untouched, NoDrive, Fails, Rewatch, WatchFor, Mounted
<1>27. CASE CalibrationTimeout
  BY <1>27 DEF RunKeeps, Untouched, CalibrationTimeout, Succeeds, Rewatch, WatchFor
<1>28. CASE \/ BeginLook \/ LookList \/ LeavesBoot \/ HelloFails
            \/ CalibrationRead \/ CockpitCut \/ HelloComes \/ HelloTimeout
            \/ Connect
            \/ (\E to \in Roots \cup {"port", "away"} : MoveGateway(to))
            \/ Touch
  BY <1>28 DEF BeginLook, LookOnly, SetDrives, Present, LookList, LeavesBoot, HelloFails,
     HelloAnswered, LinkOnly, CalibrationRead, CockpitCut, CockpitKeeps, Rewatch, WatchFor,
     HelloComes, RunKeeps, Untouched, HelloTimeout, Goes, Connect, InputsChanged, Dropped, NewFlow,
     MoveGateway, boardsOnly, Touch
<1>29. CASE UNCHANGED hostVars
  BY <1>29 DEF hostVars
<1> QED
  BY <1>1, <1>2, <1>3, <1>4, <1>5, <1>6, <1>7, <1>8, <1>9, <1>10, <1>11, <1>12, <1>13, <1>14, <1>15,
     <1>16, <1>17, <1>18, <1>19, <1>20, <1>21, <1>22, <1>23, <1>24, <1>25, <1>26, <1>27, <1>28,
     <1>29 DEF HostNext, Moves, Intents, Events, RunStep, Timeouts

(* What a run has copied, by what it awaits: nothing without the image, nor *)
(* between the touch and the drive; and a failure after a copy has Retry    *)
(* go on from there.                                                        *)
NoCopyWithoutImage ==
    /\ wrote => imageRead
    /\ await = "image" => ~imageRead
    /\ await \notin {"idle", "cockpit", "image"} => imageRead
NoCopyBeforeDrive ==
    /\ await \in {"list", "touch", "many"} => ~wrote
    /\ await = "drive" /\ at = 0 => ~wrote
CountsAtCopy == await = "count" => at = 1
RetryGoesOn ==
    open = "fail" /\ kind # "cockpit" /\ wrote /\ failure # "wrong-version"
      => retryFrom >= 1

Copied ==
    NoCopyWithoutImage /\ NoCopyBeforeDrive /\ CountsAtCopy /\ RetryGoesOn

LEMMA CopiedInit == HostInit => Copied
BY RootsAssumption DEF RootsAssumption, HostInit, OnlyRunsAwait, Copied, NoCopyWithoutImage,
   NoCopyBeforeDrive, CountsAtCopy, RetryGoesOn

LEMMA CopiedStep ==
    ASSUME HostTypeOK, OnlyRunsAwait, Copied, [HostNext]_hostVars
    PROVE  Copied'
<1>0. BoardsTyped /\ PortTyped /\ DialogTyped /\ FlowTyped /\ at \in 0 .. 3 /\ retryFrom \in 0 .. 3
  BY HostTypeParts DEF CountsTyped
<1> USE <1>0, RootsAssumption, AwaitsFirst
    DEF RootsAssumption, BoardsTyped, PortTyped, DialogTyped, FlowTyped,
        HostAwaits, Snaps, Kinds, boards, portVars, dialog, flowVars, watchVars,
        OnlyRunsAwait, Copied, NoCopyWithoutImage, NoCopyBeforeDrive, CountsAtCopy,
           RetryGoesOn
<1>1. CASE Disconnect
  BY <1>1 DEF Disconnect, Forgets, InputsChanged, Dropped, NewFlow, Rewatch, WatchFor
<1>2. CASE Connect
  BY <1>2 DEF Connect, InputsChanged, Dropped, NewFlow, Rewatch, WatchFor
<1>3. CASE (\E k \in Kinds : OpenUpdate(k))
  <2>1. NoCopyWithoutImage'
    BY <1>3 DEF OpenUpdate, NewFlow
  <2>2. NoCopyBeforeDrive'
    BY <1>3 DEF OpenUpdate, NewFlow
  <2>3. CountsAtCopy'
    BY <1>3 DEF OpenUpdate, NewFlow
  <2>4. RetryGoesOn'
    BY <1>3 DEF OpenUpdate, NewFlow
  <2> QED
    BY <2>1, <2>2, <2>3, <2>4
<1>4. CASE StartUpdate
  BY <1>4 DEF StartUpdate, Runs, ForgetsHello, HostKeeps, Rewatch, WatchFor
<1>5. CASE Retry
  BY <1>5 DEF Retry, Runs, First, ForgetsHello, HostKeeps, Rewatch, WatchFor
<1>6. CASE Close
  <2>1. NoCopyWithoutImage'
    BY <1>6 DEF Close, Dropped, NewFlow, GivesBack, HandBack, Rewatch, WatchFor
  <2>2. NoCopyBeforeDrive'
    BY <1>6 DEF Close, Dropped, NewFlow, GivesBack, HandBack, Rewatch, WatchFor
  <2>3. CountsAtCopy'
    BY <1>6 DEF Close, Dropped, NewFlow, GivesBack, HandBack, Rewatch, WatchFor
  <2>4. RetryGoesOn'
    BY <1>6 DEF Close, Dropped, NewFlow, GivesBack, HandBack, Rewatch, WatchFor
  <2> QED
    BY <2>1, <2>2, <2>3, <2>4
<1>7. CASE CockpitRun
  BY <1>7 DEF CockpitRun, CockpitKeeps, WatchFor
<1>8. CASE CockpitLeave
  BY <1>8 DEF CockpitLeave, Dropped, NewFlow, Rewatch, WatchFor
<1>9. CASE LinkUp
  <2>1. NoCopyWithoutImage'
    BY <1>9 DEF LinkUp, Forgets, InputsChanged, Dropped, NewFlow, Rewatch, WatchFor
  <2>2. NoCopyBeforeDrive'
    BY <1>9 DEF LinkUp, Forgets, InputsChanged, Dropped, NewFlow, Rewatch, WatchFor
  <2>3. CountsAtCopy'
    BY <1>9 DEF LinkUp, Forgets, InputsChanged, Dropped, NewFlow, Rewatch, WatchFor
  <2>4. RetryGoesOn'
    BY <1>9 DEF LinkUp, Forgets, InputsChanged, Dropped, NewFlow, Rewatch, WatchFor
  <2> QED
    BY <2>1, <2>2, <2>3, <2>4
<1>10. CASE LinkLost
  BY <1>10 DEF LinkLost, Forgets, InputsChanged, Dropped, NewFlow, Rewatch, WatchFor
<1>11. CASE HelloComes
  BY <1>11 DEF HelloComes, HelloAnswered, LinkOnly
<1>12. CASE (\E refused \in BOOLEAN : CockpitEnds(refused))
  BY <1>12 DEF CockpitEnds, CockpitKeeps, WatchFor
<1>13. CASE BeginReconnect
  BY <1>13 DEF RunKeeps, Untouched, BeginReconnect, HandBack, Goes
<1>14. CASE ImageRead
  BY <1>14 DEF RunKeeps, Untouched, ImageRead, Goes, Fails, ForgetsHello, Rewatch, WatchFor
<1>15. CASE Take
  BY <1>15 DEF RunKeeps, Untouched, Take, Forgets, Rewatch, WatchFor
<1>16. CASE ListStrays
  BY <1>16 DEF RunKeeps, Untouched, ListStrays, Goes
<1>17. CASE Touch
  BY <1>17 DEF RunKeeps, Untouched, Touch, Goes
<1>18. CASE ManyDrives
  BY <1>18 DEF RunKeeps, Untouched, ManyDrives, Fails, Goes, Rewatch, WatchFor
<1>19. CASE LeftDrive
  BY <1>19 DEF RunKeeps, Untouched, LeftDrive, Fails, Goes, Rewatch, WatchFor
<1>20. CASE DriveFound
  BY <1>20 DEF RunKeeps, Untouched, DriveFound, ItsDrive, Goes, ForgetsHello
<1>21. CASE Write
  <2>1. NoCopyWithoutImage'
    BY <1>21 DEF RunKeeps, Untouched, Write, Goes
  <2>2. NoCopyBeforeDrive'
    BY <1>21 DEF RunKeeps, Untouched, Write, Goes
  <2>3. CountsAtCopy'
    BY <1>21 DEF RunKeeps, Untouched, Write, Goes
  <2>4. RetryGoesOn'
    BY <1>21 DEF RunKeeps, Untouched, Write, Goes
  <2> QED
    BY <2>1, <2>2, <2>3, <2>4
<1>22. CASE WriteFails
  BY <1>22 DEF RunKeeps, Untouched, WriteFails, Fails, Rewatch, WatchFor
<1>23. CASE NoReconnect
  BY <1>23 DEF RunKeeps, Untouched, NoReconnect, Fails, RetryAfterSilence, Rewatch, WatchFor
<1>24. CASE CheckVersion
  BY <1>24 DEF RunKeeps, Untouched, CheckVersion, Goes, Fails, Rewatch, WatchFor
<1>25. CASE CalibrationSeen
  BY <1>25 DEF RunKeeps, Untouched, CalibrationSeen, Goes, Succeeds, Rewatch, WatchFor
<1>26. CASE Restore
  BY <1>26 DEF RunKeeps, Untouched, Restore, Succeeds, Rewatch, WatchFor
<1>27. CASE NoDrive
  BY <1>27 DEF RunKeeps, Untouched, NoDrive, Fails, Rewatch, WatchFor
<1>28. CASE HelloTimeout
  BY <1>28 DEF RunKeeps, Untouched, HelloTimeout, Goes
<1>29. CASE CalibrationTimeout
  BY <1>29 DEF RunKeeps, Untouched, CalibrationTimeout, Succeeds, Rewatch, WatchFor
<1>30. CASE \/ BeginLook \/ LookList \/ LeavesBoot \/ HelloFails
            \/ CalibrationRead \/ CockpitCut
            \/ (\E to \in Roots \cup {"port", "away"} : MoveGateway(to))
            \/ (\E o \in Others, to \in Free \cup {"away"} : MoveOther(o, to))
            \/ Restarts
  BY <1>30 DEF BeginLook, LookOnly, SetDrives, Present, LookList, LeavesBoot, HelloFails,
     HelloAnswered, LinkOnly, CalibrationRead, CockpitCut, CockpitKeeps, Rewatch, WatchFor,
     MoveGateway, boardsOnly, MoveOther, Free, Restarts
<1>31. CASE UNCHANGED hostVars
  BY <1>31 DEF hostVars
<1> QED
  BY <1>1, <1>2, <1>3, <1>4, <1>5, <1>6, <1>7, <1>8, <1>9, <1>10, <1>11, <1>12, <1>13, <1>14, <1>15,
     <1>16, <1>17, <1>18, <1>19, <1>20, <1>21, <1>22, <1>23, <1>24, <1>25, <1>26, <1>27, <1>28,
     <1>29, <1>30, <1>31 DEF HostNext, Moves, Intents, Events, RunStep, Timeouts

(* What ends the copy either moves no other board, or is the copy itself,   *)
(* onto a drive that none of those that stood at the touch is at.           *)
LEMMA CopyStep ==
    ASSUME HostTypeOK, Apart, [HostNext]_hostVars, await = "write", await' # await
    PROVE  \A o \in stood : other'[o] = other[o]
<1>0. BoardsTyped /\ FlowTyped /\ StoodAtStrays /\ RootIsNoStray
  BY HostTypeParts DEF Apart
<1> USE DEF boards
<1>1. CASE Moves
  BY <1>1 DEF Moves, MoveGateway, MoveOther, Disconnect, boardsOnly, flowVars, InputsChanged
<1>2. CASE Intents
  BY <1>2 DEF Intents, Connect, InputsChanged, Dropped, NewFlow, OpenUpdate, StartUpdate, Runs,
     ForgetsHello, HostKeeps, Retry, First, Close, GivesBack, HandBack, CockpitRun, CockpitKeeps,
     CockpitLeave
<1>3. CASE Events
  BY <1>3 DEF Events, Restarts, boardsOnly, Free, LeavesBoot, BeginLook, LookOnly, SetDrives,
     Present, LookList, LinkUp, Forgets, InputsChanged, Dropped, NewFlow, LinkLost, HelloComes,
     HelloAnswered, LinkOnly, HelloFails, CalibrationRead, CockpitCut, CockpitKeeps, CockpitEnds
<1>4. CASE Write
  <2>1. SUFFICES ASSUME NEW o \in stood PROVE other'[o] = other[o]
    OBVIOUS
  <2>2. other[o] # root
    BY <1>0 DEF StoodAtStrays, RootIsNoStray
  <2>3. \/ UNCHANGED other
        \/ \E p \in Others :
             other[p] = root /\ other' = [other EXCEPT ![p] = "away"]
    BY <1>4 DEF Write
  <2>4. o \in Others /\ other \in [Others -> Roots \cup {"away"}]
    BY <1>0 DEF BoardsTyped
  <2> QED
    BY <2>2, <2>3, <2>4
<1>5. CASE RunStep /\ ~Write
  BY <1>5 DEF RunStep, Timeouts, RunKeeps, Untouched, BeginReconnect, HandBack, Goes, ImageRead,
     Fails, ForgetsHello, Take, Forgets, ListStrays, Touch, ManyDrives, LeftDrive, DriveFound,
     ItsDrive, WriteFails, NoReconnect, RetryAfterSilence, CheckVersion, CalibrationSeen, Succeeds,
     Restore, NoDrive, HelloTimeout, CalibrationTimeout
<1>6. CASE UNCHANGED hostVars
  BY <1>6 DEF hostVars
<1> QED
  BY <1>1, <1>2, <1>3, <1>4, <1>5, <1>6 DEF HostNext

(* A calibration that the update cleared is never passed over: if the board *)
(* held one before and the dialog says nothing, or "restored", it holds it. *)
THEOREM NothingLostSilently == HostSpec => []NoSilentLoss
<1>1. HostSpec => []Known
  BY HostTyping, KnownInit, KnownStep, PTL DEF HostSpec
<1>2. Known => NoSilentLoss
  BY DEF Known
<1> QED
  BY <1>1, <1>2, PTL

(* No board of the same chip that stood in its drive at the touch ever      *)
(* receives the Gateway's firmware, and Retry never restarts a Gateway that *)
(* took the copy, except one that came back with another version.           *)
THEOREM CopiesGoToTheGateway == HostSpec => WritesAreSafe
<1>1. HostSpec => []Known
  BY HostTyping, KnownInit, KnownStep, PTL DEF HostSpec
<1>2. Known => OnlyRunsAwait
  BY DEF Known
<1>3. HostSpec => []Apart
  BY <1>1, <1>2, HostTyping, ApartInit, ApartStep, PTL DEF HostSpec
<1>4. HostSpec => []Copied
  BY <1>1, <1>2, HostTyping, CopiedInit, CopiedStep, PTL DEF HostSpec
<1>5. HostTypeOK /\ Apart /\ [HostNext]_hostVars
        => [await = "write" /\ await' # await
              => \A o \in stood : other'[o] = other[o]]_hostVars
  BY CopyStep
<1>6. Copied
        => (open = "fail" /\ kind # "cockpit" /\ wrote /\ failure # "wrong-version"
              => retryFrom >= 1)
  BY DEF Copied, RetryGoesOn
<1> QED
  BY <1>3, <1>4, <1>5, <1>6, HostTyping, PTL DEF HostSpec, WritesAreSafe

(***************************************************************************)
(* The releases saved on this computer.  What is read is not deleted, what *)
(* is being repaired is read and stays on the list, and a check installs   *)
(* what is newer than everything on it.                                    *)
(***************************************************************************)

\* What the folder's work is at.
JobFits ==
    /\ job.at = "ready" => job = Ready
    /\ job.at # "ready" => queue # <<>>
    /\ job.at \in {"swap", "place", "replace", "back"} => queue[1].kind = "install"
    /\ job.at = "sweeps" => queue[1].kind \in {"scan", "install"}
    /\ job.at # "deletes" => job.going = 0
    /\ job.going = 0 => job.rest = {}

\* A pass that is to come will drop what is beyond those kept.
WillPrune ==
    \/ job.at = "sweeps"
    \/ \E i \in DOMAIN queue : queue[i].kind \in {"retain", "scan"} /\ (i = 1 => job = Ready)
Pending == IF job.at = "deletes" /\ queue[1].kind # "clear" THEN {job.going} \cup job.rest ELSE {}
Pruned == WillPrune \/ BeyondKept(saved, Reading) \subseteq stuck \cup Pending

\* Each pass that is queued is of an update that has let go, and each has one.
RetainsFit ==
    /\ \A i \in DOMAIN queue :
         queue[i].kind = "retain" => update[queue[i].update].at = "lets go"
    /\ \A i \in DOMAIN queue : \A j \in DOMAIN queue :
         /\ queue[i].kind = "retain" /\ queue[j].kind = "retain"
         /\ queue[i].update = queue[j].update
         => i = j

\* A check asks for a version there is.
AsksForOne == check.at \in {"asks", "downloads", "installs"} => check.version \in Versions

Scanning == queue # <<>> /\ queue[1].kind = "scan" /\ job = Ready
\* The scan is the first of what is queued, and the rest waits for it.
ScanIsFirst ==
    /\ ~scanned => queue # <<>> /\ queue[1].kind = "scan"
    /\ \A i \in DOMAIN queue : queue[i].kind = "scan" => i = 1 /\ ~scanned
ScanIsAwaited ==
    ~scanned => /\ \A u \in Updates : update[u].at \in {"idle", "waits"}
                /\ \A v \in Versions : repair[v] = "none"
                /\ check.at \in {"idle", "lists", "waits"}

\* Each install that is queued is its caller's, and each caller has one.
InstallOf(q, i, caller) == q[i].kind = "install" /\ q[i].caller = caller
InstallsFit ==
    /\ \A i \in DOMAIN queue :
         /\ InstallOf(queue, i, "repair") => repair[queue[i].version] = "installs"
         /\ InstallOf(queue, i, "check") => check.at = "installs" /\ check.version = queue[i].version
    /\ \A i \in DOMAIN queue : \A j \in DOMAIN queue : \A c \in {"check", "repair"} :
         InstallOf(queue, i, c) /\ InstallOf(queue, j, c) /\ queue[i].version = queue[j].version
           => i = j
SwapFits == job.at \in {"swap", "replace", "back"} => queue[1].caller = "repair"

\* What is read is not about to be deleted, and is there if it was when it
\* was asked for.
There(v) == IF Scanning THEN OnDisk(v) ELSE v \in saved
Promised(v) == \E u \in Updates : Holds(u) /\ update[u].sure /\ update[u].version = v
HeldFits ==
    /\ Reading \subseteq Versions \ Doomed
    /\ \A v \in Versions : Promised(v) => There(v)

RepairsFit ==
    \A v \in Versions : repair[v] # "none" => v \in saved /\ Joined(v) # {}

\* The job has placed what it installs.
Placed(caller) ==
    /\ job.at \in {"sweeps", "deletes"} /\ queue[1].kind = "install" /\ queue[1].caller = caller
ChecksFit ==
    /\ check.at \in {"asks", "downloads", "installs"} => scanned /\ check.version \in Versions
    /\ check.at \in {"asks", "downloads"} =>
         check.version > check.newest /\ \A v \in saved : v <= check.newest
    /\ check.at = "installs" => check.version \notin saved \/ Placed("check")

OnDiskIsSaved == ~Scanning => \A v \in Versions : OnDisk(v) => v \in saved

ReleasesInv ==
    /\ ScanIsFirst /\ ScanIsAwaited /\ InstallsFit /\ SwapFits /\ HeldFits /\ RepairsFit
    /\ ChecksFit /\ OnDiskIsSaved

\* What was repaired is whole as long as it is read.
RepairedIsGood ==
    /\ \A u \in Updates : ~update[u].moved
    /\ \A u \in Updates : update[u].at = "reads again" =>
         repair[update[u].version] = "none" /\ disk[update[u].version] = "good"
    /\ Placed("repair") => disk[queue[1].version] = "good"

\* A saved version is off its folder only in the hands of its repair.
AsideIsKept ==
    /\ job.at \in {"replace", "back"} => job.aside # "none"
    /\ job.at = "back" => job.failed
    /\ job.at = "place" /\ queue[1].version \in saved => job.failed

\* What the numbers of versions are compared by.
Earlier == {p \in Nat \X Nat : p[1] < p[2]}

LEMMA EarlierIsWellFounded == IsWellFoundedOn(Earlier, Nat)
<1>1. OpToRel(<, Nat) = Earlier
  BY Zenon DEF OpToRel, Earlier
<1> QED
  BY <1>1, NatLessThanWellFounded, Zenon

(* A set of numbers that is not empty has a least one.                      *)
LEMMA LeastNumber ==
    ASSUME NEW S, S \subseteq Nat, S # {}
    PROVE  \E x \in S : \A y \in S : x <= y
<1>1. PICK x \in S : \A y \in S : <<y, x>> \notin Earlier
  BY EarlierIsWellFounded, WFMin
<1>2. \A y \in S : x <= y
  <2> SUFFICES ASSUME NEW y \in S PROVE x <= y
    OBVIOUS
  <2>1. x \in Nat /\ y \in Nat
    OBVIOUS
  <2>2. ~(y < x)
    <3>1. <<y, x>> \in Nat \X Nat /\ <<y, x>>[1] = y /\ <<y, x>>[2] = x
      BY <2>1
    <3> QED
      BY <1>1, <3>1 DEF Earlier
  <2> QED
    BY <2>1, <2>2
<1> QED
  BY <1>2

(* One that is bounded too has a greatest.                                  *)
LEMMA GreatestNumber ==
    ASSUME NEW S, NEW n \in Nat, S \subseteq 0 .. n, S # {}
    PROVE  \E x \in S : \A y \in S : x >= y
<1> DEFINE D == {n - v : v \in S}
<1>1. D \subseteq Nat /\ D # {}
  <2>1. \A v \in S : n - v \in Nat
    OBVIOUS
  <2> QED
    BY <2>1
<1>2. PICK d \in D : \A y \in D : d <= y
  BY <1>1, LeastNumber
<1>3. PICK x \in S : d = n - x
  BY <1>2
<1>4. ASSUME NEW y \in S PROVE x >= y
  <2>1. n - y \in D
    OBVIOUS
  <2>2. n - x <= n - y
    BY <1>2, <1>3, <2>1
  <2>3. x \in 0 .. n /\ y \in 0 .. n
    OBVIOUS
  <2> QED
    BY <2>2, <2>3
<1> QED
  BY <1>4

(* So what a deletion pass takes next is one of those it has left.          *)
LEMMA MinMax ==
    ASSUME NEW S \in SUBSET (0 .. LastRelease), S # {}
    PROVE  /\ Max(S) \in S /\ \A y \in S : Max(S) >= y
           /\ Min(S) \in S
<1>1. LastRelease \in Nat
  BY CountsAssumption DEF CountsAssumption
<1>2. S \subseteq Nat
  BY <1>1
<1>3. \E x \in S : \A y \in S : x >= y
  BY <1>1, GreatestNumber
<1>4. \E x \in S : \A y \in S : x <= y
  BY <1>2, LeastNumber
<1> QED
  BY <1>3, <1>4 DEF Max, Min

(* The newest saved version is no older than any of them.                   *)
LEMMA NewestIs ==
    ASSUME saved \subseteq Versions
    PROVE  Newest \in 0 .. LastRelease /\ \A v \in saved : v <= Newest
<1>1. LastRelease \in Nat
  BY CountsAssumption DEF CountsAssumption
<1>2. saved \cup {0} \in SUBSET (0 .. LastRelease)
  BY <1>1 DEF Versions
<1>3. /\ Max(saved \cup {0}) \in saved \cup {0}
      /\ \A y \in saved \cup {0} : Max(saved \cup {0}) >= y
  BY <1>2, MinMax
<1>4. Newest \in 0 .. LastRelease /\ \A v \in saved : Newest >= v
  BY <1>2, <1>3 DEF Newest
<1> QED
  BY <1>1, <1>4 DEF Versions

JobTypes ==
    [at : {"ready", "swap", "place", "replace", "back", "sweeps", "deletes"},
     aside : Folders, rest : SUBSET Versions, going : 0 .. LastRelease, failed : BOOLEAN]

(* The job between two changes, and that of a pass that starts.             *)
LEMMA ReadyIs ==
    /\ Ready \in JobTypes /\ Ready.at = "ready" /\ Ready.aside = "none"
    /\ Ready.rest = {} /\ Ready.going = 0
    /\ [Ready EXCEPT !.at = "sweeps"] \in JobTypes
    /\ [Ready EXCEPT !.at = "sweeps"].at = "sweeps"
    /\ [Ready EXCEPT !.at = "sweeps"].rest = {} /\ [Ready EXCEPT !.at = "sweeps"].going = 0
<1>1. 0 \in 0 .. LastRelease /\ "none" \in Folders
  BY CountsAssumption DEF CountsAssumption, Folders
<1> QED
  BY <1>1 DEF Ready, JobTypes

(* The next deletion of a pass is one of those it has to do.                *)
LEMMA DeletesIs ==
    ASSUME NEW sort, NEW rest \in SUBSET Versions
    PROVE  LET d == Deletes(sort, rest)
           IN  /\ d \in JobTypes /\ d.at = "deletes" /\ d.rest \subseteq rest
               /\ d.going = 0 => d.rest = {}
               /\ d.going # 0 => d.going \in rest
               /\ sort = "clear" /\ d.going # 0 => d.going \notin Reading
               /\ sort # "clear" => rest \subseteq {d.going} \cup d.rest
<1> DEFINE left == IF sort = "clear" THEN rest \ Reading ELSE rest
           next == IF sort = "clear" THEN Min(left) ELSE Max(left)
           after == {v \in rest \ {next} : sort = "clear" => v > next}
<1>0. 0 \in 0 .. LastRelease /\ LastRelease \in Nat /\ "none" \in Folders
  BY CountsAssumption DEF CountsAssumption, Folders
<1>4. Versions \subseteq 0 .. LastRelease /\ 0 \notin Versions
  BY <1>0 DEF Versions
<1>1. Deletes(sort, rest) = IF left = {} THEN [Ready EXCEPT !.at = "deletes"]
        ELSE [Ready EXCEPT !.at = "deletes", !.going = next, !.rest = after]
  BY DEF Deletes
<1>2. CASE left = {}
  <2>1. Deletes(sort, rest) = [Ready EXCEPT !.at = "deletes"]
    BY <1>1, <1>2
  <2>2. /\ [Ready EXCEPT !.at = "deletes"] \in JobTypes
        /\ [Ready EXCEPT !.at = "deletes"].at = "deletes"
        /\ [Ready EXCEPT !.at = "deletes"].rest = {}
        /\ [Ready EXCEPT !.at = "deletes"].going = 0
    BY <1>0 DEF Ready, JobTypes
  <2>3. sort # "clear" => rest = {}
    BY <1>2
  <2> QED
    BY <2>1, <2>2, <2>3
<1>3. CASE left # {}
  <2>0. left \in SUBSET (0 .. LastRelease)
    BY <1>4
  <2>1. next \in left
    BY <1>3, <2>0, MinMax
  <2>2. next \in Versions /\ next # 0 /\ next \in rest /\ next \in 0 .. LastRelease
    <3>1. next \in rest
      BY <2>1
    <3> QED
      BY <1>4, <3>1
  <2>3. sort = "clear" => next \notin Reading
    BY <2>1
  <2>4. after \subseteq rest /\ (sort # "clear" => rest \subseteq {next} \cup after)
    OBVIOUS
  <2> HIDE DEF left, next, after
  <2>5. Deletes(sort, rest) = [Ready EXCEPT !.at = "deletes", !.going = next, !.rest = after]
    BY <1>1, <1>3
  <2>6. after \in SUBSET Versions
    BY <2>4
  <2>7. LET d == [Ready EXCEPT !.at = "deletes", !.going = next, !.rest = after]
        IN  d \in JobTypes /\ d.at = "deletes" /\ d.rest = after /\ d.going = next
    BY <1>0, <2>2, <2>6 DEF Ready, JobTypes
  <2> QED
    BY <2>2, <2>3, <2>4, <2>5, <2>7
<1> QED
  BY <1>2, <1>3

(* A deletion that did not end leaves nothing that was not there.           *)
LEMMA LeftIs ==
    ASSUME NEW folder \in Folders, NEW left \in LeftOf(folder)
    PROVE  /\ left \in Folders
           /\ left = "none" => folder = "none"
           /\ left \in {"good", "damaged"} => folder \in {"good", "damaged"}
<1>1. CASE folder = "good"
  <2>1. LeftOf(folder) = {"good", "damaged", "junk"}
    BY <1>1 DEF LeftOf
  <2> QED
    BY <1>1, <2>1 DEF Folders
<1>2. CASE folder = "damaged"
  <2>1. LeftOf(folder) = {"damaged", "junk"}
    BY <1>2 DEF LeftOf
  <2> QED
    BY <1>2, <2>1 DEF Folders
<1>3. CASE folder \in {"none", "junk"}
  <2>1. LeftOf(folder) = {folder}
    BY <1>3 DEF LeftOf
  <2> QED
    BY <1>3, <2>1 DEF Folders
<1> QED
  BY <1>1, <1>2, <1>3 DEF Folders

(* A pass is queued for each update that lets go.                           *)
LEMMA RetainsIs ==
    ASSUME NEW set \in SUBSET Updates
    PROVE  /\ Retains(set) \in Seq(Jobs)
           /\ \A i \in DOMAIN Retains(set) :
                Retains(set)[i].kind = "retain" /\ Retains(set)[i].update \in set
           /\ \A i \in DOMAIN Retains(set) : \A j \in DOMAIN Retains(set) :
                Retains(set)[i].update = Retains(set)[j].update => i = j
           /\ set # {} => 1 \in DOMAIN Retains(set)
<1> DEFINE n == Cardinality(set)
           order == SetToSeq(set)
<1>1. IsFiniteSet(set) /\ n \in Nat /\ (n = 0 => set = {})
  BY UpdatesAssumption, FS_Subset, FS_CardinalityType, FS_EmptySet DEF UpdatesAssumption
<1>2. \E f \in [1 .. n -> set] : IsInjective(f)
  <2>1. PICK s : s \in Bijection(1 .. n, set)
    BY <1>1, FS_CardinalityType DEF ExistsBijection
  <2>2. s \in [1 .. n -> set] /\ IsInjective(s)
    BY <2>1 DEF Bijection, Injection, IsInjective
  <2> QED
    BY <2>2
<1>3. order \in [1 .. n -> set] /\ IsInjective(order)
  BY <1>2 DEF SetToSeq
<1> HIDE DEF order, n
<1>4. Retains(set) = [i \in DOMAIN order |-> [kind |-> "retain", update |-> order[i]]]
  BY DEF Retains, order
<1>5. DOMAIN order = 1 .. n /\ \A i \in 1 .. n : order[i] \in Updates /\ order[i] \in set
  BY <1>3
<1>11. \A i \in 1 .. n : \A j \in 1 .. n : order[i] = order[j] => i = j
  BY <1>3, <1>5 DEF IsInjective
<1>6. \A i \in 1 .. n : [kind |-> "retain", update |-> order[i]] \in Jobs
  BY <1>5 DEF Jobs
<1>7. Retains(set) \in [1 .. n -> Jobs]
  BY <1>4, <1>5, <1>6
<1>8. Retains(set) \in Seq(Jobs) /\ DOMAIN Retains(set) = 1 .. n
  BY <1>1, <1>7
<1>9. \A i \in 1 .. n : Retains(set)[i].kind = "retain" /\ Retains(set)[i].update = order[i]
  BY <1>4, <1>5
<1>10. set # {} => 1 \in 1 .. n
  BY <1>1
<1> QED
  BY <1>5, <1>8, <1>9, <1>10, <1>11

(* The queue grows at its end, and loses its first.                         *)
LEMMA GrownQueue ==
    ASSUME NEW q \in Seq(Jobs), NEW r \in Seq(Jobs)
    PROVE  /\ q \o r \in Seq(Jobs) /\ Len(q) \in Nat /\ DOMAIN (q \o r) \subseteq Nat
           /\ DOMAIN q \subseteq DOMAIN (q \o r)
           /\ \A i \in DOMAIN q : (q \o r)[i] = q[i]
           /\ \A i \in DOMAIN (q \o r) : i \in DOMAIN q
                \/ (i - Len(q) \in DOMAIN r /\ (q \o r)[i] = r[i - Len(q)])
           /\ \A j \in DOMAIN r : Len(q) + j \in DOMAIN (q \o r)
                                  /\ Len(q) + j \notin DOMAIN q /\ (q \o r)[Len(q) + j] = r[j]
<1>1. /\ q \o r \in Seq(Jobs) /\ Len(q \o r) = Len(q) + Len(r)
      /\ Len(q) \in Nat /\ Len(r) \in Nat
      /\ DOMAIN q = 1 .. Len(q) /\ DOMAIN r = 1 .. Len(r)
      /\ DOMAIN (q \o r) = 1 .. Len(q) + Len(r)
      /\ \A i \in 1 .. Len(q) : (q \o r)[i] = q[i]
      /\ \A j \in 1 .. Len(r) : (q \o r)[Len(q) + j] = r[j]
  OBVIOUS
<1>2. ASSUME NEW i \in DOMAIN (q \o r), i \notin DOMAIN q
      PROVE  i - Len(q) \in DOMAIN r /\ (q \o r)[i] = r[i - Len(q)]
  <2>1. i - Len(q) \in 1 .. Len(r) /\ Len(q) + (i - Len(q)) = i
    BY <1>1, <1>2
  <2> QED
    BY <1>1, <2>1
<1>3. ASSUME NEW j \in DOMAIN r
      PROVE  Len(q) + j \in DOMAIN (q \o r) /\ Len(q) + j \notin DOMAIN q
  BY <1>1
<1>4. DOMAIN q \subseteq DOMAIN (q \o r) /\ DOMAIN (q \o r) \subseteq Nat
  BY <1>1
<1> QED
  BY <1>1, <1>2, <1>3, <1>4

LEMMA SameIndex ==
    ASSUME NEW i \in Nat, NEW j \in Nat, NEW n \in Nat, i - n = j - n
    PROVE  i = j
OBVIOUS

LEMMA ShrunkQueue ==
    ASSUME NEW q \in Seq(Jobs), q # <<>>
    PROVE  /\ Tail(q) \in Seq(Jobs) /\ Head(q) = q[1] /\ 1 \in DOMAIN q /\ q[1] \in Jobs
           /\ \A i \in DOMAIN Tail(q) : i \in Nat \ {0} /\ i + 1 \in DOMAIN q /\ Tail(q)[i] = q[i + 1]
           /\ \A i \in DOMAIN q : i \in Nat \ {0}
                /\ (i # 1 => i - 1 \in DOMAIN Tail(q) /\ Tail(q)[i - 1] = q[i])
<1>1. /\ Tail(q) \in Seq(Jobs) /\ Len(q) \in Nat \ {0} /\ Len(Tail(q)) = Len(q) - 1
      /\ DOMAIN q = 1 .. Len(q) /\ DOMAIN Tail(q) = 1 .. Len(q) - 1
      /\ \A i \in 1 .. Len(q) - 1 : Tail(q)[i] = q[i + 1]
      /\ Head(q) = q[1] /\ \A i \in 1 .. Len(q) : q[i] \in Jobs
  OBVIOUS
<1>2. ASSUME NEW i \in DOMAIN q, i # 1
      PROVE  i - 1 \in DOMAIN Tail(q) /\ Tail(q)[i - 1] = q[i]
  <2>1. i - 1 \in 1 .. Len(q) - 1 /\ (i - 1) + 1 = i
    BY <1>1, <1>2
  <2> QED
    BY <1>1, <2>1
<1>3. 1 \in 1 .. Len(q) /\ \A i \in 1 .. Len(q) : i \in Nat \ {0}
  BY <1>1
<1>4. ASSUME NEW i \in DOMAIN Tail(q) PROVE i \in Nat \ {0} /\ i + 1 \in DOMAIN q
  BY <1>1
<1> QED
  BY <1>1, <1>2, <1>3, <1>4

UpdateTypes ==
    [at : {"idle", "waits", "reads", "repairs", "reads again", "lets go"},
     version : 0 .. LastRelease, sure : BOOLEAN, moved : BOOLEAN,
     answer : {"none", "ok", "not-cached", "damaged", "failed"}]
CheckTypes ==
    [at : {"idle", "lists", "waits", "asks", "downloads", "installs"},
     version : 0 .. LastRelease, newest : 0 .. LastRelease]
FolderTypes ==
    /\ disk \in [Versions -> Folders] /\ saved \subseteq Versions /\ stuck \subseteq Versions
    /\ queue \in Seq(Jobs) /\ job \in JobTypes /\ faults \in 0 .. MaxFaults
WorkTypes ==
    /\ released \in Versions /\ scanned \in BOOLEAN /\ check \in CheckTypes
    /\ repair \in [Versions -> {"none", "downloads", "installs"}]
    /\ update \in [Updates -> UpdateTypes]

LEMMA TypesAre == ReleasesTypeOK <=> FolderTypes /\ WorkTypes
BY DEF ReleasesTypeOK, FolderTypes, WorkTypes, JobTypes, CheckTypes, UpdateTypes

(* What a change to the folder names, by its kind.                          *)
LEMMA JobKinds ==
    ASSUME NEW j \in Jobs
    PROVE  /\ j.kind \in {"scan", "clear", "retain", "install"}
           /\ j.kind = "retain" => j.update \in Updates
           /\ j.kind = "install" => j.version \in Versions /\ j.caller \in {"check", "repair"}
<1>1. CASE j \in [kind : {"scan", "clear"}]
  BY <1>1
<1>2. CASE j \in [kind : {"retain"}, update : Updates]
  BY <1>2
<1>3. CASE j \in [kind : {"install"}, version : Versions, caller : {"check", "repair"}]
  BY <1>3
<1> QED
  BY <1>1, <1>2, <1>3 DEF Jobs

(* What the constants say of versions and faults.                           *)
LEMMA NumbersAre ==
    /\ LastRelease \in Nat \ {0} /\ Versions \subseteq 0 .. LastRelease /\ 0 \notin Versions
    /\ 0 \in 0 .. LastRelease /\ MaxFaults \in Nat
<1>1. LastRelease \in Nat \ {0} /\ MaxFaults \in Nat
  BY CountsAssumption, FaultsAssumption DEF CountsAssumption, FaultsAssumption
<1> QED
  BY <1>1 DEF Versions

LEMMA NoUpdateIs ==
    /\ NoUpdate \in UpdateTypes /\ NoUpdate.at = "idle" /\ NoUpdate.sure = FALSE
    /\ NoUpdate.moved = FALSE /\ NoUpdate.answer = "none"
BY NumbersAre DEF NoUpdate, UpdateTypes

LEMMA NoCheckIs == NoCheck \in CheckTypes /\ NoCheck.at = "idle"
BY NumbersAre DEF NoCheck, CheckTypes

LEMMA ReleasesTypeInit == ReleasesInit => ReleasesTypeOK
<1> SUFFICES ASSUME ReleasesInit PROVE FolderTypes /\ WorkTypes
  BY TypesAre
<1>1. [kind |-> "scan"] \in Jobs
  BY DEF Jobs
<1>2. queue \in Seq(Jobs)
  BY <1>1 DEF ReleasesInit
<1>3. 0 \in 0 .. MaxFaults
  BY NumbersAre
<1>4. FolderTypes
  BY <1>2, <1>3, ReadyIs DEF ReleasesInit, FolderTypes
<1>5. repair \in [Versions -> {"none", "downloads", "installs"}] /\ update \in [Updates -> UpdateTypes]
  BY NoUpdateIs DEF ReleasesInit
<1> QED
  BY <1>4, <1>5, NoCheckIs DEF ReleasesInit, WorkTypes

(* One more change at the end of the queue.                                 *)
LEMMA AppendIs ==
    ASSUME NEW q \in Seq(Jobs), NEW j \in Jobs
    PROVE  Append(q, j) = q \o <<j>> /\ <<j>> \in Seq(Jobs) /\ DOMAIN <<j>> = {1} /\ <<j>>[1] = j
OBVIOUS

(* A step that queues: what the folder's work is at stays so, and what is   *)
(* read stays read or a pass is queued.                                     *)
Queues(r) == r \in Seq(Jobs) /\ queue' = queue \o r
StillRead == \A u \in Updates : Holds(u) => Holds(u)' /\ update'[u].version = update[u].version

LEMMA QueuesStep ==
    ASSUME FolderTypes, JobFits, Pruned, NEW r, Queues(r),
           job' = job, saved' = saved, stuck' = stuck,
           StillRead \/ (\E j \in DOMAIN r : r[j].kind = "retain")
    PROVE  JobFits' /\ Pruned'
<1>0. queue \in Seq(Jobs) /\ r \in Seq(Jobs) /\ queue' = queue \o r
  BY DEF FolderTypes, Queues
<1>1. queue # <<>> => queue' # <<>> /\ queue'[1] = queue[1] /\ 1 \in DOMAIN queue
  <2> SUFFICES ASSUME queue # <<>> PROVE queue' # <<>> /\ queue'[1] = queue[1] /\ 1 \in DOMAIN queue
    OBVIOUS
  <2>1. 1 \in DOMAIN queue
    BY <1>0, ShrunkQueue
  <2>2. queue'[1] = queue[1] /\ 1 \in DOMAIN queue'
    BY <1>0, <2>1, GrownQueue
  <2> QED
    BY <2>1, <2>2
<1>2. JobFits'
  BY <1>1 DEF JobFits
<1>3. ASSUME WillPrune PROVE WillPrune'
  <2>1. CASE job.at = "sweeps"
    BY <2>1 DEF WillPrune
  <2>2. CASE \E i \in DOMAIN queue : queue[i].kind \in {"retain", "scan"} /\ (i = 1 => job = Ready)
    <3>1. PICK i \in DOMAIN queue : queue[i].kind \in {"retain", "scan"} /\ (i = 1 => job = Ready)
      BY <2>2
    <3>2. i \in DOMAIN queue' /\ queue'[i] = queue[i]
      BY <1>0, GrownQueue
    <3> QED
      BY <3>1, <3>2 DEF WillPrune
  <2> QED
    BY <1>3, <2>1, <2>2 DEF WillPrune
<1>4. ASSUME \E j \in DOMAIN r : r[j].kind = "retain" PROVE WillPrune'
  <2>1. PICK j \in DOMAIN r : r[j].kind = "retain"
    BY <1>4
  <2> DEFINE i == Len(queue) + j
  <2>2. i \in DOMAIN queue' /\ i \notin DOMAIN queue /\ queue'[i] = r[j]
    BY <1>0, GrownQueue
  <2> HIDE DEF i
  <2>3. i = 1 => job' = Ready
    BY <1>1, <2>2 DEF JobFits, FolderTypes, JobTypes
  <2> QED
    BY <2>1, <2>2, <2>3 DEF WillPrune
<1>5. ASSUME StillRead, BeyondKept(saved, Reading) \subseteq stuck \cup Pending
      PROVE  BeyondKept(saved', Reading') \subseteq stuck' \cup Pending'
  <2>1. Reading \subseteq Reading'
    BY <1>5 DEF StillRead, Reading
  <2>2. BeyondKept(saved', Reading') \subseteq BeyondKept(saved, Reading)
    BY <2>1 DEF BeyondKept
  <2>3. Pending' = Pending
    BY <1>1 DEF Pending, JobFits
  <2> QED
    BY <1>5, <2>2, <2>3
<1>6. WillPrune' \/ BeyondKept(saved', Reading') \subseteq stuck' \cup Pending'
  BY <1>3, <1>4, <1>5 DEF Pruned
<1>7. Pruned'
  BY <1>6 DEF Pruned
<1> QED
  BY <1>2, <1>7

---------------------------------------------------------------------------
(* What the steps of an update's image come to.                             *)
MovesTo(u, step) ==
    /\ update' \in [Updates -> UpdateTypes]
    /\ update'[u].at = step /\ update'[u].answer = update[u].answer
    /\ update'[u].version = update[u].version /\ update'[u].sure = update[u].sure
    /\ update'[u].moved = update[u].moved
    /\ \A w \in Updates \ {u} : update'[w] = update[w]
LetGo(set, answer) ==
    /\ update' \in [Updates -> UpdateTypes]
    /\ \A u \in set : /\ update'[u].at = "lets go" /\ update'[u].answer = answer
                      /\ update'[u].version = update[u].version
                      /\ update'[u].sure = update[u].sure /\ update'[u].moved = update[u].moved
    /\ \A w \in Updates \ set : update'[w] = update[w]

AskedFor(u, v) ==
    /\ update[u] = NoUpdate /\ (v \in Doomed => "late" \in Odds)
    /\ update' \in [Updates -> UpdateTypes] /\ update'[u].at = "waits"
    /\ update'[u].version = v /\ update'[u].sure = Here(v) /\ update'[u].moved = FALSE
    /\ update'[u].answer = "none" /\ \A w \in Updates \ {u} : update'[w] = update[w]
    /\ queue' = queue /\ repair' = repair
Matched(u) ==
    /\ update[u].at = "waits" /\ scanned /\ update[u].version \in saved
    /\ MovesTo(u, "reads") /\ queue' = queue /\ repair' = repair
NotCached(u) ==
    /\ update[u].at = "waits" /\ scanned /\ update[u].version \notin saved
    /\ LetGo({u}, "not-cached") /\ Queues(Retains({u})) /\ repair' = repair
Served(u) ==
    /\ update[u].at \in {"reads", "reads again"}
    /\ LetGo({u}, "ok") /\ Queues(Retains({u})) /\ repair' = repair
IsDamaged(u) ==
    /\ update[u].at \in {"reads", "reads again"} /\ FALSE \in Found(u)
    /\ update[u].at = "reads again"
         \/ (update[u].version \notin saved /\ repair[update[u].version] = "none")
    /\ LetGo({u}, "damaged") /\ Queues(Retains({u})) /\ repair' = repair
Mends(u) ==
    /\ update[u].at = "reads" /\ FALSE \in Found(u)
    /\ update[u].version \in saved \/ repair[update[u].version] # "none"
    /\ MovesTo(u, "repairs") /\ queue' = queue
    /\ repair' = [repair EXCEPT ![update[u].version] = IF @ = "none" THEN "downloads" ELSE @]
Downloaded(v) ==
    /\ repair[v] = "downloads" /\ repair' = [repair EXCEPT ![v] = "installs"]
    /\ update' = update
    /\ Queues(<<[kind |-> "install", version |-> v, caller |-> "repair"]>>)
NotDownloaded(v) ==
    /\ repair[v] = "downloads" /\ repair' = [repair EXCEPT ![v] = "none"]
    /\ LetGo(Joined(v), "failed") /\ Queues(Retains(Joined(v)))

ImageFrame ==
    /\ disk' = disk /\ saved' = saved /\ job' = job /\ stuck' = stuck /\ released' = released
    /\ scanned' = scanned /\ check' = check /\ faults' = faults
ImageCases ==
    \/ \E u \in Updates : \/ (\E v \in Versions : AskedFor(u, v)) \/ Matched(u) \/ NotCached(u)
                          \/ Served(u) \/ IsDamaged(u) \/ Mends(u)
    \/ \E v \in Versions : Downloaded(v) \/ NotDownloaded(v)

LEMMA MovesIs ==
    ASSUME update \in [Updates -> UpdateTypes], NEW u \in Updates,
           NEW step \in {"waits", "reads", "repairs", "reads again", "lets go"},
           update' = [update EXCEPT ![u].at = step]
    PROVE  MovesTo(u, step)
<1>1. LET r == [update[u] EXCEPT !.at = step]
      IN  /\ r \in UpdateTypes /\ r.at = step /\ r.answer = update[u].answer
          /\ r.version = update[u].version /\ r.sure = update[u].sure /\ r.moved = update[u].moved
  BY DEF UpdateTypes
<1>2. update'[u] = [update[u] EXCEPT !.at = step] /\ \A w \in Updates \ {u} : update'[w] = update[w]
  OBVIOUS
<1>3. update' \in [Updates -> UpdateTypes]
  BY <1>1
<1> QED
  BY <1>1, <1>2, <1>3 DEF MovesTo

LEMMA LetGoIs ==
    ASSUME update \in [Updates -> UpdateTypes], NEW set \in SUBSET Updates,
           NEW answer \in {"ok", "not-cached", "damaged", "failed"},
           update' = Answered(set, answer)
    PROVE  LetGo(set, answer)
<1>1. ASSUME NEW u \in Updates
      PROVE  LET r == [update[u] EXCEPT !.at = "lets go", !.answer = answer]
             IN  /\ r \in UpdateTypes /\ r.at = "lets go" /\ r.answer = answer
                 /\ r.version = update[u].version /\ r.sure = update[u].sure
                 /\ r.moved = update[u].moved
  BY DEF UpdateTypes
<1>2. update' = [u \in Updates |->
        IF u \in set THEN [update[u] EXCEPT !.at = "lets go", !.answer = answer] ELSE update[u]]
  BY DEF Answered
<1>3. \A u \in Updates : update'[u] \in UpdateTypes
  BY <1>1, <1>2
<1>4. update' \in [Updates -> UpdateTypes]
  BY <1>2, <1>3
<1>5. \A u \in set : update'[u] = [update[u] EXCEPT !.at = "lets go", !.answer = answer]
  BY <1>2
<1>6. \A u \in Updates \ set : update'[u] = update[u]
  BY <1>2
<1>7. ASSUME NEW u \in set
      PROVE  /\ update'[u].at = "lets go" /\ update'[u].answer = answer
             /\ update'[u].version = update[u].version
             /\ update'[u].sure = update[u].sure /\ update'[u].moved = update[u].moved
  <2>1. u \in Updates
    OBVIOUS
  <2> QED
    BY <1>1, <1>5, <2>1
<1> QED
  BY <1>4, <1>6, <1>7 DEF LetGo

LEMMA LetsGoIs ==
    ASSUME update \in [Updates -> UpdateTypes], NEW u \in Updates,
           NEW answer \in {"ok", "not-cached", "damaged", "failed"}, LetsGo(u, answer)
    PROVE  LetGo({u}, answer) /\ Queues(Retains({u})) /\ repair' = repair
<1>1. {u} \in SUBSET Updates
  OBVIOUS
<1>2. /\ update' = Answered({u}, answer) /\ queue' = queue \o Retains({u})
      /\ repair' = repair
  BY DEF LetsGo
<1>3. LetGo({u}, answer)
  BY <1>1, <1>2, LetGoIs
<1>4. Queues(Retains({u}))
  BY <1>1, <1>2, RetainsIs DEF Queues
<1> QED
  BY <1>2, <1>3, <1>4

(* A step of an update's image is one of the cases above.                   *)
LEMMA ImageIs ==
    ASSUME FolderTypes, WorkTypes, Image
    PROVE  ImageFrame /\ ImageCases
<1>0. ImageFrame
  BY DEF Image, ImageFrame
<1>t. update \in [Updates -> UpdateTypes] /\ queue \in Seq(Jobs)
  BY DEF WorkTypes, FolderTypes
<1>1. ASSUME NEW u \in Updates, NEW v \in Versions, Ask(u, v) PROVE AskedFor(u, v)
  <2> DEFINE s == Here(v)
  <2>1. s \in BOOLEAN
    <3>1. OnDisk(v) \in BOOLEAN /\ (v \in saved) \in BOOLEAN
      BY DEF OnDisk
    <3>2. CASE Running("scan") /\ job = Ready
      BY <3>1, <3>2 DEF Here
    <3>3. CASE ~(Running("scan") /\ job = Ready)
      BY <3>1, <3>3 DEF Here
    <3> QED
      BY <3>2, <3>3
  <2>2. /\ update[u] = NoUpdate /\ (v \in Doomed => "late" \in Odds)
        /\ queue' = queue /\ repair' = repair
        /\ update' = [update EXCEPT ![u] = [NoUpdate EXCEPT !.at = "waits", !.version = v, !.sure = s]]
    BY <1>1 DEF Ask
  <2> HIDE DEF s
  <2>3. LET r == [NoUpdate EXCEPT !.at = "waits", !.version = v, !.sure = s]
        IN  /\ r \in UpdateTypes /\ r.at = "waits" /\ r.version = v /\ r.sure = s
            /\ r.moved = FALSE /\ r.answer = "none"
    BY <2>1, NumbersAre DEF NoUpdate, UpdateTypes
  <2>4. update'[u] = [NoUpdate EXCEPT !.at = "waits", !.version = v, !.sure = s]
        /\ \A w \in Updates \ {u} : update'[w] = update[w]
    BY <1>t, <2>2
  <2>5. update' \in [Updates -> UpdateTypes]
    BY <1>t, <2>2, <2>3
  <2> QED
    BY <2>2, <2>3, <2>4, <2>5 DEF AskedFor, s
<1>2. ASSUME NEW u \in Updates, Match(u) PROVE Matched(u) \/ NotCached(u)
  <2>1. CASE update[u].version \in saved
    <3>1. /\ update[u].at = "waits" /\ scanned /\ queue' = queue /\ repair' = repair
          /\ update' = [update EXCEPT ![u].at = "reads"]
      BY <1>2, <2>1 DEF Match
    <3> QED
      BY <1>t, <2>1, <3>1, MovesIs DEF Matched
  <2>2. CASE update[u].version \notin saved
    <3>1. update[u].at = "waits" /\ scanned /\ LetsGo(u, "not-cached")
      BY <1>2, <2>2 DEF Match
    <3> QED
      BY <1>t, <2>2, <3>1, LetsGoIs DEF NotCached
  <2> QED
    BY <2>1, <2>2
<1>3. ASSUME NEW u \in Updates, Read(u) PROVE Served(u) \/ IsDamaged(u) \/ Mends(u)
  <2>0. update[u].at \in {"reads", "reads again"}
    BY <1>3 DEF Read
  <2>1. CASE LetsGo(u, "ok")
    BY <1>t, <2>0, <2>1, LetsGoIs DEF Served
  <2>2. CASE /\ FALSE \in Found(u)
             /\ update[u].at = "reads again"
                  \/ (update[u].version \notin saved /\ repair[update[u].version] = "none")
             /\ LetsGo(u, "damaged")
    BY <1>t, <2>0, <2>2, LetsGoIs DEF IsDamaged
  <2>3. CASE /\ FALSE \in Found(u) /\ update[u].at = "reads"
             /\ update[u].version \in saved \/ repair[update[u].version] # "none"
             /\ update' = [update EXCEPT ![u].at = "repairs"]
             /\ repair' = [repair EXCEPT ![update[u].version] = IF @ = "none" THEN "downloads" ELSE @]
             /\ queue' = queue
    <3>1. MovesTo(u, "repairs")
      BY <1>t, <2>3, MovesIs
    <3> QED
      BY <2>3, <3>1 DEF Mends
  <2>4. PICK found \in Found(u) :
             \/ found /\ LetsGo(u, "ok")
             \/ /\ ~found
                /\ \/ update[u].at = "reads again"
                   \/ update[u].version \notin saved /\ repair[update[u].version] = "none"
                /\ LetsGo(u, "damaged")
             \/ /\ ~found /\ update[u].at = "reads"
                /\ (update[u].version \in saved \/ repair[update[u].version] # "none")
                /\ update' = [update EXCEPT ![u].at = "repairs"]
                /\ repair' = [repair EXCEPT ![update[u].version] = IF @ = "none" THEN "downloads" ELSE @]
                /\ UNCHANGED queue
    BY <1>3 DEF Read
  <2>5. ~found => FALSE \in Found(u)
    <3>1. found \in BOOLEAN
      BY DEF Found
    <3> QED
      BY <3>1
  <2> QED
    BY <2>1, <2>2, <2>3, <2>4, <2>5
<1>4. ASSUME NEW v \in Versions, DownloadsAgain(v) PROVE Downloaded(v) \/ NotDownloaded(v)
  <2>1. CASE /\ repair' = [repair EXCEPT ![v] = "installs"] /\ UNCHANGED update
             /\ queue' = Append(queue, [kind |-> "install", version |-> v, caller |-> "repair"])
    <3> DEFINE j == [kind |-> "install", version |-> v, caller |-> "repair"]
    <3>1. j \in Jobs
      BY DEF Jobs
    <3>2. queue' = Append(queue, j)
      BY <2>1
    <3> HIDE DEF j
    <3>3. Queues(<<j>>)
      BY <1>t, <3>1, <3>2, AppendIs DEF Queues
    <3> QED
      BY <1>4, <2>1, <3>3 DEF DownloadsAgain, Downloaded, j
  <2>2. CASE RepairFails(v) /\ queue' = queue \o Retains(Joined(v))
    <3>1. Joined(v) \in SUBSET Updates
      BY DEF Joined
    <3>2. Queues(Retains(Joined(v)))
      BY <2>2, <3>1, RetainsIs DEF Queues
    <3>3. LetGo(Joined(v), "failed") /\ repair' = [repair EXCEPT ![v] = "none"]
      BY <1>t, <2>2, <3>1, LetGoIs DEF RepairFails
    <3> QED
      BY <1>4, <3>2, <3>3 DEF DownloadsAgain, NotDownloaded
  <2> QED
    BY <1>4, <2>1, <2>2 DEF DownloadsAgain
<1>5. \/ \E u \in Updates : (\E v \in Versions : Ask(u, v)) \/ Match(u) \/ Read(u)
      \/ \E v \in Versions : DownloadsAgain(v)
  BY DEF Image
<1> QED
  BY <1>0, <1>1, <1>2, <1>3, <1>4, <1>5 DEF ImageCases

---------------------------------------------------------------------------
(* A step that queues some passes, each of an update that lets go.          *)
LetOff(r) ==
    /\ \A i \in DOMAIN r : r[i].kind = "retain" =>
         update[r[i].update].at # "lets go" /\ update'[r[i].update].at = "lets go"
    /\ \A i \in DOMAIN r : \A j \in DOMAIN r :
         r[i].kind = "retain" /\ r[j].kind = "retain" /\ r[i].update = r[j].update => i = j
StayOff(q) ==
    \A i \in DOMAIN q : q[i].kind = "retain" => update'[q[i].update].at = "lets go"

LEMMA RetainsFitStep ==
    ASSUME NEW q \in Seq(Jobs), NEW r \in Seq(Jobs), queue' = q \o r, StayOff(q), LetOff(r),
           \A i \in DOMAIN q : q[i].kind = "retain" => update[q[i].update].at = "lets go",
           \A i \in DOMAIN q : \A j \in DOMAIN q :
             q[i].kind = "retain" /\ q[j].kind = "retain" /\ q[i].update = q[j].update => i = j
    PROVE  RetainsFit'
<1> DEFINE n == Len(q)
           all == q \o r
<1>1. /\ \A i \in DOMAIN all : (i \in DOMAIN q /\ all[i] = q[i])
           \/ (i \notin DOMAIN q /\ i - n \in DOMAIN r /\ all[i] = r[i - n])
      /\ n \in Nat /\ DOMAIN all \subseteq Nat
  <2>1. \A i \in DOMAIN q : all[i] = q[i]
    BY GrownQueue
  <2>2. \A i \in DOMAIN all : i \in DOMAIN q \/ (i - n \in DOMAIN r /\ all[i] = r[i - n])
    BY GrownQueue
  <2>3. n \in Nat /\ DOMAIN all \subseteq Nat
    BY GrownQueue
  <2> HIDE DEF all, n
  <2> QED
    BY <2>1, <2>2, <2>3
<1>2. queue' = all
  OBVIOUS
<1> HIDE DEF all, n
<1>3. ASSUME NEW i \in DOMAIN all, all[i].kind = "retain"
      PROVE  update'[all[i].update].at = "lets go"
  <2>1. CASE i \in DOMAIN q /\ all[i] = q[i]
    BY <1>3, <2>1 DEF StayOff
  <2>2. CASE i - n \in DOMAIN r /\ all[i] = r[i - n]
    BY <1>3, <2>2 DEF LetOff
  <2> QED
    BY <1>1, <2>1, <2>2
<1>4. ASSUME NEW i \in DOMAIN all, NEW j \in DOMAIN all, all[i].kind = "retain",
             all[j].kind = "retain", all[i].update = all[j].update
      PROVE  i = j
  <2>1. CASE i \in DOMAIN q /\ all[i] = q[i]
    <3>1. update[all[i].update].at = "lets go"
      BY <1>4, <2>1
    <3>2. CASE j \in DOMAIN q /\ all[j] = q[j]
      BY <1>4, <2>1, <3>2
    <3>3. CASE j - n \in DOMAIN r /\ all[j] = r[j - n]
      <4>1. update[all[j].update].at # "lets go"
        BY <1>4, <3>3 DEF LetOff
      <4> QED
        BY <1>4, <3>1, <4>1
    <3> QED
      BY <1>1, <3>2, <3>3
  <2>2. CASE i - n \in DOMAIN r /\ all[i] = r[i - n]
    <3>1. update[all[i].update].at # "lets go"
      BY <1>4, <2>2 DEF LetOff
    <3>2. CASE j \in DOMAIN q /\ all[j] = q[j]
      <4>1. update[all[j].update].at = "lets go"
        BY <1>4, <3>2
      <4> QED
        BY <1>4, <3>1, <4>1
    <3>3. CASE j - n \in DOMAIN r /\ all[j] = r[j - n]
      <4>1. r[i - n].kind = "retain" /\ r[j - n].kind = "retain"
            /\ r[i - n].update = r[j - n].update
        BY <1>4, <2>2, <3>3
      <4>2. i - n = j - n
        BY <2>2, <3>3, <4>1 DEF LetOff
      <4>3. i \in Nat /\ j \in Nat /\ n \in Nat
        BY <1>1
      <4> QED
        BY <4>2, <4>3, SameIndex
    <3> QED
      BY <1>1, <3>2, <3>3
  <2> QED
    BY <1>1, <2>1, <2>2
<1>5. /\ \A i \in DOMAIN queue' :
           queue'[i].kind = "retain" => update'[queue'[i].update].at = "lets go"
      /\ \A i \in DOMAIN queue' : \A j \in DOMAIN queue' :
           /\ queue'[i].kind = "retain" /\ queue'[j].kind = "retain"
           /\ queue'[i].update = queue'[j].update
           => i = j
  BY <1>2, <1>3, <1>4
<1> QED
  BY <1>5 DEF RetainsFit

(* What a step that queues after some of the queue keeps of its passes.     *)
LEMMA NoRetains ==
    ASSUME NEW r, \A i \in DOMAIN r : r[i].kind # "retain"
    PROVE  LetOff(r)
BY DEF LetOff

LEMMA RetainsLetOff ==
    ASSUME NEW set \in SUBSET Updates, NEW answer, LetGo(set, answer),
           \A u \in set : update[u].at # "lets go"
    PROVE  LetOff(Retains(set))
<1>1. \A i \in DOMAIN Retains(set) :
        Retains(set)[i].kind = "retain" /\ Retains(set)[i].update \in set
  BY RetainsIs
<1>2. \A i \in DOMAIN Retains(set) : \A j \in DOMAIN Retains(set) :
        Retains(set)[i].update = Retains(set)[j].update => i = j
  BY RetainsIs
<1>3. \A u \in set : update[u].at # "lets go" /\ update'[u].at = "lets go"
  BY DEF LetGo
<1> QED
  BY <1>1, <1>2, <1>3 DEF LetOff

(* Who has let go is where it was.                                          *)
StaysLetGo == \A u \in Updates : update[u].at = "lets go" => update'[u].at = "lets go"

LEMMA RetainsFitQueues ==
    ASSUME FolderTypes, RetainsFit, NEW r, Queues(r), StaysLetGo, LetOff(r)
    PROVE  RetainsFit'
<1>1. queue \in Seq(Jobs) /\ r \in Seq(Jobs) /\ queue' = queue \o r
  BY DEF FolderTypes, Queues
<1>2. ASSUME NEW i \in DOMAIN queue, queue[i].kind = "retain"
      PROVE  update'[queue[i].update].at = "lets go"
  <2>1. queue[i] \in Jobs
    BY <1>1
  <2>2. queue[i].update \in Updates
    BY <1>2, <2>1, JobKinds
  <2>3. update[queue[i].update].at = "lets go"
    BY <1>2 DEF RetainsFit
  <2> QED
    BY <2>2, <2>3 DEF StaysLetGo
<1>3. StayOff(queue)
  BY <1>2 DEF StayOff
<1>4. /\ \A i \in DOMAIN queue :
           queue[i].kind = "retain" => update[queue[i].update].at = "lets go"
      /\ \A i \in DOMAIN queue : \A j \in DOMAIN queue :
           queue[i].kind = "retain" /\ queue[j].kind = "retain"
           /\ queue[i].update = queue[j].update => i = j
  BY DEF RetainsFit
<1> QED
  BY <1>1, <1>3, <1>4, RetainsFitStep

(* The first of the queue ends, and r is queued.                            *)
Ends(r) == r \in Seq(Jobs) /\ queue' = Tail(queue) \o r

LEMMA TailIs ==
    ASSUME FolderTypes, RetainsFit, queue # <<>>
    PROVE  /\ Tail(queue) \in Seq(Jobs)
           /\ \A i \in DOMAIN Tail(queue) : Tail(queue)[i].kind = "retain" =>
                /\ update[Tail(queue)[i].update].at = "lets go"
                /\ Tail(queue)[i].update \in Updates
                /\ queue[1].kind = "retain" => Tail(queue)[i].update # queue[1].update
           /\ \A i \in DOMAIN Tail(queue) : \A j \in DOMAIN Tail(queue) :
                Tail(queue)[i].kind = "retain" /\ Tail(queue)[j].kind = "retain"
                /\ Tail(queue)[i].update = Tail(queue)[j].update => i = j
<1>1. queue \in Seq(Jobs)
  BY DEF FolderTypes
<1> DEFINE q == Tail(queue)
<1>2. q \in Seq(Jobs) /\ 1 \in DOMAIN queue
  BY <1>1, ShrunkQueue
<1>3. \A i \in DOMAIN q : i \in Nat \ {0} /\ i + 1 \in DOMAIN queue /\ q[i] = queue[i + 1]
  BY <1>1, ShrunkQueue
<1> HIDE DEF q
<1>4. \A i \in DOMAIN q : i + 1 # 1 /\ queue[i + 1] \in Jobs
  <2> SUFFICES ASSUME NEW i \in DOMAIN q PROVE i + 1 # 1 /\ queue[i + 1] \in Jobs
    OBVIOUS
  <2>1. i \in Nat \ {0} /\ i + 1 \in DOMAIN queue
    BY <1>3
  <2>2. queue[i + 1] \in Jobs
    BY <1>1, <2>1
  <2>3. i + 1 # 1
    BY <2>1
  <2> QED
    BY <2>2, <2>3
<1>5. ASSUME NEW i \in DOMAIN q, q[i].kind = "retain"
      PROVE  /\ update[q[i].update].at = "lets go" /\ q[i].update \in Updates
             /\ queue[1].kind = "retain" => q[i].update # queue[1].update
  <2>1. i + 1 \in DOMAIN queue /\ q[i] = queue[i + 1] /\ i + 1 # 1 /\ queue[i + 1] \in Jobs
    BY <1>3, <1>4
  <2>2. update[q[i].update].at = "lets go"
    BY <1>5, <2>1 DEF RetainsFit
  <2>3. q[i].update \in Updates
    BY <1>5, <2>1, JobKinds
  <2>4. queue[1].kind = "retain" => q[i].update # queue[1].update
    BY <1>2, <1>5, <2>1 DEF RetainsFit
  <2> QED
    BY <2>2, <2>3, <2>4
<1>6. ASSUME NEW i \in DOMAIN q, NEW j \in DOMAIN q, q[i].kind = "retain", q[j].kind = "retain",
             q[i].update = q[j].update
      PROVE  i = j
  <2>1. /\ i + 1 \in DOMAIN queue /\ q[i] = queue[i + 1] /\ i \in Nat
        /\ j + 1 \in DOMAIN queue /\ q[j] = queue[j + 1] /\ j \in Nat
    BY <1>3
  <2>2. i + 1 = j + 1
    BY <1>6, <2>1 DEF RetainsFit
  <2> QED
    BY <2>1, <2>2
<1>7. /\ q \in Seq(Jobs)
      /\ \A i \in DOMAIN q : q[i].kind = "retain" =>
           /\ update[q[i].update].at = "lets go" /\ q[i].update \in Updates
           /\ queue[1].kind = "retain" => q[i].update # queue[1].update
      /\ \A i \in DOMAIN q : \A j \in DOMAIN q :
           q[i].kind = "retain" /\ q[j].kind = "retain" /\ q[i].update = q[j].update => i = j
  BY <1>2, <1>5, <1>6
<1> QED
  BY <1>7 DEF q

(* A queue whose first has ended has one pass for each that let go.         *)
LEMMA RetainsFitEnds ==
    ASSUME FolderTypes, RetainsFit, queue # <<>>, NEW r, Ends(r), LetOff(r),
           \A u \in Updates : update[u].at = "lets go" /\ update'[u].at # "lets go"
             => queue[1].kind = "retain" /\ queue[1].update = u
    PROVE  RetainsFit'
<1>1. r \in Seq(Jobs) /\ queue' = Tail(queue) \o r
  BY DEF Ends
<1> DEFINE q == Tail(queue)
<1>2. /\ q \in Seq(Jobs)
      /\ \A i \in DOMAIN q : q[i].kind = "retain" =>
           /\ update[q[i].update].at = "lets go" /\ q[i].update \in Updates
           /\ queue[1].kind = "retain" => q[i].update # queue[1].update
      /\ \A i \in DOMAIN q : \A j \in DOMAIN q :
           q[i].kind = "retain" /\ q[j].kind = "retain" /\ q[i].update = q[j].update => i = j
  BY TailIs
<1>3. queue' = q \o r
  BY <1>1
<1> HIDE DEF q
<1>4. StayOff(q)
  BY <1>2 DEF StayOff
<1> QED
  BY <1>1, <1>2, <1>3, <1>4, RetainsFitStep

LEMMA ReadyFits ==
    ASSUME job' = Ready
    PROVE  JobFits' /\ Pending' = {}
<1>1. Ready.at = "ready" /\ Ready.going = 0 /\ Ready.rest = {}
  BY ReadyIs
<1>2. job'.at = "ready" /\ job'.going = 0 /\ job'.rest = {}
  BY <1>1
<1>3. JobFits'
  BY <1>2 DEF JobFits
<1>4. Pending' = {}
  BY <1>2 DEF Pending
<1> QED
  BY <1>3, <1>4

(* What is beyond those kept is still stuck or pending once a job ends.     *)
LEMMA PrunedEnds ==
    ASSUME FolderTypes, JobFits, Pruned, queue # <<>>, NEW r, Ends(r),
           job' = Ready, saved' = saved, stuck' = stuck, job.at # "sweeps",
           job # Ready \/ queue[1].kind \notin {"retain", "scan"},
           job.at = "deletes" => job.going = 0,
           StillRead \/ (\E j \in DOMAIN r : r[j].kind = "retain")
    PROVE  JobFits' /\ Pruned'
<1>0. queue \in Seq(Jobs) /\ r \in Seq(Jobs) /\ queue' = Tail(queue) \o r /\ saved \subseteq Versions
  BY DEF FolderTypes, Ends
<1> DEFINE q == Tail(queue)
<1>1. /\ q \in Seq(Jobs) /\ 1 \in DOMAIN queue
      /\ \A i \in DOMAIN queue : i # 1 => i - 1 \in DOMAIN q /\ q[i - 1] = queue[i]
  BY <1>0, ShrunkQueue
<1>2. queue' = q \o r
  BY <1>0
<1> HIDE DEF q
<1>3. ASSUME WillPrune PROVE WillPrune'
  <2>1. PICK i \in DOMAIN queue : queue[i].kind \in {"retain", "scan"} /\ (i = 1 => job = Ready)
    BY <1>3 DEF WillPrune
  <2>2. i # 1
    BY <2>1
  <2>3. i - 1 \in DOMAIN q /\ q[i - 1] = queue[i]
    BY <1>1, <2>2
  <2> DEFINE j == i - 1
  <2>4. j \in DOMAIN q /\ q[j].kind \in {"retain", "scan"}
    BY <2>1, <2>3
  <2> HIDE DEF j
  <2>5. DOMAIN q \subseteq DOMAIN (q \o r) /\ \A k \in DOMAIN q : (q \o r)[k] = q[k]
    BY <1>0, <1>1, GrownQueue
  <2>6. j \in DOMAIN queue' /\ queue'[j] = q[j]
    BY <1>2, <2>4, <2>5
  <2> QED
    BY <2>4, <2>6 DEF WillPrune
<1>4. ASSUME \E j \in DOMAIN r : r[j].kind = "retain" PROVE WillPrune'
  <2>1. PICK j \in DOMAIN r : r[j].kind = "retain"
    BY <1>4
  <2> DEFINE i == Len(q) + j
  <2>2. i \in DOMAIN queue' /\ queue'[i] = r[j]
    BY <1>0, <1>1, <1>2, GrownQueue
  <2> HIDE DEF i
  <2> QED
    BY <2>1, <2>2 DEF WillPrune
<1>5. ASSUME StillRead, BeyondKept(saved, Reading) \subseteq stuck \cup Pending
      PROVE  BeyondKept(saved', Reading') \subseteq stuck'
  <2>1. Reading \subseteq Reading'
    BY <1>5 DEF StillRead, Reading
  <2>2. BeyondKept(saved', Reading') \subseteq BeyondKept(saved, Reading)
    BY <2>1 DEF BeyondKept
  <2>3. Pending \subseteq {0}
    BY DEF Pending, JobFits
  <2>4. 0 \notin BeyondKept(saved', Reading')
    BY <1>0, NumbersAre DEF BeyondKept
  <2> QED
    BY <1>5, <2>2, <2>3, <2>4
<1>6. Pending' = {} /\ JobFits'
  BY ReadyFits
<1>7. WillPrune' \/ BeyondKept(saved', Reading') \subseteq stuck' \cup Pending'
  BY <1>3, <1>4, <1>5, <1>6 DEF Pruned
<1>8. Pruned'
  BY <1>7 DEF Pruned
<1> QED
  BY <1>6, <1>8

---------------------------------------------------------------------------
\* What every step keeps.
PassInv == FolderTypes /\ WorkTypes /\ JobFits /\ RetainsFit /\ AsksForOne /\ Pruned

LEMMA SameQueue ==
    ASSUME FolderTypes, queue' = queue
    PROVE  Queues(<<>>) /\ LetOff(<<>>)
<1>1. queue \in Seq(Jobs)
  BY DEF FolderTypes
<1>2. queue \o <<>> = queue /\ <<>> \in Seq(Jobs)
  BY <1>1
<1>3. DOMAIN <<>> = {}
  OBVIOUS
<1> QED
  BY <1>2, <1>3 DEF Queues, LetOff

LEMMA MovesOn ==
    ASSUME WorkTypes, NEW u \in Updates, NEW step \in {"waits", "reads", "repairs", "reads again"},
           MovesTo(u, step), update[u].at # "lets go"
    PROVE  StillRead /\ StaysLetGo
BY DEF MovesTo, StillRead, StaysLetGo, Holds

LEMMA LetGoOn ==
    ASSUME WorkTypes, NEW set \in SUBSET Updates, NEW answer, LetGo(set, answer)
    PROVE  /\ StaysLetGo
           /\ StillRead \/ (\E j \in DOMAIN Retains(set) : Retains(set)[j].kind = "retain")
<1>1. StaysLetGo
  BY DEF LetGo, StaysLetGo
<1>2. CASE set = {}
  <2>1. \A w \in Updates : update'[w] = update[w]
    BY <1>2 DEF LetGo
  <2> QED
    BY <1>1, <2>1 DEF StillRead, Holds
<1>3. CASE set # {}
  BY <1>1, <1>3, RetainsIs
<1> QED
  BY <1>2, <1>3

LEMMA Unmoved ==
    ASSUME update' = update
    PROVE  StillRead /\ StaysLetGo
BY DEF StillRead, StaysLetGo, Holds

(* The invariant of the passes, through the steps of an image.              *)
LEMMA ImageKeeps ==
    ASSUME PassInv, ImageFrame, ImageCases
    PROVE  PassInv'
<1>0. FolderTypes /\ WorkTypes /\ JobFits /\ RetainsFit /\ AsksForOne /\ Pruned
  BY DEF PassInv
<1>f. /\ disk' = disk /\ saved' = saved /\ job' = job /\ stuck' = stuck /\ released' = released
      /\ scanned' = scanned /\ check' = check /\ faults' = faults
  BY DEF ImageFrame
<1>1. /\ update' \in [Updates -> UpdateTypes]
      /\ repair' \in [Versions -> {"none", "downloads", "installs"}] /\ StaysLetGo
      /\ \E r : /\ Queues(r) /\ LetOff(r)
                /\ StillRead \/ (\E j \in DOMAIN r : r[j].kind = "retain")
  <2>t. /\ update \in [Updates -> UpdateTypes]
        /\ repair \in [Versions -> {"none", "downloads", "installs"}]
    BY <1>0 DEF WorkTypes
  <2>1. ASSUME NEW u \in Updates, NEW answer, LetGo({u}, answer), Queues(Retains({u})),
               update[u].at # "lets go", repair' = repair
        PROVE  <1>1!:
    <3>1. {u} \in SUBSET Updates /\ \A w \in {u} : update[w].at # "lets go"
      BY <2>1
    <3>2. LetOff(Retains({u}))
      BY <2>1, <3>1, RetainsLetOff
    <3>3. StaysLetGo /\ (StillRead \/ \E j \in DOMAIN Retains({u}) : Retains({u})[j].kind = "retain")
      BY <1>0, <2>1, <3>1, LetGoOn
    <3>4. update' \in [Updates -> UpdateTypes]
      BY <2>1 DEF LetGo
    <3> QED
      BY <2>t, <2>1, <3>2, <3>3, <3>4
  <2>2. CASE \E u \in Updates : \E v \in Versions : AskedFor(u, v)
    <3>1. PICK u \in Updates, v \in Versions : AskedFor(u, v)
      BY <2>2
    <3>2. update[u].at = "idle"
      BY <3>1, NoUpdateIs DEF AskedFor
    <3>3. StillRead /\ StaysLetGo
      BY <3>1, <3>2 DEF AskedFor, StillRead, StaysLetGo, Holds
    <3>4. update' \in [Updates -> UpdateTypes] /\ repair' = repair /\ queue' = queue
      BY <3>1 DEF AskedFor
    <3>5. Queues(<<>>) /\ LetOff(<<>>)
      BY <1>0, <3>4, SameQueue
    <3> QED
      BY <2>t, <3>3, <3>4, <3>5
  <2>3. CASE \E u \in Updates : Matched(u) \/ Mends(u)
    <3>1. PICK u \in Updates : Matched(u) \/ Mends(u)
      BY <2>3
    <3>2. /\ queue' = queue
          /\ MovesTo(u, "reads") \/ MovesTo(u, "repairs")
          /\ update[u].at # "lets go"
      BY <3>1 DEF Matched, Mends
    <3>3. StillRead /\ StaysLetGo
      BY <1>0, <3>2, MovesOn
    <3>4. Queues(<<>>) /\ LetOff(<<>>)
      BY <1>0, <3>2, SameQueue
    <3>5. update' \in [Updates -> UpdateTypes]
      BY <3>2 DEF MovesTo
    <3>6. repair' \in [Versions -> {"none", "downloads", "installs"}]
      BY <2>t, <3>1 DEF Matched, Mends
    <3> QED
      BY <3>3, <3>4, <3>5, <3>6
  <2>4. CASE \E u \in Updates : NotCached(u) \/ Served(u) \/ IsDamaged(u)
    <3>1. PICK u \in Updates : NotCached(u) \/ Served(u) \/ IsDamaged(u)
      BY <2>4
    <3>2. /\ Queues(Retains({u})) /\ repair' = repair /\ update[u].at # "lets go"
          /\ \E answer \in {"ok", "not-cached", "damaged"} : LetGo({u}, answer)
      BY <3>1 DEF NotCached, Served, IsDamaged
    <3> QED
      BY <2>1, <3>2
  <2>5. CASE \E v \in Versions : Downloaded(v)
    <3>1. PICK v \in Versions : Downloaded(v)
      BY <2>5
    <3> DEFINE j == [kind |-> "install", version |-> v, caller |-> "repair"]
    <3>2. j.kind # "retain"
      OBVIOUS
    <3>3. update' = update /\ Queues(<<j>>)
      BY <3>1 DEF Downloaded
    <3>4. repair' \in [Versions -> {"none", "downloads", "installs"}]
      BY <2>t, <3>1 DEF Downloaded
    <3> HIDE DEF j
    <3>5. LetOff(<<j>>)
      BY <3>2, NoRetains
    <3>6. StillRead /\ StaysLetGo
      BY <3>3, Unmoved
    <3> QED
      BY <2>t, <3>3, <3>4, <3>5, <3>6
  <2>6. CASE \E v \in Versions : NotDownloaded(v)
    <3>1. PICK v \in Versions : NotDownloaded(v)
      BY <2>6
    <3>2. Joined(v) \in SUBSET Updates /\ \A u \in Joined(v) : update[u].at # "lets go"
      BY DEF Joined
    <3>3. LetGo(Joined(v), "failed") /\ Queues(Retains(Joined(v)))
      BY <3>1 DEF NotDownloaded
    <3>4. repair' \in [Versions -> {"none", "downloads", "installs"}]
      BY <2>t, <3>1 DEF NotDownloaded
    <3>5. LetOff(Retains(Joined(v)))
      BY <3>2, <3>3, RetainsLetOff
    <3>6. StaysLetGo /\ (StillRead \/ \E i \in DOMAIN Retains(Joined(v)) : Retains(Joined(v))[i].kind = "retain")
      BY <1>0, <3>2, <3>3, LetGoOn
    <3>7. update' \in [Updates -> UpdateTypes]
      BY <3>3 DEF LetGo
    <3> QED
      BY <3>3, <3>4, <3>5, <3>6, <3>7
  <2> QED
    BY <2>2, <2>3, <2>4, <2>5, <2>6 DEF ImageCases
<1>2. PICK r : /\ Queues(r) /\ LetOff(r)
               /\ StillRead \/ (\E j \in DOMAIN r : r[j].kind = "retain")
  BY <1>1
<1>3. JobFits' /\ Pruned'
  BY <1>0, <1>f, <1>2, QueuesStep
<1>4. RetainsFit'
  BY <1>0, <1>1, <1>2, RetainsFitQueues
<1>5. queue' \in Seq(Jobs)
  <2>1. queue \in Seq(Jobs) /\ r \in Seq(Jobs) /\ queue' = queue \o r
    BY <1>0, <1>2 DEF FolderTypes, Queues
  <2> QED
    BY <2>1, GrownQueue
<1>6. FolderTypes'
  BY <1>0, <1>f, <1>5 DEF FolderTypes
<1>7. WorkTypes'
  BY <1>0, <1>f, <1>1 DEF WorkTypes
<1>8. AsksForOne'
  BY <1>0, <1>f DEF AsksForOne
<1> QED
  BY <1>3, <1>4, <1>6, <1>7, <1>8 DEF PassInv

(* The candidates of a check are versions.                                  *)
LEMMA ConsidersIs ==
    ASSUME NEW v \in 0 .. LastRelease, NEW newest \in 0 .. LastRelease
    PROVE  LET c == Considers(v, newest)
           IN  /\ c \in CheckTypes /\ c.at \in {"idle", "asks"}
               /\ c.at = "asks" => c.version \in Versions /\ c.version = v
                                   /\ c.newest = newest /\ v > newest
<1>1. CASE v <= newest
  BY <1>1, NoCheckIs DEF Considers
<1>2. CASE ~(v <= newest)
  <2>1. Considers(v, newest) = [at |-> "asks", version |-> v, newest |-> newest]
    BY <1>2 DEF Considers
  <2>2. v \in Versions /\ v > newest
    <3>1. LastRelease \in Nat /\ v \in Nat /\ newest \in Nat /\ v <= LastRelease
      BY NumbersAre
    <3>2. v > newest /\ 1 <= v
      BY <1>2, <3>1
    <3> QED
      BY <3>1, <3>2 DEF Versions
  <2> QED
    BY <2>1, <2>2 DEF CheckTypes
<1> QED
  BY <1>1, <1>2

(* A step that queues at most a job that is no pass, and moves no update.   *)
LEMMA KeepsByQueueing ==
    ASSUME PassInv, NEW r, Queues(r), \A i \in DOMAIN r : r[i].kind # "retain",
           disk' = disk, saved' = saved, job' = job, stuck' = stuck, faults' = faults,
           scanned' = scanned, repair' = repair, update' = update,
           released' \in Versions, check' \in CheckTypes, AsksForOne'
    PROVE  PassInv'
<1>0. FolderTypes /\ WorkTypes /\ JobFits /\ RetainsFit /\ AsksForOne /\ Pruned
  BY DEF PassInv
<1>1. StillRead /\ StaysLetGo
  BY Unmoved
<1>2. LetOff(r)
  BY NoRetains
<1>3. JobFits' /\ Pruned'
  BY <1>0, <1>1, QueuesStep
<1>4. RetainsFit'
  BY <1>0, <1>1, <1>2, RetainsFitQueues
<1>5. queue' \in Seq(Jobs)
  <2>1. queue \in Seq(Jobs) /\ r \in Seq(Jobs) /\ queue' = queue \o r
    BY <1>0 DEF FolderTypes, Queues
  <2> QED
    BY <2>1, GrownQueue
<1>6. FolderTypes'
  BY <1>0, <1>5 DEF FolderTypes
<1>7. WorkTypes'
  BY <1>0 DEF WorkTypes
<1> QED
  BY <1>3, <1>4, <1>6, <1>7 DEF PassInv

LEMMA QueuesOne ==
    ASSUME FolderTypes, NEW j \in Jobs, j.kind # "retain", queue' = Append(queue, j)
    PROVE  Queues(<<j>>) /\ \A i \in DOMAIN <<j>> : <<j>>[i].kind # "retain"
<1>1. queue \in Seq(Jobs)
  BY DEF FolderTypes
<1>2. Append(queue, j) = queue \o <<j>> /\ <<j>> \in Seq(Jobs) /\ DOMAIN <<j>> = {1} /\ <<j>>[1] = j
  BY <1>1, AppendIs
<1> QED
  BY <1>2 DEF Queues

LEMMA QueuesNone ==
    ASSUME FolderTypes, queue' = queue
    PROVE  Queues(<<>>) /\ \A i \in DOMAIN <<>> : <<>>[i].kind # "retain"
<1>1. DOMAIN <<>> = {}
  OBVIOUS
<1> QED
  BY <1>1, SameQueue

\* What a check comes to.
CheckIs ==
    \/ check' = NoCheck /\ check.at \notin {"idle", "installs"}
    \/ check.at = "idle" /\ check' \in CheckTypes /\ check'.at = "lists"
    \/ check.at = "lists" /\ check' \in CheckTypes /\ check'.at = "waits"
    \/ /\ check.at = "waits" /\ scanned /\ check' \in CheckTypes /\ check'.at = "asks"
       /\ check'.version \in Versions /\ check'.newest = Newest /\ check'.version > Newest
    \/ /\ check.at = "asks" /\ check' \in CheckTypes /\ check'.at \in {"asks", "downloads"}
       /\ check'.version \in Versions /\ check'.newest = check.newest
       /\ check'.version = check.version \/ check'.version > check.newest

(* The steps of a check, by where it goes.                                  *)
LEMMA CheckStepsIs ==
    ASSUME PassInv, CheckSteps
    PROVE  /\ disk' = disk /\ saved' = saved /\ job' = job /\ stuck' = stuck /\ faults' = faults
           /\ scanned' = scanned /\ repair' = repair /\ update' = update /\ released' = released
           /\ \/ queue' = queue /\ CheckIs
              \/ /\ check.at = "downloads" /\ check'.at = "installs" /\ check' \in CheckTypes
                 /\ check'.version = check.version
                 /\ queue' = Append(queue, [kind |-> "install", version |-> check.version,
                                            caller |-> "check"])
<1>1. /\ disk' = disk /\ saved' = saved /\ job' = job /\ stuck' = stuck /\ faults' = faults
      /\ scanned' = scanned /\ repair' = repair /\ update' = update /\ released' = released
  BY DEF CheckSteps
<1>t. check \in CheckTypes /\ saved \subseteq Versions /\ released \in Versions
  BY DEF PassInv, WorkTypes, FolderTypes
<1>q. ASSUME NEW step \in {"lists", "waits", "asks", "downloads", "installs"}
      PROVE  LET c == [check EXCEPT !.at = step]
             IN  c \in CheckTypes /\ c.at = step /\ c.version = check.version
                 /\ c.newest = check.newest
  BY <1>t DEF CheckTypes
<1>2. ASSUME CheckNow PROVE CheckIs
  <2>1. LET c == [NoCheck EXCEPT !.at = "lists"] IN c \in CheckTypes /\ c.at = "lists"
    BY NumbersAre DEF NoCheck, CheckTypes
  <2> QED
    BY <1>2, <2>1, NoCheckIs DEF CheckNow, CheckIs
<1>3. ASSUME List PROVE CheckIs
  <2>1. released \in 0 .. LastRelease
    BY <1>t, NumbersAre
  <2>2. check.at = "lists"
        /\ (check' = NoCheck \/ check' = [check EXCEPT !.at = "waits", !.version = released])
    BY <1>3 DEF List
  <2>3. LET c == [check EXCEPT !.at = "waits", !.version = released]
        IN  c \in CheckTypes /\ c.at = "waits"
    BY <1>t, <2>1 DEF CheckTypes
  <2> QED
    BY <2>2, <2>3 DEF CheckIs
<1>4. ASSUME Consider PROVE CheckIs
  <2>1. check.version \in 0 .. LastRelease /\ Newest \in 0 .. LastRelease
    BY <1>t, NewestIs DEF CheckTypes
  <2>2. check.at = "waits" /\ scanned /\ check' = Considers(check.version, Newest)
    BY <1>4 DEF Consider, ScanAwaited
  <2>3. /\ check' \in CheckTypes /\ check'.at \in {"idle", "asks"}
        /\ check'.at = "asks" => check'.version \in Versions /\ check'.version = check.version
                                 /\ check'.newest = Newest /\ check.version > Newest
    BY <2>1, <2>2, ConsidersIs
  <2>4. check'.at = "idle" => check' = NoCheck
    <3>1. Considers(check.version, Newest) = NoCheck \/ Considers(check.version, Newest).at = "asks"
      BY DEF Considers
    <3> QED
      BY <2>2, <3>1
  <2> QED
    BY <2>2, <2>3, <2>4 DEF CheckIs
<1>5. ASSUME Manifest PROVE CheckIs
  <2>0. check.at = "asks"
    BY <1>5 DEF Manifest
  <2>1. check.version \in Versions /\ check.newest \in 0 .. LastRelease
    BY <1>t, <2>0 DEF CheckTypes, PassInv, AsksForOne
  <2>2. check.version - 1 \in 0 .. LastRelease
    BY <2>1, NumbersAre DEF Versions
  <2> DEFINE w == check.version - 1
  <2>3. \/ check' = NoCheck
        \/ check' = Considers(w, check.newest)
        \/ check' = [check EXCEPT !.at = "downloads"]
    BY <1>5 DEF Manifest
  <2>4. w \in 0 .. LastRelease
    BY <2>2
  <2> HIDE DEF w
  <2>5. CASE check' = Considers(w, check.newest)
    <3>1. /\ check' \in CheckTypes /\ check'.at \in {"idle", "asks"}
          /\ check'.at = "asks" => check'.version \in Versions /\ check'.version = w
                                   /\ check'.newest = check.newest /\ w > check.newest
      BY <2>1, <2>4, <2>5, ConsidersIs
    <3>2. check'.at = "idle" => check' = NoCheck
      <4>1. Considers(w, check.newest) = NoCheck \/ Considers(w, check.newest).at = "asks"
        BY DEF Considers
      <4> QED
        BY <2>5, <4>1
    <3> QED
      BY <2>0, <3>1, <3>2 DEF CheckIs
  <2>6. CASE check' = [check EXCEPT !.at = "downloads"]
    BY <1>q, <2>0, <2>1, <2>6 DEF CheckIs
  <2> QED
    BY <2>0, <2>3, <2>5, <2>6 DEF CheckIs
<1>6. ASSUME Download
      PROVE  \/ check' = NoCheck /\ check.at = "downloads" /\ queue' = queue
             \/ /\ check.at = "downloads" /\ check'.at = "installs" /\ check' \in CheckTypes
                /\ check'.version = check.version
                /\ queue' = Append(queue, [kind |-> "install", version |-> check.version,
                                           caller |-> "check"])
  <2>1. \/ check' = NoCheck /\ check.at = "downloads" /\ queue' = queue
        \/ /\ check.at = "downloads" /\ check' = [check EXCEPT !.at = "installs"]
           /\ queue' = Append(queue, [kind |-> "install", version |-> check.version,
                                      caller |-> "check"])
    BY <1>6 DEF Download
  <2> QED
    BY <1>q, <2>1
<1>7. \/ (CheckNow \/ List \/ Consider \/ Manifest) /\ queue' = queue
      \/ Download
  BY DEF CheckSteps
<1>8. CASE (CheckNow \/ List \/ Consider \/ Manifest) /\ queue' = queue
  BY <1>1, <1>2, <1>3, <1>4, <1>5, <1>8
<1>9. CASE Download
  BY <1>1, <1>6, <1>9 DEF CheckIs
<1> QED
  BY <1>7, <1>8, <1>9

(* The same, through the steps of a check.                                  *)
LEMMA CheckKeeps ==
    ASSUME PassInv, CheckSteps
    PROVE  PassInv'
<1>1. /\ disk' = disk /\ saved' = saved /\ job' = job /\ stuck' = stuck /\ faults' = faults
      /\ scanned' = scanned /\ repair' = repair /\ update' = update /\ released' = released
      /\ \/ queue' = queue /\ CheckIs
         \/ /\ check.at = "downloads" /\ check'.at = "installs" /\ check' \in CheckTypes
            /\ check'.version = check.version
            /\ queue' = Append(queue, [kind |-> "install", version |-> check.version,
                                       caller |-> "check"])
  BY CheckStepsIs
<1>t. released \in Versions /\ AsksForOne /\ FolderTypes
  BY DEF PassInv, WorkTypes
<1>2. CASE queue' = queue /\ CheckIs
  <2>1. check' \in CheckTypes /\ AsksForOne'
    BY <1>2, NoCheckIs DEF CheckIs, AsksForOne
  <2>2. Queues(<<>>) /\ \A i \in DOMAIN <<>> : <<>>[i].kind # "retain"
    BY <1>t, <1>2, QueuesNone
  <2> QED
    BY <1>1, <1>t, <2>1, <2>2, KeepsByQueueing
<1>3. CASE /\ check.at = "downloads" /\ check'.at = "installs" /\ check' \in CheckTypes
           /\ check'.version = check.version
           /\ queue' = Append(queue, [kind |-> "install", version |-> check.version,
                                      caller |-> "check"])
  <2>1. check.version \in Versions
    BY <1>t, <1>3 DEF AsksForOne
  <2>2. AsksForOne'
    BY <1>3, <2>1 DEF AsksForOne
  <2> DEFINE j == [kind |-> "install", version |-> check.version, caller |-> "check"]
  <2>3. j \in Jobs /\ j.kind # "retain"
    BY <2>1 DEF Jobs
  <2>4. queue' = Append(queue, j)
    BY <1>3
  <2> HIDE DEF j
  <2>5. Queues(<<j>>) /\ \A i \in DOMAIN <<j>> : <<j>>[i].kind # "retain"
    BY <1>t, <2>3, <2>4, QueuesOne
  <2> QED
    BY <1>1, <1>t, <1>3, <2>2, <2>5, KeepsByQueueing
<1> QED
  BY <1>1, <1>2, <1>3

(* Through Clear.                                                           *)
LEMMA ClearKeeps ==
    ASSUME PassInv, Clear
    PROVE  PassInv'
<1>1. /\ disk' = disk /\ saved' = saved /\ job' = job /\ stuck' = stuck /\ faults' = faults
      /\ scanned' = scanned /\ repair' = repair /\ update' = update /\ released' = released
      /\ check' = check /\ queue' = Append(queue, [kind |-> "clear"])
  BY DEF Clear, workVars
<1>t. released \in Versions /\ check \in CheckTypes /\ AsksForOne /\ FolderTypes
  BY DEF PassInv, WorkTypes
<1>2. AsksForOne'
  BY <1>1, <1>t DEF AsksForOne
<1> DEFINE j == [kind |-> "clear"]
<1>3. j \in Jobs /\ j.kind # "retain" /\ queue' = Append(queue, j)
  BY <1>1 DEF Jobs
<1> HIDE DEF j
<1>4. Queues(<<j>>) /\ \A i \in DOMAIN <<j>> : <<j>>[i].kind # "retain"
  BY <1>t, <1>3, QueuesOne
<1> QED
  BY <1>1, <1>t, <1>2, <1>4, KeepsByQueueing

LEMMA ReleaseKeeps ==
    ASSUME PassInv, Release
    PROVE  PassInv'
<1>1. /\ disk' = disk /\ saved' = saved /\ job' = job /\ stuck' = stuck /\ faults' = faults
      /\ scanned' = scanned /\ repair' = repair /\ update' = update
      /\ check' = check /\ queue' = queue
      /\ released < LastRelease /\ released' = released + 1
  BY DEF Release, cacheVars
<1>t. released \in Versions /\ check \in CheckTypes /\ AsksForOne /\ FolderTypes
  BY DEF PassInv, WorkTypes
<1>2. AsksForOne'
  BY <1>1, <1>t DEF AsksForOne
<1>3. released + 1 \in Versions
  BY <1>1, <1>t, NumbersAre DEF Versions
<1>4. released' \in Versions
  BY <1>1, <1>3
<1>5. Queues(<<>>) /\ \A i \in DOMAIN <<>> : <<>>[i].kind # "retain"
  BY <1>1, <1>t, QueuesNone
<1> QED
  BY <1>1, <1>t, <1>2, <1>4, <1>5, KeepsByQueueing

(* Nothing but the folder is left by a restart, and a pass is to come.      *)
LEMMA RestartKeeps ==
    ASSUME PassInv, Restart
    PROVE  PassInv'
<1>t. /\ disk \in [Versions -> Folders] /\ job \in JobTypes /\ released \in Versions
      /\ faults \in 0 .. MaxFaults
  BY DEF PassInv, FolderTypes, WorkTypes
<1>1. /\ saved' = {} /\ stuck' = {} /\ job' = Ready /\ scanned' = FALSE /\ check' = NoCheck
      /\ queue' = <<[kind |-> "scan"]>> /\ released' = released /\ faults' = faults
      /\ repair' = [v \in Versions |-> "none"] /\ update' = [u \in Updates |-> NoUpdate]
  BY DEF Restart
<1>2. disk' \in [Versions -> Folders]
  <2>1. CASE disk' = disk
    BY <1>t, <2>1
  <2>2. CASE \E left \in LeftOf(disk[job.going]) : disk' = [disk EXCEPT ![job.going] = left]
    <3>1. PICK left \in LeftOf(disk[job.going]) : disk' = [disk EXCEPT ![job.going] = left]
      BY <2>2
    <3>2. CASE job.going \in Versions
      <4>1. disk[job.going] \in Folders
        BY <1>t, <3>2
      <4>2. left \in Folders
        BY <4>1, LeftIs
      <4> QED
        BY <1>t, <3>1, <4>2
    <3>3. CASE job.going \notin Versions
      BY <1>t, <3>1, <3>3
    <3> QED
      BY <3>2, <3>3
  <2> QED
    BY <2>1, <2>2 DEF Restart
<1>3. [kind |-> "scan"] \in Jobs /\ [kind |-> "scan"].kind = "scan"
  BY DEF Jobs
<1> DEFINE j == [kind |-> "scan"]
<1>4. j \in Jobs /\ j.kind = "scan" /\ queue' = <<j>>
  BY <1>1, <1>3
<1> HIDE DEF j
<1>5. <<j>> \in Seq(Jobs) /\ DOMAIN <<j>> = {1} /\ <<j>>[1] = j
  BY <1>4
<1>6. queue' \in Seq(Jobs) /\ DOMAIN queue' = {1} /\ queue'[1] = j
  BY <1>4, <1>5
<1>7. WillPrune'
  BY <1>1, <1>4, <1>6 DEF WillPrune
<1>8. Pruned'
  BY <1>7 DEF Pruned
<1>9. JobFits'
  BY <1>1, ReadyFits
<1>10. RetainsFit'
  BY <1>4, <1>6 DEF RetainsFit
<1>11. AsksForOne'
  BY <1>1, NoCheckIs DEF AsksForOne
<1>12. FolderTypes'
  <2>1. saved' \subseteq Versions /\ stuck' \subseteq Versions
    BY <1>1
  <2> QED
    BY <1>t, <1>1, <1>2, <1>6, <2>1, ReadyIs DEF FolderTypes
<1>13. WorkTypes'
  <2>1. repair' \in [Versions -> {"none", "downloads", "installs"}]
        /\ update' \in [Updates -> UpdateTypes]
    BY <1>1, NoUpdateIs
  <2> QED
    BY <1>t, <1>1, <2>1, NoCheckIs DEF WorkTypes
<1> QED
  BY <1>8, <1>9, <1>10, <1>11, <1>12, <1>13 DEF PassInv

---------------------------------------------------------------------------
LEMMA FaultIs ==
    ASSUME faults \in 0 .. MaxFaults, faults' = faults \/ Fault
    PROVE  faults' \in 0 .. MaxFaults
<1>1. CASE Fault
  <2>1. faults < MaxFaults /\ faults' = faults + 1
    BY <1>1 DEF Fault
  <2>2. faults + 1 \in 0 .. MaxFaults
    BY <2>1, NumbersAre
  <2> QED
    BY <2>1, <2>2
<1> QED
  BY <1>1

(* Of fewer versions, fewer are beyond those kept.                          *)
LEMMA BeyondShrinks ==
    ASSUME NEW S \in SUBSET Versions, NEW T \in SUBSET S, NEW among
    PROVE  BeyondKept(T, among) \subseteq BeyondKept(S, among)
<1> SUFFICES ASSUME NEW v \in BeyondKept(T, among) PROVE v \in BeyondKept(S, among)
  OBVIOUS
<1>1. v \in T \ among /\ Cardinality({w \in T : w > v}) >= Keep
  BY DEF BeyondKept
<1> DEFINE A == {w \in T : w > v}
           B == {w \in S : w > v}
<1>2. IsFiniteSet(B)
  <2>1. IsFiniteSet(Versions)
    BY NumbersAre, FS_Interval DEF Versions
  <2> QED
    BY <2>1, FS_Subset
<1>3. A \subseteq B
  OBVIOUS
<1> HIDE DEF A, B
<1>4. IsFiniteSet(A) /\ Cardinality(A) <= Cardinality(B)
  BY <1>2, <1>3, FS_Subset
<1>5. Cardinality(A) \in Nat /\ Cardinality(B) \in Nat /\ Keep \in Nat
  BY <1>2, <1>4, FS_CardinalityType, CountsAssumption DEF CountsAssumption
<1>6. Cardinality(A) >= Keep
  BY <1>1 DEF A
<1>7. Cardinality(B) >= Keep
  BY <1>4, <1>5, <1>6
<1> USE DEF B
<1> QED
  BY <1>1, <1>7 DEF BeyondKept

(* A step within a job.                                                     *)
LEMMA KeepsWithin ==
    ASSUME PassInv, queue' = queue, check' = check, FolderTypes', WorkTypes', StaysLetGo,
           JobFits', Pruned'
    PROVE  PassInv'
<1>0. FolderTypes /\ WorkTypes /\ JobFits /\ RetainsFit /\ AsksForOne /\ Pruned
  BY DEF PassInv
<1>1. Queues(<<>>) /\ LetOff(<<>>)
  BY <1>0, SameQueue
<1>2. RetainsFit'
  BY <1>0, <1>1, RetainsFitQueues
<1>3. AsksForOne'
  BY <1>0 DEF AsksForOne
<1> QED
  BY <1>2, <1>3 DEF PassInv

LEMMA HeadIs ==
    ASSUME FolderTypes, queue # <<>>
    PROVE  Head(queue) = queue[1] /\ 1 \in DOMAIN queue /\ queue[1] \in Jobs
BY ShrunkQueue DEF FolderTypes

LEMMA SameWork ==
    ASSUME WorkTypes, released' = released, scanned' = scanned, check' = check, repair' = repair,
           update' = update
    PROVE  WorkTypes'
BY DEF WorkTypes

\* A pass starts: what it has to do is what is beyond those kept.
Prunes == job' = Deletes("retain", BeyondKept(saved, Reading)) /\ stuck' = {}

(* How a pass or a Clear starts.                                            *)
LEMMA StartIs ==
    ASSUME PassInv, StartDeleting
    PROVE  /\ disk' = disk /\ saved' = saved /\ queue' = queue /\ scanned' = scanned
           /\ check' = check /\ repair' = repair /\ update' = update /\ faults' = faults
           /\ queue # <<>>
           /\ \/ job = Ready /\ queue[1].kind = "retain" /\ Prunes
              \/ job.at = "sweeps" /\ queue[1].kind \in {"scan", "install"} /\ Prunes
              \/ job = Ready /\ queue[1].kind = "clear" /\ job' = Deletes("clear", saved)
                 /\ stuck' = stuck
<1>1. /\ disk' = disk /\ saved' = saved /\ queue' = queue /\ scanned' = scanned
      /\ check' = check /\ repair' = repair /\ update' = update /\ faults' = faults
  BY DEF StartDeleting
<1>2. FolderTypes /\ JobFits
  BY DEF PassInv
<1>3. CASE job = Ready /\ Running("retain") /\ Prune(saved)
  BY <1>1, <1>2, <1>3, HeadIs DEF Running, Prune, Prunes
<1>4. CASE job.at = "sweeps" /\ Prune(saved)
  BY <1>1, <1>2, <1>4 DEF Prune, Prunes, JobFits
<1>5. CASE job = Ready /\ Running("clear") /\ job' = Deletes("clear", saved) /\ stuck' = stuck
  BY <1>1, <1>2, <1>5, HeadIs DEF Running
<1> QED
  BY <1>1, <1>3, <1>4, <1>5 DEF StartDeleting

(* A pass starts with all that is beyond those kept to delete.              *)
LEMMA StartKeeps ==
    ASSUME PassInv, StartDeleting, released' = released
    PROVE  PassInv'
<1>0. FolderTypes /\ WorkTypes /\ JobFits /\ Pruned
  BY DEF PassInv
<1>1. /\ disk' = disk /\ saved' = saved /\ queue' = queue /\ scanned' = scanned
      /\ check' = check /\ repair' = repair /\ update' = update /\ faults' = faults
      /\ queue # <<>>
      /\ \/ job = Ready /\ queue[1].kind = "retain" /\ Prunes
         \/ job.at = "sweeps" /\ queue[1].kind \in {"scan", "install"} /\ Prunes
         \/ job = Ready /\ queue[1].kind = "clear" /\ job' = Deletes("clear", saved)
            /\ stuck' = stuck
  BY StartIs
<1>t. /\ disk \in [Versions -> Folders] /\ saved \in SUBSET Versions /\ stuck \subseteq Versions
      /\ queue \in Seq(Jobs) /\ faults \in 0 .. MaxFaults
  BY <1>0 DEF FolderTypes
<1>2. StillRead /\ StaysLetGo
  BY <1>1, Unmoved
<1>3. WorkTypes'
  BY <1>0, <1>1, SameWork
<1>r. Reading' = Reading
  BY <1>1 DEF Reading, Holds
<1>4. CASE Prunes /\ queue[1].kind # "clear"
  <2> DEFINE beyond == BeyondKept(saved, Reading)
  <2>1. beyond \in SUBSET Versions
    BY <1>t DEF BeyondKept
  <2>2. job' = Deletes("retain", beyond) /\ stuck' = {}
    BY <1>4 DEF Prunes
  <2>3. BeyondKept(saved', Reading') = beyond
    BY <1>1, <1>r
  <2> HIDE DEF beyond
  <2>4. /\ job' \in JobTypes /\ job'.at = "deletes" /\ (job'.going = 0 => job'.rest = {})
        /\ beyond \subseteq {job'.going} \cup job'.rest
    BY <2>1, <2>2, DeletesIs
  <2>5. FolderTypes'
    BY <1>1, <1>t, <2>2, <2>4 DEF FolderTypes
  <2>6. JobFits'
    BY <1>1, <2>4 DEF JobFits
  <2>7. Pending' = {job'.going} \cup job'.rest
    BY <1>1, <1>4, <2>4 DEF Pending
  <2>8. Pruned'
    BY <2>3, <2>4, <2>7 DEF Pruned
  <2> QED
    BY <1>1, <1>2, <1>3, <2>5, <2>6, <2>8, KeepsWithin
<1>5. CASE job = Ready /\ queue[1].kind = "clear" /\ job' = Deletes("clear", saved) /\ stuck' = stuck
  <2>1. job' \in JobTypes /\ job'.at = "deletes" /\ (job'.going = 0 => job'.rest = {})
    BY <1>5, <1>t, DeletesIs
  <2>2. FolderTypes'
    BY <1>1, <1>t, <1>5, <2>1 DEF FolderTypes
  <2>3. JobFits'
    BY <1>1, <2>1 DEF JobFits
  <2>4. job.at = "ready"
    BY <1>5, ReadyIs
  <2>5. Pending = {} /\ Pending' = {}
    BY <1>1, <1>5, <2>1, <2>4 DEF Pending
  <2>6. WillPrune => WillPrune'
    <3> SUFFICES ASSUME WillPrune PROVE WillPrune'
      OBVIOUS
    <3>1. PICK i \in DOMAIN queue : queue[i].kind \in {"retain", "scan"} /\ (i = 1 => job = Ready)
      BY <2>4 DEF WillPrune
    <3>2. i # 1
      BY <1>5, <3>1
    <3> QED
      BY <1>1, <3>1, <3>2 DEF WillPrune
  <2>7. BeyondKept(saved', Reading') = BeyondKept(saved, Reading)
    BY <1>1, <1>r
  <2>8. Pruned'
    BY <1>0, <1>5, <2>5, <2>6, <2>7 DEF Pruned
  <2> QED
    BY <1>1, <1>2, <1>3, <2>2, <2>3, <2>8, KeepsWithin
<1> QED
  BY <1>1, <1>4, <1>5

(* What the scan makes of the folder.                                       *)
LEMMA ScanIs ==
    ASSUME PassInv, Scan
    PROVE  /\ queue' = queue /\ stuck' = stuck /\ scanned' = scanned /\ check' = check
           /\ repair' = repair /\ update' = update
           /\ job = Ready /\ queue # <<>> /\ queue[1].kind = "scan"
           /\ saved' = {v \in Versions : OnDisk(v)} /\ job' = [Ready EXCEPT !.at = "sweeps"]
           /\ \/ disk' = [v \in Versions |-> IF OnDisk(v) THEN disk[v] ELSE "none"] /\ faults' = faults
              \/ Fault /\ disk' = disk
BY HeadIs DEF PassInv, Scan, Running

(* After the scan a pass is to come.                                        *)
LEMMA ScanKeeps ==
    ASSUME PassInv, Scan, released' = released
    PROVE  PassInv'
<1>0. FolderTypes /\ WorkTypes /\ JobFits /\ Pruned
  BY DEF PassInv
<1>1. /\ queue' = queue /\ stuck' = stuck /\ scanned' = scanned /\ check' = check
      /\ repair' = repair /\ update' = update
      /\ job = Ready /\ queue # <<>> /\ queue[1].kind = "scan"
      /\ saved' = {v \in Versions : OnDisk(v)} /\ job' = [Ready EXCEPT !.at = "sweeps"]
      /\ \/ disk' = [v \in Versions |-> IF OnDisk(v) THEN disk[v] ELSE "none"] /\ faults' = faults
         \/ Fault /\ disk' = disk
  BY ScanIs
<1>t. /\ disk \in [Versions -> Folders] /\ saved \in SUBSET Versions /\ stuck \subseteq Versions
      /\ queue \in Seq(Jobs) /\ faults \in 0 .. MaxFaults
  BY <1>0 DEF FolderTypes
<1>2. StillRead /\ StaysLetGo
  BY <1>1, Unmoved
<1>3. WorkTypes'
  BY <1>0, <1>1, SameWork
<1>4. disk' \in [Versions -> Folders]
  <2>1. CASE disk' = [v \in Versions |-> IF OnDisk(v) THEN disk[v] ELSE "none"]
    <3>1. "none" \in Folders
      BY DEF Folders
    <3> QED
      BY <1>t, <2>1, <3>1
  <2>2. CASE disk' = disk
    BY <1>t, <2>2
  <2> QED
    BY <1>1, <2>1, <2>2
<1>5. job' \in JobTypes /\ job'.at = "sweeps" /\ job'.rest = {} /\ job'.going = 0
  BY <1>1, ReadyIs
<1>6. faults' \in 0 .. MaxFaults
  BY <1>1, <1>t, FaultIs
<1>7. FolderTypes'
  BY <1>1, <1>t, <1>4, <1>5, <1>6 DEF FolderTypes
<1>8. JobFits'
  BY <1>1, <1>5 DEF JobFits
<1>9. WillPrune'
  BY <1>5 DEF WillPrune
<1>10. Pruned'
  BY <1>9 DEF Pruned
<1> QED
  BY <1>1, <1>2, <1>3, <1>7, <1>8, <1>10, KeepsWithin

---------------------------------------------------------------------------
LEMMA DeleteIs ==
    ASSUME PassInv, Delete
    PROVE  /\ queue' = queue /\ scanned' = scanned /\ check' = check
           /\ repair' = repair /\ update' = update
           /\ job.at = "deletes" /\ job.going \in Versions /\ queue # <<>>
           /\ job' = Deletes(queue[1].kind, job.rest)
           /\ \/ /\ disk' = [disk EXCEPT ![job.going] = "none"] /\ saved' = saved \ {job.going}
                 /\ stuck' = stuck /\ faults' = faults
              \/ /\ Fault /\ stuck' = stuck \cup {job.going} /\ saved' = saved
                 /\ \E left \in LeftOf(disk[job.going]) : disk' = [disk EXCEPT ![job.going] = left]
<1>0. FolderTypes /\ JobFits
  BY DEF PassInv
<1>1. /\ queue' = queue /\ scanned' = scanned /\ check' = check
      /\ repair' = repair /\ update' = update
      /\ job.at = "deletes" /\ job.going # 0 /\ job' = Deletes(Head(queue).kind, job.rest)
  BY DEF Delete
<1>2. \/ /\ disk' = [disk EXCEPT ![job.going] = "none"] /\ saved' = saved \ {job.going}
         /\ stuck' = stuck /\ faults' = faults
      \/ /\ Fault /\ stuck' = stuck \cup {job.going} /\ saved' = saved
         /\ \E left \in LeftOf(disk[job.going]) : disk' = [disk EXCEPT ![job.going] = left]
  BY DEF Delete
<1>3. queue # <<>>
  BY <1>0, <1>1 DEF JobFits
<1>4. Head(queue) = queue[1]
  BY <1>0, <1>3, HeadIs
<1>5. job.going \in Versions
  <2>1. job.going \in 0 .. LastRelease
    BY <1>0 DEF FolderTypes, JobTypes
  <2> QED
    BY <1>1, <2>1, NumbersAre DEF Versions
<1> QED
  BY <1>1, <1>2, <1>3, <1>4, <1>5

LEMMA LeftTyped ==
    ASSUME disk \in [Versions -> Folders], NEW v \in Versions, NEW left \in LeftOf(disk[v]),
           disk' = [disk EXCEPT ![v] = left]
    PROVE  disk' \in [Versions -> Folders] /\ disk'[v] = left
           /\ \A w \in Versions \ {v} : disk'[w] = disk[w]
<1>1. left \in Folders
  BY LeftIs
<1> QED
  BY <1>1

(* What a deletion takes is no longer beyond those kept, or is stuck.       *)
LEMMA DeleteKeeps ==
    ASSUME PassInv, Delete, released' = released
    PROVE  PassInv'
<1>0. FolderTypes /\ WorkTypes /\ JobFits /\ Pruned
  BY DEF PassInv
<1>1. /\ queue' = queue /\ scanned' = scanned /\ check' = check
      /\ repair' = repair /\ update' = update
      /\ job.at = "deletes" /\ job.going \in Versions /\ queue # <<>>
      /\ job' = Deletes(queue[1].kind, job.rest)
      /\ \/ /\ disk' = [disk EXCEPT ![job.going] = "none"] /\ saved' = saved \ {job.going}
            /\ stuck' = stuck /\ faults' = faults
         \/ /\ Fault /\ stuck' = stuck \cup {job.going} /\ saved' = saved
            /\ \E left \in LeftOf(disk[job.going]) : disk' = [disk EXCEPT ![job.going] = left]
  BY DeleteIs
<1>t. /\ disk \in [Versions -> Folders] /\ saved \in SUBSET Versions /\ stuck \subseteq Versions
      /\ queue \in Seq(Jobs) /\ faults \in 0 .. MaxFaults /\ job.rest \in SUBSET Versions
  BY <1>0 DEF FolderTypes, JobTypes
<1>2. StillRead /\ StaysLetGo
  BY <1>1, Unmoved
<1>3. WorkTypes'
  BY <1>0, <1>1, SameWork
<1>4. disk' \in [Versions -> Folders]
  <2>1. CASE disk' = [disk EXCEPT ![job.going] = "none"]
    BY <1>t, <2>1 DEF Folders
  <2>2. CASE \E left \in LeftOf(disk[job.going]) : disk' = [disk EXCEPT ![job.going] = left]
    BY <1>1, <1>t, <2>2, LeftTyped
  <2> QED
    BY <1>1, <2>1, <2>2
<1>5. /\ job' \in JobTypes /\ job'.at = "deletes"
      /\ job'.going = 0 => job'.rest = {}
      /\ queue[1].kind # "clear" => job.rest \subseteq {job'.going} \cup job'.rest
  BY <1>1, <1>t, DeletesIs
<1>6. faults' \in 0 .. MaxFaults
  BY <1>1, <1>t, FaultIs
<1>7. FolderTypes'
  <2>1. saved' \subseteq Versions /\ stuck' \subseteq Versions
    BY <1>1, <1>t
  <2> QED
    BY <1>1, <1>t, <1>4, <1>5, <1>6, <2>1 DEF FolderTypes
<1>8. JobFits'
  BY <1>1, <1>5 DEF JobFits
<1>9. WillPrune => WillPrune'
  <2> SUFFICES ASSUME WillPrune PROVE WillPrune'
    OBVIOUS
  <2>1. PICK i \in DOMAIN queue : queue[i].kind \in {"retain", "scan"} /\ (i = 1 => job = Ready)
    BY <1>1 DEF WillPrune
  <2>2. i # 1
    BY <1>1, <2>1, ReadyIs
  <2> QED
    BY <1>1, <2>1, <2>2 DEF WillPrune
<1>r. Reading' = Reading
  BY <1>1 DEF Reading, Holds
<1>10. ASSUME BeyondKept(saved, Reading) \subseteq stuck \cup Pending
       PROVE  BeyondKept(saved', Reading') \subseteq stuck' \cup Pending'
  <2>1. BeyondKept(saved', Reading) \subseteq BeyondKept(saved, Reading)
    <3>1. saved' \in SUBSET saved
      BY <1>1
    <3> DEFINE after == saved'
    <3>2. after \in SUBSET saved
      BY <3>1
    <3> HIDE DEF after
    <3>3. BeyondKept(after, Reading) \subseteq BeyondKept(saved, Reading)
      BY <1>t, <3>2, BeyondShrinks
    <3> QED
      BY <3>3 DEF after
  <2>2. job.going \in saved' => job.going \in stuck'
    BY <1>1
  <2>3. stuck \subseteq stuck'
    BY <1>1
  <2>4. Pending \subseteq {job.going} \cup Pending'
    <3>1. CASE queue[1].kind = "clear"
      BY <3>1 DEF Pending
    <3>2. CASE queue[1].kind # "clear"
      <4>1. Pending = {job.going} \cup job.rest
        BY <1>1, <3>2 DEF Pending
      <4>2. Pending' = {job'.going} \cup job'.rest
        BY <1>1, <1>5, <3>2 DEF Pending
      <4> QED
        BY <1>5, <3>2, <4>1, <4>2
    <3> QED
      BY <3>1, <3>2
  <2>5. BeyondKept(saved', Reading) \subseteq saved'
    BY DEF BeyondKept
  <2>6. BeyondKept(saved', Reading) \subseteq stuck' \cup Pending'
    BY <1>10, <2>1, <2>2, <2>3, <2>4, <2>5
  <2> QED
    BY <1>r, <2>6
<1>11. WillPrune' \/ BeyondKept(saved', Reading') \subseteq stuck' \cup Pending'
  BY <1>0, <1>9, <1>10 DEF Pruned
<1>12. Pruned'
  BY <1>11 DEF Pruned
<1> QED
  BY <1>1, <1>2, <1>3, <1>7, <1>8, <1>12, KeepsWithin

---------------------------------------------------------------------------
(* The end of a pass, by the job it is of.                                  *)
Rejoins(v) ==
    /\ update' \in [Updates -> UpdateTypes]
    /\ \A u \in Joined(v) : /\ update'[u].at = "reads again" /\ update'[u].answer = update[u].answer
                            /\ update'[u].version = update[u].version
                            /\ update'[u].sure = update[u].sure
                            /\ update'[u].moved = update[u].moved
    /\ \A w \in Updates \ Joined(v) : update'[w] = update[w]

EndCases ==
    \/ queue[1].kind \in {"scan", "clear"} /\ repair' = repair /\ update' = update /\ check' = check
    \/ /\ queue[1].kind = "retain" /\ repair' = repair /\ check' = check
       /\ update' = [update EXCEPT ![queue[1].update] = NoUpdate]
    \/ /\ queue[1].kind = "install" /\ queue[1].caller = "check"
       /\ check' = NoCheck /\ repair' = repair /\ update' = update
    \/ /\ queue[1].kind = "install" /\ queue[1].caller = "repair" /\ check' = check
       /\ repair' = [repair EXCEPT ![queue[1].version] = "none"] /\ Rejoins(queue[1].version)

LEMMA EndsWithNone ==
    ASSUME FolderTypes, queue # <<>>, queue' = Tail(queue)
    PROVE  Ends(<<>>) /\ \A i \in DOMAIN <<>> : <<>>[i].kind # "retain"
<1> DEFINE q == Tail(queue)
<1>1. q \in Seq(Jobs)
  BY ShrunkQueue DEF FolderTypes
<1>2. queue' = q
  OBVIOUS
<1> HIDE DEF q
<1>3. q \o <<>> = q /\ <<>> \in Seq(Jobs) /\ DOMAIN <<>> = {}
  BY <1>1
<1>4. queue' = q \o <<>>
  BY <1>2, <1>3
<1> USE DEF q
<1> QED
  BY <1>3, <1>4 DEF Ends

(* The end of a job, by who waited for it.                                  *)
LEMMA EndIs ==
    ASSUME PassInv, EndOfPass
    PROVE  /\ disk' = disk /\ saved' = saved /\ stuck' = stuck /\ faults' = faults
           /\ job.at = "deletes" /\ job.going = 0 /\ queue # <<>> /\ job' = Ready
           /\ queue' = Tail(queue) /\ scanned' = (scanned \/ queue[1].kind = "scan")
           /\ EndCases
<1>0. FolderTypes /\ WorkTypes /\ JobFits
  BY DEF PassInv
<1>1. /\ disk' = disk /\ saved' = saved /\ stuck' = stuck /\ faults' = faults
      /\ job.at = "deletes" /\ job.going = 0 /\ job' = Ready /\ queue' = Tail(queue)
  BY DEF EndOfPass
<1>2. queue # <<>>
  BY <1>0, <1>1 DEF JobFits
<1>3. Head(queue) = queue[1] /\ queue[1] \in Jobs
  BY <1>0, <1>2, HeadIs
<1> DEFINE ended == queue[1]
<1>4. /\ scanned' = (scanned \/ ended.kind = "scan")
      /\ check' = IF Running("install") /\ ended.caller = "check" THEN NoCheck ELSE check
      /\ \/ ended.kind \in {"scan", "clear"} /\ repair' = repair /\ update' = update
         \/ /\ ended.kind = "retain" /\ repair' = repair
            /\ update' = [update EXCEPT ![ended.update] = NoUpdate]
         \/ ended.kind = "install" /\ ended.caller = "check" /\ repair' = repair /\ update' = update
         \/ /\ ended.kind = "install" /\ ended.caller = "repair"
            /\ repair' = [repair EXCEPT ![ended.version] = "none"]
            /\ update' = [u \in Updates |-> IF u \in Joined(ended.version)
                                            THEN [update[u] EXCEPT !.at = "reads again"]
                                            ELSE update[u]]
  BY <1>3 DEF EndOfPass
<1>5. Running("install") <=> ended.kind = "install"
  BY <1>2, <1>3 DEF Running
<1>6. ASSUME NEW v,
             update' = [u \in Updates |-> IF u \in Joined(v)
                                          THEN [update[u] EXCEPT !.at = "reads again"] ELSE update[u]]
      PROVE  Rejoins(v)
  <2>1. ASSUME NEW u \in Updates
        PROVE  LET r == [update[u] EXCEPT !.at = "reads again"]
               IN  /\ r \in UpdateTypes /\ r.at = "reads again" /\ r.answer = update[u].answer
                   /\ r.version = update[u].version /\ r.sure = update[u].sure
                   /\ r.moved = update[u].moved
    BY <1>0 DEF UpdateTypes, WorkTypes
  <2>2. \A u \in Updates : update[u] \in UpdateTypes
    BY <1>0 DEF WorkTypes
  <2>3. \A u \in Updates : update'[u] \in UpdateTypes
    BY <1>6, <2>1, <2>2
  <2>4. update' \in [Updates -> UpdateTypes]
    BY <1>6, <2>3
  <2>5. \A u \in Joined(v) : u \in Updates /\ update'[u] = [update[u] EXCEPT !.at = "reads again"]
    BY <1>6 DEF Joined
  <2>6. \A u \in Updates \ Joined(v) : update'[u] = update[u]
    BY <1>6
  <2>7. ASSUME NEW u \in Joined(v)
        PROVE  /\ update'[u].at = "reads again" /\ update'[u].answer = update[u].answer
               /\ update'[u].version = update[u].version
               /\ update'[u].sure = update[u].sure /\ update'[u].moved = update[u].moved
    BY <2>1, <2>5
  <2> QED
    BY <2>4, <2>6, <2>7 DEF Rejoins
<1>7. EndCases
  BY <1>4, <1>5, <1>6 DEF EndCases
<1> QED
  BY <1>1, <1>2, <1>4, <1>7

(* Through the end of a job.                                                *)
LEMMA EndKeeps ==
    ASSUME PassInv, EndOfPass, released' = released
    PROVE  PassInv'
<1>0. FolderTypes /\ WorkTypes /\ JobFits /\ RetainsFit /\ AsksForOne /\ Pruned
  BY DEF PassInv
<1>1. /\ disk' = disk /\ saved' = saved /\ stuck' = stuck /\ faults' = faults
      /\ job.at = "deletes" /\ job.going = 0 /\ queue # <<>> /\ job' = Ready
      /\ queue' = Tail(queue) /\ scanned' = (scanned \/ queue[1].kind = "scan")
      /\ EndCases
  BY EndIs
<1>t. /\ queue \in Seq(Jobs) /\ queue[1] \in Jobs /\ 1 \in DOMAIN queue
      /\ check \in CheckTypes /\ update \in [Updates -> UpdateTypes]
      /\ repair \in [Versions -> {"none", "downloads", "installs"}]
  BY <1>0, <1>1, HeadIs DEF FolderTypes, WorkTypes
<1>2. /\ update' \in [Updates -> UpdateTypes] /\ StillRead
      /\ \A u \in Updates : update[u].at = "lets go" /\ update'[u].at # "lets go"
           => queue[1].kind = "retain" /\ queue[1].update = u
  <2>1. CASE update' = update
    BY <1>t, <2>1, Unmoved DEF StaysLetGo
  <2>2. CASE queue[1].kind = "retain" /\ update' = [update EXCEPT ![queue[1].update] = NoUpdate]
    <3> DEFINE w == queue[1].update
    <3>1. w \in Updates /\ update[w].at = "lets go"
      BY <1>0, <1>t, <2>2, JobKinds DEF RetainsFit
    <3>2. update' = [update EXCEPT ![w] = NoUpdate]
      BY <2>2
    <3>3. ~Holds(w)
      BY <3>1 DEF Holds
    <3>w. queue[1].update = w
      OBVIOUS
    <3> HIDE DEF w
    <3>4. \A u \in Updates \ {w} : update'[u] = update[u]
      BY <1>t, <3>2
    <3>5. update' \in [Updates -> UpdateTypes]
      BY <1>t, <3>2, NoUpdateIs
    <3>6. StillRead
      BY <3>3, <3>4 DEF StillRead, Holds
    <3> QED
      BY <2>2, <3>4, <3>5, <3>6, <3>w
  <2>3. CASE Rejoins(queue[1].version)
    <3>1. \A u \in Updates : update'[u] = update[u]
            \/ (update[u].at = "repairs" /\ update'[u].at = "reads again"
                /\ update'[u].version = update[u].version)
      BY <2>3 DEF Rejoins, Joined
    <3> QED
      BY <2>3, <3>1 DEF Rejoins, StillRead, Holds
  <2> QED
    BY <1>1, <2>1, <2>2, <2>3 DEF EndCases
<1>3. Ends(<<>>) /\ LetOff(<<>>)
  BY <1>0, <1>1, EndsWithNone, NoRetains
<1>4. job # Ready
  BY <1>1, ReadyIs
<1>5. JobFits' /\ Pruned'
  BY <1>0, <1>1, <1>2, <1>3, <1>4, PrunedEnds
<1>6. RetainsFit'
  BY <1>0, <1>1, <1>2, <1>3, RetainsFitEnds
<1>7. check' = check \/ check' = NoCheck
  BY <1>1 DEF EndCases
<1>8. AsksForOne'
  BY <1>0, <1>7, NoCheckIs DEF AsksForOne
<1>9. repair' \in [Versions -> {"none", "downloads", "installs"}]
  BY <1>1, <1>t DEF EndCases
<1>10. WorkTypes'
  <2>1. scanned' \in BOOLEAN
    BY <1>0, <1>1 DEF WorkTypes
  <2> QED
    BY <1>0, <1>2, <1>7, <1>9, <2>1, NoCheckIs DEF WorkTypes
<1>11. FolderTypes'
  <2>1. queue' \in Seq(Jobs)
    BY <1>t, <1>1, ShrunkQueue
  <2> QED
    BY <1>0, <1>1, <2>1, ReadyIs DEF FolderTypes
<1> QED
  BY <1>5, <1>6, <1>8, <1>10, <1>11 DEF PassInv

---------------------------------------------------------------------------
(* An install that fails, by who waits for it.                              *)
FailCases ==
    \/ /\ queue[1].caller = "check" /\ check' = NoCheck /\ repair' = repair /\ update' = update
       /\ queue' = Tail(queue)
    \/ /\ queue[1].caller = "repair" /\ check' = check
       /\ repair' = [repair EXCEPT ![queue[1].version] = "none"]
       /\ LetGo(Joined(queue[1].version), "failed")
       /\ queue' = Tail(queue) \o Retains(Joined(queue[1].version))

(* An install that fails tells its caller and leaves the list.              *)
LEMMA FailIs ==
    ASSUME PassInv, queue # <<>>, InstallFails
    PROVE  /\ saved' = saved /\ stuck' = stuck /\ scanned' = scanned /\ job' = Ready
           /\ FailCases
<1>0. FolderTypes /\ WorkTypes
  BY DEF PassInv
<1>1. Head(queue) = queue[1]
  BY <1>0, HeadIs
<1> DEFINE v == queue[1].version
<1>2. /\ saved' = saved /\ stuck' = stuck /\ scanned' = scanned /\ job' = Ready
      /\ \/ /\ queue[1].caller = "check" /\ check' = NoCheck
            /\ queue' = Tail(queue) /\ repair' = repair /\ update' = update
         \/ /\ queue[1].caller = "repair" /\ check' = check
            /\ repair' = [repair EXCEPT ![v] = "none"]
            /\ update' = Answered(Joined(v), "failed")
            /\ queue' = Tail(queue) \o Retains(Joined(v))
  BY <1>1 DEF InstallFails, TellsOfFailure, RepairFails
<1>3. ASSUME update' = Answered(Joined(v), "failed") PROVE LetGo(Joined(v), "failed")
  <2>1. Joined(v) \in SUBSET Updates
    BY DEF Joined
  <2>2. update \in [Updates -> UpdateTypes]
    BY <1>0 DEF WorkTypes
  <2> QED
    BY <1>3, <2>1, <2>2, LetGoIs
<1> QED
  BY <1>2, <1>3 DEF FailCases

(* Through an install that fails.                                           *)
LEMMA FailKeeps ==
    ASSUME PassInv, queue # <<>>, queue[1].kind = "install", job.at \notin {"sweeps", "deletes"},
           InstallFails, disk' \in [Versions -> Folders], faults' \in 0 .. MaxFaults,
           released' = released
    PROVE  PassInv'
<1>0. FolderTypes /\ WorkTypes /\ JobFits /\ RetainsFit /\ AsksForOne /\ Pruned
  BY DEF PassInv
<1>1. /\ saved' = saved /\ stuck' = stuck /\ scanned' = scanned /\ job' = Ready
      /\ FailCases
  BY FailIs
<1>t. /\ queue \in Seq(Jobs) /\ check \in CheckTypes /\ update \in [Updates -> UpdateTypes]
      /\ repair \in [Versions -> {"none", "downloads", "installs"}] /\ Tail(queue) \in Seq(Jobs)
  BY <1>0, ShrunkQueue DEF FolderTypes, WorkTypes
<1>2. /\ update' \in [Updates -> UpdateTypes] /\ StaysLetGo
      /\ \E r : /\ Ends(r) /\ LetOff(r)
                /\ StillRead \/ (\E j \in DOMAIN r : r[j].kind = "retain")
  <2>1. CASE update' = update /\ queue' = Tail(queue)
    <3>1. Ends(<<>>) /\ LetOff(<<>>)
      BY <1>0, <2>1, EndsWithNone, NoRetains
    <3> QED
      BY <1>t, <2>1, <3>1, Unmoved
  <2>2. CASE /\ LetGo(Joined(queue[1].version), "failed")
             /\ queue' = Tail(queue) \o Retains(Joined(queue[1].version))
    <3> DEFINE set == Joined(queue[1].version)
    <3>1. set \in SUBSET Updates /\ \A u \in set : update[u].at # "lets go"
      BY DEF Joined
    <3>2. LetGo(set, "failed") /\ queue' = Tail(queue) \o Retains(set)
      BY <2>2
    <3> HIDE DEF set
    <3>3. LetOff(Retains(set))
      BY <3>1, <3>2, RetainsLetOff
    <3>4. StaysLetGo /\ (StillRead \/ \E j \in DOMAIN Retains(set) : Retains(set)[j].kind = "retain")
      BY <1>0, <3>1, <3>2, LetGoOn
    <3>5. update' \in [Updates -> UpdateTypes]
      BY <3>2 DEF LetGo
    <3>6. Ends(Retains(set))
      BY <3>1, <3>2, RetainsIs DEF Ends
    <3> QED
      BY <3>3, <3>4, <3>5, <3>6
  <2> QED
    BY <1>1, <2>1, <2>2 DEF FailCases
<1>3. PICK r : /\ Ends(r) /\ LetOff(r)
               /\ StillRead \/ (\E j \in DOMAIN r : r[j].kind = "retain")
  BY <1>2
<1>5. JobFits' /\ Pruned'
  BY <1>0, <1>1, <1>3, PrunedEnds
<1>6. RetainsFit'
  <2>1. \A u \in Updates : update[u].at = "lets go" /\ update'[u].at # "lets go"
           => queue[1].kind = "retain" /\ queue[1].update = u
    BY <1>2 DEF StaysLetGo
  <2> QED
    BY <1>0, <1>3, <2>1, RetainsFitEnds
<1>7. check' = check \/ check' = NoCheck
  BY <1>1 DEF FailCases
<1>8. AsksForOne'
  BY <1>0, <1>7, NoCheckIs DEF AsksForOne
<1>9. repair' \in [Versions -> {"none", "downloads", "installs"}]
  BY <1>1, <1>t DEF FailCases
<1>10. WorkTypes'
  BY <1>0, <1>1, <1>2, <1>7, <1>9, NoCheckIs DEF WorkTypes
<1>11. FolderTypes'
  <2>1. r \in Seq(Jobs) /\ queue' = Tail(queue) \o r
    BY <1>3 DEF Ends
  <2> DEFINE q == Tail(queue)
  <2>2. q \in Seq(Jobs) /\ queue' = q \o r
    BY <1>t, <2>1
  <2> HIDE DEF q
  <2>3. q \o r \in Seq(Jobs)
    BY <2>1, <2>2, GrownQueue
  <2>4. queue' \in Seq(Jobs)
    BY <2>2, <2>3
  <2> QED
    BY <1>0, <1>1, <2>4, ReadyIs DEF FolderTypes
<1> QED
  BY <1>5, <1>6, <1>8, <1>10, <1>11 DEF PassInv

---------------------------------------------------------------------------
(* The steps of an install.                                                 *)
Same == /\ saved' = saved /\ queue' = queue /\ stuck' = stuck /\ scanned' = scanned
        /\ check' = check /\ repair' = repair
Job == queue[1].version

Unpacked ==
    /\ job = Ready /\ Same /\ update' = update /\ disk' = disk /\ faults' = faults
    /\ job' = [job EXCEPT !.at = IF Job \in saved THEN "swap" ELSE "place"]
SetAside ==
    /\ job.at = "swap" /\ Same /\ faults' = faults
    /\ disk[Job] # "none" /\ disk' = [disk EXCEPT ![Job] = "none"]
    /\ job' = [job EXCEPT !.at = "replace", !.aside = disk[Job]]
    /\ update' = [u \in Updates |->
                    IF "slow" \in Odds /\ update[u].version = Job
                       /\ update[u].at \in {"reads", "reads again"}
                    THEN [update[u] EXCEPT !.moved = TRUE] ELSE update[u]]
GivenUp ==
    /\ job.at = "swap" /\ Same /\ update' = update /\ (faults' = faults \/ Fault)
    /\ disk' = [disk EXCEPT ![Job] = "none"]
    /\ job' = [job EXCEPT !.at = "place", !.failed = disk[Job] # "none"]
InPlace ==
    /\ job.at \in {"place", "replace"} /\ disk[Job] = "none"
    /\ disk' = [disk EXCEPT ![Job] = "good"] /\ saved' = saved \cup {Job}
    /\ job' = [Ready EXCEPT !.at = "sweeps"]
    /\ queue' = queue /\ stuck' = stuck /\ scanned' = scanned /\ check' = check
    /\ repair' = repair /\ update' = update /\ faults' = faults
PutOff ==
    /\ job.at = "replace" /\ Same /\ update' = update /\ disk' = disk /\ (faults' = faults \/ Fault)
    /\ job' = [job EXCEPT !.at = "back", !.failed = TRUE]
FailsHere ==
    /\ InstallFails
    /\ \/ job = Ready /\ disk' = disk /\ faults' = faults
       \/ /\ job.at = "swap" /\ Fault
          /\ \E left \in LeftOf(disk[Job]) : disk' = [disk EXCEPT ![Job] = left]
       \/ /\ job.at = "place" /\ disk' = disk
          /\ disk[Job] = "none" => MayFail
          /\ disk[Job] # "none" => faults' = faults
       \/ /\ job.at = "back"
          /\ \/ disk' = [disk EXCEPT ![Job] = job.aside] /\ faults' = faults
             \/ MayFail /\ disk' = disk

(* A step of an install is one of these.                                    *)
LEMMA InstallIs ==
    ASSUME PassInv, Unpacks \/ MoveAside \/ Place \/ PutBack
    PROVE  /\ queue # <<>> /\ queue[1].kind = "install" /\ Job \in Versions
           /\ Unpacked \/ SetAside \/ GivenUp \/ InPlace \/ PutOff \/ FailsHere
<1>0. FolderTypes /\ JobFits
  BY DEF PassInv
<1>1. queue # <<>> /\ queue[1].kind = "install"
  <2>1. CASE Unpacks
    BY <1>0, <2>1, HeadIs DEF Unpacks, Running
  <2>2. CASE MoveAside \/ Place \/ PutBack
    <3>1. job.at \in {"swap", "place", "replace", "back"}
      BY <2>2 DEF MoveAside, Place, PutBack
    <3> QED
      BY <1>0, <3>1 DEF JobFits
  <2> QED
    BY <2>1, <2>2
<1>2. Head(queue) = queue[1] /\ queue[1] \in Jobs
  BY <1>0, <1>1, HeadIs
<1>3. Head(queue).version = Job /\ Job \in Versions
  BY <1>1, <1>2, JobKinds DEF Job
<1>4. CASE Unpacks
  <2> DEFINE step == IF Job \in saved THEN "swap" ELSE "place"
  <2>1. job = Ready /\ disk' = disk /\ faults' = faults /\ (GoesTo(step) \/ InstallFails)
    BY <1>3, <1>4 DEF Unpacks
  <2>2. CASE GoesTo(step)
    <3> HIDE DEF step
    <3>1. Same /\ update' = update /\ job' = [job EXCEPT !.at = step]
      BY <2>2 DEF GoesTo, Same
    <3> QED
      BY <1>1, <1>3, <2>1, <3>1 DEF Unpacked, step
  <2>3. CASE InstallFails
    BY <1>1, <1>3, <2>1, <2>3 DEF FailsHere
  <2> QED
    BY <2>1, <2>2, <2>3
<1>5. CASE MoveAside
  <2>1. job.at = "swap"
    BY <1>5 DEF MoveAside
  <2>2. CASE /\ disk[Job] # "none" /\ disk' = [disk EXCEPT ![Job] = "none"] /\ UNCHANGED faults
             /\ job' = [job EXCEPT !.at = "replace", !.aside = disk[Job]]
             /\ update' = [u \in Updates |->
                              IF "slow" \in Odds /\ update[u].version = Job
                                 /\ update[u].at \in {"reads", "reads again"}
                              THEN [update[u] EXCEPT !.moved = TRUE] ELSE update[u]]
             /\ UNCHANGED <<saved, queue, stuck, scanned, check, repair>>
    <3>1. Same
      BY <2>2 DEF Same
    <3> QED
      BY <1>1, <1>3, <2>1, <2>2, <3>1 DEF SetAside
  <2>3. CASE /\ IF disk[Job] = "none" THEN UNCHANGED faults ELSE Fault
             /\ disk' = [disk EXCEPT ![Job] = "none"]
             /\ job' = [job EXCEPT !.at = "place", !.failed = disk[Job] # "none"]
             /\ UNCHANGED <<saved, queue, stuck, scanned, check, repair, update>>
    <3>1. Same /\ update' = update
      BY <2>3 DEF Same
    <3>2. faults' = faults \/ Fault
      BY <2>3
    <3> QED
      BY <1>1, <1>3, <2>1, <2>3, <3>1, <3>2 DEF GivenUp
  <2>4. CASE /\ Fault /\ InstallFails
             /\ \E left \in LeftOf(disk[Job]) : disk' = [disk EXCEPT ![Job] = left]
    BY <1>1, <1>3, <2>1, <2>4 DEF FailsHere
  <2>5. \/ <2>2!1
        \/ <2>3!1
        \/ <2>4!1
    BY <1>3, <1>5 DEF MoveAside
  <2> QED
    BY <2>2, <2>3, <2>4, <2>5
<1>6. CASE Place
  <2>1. CASE /\ disk[Job] = "none" /\ disk' = [disk EXCEPT ![Job] = "good"]
             /\ saved' = saved \cup {Job} /\ job' = [Ready EXCEPT !.at = "sweeps"]
             /\ UNCHANGED <<queue, stuck, scanned, check, repair, update, faults>>
             /\ job.at \in {"place", "replace"}
    BY <1>1, <1>3, <2>1 DEF InPlace
  <2>2. CASE /\ IF disk[Job] = "none" THEN MayFail ELSE UNCHANGED faults
             /\ UNCHANGED disk /\ job.at = "replace"
             /\ job' = [job EXCEPT !.at = "back", !.failed = TRUE]
             /\ UNCHANGED <<saved, queue, stuck, scanned, check, repair, update>>
    <3>1. Same /\ update' = update
      BY <2>2 DEF Same
    <3>2. faults' = faults \/ Fault
      BY <2>2 DEF MayFail
    <3> QED
      BY <1>1, <1>3, <2>2, <3>1, <3>2 DEF PutOff
  <2>3. CASE /\ IF disk[Job] = "none" THEN MayFail ELSE UNCHANGED faults
             /\ UNCHANGED disk /\ job.at = "place" /\ InstallFails
    BY <1>1, <1>3, <2>3 DEF FailsHere
  <2>4. job.at \in {"place", "replace"}
    BY <1>6 DEF Place
  <2>5. \/ <2>1!1
        \/ /\ IF disk[Job] = "none" THEN MayFail ELSE UNCHANGED faults
           /\ UNCHANGED disk
           /\ IF job.at = "replace"
              THEN /\ job' = [job EXCEPT !.at = "back", !.failed = TRUE]
                   /\ UNCHANGED <<saved, queue, stuck, scanned, check, repair, update>>
              ELSE InstallFails
    BY <1>3, <1>6 DEF Place
  <2> QED
    BY <2>1, <2>2, <2>3, <2>4, <2>5
<1>7. CASE PutBack
  BY <1>1, <1>3, <1>7 DEF PutBack, ComesBack, FailsHere
<1> QED
  BY <1>1, <1>3, <1>4, <1>5, <1>6, <1>7

(* A step of an install that neither ends nor places it.                    *)
LEMMA KeepsInstall ==
    ASSUME PassInv, queue # <<>>, queue[1].kind = "install", job.at \notin {"sweeps", "deletes"},
           Same, update' \in [Updates -> UpdateTypes], StillRead, StaysLetGo,
           disk' \in [Versions -> Folders], faults' \in 0 .. MaxFaults, released' = released,
           job' \in JobTypes, job'.at \in {"swap", "place", "replace", "back"},
           job'.going = 0, job'.rest = {}
    PROVE  PassInv'
<1>0. FolderTypes /\ WorkTypes /\ JobFits /\ Pruned
  BY DEF PassInv
<1>1. /\ saved' = saved /\ queue' = queue /\ stuck' = stuck /\ scanned' = scanned
      /\ check' = check /\ repair' = repair
  BY DEF Same
<1>2. FolderTypes'
  BY <1>0, <1>1 DEF FolderTypes
<1>3. WorkTypes'
  BY <1>0, <1>1 DEF WorkTypes
<1>4. JobFits'
  BY <1>1 DEF JobFits
<1>5. Pending = {} /\ Pending' = {}
  BY DEF Pending
<1>6. WillPrune => WillPrune'
  <2> SUFFICES ASSUME WillPrune PROVE WillPrune'
    OBVIOUS
  <2>1. PICK i \in DOMAIN queue : queue[i].kind \in {"retain", "scan"} /\ (i = 1 => job = Ready)
    BY DEF WillPrune
  <2>2. i # 1
    BY <2>1
  <2> QED
    BY <1>1, <2>1, <2>2 DEF WillPrune
<1>7. BeyondKept(saved', Reading') \subseteq BeyondKept(saved, Reading)
  <2>1. Reading \subseteq Reading'
    BY DEF StillRead, Reading
  <2> QED
    BY <1>1, <2>1 DEF BeyondKept
<1>8. WillPrune' \/ BeyondKept(saved', Reading') \subseteq stuck' \cup Pending'
  BY <1>0, <1>1, <1>5, <1>6, <1>7 DEF Pruned
<1>9. Pruned'
  BY <1>8 DEF Pruned
<1> QED
  BY <1>1, <1>2, <1>3, <1>4, <1>9, KeepsWithin

LEMMA MovedIs ==
    ASSUME WorkTypes, SetAside
    PROVE  /\ update' \in [Updates -> UpdateTypes]
           /\ \A u \in Updates : /\ update'[u].at = update[u].at
                                 /\ update'[u].answer = update[u].answer
                                 /\ update'[u].version = update[u].version
                                 /\ update'[u].sure = update[u].sure
                                 /\ "slow" \notin Odds => update'[u].moved = update[u].moved
<1>t. update \in [Updates -> UpdateTypes]
  BY DEF WorkTypes
<1>1. update' = [u \in Updates |->
                    IF "slow" \in Odds /\ update[u].version = Job
                       /\ update[u].at \in {"reads", "reads again"}
                    THEN [update[u] EXCEPT !.moved = TRUE] ELSE update[u]]
  BY DEF SetAside
<1>2. ASSUME NEW u \in Updates
      PROVE  LET r == [update[u] EXCEPT !.moved = TRUE]
             IN  /\ r \in UpdateTypes /\ r.at = update[u].at /\ r.answer = update[u].answer
                 /\ r.version = update[u].version /\ r.sure = update[u].sure
  BY <1>t DEF UpdateTypes
<1>3. ASSUME NEW u \in Updates
      PROVE  /\ update'[u] = update[u] \/ update'[u] = [update[u] EXCEPT !.moved = TRUE]
             /\ "slow" \notin Odds => update'[u] = update[u]
  BY <1>1
<1>4. \A u \in Updates : update'[u] \in UpdateTypes
  BY <1>t, <1>2, <1>3
<1>5. update' \in [Updates -> UpdateTypes]
  BY <1>1, <1>4
<1> QED
  BY <1>2, <1>3, <1>5

(* Through the steps of an install, which end with a pass to come.          *)
LEMMA InstallKeeps ==
    ASSUME PassInv, Unpacks \/ MoveAside \/ Place \/ PutBack, released' = released
    PROVE  PassInv'
<1>0. FolderTypes /\ WorkTypes /\ JobFits /\ Pruned
  BY DEF PassInv
<1>1. /\ queue # <<>> /\ queue[1].kind = "install" /\ Job \in Versions
      /\ Unpacked \/ SetAside \/ GivenUp \/ InPlace \/ PutOff \/ FailsHere
  BY InstallIs
<1>t. /\ disk \in [Versions -> Folders] /\ saved \in SUBSET Versions /\ stuck \subseteq Versions
      /\ queue \in Seq(Jobs) /\ faults \in 0 .. MaxFaults /\ job \in JobTypes
      /\ update \in [Updates -> UpdateTypes]
  BY <1>0 DEF FolderTypes, WorkTypes
<1>f. "none" \in Folders /\ "good" \in Folders
  BY DEF Folders
<1>g. job.at # "deletes" => job.going = 0 /\ job.rest = {}
  BY <1>0 DEF JobFits
<1>2. CASE Unpacked
  <2> DEFINE step == IF Job \in saved THEN "swap" ELSE "place"
  <2>1. step \in {"swap", "place"}
    OBVIOUS
  <2>2. job = Ready /\ job' = [job EXCEPT !.at = step]
    BY <1>2 DEF Unpacked
  <2> HIDE DEF step
  <2>3. job.at = "ready"
    BY <2>2, ReadyIs
  <2>4. job' \in JobTypes /\ job'.at = step /\ job'.going = 0 /\ job'.rest = {}
    BY <1>t, <1>g, <2>1, <2>2, <2>3 DEF JobTypes
  <2>5. /\ Same /\ update' = update /\ disk' = disk /\ faults' = faults
    BY <1>2 DEF Unpacked
  <2> QED
    BY <1>1, <1>t, <2>1, <2>3, <2>4, <2>5, Unmoved, KeepsInstall
<1>3. CASE SetAside
  <2>1. /\ job.at = "swap" /\ Same /\ faults' = faults /\ disk' = [disk EXCEPT ![Job] = "none"]
        /\ job' = [job EXCEPT !.at = "replace", !.aside = disk[Job]]
    BY <1>3 DEF SetAside
  <2>2. disk[Job] \in Folders
    BY <1>1, <1>t
  <2>3. job' \in JobTypes /\ job'.at = "replace" /\ job'.going = 0 /\ job'.rest = {}
    BY <1>t, <1>g, <2>1, <2>2 DEF JobTypes
  <2>4. disk' \in [Versions -> Folders]
    BY <1>t, <1>f, <2>1
  <2>5. update' \in [Updates -> UpdateTypes] /\ StillRead /\ StaysLetGo
    <3>1. update' \in [Updates -> UpdateTypes]
          /\ \A u \in Updates : update'[u].at = update[u].at
                                /\ update'[u].version = update[u].version
      BY <1>0, <1>3, MovedIs
    <3> QED
      BY <3>1 DEF StillRead, StaysLetGo, Holds
  <2> QED
    BY <1>1, <1>t, <2>1, <2>3, <2>4, <2>5, KeepsInstall
<1>4. CASE GivenUp
  <2> DEFINE failed == disk[Job] # "none"
  <2>1. /\ job.at = "swap" /\ Same /\ update' = update /\ disk' = [disk EXCEPT ![Job] = "none"]
        /\ faults' = faults \/ Fault
        /\ job' = [job EXCEPT !.at = "place", !.failed = failed]
    BY <1>4 DEF GivenUp
  <2>2. failed \in BOOLEAN
    OBVIOUS
  <2> HIDE DEF failed
  <2>3. job' \in JobTypes /\ job'.at = "place" /\ job'.going = 0 /\ job'.rest = {}
    BY <1>t, <1>g, <2>1, <2>2 DEF JobTypes
  <2>4. disk' \in [Versions -> Folders]
    BY <1>t, <1>f, <2>1
  <2>5. faults' \in 0 .. MaxFaults
    BY <1>t, <2>1, FaultIs
  <2> QED
    BY <1>1, <1>t, <2>1, <2>3, <2>4, <2>5, Unmoved, KeepsInstall
<1>5. CASE PutOff
  <2>1. /\ job.at = "replace" /\ Same /\ update' = update /\ disk' = disk
        /\ faults' = faults \/ Fault
        /\ job' = [job EXCEPT !.at = "back", !.failed = TRUE]
    BY <1>5 DEF PutOff
  <2>3. job' \in JobTypes /\ job'.at = "back" /\ job'.going = 0 /\ job'.rest = {}
    BY <1>t, <1>g, <2>1 DEF JobTypes
  <2>5. faults' \in 0 .. MaxFaults
    BY <1>t, <2>1, FaultIs
  <2> QED
    BY <1>1, <1>t, <2>1, <2>3, <2>5, Unmoved, KeepsInstall
<1>6. CASE InPlace
  <2>1. /\ disk' = [disk EXCEPT ![Job] = "good"] /\ saved' = saved \cup {Job}
        /\ job' = [Ready EXCEPT !.at = "sweeps"]
        /\ queue' = queue /\ stuck' = stuck /\ scanned' = scanned /\ check' = check
        /\ repair' = repair /\ update' = update /\ faults' = faults
    BY <1>6 DEF InPlace
  <2>2. job' \in JobTypes /\ job'.at = "sweeps" /\ job'.rest = {} /\ job'.going = 0
    BY <2>1, ReadyIs
  <2>3. disk' \in [Versions -> Folders] /\ saved' \subseteq Versions
    BY <1>1, <1>t, <1>f, <2>1
  <2>4. FolderTypes'
    BY <1>t, <2>1, <2>2, <2>3 DEF FolderTypes
  <2>5. WorkTypes'
    BY <1>0, <2>1, SameWork
  <2>6. JobFits'
    BY <1>1, <2>1, <2>2 DEF JobFits
  <2>7. WillPrune'
    BY <2>2 DEF WillPrune
  <2>8. Pruned'
    BY <2>7 DEF Pruned
  <2>9. StaysLetGo
    BY <2>1, Unmoved
  <2> QED
    BY <2>1, <2>4, <2>5, <2>6, <2>8, <2>9, KeepsWithin
<1>7. CASE FailsHere
  <2>1. InstallFails
    BY <1>7 DEF FailsHere
  <2>2. job.at \notin {"sweeps", "deletes"}
    BY <1>7, ReadyIs DEF FailsHere
  <2>3. faults' = faults \/ Fault
    BY <1>7 DEF FailsHere, MayFail
  <2>4. faults' \in 0 .. MaxFaults
    BY <1>t, <2>3, FaultIs
  <2>5. disk' \in [Versions -> Folders]
    <3>1. CASE disk' = disk
      BY <1>t, <3>1
    <3>2. CASE \E left \in LeftOf(disk[Job]) : disk' = [disk EXCEPT ![Job] = left]
      BY <1>1, <1>t, <3>2, LeftTyped
    <3>3. CASE disk' = [disk EXCEPT ![Job] = job.aside]
      <4>1. job.aside \in Folders
        BY <1>t DEF JobTypes
      <4> QED
        BY <1>t, <3>3, <4>1
    <3> QED
      BY <1>7, <3>1, <3>2, <3>3 DEF FailsHere
  <2> QED
    BY <1>1, <2>1, <2>2, <2>4, <2>5, FailKeeps
<1> QED
  BY <1>1, <1>2, <1>3, <1>4, <1>5, <1>6, <1>7

(* The first of the queue ends, or it goes on; what is kept is what holds   *)
(* whatever is let in.                                                      *)
LEMMA PassInit == ReleasesInit => PassInv
<1> SUFFICES ASSUME ReleasesInit PROVE PassInv
  OBVIOUS
<1>1. FolderTypes /\ WorkTypes
  BY ReleasesTypeInit, TypesAre
<1> DEFINE j == [kind |-> "scan"]
<1>2. j.kind = "scan" /\ queue = <<j>> /\ job = Ready /\ check = NoCheck
  BY DEF ReleasesInit
<1> HIDE DEF j
<1>3. DOMAIN queue = {1} /\ queue[1] = j /\ queue # <<>>
  BY <1>2
<1>4. WillPrune /\ RetainsFit
  BY <1>2, <1>3 DEF WillPrune, RetainsFit
<1>5. JobFits /\ AsksForOne
  BY <1>2, ReadyIs, NoCheckIs DEF JobFits, AsksForOne
<1> QED
  BY <1>1, <1>4, <1>5 DEF PassInv, Pruned

(* Every step keeps the invariant of the passes.                            *)
LEMMA PassStep == PassInv /\ [ReleasesNext]_releasesVars => PassInv'
<1> SUFFICES ASSUME PassInv, [ReleasesNext]_releasesVars PROVE PassInv'
  OBVIOUS
<1>1. CASE UNCHANGED releasesVars
  <2>1. /\ disk' = disk /\ saved' = saved /\ queue' = queue /\ job' = job /\ stuck' = stuck
        /\ released' = released /\ scanned' = scanned /\ check' = check /\ repair' = repair
        /\ update' = update /\ faults' = faults
    BY <1>1 DEF releasesVars, cacheVars, workVars
  <2>2. FolderTypes /\ released \in Versions /\ check \in CheckTypes /\ AsksForOne
    BY DEF PassInv, WorkTypes
  <2>3. Queues(<<>>) /\ \A i \in DOMAIN <<>> : <<>>[i].kind # "retain"
    BY <2>1, <2>2, QueuesNone
  <2>4. AsksForOne'
    BY <2>1, <2>2 DEF AsksForOne
  <2> QED
    BY <2>1, <2>2, <2>3, <2>4, KeepsByQueueing
<1>2. CASE Image
  <2>1. FolderTypes /\ WorkTypes
    BY DEF PassInv
  <2> QED
    BY <1>2, <2>1, ImageIs, ImageKeeps
<1>3. CASE CheckSteps
  BY <1>3, CheckKeeps
<1>4. CASE Clear
  BY <1>4, ClearKeeps
<1>5. CASE Folder
  <2>1. released' = released
    BY <1>5 DEF Folder
  <2>2. StartDeleting \/ Scan \/ Delete \/ EndOfPass \/ (Unpacks \/ MoveAside \/ Place \/ PutBack)
    BY <1>5 DEF Folder
  <2> QED
    BY <2>1, <2>2, StartKeeps, ScanKeeps, DeleteKeeps, EndKeeps, InstallKeeps
<1>6. CASE Release
  BY <1>6, ReleaseKeeps
<1>7. CASE Restart
  BY <1>7, RestartKeeps
<1> QED
  BY <1>1, <1>2, <1>3, <1>4, <1>5, <1>6, <1>7 DEF ReleasesNext

(* When nothing is left to do and nothing is read, no version is kept       *)
(* beyond the newest but those a deletion failed on: releases.ts's          *)
(* retention, whatever a run lets in.                                       *)
THEOREM NewestAreKept == ReleasesSpec => [](ReleasesTypeOK /\ KeepsTheNewest)
<1>1. PassInv => ReleasesTypeOK /\ KeepsTheNewest
  <2> SUFFICES ASSUME PassInv, queue = <<>>, Reading = {}
               PROVE  BeyondKept(saved, {}) \subseteq stuck
    BY TypesAre DEF PassInv, KeepsTheNewest
  <2>1. job.at = "ready"
    BY DEF PassInv, JobFits
  <2>2. DOMAIN queue = {}
    OBVIOUS
  <2>3. ~WillPrune /\ Pending = {}
    BY <2>1, <2>2 DEF WillPrune, Pending
  <2> QED
    BY <2>3 DEF PassInv, Pruned
<1> QED
  BY <1>1, PassInit, PassStep, PTL DEF ReleasesSpec

---------------------------------------------------------------------------
(* What a step makes of the queue: it adds passes and Clears, or one        *)
(* install, or its first ends.                                              *)
Grows ==
    /\ queue # <<>> => queue' # <<>> /\ queue'[1] = queue[1]
    /\ queue = <<>> /\ queue' # <<>> => queue'[1].kind # "scan"
Extends ==
    \A i \in DOMAIN queue' : \/ i \in DOMAIN queue /\ queue'[i] = queue[i]
                             \/ queue'[i].kind \in {"retain", "clear"}
ExtendsBy(j) ==
    \A i \in DOMAIN queue' : \/ i \in DOMAIN queue /\ queue'[i] = queue[i]
                             \/ i = Len(queue) + 1 /\ queue'[i] = j
Shrinks ==
    \A i \in DOMAIN queue' :
      \/ i \in Nat /\ i + 1 \in DOMAIN queue /\ i + 1 # 1 /\ queue'[i] = queue[i + 1]
      \/ queue'[i].kind = "retain"

(* What is appended leaves what is queued, and the first where it is.       *)
LEMMA QueuesGrow ==
    ASSUME FolderTypes, NEW r, Queues(r), \A j \in DOMAIN r : r[j].kind # "scan"
    PROVE  /\ Grows
           /\ \A i \in DOMAIN queue' : \/ i \in DOMAIN queue /\ queue'[i] = queue[i]
                                       \/ /\ i \in Nat /\ i - Len(queue) \in DOMAIN r
                                          /\ queue'[i] = r[i - Len(queue)]
<1>1. queue \in Seq(Jobs) /\ r \in Seq(Jobs) /\ queue' = queue \o r
  BY DEF FolderTypes, Queues
<1> DEFINE all == queue \o r
<1>2. /\ all \in Seq(Jobs) /\ DOMAIN all \subseteq Nat
      /\ DOMAIN queue \subseteq DOMAIN all /\ \A i \in DOMAIN queue : all[i] = queue[i]
      /\ \A i \in DOMAIN all : i \in DOMAIN queue
           \/ (i - Len(queue) \in DOMAIN r /\ all[i] = r[i - Len(queue)])
  BY <1>1, GrownQueue
<1>3. queue' = all
  BY <1>1
<1> HIDE DEF all
<1>4. \A i \in DOMAIN all : \/ i \in DOMAIN queue /\ all[i] = queue[i]
                            \/ /\ i \in Nat /\ i - Len(queue) \in DOMAIN r
                               /\ all[i] = r[i - Len(queue)]
  BY <1>2
<1>5. ASSUME queue # <<>> PROVE all # <<>> /\ all[1] = queue[1]
  <2>1. 1 \in DOMAIN queue
    BY <1>1, <1>5, ShrunkQueue
  <2>2. 1 \in DOMAIN all /\ all[1] = queue[1]
    BY <1>2, <2>1
  <2> QED
    BY <2>2
<1>6. ASSUME queue = <<>>, all # <<>> PROVE all[1].kind # "scan"
  <2>1. 1 \in DOMAIN all
    BY <1>2, <1>6, ShrunkQueue
  <2>2. 1 \notin DOMAIN queue
    BY <1>6
  <2>3. 1 - Len(queue) \in DOMAIN r /\ all[1] = r[1 - Len(queue)]
    BY <1>4, <2>1, <2>2
  <2> QED
    BY <2>3
<1> QED
  BY <1>3, <1>4, <1>5, <1>6 DEF Grows

(* The same, of passes and Clears alone.                                    *)
LEMMA QueuesExtend ==
    ASSUME FolderTypes, NEW r, Queues(r), \A j \in DOMAIN r : r[j].kind \in {"retain", "clear"}
    PROVE  Grows /\ Extends
<1>1. \A j \in DOMAIN r : r[j].kind # "scan"
  OBVIOUS
<1>2. /\ Grows
      /\ \A i \in DOMAIN queue' : \/ i \in DOMAIN queue /\ queue'[i] = queue[i]
                                  \/ /\ i \in Nat /\ i - Len(queue) \in DOMAIN r
                                     /\ queue'[i] = r[i - Len(queue)]
  BY <1>1, QueuesGrow
<1> QED
  BY <1>2 DEF Extends

(* The same, of one install.                                                *)
LEMMA QueuesInstall ==
    ASSUME FolderTypes, NEW j \in Jobs, j.kind = "install", Queues(<<j>>)
    PROVE  Grows /\ ExtendsBy(j)
<1> DEFINE r == <<j>>
<1>1. DOMAIN r = {1} /\ r[1] = j /\ Queues(r)
  OBVIOUS
<1> HIDE DEF r
<1>2. \A k \in DOMAIN r : r[k].kind # "scan"
  BY <1>1
<1>3. /\ Grows
      /\ \A i \in DOMAIN queue' : \/ i \in DOMAIN queue /\ queue'[i] = queue[i]
                                  \/ /\ i \in Nat /\ i - Len(queue) \in DOMAIN r
                                     /\ queue'[i] = r[i - Len(queue)]
  BY <1>1, <1>2, QueuesGrow
<1>4. Len(queue) \in Nat
  BY DEF FolderTypes
<1>5. ASSUME NEW i \in Nat, i - Len(queue) = 1 PROVE i = Len(queue) + 1
  BY <1>4, <1>5
<1> QED
  BY <1>1, <1>3, <1>5 DEF ExtendsBy

(* What is left when the first has ended moves up by one.                   *)
LEMMA EndsShrink ==
    ASSUME FolderTypes, queue # <<>>, NEW r, Ends(r), \A j \in DOMAIN r : r[j].kind = "retain"
    PROVE  Shrinks
<1> DEFINE q == Tail(queue)
           all == q \o r
<1>1. r \in Seq(Jobs) /\ queue' = all
  BY DEF Ends
<1>2. /\ q \in Seq(Jobs)
      /\ \A i \in DOMAIN q : i \in Nat \ {0} /\ i + 1 \in DOMAIN queue /\ q[i] = queue[i + 1]
  BY ShrunkQueue DEF FolderTypes
<1>3. \A i \in DOMAIN q : i \in Nat /\ i + 1 # 1
  BY <1>2
<1> HIDE DEF q
<1>4. /\ \A i \in DOMAIN q : all[i] = q[i]
      /\ \A i \in DOMAIN all : i \in DOMAIN q
           \/ (i - Len(q) \in DOMAIN r /\ all[i] = r[i - Len(q)])
  BY <1>1, <1>2, GrownQueue
<1> HIDE DEF all
<1>5. \A i \in DOMAIN all :
        \/ i \in Nat /\ i + 1 \in DOMAIN queue /\ i + 1 # 1 /\ all[i] = queue[i + 1]
        \/ all[i].kind = "retain"
  BY <1>2, <1>3, <1>4
<1> QED
  BY <1>1, <1>5 DEF Shrinks

(* Each install in the queue stays its caller's.                            *)
KeepsCallers ==
    /\ \A v : repair[v] = "installs" => repair'[v] = "installs"
    /\ check.at = "installs" => check'.at = "installs" /\ check'.version = check.version

(* Installs stay their callers' when no other is queued.                    *)
LEMMA InstallsExtend ==
    ASSUME InstallsFit, Extends, KeepsCallers
    PROVE  InstallsFit'
<1>1. ASSUME NEW i \in DOMAIN queue', queue'[i].kind = "install"
      PROVE  i \in DOMAIN queue /\ queue'[i] = queue[i]
  BY <1>1 DEF Extends
<1>2. ASSUME NEW i \in DOMAIN queue'
      PROVE  /\ InstallOf(queue', i, "repair") => repair'[queue'[i].version] = "installs"
             /\ InstallOf(queue', i, "check") =>
                  check'.at = "installs" /\ check'.version = queue'[i].version
  BY <1>1 DEF InstallOf, InstallsFit, KeepsCallers
<1>3. ASSUME NEW i \in DOMAIN queue', NEW j \in DOMAIN queue', NEW c \in {"check", "repair"},
             InstallOf(queue', i, c), InstallOf(queue', j, c),
             queue'[i].version = queue'[j].version
      PROVE  i = j
  BY <1>1, <1>3 DEF InstallOf, InstallsFit
<1> QED
  BY <1>2, <1>3 DEF InstallsFit, InstallOf

(* One more install, of a caller that had none.                             *)
LEMMA InstallsAdd ==
    ASSUME InstallsFit, NEW j, ExtendsBy(j), KeepsCallers,
           j.caller = "repair" => repair[j.version] # "installs" /\ repair'[j.version] = "installs",
           j.caller = "check" => check.at # "installs" /\ check'.at = "installs"
                                 /\ check'.version = j.version
    PROVE  InstallsFit'
<1>1. ASSUME NEW i \in DOMAIN queue'
      PROVE  /\ InstallOf(queue', i, "repair") => repair'[queue'[i].version] = "installs"
             /\ InstallOf(queue', i, "check") =>
                  check'.at = "installs" /\ check'.version = queue'[i].version
  <2>1. CASE i \in DOMAIN queue /\ queue'[i] = queue[i]
    BY <2>1 DEF InstallOf, InstallsFit, KeepsCallers
  <2>2. CASE queue'[i] = j
    BY <2>2 DEF InstallOf
  <2> QED
    BY <2>1, <2>2 DEF ExtendsBy
<1>2. ASSUME NEW i \in DOMAIN queue', NEW k \in DOMAIN queue', NEW c \in {"check", "repair"},
             InstallOf(queue', i, c), InstallOf(queue', k, c),
             queue'[i].version = queue'[k].version
      PROVE  i = k
  <2>1. CASE i \in DOMAIN queue /\ queue'[i] = queue[i] /\ k \in DOMAIN queue /\ queue'[k] = queue[k]
    BY <1>2, <2>1 DEF InstallOf, InstallsFit
  <2>2. CASE i = Len(queue) + 1 /\ k = Len(queue) + 1
    BY <2>2
  <2>3. ASSUME NEW o \in DOMAIN queue, InstallOf(queue, o, c), j.caller = c,
               queue[o].version = j.version
        PROVE  FALSE
    BY <2>3 DEF InstallOf, InstallsFit
  <2>4. CASE i \in DOMAIN queue /\ queue'[i] = queue[i] /\ queue'[k] = j
    BY <1>2, <2>3, <2>4 DEF InstallOf
  <2>5. CASE k \in DOMAIN queue /\ queue'[k] = queue[k] /\ queue'[i] = j
    BY <1>2, <2>3, <2>5 DEF InstallOf
  <2> QED
    BY <2>1, <2>2, <2>4, <2>5 DEF ExtendsBy
<1> QED
  BY <1>1, <1>2 DEF InstallsFit, InstallOf

(* Two installs are not of the same check, nor of the same repair.          *)
LEMMA OtherInstalls ==
    ASSUME InstallsFit, NEW i \in DOMAIN queue, 1 \in DOMAIN queue, i # 1
    PROVE  /\ InstallOf(queue, i, "repair") /\ InstallOf(queue, 1, "repair")
                => queue[i].version # queue[1].version
           /\ InstallOf(queue, i, "check") => ~InstallOf(queue, 1, "check")
BY DEF InstallsFit, InstallOf

(* One install less, of a caller that waits for it no more.                 *)
LEMMA InstallsShrink ==
    ASSUME InstallsFit, Shrinks,
           \A i \in DOMAIN queue : i # 1 =>
             /\ InstallOf(queue, i, "repair") => repair'[queue[i].version] = "installs"
             /\ InstallOf(queue, i, "check") =>
                  check'.at = "installs" /\ check'.version = queue[i].version
    PROVE  InstallsFit'
<1>1. ASSUME NEW i \in DOMAIN queue', queue'[i].kind = "install"
      PROVE  i \in Nat /\ i + 1 \in DOMAIN queue /\ i + 1 # 1 /\ queue'[i] = queue[i + 1]
  BY <1>1 DEF Shrinks
<1>2. ASSUME NEW i \in DOMAIN queue'
      PROVE  /\ InstallOf(queue', i, "repair") => repair'[queue'[i].version] = "installs"
             /\ InstallOf(queue', i, "check") =>
                  check'.at = "installs" /\ check'.version = queue'[i].version
  BY <1>1 DEF InstallOf
<1>3. ASSUME NEW i \in DOMAIN queue', NEW j \in DOMAIN queue', NEW c \in {"check", "repair"},
             InstallOf(queue', i, c), InstallOf(queue', j, c),
             queue'[i].version = queue'[j].version
      PROVE  i = j
  <2>1. /\ i \in Nat /\ i + 1 \in DOMAIN queue /\ queue'[i] = queue[i + 1]
        /\ j \in Nat /\ j + 1 \in DOMAIN queue /\ queue'[j] = queue[j + 1]
    BY <1>1, <1>3 DEF InstallOf
  <2>2. i + 1 = j + 1
    BY <1>3, <2>1 DEF InstallOf, InstallsFit
  <2> QED
    BY <2>1, <2>2
<1> QED
  BY <1>2, <1>3 DEF InstallsFit, InstallOf

---------------------------------------------------------------------------
LEMMA ScanExtends ==
    ASSUME ScanIsFirst, Grows, Extends \/ (\E j \in Jobs : j.kind = "install" /\ ExtendsBy(j)),
           scanned' = scanned
    PROVE  ScanIsFirst'
<1>1. ASSUME NEW i \in DOMAIN queue', queue'[i].kind = "scan"
      PROVE  i \in DOMAIN queue /\ queue[i].kind = "scan"
  BY <1>1 DEF Extends, ExtendsBy
<1> QED
  BY <1>1 DEF ScanIsFirst, Grows

LEMMA ScanShrinks ==
    ASSUME ScanIsFirst, Shrinks, scanned'
    PROVE  ScanIsFirst'
<1>1. ASSUME NEW i \in DOMAIN queue', queue'[i].kind = "scan" PROVE FALSE
  BY <1>1 DEF Shrinks, ScanIsFirst
<1> QED
  BY <1>1 DEF ScanIsFirst

(* What is read stays read, and there, in a step of the folder.             *)
FewerRead ==
    \A u \in Updates : Holds(u)' =>
      Holds(u) /\ update'[u].version = update[u].version /\ update'[u].sure = update[u].sure

(* What is read stays off the deletions when no more is read.               *)
LEMMA HeldStays ==
    ASSUME HeldFits, FewerRead,
           \A v \in Reading : v \in Versions \ Doomed => v \notin Doomed' /\ (There(v) => There(v)')
    PROVE  HeldFits'
<1>1. Reading' \subseteq Reading
  BY DEF FewerRead, Reading
<1>2. ASSUME NEW v \in Versions, Promised(v)' PROVE Promised(v) /\ v \in Reading
  BY <1>2 DEF Promised, FewerRead, Reading
<1>3. Reading' \subseteq Versions \ Doomed'
  BY <1>1 DEF HeldFits
<1>4. \A v \in Versions : Promised(v)' => There(v)'
  BY <1>2 DEF HeldFits
<1> QED
  BY <1>3, <1>4 DEF HeldFits

(* Who goes, by the first of the queue.                                     *)
LEMMA DoomedIs ==
    ASSUME FolderTypes, JobFits
    PROVE  Doomed = {job.going} \cup
             (IF job.at = "deletes" /\ queue[1].kind = "clear" THEN {} ELSE job.rest)
<1>1. CASE job.at = "deletes"
  <2>1. queue # <<>>
    BY <1>1 DEF JobFits
  <2>2. Head(queue) = queue[1]
    BY <2>1, HeadIs
  <2> QED
    BY <1>1, <2>1, <2>2 DEF Doomed, Running
<1>2. CASE job.at # "deletes"
  <2>1. job.rest = {}
    BY <1>2 DEF JobFits
  <2> QED
    BY <1>2, <2>1 DEF Doomed
<1> QED
  BY <1>1, <1>2

(* The same, after a step.                                                  *)
LEMMA DoomedNext ==
    ASSUME queue' \in Seq(Jobs), JobFits'
    PROVE  Doomed' = {job'.going} \cup
             (IF job'.at = "deletes" /\ queue'[1].kind = "clear" THEN {} ELSE job'.rest)
<1> DEFINE q == queue'
<1>0. /\ q \in Seq(Jobs)
      /\ job'.at # "ready" => q # <<>>
      /\ job'.at # "deletes" => job'.rest = {}
      /\ Doomed' = {job'.going} \cup (IF q # <<>> /\ Head(q).kind = "clear" THEN {} ELSE job'.rest)
  BY DEF JobFits, Doomed, Running
<1> HIDE DEF q
<1>1. q # <<>> => Head(q) = q[1]
  BY <1>0, ShrunkQueue
<1>2. Doomed' = {job'.going} \cup
        (IF job'.at = "deletes" /\ q[1].kind = "clear" THEN {} ELSE job'.rest)
  BY <1>0, <1>1
<1> USE DEF q
<1> QED
  BY <1>2

(* What an update is told is there is there.                                *)
LEMMA HereIs ==
    ASSUME FolderTypes, NEW v
    PROVE  Here(v) = There(v)
<1>1. queue # <<>> => Head(queue) = queue[1]
  BY HeadIs
<1> QED
  BY <1>1 DEF Here, There, Running, Scanning

(* What is being repaired is read, and on the list.                         *)
LEMMA ReadIs ==
    ASSUME RepairsFit, NEW v \in Versions, repair[v] # "none"
    PROVE  v \in Reading /\ v \in saved
<1>1. PICK u \in Updates : update[u].at = "repairs" /\ update[u].version = v
  BY DEF RepairsFit, Joined
<1> QED
  BY <1>1 DEF Reading, Holds, RepairsFit

(* A step that only adds to the queue leaves the work it is at.             *)
LEMMA WorkStays ==
    ASSUME FolderTypes, JobFits, FolderTypes', JobFits', Grows, job' = job, disk' = disk,
           saved' = saved
    PROVE  /\ Scanning' <=> Scanning
           /\ Doomed' = Doomed
           /\ \A v : There(v)' <=> There(v)
           /\ \A c : Placed(c)' <=> Placed(c)
           /\ SwapFits => SwapFits'
           /\ OnDiskIsSaved => OnDiskIsSaved'
<1>1. Scanning' <=> Scanning
  BY DEF Scanning, Grows
<1>2. job.at # "ready" => queue # <<>> /\ queue'[1] = queue[1]
  BY DEF JobFits, Grows
<1>3. Doomed = {job.going} \cup
        (IF job.at = "deletes" /\ queue[1].kind = "clear" THEN {} ELSE job.rest)
  BY DoomedIs
<1>4. Doomed' = {job'.going} \cup
        (IF job'.at = "deletes" /\ queue'[1].kind = "clear" THEN {} ELSE job'.rest)
  BY DoomedNext DEF FolderTypes
<1>5. Doomed' = Doomed
  BY <1>2, <1>3, <1>4
<1>6. \A v : There(v)' <=> There(v)
  BY <1>1 DEF There, OnDisk
<1>7. \A c : Placed(c)' <=> Placed(c)
  BY <1>2 DEF Placed
<1>8. SwapFits => SwapFits'
  BY <1>2 DEF SwapFits
<1>9. OnDiskIsSaved => OnDiskIsSaved'
  BY <1>1 DEF OnDiskIsSaved, OnDisk
<1> QED
  BY <1>1, <1>5, <1>6, <1>7, <1>8, <1>9

LEMMA ImageQueues ==
    ASSUME PassInv, ReleasesInv, ImageFrame, ImageCases
    PROVE  Grows /\ ScanIsFirst' /\ InstallsFit'
<1>0. FolderTypes /\ WorkTypes /\ InstallsFit /\ ScanIsFirst /\ check' = check /\ scanned' = scanned
  BY DEF PassInv, ReleasesInv, ImageFrame
<1>t. repair \in [Versions -> {"none", "downloads", "installs"}]
  BY <1>0 DEF WorkTypes
<1>1. ASSUME NEW r, Queues(r), \A j \in DOMAIN r : r[j].kind \in {"retain", "clear"}, KeepsCallers
      PROVE  Grows /\ ScanIsFirst' /\ InstallsFit'
  <2>1. Grows /\ Extends
    BY <1>0, <1>1, QueuesExtend
  <2> QED
    BY <1>0, <1>1, <2>1, ScanExtends, InstallsExtend
<1>2. ASSUME queue' = queue, KeepsCallers PROVE Grows /\ ScanIsFirst' /\ InstallsFit'
  <2>1. Queues(<<>>)
    BY <1>0, <1>2, SameQueue
  <2>2. DOMAIN <<>> = {}
    OBVIOUS
  <2> QED
    BY <1>1, <1>2, <2>1, <2>2
<1>3. ASSUME NEW set \in SUBSET Updates, Queues(Retains(set)), KeepsCallers
      PROVE  Grows /\ ScanIsFirst' /\ InstallsFit'
  <2>1. \A j \in DOMAIN Retains(set) : Retains(set)[j].kind \in {"retain", "clear"}
    BY <1>3, RetainsIs
  <2> QED
    BY <1>1, <1>3, <2>1
<1>4. CASE \E u \in Updates : \E v \in Versions : AskedFor(u, v)
  BY <1>0, <1>2, <1>4 DEF AskedFor, KeepsCallers
<1>5. CASE \E u \in Updates : Matched(u)
  BY <1>0, <1>2, <1>5 DEF Matched, KeepsCallers
<1>6. CASE \E u \in Updates : Mends(u)
  <2>1. PICK u \in Updates : Mends(u)
    BY <1>6
  <2>2. \A v : repair[v] = "installs" => repair'[v] = "installs"
    <3> DEFINE w == update[u].version
    <3>1. repair' = [repair EXCEPT ![w] = IF @ = "none" THEN "downloads" ELSE @]
      BY <2>1 DEF Mends
    <3> HIDE DEF w
    <3> QED
      BY <1>t, <3>1
  <2> QED
    BY <1>0, <1>2, <2>1, <2>2 DEF Mends, KeepsCallers
<1>7. CASE \E u \in Updates : NotCached(u) \/ Served(u) \/ IsDamaged(u)
  <2>1. PICK u \in Updates : NotCached(u) \/ Served(u) \/ IsDamaged(u)
    BY <1>7
  <2>2. Queues(Retains({u})) /\ repair' = repair
    BY <2>1 DEF NotCached, Served, IsDamaged
  <2> QED
    BY <1>0, <1>3, <2>2 DEF KeepsCallers
<1>8. CASE \E v \in Versions : Downloaded(v)
  <2>1. PICK v \in Versions : Downloaded(v)
    BY <1>8
  <2> DEFINE j == [kind |-> "install", version |-> v, caller |-> "repair"]
  <2>2. Queues(<<j>>) /\ repair[v] = "downloads" /\ repair' = [repair EXCEPT ![v] = "installs"]
    BY <2>1 DEF Downloaded
  <2>3. j \in Jobs /\ j.kind = "install" /\ j.caller = "repair" /\ j.version = v
    BY DEF Jobs
  <2> HIDE DEF j
  <2>4. KeepsCallers /\ repair'[v] = "installs"
    BY <1>0, <1>t, <2>2 DEF KeepsCallers
  <2>5. Grows /\ ExtendsBy(j)
    BY <1>0, <2>2, <2>3, QueuesInstall
  <2>6. ScanIsFirst'
    BY <1>0, <2>3, <2>5, ScanExtends
  <2>7. InstallsFit'
    BY <1>0, <2>2, <2>3, <2>4, <2>5, InstallsAdd
  <2> QED
    BY <2>5, <2>6, <2>7
<1>9. CASE \E v \in Versions : NotDownloaded(v)
  <2>1. PICK v \in Versions : NotDownloaded(v)
    BY <1>9
  <2>2. /\ Queues(Retains(Joined(v))) /\ repair[v] = "downloads"
        /\ repair' = [repair EXCEPT ![v] = "none"]
    BY <2>1 DEF NotDownloaded
  <2>3. Joined(v) \in SUBSET Updates
    BY DEF Joined
  <2>4. KeepsCallers
    BY <1>0, <1>t, <2>2 DEF KeepsCallers
  <2> DEFINE set == Joined(v)
  <2>5. set \in SUBSET Updates /\ Queues(Retains(set))
    BY <2>2, <2>3
  <2> HIDE DEF set
  <2> QED
    BY <1>3, <2>4, <2>5
<1> QED
  BY <1>4, <1>5, <1>6, <1>7, <1>8, <1>9 DEF ImageCases

(* An update only asks for what is not about to be deleted.                 *)
LEMMA ImageReads ==
    ASSUME PassInv, ReleasesInv, ImageFrame, ImageCases, "late" \notin Odds, Doomed' = Doomed,
           \A v : There(v)' <=> There(v)
    PROVE  HeldFits'
<1>0. FolderTypes /\ HeldFits /\ 0 \notin Versions
  BY NumbersAre DEF PassInv, ReleasesInv
<1>1. CASE \E u \in Updates : \E v \in Versions : AskedFor(u, v)
  <2>1. PICK u \in Updates, v \in Versions : AskedFor(u, v)
    BY <1>1
  <2>2. /\ v \notin Doomed /\ update'[u].version = v
        /\ update'[u].sure = Here(v) /\ \A w \in Updates \ {u} : update'[w] = update[w]
    BY <2>1 DEF AskedFor
  <2>3. Here(v) = There(v)
    BY <1>0, HereIs
  <2>4. Reading' \subseteq Reading \cup {v}
    BY <2>2 DEF Reading, Holds
  <2>5. ASSUME NEW w \in Versions, Promised(w)' PROVE There(w)'
    <3>1. PICK a \in Updates : Holds(a)' /\ update'[a].sure /\ update'[a].version = w
      BY <2>5 DEF Promised
    <3>2. CASE a = u
      <4>1. There(v) /\ w = v
        BY <2>2, <2>3, <3>1, <3>2
      <4> QED
        BY <4>1
    <3>3. CASE a # u
      <4>1. Promised(w)
        BY <2>2, <3>1, <3>3 DEF Promised, Holds
      <4> QED
        BY <1>0, <4>1 DEF HeldFits
    <3> QED
      BY <3>2, <3>3
  <2>6. Reading' \subseteq Versions \ Doomed'
    BY <1>0, <2>2, <2>4 DEF HeldFits
  <2> QED
    BY <2>5, <2>6 DEF HeldFits
<1>2. CASE FewerRead
  BY <1>0, <1>2, HeldStays
<1>3. ASSUME NEW set, NEW answer, LetGo(set, answer) PROVE FewerRead
  BY <1>3 DEF LetGo, FewerRead, Holds
<1>4. CASE \E u \in Updates : Matched(u) \/ Mends(u)
  <2>1. PICK u \in Updates : Matched(u) \/ Mends(u)
    BY <1>4
  <2>2. update[u].at \in {"waits", "reads"} /\ (MovesTo(u, "reads") \/ MovesTo(u, "repairs"))
    BY <2>1 DEF Matched, Mends
  <2>3. FewerRead
    BY <2>2 DEF MovesTo, FewerRead, Holds
  <2> QED
    BY <1>2, <2>3
<1>5. CASE \E u \in Updates : NotCached(u) \/ Served(u) \/ IsDamaged(u)
  BY <1>2, <1>3, <1>5 DEF NotCached, Served, IsDamaged
<1>6. CASE \E v \in Versions : Downloaded(v)
  <2>1. update' = update
    BY <1>6 DEF Downloaded
  <2> QED
    BY <1>2, <2>1 DEF FewerRead, Holds
<1>7. CASE \E v \in Versions : NotDownloaded(v)
  BY <1>2, <1>3, <1>7 DEF NotDownloaded
<1> QED
  BY <1>1, <1>4, <1>5, <1>6, <1>7 DEF ImageCases

(* What is being repaired stays on the list, and read.                      *)
LEMMA RepairsStay ==
    ASSUME RepairsFit,
           \A v \in Versions : repair'[v] # "none" =>
             /\ repair[v] # "none"
             /\ v \in saved => v \in saved'
             /\ \A u \in Updates : update[u].at = "repairs" /\ update[u].version = v
                  => update'[u].at = "repairs" /\ update'[u].version = v
    PROVE  RepairsFit'
<1> SUFFICES ASSUME NEW v \in Versions, repair'[v] # "none"
             PROVE  v \in saved' /\ Joined(v)' # {}
  BY DEF RepairsFit
<1>1. v \in saved /\ Joined(v) # {}
  BY DEF RepairsFit
<1>2. PICK u \in Updates : update[u].at = "repairs" /\ update[u].version = v
  BY <1>1 DEF Joined
<1>3. u \in Joined(v)'
  BY <1>2 DEF Joined
<1> QED
  BY <1>1, <1>3

(* A read that finds a damaged file has its version repaired, or joins.     *)
LEMMA ImageRepairs ==
    ASSUME PassInv, ReleasesInv, ImageFrame, ImageCases
    PROVE  RepairsFit' /\ ScanIsAwaited'
<1>0. /\ WorkTypes /\ RepairsFit /\ ScanIsAwaited /\ saved' = saved /\ scanned' = scanned
      /\ check' = check /\ repair \in [Versions -> {"none", "downloads", "installs"}]
  BY DEF PassInv, ReleasesInv, ImageFrame, WorkTypes
<1>1. ASSUME repair' = repair,
             \A u \in Updates : update[u].at = "repairs" =>
               update'[u].at = "repairs" /\ update'[u].version = update[u].version,
             scanned \/ (\A u \in Updates : update'[u].at \in {"idle", "waits"})
      PROVE  RepairsFit' /\ ScanIsAwaited'
  <2>1. RepairsFit'
    BY <1>0, <1>1, RepairsStay
  <2>2. ScanIsAwaited'
    BY <1>0, <1>1 DEF ScanIsAwaited
  <2> QED
    BY <2>1, <2>2
<1>2. CASE \E u \in Updates : \E v \in Versions : AskedFor(u, v)
  <2>1. PICK u \in Updates, v \in Versions : AskedFor(u, v)
    BY <1>2
  <2>2. update[u].at = "idle"
    BY <2>1, NoUpdateIs DEF AskedFor
  <2> QED
    BY <1>0, <1>1, <2>1, <2>2 DEF AskedFor, ScanIsAwaited
<1>3. CASE \E u \in Updates : Matched(u)
  <2>1. PICK u \in Updates : Matched(u)
    BY <1>3
  <2> QED
    BY <1>1, <2>1 DEF Matched, MovesTo
<1>4. CASE \E u \in Updates : NotCached(u) \/ Served(u) \/ IsDamaged(u)
  <2>1. PICK u \in Updates : NotCached(u) \/ Served(u) \/ IsDamaged(u)
    BY <1>4
  <2>2. /\ repair' = repair /\ update[u].at # "repairs" /\ scanned
        /\ \E answer \in {"ok", "not-cached", "damaged"} : LetGo({u}, answer)
    BY <1>0, <2>1 DEF NotCached, Served, IsDamaged, ScanIsAwaited
  <2> QED
    BY <1>1, <2>2 DEF LetGo
<1>5. CASE \E u \in Updates : Mends(u)
  <2>1. PICK u \in Updates : Mends(u)
    BY <1>5
  <2> DEFINE w == update[u].version
  <2>2. /\ update[u].at = "reads" /\ (w \in saved \/ repair[w] # "none")
        /\ repair' = [repair EXCEPT ![w] = IF @ = "none" THEN "downloads" ELSE @]
        /\ update'[u].at = "repairs" /\ update'[u].version = w
        /\ \A x \in Updates \ {u} : update'[x] = update[x]
    BY <2>1 DEF Mends, MovesTo
  <2> HIDE DEF w
  <2>3. scanned
    BY <1>0, <2>2 DEF ScanIsAwaited
  <2>4. ASSUME NEW v \in Versions, repair'[v] # "none" PROVE v \in saved' /\ Joined(v)' # {}
    <3>1. CASE v = w
      <4>1. u \in Joined(v)'
        BY <2>2, <3>1 DEF Joined
      <4>2. v \in saved
        BY <1>0, <2>2, <3>1 DEF RepairsFit
      <4> QED
        BY <1>0, <4>1, <4>2
    <3>2. CASE v # w
      <4>1. repair[v] # "none"
        BY <1>0, <2>2, <2>4, <3>2
      <4>2. v \in saved /\ Joined(v) # {}
        BY <1>0, <4>1 DEF RepairsFit
      <4>3. PICK x \in Updates : update[x].at = "repairs" /\ update[x].version = v
        BY <4>2 DEF Joined
      <4>4. x \in Joined(v)'
        BY <2>2, <4>3 DEF Joined
      <4> QED
        BY <1>0, <4>2, <4>4
    <3> QED
      BY <3>1, <3>2
  <2>5. RepairsFit'
    BY <2>4 DEF RepairsFit
  <2>6. ScanIsAwaited'
    BY <1>0, <2>3 DEF ScanIsAwaited
  <2> QED
    BY <2>5, <2>6
<1>6. CASE \E v \in Versions : Downloaded(v)
  <2>1. PICK v \in Versions : Downloaded(v)
    BY <1>6
  <2>2. /\ repair[v] = "downloads" /\ repair' = [repair EXCEPT ![v] = "installs"]
        /\ update' = update
    BY <2>1 DEF Downloaded
  <2>3. \A w \in Versions : repair'[w] # "none" => repair[w] # "none"
    BY <1>0, <2>2
  <2>4. RepairsFit'
    BY <1>0, <2>2, <2>3, RepairsStay
  <2>5. scanned
    BY <1>0, <2>2 DEF ScanIsAwaited
  <2> QED
    BY <1>0, <2>4, <2>5 DEF ScanIsAwaited
<1>7. CASE \E v \in Versions : NotDownloaded(v)
  <2>1. PICK v \in Versions : NotDownloaded(v)
    BY <1>7
  <2>2. /\ repair[v] = "downloads" /\ repair' = [repair EXCEPT ![v] = "none"]
        /\ LetGo(Joined(v), "failed")
    BY <2>1 DEF NotDownloaded
  <2>3. \A w \in Versions : repair'[w] # "none" => w # v /\ repair[w] # "none"
    BY <1>0, <2>2
  <2>4. \A u \in Updates : update[u].version # v => update'[u] = update[u]
    BY <2>2 DEF LetGo, Joined
  <2>5. RepairsFit'
    BY <1>0, <2>3, <2>4, RepairsStay
  <2>6. scanned
    BY <1>0, <2>2 DEF ScanIsAwaited
  <2> QED
    BY <1>0, <2>5, <2>6 DEF ScanIsAwaited
<1> QED
  BY <1>2, <1>3, <1>4, <1>5, <1>6, <1>7 DEF ImageCases

(* The invariant, through the steps of an image.                            *)
LEMMA ImageFits ==
    ASSUME PassInv, ReleasesInv, "late" \notin Odds, ImageFrame, ImageCases
    PROVE  ReleasesInv'
<1>1. PassInv'
  BY ImageKeeps
<1>2. Grows /\ ScanIsFirst' /\ InstallsFit'
  BY ImageQueues
<1>3. FolderTypes /\ JobFits /\ FolderTypes' /\ JobFits'
  BY <1>1 DEF PassInv
<1>4. /\ job' = job /\ disk' = disk /\ saved' = saved /\ check' = check /\ scanned' = scanned
  BY DEF ImageFrame
<1>5. /\ Scanning' <=> Scanning
      /\ Doomed' = Doomed
      /\ \A v : There(v)' <=> There(v)
      /\ \A c : Placed(c)' <=> Placed(c)
      /\ SwapFits => SwapFits'
      /\ OnDiskIsSaved => OnDiskIsSaved'
  BY <1>2, <1>3, <1>4, WorkStays
<1>6. HeldFits'
  BY <1>5, ImageReads
<1>7. RepairsFit' /\ ScanIsAwaited'
  BY ImageRepairs
<1>8. ChecksFit'
  BY <1>4, <1>5 DEF ReleasesInv, ChecksFit
<1>9. SwapFits' /\ OnDiskIsSaved'
  BY <1>5 DEF ReleasesInv
<1> QED
  BY <1>2, <1>6, <1>7, <1>8, <1>9 DEF ReleasesInv

---------------------------------------------------------------------------
(* A step that moves no update and no repair, and leaves the folder.        *)
LEMMA FitsByQueueing ==
    ASSUME PassInv, PassInv', ReleasesInv, Grows, ScanIsFirst', InstallsFit',
           disk' = disk, saved' = saved, job' = job, scanned' = scanned,
           repair' = repair, update' = update, ChecksFit',
           ~scanned => check'.at \in {"idle", "lists", "waits"}
    PROVE  ReleasesInv'
<1>1. FolderTypes /\ JobFits /\ FolderTypes' /\ JobFits'
  BY DEF PassInv
<1>2. /\ Scanning' <=> Scanning
      /\ Doomed' = Doomed
      /\ \A v : There(v)' <=> There(v)
      /\ \A c : Placed(c)' <=> Placed(c)
      /\ SwapFits => SwapFits'
      /\ OnDiskIsSaved => OnDiskIsSaved'
  BY <1>1, WorkStays
<1>3. HeldFits'
  <2>1. FewerRead
    BY DEF FewerRead, Holds
  <2> QED
    BY <1>2, <2>1, HeldStays DEF ReleasesInv
<1>4. RepairsFit'
  BY RepairsStay DEF ReleasesInv
<1>5. ScanIsAwaited'
  BY DEF ReleasesInv, ScanIsAwaited
<1>6. SwapFits' /\ OnDiskIsSaved'
  BY <1>2 DEF ReleasesInv
<1> QED
  BY <1>3, <1>4, <1>5, <1>6 DEF ReleasesInv

LEMMA NothingQueued ==
    ASSUME FolderTypes, ScanIsFirst, InstallsFit, queue' = queue, scanned' = scanned, KeepsCallers
    PROVE  Grows /\ ScanIsFirst' /\ InstallsFit'
<1>1. Queues(<<>>) /\ DOMAIN <<>> = {}
  BY SameQueue
<1>2. Grows /\ Extends
  BY <1>1, QueuesExtend
<1> QED
  BY <1>2, ScanExtends, InstallsExtend

(* Through the steps of a check, which goes by a list the scan filled.      *)
LEMMA CheckStepsFit ==
    ASSUME PassInv, ReleasesInv, CheckSteps
    PROVE  ReleasesInv'
<1>1. /\ disk' = disk /\ saved' = saved /\ job' = job /\ stuck' = stuck /\ faults' = faults
      /\ scanned' = scanned /\ repair' = repair /\ update' = update /\ released' = released
      /\ \/ queue' = queue /\ CheckIs
         \/ /\ check.at = "downloads" /\ check'.at = "installs" /\ check' \in CheckTypes
            /\ check'.version = check.version
            /\ queue' = Append(queue, [kind |-> "install", version |-> check.version,
                                       caller |-> "check"])
  BY CheckStepsIs
<1>2. PassInv'
  BY CheckKeeps
<1>0. /\ FolderTypes /\ ScanIsFirst /\ InstallsFit /\ ScanIsAwaited /\ ChecksFit /\ AsksForOne
      /\ saved \subseteq Versions /\ NoCheck.at = "idle"
  BY NoCheckIs DEF PassInv, ReleasesInv, FolderTypes
<1>3. CASE queue' = queue /\ CheckIs
  <2>1. KeepsCallers
    BY <1>1, <1>3 DEF CheckIs, KeepsCallers
  <2>2. Grows /\ ScanIsFirst' /\ InstallsFit'
    BY <1>0, <1>1, <1>3, <2>1, NothingQueued
  <2>3. ~scanned => check'.at \in {"idle", "lists", "waits"}
    BY <1>0, <1>3 DEF CheckIs, ScanIsAwaited
  <2>4. \/ check'.at \in {"idle", "lists", "waits"}
        \/ /\ scanned /\ check'.at \in {"asks", "downloads"} /\ check'.version \in Versions
           /\ check'.version > check'.newest /\ \A v \in saved : v <= check'.newest
    <3>1. \A v \in saved : v <= Newest
      BY <1>0, NewestIs
    <3>2. CASE check.at = "asks" /\ check'.version = check.version /\ check'.newest = check.newest
               /\ check'.version \in Versions /\ check'.at \in {"asks", "downloads"}
      BY <1>0, <3>2 DEF ChecksFit
    <3>3. CASE check.at = "asks" /\ check'.version > check.newest /\ check'.newest = check.newest
               /\ check'.version \in Versions /\ check'.at \in {"asks", "downloads"}
      BY <1>0, <3>3 DEF ChecksFit
    <3>4. CASE /\ scanned /\ check'.at = "asks" /\ check'.version \in Versions
               /\ check'.newest = Newest /\ check'.version > Newest
      BY <3>1, <3>4
    <3> QED
      BY <1>0, <1>3, <3>2, <3>3, <3>4 DEF CheckIs
  <2>5. ChecksFit'
    BY <1>1, <2>4 DEF ChecksFit
  <2> QED
    BY <1>1, <1>2, <2>2, <2>3, <2>5, FitsByQueueing
<1>4. CASE /\ check.at = "downloads" /\ check'.at = "installs" /\ check' \in CheckTypes
           /\ check'.version = check.version
           /\ queue' = Append(queue, [kind |-> "install", version |-> check.version,
                                      caller |-> "check"])
  <2>1. check.version \in Versions /\ scanned
    BY <1>0, <1>4 DEF ChecksFit
  <2> DEFINE j == [kind |-> "install", version |-> check.version, caller |-> "check"]
  <2>2. j \in Jobs /\ j.kind = "install" /\ j.caller = "check" /\ j.version = check.version
    BY <2>1 DEF Jobs
  <2>3. queue' = Append(queue, j)
    BY <1>4
  <2> HIDE DEF j
  <2>4. Queues(<<j>>)
    BY <1>0, <2>2, <2>3, QueuesOne
  <2>5. Grows /\ ExtendsBy(j)
    BY <1>0, <2>2, <2>4, QueuesInstall
  <2>6. ScanIsFirst'
    BY <1>0, <1>1, <2>2, <2>5, ScanExtends
  <2>7. InstallsFit'
    <3>1. KeepsCallers
      BY <1>1, <1>4 DEF KeepsCallers
    <3> QED
      BY <1>0, <1>4, <2>2, <2>5, <3>1, InstallsAdd
  <2>8. check.version \notin saved
    <3>1. check.version > check.newest /\ \A v \in saved : v <= check.newest
      BY <1>0, <1>4 DEF ChecksFit
    <3>2. check.version \in Nat /\ check.newest \in Nat
      BY <2>1, NumbersAre DEF PassInv, WorkTypes, CheckTypes
    <3> QED
      BY <3>1, <3>2
  <2>9. ChecksFit'
    BY <1>1, <1>4, <2>1, <2>8 DEF ChecksFit
  <2> QED
    BY <1>1, <1>2, <2>1, <2>5, <2>6, <2>7, <2>9, FitsByQueueing
<1> QED
  BY <1>1, <1>3, <1>4

(* Through Clear, which is refused while anyone reads.                      *)
LEMMA ClearFits ==
    ASSUME PassInv, ReleasesInv, Clear
    PROVE  ReleasesInv'
<1>1. /\ disk' = disk /\ saved' = saved /\ job' = job /\ stuck' = stuck
      /\ scanned' = scanned /\ repair' = repair /\ update' = update
      /\ check' = check /\ queue' = Append(queue, [kind |-> "clear"])
  BY DEF Clear, workVars
<1>2. PassInv'
  BY ClearKeeps
<1>0. FolderTypes /\ ScanIsFirst /\ InstallsFit /\ ScanIsAwaited /\ ChecksFit
      /\ JobFits /\ FolderTypes' /\ JobFits'
  BY <1>2 DEF PassInv, ReleasesInv
<1> DEFINE j == [kind |-> "clear"]
<1>3. j \in Jobs /\ j.kind = "clear" /\ queue' = Append(queue, j)
  BY <1>1 DEF Jobs
<1> HIDE DEF j
<1>4. Queues(<<j>>) /\ DOMAIN <<j>> = {1} /\ <<j>>[1] = j
  BY <1>0, <1>3, QueuesOne
<1>5. \A i \in DOMAIN <<j>> : <<j>>[i].kind \in {"retain", "clear"}
  BY <1>3, <1>4
<1>6. Grows /\ Extends
  BY <1>0, <1>4, <1>5, QueuesExtend
<1>7. ScanIsFirst' /\ InstallsFit'
  BY <1>0, <1>1, <1>6, ScanExtends, InstallsExtend DEF KeepsCallers
<1>8. ChecksFit'
  <2>1. \A c : Placed(c)' <=> Placed(c)
    BY <1>0, <1>1, <1>6, WorkStays
  <2> QED
    BY <1>0, <1>1, <2>1 DEF ChecksFit
<1> QED
  BY <1>0, <1>1, <1>2, <1>6, <1>7, <1>8, FitsByQueueing DEF ScanIsAwaited

LEMMA SameFits ==
    ASSUME PassInv, PassInv', ReleasesInv, disk' = disk, saved' = saved, queue' = queue,
           job' = job, scanned' = scanned, check' = check, repair' = repair, update' = update
    PROVE  ReleasesInv'
<1>0. FolderTypes /\ ScanIsFirst /\ InstallsFit /\ ScanIsAwaited /\ ChecksFit
  BY DEF PassInv, ReleasesInv
<1>1. Grows /\ ScanIsFirst' /\ InstallsFit'
  BY <1>0, NothingQueued DEF KeepsCallers
<1>2. ChecksFit'
  BY <1>0 DEF ChecksFit, Placed
<1> QED
  BY <1>0, <1>1, <1>2, FitsByQueueing DEF ScanIsAwaited

(* After a restart nothing is on the list and nobody reads.                 *)
LEMMA RestartFits ==
    ASSUME PassInv, Restart
    PROVE  ReleasesInv'
<1>1. /\ saved' = {} /\ job' = Ready /\ scanned' = FALSE /\ check' = NoCheck
      /\ queue' = <<[kind |-> "scan"]>>
      /\ repair' = [v \in Versions |-> "none"] /\ update' = [u \in Updates |-> NoUpdate]
  BY DEF Restart
<1> DEFINE j == [kind |-> "scan"]
<1>2. j.kind = "scan" /\ queue' = <<j>>
  BY <1>1
<1> HIDE DEF j
<1>3. DOMAIN queue' = {1} /\ queue'[1] = j /\ queue' # <<>>
  BY <1>2
<1>4. /\ \A u \in Updates : update'[u].at = "idle"
      /\ \A v \in Versions : repair'[v] = "none"
      /\ check'.at = "idle" /\ job'.at = "ready"
  BY <1>1, NoUpdateIs, NoCheckIs, ReadyIs
<1>5. ScanIsFirst' /\ ScanIsAwaited'
  BY <1>1, <1>2, <1>3, <1>4 DEF ScanIsFirst, ScanIsAwaited
<1>6. InstallsFit'
  BY <1>2, <1>3 DEF InstallsFit, InstallOf
<1>7. HeldFits'
  BY <1>4 DEF HeldFits, Promised, Reading, Holds
<1>8. SwapFits' /\ RepairsFit' /\ ChecksFit'
  BY <1>4 DEF SwapFits, RepairsFit, ChecksFit
<1>9. OnDiskIsSaved'
  BY <1>1, <1>2, <1>3 DEF OnDiskIsSaved, Scanning
<1> QED
  BY <1>5, <1>6, <1>7, <1>8, <1>9 DEF ReleasesInv

LEMMA ReleasesInvInit == ReleasesInit => ReleasesInv
<1> SUFFICES ASSUME ReleasesInit PROVE ReleasesInv
  OBVIOUS
<1>1. /\ saved = {} /\ job = Ready /\ scanned = FALSE /\ check = NoCheck
      /\ queue = <<[kind |-> "scan"]>>
      /\ repair = [v \in Versions |-> "none"] /\ update = [u \in Updates |-> NoUpdate]
  BY DEF ReleasesInit
<1> DEFINE j == [kind |-> "scan"]
<1>2. j.kind = "scan" /\ queue = <<j>>
  BY <1>1
<1> HIDE DEF j
<1>3. DOMAIN queue = {1} /\ queue[1] = j /\ queue # <<>>
  BY <1>2
<1>4. /\ \A u \in Updates : update[u].at = "idle"
      /\ \A v \in Versions : repair[v] = "none"
      /\ check.at = "idle" /\ job.at = "ready"
  BY <1>1, NoUpdateIs, NoCheckIs, ReadyIs
<1>5. ScanIsFirst /\ ScanIsAwaited
  BY <1>1, <1>2, <1>3, <1>4 DEF ScanIsFirst, ScanIsAwaited
<1>6. InstallsFit
  BY <1>2, <1>3 DEF InstallsFit, InstallOf
<1>7. HeldFits
  BY <1>4 DEF HeldFits, Promised, Reading, Holds
<1>8. SwapFits /\ RepairsFit /\ ChecksFit
  BY <1>4 DEF SwapFits, RepairsFit, ChecksFit
<1>9. OnDiskIsSaved
  BY <1>1, <1>2, <1>3 DEF OnDiskIsSaved, Scanning
<1> QED
  BY <1>5, <1>6, <1>7, <1>8, <1>9 DEF ReleasesInv

---------------------------------------------------------------------------
(* A step within a job that moves no update's version, and no repair.       *)
LEMMA FitsWithin ==
    ASSUME PassInv, ReleasesInv, queue' = queue, scanned' = scanned, check' = check,
           repair' = repair,
           \A u \in Updates : /\ update'[u].at = update[u].at
                              /\ update'[u].version = update[u].version
                              /\ update'[u].sure = update[u].sure,
           \A v \in Reading : v \in Versions \ Doomed => v \notin Doomed' /\ (There(v) => There(v)'),
           \A v \in Versions : repair[v] # "none" /\ v \in saved => v \in saved',
           SwapFits', ChecksFit', OnDiskIsSaved'
    PROVE  ReleasesInv'
<1>0. FolderTypes /\ ScanIsFirst /\ InstallsFit /\ ScanIsAwaited /\ HeldFits /\ RepairsFit
  BY DEF PassInv, ReleasesInv
<1>1. ScanIsFirst' /\ InstallsFit'
  BY <1>0, NothingQueued DEF KeepsCallers
<1>2. FewerRead
  BY DEF FewerRead, Holds
<1>3. HeldFits'
  BY <1>0, <1>2, HeldStays
<1>4. RepairsFit'
  BY <1>0, RepairsStay
<1>5. ScanIsAwaited'
  BY <1>0 DEF ScanIsAwaited
<1> QED
  BY <1>1, <1>3, <1>4, <1>5 DEF ReleasesInv

(* A pass starts with nothing that is read among what it deletes.           *)
LEMMA StartFits ==
    ASSUME PassInv, ReleasesInv, StartDeleting, released' = released
    PROVE  ReleasesInv'
<1>1. /\ disk' = disk /\ saved' = saved /\ queue' = queue /\ scanned' = scanned
      /\ check' = check /\ repair' = repair /\ update' = update /\ faults' = faults
      /\ queue # <<>>
      /\ \/ job = Ready /\ queue[1].kind = "retain" /\ Prunes
         \/ job.at = "sweeps" /\ queue[1].kind \in {"scan", "install"} /\ Prunes
         \/ job = Ready /\ queue[1].kind = "clear" /\ job' = Deletes("clear", saved)
            /\ stuck' = stuck
  BY StartIs
<1>2. PassInv'
  BY StartKeeps
<1>0. /\ saved \in SUBSET Versions /\ Ready.at = "ready" /\ 0 \notin Versions
      /\ ChecksFit /\ OnDiskIsSaved /\ queue' \in Seq(Jobs) /\ JobFits'
  BY <1>2, ReadyIs, NumbersAre DEF PassInv, FolderTypes, ReleasesInv
<1>3. /\ job'.at = "deletes"
      /\ \A v \in Reading : v \in Versions => v \notin Doomed'
  <2>1. Doomed' = {job'.going} \cup
          (IF job'.at = "deletes" /\ queue'[1].kind = "clear" THEN {} ELSE job'.rest)
    BY <1>0, DoomedNext
  <2>2. CASE Prunes /\ queue[1].kind # "clear"
    <3> DEFINE beyond == BeyondKept(saved, Reading)
    <3>1. beyond \in SUBSET Versions /\ \A v \in Reading : v \notin beyond
      BY <1>0 DEF BeyondKept
    <3>2. job' = Deletes("retain", beyond)
      BY <2>2 DEF Prunes
    <3> HIDE DEF beyond
    <3>3. /\ job'.at = "deletes" /\ job'.rest \subseteq beyond
          /\ job'.going # 0 => job'.going \in beyond
      BY <3>1, <3>2, DeletesIs
    <3> QED
      BY <1>0, <2>1, <3>1, <3>3
  <2>3. CASE queue[1].kind = "clear" /\ job' = Deletes("clear", saved)
    <3>1. /\ job'.at = "deletes" /\ (job'.going # 0 => job'.going \notin Reading)
      BY <1>0, <2>3, DeletesIs
    <3> QED
      BY <1>0, <1>1, <2>1, <2>3, <3>1
  <2> QED
    BY <1>1, <2>2, <2>3
<1>4. ~Scanning /\ ~Scanning'
  BY <1>0, <1>1, <1>3 DEF Scanning
<1>5. \A v : There(v)' <=> There(v)
  BY <1>1, <1>4 DEF There
<1>6. ChecksFit'
  <2>1. Placed("check") => Placed("check")'
    BY <1>0, <1>1, <1>3 DEF Placed
  <2> QED
    BY <1>0, <1>1, <2>1 DEF ChecksFit
<1>7. OnDiskIsSaved'
  BY <1>0, <1>1, <1>4 DEF OnDiskIsSaved, OnDisk
<1>8. SwapFits'
  BY <1>3 DEF SwapFits
<1> QED
  BY <1>1, <1>3, <1>5, <1>6, <1>7, <1>8, FitsWithin

(* After the scan the list is what is on the disk.                          *)
LEMMA ScanFits ==
    ASSUME PassInv, ReleasesInv, Scan, released' = released
    PROVE  ReleasesInv'
<1>1. /\ queue' = queue /\ stuck' = stuck /\ scanned' = scanned /\ check' = check
      /\ repair' = repair /\ update' = update
      /\ job = Ready /\ queue # <<>> /\ queue[1].kind = "scan"
      /\ saved' = {v \in Versions : OnDisk(v)} /\ job' = [Ready EXCEPT !.at = "sweeps"]
      /\ \/ disk' = [v \in Versions |-> IF OnDisk(v) THEN disk[v] ELSE "none"] /\ faults' = faults
         \/ Fault /\ disk' = disk
  BY ScanIs
<1>2. PassInv'
  BY ScanKeeps
<1>0. /\ queue \in Seq(Jobs) /\ queue' \in Seq(Jobs) /\ JobFits' /\ 0 \notin Versions
      /\ ScanIsFirst /\ ScanIsAwaited /\ ChecksFit
  BY <1>2, NumbersAre DEF PassInv, FolderTypes, ReleasesInv
<1>3. ~scanned
  <2>1. 1 \in DOMAIN queue
    BY <1>0, <1>1, ShrunkQueue
  <2> QED
    BY <1>0, <1>1, <2>1 DEF ScanIsFirst
<1>4. job'.at = "sweeps" /\ job'.rest = {} /\ job'.going = 0 /\ Ready.at = "ready"
  BY <1>1, ReadyIs
<1>5. Scanning /\ ~Scanning'
  BY <1>1, <1>4 DEF Scanning
<1>6. \A v \in Versions : v \notin Doomed' /\ (There(v) => There(v)')
  <2>1. Doomed' = {0}
    BY <1>0, <1>4, DoomedNext
  <2> QED
    BY <1>0, <1>1, <1>5, <2>1 DEF There
<1>7. OnDiskIsSaved'
  <2>1. ASSUME NEW v \in Versions, OnDisk(v)' PROVE OnDisk(v)
    <3>1. CASE disk' = disk
      BY <2>1, <3>1 DEF OnDisk
    <3>2. CASE disk' = [w \in Versions |-> IF OnDisk(w) THEN disk[w] ELSE "none"]
      <4>1. disk'[v] = IF OnDisk(v) THEN disk[v] ELSE "none"
        BY <3>2
      <4>2. disk'[v] # "none"
        BY <2>1 DEF OnDisk
      <4> QED
        BY <4>1, <4>2
    <3> QED
      BY <1>1, <3>1, <3>2
  <2> QED
    BY <1>1, <2>1 DEF OnDiskIsSaved
<1>8. SwapFits'
  BY <1>4 DEF SwapFits
<1>9. ChecksFit' /\ \A v \in Versions : repair[v] = "none"
  BY <1>0, <1>1, <1>3 DEF ScanIsAwaited, ChecksFit
<1> QED
  BY <1>1, <1>6, <1>7, <1>8, <1>9, FitsWithin

(* What is deleted was not read, nor being repaired.                        *)
LEMMA DeleteFits ==
    ASSUME PassInv, ReleasesInv, Delete, released' = released
    PROVE  ReleasesInv'
<1>1. /\ queue' = queue /\ scanned' = scanned /\ check' = check
      /\ repair' = repair /\ update' = update
      /\ job.at = "deletes" /\ job.going \in Versions /\ queue # <<>>
      /\ job' = Deletes(queue[1].kind, job.rest)
      /\ \/ /\ disk' = [disk EXCEPT ![job.going] = "none"] /\ saved' = saved \ {job.going}
            /\ stuck' = stuck /\ faults' = faults
         \/ /\ Fault /\ stuck' = stuck \cup {job.going} /\ saved' = saved
            /\ \E left \in LeftOf(disk[job.going]) : disk' = [disk EXCEPT ![job.going] = left]
  BY DeleteIs
<1>2. PassInv'
  BY DeleteKeeps
<1>0. /\ FolderTypes /\ JobFits /\ JobFits' /\ queue' \in Seq(Jobs) /\ 0 \notin Versions
      /\ Ready.at = "ready"
      /\ ChecksFit /\ OnDiskIsSaved /\ HeldFits /\ RepairsFit
      /\ disk \in [Versions -> Folders] /\ job.rest \in SUBSET Versions
  BY <1>2, ReadyIs, NumbersAre DEF PassInv, FolderTypes, JobTypes, ReleasesInv
<1>3. Doomed = {job.going} \cup (IF queue[1].kind = "clear" THEN {} ELSE job.rest)
  BY <1>0, <1>1, DoomedIs
<1>4. /\ job'.at = "deletes" /\ job'.rest \subseteq job.rest
      /\ job'.going # 0 => job'.going \in job.rest
      /\ queue[1].kind = "clear" /\ job'.going # 0 => job'.going \notin Reading
  BY <1>0, <1>1, DeletesIs
<1>5. Doomed' = {job'.going} \cup (IF queue[1].kind = "clear" THEN {} ELSE job'.rest)
  BY <1>0, <1>1, <1>4, DoomedNext
<1>6. \A v \in Reading : v \in Versions \ Doomed => v \notin Doomed'
  BY <1>0, <1>3, <1>4, <1>5
<1>7. ~Scanning /\ ~Scanning'
  BY <1>0, <1>1, <1>4 DEF Scanning
<1>8. \A v : v # job.going /\ v \in saved => v \in saved'
  BY <1>1
<1>9. \A v \in Reading : v \in Versions \ Doomed => (There(v) => There(v)')
  BY <1>3, <1>7, <1>8 DEF There
<1>10. \A v \in Versions : repair[v] # "none" /\ v \in saved => v \in saved'
  <2> SUFFICES ASSUME NEW v \in Versions, repair[v] # "none", v \in saved PROVE v \in saved'
    OBVIOUS
  <2>1. v \in Reading
    BY <1>0, ReadIs
  <2>2. v # job.going
    BY <1>0, <1>3, <2>1 DEF HeldFits
  <2> QED
    BY <1>8, <2>2
<1>11. saved' \subseteq saved
  BY <1>1
<1>12. ChecksFit'
  <2>1. Placed("check") => Placed("check")'
    BY <1>1, <1>4 DEF Placed
  <2> QED
    BY <1>0, <1>1, <1>11, <2>1 DEF ChecksFit
<1>13. OnDiskIsSaved'
  <2>1. ASSUME NEW v \in Versions, OnDisk(v)' PROVE v \in saved'
    <3>1. CASE disk' = [disk EXCEPT ![job.going] = "none"] /\ saved' = saved \ {job.going}
      <4>1. v # job.going /\ OnDisk(v)
        BY <1>0, <2>1, <3>1 DEF OnDisk
      <4>2. v \in saved
        BY <1>0, <1>7, <4>1 DEF OnDiskIsSaved
      <4> QED
        BY <1>8, <4>1, <4>2
    <3>2. CASE /\ saved' = saved
               /\ \E left \in LeftOf(disk[job.going]) : disk' = [disk EXCEPT ![job.going] = left]
      <4>1. PICK left \in LeftOf(disk[job.going]) : disk' = [disk EXCEPT ![job.going] = left]
        BY <3>2
      <4>2. disk[job.going] \in Folders
        BY <1>0, <1>1
      <4>3. left \in {"good", "damaged"} => disk[job.going] \in {"good", "damaged"}
        BY <4>2, LeftIs
      <4>4. OnDisk(v)
        BY <1>0, <1>1, <2>1, <4>1, <4>3 DEF OnDisk
      <4> QED
        BY <1>0, <1>7, <3>2, <4>4 DEF OnDiskIsSaved
    <3> QED
      BY <1>1, <3>1, <3>2
  <2> QED
    BY <2>1 DEF OnDiskIsSaved
<1>14. SwapFits'
  BY <1>4 DEF SwapFits
<1> QED
  BY <1>1, <1>6, <1>9, <1>10, <1>12, <1>13, <1>14, FitsWithin

---------------------------------------------------------------------------
(* The first of the queue ends: the rest of it is as it was.                *)
OneIsOver ==
    \/ repair' = repair /\ check' = check
    \/ repair' = repair /\ InstallOf(queue, 1, "check")
    \/ /\ InstallOf(queue, 1, "repair") /\ check' = check
       /\ repair' = [repair EXCEPT ![queue[1].version] = "none"]

LEMMA RestIsKept ==
    ASSUME FolderTypes, WorkTypes, InstallsFit, queue # <<>>, OneIsOver
    PROVE  \A i \in DOMAIN queue : i # 1 =>
             /\ InstallOf(queue, i, "repair") => repair'[queue[i].version] = "installs"
             /\ InstallOf(queue, i, "check") =>
                  check'.at = "installs" /\ check'.version = queue[i].version
<1>0. queue \in Seq(Jobs) /\ repair \in [Versions -> {"none", "downloads", "installs"}]
      /\ 1 \in DOMAIN queue
  BY HeadIs DEF FolderTypes, WorkTypes
<1> SUFFICES ASSUME NEW i \in DOMAIN queue, i # 1
             PROVE  /\ InstallOf(queue, i, "repair") => repair'[queue[i].version] = "installs"
                    /\ InstallOf(queue, i, "check") =>
                         check'.at = "installs" /\ check'.version = queue[i].version
  OBVIOUS
<1>1. /\ InstallOf(queue, i, "repair") => repair[queue[i].version] = "installs"
      /\ InstallOf(queue, i, "check") => check.at = "installs" /\ check.version = queue[i].version
  BY DEF InstallsFit
<1>2. /\ InstallOf(queue, i, "repair") /\ InstallOf(queue, 1, "repair")
           => queue[i].version # queue[1].version
      /\ InstallOf(queue, i, "check") => ~InstallOf(queue, 1, "check")
  BY <1>0, OtherInstalls
<1>3. InstallOf(queue, i, "repair") => queue[i].version \in Versions
  <2>1. queue[i] \in Jobs
    BY <1>0
  <2> QED
    BY <2>1, JobKinds DEF InstallOf
<1>4. CASE repair' = repair /\ check' = check
  BY <1>1, <1>4
<1>5. CASE repair' = repair /\ InstallOf(queue, 1, "check")
  BY <1>1, <1>2, <1>5
<1>6. CASE /\ InstallOf(queue, 1, "repair") /\ check' = check
           /\ repair' = [repair EXCEPT ![queue[1].version] = "none"]
  BY <1>0, <1>1, <1>2, <1>3, <1>6
<1> QED
  BY <1>4, <1>5, <1>6 DEF OneIsOver

LEMMA FitsAfterwards ==
    ASSUME PassInv, PassInv', ReleasesInv, queue # <<>>, Shrinks, OneIsOver, FewerRead,
           job' = Ready, saved' = saved, scanned', ~Scanning,
           RepairsFit', ChecksFit', \A v \in Versions : OnDisk(v)' => v \in saved
    PROVE  ReleasesInv'
<1>0. /\ FolderTypes /\ WorkTypes /\ InstallsFit /\ ScanIsFirst /\ HeldFits
      /\ queue' \in Seq(Jobs) /\ JobFits' /\ 0 \notin Versions
      /\ Ready.at = "ready" /\ Ready.going = 0 /\ Ready.rest = {}
  BY ReadyIs, NumbersAre DEF PassInv, ReleasesInv, FolderTypes
<1>1. ScanIsFirst'
  BY <1>0, ScanShrinks
<1>2. InstallsFit'
  BY <1>0, RestIsKept, InstallsShrink
<1>3. ~Scanning'
  <2> DEFINE q == queue'
  <2>1. q \in Seq(Jobs) /\ \A i \in DOMAIN q : q[i].kind # "scan"
    BY <1>0, <1>1 DEF ScanIsFirst
  <2> HIDE DEF q
  <2>2. q # <<>> => q[1].kind # "scan"
    BY <2>1, ShrunkQueue
  <2> USE DEF q
  <2> QED
    BY <2>2 DEF Scanning
<1>4. Doomed' = {0}
  BY <1>0, DoomedNext
<1>5. HeldFits'
  <2>1. \A v \in Reading : v \in Versions \ Doomed => v \notin Doomed' /\ (There(v) => There(v)')
    BY <1>0, <1>3, <1>4 DEF There
  <2> QED
    BY <1>0, <2>1, HeldStays
<1>6. SwapFits'
  BY <1>0 DEF SwapFits
<1>7. ScanIsAwaited'
  BY DEF ScanIsAwaited
<1>8. OnDiskIsSaved'
  BY DEF OnDiskIsSaved
<1> QED
  BY <1>1, <1>2, <1>5, <1>6, <1>7, <1>8 DEF ReleasesInv

LEMMA RepairsAfter ==
    ASSUME WorkTypes, RepairsFit, saved' = saved,
           \/ repair' = repair /\ \A u \in Updates : update[u].at = "repairs" => update'[u] = update[u]
           \/ \E v \in Versions :
                /\ repair' = [repair EXCEPT ![v] = "none"]
                /\ \A u \in Updates : update[u].at = "repairs" /\ update[u].version # v
                     => update'[u] = update[u]
    PROVE  RepairsFit'
<1>1. CASE repair' = repair /\ \A u \in Updates : update[u].at = "repairs" => update'[u] = update[u]
  BY <1>1, RepairsStay
<1>2. ASSUME NEW v \in Versions, repair' = [repair EXCEPT ![v] = "none"],
             \A u \in Updates : update[u].at = "repairs" /\ update[u].version # v
               => update'[u] = update[u]
      PROVE  RepairsFit'
  <2>1. \A w \in Versions : repair'[w] # "none" => w # v /\ repair[w] # "none"
    BY <1>2 DEF WorkTypes
  <2> QED
    BY <1>2, <2>1, RepairsStay
<1> QED
  BY <1>1, <1>2

(* Through the end of a job, whose caller waits no more.                    *)
LEMMA EndFits ==
    ASSUME PassInv, ReleasesInv, EndOfPass, released' = released
    PROVE  ReleasesInv'
<1>1. /\ disk' = disk /\ saved' = saved /\ stuck' = stuck /\ faults' = faults
      /\ job.at = "deletes" /\ job.going = 0 /\ queue # <<>> /\ job' = Ready
      /\ queue' = Tail(queue) /\ scanned' = (scanned \/ queue[1].kind = "scan")
      /\ EndCases
  BY EndIs
<1>2. PassInv'
  BY EndKeeps
<1>0. /\ FolderTypes /\ WorkTypes /\ RetainsFit /\ ScanIsFirst /\ RepairsFit /\ ChecksFit
      /\ InstallsFit /\ OnDiskIsSaved /\ NoCheck.at = "idle"
      /\ Ready.at = "ready" /\ queue[1] \in Jobs /\ 1 \in DOMAIN queue
      /\ update \in [Updates -> UpdateTypes]
  BY <1>1, ReadyIs, NoCheckIs, HeadIs DEF PassInv, ReleasesInv, WorkTypes
<1>3. scanned'
  BY <1>0, <1>1 DEF ScanIsFirst
<1>4. Shrinks
  BY <1>0, <1>1, EndsWithNone, EndsShrink
<1>5. OneIsOver
  BY <1>1 DEF EndCases, OneIsOver, InstallOf
<1>6. FewerRead /\ RepairsFit'
  <2>1. CASE update' = update /\ repair' = repair
    <3>1. FewerRead
      BY <2>1 DEF FewerRead, Holds
    <3>2. RepairsFit'
      BY <1>0, <1>1, <2>1, RepairsAfter
    <3> QED
      BY <3>1, <3>2
  <2>2. CASE /\ queue[1].kind = "retain" /\ repair' = repair
             /\ update' = [update EXCEPT ![queue[1].update] = NoUpdate]
    <3> DEFINE w == queue[1].update
    <3>1. w \in Updates /\ update[w].at = "lets go"
      BY <1>0, <2>2, JobKinds DEF RetainsFit
    <3>2. update' = [update EXCEPT ![w] = NoUpdate]
      BY <2>2
    <3> HIDE DEF w
    <3>3. /\ \A u \in Updates \ {w} : update'[u] = update[u]
          /\ update'[w].at = "idle"
      BY <1>0, <3>1, <3>2, NoUpdateIs
    <3>4. FewerRead
      BY <3>3 DEF FewerRead, Holds
    <3>5. \A u \in Updates : update[u].at = "repairs" => update'[u] = update[u]
      BY <3>1, <3>3
    <3>6. RepairsFit'
      BY <1>0, <1>1, <2>2, <3>5, RepairsAfter
    <3> QED
      BY <3>4, <3>6
  <2>3. CASE /\ queue[1].kind = "install" /\ Rejoins(queue[1].version)
             /\ repair' = [repair EXCEPT ![queue[1].version] = "none"]
    <3> DEFINE v == queue[1].version
    <3>1. v \in Versions
      BY <1>0, <2>3, JobKinds
    <3>2. Rejoins(v) /\ repair' = [repair EXCEPT ![v] = "none"]
      BY <2>3
    <3> HIDE DEF v
    <3>3. \A u \in Updates : update[u].at = "repairs" /\ update[u].version # v
            => update'[u] = update[u]
      BY <3>2 DEF Rejoins, Joined
    <3>4. RepairsFit'
      BY <1>0, <1>1, <3>1, <3>2, <3>3, RepairsAfter
    <3>5. FewerRead
      <4>1. \A u \in Updates : update'[u] = update[u]
              \/ (update[u].at = "repairs" /\ update'[u].version = update[u].version
                  /\ update'[u].sure = update[u].sure)
        BY <3>2 DEF Rejoins, Joined
      <4> QED
        BY <4>1 DEF FewerRead, Holds
    <3> QED
      BY <3>4, <3>5
  <2> QED
    BY <1>1, <2>1, <2>2, <2>3 DEF EndCases
<1>7. ChecksFit'
  <2>1. ~InstallOf(queue, 1, "check") => check' = check
    BY <1>1 DEF EndCases, InstallOf
  <2>2. InstallOf(queue, 1, "check") => check' = NoCheck
    BY <1>1 DEF EndCases, InstallOf
  <2>3. Placed("check") => InstallOf(queue, 1, "check")
    BY DEF Placed, InstallOf
  <2>4. CASE InstallOf(queue, 1, "check")
    BY <1>0, <2>2, <2>4 DEF ChecksFit
  <2>5. CASE ~InstallOf(queue, 1, "check")
    BY <1>0, <1>1, <1>3, <2>1, <2>3, <2>5 DEF ChecksFit
  <2> QED
    BY <2>4, <2>5
<1>8. ~Scanning
  BY <1>0, <1>1 DEF Scanning
<1>9. \A v \in Versions : OnDisk(v)' => v \in saved
  BY <1>0, <1>1, <1>8 DEF OnDiskIsSaved, OnDisk
<1> QED
  BY <1>1, <1>2, <1>3, <1>4, <1>5, <1>6, <1>7, <1>8, <1>9, FitsAfterwards

(* Through an install that fails.                                           *)
LEMMA FailFits ==
    ASSUME PassInv, ReleasesInv, queue # <<>>, queue[1].kind = "install", Job \in Versions, FailsHere,
           released' = released, PassInv'
    PROVE  ReleasesInv'
<1>1. /\ saved' = saved /\ stuck' = stuck /\ scanned' = scanned /\ job' = Ready
      /\ FailCases
  BY FailIs DEF FailsHere
<1>2. job.at \in {"ready", "swap", "place", "back"}
  BY ReadyIs DEF FailsHere
<1>0. /\ FolderTypes /\ WorkTypes /\ ScanIsFirst /\ RepairsFit /\ ChecksFit /\ SwapFits
      /\ InstallsFit /\ OnDiskIsSaved /\ NoCheck.at = "idle" /\ 1 \in DOMAIN queue
      /\ disk \in [Versions -> Folders] /\ job.aside \in Folders /\ Ready.at = "ready"
  BY ReadyIs, NoCheckIs, HeadIs DEF PassInv, ReleasesInv, FolderTypes, JobTypes
<1>3. scanned' /\ ~Scanning
  BY <1>0, <1>1 DEF ScanIsFirst, Scanning
<1>4. Shrinks
  <2>1. CASE queue' = Tail(queue)
    BY <1>0, <2>1, EndsWithNone, EndsShrink
  <2>2. CASE queue' = Tail(queue) \o Retains(Joined(Job))
    <3> DEFINE set == Joined(Job)
    <3>1. set \in SUBSET Updates /\ queue' = Tail(queue) \o Retains(set)
      BY <2>2 DEF Joined
    <3> HIDE DEF set
    <3>2. Ends(Retains(set)) /\ \A j \in DOMAIN Retains(set) : Retains(set)[j].kind = "retain"
      BY <3>1, RetainsIs DEF Ends
    <3> QED
      BY <1>0, <3>2, EndsShrink
  <2> QED
    BY <1>1, <2>1, <2>2 DEF FailCases, Job
<1>5. OneIsOver
  BY <1>1 DEF FailCases, OneIsOver, InstallOf
<1>6. FewerRead /\ RepairsFit'
  <2>1. CASE update' = update /\ repair' = repair
    <3>1. FewerRead
      BY <2>1 DEF FewerRead, Holds
    <3>2. RepairsFit'
      BY <1>0, <1>1, <2>1, RepairsAfter
    <3> QED
      BY <3>1, <3>2
  <2>2. CASE LetGo(Joined(Job), "failed") /\ repair' = [repair EXCEPT ![Job] = "none"]
    <3>1. FewerRead
      BY <2>2 DEF LetGo, FewerRead, Holds
    <3>2. \A u \in Updates : update[u].at = "repairs" /\ update[u].version # Job
            => update'[u] = update[u]
      BY <2>2 DEF LetGo, Joined
    <3>3. RepairsFit'
      BY <1>0, <1>1, <2>2, <3>2, RepairsAfter
    <3> QED
      BY <3>1, <3>3
  <2> QED
    BY <1>1, <2>1, <2>2 DEF FailCases, Job
<1>7. ChecksFit'
  <2>1. check' = check \/ check' = NoCheck
    BY <1>1 DEF FailCases
  <2>2. ~Placed("check")
    BY <1>2 DEF Placed
  <2> QED
    BY <1>0, <1>1, <1>3, <2>1, <2>2 DEF ChecksFit
<1>8. ASSUME NEW v \in Versions, OnDisk(v)' PROVE v \in saved
  <2>0. OnDisk(v) => v \in saved
    BY <1>0, <1>3 DEF OnDiskIsSaved
  <2>1. CASE disk' = disk
    BY <1>8, <2>0, <2>1 DEF OnDisk
  <2>2. CASE \E left \in LeftOf(disk[Job]) : disk' = [disk EXCEPT ![Job] = left]
    <3>1. PICK left \in LeftOf(disk[Job]) : disk' = [disk EXCEPT ![Job] = left]
      BY <2>2
    <3>2. disk[Job] \in Folders
      BY <1>0
    <3>3. left \in {"good", "damaged"} => disk[Job] \in {"good", "damaged"}
      BY <3>2, LeftIs
    <3>4. OnDisk(v)
      BY <1>0, <1>8, <3>1, <3>3 DEF OnDisk
    <3> QED
      BY <2>0, <3>4
  <2>3. CASE job.at = "back" /\ disk' = [disk EXCEPT ![Job] = job.aside]
    <3>1. CASE v = Job
      <4>1. InstallOf(queue, 1, "repair")
        BY <1>0, <2>3 DEF SwapFits, InstallOf
      <4>2. repair[Job] = "installs"
        BY <1>0, <4>1 DEF InstallsFit, Job
      <4> QED
        BY <1>0, <3>1, <4>2 DEF RepairsFit
    <3>2. CASE v # Job
      <4>1. OnDisk(v)
        BY <1>0, <1>8, <2>3, <3>2 DEF OnDisk
      <4> QED
        BY <2>0, <4>1
    <3> QED
      BY <3>1, <3>2
  <2> QED
    BY <2>1, <2>2, <2>3 DEF FailsHere
<1> QED
  BY <1>1, <1>3, <1>4, <1>5, <1>6, <1>7, <1>8, FitsAfterwards

LEMMA FitsInInstall ==
    ASSUME PassInv, PassInv', ReleasesInv, queue # <<>>, queue[1].kind = "install", Same,
           job.at \notin {"sweeps", "deletes"},
           job'.at \in {"swap", "place", "replace", "back"},
           \A u \in Updates : /\ update'[u].at = update[u].at
                              /\ update'[u].version = update[u].version
                              /\ update'[u].sure = update[u].sure,
           \A v \in Versions : OnDisk(v)' => OnDisk(v),
           SwapFits'
    PROVE  ReleasesInv'
<1>1. /\ saved' = saved /\ queue' = queue /\ stuck' = stuck /\ scanned' = scanned
      /\ check' = check /\ repair' = repair
  BY DEF Same
<1>0. /\ FolderTypes /\ JobFits' /\ queue' \in Seq(Jobs) /\ 0 \notin Versions
      /\ ChecksFit /\ OnDiskIsSaved
  BY NumbersAre DEF PassInv, FolderTypes, ReleasesInv
<1>2. ~Scanning /\ ~Scanning'
  BY <1>1 DEF Scanning
<1>3. Doomed' = {0}
  <2>1. job'.going = 0 /\ job'.rest = {}
    BY <1>0 DEF JobFits
  <2> QED
    BY <1>0, <2>1, DoomedNext
<1>4. \A v \in Reading : v \in Versions \ Doomed => v \notin Doomed' /\ (There(v) => There(v)')
  BY <1>0, <1>1, <1>2, <1>3 DEF There
<1>5. ChecksFit'
  BY <1>0, <1>1 DEF ChecksFit, Placed
<1>6. OnDiskIsSaved'
  BY <1>0, <1>1, <1>2 DEF OnDiskIsSaved
<1> QED
  BY <1>1, <1>4, <1>5, <1>6, FitsWithin

(* Through the steps of an install: only a repair swaps what is saved.      *)
LEMMA InstallFits ==
    ASSUME PassInv, ReleasesInv, Unpacks \/ MoveAside \/ Place \/ PutBack, released' = released
    PROVE  ReleasesInv'
<1>1. /\ queue # <<>> /\ queue[1].kind = "install" /\ Job \in Versions
      /\ Unpacked \/ SetAside \/ GivenUp \/ InPlace \/ PutOff \/ FailsHere
  BY InstallIs
<1>2. PassInv'
  BY InstallKeeps
<1>0. /\ FolderTypes /\ WorkTypes /\ JobFits' /\ queue' \in Seq(Jobs) /\ 0 \notin Versions
      /\ ChecksFit /\ OnDiskIsSaved /\ SwapFits /\ InstallsFit /\ RepairsFit /\ ScanIsFirst
      /\ disk \in [Versions -> Folders] /\ job \in JobTypes /\ Ready.at = "ready"
      /\ 1 \in DOMAIN queue /\ queue[1] \in Jobs
  BY <1>1, <1>2, HeadIs, ReadyIs, NumbersAre DEF PassInv, FolderTypes, ReleasesInv
<1>c. queue[1].caller \in {"check", "repair"}
  BY <1>0, <1>1, JobKinds
<1>3. CASE Unpacked
  <2> DEFINE step == IF Job \in saved THEN "swap" ELSE "place"
  <2>1. job = Ready /\ job' = [job EXCEPT !.at = step]
    BY <1>3 DEF Unpacked
  <2>2. Same /\ update' = update /\ disk' = disk
    BY <1>3 DEF Unpacked
  <2>3. job'.at = step
    BY <1>0, <2>1 DEF JobTypes
  <2>4. queue[1].caller = "check" => Job \notin saved
    <3> SUFFICES ASSUME queue[1].caller = "check" PROVE Job \notin saved
      OBVIOUS
    <3>1. check.at = "installs" /\ check.version = Job
      BY <1>0, <1>1 DEF InstallsFit, InstallOf, Job
    <3>2. ~Placed("check")
      BY <1>0, <2>1 DEF Placed
    <3> QED
      BY <1>0, <3>1, <3>2 DEF ChecksFit
  <2>5. step = "swap" => Job \in saved
    OBVIOUS
  <2>6. step \in {"swap", "place"}
    OBVIOUS
  <2> HIDE DEF step
  <2>7. queue' = queue
    BY <2>2 DEF Same
  <2>8. SwapFits'
    BY <1>c, <2>3, <2>4, <2>5, <2>6, <2>7 DEF SwapFits
  <2>9. \A v \in Versions : OnDisk(v)' => OnDisk(v)
    BY <2>2 DEF OnDisk
  <2> QED
    BY <1>0, <1>1, <1>2, <2>1, <2>2, <2>3, <2>6, <2>8, <2>9, FitsInInstall
<1>4. ASSUME disk' = [disk EXCEPT ![Job] = "none"]
      PROVE  \A v \in Versions : OnDisk(v)' => OnDisk(v)
  BY <1>0, <1>1, <1>4 DEF OnDisk
<1>5. CASE SetAside
  <2>1. /\ job.at = "swap" /\ Same /\ disk' = [disk EXCEPT ![Job] = "none"]
        /\ job' = [job EXCEPT !.at = "replace", !.aside = disk[Job]]
    BY <1>5 DEF SetAside
  <2>2. job'.at = "replace"
    BY <1>0, <2>1 DEF JobTypes
  <2>3. SwapFits'
    BY <1>0, <2>1, <2>2 DEF SwapFits, Same
  <2>4. \A u \in Updates : /\ update'[u].at = update[u].at
                           /\ update'[u].version = update[u].version
                           /\ update'[u].sure = update[u].sure
    BY <1>0, <1>5, MovedIs
  <2> QED
    BY <1>1, <1>2, <1>4, <2>1, <2>2, <2>3, <2>4, FitsInInstall
<1>6. CASE GivenUp
  <2> DEFINE failed == disk[Job] # "none"
  <2>1. /\ job.at = "swap" /\ Same /\ update' = update /\ disk' = [disk EXCEPT ![Job] = "none"]
        /\ job' = [job EXCEPT !.at = "place", !.failed = failed]
    BY <1>6 DEF GivenUp
  <2> HIDE DEF failed
  <2>2. job'.at = "place"
    BY <1>0, <2>1 DEF JobTypes
  <2>3. SwapFits'
    BY <2>2 DEF SwapFits
  <2> QED
    BY <1>1, <1>2, <1>4, <2>1, <2>2, <2>3, FitsInInstall
<1>7. CASE PutOff
  <2>1. /\ job.at = "replace" /\ Same /\ update' = update /\ disk' = disk
        /\ job' = [job EXCEPT !.at = "back", !.failed = TRUE]
    BY <1>7 DEF PutOff
  <2>2. job'.at = "back"
    BY <1>0, <2>1 DEF JobTypes
  <2>3. SwapFits'
    BY <1>0, <2>1, <2>2 DEF SwapFits, Same
  <2>4. \A v \in Versions : OnDisk(v)' => OnDisk(v)
    BY <2>1 DEF OnDisk
  <2> QED
    BY <1>1, <1>2, <2>1, <2>2, <2>3, <2>4, FitsInInstall
<1>8. CASE InPlace
  <2>1. /\ job.at \in {"place", "replace"}
        /\ disk' = [disk EXCEPT ![Job] = "good"] /\ saved' = saved \cup {Job}
        /\ job' = [Ready EXCEPT !.at = "sweeps"]
        /\ queue' = queue /\ stuck' = stuck /\ scanned' = scanned /\ check' = check
        /\ repair' = repair /\ update' = update /\ faults' = faults
    BY <1>8 DEF InPlace
  <2>2. job'.at = "sweeps" /\ job'.rest = {} /\ job'.going = 0
    BY <2>1, ReadyIs
  <2>3. ~Scanning /\ ~Scanning'
    BY <1>1, <2>1 DEF Scanning
  <2>4. Doomed' = {0}
    BY <1>0, <2>2, DoomedNext
  <2>5. \A v \in Reading : v \in Versions \ Doomed => v \notin Doomed' /\ (There(v) => There(v)')
    BY <1>0, <2>1, <2>3, <2>4 DEF There
  <2>6. SwapFits'
    BY <2>2 DEF SwapFits
  <2>7. OnDiskIsSaved'
    <3>1. ASSUME NEW v \in Versions, OnDisk(v)' PROVE v \in saved'
      <4>1. v = Job \/ OnDisk(v)
        BY <1>0, <2>1, <3>1 DEF OnDisk
      <4> QED
        BY <1>0, <2>1, <2>3, <4>1 DEF OnDiskIsSaved
    <3> QED
      BY <3>1 DEF OnDiskIsSaved
  <2>8. ChecksFit'
    <3>1. CASE queue[1].caller = "repair"
      <4>1. repair[Job] = "installs"
        BY <1>0, <1>1, <3>1 DEF InstallsFit, InstallOf, Job
      <4>2. Job \in saved
        BY <1>0, <1>1, <4>1 DEF RepairsFit
      <4>3. saved' = saved /\ ~Placed("check")
        BY <2>1, <4>2 DEF Placed
      <4> QED
        BY <1>0, <2>1, <4>3 DEF ChecksFit
    <3>2. CASE queue[1].caller = "check"
      <4>1. check.at = "installs"
        BY <1>0, <1>1, <3>2 DEF InstallsFit, InstallOf
      <4>2. Placed("check")'
        BY <1>1, <2>1, <2>2, <3>2 DEF Placed
      <4> QED
        BY <1>0, <2>1, <4>1, <4>2 DEF ChecksFit
    <3> QED
      BY <1>c, <3>1, <3>2
  <2> QED
    BY <2>1, <2>5, <2>6, <2>7, <2>8, FitsWithin
<1>9. CASE FailsHere
  BY <1>1, <1>2, <1>9, FailFits
<1> QED
  BY <1>1, <1>3, <1>5, <1>6, <1>7, <1>8, <1>9

(* Every step keeps the invariant, unless an update comes for what is being *)
(* deleted.                                                                 *)
LEMMA ReleasesInvStep ==
    "late" \notin Odds /\ PassInv /\ ReleasesInv /\ [ReleasesNext]_releasesVars => ReleasesInv'
<1> SUFFICES ASSUME "late" \notin Odds, PassInv, ReleasesInv, [ReleasesNext]_releasesVars
             PROVE  ReleasesInv'
  OBVIOUS
<1>0. PassInv'
  BY PassStep
<1>1. CASE UNCHANGED releasesVars
  BY <1>0, <1>1, SameFits DEF releasesVars, cacheVars, workVars
<1>2. CASE Image
  <2>1. FolderTypes /\ WorkTypes
    BY DEF PassInv
  <2> QED
    BY <1>2, <2>1, ImageIs, ImageFits
<1>3. CASE CheckSteps
  BY <1>3, CheckStepsFit
<1>4. CASE Clear
  BY <1>4, ClearFits
<1>5. CASE Folder
  <2>1. released' = released
    BY <1>5 DEF Folder
  <2>2. StartDeleting \/ Scan \/ Delete \/ EndOfPass \/ (Unpacks \/ MoveAside \/ Place \/ PutBack)
    BY <1>5 DEF Folder
  <2> QED
    BY <2>1, <2>2, StartFits, ScanFits, DeleteFits, EndFits, InstallFits
<1>6. CASE Release
  BY <1>0, <1>6, SameFits DEF Release, cacheVars
<1>7. CASE Restart
  BY <1>7, RestartFits
<1> QED
  BY <1>1, <1>2, <1>3, <1>4, <1>5, <1>6, <1>7 DEF ReleasesNext

---------------------------------------------------------------------------
(* The steps outside the folder leave it, and the job it is at.             *)
LEMMA OutsideIs ==
    ASSUME PassInv, ReleasesInv,
           Image \/ CheckSteps \/ Clear \/ Release \/ UNCHANGED releasesVars
    PROVE  /\ disk' = disk /\ saved' = saved /\ job' = job
           /\ job.at # "ready" => queue'[1] = queue[1]
<1>0. FolderTypes /\ WorkTypes /\ JobFits /\ AsksForOne
  BY DEF PassInv
<1>1. CASE Image
  <2>1. ImageFrame /\ ImageCases
    BY <1>0, <1>1, ImageIs
  <2>2. Grows
    BY <2>1, ImageQueues
  <2> QED
    BY <1>0, <2>1, <2>2 DEF ImageFrame, Grows, JobFits
<1>2. CASE CheckSteps \/ Clear
  <2>1. /\ disk' = disk /\ saved' = saved /\ job' = job
        /\ \/ queue' = queue
           \/ \E j \in Jobs : j.kind \in {"install", "clear"} /\ queue' = Append(queue, j)
    <3>1. CASE CheckSteps
      <4>1. /\ disk' = disk /\ saved' = saved /\ job' = job
            /\ \/ queue' = queue
               \/ check.at = "downloads"
                  /\ queue' = Append(queue, [kind |-> "install", version |-> check.version,
                                             caller |-> "check"])
        BY <3>1, CheckStepsIs
      <4>2. check.at = "downloads" =>
              [kind |-> "install", version |-> check.version, caller |-> "check"] \in Jobs
        BY <1>0 DEF AsksForOne, Jobs
      <4> QED
        BY <4>1, <4>2
    <3>2. CASE Clear
      <4>1. [kind |-> "clear"] \in Jobs
        BY DEF Jobs
      <4> QED
        BY <3>2, <4>1 DEF Clear
    <3> QED
      BY <1>2, <3>1, <3>2
  <2>2. CASE \E j \in Jobs : j.kind \in {"install", "clear"} /\ queue' = Append(queue, j)
    <3>1. PICK j \in Jobs : j.kind \in {"install", "clear"} /\ queue' = Append(queue, j)
      BY <2>2
    <3>2. Queues(<<j>>) /\ DOMAIN <<j>> = {1} /\ <<j>>[1] = j
      BY <1>0, <3>1, QueuesOne
    <3>3. \A i \in DOMAIN <<j>> : <<j>>[i].kind # "scan"
      BY <3>1, <3>2
    <3>4. Grows
      BY <1>0, <3>2, <3>3, QueuesGrow
    <3> QED
      BY <1>0, <2>1, <3>4 DEF Grows, JobFits
  <2> QED
    BY <2>1, <2>2
<1>3. CASE Release \/ UNCHANGED releasesVars
  BY <1>3 DEF Release, releasesVars, cacheVars
<1> QED
  BY <1>1, <1>2, <1>3

\* A version on the list is on the disk, but for the one its repair swaps.
SavedStays ==
    \A v \in saved : disk[v] = "none" =>
      job.at \in {"place", "replace", "back"} /\ queue[1].version = v
SwapInv == SavedStays /\ AsideIsKept

(* The steps outside the folder leave what a swap has aside.                *)
LEMMA SwapOutside ==
    ASSUME PassInv, ReleasesInv, SwapInv,
           Image \/ CheckSteps \/ Clear \/ Release \/ UNCHANGED releasesVars
    PROVE  SwapInv'
<1>1. /\ disk' = disk /\ saved' = saved /\ job' = job
      /\ job.at # "ready" => queue'[1] = queue[1]
  BY OutsideIs
<1> QED
  BY <1>1 DEF SwapInv, SavedStays, AsideIsKept

LEMMA LeftIsThere ==
    ASSUME disk \in [Versions -> Folders], NEW v \in Versions, NEW w \in Versions,
           NEW left \in LeftOf(disk[v]), disk' = [disk EXCEPT ![v] = left], disk'[w] = "none"
    PROVE  disk[w] = "none"
<1>1. left = "none" => disk[v] = "none"
  BY LeftIs
<1> QED
  BY <1>1

(* What a swap moves aside is put in place again, or its own put back.      *)
LEMMA SwapInstall ==
    ASSUME PassInv, SwapInv, "twice" \notin Odds, Unpacks \/ MoveAside \/ Place \/ PutBack
    PROVE  SwapInv'
<1>1. /\ queue # <<>> /\ queue[1].kind = "install" /\ Job \in Versions
      /\ Unpacked \/ SetAside \/ GivenUp \/ InPlace \/ PutOff \/ FailsHere
  BY InstallIs
<1>0. /\ FolderTypes /\ SavedStays /\ AsideIsKept /\ JobFits
      /\ disk \in [Versions -> Folders] /\ job \in JobTypes /\ saved \subseteq Versions
      /\ Ready.at = "ready"
  BY ReadyIs DEF PassInv, FolderTypes, SwapInv
<1>2. CASE Unpacked
  <2> DEFINE step == IF Job \in saved THEN "swap" ELSE "place"
  <2>1. job = Ready /\ job' = [job EXCEPT !.at = step] /\ Same /\ disk' = disk
    BY <1>2 DEF Unpacked
  <2>2. job'.at = step
    BY <1>0, <2>1 DEF JobTypes
  <2>3. step \in {"swap", "place"} /\ (step = "place" => Job \notin saved)
    OBVIOUS
  <2> HIDE DEF step
  <2>4. SavedStays'
    BY <1>0, <2>1 DEF SavedStays, Same
  <2>5. AsideIsKept'
    BY <2>1, <2>2, <2>3 DEF AsideIsKept, Same, Job
  <2> QED
    BY <2>4, <2>5 DEF SwapInv
<1>3. CASE SetAside
  <2>1. /\ Same /\ disk[Job] # "none" /\ disk' = [disk EXCEPT ![Job] = "none"]
        /\ job' = [job EXCEPT !.at = "replace", !.aside = disk[Job]] /\ job.at = "swap"
    BY <1>3 DEF SetAside
  <2>2. job'.at = "replace" /\ job'.aside = disk[Job]
    BY <1>0, <2>1 DEF JobTypes
  <2>3. \A v \in saved : disk'[v] = "none" => v = Job
    BY <1>0, <1>1, <2>1 DEF SavedStays
  <2>4. SavedStays'
    BY <2>1, <2>2, <2>3 DEF SavedStays, Same, Job
  <2>5. AsideIsKept'
    BY <2>1, <2>2 DEF AsideIsKept
  <2> QED
    BY <2>4, <2>5 DEF SwapInv
<1>4. CASE GivenUp
  <2> DEFINE failed == disk[Job] # "none"
  <2>1. /\ Same /\ disk' = [disk EXCEPT ![Job] = "none"]
        /\ job' = [job EXCEPT !.at = "place", !.failed = failed] /\ job.at = "swap"
    BY <1>4 DEF GivenUp
  <2>2. job'.at = "place" /\ job'.failed = failed
    BY <1>0, <2>1 DEF JobTypes
  <2>3. \A v \in saved : disk'[v] = "none" => v = Job
    BY <1>0, <1>1, <2>1 DEF SavedStays
  <2>4. SavedStays'
    BY <2>1, <2>2, <2>3 DEF SavedStays, Same, Job
  <2>5. Job \in saved => failed
    BY <1>0, <2>1 DEF SavedStays
  <2>6. AsideIsKept'
    BY <2>1, <2>2, <2>5 DEF AsideIsKept, Same, Job
  <2> QED
    BY <2>4, <2>6 DEF SwapInv
<1>5. CASE PutOff
  <2>1. /\ Same /\ disk' = disk /\ job.at = "replace"
        /\ job' = [job EXCEPT !.at = "back", !.failed = TRUE]
    BY <1>5 DEF PutOff
  <2>2. job'.at = "back" /\ job'.failed = TRUE /\ job'.aside = job.aside
    BY <1>0, <2>1 DEF JobTypes
  <2>3. SavedStays'
    BY <1>0, <2>1, <2>2 DEF SavedStays, Same
  <2>4. AsideIsKept'
    BY <1>0, <2>1, <2>2 DEF AsideIsKept
  <2> QED
    BY <2>3, <2>4 DEF SwapInv
<1>6. CASE InPlace
  <2>1. /\ disk' = [disk EXCEPT ![Job] = "good"] /\ saved' = saved \cup {Job}
        /\ job' = [Ready EXCEPT !.at = "sweeps"] /\ queue' = queue
    BY <1>6 DEF InPlace
  <2>2. job'.at = "sweeps"
    BY <2>1, ReadyIs
  <2>3. \A v \in saved' : disk'[v] # "none"
    BY <1>0, <1>1, <2>1 DEF SavedStays, Job
  <2> QED
    BY <2>2, <2>3 DEF SwapInv, SavedStays, AsideIsKept
<1>7. CASE FailsHere
  <2>1. saved' = saved /\ job' = Ready
    BY <1>1, <1>7, FailIs DEF FailsHere
  <2>2. ASSUME NEW v \in saved, disk'[v] = "none" PROVE FALSE
    <3>0. v \in Versions
      BY <1>0
    <3>1. disk[v] = "none" => job.at \in {"place", "replace", "back"} /\ Job = v
      BY <1>0 DEF SavedStays, Job
    <3>2. CASE job = Ready /\ disk' = disk
      BY <1>0, <2>2, <3>1, <3>2
    <3>3. CASE job.at = "swap" /\ \E left \in LeftOf(disk[Job]) : disk' = [disk EXCEPT ![Job] = left]
      <4>1. disk[v] = "none"
        BY <1>0, <1>1, <2>2, <3>0, <3>3, LeftIsThere
      <4> QED
        BY <3>1, <3>3, <4>1
    <3>4. CASE job.at = "place" /\ disk' = disk /\ (disk[Job] = "none" => MayFail)
      <4>1. MayFail /\ Job \in saved
        BY <2>2, <3>1, <3>4
      <4> QED
        BY <1>0, <3>4, <4>1 DEF AsideIsKept, MayFail, Job
    <3>5. CASE job.at = "back" /\ (disk' = [disk EXCEPT ![Job] = job.aside] \/ (MayFail /\ disk' = disk))
      <4>1. job.aside # "none" /\ job.failed
        BY <1>0, <3>5 DEF AsideIsKept
      <4>2. disk' = [disk EXCEPT ![Job] = job.aside]
        BY <3>5, <4>1 DEF MayFail
      <4>3. v # Job /\ disk[v] = "none"
        BY <1>0, <1>1, <2>2, <3>0, <4>1, <4>2
      <4> QED
        BY <3>1, <4>3
    <3> QED
      BY <1>7, <3>2, <3>3, <3>4, <3>5 DEF FailsHere
  <2> QED
    BY <1>0, <2>1, <2>2 DEF SwapInv, SavedStays, AsideIsKept
<1> QED
  BY <1>1, <1>2, <1>3, <1>4, <1>5, <1>6, <1>7

(* Every step keeps a listed version on the disk or in its swap.            *)
LEMMA SwapStep ==
    ASSUME PassInv, ReleasesInv, SwapInv, "twice" \notin Odds, [ReleasesNext]_releasesVars
    PROVE  SwapInv'
<1>0. /\ FolderTypes /\ SavedStays /\ AsideIsKept /\ JobFits
      /\ disk \in [Versions -> Folders] /\ job \in JobTypes /\ saved \subseteq Versions
      /\ Ready.at = "ready"
  BY ReadyIs DEF PassInv, FolderTypes, SwapInv
<1>1. ASSUME job'.at \in {"ready", "sweeps", "deletes"}, \A v \in saved' : disk'[v] # "none"
      PROVE  SwapInv'
  BY <1>1 DEF SwapInv, SavedStays, AsideIsKept
<1>2. ASSUME job.at \in {"ready", "sweeps", "deletes"}, NEW v \in saved PROVE disk[v] # "none"
  BY <1>0, <1>2 DEF SavedStays
<1>3. CASE StartDeleting
  <2>1. /\ disk' = disk /\ saved' = saved
        /\ \E sort, rest : rest \in SUBSET Versions /\ job' = Deletes(sort, rest)
    BY <1>0, <1>3, StartIs DEF Prunes, BeyondKept
  <2>2. job'.at = "deletes"
    BY <2>1, DeletesIs
  <2>3. job.at \in {"ready", "sweeps"}
    BY <1>0, <1>3, StartIs
  <2> QED
    BY <1>1, <1>2, <2>1, <2>2, <2>3
<1>4. CASE Scan
  <2>1. /\ saved' = {v \in Versions : OnDisk(v)} /\ job' = [Ready EXCEPT !.at = "sweeps"]
        /\ \/ disk' = [v \in Versions |-> IF OnDisk(v) THEN disk[v] ELSE "none"]
           \/ disk' = disk
    BY <1>4, ScanIs
  <2>2. job'.at = "sweeps"
    BY <2>1, ReadyIs
  <2>3. ASSUME NEW v \in saved' PROVE disk'[v] # "none"
    <3>1. v \in Versions /\ OnDisk(v)
      BY <2>1, <2>3
    <3>2. disk[v] # "none"
      BY <3>1 DEF OnDisk
    <3>3. disk'[v] = disk[v]
      BY <2>1, <3>1
    <3> QED
      BY <3>2, <3>3
  <2> QED
    BY <1>1, <2>2, <2>3
<1>5. CASE Delete
  <2>1. /\ job.at = "deletes" /\ job.going \in Versions
        /\ job' = Deletes(queue[1].kind, job.rest)
        /\ \/ /\ disk' = [disk EXCEPT ![job.going] = "none"] /\ saved' = saved \ {job.going}
           \/ /\ saved' = saved
              /\ \E left \in LeftOf(disk[job.going]) : disk' = [disk EXCEPT ![job.going] = left]
    BY <1>5, DeleteIs
  <2>2. job'.at = "deletes"
    <3>1. job.rest \in SUBSET Versions
      BY <1>0 DEF JobTypes
    <3> QED
      BY <2>1, <3>1, DeletesIs
  <2>3. ASSUME NEW v \in saved', disk'[v] = "none" PROVE FALSE
    <3>1. v \in saved /\ v \in Versions
      BY <1>0, <2>1
    <3>2. disk[v] # "none"
      BY <1>2, <2>1, <3>1
    <3>3. CASE disk' = [disk EXCEPT ![job.going] = "none"] /\ saved' = saved \ {job.going}
      BY <1>0, <2>3, <3>1, <3>2, <3>3
    <3>4. CASE \E left \in LeftOf(disk[job.going]) : disk' = [disk EXCEPT ![job.going] = left]
      BY <1>0, <2>1, <2>3, <3>1, <3>2, <3>4, LeftIsThere
    <3> QED
      BY <2>1, <3>3, <3>4
  <2> QED
    BY <1>1, <2>2, <2>3
<1>6. CASE EndOfPass
  <2>1. disk' = disk /\ saved' = saved /\ job.at = "deletes" /\ job' = Ready
    BY <1>6, EndIs
  <2> QED
    BY <1>0, <1>1, <1>2, <2>1
<1>7. CASE Restart
  <2>1. saved' = {} /\ job' = Ready
    BY <1>7 DEF Restart
  <2> QED
    BY <1>0, <1>1, <2>1
<1>8. CASE Unpacks \/ MoveAside \/ Place \/ PutBack
  BY <1>8, SwapInstall
<1>9. CASE Image \/ CheckSteps \/ Clear \/ Release \/ UNCHANGED releasesVars
  BY <1>9, SwapOutside
<1> QED
  BY <1>3, <1>4, <1>5, <1>6, <1>7, <1>8, <1>9 DEF ReleasesNext, Folder

(* The list and the disk agree, whatever fails and whenever the application *)
(* dies, but for an install that fails twice and an update that comes for a *)
(* version that is being deleted: release-cache.ts's list, and what a check *)
(* of releases.ts makes of it.                                              *)
THEOREM TheListIsTrue ==
    ASSUME "late" \notin Odds, "twice" \notin Odds
    PROVE  ReleasesSpec => []ListIsTrue
<1>1. ReleasesInit => PassInv /\ ReleasesInv /\ SwapInv
  <2>1. ReleasesInit => saved = {} /\ job = Ready
    BY DEF ReleasesInit
  <2>2. ReleasesInit => SwapInv
    BY <2>1, ReadyIs DEF SwapInv, SavedStays, AsideIsKept
  <2> QED
    BY <2>2, PassInit, ReleasesInvInit
<1>2. PassInv /\ ReleasesInv /\ SwapInv /\ [ReleasesNext]_releasesVars
        => (PassInv /\ ReleasesInv /\ SwapInv)'
  BY PassStep, ReleasesInvStep, SwapStep
<1>3. PassInv /\ ReleasesInv /\ SwapInv => ListIsTrue
  <2> SUFFICES ASSUME PassInv, ReleasesInv, SwapInv PROVE SavedIsThere /\ NoneTwice
    BY DEF ListIsTrue
  <2>0. FolderTypes /\ JobFits /\ saved \subseteq Versions /\ WorkTypes
    BY DEF PassInv, FolderTypes
  <2>1. SavedIsThere
    <3>1. job.at \in {"place", "replace", "back"} => Head(queue) = queue[1]
      BY <2>0, HeadIs DEF JobFits
    <3> QED
      BY <3>1 DEF SwapInv, SavedStays, SavedIsThere
  <2>2. NoneTwice
    <3> SUFFICES ASSUME check.at = "downloads", OnDisk(check.version) PROVE FALSE
      BY DEF NoneTwice
    <3>1. /\ scanned /\ check.version \in Versions /\ check.version > check.newest
          /\ \A v \in saved : v <= check.newest
      BY DEF ReleasesInv, ChecksFit
    <3>2. ~Scanning
      <4>1. queue # <<>> => 1 \in DOMAIN queue
        BY <2>0, HeadIs
      <4> QED
        BY <3>1, <4>1 DEF Scanning, ReleasesInv, ScanIsFirst
    <3>3. check.version \in saved
      BY <3>1, <3>2 DEF ReleasesInv, OnDiskIsSaved
    <3>4. check.version <= check.newest
      BY <3>1, <3>3
    <3>5. check.version \in Nat /\ check.newest \in Nat
      BY <2>0, <3>1, NumbersAre DEF WorkTypes, CheckTypes
    <3> QED
      BY <3>1, <3>4, <3>5
  <2> QED
    BY <2>1, <2>2
<1> QED
  BY <1>1, <1>2, <1>3, PTL DEF ReleasesSpec

---------------------------------------------------------------------------
(* What is repaired is whole for those who read it again, so what was there *)
(* when it was asked for is served.                                         *)
ServedInv == RepairedIsGood /\ AskedIsServed

(* Each update stays as it is, moves on, or is answered.                    *)
GoesOn(u) ==
    /\ update'[u].moved = update[u].moved
    /\ \/ update'[u].at = update[u].at /\ update'[u].version = update[u].version
       \/ update'[u].at # "reads again"
    /\ update'[u].sure => \/ update[u].sure /\ update'[u].answer = update[u].answer
                          \/ update'[u].answer \in {"none", "ok", "failed"}

(* What was repaired stays whole where nobody repairs or deletes it.        *)
LEMMA ServedStays ==
    ASSUME ServedInv, \A u \in Updates : GoesOn(u),
           \A u \in Updates : update[u].at = "reads again" /\ update'[u].at = "reads again" =>
             /\ repair'[update[u].version] = repair[update[u].version]
             /\ disk'[update[u].version] = disk[update[u].version],
           Placed("repair")' => disk'[queue'[1].version] = "good"
    PROVE  ServedInv'
<1>1. \A u \in Updates : ~update'[u].moved
  BY DEF ServedInv, RepairedIsGood, GoesOn
<1>2. ASSUME NEW u \in Updates, update'[u].at = "reads again"
      PROVE  repair'[update'[u].version] = "none" /\ disk'[update'[u].version] = "good"
  <2>1. update[u].at = "reads again" /\ update'[u].version = update[u].version
    BY <1>2 DEF GoesOn
  <2> QED
    BY <1>2, <2>1 DEF ServedInv, RepairedIsGood
<1>3. AskedIsServed'
  BY DEF ServedInv, AskedIsServed, GoesOn
<1> QED
  BY <1>1, <1>2, <1>3 DEF ServedInv, RepairedIsGood

LEMMA UnmovedGoesOn ==
    ASSUME NEW u \in Updates, update'[u] = update[u]
    PROVE  GoesOn(u)
BY DEF GoesOn

(* Through the steps of an image: what was there when asked for still is.   *)
LEMMA ServedImage ==
    ASSUME PassInv, ReleasesInv, ServedInv, Image
    PROVE  ServedInv'
<1>0. FolderTypes /\ WorkTypes /\ JobFits /\ ScanIsFirst /\ ScanIsAwaited /\ HeldFits
      /\ RepairedIsGood /\ update \in [Updates -> UpdateTypes]
  BY DEF PassInv, ReleasesInv, ServedInv, WorkTypes
<1>r. \A u \in Updates : update[u].at = "reads again" => update[u].version \in Versions
  BY <1>0 DEF HeldFits, Reading, Holds
<1>1. ImageFrame /\ ImageCases
  BY <1>0, ImageIs
<1>2. /\ disk' = disk /\ saved' = saved /\ job' = job
      /\ job.at # "ready" => queue'[1] = queue[1]
  BY OutsideIs
<1>3. Placed("repair")' => disk'[queue'[1].version] = "good"
  BY <1>0, <1>2 DEF Placed, RepairedIsGood
<1>4. ASSUME NEW u \in Updates, update[u].sure, Holds(u), scanned PROVE update[u].version \in saved
  <2>1. update[u].version \in Reading
    BY <1>4 DEF Reading
  <2>2. There(update[u].version)
    BY <1>0, <1>4, <2>1 DEF HeldFits, Promised
  <2>3. ~Scanning
    <3>1. queue # <<>> => 1 \in DOMAIN queue
      BY <1>0, HeadIs
    <3> QED
      BY <1>0, <1>4, <3>1 DEF Scanning, ScanIsFirst
  <2> QED
    BY <2>2, <2>3 DEF There
<1>5. ASSUME NEW u \in Updates, NEW w \in Updates, FALSE \in Found(u),
             update[w].at = "reads again"
      PROVE  update[u].version # update[w].version
  BY <1>0, <1>5 DEF Found, RepairedIsGood
<1>6. ASSUME \A u \in Updates : GoesOn(u),
             \A u \in Updates : update[u].at = "reads again" /\ update'[u].at = "reads again" =>
               repair'[update[u].version] = repair[update[u].version]
      PROVE  ServedInv'
  BY <1>2, <1>3, <1>6, ServedStays
<1>7. ASSUME NEW u \in Updates, GoesOn(u), \A w \in Updates \ {u} : update'[w] = update[w],
             repair' = repair
      PROVE  ServedInv'
  BY <1>6, <1>7, UnmovedGoesOn
<1>8. ASSUME NEW u \in Updates, NEW v \in Versions, AskedFor(u, v) PROVE ServedInv'
  <2>1. GoesOn(u)
    BY <1>0, <1>8, NoUpdateIs DEF AskedFor, GoesOn
  <2> QED
    BY <1>7, <1>8, <2>1 DEF AskedFor
<1>9. ASSUME NEW u \in Updates, Matched(u) PROVE ServedInv'
  <2>1. GoesOn(u)
    BY <1>9 DEF Matched, MovesTo, GoesOn
  <2> QED
    BY <1>7, <1>9, <2>1 DEF Matched, MovesTo
<1>10. ASSUME NEW u \in Updates, NotCached(u) PROVE ServedInv'
  <2>1. ~update[u].sure
    BY <1>4, <1>10 DEF NotCached, Holds
  <2>2. GoesOn(u)
    BY <1>10, <2>1 DEF NotCached, LetGo, GoesOn
  <2> QED
    BY <1>7, <1>10, <2>2 DEF NotCached, LetGo
<1>11. ASSUME NEW u \in Updates, Served(u) PROVE ServedInv'
  <2>1. GoesOn(u)
    BY <1>11 DEF Served, LetGo, GoesOn
  <2> QED
    BY <1>7, <1>11, <2>1 DEF Served, LetGo
<1>12. ASSUME NEW u \in Updates, IsDamaged(u) PROVE ServedInv'
  <2>1. update[u].at = "reads" /\ update[u].version \notin saved
    BY <1>5, <1>12 DEF IsDamaged
  <2>2. scanned
    BY <1>0, <2>1 DEF ScanIsAwaited
  <2>3. ~update[u].sure
    BY <1>4, <2>1, <2>2 DEF Holds
  <2>4. GoesOn(u)
    BY <1>12, <2>3 DEF IsDamaged, LetGo, GoesOn
  <2> QED
    BY <1>7, <1>12, <2>4 DEF IsDamaged, LetGo
<1>13. ASSUME NEW u \in Updates, Mends(u) PROVE ServedInv'
  <2>1. GoesOn(u) /\ \A w \in Updates \ {u} : update'[w] = update[w]
    BY <1>13 DEF Mends, MovesTo, GoesOn
  <2>2. \A w \in Updates : GoesOn(w)
    BY <2>1, UnmovedGoesOn
  <2>3. FALSE \in Found(u)
        /\ repair' = [repair EXCEPT ![update[u].version] = IF @ = "none" THEN "downloads" ELSE @]
    BY <1>13 DEF Mends
  <2>4. ASSUME NEW w \in Updates, update[w].at = "reads again"
        PROVE  repair'[update[w].version] = repair[update[w].version]
    <3>1. update[u].version # update[w].version /\ update[w].version \in Versions
      BY <1>5, <1>r, <2>3, <2>4
    <3> QED
      BY <1>0, <2>3, <3>1 DEF WorkTypes
  <2> QED
    BY <1>6, <2>2, <2>4
<1>14. ASSUME NEW v \in Versions, Downloaded(v) \/ NotDownloaded(v) PROVE ServedInv'
  <2>1. \A w \in Updates : GoesOn(w)
    <3>1. CASE Downloaded(v)
      BY <3>1, UnmovedGoesOn DEF Downloaded
    <3>2. CASE NotDownloaded(v)
      <4>1. LetGo(Joined(v), "failed")
        BY <3>2 DEF NotDownloaded
      <4>2. \A w \in Joined(v) : GoesOn(w)
        BY <4>1 DEF LetGo, GoesOn
      <4>3. \A w \in Updates \ Joined(v) : GoesOn(w)
        BY <4>1, UnmovedGoesOn DEF LetGo
      <4> QED
        BY <4>2, <4>3
    <3> QED
      BY <1>14, <3>1, <3>2
  <2>2. repair[v] = "downloads" /\ \E s : repair' = [repair EXCEPT ![v] = s]
    BY <1>14 DEF Downloaded, NotDownloaded
  <2>3. ASSUME NEW w \in Updates, update[w].at = "reads again"
        PROVE  repair'[update[w].version] = repair[update[w].version]
    <3>1. update[w].version # v /\ update[w].version \in Versions
      BY <1>0, <1>r, <2>2, <2>3 DEF RepairedIsGood
    <3> QED
      BY <1>0, <2>2, <3>1 DEF WorkTypes
  <2> QED
    BY <1>6, <2>1, <2>3
<1> QED
  BY <1>1, <1>8, <1>9, <1>10, <1>11, <1>12, <1>13, <1>14 DEF ImageCases

(* A pass, a scan and a deletion touch nothing that is read again.          *)
LEMMA ServedFolder ==
    ASSUME PassInv, ReleasesInv, ServedInv, StartDeleting \/ Scan \/ Delete
    PROVE  ServedInv'
<1>0. /\ FolderTypes /\ WorkTypes /\ JobFits /\ ScanIsFirst /\ ScanIsAwaited /\ HeldFits
      /\ RepairsFit /\ InstallsFit /\ RepairedIsGood /\ disk \in [Versions -> Folders]
      /\ Ready.at = "ready"
  BY ReadyIs DEF PassInv, ReleasesInv, ServedInv, FolderTypes
<1>1. /\ queue' = queue /\ repair' = repair /\ update' = update
      /\ queue # <<>> /\ 1 \in DOMAIN queue
  BY StartIs, ScanIs, DeleteIs, HeadIs, <1>0
<1>2. \A u \in Updates : GoesOn(u)
  BY <1>1, UnmovedGoesOn
<1>3. ASSUME \A u \in Updates : update[u].at = "reads again" =>
               disk'[update[u].version] = disk[update[u].version],
             Placed("repair")' => disk'[queue[1].version] = "good"
      PROVE  ServedInv'
  BY <1>1, <1>2, <1>3, ServedStays
<1>4. CASE StartDeleting
  <2>1. /\ disk' = disk
        /\ \/ job = Ready /\ queue[1].kind \in {"retain", "clear"}
           \/ job.at = "sweeps"
    BY <1>4, StartIs
  <2>2. Placed("repair")' => disk'[queue[1].version] = "good"
    BY <1>0, <1>1, <2>1 DEF Placed, RepairedIsGood
  <2> QED
    BY <1>3, <2>1, <2>2
<1>5. CASE Scan
  <2>1. queue[1].kind = "scan"
    BY <1>5, ScanIs
  <2>2. ~scanned
    BY <1>0, <1>1, <2>1 DEF ScanIsFirst
  <2>3. \A u \in Updates : update[u].at # "reads again"
    BY <1>0, <2>2 DEF ScanIsAwaited
  <2>4. ~Placed("repair")'
    BY <1>1, <2>1 DEF Placed
  <2> QED
    BY <1>3, <2>3, <2>4
<1>6. CASE Delete
  <2>1. /\ job.at = "deletes" /\ job.going \in Versions
        /\ \E left : disk' = [disk EXCEPT ![job.going] = left]
    BY <1>6, DeleteIs
  <2>2. \A v \in Versions : v # job.going => disk'[v] = disk[v]
    BY <1>0, <2>1
  <2>3. \A v \in Reading : v \in Versions /\ v # job.going
    BY <1>0 DEF HeldFits, Doomed
  <2>4. \A u \in Updates : update[u].at = "reads again" => update[u].version \in Reading
    BY DEF Reading, Holds
  <2>5. ASSUME Placed("repair")' PROVE disk'[queue[1].version] = "good"
    <3>1. InstallOf(queue, 1, "repair")
      BY <1>1, <2>5 DEF Placed, InstallOf
    <3>2. queue[1] \in Jobs
      BY <1>0, <1>1, HeadIs
    <3>3. queue[1].version \in Versions /\ repair[queue[1].version] = "installs"
      BY <1>0, <1>1, <3>1, <3>2, JobKinds DEF InstallsFit, InstallOf
    <3>4. queue[1].version \in Reading
      BY <1>0, <3>3, ReadIs
    <3>5. Placed("repair")
      BY <2>1, <3>1 DEF Placed, InstallOf
    <3> QED
      BY <1>0, <2>2, <2>3, <3>4, <3>5 DEF RepairedIsGood
  <2> QED
    BY <1>3, <2>2, <2>3, <2>4, <2>5
<1> QED
  BY <1>4, <1>5, <1>6

(* A repair that ends has put its version in place for those who read it    *)
(* again.                                                                   *)
LEMMA ServedEnd ==
    ASSUME PassInv, ReleasesInv, ServedInv, EndOfPass
    PROVE  ServedInv'
<1>0. /\ FolderTypes /\ WorkTypes /\ JobFits /\ RetainsFit /\ RepairedIsGood
      /\ AskedIsServed /\ Ready.at = "ready" /\ update \in [Updates -> UpdateTypes]
  BY ReadyIs DEF PassInv, ServedInv, WorkTypes
<1>1. /\ disk' = disk /\ saved' = saved /\ job.at = "deletes" /\ queue # <<>> /\ job' = Ready
      /\ EndCases
  BY EndIs
<1>2. queue[1] \in Jobs /\ 1 \in DOMAIN queue
  BY <1>0, <1>1, HeadIs
<1>3. ~Placed("repair")'
  BY <1>0, <1>1 DEF Placed
<1>4. CASE repair' = repair /\ update' = update
  BY <1>1, <1>3, <1>4, ServedStays, UnmovedGoesOn
<1>5. CASE /\ queue[1].kind = "retain" /\ repair' = repair
           /\ update' = [update EXCEPT ![queue[1].update] = NoUpdate]
  <2> DEFINE w == queue[1].update
  <2>1. w \in Updates
    BY <1>2, <1>5, JobKinds
  <2>2. update' = [update EXCEPT ![w] = NoUpdate]
    BY <1>5
  <2> HIDE DEF w
  <2>3. update'[w] = NoUpdate /\ \A u \in Updates \ {w} : update'[u] = update[u]
    BY <1>0, <2>1, <2>2
  <2>4. GoesOn(w)
    <3>1. update[w].moved = FALSE
      BY <1>0, <2>1 DEF RepairedIsGood, UpdateTypes
    <3>2. /\ update'[w].moved = FALSE /\ update'[w].at # "reads again"
          /\ update'[w].sure = FALSE
      BY <2>3, NoUpdateIs
    <3> QED
      BY <3>1, <3>2 DEF GoesOn
  <2>5. \A u \in Updates : GoesOn(u)
    BY <2>3, <2>4, UnmovedGoesOn
  <2> QED
    BY <1>1, <1>3, <1>5, <2>5, ServedStays
<1>6. CASE /\ queue[1].kind = "install" /\ queue[1].caller = "repair"
           /\ Rejoins(queue[1].version)
           /\ repair' = [repair EXCEPT ![queue[1].version] = "none"]
  <2> DEFINE v == queue[1].version
  <2>1. v \in Versions /\ Placed("repair")
    BY <1>1, <1>2, <1>6, JobKinds DEF Placed
  <2>2. Rejoins(v) /\ repair' = [repair EXCEPT ![v] = "none"] /\ disk[v] = "good"
    BY <1>0, <1>6, <2>1 DEF RepairedIsGood
  <2> HIDE DEF v
  <2>3. repair'[v] = "none" /\ \A x \in Versions : repair[x] = "none" => repair'[x] = "none"
    BY <1>0, <2>1, <2>2 DEF WorkTypes
  <2>4. \A u \in Updates : ~update'[u].moved
    BY <1>0, <2>2 DEF Rejoins, Joined, RepairedIsGood
  <2>5. ASSUME NEW u \in Updates, update'[u].at = "reads again"
        PROVE  repair'[update'[u].version] = "none" /\ disk[update'[u].version] = "good"
    <3>1. CASE u \in Joined(v)
      BY <2>2, <2>3, <3>1 DEF Rejoins, Joined
    <3>2. CASE u \notin Joined(v)
      <4>1. update'[u] = update[u]
        BY <2>2, <3>2 DEF Rejoins
      <4>2. update[u].version \in Versions
        BY <2>5, <4>1 DEF ReleasesInv, HeldFits, Reading, Holds
      <4> QED
        BY <1>0, <2>3, <2>5, <4>1, <4>2 DEF RepairedIsGood
    <3> QED
      BY <3>1, <3>2
  <2>6. ASSUME NEW u \in Updates
        PROVE  update'[u].sure = update[u].sure /\ update'[u].answer = update[u].answer
    BY <2>2 DEF Rejoins, Joined
  <2>7. AskedIsServed'
    BY <1>0, <2>6 DEF AskedIsServed
  <2> QED
    BY <1>1, <1>3, <2>4, <2>5, <2>7 DEF ServedInv, RepairedIsGood
<1> QED
  BY <1>1, <1>4, <1>5, <1>6 DEF EndCases

(* A repair's swap touches nothing that is read again.                      *)
LEMMA ServedInstall ==
    ASSUME PassInv, ReleasesInv, ServedInv, "slow" \notin Odds,
           Unpacks \/ MoveAside \/ Place \/ PutBack
    PROVE  ServedInv'
<1>1. /\ queue # <<>> /\ queue[1].kind = "install" /\ Job \in Versions
      /\ Unpacked \/ SetAside \/ GivenUp \/ InPlace \/ PutOff \/ FailsHere
  BY InstallIs
<1>0. /\ FolderTypes /\ WorkTypes /\ JobFits /\ RepairedIsGood /\ InstallsFit /\ HeldFits
      /\ SwapFits /\ ChecksFit
      /\ disk \in [Versions -> Folders] /\ job \in JobTypes /\ 1 \in DOMAIN queue
      /\ Ready.at = "ready"
  BY <1>1, ReadyIs, HeadIs DEF PassInv, ReleasesInv, ServedInv, FolderTypes
<1>r. \A u \in Updates : update[u].at = "reads again" => update[u].version \in Versions
  BY <1>0 DEF HeldFits, Reading, Holds
\* While a version is repaired, nobody has read it again yet.
<1>2. ASSUME queue[1].caller = "repair"
      PROVE  \A u \in Updates : update[u].at = "reads again" => update[u].version # Job
  <2>1. repair[Job] = "installs"
    BY <1>0, <1>1, <1>2 DEF InstallsFit, InstallOf, Job
  <2> QED
    BY <1>0, <2>1 DEF RepairedIsGood
<1>3. CASE Unpacked \/ SetAside \/ GivenUp \/ PutOff
  <2>1. /\ Same /\ job'.at \in {"swap", "place", "replace", "back"}
        /\ \/ disk' = disk
           \/ job.at = "swap" /\ disk' = [disk EXCEPT ![Job] = "none"]
    BY <1>0, <1>3 DEF Unpacked, SetAside, GivenUp, PutOff, JobTypes
  <2>2. ~Placed("repair")'
    BY <2>1 DEF Placed
  <2>3. \A u \in Updates : GoesOn(u)
    <3>1. CASE SetAside
      BY <1>0, <3>1, MovedIs DEF GoesOn
    <3>2. CASE Unpacked \/ GivenUp \/ PutOff
      BY <3>2, UnmovedGoesOn DEF Unpacked, GivenUp, PutOff
    <3> QED
      BY <1>3, <3>1, <3>2
  <2>4. ASSUME NEW u \in Updates, update[u].at = "reads again"
        PROVE  disk'[update[u].version] = disk[update[u].version]
    <3>1. CASE job.at = "swap" /\ disk' = [disk EXCEPT ![Job] = "none"]
      <4>1. update[u].version # Job
        BY <1>0, <1>2, <2>4, <3>1 DEF SwapFits
      <4> QED
        BY <1>0, <1>r, <2>4, <3>1, <4>1
    <3> QED
      BY <2>1, <3>1
  <2> QED
    BY <2>1, <2>2, <2>3, <2>4, ServedStays DEF Same
<1>4. CASE InPlace
  <2>1. /\ disk' = [disk EXCEPT ![Job] = "good"] /\ queue' = queue /\ repair' = repair
        /\ update' = update
    BY <1>4 DEF InPlace
  <2>2. disk'[Job] = "good" /\ \A v \in Versions : disk[v] = "good" => disk'[v] = "good"
    BY <1>0, <1>1, <2>1
  <2>3. \A u \in Updates : update[u].at = "reads again" =>
          disk'[update[u].version] = disk[update[u].version]
    BY <1>0, <1>r, <2>2 DEF RepairedIsGood
  <2>4. \A u \in Updates : GoesOn(u)
    BY <2>1, UnmovedGoesOn
  <2> QED
    BY <2>1, <2>2, <2>3, <2>4, ServedStays DEF Job
<1>5. CASE FailsHere
  <2>1. job' = Ready /\ FailCases
    BY <1>1, <1>5, FailIs DEF FailsHere
  <2>2. ~Placed("repair")'
    BY <1>0, <2>1 DEF Placed
  <2>3. \A u \in Updates : GoesOn(u)
    <3>1. CASE update' = update
      BY <3>1, UnmovedGoesOn
    <3>2. CASE LetGo(Joined(Job), "failed")
      <4>1. \A u \in Joined(Job) : GoesOn(u)
        BY <3>2 DEF LetGo, GoesOn
      <4>2. \A u \in Updates \ Joined(Job) : GoesOn(u)
        BY <3>2, UnmovedGoesOn DEF LetGo
      <4> QED
        BY <4>1, <4>2
    <3> QED
      BY <2>1, <3>1, <3>2 DEF FailCases, Job
  <2>4. ASSUME NEW u \in Updates, update[u].at = "reads again"
        PROVE  disk'[update[u].version] = disk[update[u].version]
    <3>1. CASE disk' = disk
      BY <3>1
    <3>2. CASE job.at \in {"swap", "back"} /\ \E left : disk' = [disk EXCEPT ![Job] = left]
      <4>1. update[u].version # Job
        BY <1>0, <1>2, <2>4, <3>2 DEF SwapFits
      <4> QED
        BY <1>0, <1>r, <2>4, <3>2, <4>1
    <3> QED
      BY <1>5, <3>1, <3>2 DEF FailsHere
  <2>5. ASSUME NEW u \in Updates, update[u].at = "reads again"
        PROVE  repair'[update[u].version] = repair[update[u].version]
    <3>1. CASE repair' = repair
      BY <3>1
    <3>2. CASE queue[1].caller = "repair" /\ repair' = [repair EXCEPT ![Job] = "none"]
      <4>1. update[u].version # Job
        BY <1>2, <2>5, <3>2
      <4> QED
        BY <1>0, <1>r, <2>5, <3>2, <4>1 DEF WorkTypes
    <3> QED
      BY <2>1, <3>1, <3>2 DEF FailCases, Job
  <2> QED
    BY <2>2, <2>3, <2>4, <2>5, ServedStays
<1> QED
  BY <1>1, <1>3, <1>4, <1>5

(* Every step keeps what was asked for there to be read.                    *)
LEMMA ServedStep ==
    ASSUME PassInv, ReleasesInv, ServedInv, "slow" \notin Odds, [ReleasesNext]_releasesVars
    PROVE  ServedInv'
<1>1. CASE Image
  BY <1>1, ServedImage
<1>2. CASE CheckSteps \/ Clear \/ Release \/ UNCHANGED releasesVars
  <2>1. update' = update /\ repair' = repair
    BY <1>2 DEF CheckSteps, Clear, Release, releasesVars, workVars
  <2>2. /\ disk' = disk /\ saved' = saved /\ job' = job
        /\ job.at # "ready" => queue'[1] = queue[1]
    BY <1>2, OutsideIs
  <2>3. Placed("repair")' => disk'[queue'[1].version] = "good"
    BY <2>2 DEF Placed, ServedInv, RepairedIsGood
  <2>4. \A u \in Updates : GoesOn(u)
    BY <2>1, UnmovedGoesOn
  <2> QED
    BY <2>1, <2>2, <2>3, <2>4, ServedStays
<1>3. CASE StartDeleting \/ Scan \/ Delete
  BY <1>3, ServedFolder
<1>4. CASE EndOfPass
  BY <1>4, ServedEnd
<1>5. CASE Unpacks \/ MoveAside \/ Place \/ PutBack
  BY <1>5, ServedInstall
<1>6. CASE Restart
  <2>1. update' = [u \in Updates |-> NoUpdate] /\ job' = Ready
    BY <1>6 DEF Restart
  <2>2. \A u \in Updates : update'[u] = NoUpdate
    BY <2>1
  <2>3. ~Placed("repair")'
    BY <2>1, ReadyIs DEF Placed
  <2> QED
    BY <2>2, <2>3, NoUpdateIs DEF ServedInv, RepairedIsGood, AskedIsServed
<1> QED
  BY <1>1, <1>2, <1>3, <1>4, <1>5, <1>6 DEF ReleasesNext, Folder

(* An update that asked for a version while it was saved gets its image,    *)
(* unless the download or the install of its repair failed, for every       *)
(* number of updates and releases and every interleaving with retention,    *)
(* Clear, the scan and the checks: releases.ts's image() and repair() over  *)
(* release-cache.ts.  Not so for an update that comes for a version that is *)
(* being deleted, nor for a file read while its folder moves aside.         *)
THEOREM AskedAreServed ==
    ASSUME "late" \notin Odds, "slow" \notin Odds
    PROVE  ReleasesSpec => []AskedIsServed
<1>1. ReleasesInit => PassInv /\ ReleasesInv /\ ServedInv
  <2> SUFFICES ASSUME ReleasesInit PROVE ServedInv
    BY PassInit, ReleasesInvInit
  <2>1. \A u \in Updates : update[u] = NoUpdate
    BY DEF ReleasesInit
  <2>2. ~Placed("repair")
    BY ReadyIs DEF ReleasesInit, Placed
  <2> QED
    BY <2>1, <2>2, NoUpdateIs DEF ServedInv, RepairedIsGood, AskedIsServed
<1>2. PassInv /\ ReleasesInv /\ ServedInv /\ [ReleasesNext]_releasesVars
        => (PassInv /\ ReleasesInv /\ ServedInv)'
  BY PassStep, ReleasesInvStep, ServedStep
<1>3. PassInv /\ ReleasesInv /\ ServedInv => AskedIsServed
  BY DEF ServedInv
<1> QED
  BY <1>1, <1>2, <1>3, PTL DEF ReleasesSpec

=============================================================================
