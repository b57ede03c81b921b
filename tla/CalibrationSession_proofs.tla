---------------------- MODULE CalibrationSession_proofs ----------------------
(***************************************************************************)
(* Proofs about CalibrationSession: what each board is made to hold, what  *)
(* is kept of it here, whose a session is, and what becomes of a capture.  *)
(*                                                                         *)
(* The invariants rest on one another in this order: the types; what needs *)
(* the link, the view and the dialog (Shape); whose the serial known and   *)
(* the dialog's board are (SerialIsOwn, OnItsBoard); what is kept here of  *)
(* what a board held (SeenIsHeld, CachedIsHeld); where a value comes from  *)
(* (Sourced); and, when people wait for the dialog's exchanges, what goes  *)
(* on at the same time (OneAtATime), which copies are of what was deleted  *)
(* (NotErased) and what a write can still drop (Traced).  What concerns    *)
(* the serials rests on ReportsNamed.                                      *)
(***************************************************************************)
EXTENDS CalibrationSession, FiniteSetTheorems, WellFoundedInduction, TLAPS

(* No report is stamped with another board's serial, and none has no serial *)
(* before this port's was asked for.  calRead() does not see to it: it      *)
(* stamps a report with the serial that is known when the answer comes,     *)
(* which is the last board's until the new port's is read                   *)
(* (hid-calibration-service.ts:313-316).  So the theorems that need this    *)
(* say so: Spec /\ []ReportsNamed => ...                                    *)
ReportsNamed ==
    snap.read => snap.stamp = at \/ (snap.stamp = Unknown /\ reading # "serial")

(* The serial known is the one of the board plugged in, or none was read of *)
(* it; and a report is of this link.                                        *)
Known == link /\ (reading = "serial" => serial = at)

SerialIsOwn ==
    /\ Known => serial \in {at, Unknown}
    /\ IF snap.read THEN Known /\ snap.stamp \in {serial, at} ELSE snap = NoSnap

(* What needs the link, and what needs the view.                            *)
NeedsLink ==
    /\ reading # "no" \/ opening \/ resuming = "sent" \/ deleting # "no"
       \/ closing \in {"sent", "read"} \/ saving \in {"commit", "read", "failing"}
       => link
NeedsView ==
    /\ opening \/ shown \/ open \/ closing # "no" \/ saving # "no" \/ deleting # "no" => view
    /\ view /\ ~link => paused

(* The dialog: it opens, is on screen, or it is not there.                  *)
Dialog ==
    /\ opening => ~shown /\ closing = "no"
    /\ shown \/ opening <=> open
    /\ closing \in {"sent", "lost"} => shown
    /\ closing = "read" => ~shown

(* The board the dialog works on is the one of the last report of this link.*)
OnItsBoard ==
    /\ open /\ snap.read => device = snap
    /\ open /\ (resuming = "sent" \/ ~paused) => Known /\ device.stamp \in {serial, at}

-----------------------------------------------------------------------------
(* Where values come from. *)

(* Captures are numbered.                                                   *)
Numbered == \E n \in 0..MaxCaptures : Captured = 1..n

(* What a board held was measured on it; what it holds it held; and what is *)
(* kept of it here it held.                                                 *)
HeldIsOwn == \A b \in Boards, i \in Axes : \A v \in held[b][i] : origin[v] = b
StoredIsHeld == \A b \in Boards, i \in Axes : stored[b][i] # 0 => stored[b][i] \in held[b][i]
CachedIsHeld == \A b \in Boards, i \in Axes : cached[b][i] # 0 => cached[b][i] \in held[b][i]

(* A draft was measured somewhere: on the board the dialog works on, as far *)
(* as that is known, and as soon as this link was told of one.              *)
DraftsAreOwn ==
    \A i \in Axes : drafts[i] # 0 =>
      /\ open /\ drafts[i] \in Captured
      /\ device.stamp # Unknown => origin[drafts[i]] = device.stamp
      /\ Known /\ device.stamp = serial => origin[drafts[i]] = at

(* What is offered for a restore was measured there.                        *)
OffersAreOwn ==
    \A i \in Axes : open /\ restorable[i] # 0 =>
      device.stamp # Unknown /\ origin[restorable[i]] = device.stamp

(* So was what is being written.                                            *)
WrittenIsOwn ==
    /\ saving = "commit" /\ d # 0 => origin[d] = at
    /\ d # 0 => d \in Captured

(* And what was read back is what the board of that serial held.            *)
SeenIsHeld ==
    saving = "seen" =>
      /\ reading = "serial" => serial = at
      /\ got # 0 /\ serial # Unknown => got \in held[serial][cur]
SeenIsReported == saving = "seen" /\ link => snap.read

Sourced ==
    /\ Numbered /\ HeldIsOwn /\ StoredIsHeld
    /\ DraftsAreOwn /\ OffersAreOwn /\ WrittenIsOwn

-----------------------------------------------------------------------------
(* What goes on at the same time, when people wait. *)

OneAtATime ==
    /\ saving # "no" => write = "writing" /\ shown /\ closing = "no" /\ deleting = "no" /\ ~hold
    /\ deleting # "no" => ~paused /\ (shown \/ closing = "read")
    /\ closing = "lost" => ~link
    /\ closing = "sent" => reading = "no" /\ resuming = "no"
    /\ resuming = "sent" => open

(* What people deleted is neither kept nor offered.                         *)
ErasedIsGone ==
    \A b \in Boards : \A i \in erased[b] : cached[b][i] = 0 /\ stored[b][i] = 0
SeenIsNotErased ==
    saving = "seen" /\ got # 0 /\ serial # Unknown => cur \notin erased[serial]
ErasedIsNotOffered ==
    view /\ ~shown /\ closing = "no" /\ snap.read /\ snap.stamp # Unknown
      => offer \cap erased[snap.stamp] = {}

NotErased == ErasedIsGone /\ SeenIsNotErased /\ ErasedIsNotOffered

(* What a report or a read-back showed, some board held.                    *)
SomeHeld(i, v) == \E b \in Boards : v \in held[b][i]
ReportedIsHeld ==
    \A i \in Axes : /\ snap.cal[i] # 0 => SomeHeld(i, snap.cal[i])
                    /\ device.cal[i] # 0 => SomeHeld(i, device.cal[i])
ReadBackIsHeld == saving = "seen" /\ got # 0 => SomeHeld(cur, got)

(* The draft that is written is the one that was taken for it.              *)
DraftIsWritten == saving # "no" => cur \in Axes /\ drafts[cur] \in {0, d}

Traced == StoredIsHeld /\ ReportedIsHeld /\ ReadBackIsHeld /\ DraftIsWritten
-----------------------------------------------------------------------------
(***************************************************************************)
(* Types.                                                                  *)
(***************************************************************************)
(* The least of some numbers is one of them: the axis save() takes next.    *)
Less == {p \in Nat \X Nat : p[1] < p[2]}

LEMMA LessIsWellFounded == IsWellFoundedOn(Less, Nat)
<1>1. OpToRel(<, Nat) = Less
  BY DEF OpToRel, Less
<1> QED
  BY <1>1, NatLessThanWellFounded

LEMMA MinIsIn ==
    ASSUME NEW S, S \subseteq Nat, S # {}
    PROVE  Min(S) \in S
<1>1. PICK x \in S : \A y \in S : <<y, x>> \notin Less
  BY LessIsWellFounded, WFMin
<1>2. \A y \in S : x <= y
  <2> SUFFICES ASSUME NEW y \in S PROVE x <= y
    OBVIOUS
  <2>1. x \in Nat /\ y \in Nat
    OBVIOUS
  <2>2. ~(y < x)
    <3>1. <<y, x>> \in Nat \X Nat /\ <<y, x>>[1] = y /\ <<y, x>>[2] = x
      BY <2>1
    <3> QED
      BY <1>1, <3>1 DEF Less
  <2> QED
    BY <2>1, <2>2
<1> QED
  BY <1>2 DEF Min

BoardTypes == at \in Boards /\ stored \in [Boards -> Contents] /\ cached \in [Boards -> Contents]
ServiceTypes ==
    /\ link \in BOOLEAN /\ serial \in Stamps /\ reading \in {"no", "serial", "cal"}
    /\ session \in BOOLEAN /\ expiring \in BOOLEAN /\ left \in BOOLEAN
ReportTypes ==
    /\ snap \in Snaps /\ device \in Snaps /\ drafts \in Contents /\ restorable \in Contents
    /\ seedOnResume \in BOOLEAN /\ offer \subseteq Axes /\ resuming \in {"no", "sent"}
DialogTypes ==
    /\ view \in BOOLEAN /\ shown \in BOOLEAN /\ open \in BOOLEAN /\ paused \in BOOLEAN
    /\ opening \in BOOLEAN /\ closing \in {"no", "sent", "lost", "read"}
SaveTypes ==
    /\ write \in {"none", "writing", "done"} /\ hold \in BOOLEAN
    /\ saving \in {"no", "commit", "committed", "read", "seen", "lost", "failing", "stuck"}
    /\ todo \subseteq Axes /\ cur \in Axes \cup {0} /\ d \in {0} \cup Values /\ got \in {0} \cup Values
    /\ saving # "no" => cur \in Axes
DeleteTypes ==
    /\ deleting \in {"no", "reset", "check", "refresh"} /\ erasing \in Axes \cup {0}
    /\ deleting # "no" => erasing \in Axes
HistoryTypes ==
    /\ origin \in [Values -> Stamps] /\ held \in [Boards -> [Axes -> SUBSET Values]]
    /\ erased \in [Boards -> SUBSET Axes] /\ troubles \in 0..MaxTroubles

Types == /\ BoardTypes /\ ServiceTypes /\ ReportTypes /\ DialogTypes /\ SaveTypes
         /\ DeleteTypes /\ HistoryTypes

LEMMA TypesCover == Types => TypeOK
  BY DEF TypeOK, Types, BoardTypes, ServiceTypes, ReportTypes, DialogTypes, SaveTypes, DeleteTypes,
     HistoryTypes

(* No report, no calibration.                                               *)
LEMMA Blanks == Blank \in Contents /\ NoSnap \in Snaps /\ Unknown \in Stamps
  BY DEF Blank, Contents, NoSnap, Snaps, Stamps

LEMMA BoundedCounts == MaxCaptures \in Nat /\ MaxTroubles \in Nat
  BY BoundsAssumption

(* What is read, dropped or offered of a board is a board's contents.       *)
LEMMA FreshTyped ==
    ASSUME Types
    PROVE  Fresh \in Snaps
  BY DEF Types, BoardTypes, ServiceTypes, Fresh, Snaps

LEMMA WithoutTyped ==
    ASSUME NEW ds \in Contents, NEW is
    PROVE  Without(ds, is) \in Contents
  BY DEF Without, Contents

LEMMA RegressedTyped ==
    ASSUME NEW c, NEW s
    PROVE  Regressed(c, s) \subseteq Axes
  BY DEF Regressed

LEMMA OfferableTyped ==
    ASSUME serial \in Stamps, NEW c \in [Boards -> Contents], NEW s
    PROVE  Offerable(c, s) \in Contents
<1>1. CASE serial = Unknown
  BY <1>1 DEF Offerable, Contents
<1>2. CASE serial # Unknown
  <2>1. c[serial] \in [Axes -> {0} \cup Values]
    BY <1>2 DEF Stamps, Contents
  <2> QED
    BY <2>1 DEF Offerable, Contents
<1> QED
  BY <1>1, <1>2

LEMMA KeptTyped ==
    ASSUME Types, NEW s
    PROVE  Kept(s) \in Contents /\ KeptOffer(s) \in Contents
  BY Blanks DEF Types, ReportTypes, Kept, KeptOffer

LEMMA AfterFailureTyped ==
    ASSUME NEW s, NEW ds \in Contents
    PROVE  AfterFailure(s, ds) \in Contents
  BY WithoutTyped DEF AfterFailure

LEMMA ReportedTyped ==
    ASSUME Types, NEW next \in Snaps, NEW keep \in Contents, NEW its \in Contents,
           Reported(next, keep, its)
    PROVE  ReportTypes'
<1>1. seedOnResume' \in BOOLEAN
  BY DEF Reported, Types, ReportTypes
<1>2. /\ snap' \in Snaps /\ device' \in Snaps /\ drafts' \in Contents /\ restorable' \in Contents
      /\ offer' \subseteq Axes /\ resuming' \in {"no", "sent"}
  BY RegressedTyped DEF Reported, Types, ReportTypes
<1> QED
  BY <1>1, <1>2 DEF ReportTypes

LEMMA TakesReportTyped ==
    ASSUME Types, TakesReport
    PROVE  ReportTypes'
  BY FreshTyped, KeptTyped, ReportedTyped DEF TakesReport

LEMMA CommitsTyped ==
    ASSUME Types, NEW queue \in SUBSET Axes, queue # {}, NEW ds \in Contents, Commits(queue, ds),
           write' \in {"none", "writing", "done"}, hold' \in BOOLEAN
    PROVE  SaveTypes' /\ cur' \in queue /\ d' = ds[cur']
<1>1. Min(queue) \in queue
  BY AxesAssumption, MinIsIn
<1>2. cur' = Min(queue) /\ todo' = queue \ {Min(queue)} /\ d' = ds[Min(queue)] /\ got' = 0
  BY DEF Commits
<1>3. saving' \in {"stuck", "commit", "lost"}
  BY DEF Commits
<1>4. d' \in {0} \cup Values
  BY <1>1, <1>2 DEF Contents
<1> QED
  BY <1>1, <1>2, <1>3, <1>4 DEF SaveTypes

LEMMA CachesTyped ==
    ASSUME Types, NEW i \in Axes \cup {0}, NEW v \in {0} \cup Values, Cache(i, v)
    PROVE  cached' \in [Boards -> Contents]
<1>1. CASE serial = Unknown
  BY <1>1 DEF Cache, Types, BoardTypes
<1>2. CASE serial # Unknown
  <2>1. serial \in Boards
    BY <1>2 DEF Types, ServiceTypes, Stamps
  <2>2. [cached[serial] EXCEPT ![i] = v] \in Contents
    BY <2>1 DEF Types, BoardTypes, Contents
  <2> QED
    BY <1>2, <2>1, <2>2 DEF Cache, Types, BoardTypes
<1> QED
  BY <1>1, <1>2

LEMMA StoresTyped ==
    ASSUME Types, NEW i \in Axes \cup {0}, NEW v \in {0} \cup Values, Stores(i, v)
    PROVE  /\ stored' \in [Boards -> Contents]
           /\ held' \in [Boards -> [Axes -> SUBSET Values]]
           /\ erased' \in [Boards -> SUBSET Axes]
<1>1. at \in Boards /\ stored \in [Boards -> Contents]
  BY DEF Types, BoardTypes
<1>2. [stored[at] EXCEPT ![i] = v] \in Contents
  BY <1>1 DEF Contents
<1>3. held \in [Boards -> [Axes -> SUBSET Values]] /\ erased \in [Boards -> SUBSET Axes]
  BY DEF Types, HistoryTypes
<1>4. [held[at] EXCEPT ![i] = IF v = 0 THEN @ ELSE @ \cup {v}] \in [Axes -> SUBSET Values]
  BY <1>1, <1>3
<1> QED
  BY <1>1, <1>2, <1>3, <1>4 DEF Stores

-----------------------------------------------------------------------------
(* What a step takes as it is keeps its type. *)

LEMMA LinkTyped ==
    ASSUME Types, LinkUp \/ SerialRead \/ ConnectRead \/ Expire \/ HoldFires
    PROVE  Types'
<1>1. CASE LinkUp
  BY <1>1 DEF LinkUp, sessions, Types, BoardTypes, ServiceTypes, ReportTypes, DialogTypes,
     SaveTypes, DeleteTypes, HistoryTypes, boardVars, report, saveVars, deletes, history
<1>2. CASE SerialRead
  <2>1. troubles' \in 0..MaxTroubles
    BY <1>2, BoundedCounts DEF SerialRead, Trouble, Types, HistoryTypes
  <2>2. serial' \in Stamps
    BY <1>2 DEF SerialRead, Types, BoardTypes, Stamps
  <2> QED
    BY <1>2, <2>1, <2>2 DEF SerialRead, sessions, Types, BoardTypes, ServiceTypes, ReportTypes,
       DialogTypes, SaveTypes, DeleteTypes, HistoryTypes, boardVars, report, dialog, saveVars,
       deletes, history
<1>3. CASE ConnectRead
  <2>1. ReportTypes'
    BY <1>3, TakesReportTyped DEF ConnectRead, Types, ReportTypes, report
  <2> QED
    BY <1>3, <2>1 DEF ConnectRead, sessions, Types, BoardTypes, ServiceTypes, DialogTypes,
       SaveTypes, DeleteTypes, HistoryTypes, boardVars, dialog, saveVars, deletes, history
<1>4. CASE Expire
  <2>1. BoardTypes'
    BY <1>4 DEF Expire, Types, BoardTypes, boardVars
  <2>2. ServiceTypes'
    BY <1>4 DEF Expire, SessionEnds, Types, ServiceTypes, service, sessions
  <2>3. ReportTypes'
    BY <1>4 DEF Expire, Types, ReportTypes, report
  <2>4. DialogTypes'
    BY <1>4 DEF Expire, Types, DialogTypes, dialog
  <2>5. SaveTypes'
    BY <1>4 DEF Expire, Types, SaveTypes, saveVars
  <2>6. DeleteTypes'
    BY <1>4 DEF Expire, Types, DeleteTypes, deletes
  <2>7. HistoryTypes'
    BY <1>4 DEF Expire, Types, HistoryTypes, history
  <2> QED
    BY <2>1, <2>2, <2>3, <2>4, <2>5, <2>6, <2>7 DEF Types
<1>5. CASE HoldFires
  <2>1. BoardTypes'
    BY <1>5 DEF HoldFires, SaveKeeps, Types, BoardTypes, boardVars
  <2>2. ServiceTypes'
    BY <1>5 DEF HoldFires, SaveKeeps, Types, ServiceTypes, service, sessions
  <2>3. ReportTypes'
    BY <1>5 DEF HoldFires, SaveKeeps, Types, ReportTypes, report
  <2>4. DialogTypes'
    BY <1>5 DEF HoldFires, SaveKeeps, Types, DialogTypes, dialog
  <2>5. SaveTypes'
    BY <1>5 DEF HoldFires, SaveKeeps, Types, SaveTypes, saveVars
  <2>6. DeleteTypes'
    BY <1>5 DEF HoldFires, SaveKeeps, Types, DeleteTypes, deletes
  <2>7. HistoryTypes'
    BY <1>5 DEF HoldFires, SaveKeeps, Types, HistoryTypes, history
  <2> QED
    BY <2>1, <2>2, <2>3, <2>4, <2>5, <2>6, <2>7 DEF Types
<1> QED
  BY <1>1, <1>2, <1>3, <1>4, <1>5

LEMMA DropTyped ==
    ASSUME Types, NEW to \in Boards, NEW released \in BOOLEAN, Drop(to, released)
    PROVE  Types'
<1>1. /\ cached' \in [Boards -> Contents] /\ at' \in Boards
      /\ ServiceTypes' /\ DialogTypes' /\ DeleteTypes'
  <2>1. serial' \in Stamps
    BY DEF Drop, Types, BoardTypes, ServiceTypes, Stamps
  <2>2. DialogTypes' /\ DeleteTypes'
    BY DEF Drop, Types, DialogTypes, DeleteTypes
  <2> QED
    BY <2>1, <2>2 DEF Drop, SessionEnds, Types, BoardTypes, ServiceTypes
<1>2. ReportTypes'
  BY Blanks DEF Drop, Types, ReportTypes
<1>3. SaveTypes'
  BY DEF Drop, Types, SaveTypes
<1>4. PICK lands \in BOOLEAN, wiped \in BOOLEAN :
        LET now == IF wiped THEN Blank
                   ELSE IF lands /\ saving = "commit" THEN [stored[at] EXCEPT ![cur] = d]
                   ELSE IF lands /\ deleting = "reset" THEN [stored[at] EXCEPT ![erasing] = 0]
                   ELSE stored[at]
        IN  /\ stored' = [stored EXCEPT ![at] = now]
            /\ held' = [held EXCEPT ![at] =
                           [i \in Axes |-> @[i] \cup ({now[i]} \ {0})]]
            /\ erased' = [erased EXCEPT ![at] = {i \in @ : now[i] = 0}]
  BY DEF Drop
<1> DEFINE now == IF wiped THEN Blank
                  ELSE IF lands /\ saving = "commit" THEN [stored[at] EXCEPT ![cur] = d]
                  ELSE IF lands /\ deleting = "reset" THEN [stored[at] EXCEPT ![erasing] = 0]
                  ELSE stored[at]
<1>5. now \in Contents
  <2>1. stored[at] \in Contents /\ d \in {0} \cup Values
    BY DEF Types, BoardTypes, SaveTypes
  <2>2. [stored[at] EXCEPT ![cur] = d] \in Contents /\ [stored[at] EXCEPT ![erasing] = 0] \in Contents
    BY <2>1 DEF Contents
  <2> QED
    BY <2>1, <2>2, Blanks
<1>6. /\ stored' = [stored EXCEPT ![at] = now]
      /\ held' = [held EXCEPT ![at] = [i \in Axes |-> @[i] \cup ({now[i]} \ {0})]]
      /\ erased' = [erased EXCEPT ![at] = {i \in @ : now[i] = 0}]
  BY <1>4
<1> HIDE DEF now
<1>7. stored' \in [Boards -> Contents]
  BY <1>5, <1>6 DEF Types, BoardTypes
<1>8. held' \in [Boards -> [Axes -> SUBSET Values]]
  <2>1. [i \in Axes |-> held[at][i] \cup ({now[i]} \ {0})] \in [Axes -> SUBSET Values]
    BY <1>5 DEF Contents, Types, BoardTypes, HistoryTypes
  <2> QED
    BY <1>6, <2>1 DEF Types, HistoryTypes
<1>9. erased' \in [Boards -> SUBSET Axes]
  BY <1>6 DEF Types, HistoryTypes
<1>10. origin' \in [Values -> Stamps] /\ troubles' \in 0..MaxTroubles
  BY BoundedCounts DEF Drop, Trouble, Types, HistoryTypes
<1> QED
  BY <1>1, <1>2, <1>3, <1>7, <1>8, <1>9, <1>10 DEF Types, BoardTypes, HistoryTypes

LEMMA SessionTyped ==
    ASSUME Types,
           \/ OpenDialog \/ Close \/ CloseLost \/ CloseRead \/ Leave \/ Mount
           \/ \E ok \in BOOLEAN : OpenAnswered(ok) \/ ResumeAnswered(ok) \/ CloseAnswered(ok)
    PROVE  Types'
<1>1. CASE OpenDialog
  BY <1>1, Blanks DEF OpenDialog, Elsewhere, Types, BoardTypes, ServiceTypes, ReportTypes,
     DialogTypes, SaveTypes, DeleteTypes, HistoryTypes, boardVars, service, sessions, deletes,
     history
<1>2. CASE Close
  BY <1>2 DEF Close, Elsewhere, Types, BoardTypes, ServiceTypes, ReportTypes, DialogTypes,
     SaveTypes, DeleteTypes, HistoryTypes, boardVars, service, sessions, report, dialog, saveVars,
     deletes, history
<1>3. CASE CloseLost
  <2>1. BoardTypes'
    BY <1>3 DEF CloseLost, DialogGoes, EmptyState, Elsewhere, Types, BoardTypes, boardVars
  <2>2. ServiceTypes'
    BY <1>3 DEF CloseLost, SessionLapses, DialogGoes, EmptyState, Elsewhere, Types, ServiceTypes,
       service, sessions
  <2>3. ReportTypes'
    BY <1>3, Blanks DEF CloseLost, DialogGoes, EmptyState, Elsewhere, Types, ReportTypes, report
  <2>4. DialogTypes'
    BY <1>3 DEF CloseLost, DialogGoes, EmptyState, Elsewhere, Types, DialogTypes, dialog
  <2>5. SaveTypes'
    BY <1>3 DEF CloseLost, DialogGoes, EmptyState, Elsewhere, Types, SaveTypes, saveVars
  <2>6. DeleteTypes'
    BY <1>3 DEF CloseLost, DialogGoes, EmptyState, Elsewhere, Types, DeleteTypes, deletes
  <2>7. HistoryTypes'
    BY <1>3 DEF CloseLost, DialogGoes, EmptyState, Elsewhere, Types, HistoryTypes, history
  <2> QED
    BY <2>1, <2>2, <2>3, <2>4, <2>5, <2>6, <2>7 DEF Types
<1>4. CASE CloseRead
  <2>1. ReportTypes'
    BY <1>4, TakesReportTyped, RegressedTyped DEF CloseRead, Types, ReportTypes
  <2> QED
    BY <1>4, <2>1 DEF CloseRead, Elsewhere, Types, BoardTypes, ServiceTypes, DialogTypes, SaveTypes,
       DeleteTypes, HistoryTypes, boardVars, service, sessions, dialog, saveVars, deletes, history
<1>5. CASE Leave
  <2>1. ServiceTypes'
    <3>1. link' = link /\ serial' = serial /\ reading' = reading /\ SessionLeft
      BY <1>5 DEF Leave
    <3>2. session' \in BOOLEAN /\ expiring' \in BOOLEAN /\ left' \in BOOLEAN
      BY <3>1 DEF SessionLeft, SessionEnds, SessionLapses, Types, ServiceTypes
    <3> QED
      BY <3>1, <3>2 DEF Types, ServiceTypes
  <2>2. ReportTypes'
    <3>1. snap' \in Snaps
      BY <1>5, FreshTyped DEF Leave, Types, ReportTypes
    <3> QED
      BY <1>5, <3>1, Blanks DEF Leave, EmptyState, ReportTypes
  <2>3. DialogTypes' /\ SaveTypes' /\ DeleteTypes'
    BY <1>5 DEF Leave, EmptyState, DialogTypes, SaveTypes, DeleteTypes
  <2>4. /\ at' \in Boards /\ cached' \in [Boards -> Contents]
        /\ stored' \in [Boards -> Contents] /\ held' \in [Boards -> [Axes -> SUBSET Values]]
        /\ erased' \in [Boards -> SUBSET Axes]
    <3>1. CASE BoardLeft /\ UNCHANGED cached
      <4>1. /\ saving = "commit" => cur \in Axes /\ d \in {0} \cup Values
            /\ deleting = "reset" => erasing \in Axes /\ 0 \in {0} \cup Values
        BY DEF Types, SaveTypes, DeleteTypes
      <4>2. at' = at
        BY <1>5 DEF Leave
      <4> QED
        BY <3>1, <4>1, <4>2, StoresTyped DEF BoardLeft, Types, BoardTypes, HistoryTypes
    <3>2. CASE deleting = "check" /\ SeenErased /\ UNCHANGED <<stored, held>>
      <4>1. erasing \in Axes /\ Cache(erasing, 0)
        BY <3>2 DEF SeenErased, DropCopy, Types, DeleteTypes
      <4>2. cached' \in [Boards -> Contents]
        BY <4>1, CachesTyped
      <4>3. erased' \in [Boards -> SUBSET Axes]
        BY <3>2, <4>1 DEF SeenErased, Types, BoardTypes, HistoryTypes
      <4>4. at' = at
        BY <1>5 DEF Leave
      <4> QED
        BY <3>2, <4>2, <4>3, <4>4 DEF Types, BoardTypes, HistoryTypes
    <3> QED
      BY <1>5, <3>1, <3>2 DEF Leave
  <2>5. origin' \in [Values -> Stamps] /\ troubles' \in 0..MaxTroubles
    BY <1>5, BoundedCounts DEF Leave, Trouble, Types, HistoryTypes
  <2> QED
    BY <2>1, <2>2, <2>3, <2>4, <2>5 DEF Types, BoardTypes, HistoryTypes
<1>6. CASE Mount
  BY <1>6, RegressedTyped DEF Mount, Elsewhere, Differs, Types, BoardTypes, ServiceTypes,
     ReportTypes, DialogTypes, SaveTypes, DeleteTypes, HistoryTypes, boardVars, service, sessions,
     saveVars, deletes, history
<1>7. ASSUME NEW ok \in BOOLEAN, OpenAnswered(ok)
      PROVE  Types'
  <2>1. restorable' \in Contents
    BY <1>7, OfferableTyped DEF OpenAnswered, Types, BoardTypes, ServiceTypes, ReportTypes
  <2>2. BoardTypes'
    BY <1>7 DEF OpenAnswered, SessionOpens, Elsewhere, Types, BoardTypes, boardVars
  <2>3. ServiceTypes'
    BY <1>7 DEF OpenAnswered, SessionOpens, Elsewhere, Types, ServiceTypes, service, sessions
  <2>4. ReportTypes'
    BY <1>7, <2>1 DEF OpenAnswered, SessionOpens, Elsewhere, Types, ReportTypes, report
  <2>5. DialogTypes'
    BY <1>7 DEF OpenAnswered, SessionOpens, Elsewhere, Types, DialogTypes, dialog
  <2>6. SaveTypes'
    BY <1>7 DEF OpenAnswered, SessionOpens, Elsewhere, Types, SaveTypes, saveVars
  <2>7. DeleteTypes'
    BY <1>7 DEF OpenAnswered, SessionOpens, Elsewhere, Types, DeleteTypes, deletes
  <2>8. HistoryTypes'
    BY <1>7 DEF OpenAnswered, SessionOpens, Elsewhere, Types, HistoryTypes, history
  <2> QED
    BY <2>2, <2>3, <2>4, <2>5, <2>6, <2>7, <2>8 DEF Types
<1>8. ASSUME NEW ok \in BOOLEAN, ResumeAnswered(ok)
      PROVE  Types'
  <2>1. restorable' \in Contents
    BY <1>8, OfferableTyped DEF ResumeAnswered, Types, BoardTypes, ServiceTypes, ReportTypes
  <2>2. BoardTypes'
    BY <1>8 DEF ResumeAnswered, SessionOpens, Elsewhere, Types, BoardTypes, boardVars
  <2>3. ServiceTypes'
    BY <1>8 DEF ResumeAnswered, SessionOpens, Elsewhere, Types, ServiceTypes, service, sessions
  <2>4. ReportTypes'
    BY <1>8, <2>1 DEF ResumeAnswered, SessionOpens, Elsewhere, Types, ReportTypes, report
  <2>5. DialogTypes'
    BY <1>8 DEF ResumeAnswered, SessionOpens, Elsewhere, Types, DialogTypes, dialog
  <2>6. SaveTypes'
    BY <1>8 DEF ResumeAnswered, SessionOpens, Elsewhere, Types, SaveTypes, saveVars
  <2>7. DeleteTypes'
    BY <1>8 DEF ResumeAnswered, SessionOpens, Elsewhere, Types, DeleteTypes, deletes
  <2>8. HistoryTypes'
    BY <1>8 DEF ResumeAnswered, SessionOpens, Elsewhere, Types, HistoryTypes, history
  <2> QED
    BY <2>2, <2>3, <2>4, <2>5, <2>6, <2>7, <2>8 DEF Types
<1>9. ASSUME NEW ok \in BOOLEAN, CloseAnswered(ok)
      PROVE  Types'
  <2>1. BoardTypes'
    BY <1>9 DEF CloseAnswered, DialogGoes, EmptyState, Elsewhere, Types, BoardTypes, boardVars
  <2>2. ServiceTypes'
    BY <1>9 DEF CloseAnswered, SessionLapses, SessionEnds, DialogGoes, EmptyState, Elsewhere, Types,
       ServiceTypes, service, sessions
  <2>3. ReportTypes'
    BY <1>9, Blanks DEF CloseAnswered, DialogGoes, EmptyState, Elsewhere, Types, ReportTypes, report
  <2>4. DialogTypes'
    BY <1>9 DEF CloseAnswered, DialogGoes, EmptyState, Elsewhere, Types, DialogTypes, dialog
  <2>5. SaveTypes'
    BY <1>9 DEF CloseAnswered, DialogGoes, EmptyState, Elsewhere, Types, SaveTypes, saveVars
  <2>6. DeleteTypes'
    BY <1>9 DEF CloseAnswered, DialogGoes, EmptyState, Elsewhere, Types, DeleteTypes, deletes
  <2>7. HistoryTypes'
    BY <1>9 DEF CloseAnswered, DialogGoes, EmptyState, Elsewhere, Types, HistoryTypes, history
  <2> QED
    BY <2>1, <2>2, <2>3, <2>4, <2>5, <2>6, <2>7 DEF Types
<1> QED
  BY <1>1, <1>2, <1>3, <1>4, <1>5, <1>6, <1>7, <1>8, <1>9

LEMMA CaptureTyped ==
    ASSUME Types, NEW i \in Axes, Capture(i)
    PROVE  Types'
<1>1. Cardinality(Captured) \in Nat
  <2>1. IsFiniteSet(Values)
    BY BoundedCounts, FS_Interval DEF Values
  <2>2. Captured \in SUBSET Values
    BY DEF Captured
  <2>3. IsFiniteSet(Captured)
    BY <2>1, <2>2, FS_Subset
  <2> QED
    BY <2>3, FS_CardinalityType
<1> DEFINE v == Cardinality(Captured) + 1
<1>2. v \in Values
  BY <1>1, BoundedCounts DEF Capture, Values
<1>3. drafts' = [drafts EXCEPT ![i] = v] /\ origin' = [origin EXCEPT ![v] = at]
  BY DEF Capture
<1> HIDE DEF v
<1>4. drafts' \in Contents /\ origin' \in [Values -> Stamps]
  BY <1>2, <1>3 DEF Types, ReportTypes, HistoryTypes, BoardTypes, Contents, Stamps
<1>5. BoardTypes'
  BY <1>4 DEF Capture, Types, BoardTypes, boardVars
<1>6. ServiceTypes'
  BY <1>4 DEF Capture, Types, ServiceTypes, service, sessions
<1>7. ReportTypes'
  BY <1>4 DEF Capture, Types, ReportTypes, report
<1>8. DialogTypes'
  BY <1>4 DEF Capture, Types, DialogTypes, dialog
<1>9. SaveTypes'
  BY <1>4 DEF Capture, Types, SaveTypes, saveVars
<1>10. DeleteTypes'
  BY <1>4 DEF Capture, Types, DeleteTypes, deletes
<1>11. HistoryTypes'
  BY <1>4 DEF Capture, Types, HistoryTypes, history
<1> QED
  BY <1>5, <1>6, <1>7, <1>8, <1>9, <1>10, <1>11 DEF Types

LEMMA BeginsTyped ==
    ASSUME Types, NEW ds \in Contents, Begins(ds)
    PROVE  Types'
<1>1. Dirty(ds) \in SUBSET Axes /\ Dirty(ds) # {} /\ Commits(Dirty(ds), ds)
  BY DEF Begins, Dirty
<1>2. write' = "writing" /\ hold' = hold /\ drafts' = ds
  BY DEF Begins
<1>3. hold' \in BOOLEAN
  BY <1>2 DEF Types, SaveTypes
<1>4. BoardTypes'
  BY DEF Begins, Elsewhere, Types, BoardTypes, boardVars
<1>5. ServiceTypes'
  BY DEF Begins, Elsewhere, Types, ServiceTypes, service, sessions
<1>6. ReportTypes'
  BY <1>2 DEF Begins, Elsewhere, Types, ReportTypes, report
<1>7. DialogTypes'
  BY DEF Begins, Elsewhere, Types, DialogTypes, dialog
<1>8. SaveTypes'
  BY <1>1, <1>2, <1>3, CommitsTyped
<1>9. DeleteTypes'
  BY DEF Begins, Elsewhere, Types, DeleteTypes, deletes
<1>10. HistoryTypes'
  BY DEF Begins, Elsewhere, Types, HistoryTypes, history
<1> QED
  BY <1>4, <1>5, <1>6, <1>7, <1>8, <1>9, <1>10 DEF Types

(* What a step of a write leaves alone.                                     *)
LEMMA SaveKeepsTyped ==
    ASSUME Types, SaveKeeps
    PROVE  /\ at' \in Boards /\ ServiceTypes' /\ DialogTypes' /\ DeleteTypes'
           /\ origin' \in [Values -> Stamps] /\ troubles' \in 0..MaxTroubles
<1>1. ServiceTypes'
  BY DEF SaveKeeps, Types, ServiceTypes, service, sessions
<1>2. DialogTypes'
  BY DEF SaveKeeps, Types, DialogTypes, dialog
<1>3. DeleteTypes'
  BY DEF SaveKeeps, Types, DeleteTypes, deletes
<1> QED
  BY <1>1, <1>2, <1>3 DEF SaveKeeps, Types, BoardTypes, HistoryTypes

(* What a write drops and offers when it fails.                             *)
LEMMA WriteEndedTyped ==
    ASSUME Types, WriteEnded, ReportTypes'
    PROVE  Types'
<1>1. SaveKeeps /\ UNCHANGED <<stored, cached, held, erased>>
  BY DEF WriteEnded
<1>2. SaveTypes'
  BY DEF WriteEnded, Types, SaveTypes
<1> QED
  BY <1>1, <1>2, SaveKeepsTyped DEF Types, BoardTypes, HistoryTypes

LEMMA GivesUpTyped ==
    ASSUME Types, drafts' = AfterFailure(device, drafts), restorable' = Offerable(cached, snap),
           UNCHANGED <<snap, device, seedOnResume, offer, resuming>>
    PROVE  ReportTypes'
<1>1. drafts' \in Contents
  BY AfterFailureTyped DEF Types, ReportTypes
<1>2. restorable' \in Contents
  BY OfferableTyped DEF Types, BoardTypes, ServiceTypes
<1> QED
  BY <1>1, <1>2 DEF Types, ReportTypes

LEMMA FailWriteTyped ==
    ASSUME Types, FailWrite
    PROVE  Types'
<1>1. WriteEnded
  BY DEF FailWrite
<1>2. CASE Reported(Fresh, AfterFailure(Fresh, Kept(Fresh)), Offerable(cached, Fresh))
  <2>1. Kept(Fresh) \in Contents
    BY KeptTyped
  <2>2. AfterFailure(Fresh, Kept(Fresh)) \in Contents
    BY <2>1, AfterFailureTyped
  <2>3. Offerable(cached, Fresh) \in Contents
    BY OfferableTyped DEF Types, BoardTypes, ServiceTypes
  <2>4. ReportTypes'
    BY <1>2, <2>2, <2>3, FreshTyped, ReportedTyped
  <2> QED
    BY <1>1, <2>4, WriteEndedTyped
<1>3. CASE /\ drafts' = AfterFailure(device, drafts)
           /\ restorable' = Offerable(cached, snap)
           /\ UNCHANGED <<snap, device, seedOnResume, offer, resuming>>
  BY <1>1, <1>3, GivesUpTyped, WriteEndedTyped
<1> QED
  BY <1>2, <1>3 DEF FailWrite

LEMMA LostTimesOutTyped ==
    ASSUME Types, LostTimesOut
    PROVE  Types'
<1>1. CASE /\ saving' = "failing"
           /\ UNCHANGED <<stored, cached, held, erased, report, write, hold, todo, cur, d, got>>
           /\ SaveKeeps
  <2>1. SaveTypes' /\ ReportTypes'
    BY <1>1 DEF LostTimesOut, Types, SaveTypes, ReportTypes, report
  <2> QED
    BY <1>1, <2>1, SaveKeepsTyped DEF Types, BoardTypes, HistoryTypes
<1>2. CASE /\ drafts' = AfterFailure(device, drafts)
           /\ restorable' = Offerable(cached, snap)
           /\ UNCHANGED <<snap, device, seedOnResume, offer, resuming>>
           /\ WriteEnded
  BY <1>2, GivesUpTyped, WriteEndedTyped
<1> QED
  BY <1>1, <1>2 DEF LostTimesOut

LEMMA VerifiedTyped ==
    ASSUME Types, Verified
    PROVE  Types'
<1>1. SaveKeeps /\ UNCHANGED <<stored, held, erased, snap, seedOnResume, offer, resuming>>
  BY DEF Verified
<1>2. cached' \in [Boards -> Contents]
  BY CachesTyped DEF Verified, Types, SaveTypes
<1>3. Without(drafts, {cur}) \in Contents
  BY WithoutTyped DEF Types, ReportTypes
<1>4. drafts' = Without(drafts, {cur}) /\ device' \in Snaps
  BY DEF Verified, Types, ReportTypes
<1>5. CASE todo # {}
  <2>1. Commits(todo, drafts') /\ UNCHANGED <<restorable, write, hold>>
    BY <1>4, <1>5 DEF Verified
  <2>2. todo \in SUBSET Axes /\ write' \in {"none", "writing", "done"} /\ hold' \in BOOLEAN
    BY <2>1 DEF Types, SaveTypes
  <2>3. SaveTypes'
    BY <1>3, <1>4, <1>5, <2>1, <2>2, CommitsTyped
  <2>4. ReportTypes'
    BY <1>1, <1>3, <1>4, <2>1 DEF Types, ReportTypes
  <2> QED
    BY <1>1, <1>2, <2>3, <2>4, SaveKeepsTyped DEF Types, BoardTypes, HistoryTypes
<1>6. CASE todo = {}
  <2>1. restorable' = Offerable(cached', snap)
    BY <1>6 DEF Verified
  <2>2. restorable' \in Contents
    BY <1>2, <2>1, OfferableTyped DEF Types, ServiceTypes
  <2>3. ReportTypes'
    BY <1>1, <1>3, <1>4, <2>2 DEF Types, ReportTypes
  <2>4. SaveTypes'
    BY <1>6 DEF Verified, Types, SaveTypes
  <2> QED
    BY <1>1, <1>2, <2>3, <2>4, SaveKeepsTyped DEF Types, BoardTypes, HistoryTypes
<1> QED
  BY <1>5, <1>6

LEMMA WriteTyped ==
    ASSUME Types,
           \/ Save \/ Restore \/ AsksReadBack \/ Verified \/ Mismatch \/ FailWrite \/ LostTimesOut
           \/ \E ok \in BOOLEAN : CommitAnswered(ok) \/ ReadBack(ok)
    PROVE  Types'
<1>1. CASE Save
  BY <1>1, BeginsTyped DEF Save, Types, ReportTypes
<1>2. CASE Restore
  <2>1. [i \in Axes |-> IF restorable[i] # 0 THEN restorable[i] ELSE drafts[i]] \in Contents
    BY DEF Types, ReportTypes, Contents
  <2> QED
    BY <1>2, <2>1, BeginsTyped DEF Restore
<1>3. CASE AsksReadBack
  <2>1. SaveKeeps /\ SaveTypes' /\ ReportTypes'
    BY <1>3 DEF AsksReadBack, Types, SaveTypes, ReportTypes, report
  <2> QED
    BY <1>3, <2>1, SaveKeepsTyped DEF AsksReadBack, Types, BoardTypes, HistoryTypes
<1>4. CASE Mismatch
  <2>1. SaveKeeps /\ SaveTypes' /\ ReportTypes'
    BY <1>4 DEF Mismatch, Types, SaveTypes, ReportTypes, report
  <2> QED
    BY <1>4, <2>1, SaveKeepsTyped DEF Mismatch, Types, BoardTypes, HistoryTypes
<1>5. ASSUME NEW ok \in BOOLEAN, CommitAnswered(ok)
      PROVE  Types'
  <2>1. SaveKeeps /\ SaveTypes' /\ ReportTypes'
    BY <1>5 DEF CommitAnswered, Types, SaveTypes, ReportTypes, report
  <2>2. cur \in Axes \cup {0} /\ d \in {0} \cup Values
    BY DEF Types, SaveTypes
  <2>3. /\ stored' \in [Boards -> Contents]
        /\ held' \in [Boards -> [Axes -> SUBSET Values]]
        /\ erased' \in [Boards -> SUBSET Axes]
    BY <1>5, <2>2, StoresTyped DEF CommitAnswered, Types, BoardTypes, HistoryTypes
  <2>4. cached' = cached
    BY <1>5 DEF CommitAnswered
  <2> QED
    BY <2>1, <2>3, <2>4, SaveKeepsTyped DEF Types, BoardTypes, HistoryTypes
<1>6. ASSUME NEW ok \in BOOLEAN, ReadBack(ok)
      PROVE  Types'
  <2>1. SaveKeeps /\ UNCHANGED <<stored, cached, held, erased>>
    BY <1>6 DEF ReadBack
  <2>2. ReportTypes'
    BY <1>6, TakesReportTyped DEF ReadBack, Types, ReportTypes, report
  <2>3. ok /\ cur \in Axes => stored[at][cur] \in {0} \cup Values
    BY DEF Types, BoardTypes, Contents
  <2>4. SaveTypes'
    BY <1>6, <2>3 DEF ReadBack, Types, SaveTypes
  <2> QED
    BY <2>1, <2>2, <2>4, SaveKeepsTyped DEF Types, BoardTypes, HistoryTypes
<1> QED
  BY <1>1, <1>2, <1>3, <1>4, <1>5, <1>6, VerifiedTyped, FailWriteTyped, LostTimesOutTyped

LEMMA DeleteTyped ==
    ASSUME Types,
           \/ \E i \in Axes : DeleteAxis(i)
           \/ \E ok \in BOOLEAN : ResetAnswered(ok)
           \/ DeleteChecked \/ DeleteRefreshed
    PROVE  Types'
<1>1. DeleteKeeps
  BY DEF DeleteAxis, ResetAnswered, DeleteChecked, DeleteRefreshed
<1>2. /\ at' \in Boards /\ ServiceTypes' /\ SaveTypes'
      /\ origin' \in [Values -> Stamps] /\ troubles' \in 0..MaxTroubles
  <2>1. ServiceTypes'
    BY <1>1 DEF DeleteKeeps, Types, ServiceTypes, service, sessions
  <2>2. SaveTypes'
    BY <1>1 DEF DeleteKeeps, Types, SaveTypes, saveVars
  <2> QED
    BY <1>1, <2>1, <2>2 DEF DeleteKeeps, Types, BoardTypes, HistoryTypes
<1>3. DialogTypes'
  BY <1>1 DEF DeleteKeeps, Types, DialogTypes, dialog
<1>4. ASSUME NEW i \in Axes, DeleteAxis(i)
      PROVE  Types'
  <2>1. UNCHANGED <<stored, cached, held, erased, report>> /\ DeleteTypes'
    BY <1>4 DEF DeleteAxis, DeleteTypes
  <2>2. ReportTypes'
    BY <2>1 DEF Types, ReportTypes, report
  <2> QED
    BY <1>2, <1>3, <2>1, <2>2 DEF Types, BoardTypes, HistoryTypes
<1>5. ASSUME NEW ok \in BOOLEAN, ResetAnswered(ok)
      PROVE  Types'
  <2>1. UNCHANGED <<cached, report>> /\ DeleteTypes'
    BY <1>5 DEF ResetAnswered, Types, DeleteTypes
  <2>2. ReportTypes'
    BY <2>1 DEF Types, ReportTypes, report
  <2>3. erasing \in Axes \cup {0}
    BY DEF Types, DeleteTypes
  <2>4. /\ stored' \in [Boards -> Contents]
        /\ held' \in [Boards -> [Axes -> SUBSET Values]]
        /\ erased' \in [Boards -> SUBSET Axes]
    BY <1>5, <2>3, StoresTyped DEF ResetAnswered, Types, BoardTypes, HistoryTypes
  <2> QED
    BY <1>2, <1>3, <2>1, <2>2, <2>4 DEF Types, BoardTypes, HistoryTypes
<1>6. CASE DeleteChecked
  <2>1. UNCHANGED <<stored, held>> /\ DeleteTypes'
    BY <1>6 DEF DeleteChecked, DeleteEnds, DeleteTypes
  <2>2. erasing \in Axes \cup {0}
    BY DEF Types, DeleteTypes
  <2>3. CASE /\ SeenErased
             /\ Reported(Fresh, Without(Kept(Fresh), {erasing}), KeptOffer(Fresh))
    <3>1. Without(Kept(Fresh), {erasing}) \in Contents /\ KeptOffer(Fresh) \in Contents
      BY KeptTyped, WithoutTyped
    <3>2. ReportTypes'
      BY <2>3, <3>1, FreshTyped, ReportedTyped
    <3>3. cached' \in [Boards -> Contents]
      BY <2>2, <2>3, CachesTyped DEF SeenErased, DropCopy
    <3>4. erased' \in [Boards -> SUBSET Axes]
      <4>1. erasing \in Axes
        BY <1>6 DEF DeleteChecked, Types, DeleteTypes
      <4> QED
        BY <2>3, <4>1 DEF SeenErased, Types, BoardTypes, HistoryTypes
    <3> QED
      BY <1>2, <1>3, <2>1, <3>2, <3>3, <3>4 DEF Types, BoardTypes, HistoryTypes
  <2>4. CASE TakesReport /\ UNCHANGED <<cached, erased>>
    <3>1. ReportTypes'
      BY <2>4, TakesReportTyped
    <3> QED
      BY <1>2, <1>3, <2>1, <2>4, <3>1 DEF Types, BoardTypes, HistoryTypes
  <2>5. CASE UNCHANGED <<report, cached, erased>>
    <3>1. ReportTypes'
      BY <2>5 DEF Types, ReportTypes, report
    <3> QED
      BY <1>2, <1>3, <2>1, <2>5, <3>1 DEF Types, BoardTypes, HistoryTypes
  <2> QED
    BY <1>6, <2>3, <2>4, <2>5 DEF DeleteChecked
<1>7. CASE DeleteRefreshed
  <2>1. UNCHANGED <<stored, cached, held, erased>> /\ DeleteTypes'
    BY <1>7 DEF DeleteRefreshed, DeleteEnds, DeleteTypes
  <2>2. ReportTypes'
    BY <1>7, TakesReportTyped DEF DeleteRefreshed, Types, ReportTypes, report
  <2> QED
    BY <1>2, <1>3, <2>1, <2>2 DEF Types, BoardTypes, HistoryTypes
<1> QED
  BY <1>4, <1>5, <1>6, <1>7

LEMMA TypesStep == ASSUME Types, [Next]_vars PROVE Types'
<1>1. CASE Answered
  BY <1>1, SessionTyped, WriteTyped, DeleteTyped DEF Answered
<1>2. CASE Intents
  BY <1>2, SessionTyped, WriteTyped, DeleteTyped, CaptureTyped DEF Intents
<1>3. CASE LinkMoves
  BY <1>3, LinkTyped, DropTyped DEF LinkMoves
<1>4. CASE UNCHANGED vars
  <2>1. BoardTypes' /\ ServiceTypes'
    BY <1>4 DEF vars, Types, BoardTypes, ServiceTypes, boardVars, service, sessions
  <2>2. ReportTypes' /\ DialogTypes'
    BY <1>4 DEF vars, Types, ReportTypes, DialogTypes, report, dialog
  <2>3. SaveTypes' /\ DeleteTypes'
    BY <1>4 DEF vars, Types, SaveTypes, DeleteTypes, saveVars, deletes
  <2>4. HistoryTypes'
    BY <1>4 DEF vars, Types, HistoryTypes, history
  <2> QED
    BY <2>1, <2>2, <2>3, <2>4 DEF Types
<1> QED
  BY <1>1, <1>2, <1>3, <1>4 DEF Next

LEMMA TypesAlways == Spec => []Types
<1>1. Init => Types
  <2> SUFFICES ASSUME Init PROVE Types
    OBVIOUS
  <2>1. at \in Boards
    BY BoardsAssumption DEF Init
  <2>2. BoardTypes /\ ReportTypes
    BY <2>1, Blanks DEF Init, BoardTypes, ReportTypes
  <2>3. ServiceTypes /\ DialogTypes /\ SaveTypes /\ DeleteTypes
    BY Blanks DEF Init, ServiceTypes, DialogTypes, SaveTypes, DeleteTypes
  <2>4. HistoryTypes
    BY BoundedCounts, Blanks DEF Init, HistoryTypes
  <2> QED
    BY <2>2, <2>3, <2>4 DEF Types
<1>2. Types /\ [Next]_vars => Types'
  BY TypesStep
<1> QED
  BY <1>1, <1>2, PTL DEF Spec

(* Every variable of the dialog, its service, sessions and the boards keeps its type. *)
THEOREM Typing == Spec => []TypeOK
  BY TypesAlways, TypesCover, PTL

-----------------------------------------------------------------------------
(***************************************************************************)
(* Who is connected to what.                                               *)
(***************************************************************************)
Resuming == resuming' = "sent" /\ view /\ paused /\ open /\ link

(* All that a report begins is a resume of a paused dialog.                 *)
LEMMA ReportResumes ==
    ASSUME NEW next, NEW keep, NEW its, Reported(next, keep, its)
    PROVE  /\ resuming' # resuming => Resuming
           /\ snap' = next
           /\ IF view THEN /\ device' = next /\ drafts' = keep /\ restorable' = its
                          /\ offer' = Regressed(cached, next)
                      ELSE UNCHANGED <<device, drafts, restorable, offer>>
<1>1. CASE view
  <2>1. /\ device' = next /\ drafts' = keep /\ restorable' = its /\ snap' = next
        /\ offer' = Regressed(cached, next)
    BY <1>1 DEF Reported
  <2>2. resuming' = IF Resumes THEN "sent" ELSE resuming
    BY <1>1 DEF Reported
  <2>3. resuming' # resuming => Resuming
    BY <1>1, <2>2 DEF Resumes, Resuming
  <2> QED
    BY <1>1, <2>1, <2>3
<1>2. CASE ~view
  BY <1>2 DEF Reported
<1> QED
  BY <1>1, <1>2

LEMMA TakesResumes ==
    ASSUME TakesReport
    PROVE  /\ resuming' # resuming => Resuming
           /\ snap' = Fresh
           /\ IF view THEN /\ device' = Fresh /\ drafts' = Kept(Fresh)
                          /\ restorable' = KeptOffer(Fresh) /\ offer' = Regressed(cached, Fresh)
                      ELSE UNCHANGED <<device, drafts, restorable, offer>>
  BY ReportResumes DEF TakesReport

Shape == NeedsLink /\ NeedsView /\ Dialog

LEMMA ShapeStep == ASSUME Types, Shape, [Next]_vars PROVE Shape'
<1> USE DEF Shape
<1>1. CASE LinkUp
  <2>1. NeedsLink'
    BY <1>1 DEF NeedsLink, NeedsView, Dialog, Resuming, LinkUp, report, saveVars, deletes
  <2>2. NeedsView'
    BY <1>1 DEF NeedsView, NeedsLink, Dialog, Resuming, LinkUp, report, saveVars, deletes
  <2>3. Dialog'
    BY <1>1 DEF Dialog, NeedsLink, LinkUp, report, saveVars, deletes
  <2> QED
    BY <2>1, <2>2, <2>3
<1>2. CASE SerialRead
  <2>1. NeedsLink'
    BY <1>2 DEF NeedsLink, NeedsView, Dialog, Resuming, SerialRead, report, dialog, saveVars,
       deletes
  <2>2. NeedsView'
    BY <1>2 DEF NeedsView, NeedsLink, Dialog, Resuming, SerialRead, report, dialog, saveVars,
       deletes
  <2>3. Dialog'
    BY <1>2 DEF Dialog, NeedsLink, SerialRead, report, dialog, saveVars, deletes
  <2> QED
    BY <2>1, <2>2, <2>3
<1>3. CASE ConnectRead
  <2>1. NeedsLink'
    BY <1>3, TakesResumes DEF NeedsLink, NeedsView, Dialog, Resuming, ConnectRead, report, dialog,
       saveVars, deletes
  <2>2. NeedsView'
    BY <1>3, TakesResumes DEF NeedsView, NeedsLink, Dialog, Resuming, ConnectRead, report, dialog,
       saveVars, deletes
  <2>3. Dialog'
    BY <1>3, TakesResumes DEF Dialog, NeedsLink, ConnectRead, report, dialog, saveVars, deletes
  <2> QED
    BY <2>1, <2>2, <2>3
<1>4. CASE Expire
  <2>1. NeedsLink'
    BY <1>4 DEF NeedsLink, NeedsView, Dialog, Resuming, Expire, report, dialog, saveVars, deletes
  <2>2. NeedsView'
    BY <1>4 DEF NeedsView, NeedsLink, Dialog, Resuming, Expire, report, dialog, saveVars, deletes
  <2>3. Dialog'
    BY <1>4 DEF Dialog, NeedsLink, Expire, report, dialog, saveVars, deletes
  <2> QED
    BY <2>1, <2>2, <2>3
<1>5. CASE HoldFires
  <2>1. NeedsLink'
    BY <1>5 DEF NeedsLink, NeedsView, Dialog, Resuming, HoldFires, SaveKeeps, service, report,
       dialog, deletes
  <2>2. NeedsView'
    BY <1>5 DEF NeedsView, NeedsLink, Dialog, Resuming, HoldFires, SaveKeeps, service, report,
       dialog, deletes
  <2>3. Dialog'
    BY <1>5 DEF Dialog, NeedsLink, HoldFires, SaveKeeps, service, report, dialog, deletes
  <2> QED
    BY <2>1, <2>2, <2>3
<1>6. CASE OpenDialog
  <2>1. NeedsLink'
    BY <1>6 DEF NeedsLink, NeedsView, Dialog, Resuming, OpenDialog, service, deletes
  <2>2. NeedsView'
    BY <1>6 DEF NeedsView, NeedsLink, Dialog, Resuming, OpenDialog, service, deletes
  <2>3. Dialog'
    BY <1>6 DEF Dialog, NeedsLink, OpenDialog, service, deletes
  <2> QED
    BY <2>1, <2>2, <2>3
<1>7. CASE Close
  <2>1. NeedsLink'
    BY <1>7 DEF NeedsLink, NeedsView, Dialog, Resuming, Close, Acts, service, report, dialog,
       saveVars, deletes
  <2>2. NeedsView'
    BY <1>7 DEF NeedsView, NeedsLink, Dialog, Resuming, Close, Acts, service, report, dialog,
       saveVars, deletes
  <2>3. Dialog'
    BY <1>7 DEF Dialog, NeedsLink, Close, Acts, service, report, dialog, saveVars, deletes
  <2> QED
    BY <2>1, <2>2, <2>3
<1>8. CASE CloseLost
  <2>1. NeedsLink'
    BY <1>8 DEF NeedsLink, NeedsView, Dialog, Resuming, CloseLost, DialogGoes, deletes
  <2>2. NeedsView'
    BY <1>8 DEF NeedsView, NeedsLink, Dialog, Resuming, CloseLost, DialogGoes, deletes
  <2>3. Dialog'
    BY <1>8 DEF Dialog, NeedsLink, CloseLost, DialogGoes, deletes
  <2> QED
    BY <2>1, <2>2, <2>3
<1>9. CASE CloseRead
  <2>1. NeedsLink'
    BY <1>9, TakesResumes DEF NeedsLink, NeedsView, Dialog, Resuming, CloseRead, service, dialog,
       saveVars, deletes
  <2>2. NeedsView'
    BY <1>9, TakesResumes DEF NeedsView, NeedsLink, Dialog, Resuming, CloseRead, service, dialog,
       saveVars, deletes
  <2>3. Dialog'
    BY <1>9, TakesResumes DEF Dialog, NeedsLink, CloseRead, service, dialog, saveVars, deletes
  <2> QED
    BY <2>1, <2>2, <2>3
<1>10. CASE Leave
  <2>1. NeedsLink'
    BY <1>10 DEF NeedsLink, NeedsView, Dialog, Resuming, Leave, EmptyState, service
  <2>2. NeedsView'
    BY <1>10 DEF NeedsView, NeedsLink, Dialog, Resuming, Leave, EmptyState, service
  <2>3. Dialog'
    BY <1>10 DEF Dialog, NeedsLink, Leave, EmptyState, service
  <2> QED
    BY <2>1, <2>2, <2>3
<1>11. CASE Mount
  <2>1. NeedsLink'
    BY <1>11 DEF NeedsLink, NeedsView, Dialog, Resuming, Mount, service, saveVars, deletes
  <2>2. NeedsView'
    BY <1>11 DEF NeedsView, NeedsLink, Dialog, Resuming, Mount, service, saveVars, deletes
  <2>3. Dialog'
    BY <1>11 DEF Dialog, NeedsLink, Mount, service, saveVars, deletes
  <2> QED
    BY <2>1, <2>2, <2>3
<1>12. CASE AsksReadBack
  <2>1. NeedsLink'
    BY <1>12 DEF NeedsLink, NeedsView, Dialog, Resuming, AsksReadBack, SaveKeeps, service, report,
       dialog, deletes
  <2>2. NeedsView'
    BY <1>12 DEF NeedsView, NeedsLink, Dialog, Resuming, AsksReadBack, SaveKeeps, service, report,
       dialog, deletes
  <2>3. Dialog'
    BY <1>12 DEF Dialog, NeedsLink, AsksReadBack, SaveKeeps, service, report, dialog, deletes
  <2> QED
    BY <2>1, <2>2, <2>3
<1>13. CASE Verified
  <2>1. NeedsLink'
    BY <1>13 DEF NeedsLink, NeedsView, Dialog, Resuming, Verified, SaveKeeps, Commits, service,
       dialog, deletes
  <2>2. NeedsView'
    BY <1>13 DEF NeedsView, NeedsLink, Dialog, Resuming, Verified, SaveKeeps, Commits, service,
       dialog, deletes
  <2>3. Dialog'
    BY <1>13 DEF Dialog, NeedsLink, Verified, SaveKeeps, Commits, service, dialog, deletes
  <2> QED
    BY <2>1, <2>2, <2>3
<1>14. CASE Mismatch
  <2>1. NeedsLink'
    BY <1>14 DEF NeedsLink, NeedsView, Dialog, Resuming, Mismatch, SaveKeeps, service, report,
       dialog, deletes
  <2>2. NeedsView'
    BY <1>14 DEF NeedsView, NeedsLink, Dialog, Resuming, Mismatch, SaveKeeps, service, report,
       dialog, deletes
  <2>3. Dialog'
    BY <1>14 DEF Dialog, NeedsLink, Mismatch, SaveKeeps, service, report, dialog, deletes
  <2> QED
    BY <2>1, <2>2, <2>3
<1>15. CASE FailWrite
  <2>1. NeedsLink'
    BY <1>15, ReportResumes DEF NeedsLink, NeedsView, Dialog, Resuming, FailWrite, WriteEnded,
       SaveKeeps, service, dialog, deletes
  <2>2. NeedsView'
    BY <1>15, ReportResumes DEF NeedsView, NeedsLink, Dialog, Resuming, FailWrite, WriteEnded,
       SaveKeeps, service, dialog, deletes
  <2>3. Dialog'
    BY <1>15, ReportResumes DEF Dialog, NeedsLink, FailWrite, WriteEnded, SaveKeeps, service,
       dialog, deletes
  <2> QED
    BY <2>1, <2>2, <2>3
<1>16. CASE LostTimesOut
  <2>1. NeedsLink'
    BY <1>16 DEF NeedsLink, NeedsView, Dialog, Resuming, LostTimesOut, WriteEnded, SaveKeeps,
       service, report, dialog, deletes
  <2>2. NeedsView'
    BY <1>16 DEF NeedsView, NeedsLink, Dialog, Resuming, LostTimesOut, WriteEnded, SaveKeeps,
       service, report, dialog, deletes
  <2>3. Dialog'
    BY <1>16 DEF Dialog, NeedsLink, LostTimesOut, WriteEnded, SaveKeeps, service, report, dialog,
       deletes
  <2> QED
    BY <2>1, <2>2, <2>3
<1>17. CASE Save \/ Restore
  <2>1. NeedsLink'
    BY <1>17 DEF NeedsLink, NeedsView, Dialog, Resuming, Save, Restore, Begins, MaySave, Acts,
       Commits, service, dialog, deletes
  <2>2. NeedsView'
    BY <1>17 DEF NeedsView, NeedsLink, Dialog, Resuming, Save, Restore, Begins, MaySave, Acts,
       Commits, service, dialog, deletes
  <2>3. Dialog'
    BY <1>17 DEF Dialog, NeedsLink, Save, Restore, Begins, MaySave, Acts, Commits, service, dialog,
       deletes
  <2> QED
    BY <2>1, <2>2, <2>3
<1>18. CASE DeleteChecked
  <2>1. NeedsLink'
    BY <1>18, TakesResumes, ReportResumes DEF NeedsLink, NeedsView, Dialog, Resuming, DeleteChecked,
       DeleteEnds, DeleteKeeps, service, report, dialog, saveVars
  <2>2. NeedsView'
    BY <1>18, TakesResumes, ReportResumes DEF NeedsView, NeedsLink, Dialog, Resuming, DeleteChecked,
       DeleteEnds, DeleteKeeps, service, report, dialog, saveVars
  <2>3. Dialog'
    BY <1>18, TakesResumes, ReportResumes DEF Dialog, NeedsLink, DeleteChecked, DeleteEnds,
       DeleteKeeps, service, report, dialog, saveVars
  <2> QED
    BY <2>1, <2>2, <2>3
<1>19. CASE DeleteRefreshed
  <2>1. NeedsLink'
    BY <1>19, TakesResumes DEF NeedsLink, NeedsView, Dialog, Resuming, DeleteRefreshed, DeleteEnds,
       DeleteKeeps, service, report, dialog, saveVars
  <2>2. NeedsView'
    BY <1>19, TakesResumes DEF NeedsView, NeedsLink, Dialog, Resuming, DeleteRefreshed, DeleteEnds,
       DeleteKeeps, service, report, dialog, saveVars
  <2>3. Dialog'
    BY <1>19, TakesResumes DEF Dialog, NeedsLink, DeleteRefreshed, DeleteEnds, DeleteKeeps, service,
       report, dialog, saveVars
  <2> QED
    BY <2>1, <2>2, <2>3
<1>20. CASE UNCHANGED vars
  <2>1. NeedsLink'
    BY <1>20 DEF NeedsLink, NeedsView, Dialog, Resuming, vars, service, report, dialog, saveVars,
       deletes
  <2>2. NeedsView'
    BY <1>20 DEF NeedsView, NeedsLink, Dialog, Resuming, vars, service, report, dialog, saveVars,
       deletes
  <2>3. Dialog'
    BY <1>20 DEF Dialog, NeedsLink, vars, service, report, dialog, saveVars, deletes
  <2> QED
    BY <2>1, <2>2, <2>3
<1>21. ASSUME NEW ok \in BOOLEAN, OpenAnswered(ok) PROVE Shape'
  <2>1. NeedsLink'
    BY <1>21 DEF NeedsLink, NeedsView, Dialog, Resuming, OpenAnswered, Answers, saveVars, deletes
  <2>2. NeedsView'
    BY <1>21 DEF NeedsView, NeedsLink, Dialog, Resuming, OpenAnswered, Answers, saveVars, deletes
  <2>3. Dialog'
    BY <1>21 DEF Dialog, NeedsLink, OpenAnswered, Answers, saveVars, deletes
  <2> QED
    BY <2>1, <2>2, <2>3
<1>22. ASSUME NEW ok \in BOOLEAN, ResumeAnswered(ok) PROVE Shape'
  <2>1. NeedsLink'
    BY <1>22 DEF NeedsLink, NeedsView, Dialog, Resuming, ResumeAnswered, Answers, saveVars, deletes
  <2>2. NeedsView'
    BY <1>22 DEF NeedsView, NeedsLink, Dialog, Resuming, ResumeAnswered, Answers, saveVars, deletes
  <2>3. Dialog'
    BY <1>22 DEF Dialog, NeedsLink, ResumeAnswered, Answers, saveVars, deletes
  <2> QED
    BY <2>1, <2>2, <2>3
<1>23. ASSUME NEW ok \in BOOLEAN, CloseAnswered(ok) PROVE Shape'
  <2>1. NeedsLink'
    BY <1>23 DEF NeedsLink, NeedsView, Dialog, Resuming, CloseAnswered, Answers, DialogGoes, deletes
  <2>2. NeedsView'
    BY <1>23 DEF NeedsView, NeedsLink, Dialog, Resuming, CloseAnswered, Answers, DialogGoes, deletes
  <2>3. Dialog'
    BY <1>23 DEF Dialog, NeedsLink, CloseAnswered, Answers, DialogGoes, deletes
  <2> QED
    BY <2>1, <2>2, <2>3
<1>24. ASSUME NEW ok \in BOOLEAN, CommitAnswered(ok) PROVE Shape'
  <2>1. NeedsLink'
    BY <1>24 DEF NeedsLink, NeedsView, Dialog, Resuming, CommitAnswered, SaveKeeps, service, report,
       dialog, deletes
  <2>2. NeedsView'
    BY <1>24 DEF NeedsView, NeedsLink, Dialog, Resuming, CommitAnswered, SaveKeeps, service, report,
       dialog, deletes
  <2>3. Dialog'
    BY <1>24 DEF Dialog, NeedsLink, CommitAnswered, SaveKeeps, service, report, dialog, deletes
  <2> QED
    BY <2>1, <2>2, <2>3
<1>25. ASSUME NEW ok \in BOOLEAN, ReadBack(ok) PROVE Shape'
  <2>1. NeedsLink'
    BY <1>25, TakesResumes DEF NeedsLink, NeedsView, Dialog, Resuming, ReadBack, Answers, SaveKeeps,
       service, report, dialog, deletes
  <2>2. NeedsView'
    BY <1>25, TakesResumes DEF NeedsView, NeedsLink, Dialog, Resuming, ReadBack, Answers, SaveKeeps,
       service, report, dialog, deletes
  <2>3. Dialog'
    BY <1>25, TakesResumes DEF Dialog, NeedsLink, ReadBack, Answers, SaveKeeps, service, report,
       dialog, deletes
  <2> QED
    BY <2>1, <2>2, <2>3
<1>26. ASSUME NEW ok \in BOOLEAN, ResetAnswered(ok) PROVE Shape'
  <2>1. NeedsLink'
    BY <1>26 DEF NeedsLink, NeedsView, Dialog, Resuming, ResetAnswered, Answers, DeleteKeeps,
       service, report, dialog, saveVars
  <2>2. NeedsView'
    BY <1>26 DEF NeedsView, NeedsLink, Dialog, Resuming, ResetAnswered, Answers, DeleteKeeps,
       service, report, dialog, saveVars
  <2>3. Dialog'
    BY <1>26 DEF Dialog, NeedsLink, ResetAnswered, Answers, DeleteKeeps, service, report, dialog,
       saveVars
  <2> QED
    BY <2>1, <2>2, <2>3
<1>27. ASSUME NEW i \in Axes, Capture(i) PROVE Shape'
  <2>1. NeedsLink'
    BY <1>27 DEF NeedsLink, NeedsView, Dialog, Resuming, Capture, Acts, service, dialog, saveVars,
       deletes
  <2>2. NeedsView'
    BY <1>27 DEF NeedsView, NeedsLink, Dialog, Resuming, Capture, Acts, service, dialog, saveVars,
       deletes
  <2>3. Dialog'
    BY <1>27 DEF Dialog, NeedsLink, Capture, Acts, service, dialog, saveVars, deletes
  <2> QED
    BY <2>1, <2>2, <2>3
<1>28. ASSUME NEW i \in Axes, DeleteAxis(i) PROVE Shape'
  <2>1. NeedsLink'
    BY <1>28 DEF NeedsLink, NeedsView, Dialog, Resuming, DeleteAxis, Acts, DeleteKeeps, service,
       report, dialog, saveVars
  <2>2. NeedsView'
    BY <1>28 DEF NeedsView, NeedsLink, Dialog, Resuming, DeleteAxis, Acts, DeleteKeeps, service,
       report, dialog, saveVars
  <2>3. Dialog'
    BY <1>28 DEF Dialog, NeedsLink, DeleteAxis, Acts, DeleteKeeps, service, report, dialog, saveVars
  <2> QED
    BY <2>1, <2>2, <2>3
<1>29. ASSUME NEW to \in Boards, NEW released \in BOOLEAN, Drop(to, released) PROVE Shape'
  <2>1. NeedsLink'
    BY <1>29 DEF NeedsLink, NeedsView, Dialog, Resuming, Drop
  <2>2. NeedsView'
    BY <1>29 DEF NeedsView, NeedsLink, Dialog, Resuming, Drop
  <2>3. Dialog'
    BY <1>29 DEF Dialog, NeedsLink, Drop
  <2> QED
    BY <2>1, <2>2, <2>3
<1> QED
  BY <1>1, <1>2, <1>3, <1>4, <1>5, <1>6, <1>7, <1>8, <1>9, <1>10, <1>11, <1>12, <1>13, <1>14, <1>15,
     <1>16, <1>17, <1>18, <1>19, <1>20, <1>21, <1>22, <1>23, <1>24, <1>25, <1>26, <1>27, <1>28,
     <1>29 DEF Next, Answered, Intents, LinkMoves

LEMMA ShapeAlways == Spec => []Shape
<1>1. Init => Shape
  BY DEF Init, Shape, NeedsLink, NeedsView, Dialog
<1>2. Types /\ Shape /\ [Next]_vars => Shape'
  BY ShapeStep
<1> QED
  BY <1>1, <1>2, TypesAlways, PTL DEF Spec

LEMMA Fields ==
    /\ Fresh.read = TRUE /\ Fresh.stamp = serial /\ Fresh.cal = stored[at]
    /\ NoSnap.read = FALSE /\ NoSnap.stamp = Unknown /\ NoSnap.cal = Blank
  BY DEF Fresh, NoSnap

(* A read that is answered, and named, is of a board that is known.         *)
LEMMA AnswersKnown ==
    ASSUME ReportsNamed', link, snap' = Fresh, UNCHANGED <<at, reading>>
    PROVE  Known
  BY Fields DEF ReportsNamed, Known

LEMMA TakenIsKnown ==
    ASSUME ReportsNamed', link, NEW keep, NEW its, Reported(Fresh, keep, its),
           UNCHANGED <<at, reading>>
    PROVE  Known
  BY AnswersKnown DEF Reported

LEMMA ConnectedStep ==
    ASSUME ReportsNamed', Types, Shape, SerialIsOwn, OnItsBoard, [Next]_vars
    PROVE  SerialIsOwn' /\ OnItsBoard'
<1> USE DEF Shape
<1>1. CASE LinkUp
  <2>1. SerialIsOwn'
    BY <1>1 DEF SerialIsOwn, Known, NeedsLink, Elsewhere, boardVars, LinkUp, report, saveVars,
       deletes
  <2>2. OnItsBoard'
    BY <1>1 DEF OnItsBoard, Elsewhere, boardVars, SerialIsOwn, Known, NeedsLink, NeedsView, Dialog,
       Resuming, LinkUp, report, saveVars, deletes
  <2> QED
    BY <2>1, <2>2
<1>2. CASE SerialRead
  <2>1. SerialIsOwn'
    BY <1>2 DEF SerialIsOwn, Known, NeedsLink, Elsewhere, boardVars, SerialRead, report, dialog,
       saveVars, deletes
  <2>2. OnItsBoard'
    BY <1>2 DEF OnItsBoard, Elsewhere, boardVars, SerialIsOwn, Known, NeedsLink, NeedsView, Dialog,
       Resuming, SerialRead, report, dialog, saveVars, deletes
  <2> QED
    BY <2>1, <2>2
<1>3. CASE ConnectRead
  <2>1. SerialIsOwn'
    BY <1>3, TakesResumes, Fields, AnswersKnown DEF SerialIsOwn, Known, NeedsLink, Elsewhere,
       boardVars, ConnectRead, report, dialog, saveVars, deletes
  <2>2. OnItsBoard'
    BY <1>3, TakesResumes, Fields, AnswersKnown DEF OnItsBoard, Elsewhere, boardVars, SerialIsOwn,
       Known, NeedsLink, NeedsView, Dialog, Resuming, ConnectRead, report, dialog, saveVars, deletes
  <2> QED
    BY <2>1, <2>2
<1>4. CASE Expire
  <2>1. SerialIsOwn'
    BY <1>4 DEF SerialIsOwn, Known, NeedsLink, Elsewhere, boardVars, Expire, report, dialog,
       saveVars, deletes
  <2>2. OnItsBoard'
    BY <1>4 DEF OnItsBoard, Elsewhere, boardVars, SerialIsOwn, Known, NeedsLink, NeedsView, Dialog,
       Resuming, Expire, report, dialog, saveVars, deletes
  <2> QED
    BY <2>1, <2>2
<1>5. CASE HoldFires
  <2>1. SerialIsOwn'
    BY <1>5 DEF SerialIsOwn, Known, NeedsLink, Elsewhere, boardVars, HoldFires, SaveKeeps, service,
       report, dialog, deletes
  <2>2. OnItsBoard'
    BY <1>5 DEF OnItsBoard, Elsewhere, boardVars, SerialIsOwn, Known, NeedsLink, NeedsView, Dialog,
       Resuming, HoldFires, SaveKeeps, service, report, dialog, deletes
  <2> QED
    BY <2>1, <2>2
<1>6. CASE OpenDialog
  <2>1. SerialIsOwn'
    BY <1>6 DEF SerialIsOwn, Known, NeedsLink, Elsewhere, boardVars, OpenDialog, service, deletes
  <2>2. OnItsBoard'
    BY <1>6 DEF OnItsBoard, Elsewhere, boardVars, SerialIsOwn, Known, NeedsLink, NeedsView, Dialog,
       Resuming, OpenDialog, service, deletes
  <2> QED
    BY <2>1, <2>2
<1>7. CASE Close
  <2>1. SerialIsOwn'
    BY <1>7 DEF SerialIsOwn, Known, NeedsLink, Elsewhere, boardVars, Close, Acts, service, report,
       dialog, saveVars, deletes
  <2>2. OnItsBoard'
    BY <1>7 DEF OnItsBoard, Elsewhere, boardVars, SerialIsOwn, Known, NeedsLink, NeedsView, Dialog,
       Resuming, Close, Acts, service, report, dialog, saveVars, deletes
  <2> QED
    BY <2>1, <2>2
<1>8. CASE CloseLost
  <2>1. SerialIsOwn'
    BY <1>8 DEF SerialIsOwn, Known, NeedsLink, Elsewhere, boardVars, CloseLost, DialogGoes, deletes
  <2>2. OnItsBoard'
    BY <1>8 DEF OnItsBoard, Elsewhere, boardVars, SerialIsOwn, Known, NeedsLink, NeedsView, Dialog,
       Resuming, CloseLost, DialogGoes, deletes
  <2> QED
    BY <2>1, <2>2
<1>9. CASE CloseRead
  <2>1. SerialIsOwn'
    BY <1>9, TakesResumes, Fields, AnswersKnown DEF SerialIsOwn, Known, NeedsLink, Elsewhere,
       boardVars, CloseRead, service, dialog, saveVars, deletes
  <2>2. OnItsBoard'
    BY <1>9, TakesResumes, Fields, AnswersKnown DEF OnItsBoard, Elsewhere, boardVars, SerialIsOwn,
       Known, NeedsLink, NeedsView, Dialog, Resuming, CloseRead, service, dialog, saveVars, deletes
  <2> QED
    BY <2>1, <2>2
<1>10. CASE Leave
  <2>1. SerialIsOwn'
    <3>1. UNCHANGED <<at, link, serial, reading>>
      BY <1>10 DEF Leave
    <3>2. snap' = snap \/ (link /\ snap' = Fresh)
      BY <1>10 DEF Leave, Answers
    <3>3. snap' = snap \/ (Known /\ snap'.read = TRUE /\ snap'.stamp = serial)
      BY <3>1, <3>2, AnswersKnown, Fields
    <3> QED
      BY <3>1, <3>3 DEF SerialIsOwn, Known
  <2>2. OnItsBoard'
    BY <1>10 DEF OnItsBoard, Elsewhere, boardVars, SerialIsOwn, Known, NeedsLink, NeedsView, Dialog,
       Resuming, Leave, EmptyState, service
  <2> QED
    BY <2>1, <2>2
<1>11. CASE Mount
  <2>1. SerialIsOwn'
    BY <1>11 DEF SerialIsOwn, Known, NeedsLink, Elsewhere, boardVars, Mount, service, saveVars,
       deletes
  <2>2. OnItsBoard'
    BY <1>11 DEF OnItsBoard, Elsewhere, boardVars, SerialIsOwn, Known, NeedsLink, NeedsView, Dialog,
       Resuming, Mount, service, saveVars, deletes
  <2> QED
    BY <2>1, <2>2
<1>12. CASE AsksReadBack
  <2>1. SerialIsOwn'
    BY <1>12 DEF SerialIsOwn, Known, NeedsLink, Elsewhere, boardVars, AsksReadBack, SaveKeeps,
       service, report, dialog, deletes
  <2>2. OnItsBoard'
    BY <1>12 DEF OnItsBoard, Elsewhere, boardVars, SerialIsOwn, Known, NeedsLink, NeedsView, Dialog,
       Resuming, AsksReadBack, SaveKeeps, service, report, dialog, deletes
  <2> QED
    BY <2>1, <2>2
<1>13. CASE Verified
  <2>1. SerialIsOwn'
    BY <1>13 DEF SerialIsOwn, Known, NeedsLink, Elsewhere, boardVars, Verified, SaveKeeps, Commits,
       service, dialog, deletes
  <2>2. OnItsBoard'
    BY <1>13 DEF OnItsBoard, Elsewhere, boardVars, SerialIsOwn, Known, NeedsLink, NeedsView, Dialog,
       Resuming, Verified, SaveKeeps, Commits, service, dialog, deletes
  <2> QED
    BY <2>1, <2>2
<1>14. CASE Mismatch
  <2>1. SerialIsOwn'
    BY <1>14 DEF SerialIsOwn, Known, NeedsLink, Elsewhere, boardVars, Mismatch, SaveKeeps, service,
       report, dialog, deletes
  <2>2. OnItsBoard'
    BY <1>14 DEF OnItsBoard, Elsewhere, boardVars, SerialIsOwn, Known, NeedsLink, NeedsView, Dialog,
       Resuming, Mismatch, SaveKeeps, service, report, dialog, deletes
  <2> QED
    BY <2>1, <2>2
<1>15. CASE FailWrite
  <2>1. SerialIsOwn'
    BY <1>15, ReportResumes, Fields, AnswersKnown DEF SerialIsOwn, Known, NeedsLink, Elsewhere,
       boardVars, FailWrite, WriteEnded, SaveKeeps, service, dialog, deletes
  <2>2. OnItsBoard'
    BY <1>15, ReportResumes, Fields, AnswersKnown DEF OnItsBoard, Elsewhere, boardVars, SerialIsOwn,
       Known, NeedsLink, NeedsView, Dialog, Resuming, FailWrite, WriteEnded, SaveKeeps, service,
       dialog, deletes
  <2> QED
    BY <2>1, <2>2
<1>16. CASE LostTimesOut
  <2>1. SerialIsOwn'
    BY <1>16 DEF SerialIsOwn, Known, NeedsLink, Elsewhere, boardVars, LostTimesOut, WriteEnded,
       SaveKeeps, service, report, dialog, deletes
  <2>2. OnItsBoard'
    <3>1. UNCHANGED <<open, snap, device, resuming, paused, link, reading, serial, at>>
      BY <1>16 DEF LostTimesOut, WriteEnded, SaveKeeps, service, report, dialog
    <3> QED
      BY <3>1 DEF OnItsBoard, Known
  <2> QED
    BY <2>1, <2>2
<1>17. CASE Save \/ Restore
  <2>1. SerialIsOwn'
    BY <1>17 DEF SerialIsOwn, Known, NeedsLink, Elsewhere, boardVars, Save, Restore, Begins,
       MaySave, Acts, Commits, service, dialog, deletes
  <2>2. OnItsBoard'
    BY <1>17 DEF OnItsBoard, Elsewhere, boardVars, SerialIsOwn, Known, NeedsLink, NeedsView, Dialog,
       Resuming, Save, Restore, Begins, MaySave, Acts, Commits, service, dialog, deletes
  <2> QED
    BY <2>1, <2>2
<1>18. CASE DeleteChecked
  <2>1. SerialIsOwn'
    BY <1>18, TakesResumes, ReportResumes, Fields, AnswersKnown DEF SerialIsOwn, Known, NeedsLink,
       Elsewhere, boardVars, DeleteChecked, DeleteEnds, DeleteKeeps, service, report, dialog,
       saveVars
  <2>2. OnItsBoard'
    BY <1>18, TakesResumes, ReportResumes, Fields, AnswersKnown DEF OnItsBoard, Elsewhere,
       boardVars, SerialIsOwn, Known, NeedsLink, NeedsView, Dialog, Resuming, DeleteChecked,
       DeleteEnds, DeleteKeeps, service, report, dialog, saveVars
  <2> QED
    BY <2>1, <2>2
<1>19. CASE DeleteRefreshed
  <2>1. SerialIsOwn'
    BY <1>19, TakesResumes, Fields, AnswersKnown DEF SerialIsOwn, Known, NeedsLink, Elsewhere,
       boardVars, DeleteRefreshed, DeleteEnds, DeleteKeeps, service, report, dialog, saveVars
  <2>2. OnItsBoard'
    BY <1>19, TakesResumes, Fields, AnswersKnown DEF OnItsBoard, Elsewhere, boardVars, SerialIsOwn,
       Known, NeedsLink, NeedsView, Dialog, Resuming, DeleteRefreshed, DeleteEnds, DeleteKeeps,
       service, report, dialog, saveVars
  <2> QED
    BY <2>1, <2>2
<1>20. CASE UNCHANGED vars
  <2>1. SerialIsOwn'
    BY <1>20 DEF SerialIsOwn, Known, NeedsLink, Elsewhere, boardVars, vars, service, report, dialog,
       saveVars, deletes
  <2>2. OnItsBoard'
    BY <1>20 DEF OnItsBoard, Elsewhere, boardVars, SerialIsOwn, Known, NeedsLink, NeedsView, Dialog,
       Resuming, vars, service, report, dialog, saveVars, deletes
  <2> QED
    BY <2>1, <2>2
<1>21. ASSUME NEW ok \in BOOLEAN, OpenAnswered(ok) PROVE SerialIsOwn' /\ OnItsBoard'
  <2>1. SerialIsOwn'
    BY <1>21, Fields, AnswersKnown DEF SerialIsOwn, Known, NeedsLink, Elsewhere, boardVars,
       OpenAnswered, Answers, saveVars, deletes
  <2>2. OnItsBoard'
    BY <1>21, Fields, AnswersKnown DEF OnItsBoard, Elsewhere, boardVars, SerialIsOwn, Known,
       NeedsLink, NeedsView, Dialog, Resuming, OpenAnswered, Answers, saveVars, deletes
  <2> QED
    BY <2>1, <2>2
<1>22. ASSUME NEW ok \in BOOLEAN, ResumeAnswered(ok) PROVE SerialIsOwn' /\ OnItsBoard'
  <2>1. SerialIsOwn'
    BY <1>22, Fields, AnswersKnown DEF SerialIsOwn, Known, NeedsLink, Elsewhere, boardVars,
       ResumeAnswered, Answers, saveVars, deletes
  <2>2. OnItsBoard'
    BY <1>22, Fields, AnswersKnown DEF OnItsBoard, Elsewhere, boardVars, SerialIsOwn, Known,
       NeedsLink, NeedsView, Dialog, Resuming, ResumeAnswered, Answers, saveVars, deletes
  <2> QED
    BY <2>1, <2>2
<1>23. ASSUME NEW ok \in BOOLEAN, CloseAnswered(ok) PROVE SerialIsOwn' /\ OnItsBoard'
  <2>1. SerialIsOwn'
    BY <1>23, Fields, AnswersKnown DEF SerialIsOwn, Known, NeedsLink, Elsewhere, boardVars,
       CloseAnswered, Answers, DialogGoes, deletes
  <2>2. OnItsBoard'
    BY <1>23, Fields, AnswersKnown DEF OnItsBoard, Elsewhere, boardVars, SerialIsOwn, Known,
       NeedsLink, NeedsView, Dialog, Resuming, CloseAnswered, Answers, DialogGoes, deletes
  <2> QED
    BY <2>1, <2>2
<1>24. ASSUME NEW ok \in BOOLEAN, CommitAnswered(ok) PROVE SerialIsOwn' /\ OnItsBoard'
  <2>1. SerialIsOwn'
    BY <1>24 DEF SerialIsOwn, Known, NeedsLink, Elsewhere, boardVars, CommitAnswered, SaveKeeps,
       service, report, dialog, deletes
  <2>2. OnItsBoard'
    BY <1>24 DEF OnItsBoard, Elsewhere, boardVars, SerialIsOwn, Known, NeedsLink, NeedsView, Dialog,
       Resuming, CommitAnswered, SaveKeeps, service, report, dialog, deletes
  <2> QED
    BY <2>1, <2>2
<1>25. ASSUME NEW ok \in BOOLEAN, ReadBack(ok) PROVE SerialIsOwn' /\ OnItsBoard'
  <2>1. SerialIsOwn'
    BY <1>25, TakesResumes, Fields, AnswersKnown DEF SerialIsOwn, Known, NeedsLink, Elsewhere,
       boardVars, ReadBack, Answers, SaveKeeps, service, report, dialog, deletes
  <2>2. OnItsBoard'
    BY <1>25, TakesResumes, Fields, AnswersKnown DEF OnItsBoard, Elsewhere, boardVars, SerialIsOwn,
       Known, NeedsLink, NeedsView, Dialog, Resuming, ReadBack, Answers, SaveKeeps, service, report,
       dialog, deletes
  <2> QED
    BY <2>1, <2>2
<1>26. ASSUME NEW ok \in BOOLEAN, ResetAnswered(ok) PROVE SerialIsOwn' /\ OnItsBoard'
  <2>1. SerialIsOwn'
    BY <1>26, Fields, AnswersKnown DEF SerialIsOwn, Known, NeedsLink, Elsewhere, boardVars,
       ResetAnswered, Answers, DeleteKeeps, service, report, dialog, saveVars
  <2>2. OnItsBoard'
    BY <1>26, Fields, AnswersKnown DEF OnItsBoard, Elsewhere, boardVars, SerialIsOwn, Known,
       NeedsLink, NeedsView, Dialog, Resuming, ResetAnswered, Answers, DeleteKeeps, service, report,
       dialog, saveVars
  <2> QED
    BY <2>1, <2>2
<1>27. ASSUME NEW i \in Axes, Capture(i) PROVE SerialIsOwn' /\ OnItsBoard'
  <2>1. SerialIsOwn'
    BY <1>27 DEF SerialIsOwn, Known, NeedsLink, Elsewhere, boardVars, Capture, Acts, service,
       dialog, saveVars, deletes
  <2>2. OnItsBoard'
    BY <1>27 DEF OnItsBoard, Elsewhere, boardVars, SerialIsOwn, Known, NeedsLink, NeedsView, Dialog,
       Resuming, Capture, Acts, service, dialog, saveVars, deletes
  <2> QED
    BY <2>1, <2>2
<1>28. ASSUME NEW i \in Axes, DeleteAxis(i) PROVE SerialIsOwn' /\ OnItsBoard'
  <2>1. SerialIsOwn'
    BY <1>28 DEF SerialIsOwn, Known, NeedsLink, Elsewhere, boardVars, DeleteAxis, Acts, DeleteKeeps,
       service, report, dialog, saveVars
  <2>2. OnItsBoard'
    BY <1>28 DEF OnItsBoard, Elsewhere, boardVars, SerialIsOwn, Known, NeedsLink, NeedsView, Dialog,
       Resuming, DeleteAxis, Acts, DeleteKeeps, service, report, dialog, saveVars
  <2> QED
    BY <2>1, <2>2
<1>29. ASSUME NEW to \in Boards, NEW released \in BOOLEAN, Drop(to, released) PROVE SerialIsOwn' /\ OnItsBoard'
  <2>1. SerialIsOwn'
    BY <1>29, Fields, AnswersKnown DEF SerialIsOwn, Known, NeedsLink, Elsewhere, boardVars, Drop
  <2>2. OnItsBoard'
    BY <1>29, Fields, AnswersKnown DEF OnItsBoard, Elsewhere, boardVars, SerialIsOwn, Known,
       NeedsLink, NeedsView, Dialog, Resuming, Drop
  <2> QED
    BY <2>1, <2>2
<1> QED
  BY <1>1, <1>2, <1>3, <1>4, <1>5, <1>6, <1>7, <1>8, <1>9, <1>10, <1>11, <1>12, <1>13, <1>14, <1>15,
     <1>16, <1>17, <1>18, <1>19, <1>20, <1>21, <1>22, <1>23, <1>24, <1>25, <1>26, <1>27, <1>28,
     <1>29 DEF Next, Answered, Intents, LinkMoves

LEMMA ConnectedAlways ==
    Spec /\ []ReportsNamed => [](SerialIsOwn /\ OnItsBoard)
<1>1. Init => SerialIsOwn /\ OnItsBoard
  BY DEF Init, SerialIsOwn, OnItsBoard, Known, NoSnap
<1>2. Types /\ Shape /\ SerialIsOwn /\ OnItsBoard /\ ReportsNamed' /\ [Next]_vars
      => SerialIsOwn' /\ OnItsBoard'
  BY ConnectedStep
<1> QED
  BY <1>1, <1>2, TypesAlways, ShapeAlways, PTL DEF Spec

-----------------------------------------------------------------------------
(***************************************************************************)
(* What the boards hold, and held.                                         *)
(***************************************************************************)
(* A write or an erase that took.                                           *)
LEMMA StoresHold ==
    ASSUME Types, NEW x \in Axes, NEW v \in {0} \cup Values, Stores(x, v),
           NEW b \in Boards, NEW i \in Axes
    PROVE  /\ stored'[b][i] = IF b = at /\ i = x THEN v ELSE stored[b][i]
           /\ held'[b][i] = IF b = at /\ i = x /\ v # 0 THEN held[b][i] \cup {v} ELSE held[b][i]
           /\ i \in erased'[b] <=> i \in erased[b] /\ ~(b = at /\ i = x /\ v # 0)
<1>1. /\ at \in Boards /\ stored \in [Boards -> Contents]
      /\ held \in [Boards -> [Axes -> SUBSET Values]] /\ erased \in [Boards -> SUBSET Axes]
  BY DEF Types, BoardTypes, HistoryTypes
<1>2. stored'[b][i] = IF b = at /\ i = x THEN v ELSE stored[b][i]
  BY <1>1 DEF Stores, Contents
<1>3. held'[b][i] = IF b = at /\ i = x /\ v # 0 THEN held[b][i] \cup {v} ELSE held[b][i]
  BY <1>1 DEF Stores
<1>4. i \in erased'[b] <=> i \in erased[b] /\ ~(b = at /\ i = x /\ v # 0)
  BY <1>1 DEF Stores
<1> QED
  BY <1>2, <1>3, <1>4

(* What a board that leaves the bus is left with.                           *)
LEMMA DropHolds ==
    ASSUME Types, NEW to \in Boards, NEW released \in BOOLEAN, Drop(to, released),
           NEW b \in Boards, NEW i \in Axes
    PROVE  /\ stored'[b][i] \in {stored[b][i], 0}
              \/ (saving = "commit" /\ b = at /\ i = cur /\ stored'[b][i] = d)
           /\ held'[b][i] = IF b = at THEN held[b][i] \cup ({stored'[b][i]} \ {0}) ELSE held[b][i]
           /\ i \in erased'[b] <=> i \in erased[b] /\ (b = at => stored'[b][i] = 0)
<1>1. /\ at \in Boards /\ stored \in [Boards -> Contents] /\ d \in {0} \cup Values
      /\ held \in [Boards -> [Axes -> SUBSET Values]] /\ erased \in [Boards -> SUBSET Axes]
  BY DEF Types, BoardTypes, HistoryTypes, SaveTypes
<1>2. PICK lands \in BOOLEAN, wiped \in BOOLEAN :
        LET now == IF wiped THEN Blank
                   ELSE IF lands /\ saving = "commit" THEN [stored[at] EXCEPT ![cur] = d]
                   ELSE IF lands /\ deleting = "reset" THEN [stored[at] EXCEPT ![erasing] = 0]
                   ELSE stored[at]
        IN  /\ stored' = [stored EXCEPT ![at] = now]
            /\ held' = [held EXCEPT ![at] =
                           [j \in Axes |-> @[j] \cup ({now[j]} \ {0})]]
            /\ erased' = [erased EXCEPT ![at] = {j \in @ : now[j] = 0}]
  BY DEF Drop
<1> DEFINE now == IF wiped THEN Blank
                  ELSE IF lands /\ saving = "commit" THEN [stored[at] EXCEPT ![cur] = d]
                  ELSE IF lands /\ deleting = "reset" THEN [stored[at] EXCEPT ![erasing] = 0]
                  ELSE stored[at]
<1>3. now[i] \in {stored[at][i], 0} \/ (saving = "commit" /\ i = cur /\ now[i] = d)
  <2>1. stored[at] \in [Axes -> {0} \cup Values]
    BY <1>1 DEF Contents
  <2>2. CASE wiped
    BY <2>2 DEF Blank
  <2>3. CASE ~wiped /\ lands /\ saving = "commit"
    BY <2>1, <2>3
  <2>4. CASE ~wiped /\ ~(lands /\ saving = "commit") /\ lands /\ deleting = "reset"
    BY <2>1, <2>4
  <2>5. CASE ~wiped /\ ~(lands /\ saving = "commit") /\ ~(lands /\ deleting = "reset")
    BY <2>5
  <2> QED
    BY <2>2, <2>3, <2>4, <2>5
<1>4. /\ stored' = [stored EXCEPT ![at] = now]
      /\ held' = [held EXCEPT ![at] = [j \in Axes |-> @[j] \cup ({now[j]} \ {0})]]
      /\ erased' = [erased EXCEPT ![at] = {j \in @ : now[j] = 0}]
  BY <1>2
<1> HIDE DEF now
<1>5. stored'[b][i] = IF b = at THEN now[i] ELSE stored[b][i]
  BY <1>1, <1>4
<1>6. held'[b][i] = IF b = at THEN held[b][i] \cup ({now[i]} \ {0}) ELSE held[b][i]
  BY <1>1, <1>4
<1>7. i \in erased'[b] <=> i \in erased[b] /\ (b = at => now[i] = 0)
  BY <1>1, <1>4
<1> QED
  BY <1>3, <1>5, <1>6, <1>7

(* All that is done to the boards.                                          *)
BoardsKept == UNCHANGED <<stored, held, erased>>
Deletes ==
    /\ deleting = "check" /\ (UNCHANGED <<shown, closing>> \/ ~view')
    /\ UNCHANGED <<stored, held>>
    /\ UNCHANGED <<cached, erased>> \/ SeenErased
Writes == saving = "commit" /\ Stores(cur, d)
Resets == deleting = "reset" /\ Stores(erasing, 0)
Drops == \E to \in Boards, released \in BOOLEAN : Drop(to, released)

LEMMA BoardSteps ==
    ASSUME [Next]_vars
    PROVE  BoardsKept \/ Deletes \/ Writes \/ Resets \/ Drops
<1>1. CASE Answered
  <2>1. CASE CloseLost \/ CloseRead \/ \E ok \in BOOLEAN :
               OpenAnswered(ok) \/ ResumeAnswered(ok) \/ CloseAnswered(ok)
    BY <2>1 DEF BoardsKept, CloseLost, CloseRead, OpenAnswered, ResumeAnswered, CloseAnswered,
       DialogGoes, Elsewhere, boardVars, history
  <2>2. CASE AsksReadBack \/ Verified \/ Mismatch \/ FailWrite \/ LostTimesOut
             \/ \E ok \in BOOLEAN : ReadBack(ok)
    BY <2>2 DEF BoardsKept, AsksReadBack, Verified, Mismatch, FailWrite, LostTimesOut, WriteEnded,
       ReadBack
  <2>3. CASE DeleteChecked
    BY <2>3 DEF Deletes, DeleteChecked, DeleteKeeps, dialog
  <2>4. CASE DeleteRefreshed
    BY <2>4 DEF BoardsKept, DeleteRefreshed
  <2>5. CASE \E ok \in BOOLEAN : CommitAnswered(ok)
    BY <2>5 DEF BoardsKept, Writes, CommitAnswered
  <2>6. CASE \E ok \in BOOLEAN : ResetAnswered(ok)
    BY <2>6 DEF BoardsKept, Resets, ResetAnswered
  <2> QED
    BY <1>1, <2>1, <2>2, <2>3, <2>4, <2>5, <2>6 DEF Answered
<1>2. CASE Intents
  <2>1. CASE Leave
    BY <2>1 DEF Leave, BoardLeft, BoardsKept, Writes, Resets, Deletes
  <2>2. CASE \/ OpenDialog \/ Close \/ Mount \/ Save \/ Restore
             \/ \E i \in Axes : Capture(i) \/ DeleteAxis(i)
    BY <2>2 DEF BoardsKept, OpenDialog, Close, Mount, Save, Restore, Begins, Capture, DeleteAxis,
       Elsewhere, boardVars, history
  <2> QED
    BY <1>2, <2>1, <2>2 DEF Intents
<1>3. CASE LinkMoves
  BY <1>3 DEF LinkMoves, BoardsKept, Drops, LinkUp, SerialRead, ConnectRead, Expire, HoldFires,
     boardVars, history
<1>4. CASE UNCHANGED vars
  BY <1>4 DEF vars, BoardsKept, boardVars, history
<1> QED
  BY <1>1, <1>2, <1>3, <1>4 DEF Next

LEMMA WritesHold ==
    ASSUME Types, Writes, NEW b \in Boards, NEW i \in Axes
    PROVE  /\ stored'[b][i] = IF b = at /\ i = cur THEN d ELSE stored[b][i]
           /\ i \in erased'[b] <=> i \in erased[b] /\ ~(b = at /\ i = cur /\ d # 0)
<1>1. Stores(cur, d)
  BY DEF Writes
<1>2. cur \in Axes /\ d \in {0} \cup Values
  BY DEF Writes, Types, SaveTypes
<1>3. /\ stored'[b][i] = IF b = at /\ i = cur THEN d ELSE stored[b][i]
      /\ held'[b][i] = IF b = at /\ i = cur /\ d # 0 THEN held[b][i] \cup {d} ELSE held[b][i]
      /\ i \in erased'[b] <=> i \in erased[b] /\ ~(b = at /\ i = cur /\ d # 0)
  BY <1>1, <1>2, StoresHold
<1> QED
  BY <1>3

LEMMA ResetsHold ==
    ASSUME Types, Resets, NEW b \in Boards, NEW i \in Axes
    PROVE  /\ stored'[b][i] = IF b = at /\ i = erasing THEN 0 ELSE stored[b][i]
           /\ held'[b][i] = held[b][i]
<1>1. erasing \in Axes /\ Stores(erasing, 0)
  BY DEF Resets, Types, DeleteTypes
<1> DEFINE v == 0
<1>2. v \in {0} \cup Values /\ Stores(erasing, v)
  BY <1>1
<1>3. v = 0
  OBVIOUS
<1> HIDE DEF v
<1>4. /\ stored'[b][i] = IF b = at /\ i = erasing THEN v ELSE stored[b][i]
      /\ held'[b][i] = IF b = at /\ i = erasing /\ v # 0 THEN held[b][i] \cup {v} ELSE held[b][i]
  BY <1>1, <1>2, StoresHold
<1> QED
  BY <1>3, <1>4

(* Nothing a board held is forgotten, and it holds nothing new but the      *)
(* calibration being written to it.                                         *)
LEMMA HeldGrows ==
    ASSUME Types, [Next]_vars, NEW b \in Boards, NEW i \in Axes
    PROVE  /\ held[b][i] \subseteq held'[b][i]
           /\ \A v \in held'[b][i] : v \in held[b][i] \/ (v # 0 /\ v = stored'[b][i])
           /\ stored'[b][i] # 0 => stored'[b][i] = stored[b][i] \/ stored'[b][i] \in held'[b][i]
           /\ stored'[b][i] \in {stored[b][i], 0}
              \/ (saving = "commit" /\ b = at /\ i = cur /\ stored'[b][i] = d)
<1>1. CASE BoardsKept \/ Deletes
  BY <1>1 DEF BoardsKept, Deletes
<1>2. CASE Writes
  <2>1. saving = "commit" /\ Stores(cur, d)
    BY <1>2 DEF Writes
  <2>2. cur \in Axes /\ d \in {0} \cup Values
    BY <2>1 DEF Types, SaveTypes
  <2>3. /\ stored'[b][i] = IF b = at /\ i = cur THEN d ELSE stored[b][i]
        /\ held'[b][i] = IF b = at /\ i = cur /\ d # 0 THEN held[b][i] \cup {d} ELSE held[b][i]
    BY <2>1, <2>2, StoresHold
  <2> QED
    BY <2>1, <2>3
<1>3. CASE Resets
  BY <1>3, ResetsHold
<1>4. CASE Drops
  <2>1. PICK to \in Boards, released \in BOOLEAN : Drop(to, released)
    BY <1>4 DEF Drops
  <2>2. /\ stored'[b][i] \in {stored[b][i], 0}
           \/ (saving = "commit" /\ b = at /\ i = cur /\ stored'[b][i] = d)
        /\ held'[b][i] = IF b = at THEN held[b][i] \cup ({stored'[b][i]} \ {0}) ELSE held[b][i]
    BY <2>1, DropHolds
  <2>3. b # at => stored'[b][i] = stored[b][i]
    BY <2>1 DEF Drop, Types, BoardTypes
  <2> QED
    BY <2>2, <2>3
<1> QED
  BY <1>1, <1>2, <1>3, <1>4, BoardSteps

LEMMA StoredStep == ASSUME Types, StoredIsHeld, [Next]_vars PROVE StoredIsHeld'
  BY HeldGrows DEF StoredIsHeld

LEMMA StoredAlways == Spec => []StoredIsHeld
<1>1. Init => StoredIsHeld
  BY DEF Init, StoredIsHeld, Blank
<1>2. Types /\ StoredIsHeld /\ [Next]_vars => StoredIsHeld'
  BY StoredStep
<1> QED
  BY <1>1, <1>2, TypesAlways, PTL DEF Spec

-----------------------------------------------------------------------------
(***************************************************************************)
(* What is kept here of what the boards hold.                              *)
(***************************************************************************)
(* Nothing is kept without a serial, which is no board's.                   *)
LEMMA CacheHolds ==
    ASSUME Types, NEW x \in Axes, NEW v \in {0} \cup Values, Cache(x, v),
           NEW b \in Boards, NEW i \in Axes
    PROVE  cached'[b][i] = IF b = serial /\ i = x THEN v ELSE cached[b][i]
<1>1. cached \in [Boards -> Contents]
  BY DEF Types, BoardTypes
<1>2. CASE serial = Unknown
  <2>1. b # serial
    BY <1>2, UnknownAssumption
  <2> QED
    BY <1>2, <2>1 DEF Cache
<1>3. CASE serial # Unknown
  <2>1. serial \in Boards
    BY <1>3 DEF Types, ServiceTypes, Stamps
  <2>2. cached' = [cached EXCEPT ![serial][x] = v]
    BY <1>3 DEF Cache
  <2> QED
    BY <1>1, <2>1, <2>2 DEF Contents
<1> QED
  BY <1>2, <1>3

LEMMA CacheSteps ==
    ASSUME [Next]_vars
    PROVE  \/ UNCHANGED cached
           \/ Verified /\ Cache(cur, d)
           \/ Deletes /\ DropCopy(erasing)
<1>1. CASE Answered
  <2>1. CASE CloseLost \/ CloseRead \/ \E ok \in BOOLEAN :
               OpenAnswered(ok) \/ ResumeAnswered(ok) \/ CloseAnswered(ok)
    BY <2>1 DEF CloseLost, CloseRead, OpenAnswered, ResumeAnswered, CloseAnswered, DialogGoes,
       Elsewhere, boardVars
  <2>2. CASE AsksReadBack \/ Mismatch \/ FailWrite \/ LostTimesOut \/ DeleteRefreshed
             \/ \E ok \in BOOLEAN : ReadBack(ok) \/ CommitAnswered(ok) \/ ResetAnswered(ok)
    BY <2>2 DEF AsksReadBack, Mismatch, FailWrite, LostTimesOut, WriteEnded, ReadBack,
       DeleteRefreshed, CommitAnswered, ResetAnswered
  <2>3. CASE DeleteChecked
    BY <2>3 DEF Deletes, DeleteChecked, DeleteKeeps, SeenErased, dialog
  <2>4. CASE Verified
    BY <2>4 DEF Verified
  <2> QED
    BY <1>1, <2>1, <2>2, <2>3, <2>4 DEF Answered
<1>2. CASE Intents
  <2>1. CASE Leave
    BY <2>1 DEF Leave, Deletes, SeenErased
  <2>2. CASE \/ OpenDialog \/ Close \/ Mount \/ Save \/ Restore
             \/ \E i \in Axes : Capture(i) \/ DeleteAxis(i)
    BY <2>2 DEF OpenDialog, Close, Mount, Save, Restore, Begins, Capture, DeleteAxis, Elsewhere,
       boardVars
  <2> QED
    BY <1>2, <2>1, <2>2 DEF Intents
<1>3. CASE LinkMoves
  BY <1>3 DEF LinkMoves, LinkUp, SerialRead, ConnectRead, Expire, HoldFires, Drop, boardVars
<1>4. CASE UNCHANGED vars
  BY <1>4 DEF vars, boardVars
<1> QED
  BY <1>1, <1>2, <1>3, <1>4 DEF Next

(* A read-back on its way to the cache is of the board it will be kept for: *)
(* no link comes up meanwhile.                                              *)
LEMMA SeenSteps ==
    ASSUME [Next]_vars, saving' = "seen"
    PROVE  \/ /\ saving = "seen" /\ UNCHANGED <<cur, got, d>>
              /\ (reading = "serial" => serial = at)
                 => /\ reading' = "serial" => serial' = at'
                    /\ serial' \in {serial, Unknown}
           \/ ReadBack(TRUE)
<1>1. CASE Answered
  <2>1. CASE CloseLost \/ CloseRead \/ \E ok \in BOOLEAN :
               OpenAnswered(ok) \/ ResumeAnswered(ok) \/ CloseAnswered(ok)
    BY <2>1 DEF CloseLost, CloseRead, OpenAnswered, ResumeAnswered, CloseAnswered, DialogGoes,
       saveVars, service, Elsewhere, boardVars
  <2>2. CASE DeleteChecked \/ DeleteRefreshed \/ \E ok \in BOOLEAN : ResetAnswered(ok)
    BY <2>2 DEF DeleteChecked, DeleteRefreshed, ResetAnswered, DeleteKeeps, saveVars, service
  <2>3. CASE AsksReadBack \/ Mismatch \/ FailWrite \/ LostTimesOut \/ Verified
             \/ \E ok \in BOOLEAN : CommitAnswered(ok)
    BY <2>3 DEF AsksReadBack, Mismatch, FailWrite, LostTimesOut, WriteEnded, Verified, Commits,
       CommitAnswered
  <2>4. ASSUME NEW ok \in BOOLEAN, ReadBack(ok) PROVE ReadBack(TRUE)
    BY <2>4 DEF ReadBack
  <2> QED
    BY <1>1, <2>1, <2>2, <2>3, <2>4 DEF Answered
<1>2. CASE Intents
  <2>1. CASE Leave \/ Save \/ Restore
    BY <2>1 DEF Leave, Save, Restore, Begins, Commits
  <2>2. CASE OpenDialog \/ Close \/ Mount \/ \E i \in Axes : Capture(i) \/ DeleteAxis(i)
    BY <2>2 DEF OpenDialog, Close, Mount, Capture, DeleteAxis, DeleteKeeps, saveVars, service,
       Elsewhere, boardVars
  <2> QED
    BY <1>2, <2>1, <2>2 DEF Intents
<1>3. CASE LinkMoves
  <2>1. CASE ConnectRead \/ Expire \/ HoldFires
    BY <2>1 DEF ConnectRead, Expire, HoldFires, SaveKeeps, saveVars, service, boardVars
  <2>2. CASE SerialRead
    BY <2>2 DEF SerialRead, saveVars, boardVars
  <2>3. CASE \E to \in Boards, released \in BOOLEAN : Drop(to, released)
    BY <2>3 DEF Drop
  <2> QED
    BY <1>3, <2>1, <2>2, <2>3 DEF LinkMoves, LinkUp, saveVars
<1>4. CASE UNCHANGED vars
  BY <1>4 DEF vars, saveVars, service, boardVars
<1> QED
  BY <1>1, <1>2, <1>3, <1>4 DEF Next

LEMMA SeenStep ==
    ASSUME ReportsNamed', Types, SerialIsOwn, StoredIsHeld, SeenIsHeld, [Next]_vars
    PROVE  SeenIsHeld'
<1> SUFFICES ASSUME saving' = "seen"
             PROVE  /\ reading' = "serial" => serial' = at'
                    /\ got' # 0 /\ serial' # Unknown => got' \in held'[serial'][cur']
  BY DEF SeenIsHeld
<1>1. CASE /\ saving = "seen" /\ UNCHANGED <<cur, got, d>>
           /\ (reading = "serial" => serial = at)
              => /\ reading' = "serial" => serial' = at'
                 /\ serial' \in {serial, Unknown}
  <2>1. (reading' = "serial" => serial' = at') /\ serial' \in {serial, Unknown}
    BY <1>1 DEF SeenIsHeld
  <2>2. ASSUME got' # 0, serial' # Unknown
        PROVE  got' \in held'[serial'][cur']
    <3>1. serial' = serial /\ serial \in Boards /\ cur \in Axes /\ got \in held[serial][cur]
      BY <1>1, <2>1, <2>2 DEF SeenIsHeld, Types, ServiceTypes, SaveTypes, Stamps
    <3> QED
      BY <1>1, <3>1, HeldGrows
  <2> QED
    BY <2>1, <2>2
<1>2. CASE ReadBack(TRUE)
  <2>1. /\ got' = stored[at][cur] /\ cur' = cur /\ cur \in Axes
        /\ serial' = serial /\ reading' = reading /\ held' = held /\ at' = at
    BY <1>2 DEF ReadBack, SaveKeeps, service, Types, SaveTypes
  <2>2. Known /\ serial \in {at, Unknown}
    BY <1>2, <2>1, AnswersKnown, TakesResumes DEF ReadBack, Answers, SerialIsOwn
  <2>3. got' # 0 => got' \in held[at][cur]
    BY <2>1 DEF StoredIsHeld, Types, BoardTypes
  <2> QED
    BY <2>1, <2>2, <2>3 DEF Known
<1> QED
  BY <1>1, <1>2, SeenSteps

LEMMA CachedStep ==
    ASSUME Types, SeenIsHeld, CachedIsHeld, [Next]_vars
    PROVE  CachedIsHeld'
<1> SUFFICES ASSUME NEW b \in Boards, NEW i \in Axes, cached'[b][i] # 0
             PROVE  cached'[b][i] \in held'[b][i]
  BY DEF CachedIsHeld
<1>1. held[b][i] \subseteq held'[b][i]
  BY HeldGrows
<1>2. CASE UNCHANGED cached
  BY <1>1, <1>2 DEF CachedIsHeld
<1>3. CASE Verified /\ Cache(cur, d)
  <2>1. saving = "seen" /\ got = d /\ cur \in Axes /\ d \in {0} \cup Values
    BY <1>3 DEF Verified, StoredAsWritten, Types, SaveTypes
  <2>2. cached'[b][i] = IF b = serial /\ i = cur THEN d ELSE cached[b][i]
    BY <1>3, <2>1, CacheHolds
  <2>3. CASE b = serial /\ i = cur
    <3>1. serial # Unknown /\ got # 0
      BY <2>1, <2>2, <2>3, UnknownAssumption
    <3> QED
      BY <1>1, <2>1, <2>2, <2>3, <3>1 DEF SeenIsHeld
  <2>4. CASE ~(b = serial /\ i = cur)
    BY <1>1, <2>2, <2>4 DEF CachedIsHeld
  <2> QED
    BY <2>3, <2>4
<1>4. CASE Deletes /\ DropCopy(erasing)
  <2>1. erasing \in Axes /\ Cache(erasing, 0)
    BY <1>4 DEF Deletes, DropCopy, Types, DeleteTypes
  <2>2. cached'[b][i] = IF b = serial /\ i = erasing THEN 0 ELSE cached[b][i]
    BY <2>1, CacheHolds
  <2> QED
    BY <1>1, <2>2 DEF CachedIsHeld
<1> QED
  BY <1>2, <1>3, <1>4, CacheSteps

LEMMA CachedAlways ==
    Spec /\ []ReportsNamed => [](SeenIsHeld /\ CachedIsHeld)
<1>1. Init => SeenIsHeld /\ CachedIsHeld
  BY DEF Init, SeenIsHeld, CachedIsHeld, Blank
<1>2. Types /\ SerialIsOwn /\ StoredIsHeld /\ SeenIsHeld /\ CachedIsHeld /\ ReportsNamed'
        /\ [Next]_vars
        => SeenIsHeld' /\ CachedIsHeld'
  BY SeenStep, CachedStep
<1> QED
  BY <1>1, <1>2, TypesAlways, StoredAlways, ConnectedAlways, PTL DEF Spec

-----------------------------------------------------------------------------
(***************************************************************************)
(* What goes on at the same time, when people wait.                        *)
(***************************************************************************)
LEMMA OneAtATimeStep ==
    ASSUME ~Overlaps, Types, Shape, OneAtATime, [Next]_vars
    PROVE  OneAtATime'
<1> USE DEF Shape
<1>1. CASE LinkUp
  BY <1>1 DEF OneAtATime, NeedsLink, NeedsView, Dialog, Resuming, LinkUp, report, saveVars, deletes
<1>2. CASE SerialRead
  BY <1>2 DEF OneAtATime, NeedsLink, NeedsView, Dialog, Resuming, SerialRead, report, dialog,
     saveVars, deletes
<1>3. CASE ConnectRead
  BY <1>3, TakesResumes DEF OneAtATime, NeedsLink, NeedsView, Dialog, Resuming, ConnectRead, report,
     dialog, saveVars, deletes
<1>4. CASE Expire
  BY <1>4 DEF OneAtATime, NeedsLink, NeedsView, Dialog, Resuming, Expire, report, dialog, saveVars,
     deletes
<1>5. CASE HoldFires
  BY <1>5 DEF OneAtATime, NeedsLink, NeedsView, Dialog, Resuming, HoldFires, SaveKeeps, service,
     report, dialog, deletes
<1>6. CASE OpenDialog
  BY <1>6 DEF OneAtATime, NeedsLink, NeedsView, Dialog, Resuming, OpenDialog, service, deletes
<1>7. CASE Close
  BY <1>7 DEF OneAtATime, NeedsLink, NeedsView, Dialog, Resuming, Close, Acts, service, report,
     dialog, saveVars, deletes
<1>8. CASE CloseLost
  BY <1>8 DEF OneAtATime, NeedsLink, NeedsView, Dialog, Resuming, CloseLost, DialogGoes, deletes
<1>9. CASE CloseRead
  BY <1>9, TakesResumes DEF OneAtATime, NeedsLink, NeedsView, Dialog, Resuming, CloseRead, service,
     dialog, saveVars, deletes
<1>10. CASE Leave
  BY <1>10 DEF OneAtATime, NeedsLink, NeedsView, Dialog, Resuming, Leave, EmptyState, service
<1>11. CASE Mount
  BY <1>11 DEF OneAtATime, NeedsLink, NeedsView, Dialog, Resuming, Mount, service, saveVars, deletes
<1>12. CASE AsksReadBack
  BY <1>12 DEF OneAtATime, NeedsLink, NeedsView, Dialog, Resuming, AsksReadBack, SaveKeeps, service,
     report, dialog, deletes
<1>13. CASE Verified
  BY <1>13 DEF OneAtATime, NeedsLink, NeedsView, Dialog, Resuming, Verified, SaveKeeps, Commits,
     service, dialog, deletes
<1>14. CASE Mismatch
  BY <1>14 DEF OneAtATime, NeedsLink, NeedsView, Dialog, Resuming, Mismatch, SaveKeeps, service,
     report, dialog, deletes
<1>15. CASE FailWrite
  BY <1>15, ReportResumes DEF OneAtATime, NeedsLink, NeedsView, Dialog, Resuming, FailWrite,
     WriteEnded, SaveKeeps, service, dialog, deletes
<1>16. CASE LostTimesOut
  <2>1. CASE saving' = "no"
    BY <1>16, <2>1 DEF OneAtATime, LostTimesOut, WriteEnded, SaveKeeps, service, report, dialog,
       deletes
  <2>2. CASE saving' # "no"
    <3>1. UNCHANGED <<report, write, hold>> /\ SaveKeeps /\ saving # "no"
      BY <1>16, <2>2 DEF LostTimesOut, WriteEnded
    <3> QED
      BY <3>1 DEF OneAtATime, SaveKeeps, service, report, dialog, deletes
  <2> QED
    BY <2>1, <2>2
<1>17. CASE Save \/ Restore
  BY <1>17 DEF OneAtATime, NeedsLink, NeedsView, Dialog, Resuming, Save, Restore, Begins, MaySave,
     Acts, Commits, service, dialog, deletes
<1>18. CASE DeleteChecked
  BY <1>18, TakesResumes, ReportResumes DEF OneAtATime, NeedsLink, NeedsView, Dialog, Resuming,
     DeleteChecked, DeleteEnds, DeleteKeeps, service, report, dialog, saveVars
<1>19. CASE DeleteRefreshed
  BY <1>19, TakesResumes DEF OneAtATime, NeedsLink, NeedsView, Dialog, Resuming, DeleteRefreshed,
     DeleteEnds, DeleteKeeps, service, report, dialog, saveVars
<1>20. CASE UNCHANGED vars
  BY <1>20 DEF OneAtATime, NeedsLink, NeedsView, Dialog, Resuming, vars, service, report, dialog,
     saveVars, deletes
<1>21. ASSUME NEW ok \in BOOLEAN, OpenAnswered(ok) PROVE OneAtATime'
  BY <1>21 DEF OneAtATime, NeedsLink, NeedsView, Dialog, Resuming, OpenAnswered, Answers, saveVars,
     deletes
<1>22. ASSUME NEW ok \in BOOLEAN, ResumeAnswered(ok) PROVE OneAtATime'
  BY <1>22 DEF OneAtATime, NeedsLink, NeedsView, Dialog, Resuming, ResumeAnswered, Answers,
     saveVars, deletes
<1>23. ASSUME NEW ok \in BOOLEAN, CloseAnswered(ok) PROVE OneAtATime'
  BY <1>23 DEF OneAtATime, NeedsLink, NeedsView, Dialog, Resuming, CloseAnswered, Answers,
     DialogGoes, deletes
<1>24. ASSUME NEW ok \in BOOLEAN, CommitAnswered(ok) PROVE OneAtATime'
  BY <1>24 DEF OneAtATime, NeedsLink, NeedsView, Dialog, Resuming, CommitAnswered, SaveKeeps,
     service, report, dialog, deletes
<1>25. ASSUME NEW ok \in BOOLEAN, ReadBack(ok) PROVE OneAtATime'
  BY <1>25, TakesResumes DEF OneAtATime, NeedsLink, NeedsView, Dialog, Resuming, ReadBack, Answers,
     SaveKeeps, service, report, dialog, deletes
<1>26. ASSUME NEW ok \in BOOLEAN, ResetAnswered(ok) PROVE OneAtATime'
  BY <1>26 DEF OneAtATime, NeedsLink, NeedsView, Dialog, Resuming, ResetAnswered, Answers,
     DeleteKeeps, service, report, dialog, saveVars
<1>27. ASSUME NEW i \in Axes, Capture(i) PROVE OneAtATime'
  BY <1>27 DEF OneAtATime, NeedsLink, NeedsView, Dialog, Resuming, Capture, Acts, service, dialog,
     saveVars, deletes
<1>28. ASSUME NEW i \in Axes, DeleteAxis(i) PROVE OneAtATime'
  BY <1>28 DEF OneAtATime, NeedsLink, NeedsView, Dialog, Resuming, DeleteAxis, Acts, DeleteKeeps,
     service, report, dialog, saveVars
<1>29. ASSUME NEW to \in Boards, NEW released \in BOOLEAN, Drop(to, released) PROVE OneAtATime'
  BY <1>29 DEF OneAtATime, NeedsLink, NeedsView, Dialog, Resuming, Drop
<1> QED
  BY <1>1, <1>2, <1>3, <1>4, <1>5, <1>6, <1>7, <1>8, <1>9, <1>10, <1>11, <1>12, <1>13, <1>14, <1>15,
     <1>16, <1>17, <1>18, <1>19, <1>20, <1>21, <1>22, <1>23, <1>24, <1>25, <1>26, <1>27, <1>28,
     <1>29 DEF Next, Answered, Intents, LinkMoves

LEMMA OneAtATimeAlways ==
    ASSUME ~Overlaps PROVE Spec => []OneAtATime
<1>1. Init => OneAtATime
  BY DEF Init, OneAtATime
<1>2. Types /\ Shape /\ OneAtATime /\ [Next]_vars => OneAtATime'
  BY OneAtATimeStep
<1> QED
  BY <1>1, <1>2, TypesAlways, ShapeAlways, PTL DEF Spec

LEMMA SessionStep ==
    ASSUME Types, Shape, OneAtATime, SessionNeedsDialog, [Next]_vars
    PROVE  SessionNeedsDialog'
<1> USE DEF Shape
<1>1. CASE LinkUp
  BY <1>1 DEF SessionNeedsDialog, OneAtATime, NeedsView, Dialog, SessionOpens, SessionEnds,
     SessionLapses, EmptyState, sessions, LinkUp, report, saveVars, deletes
<1>2. CASE SerialRead
  BY <1>2 DEF SessionNeedsDialog, OneAtATime, NeedsView, Dialog, SessionOpens, SessionEnds,
     SessionLapses, EmptyState, sessions, SerialRead, report, dialog, saveVars, deletes
<1>3. CASE ConnectRead
  BY <1>3 DEF SessionNeedsDialog, OneAtATime, NeedsView, Dialog, SessionOpens, SessionEnds,
     SessionLapses, EmptyState, sessions, ConnectRead, report, dialog, saveVars, deletes
<1>4. CASE Expire
  BY <1>4 DEF SessionNeedsDialog, OneAtATime, NeedsView, Dialog, SessionOpens, SessionEnds,
     SessionLapses, EmptyState, Expire, report, dialog, saveVars, deletes
<1>5. CASE HoldFires
  BY <1>5 DEF SessionNeedsDialog, OneAtATime, NeedsView, Dialog, SessionOpens, SessionEnds,
     SessionLapses, EmptyState, HoldFires, SaveKeeps, service, sessions, report, dialog, deletes
<1>6. CASE OpenDialog
  BY <1>6 DEF SessionNeedsDialog, OneAtATime, NeedsView, Dialog, SessionOpens, SessionEnds,
     SessionLapses, EmptyState, OpenDialog, service, sessions, deletes
<1>7. CASE Close
  BY <1>7 DEF SessionNeedsDialog, OneAtATime, NeedsView, Dialog, SessionOpens, SessionEnds,
     SessionLapses, EmptyState, Close, Acts, service, sessions, report, dialog, saveVars, deletes
<1>8. CASE CloseLost
  BY <1>8 DEF SessionNeedsDialog, OneAtATime, NeedsView, Dialog, SessionOpens, SessionEnds,
     SessionLapses, EmptyState, CloseLost, DialogGoes, deletes
<1>9. CASE CloseRead
  BY <1>9 DEF SessionNeedsDialog, OneAtATime, NeedsView, Dialog, SessionOpens, SessionEnds,
     SessionLapses, EmptyState, CloseRead, service, sessions, dialog, saveVars, deletes
<1>10. CASE Leave
  <2>1. SessionLeft
    BY <1>10 DEF Leave
  <2>2. CASE closing \notin {"sent", "lost"} /\ left' = session /\ UNCHANGED <<session, expiring>>
    BY <2>2 DEF SessionNeedsDialog
  <2>3. CASE left' = TRUE
    BY <2>3 DEF SessionNeedsDialog
  <2>4. CASE SessionEnds
    BY <2>4 DEF SessionEnds, SessionNeedsDialog
  <2>5. CASE SessionLapses
    <3>1. expiring' = session /\ session' = session
      BY <2>5 DEF SessionLapses
    <3>2. expiring' = session'
      BY <3>1
    <3> QED
      BY <3>2 DEF SessionNeedsDialog
  <2> QED
    BY <2>1, <2>2, <2>3, <2>4, <2>5 DEF SessionLeft
<1>11. CASE Mount
  BY <1>11 DEF SessionNeedsDialog, OneAtATime, NeedsView, Dialog, SessionOpens, SessionEnds,
     SessionLapses, EmptyState, Mount, service, sessions, saveVars, deletes
<1>12. CASE AsksReadBack
  BY <1>12 DEF SessionNeedsDialog, OneAtATime, NeedsView, Dialog, SessionOpens, SessionEnds,
     SessionLapses, EmptyState, AsksReadBack, SaveKeeps, service, sessions, report, dialog, deletes
<1>13. CASE Verified
  BY <1>13 DEF SessionNeedsDialog, OneAtATime, NeedsView, Dialog, SessionOpens, SessionEnds,
     SessionLapses, EmptyState, Verified, SaveKeeps, Commits, service, sessions, dialog, deletes
<1>14. CASE Mismatch
  BY <1>14 DEF SessionNeedsDialog, OneAtATime, NeedsView, Dialog, SessionOpens, SessionEnds,
     SessionLapses, EmptyState, Mismatch, SaveKeeps, service, sessions, report, dialog, deletes
<1>15. CASE FailWrite
  BY <1>15 DEF SessionNeedsDialog, OneAtATime, NeedsView, Dialog, SessionOpens, SessionEnds,
     SessionLapses, EmptyState, FailWrite, WriteEnded, SaveKeeps, service, sessions, dialog, deletes
<1>16. CASE LostTimesOut
  BY <1>16 DEF SessionNeedsDialog, OneAtATime, NeedsView, Dialog, SessionOpens, SessionEnds,
     SessionLapses, EmptyState, LostTimesOut, WriteEnded, SaveKeeps, service, sessions, report,
     dialog, deletes
<1>17. CASE Save \/ Restore
  BY <1>17 DEF SessionNeedsDialog, OneAtATime, NeedsView, Dialog, SessionOpens, SessionEnds,
     SessionLapses, EmptyState, Save, Restore, Begins, MaySave, Acts, Commits, service, sessions,
     dialog, deletes
<1>18. CASE DeleteChecked
  BY <1>18 DEF SessionNeedsDialog, OneAtATime, NeedsView, Dialog, SessionOpens, SessionEnds,
     SessionLapses, EmptyState, DeleteChecked, DeleteEnds, DeleteKeeps, service, sessions, report,
     dialog, saveVars
<1>19. CASE DeleteRefreshed
  BY <1>19 DEF SessionNeedsDialog, OneAtATime, NeedsView, Dialog, SessionOpens, SessionEnds,
     SessionLapses, EmptyState, DeleteRefreshed, DeleteEnds, DeleteKeeps, service, sessions, report,
     dialog, saveVars
<1>20. CASE UNCHANGED vars
  BY <1>20 DEF SessionNeedsDialog, OneAtATime, NeedsView, Dialog, SessionOpens, SessionEnds,
     SessionLapses, EmptyState, vars, service, sessions, report, dialog, saveVars, deletes
<1>21. ASSUME NEW ok \in BOOLEAN, OpenAnswered(ok) PROVE SessionNeedsDialog'
  BY <1>21 DEF SessionNeedsDialog, OneAtATime, NeedsView, Dialog, SessionOpens, SessionEnds,
     SessionLapses, EmptyState, OpenAnswered, Answers, saveVars, deletes
<1>22. ASSUME NEW ok \in BOOLEAN, ResumeAnswered(ok) PROVE SessionNeedsDialog'
  BY <1>22 DEF SessionNeedsDialog, OneAtATime, NeedsView, Dialog, SessionOpens, SessionEnds,
     SessionLapses, EmptyState, ResumeAnswered, Answers, saveVars, deletes
<1>23. ASSUME NEW ok \in BOOLEAN, CloseAnswered(ok) PROVE SessionNeedsDialog'
  <2>1. session' => expiring'
    <3>1. CASE ok
      <4>1. session' = FALSE
        BY <1>23, <3>1 DEF CloseAnswered, SessionEnds
      <4> QED
        BY <4>1
    <3>2. CASE ~ok
      <4>1. expiring' = session /\ session' = session
        BY <1>23, <3>2 DEF CloseAnswered, SessionLapses
      <4>2. expiring' = session'
        BY <4>1
      <4> QED
        BY <4>2
    <3> QED
      BY <3>1, <3>2
  <2>2. SessionNeedsDialog'
    BY <2>1 DEF SessionNeedsDialog
  <2> QED
    BY <2>2
<1>24. ASSUME NEW ok \in BOOLEAN, CommitAnswered(ok) PROVE SessionNeedsDialog'
  BY <1>24 DEF SessionNeedsDialog, OneAtATime, NeedsView, Dialog, SessionOpens, SessionEnds,
     SessionLapses, EmptyState, CommitAnswered, SaveKeeps, service, sessions, report, dialog,
     deletes
<1>25. ASSUME NEW ok \in BOOLEAN, ReadBack(ok) PROVE SessionNeedsDialog'
  BY <1>25 DEF SessionNeedsDialog, OneAtATime, NeedsView, Dialog, SessionOpens, SessionEnds,
     SessionLapses, EmptyState, ReadBack, Answers, SaveKeeps, service, sessions, report, dialog,
     deletes
<1>26. ASSUME NEW ok \in BOOLEAN, ResetAnswered(ok) PROVE SessionNeedsDialog'
  BY <1>26 DEF SessionNeedsDialog, OneAtATime, NeedsView, Dialog, SessionOpens, SessionEnds,
     SessionLapses, EmptyState, ResetAnswered, Answers, DeleteKeeps, service, sessions, report,
     dialog, saveVars
<1>27. ASSUME NEW i \in Axes, Capture(i) PROVE SessionNeedsDialog'
  BY <1>27 DEF SessionNeedsDialog, OneAtATime, NeedsView, Dialog, SessionOpens, SessionEnds,
     SessionLapses, EmptyState, Capture, Acts, service, sessions, dialog, saveVars, deletes
<1>28. ASSUME NEW i \in Axes, DeleteAxis(i) PROVE SessionNeedsDialog'
  BY <1>28 DEF SessionNeedsDialog, OneAtATime, NeedsView, Dialog, SessionOpens, SessionEnds,
     SessionLapses, EmptyState, DeleteAxis, Acts, DeleteKeeps, service, sessions, report, dialog,
     saveVars
<1>29. ASSUME NEW to \in Boards, NEW released \in BOOLEAN, Drop(to, released) PROVE SessionNeedsDialog'
  BY <1>29 DEF SessionNeedsDialog, OneAtATime, NeedsView, Dialog, SessionOpens, SessionEnds,
     SessionLapses, EmptyState, Drop
<1> QED
  BY <1>1, <1>2, <1>3, <1>4, <1>5, <1>6, <1>7, <1>8, <1>9, <1>10, <1>11, <1>12, <1>13, <1>14, <1>15,
     <1>16, <1>17, <1>18, <1>19, <1>20, <1>21, <1>22, <1>23, <1>24, <1>25, <1>26, <1>27, <1>28,
     <1>29 DEF Next, Answered, Intents, LinkMoves

(* When people wait for the dialog's exchanges, a session is an open        *)
(* dialog's or is being given up, whatever the link does, and whichever     *)
(* answer comes, or was left by a page that went away: closing a dialog     *)
(* never leaves the export stream held back.                                *)
THEOREM SessionIsSomeDialogs ==
    ASSUME ~Overlaps PROVE Spec => []SessionNeedsDialog
<1>1. Init => SessionNeedsDialog
  BY DEF Init, SessionNeedsDialog
<1>2. Types /\ Shape /\ OneAtATime /\ SessionNeedsDialog /\ [Next]_vars => SessionNeedsDialog'
  BY SessionStep
<1> QED
  BY <1>1, <1>2, TypesAlways, ShapeAlways, OneAtATimeAlways, PTL DEF Spec

-----------------------------------------------------------------------------
(***************************************************************************)
(* What people deleted.                                                    *)
(***************************************************************************)
(* What the tab offers: nothing, what the last report has lost, or what it  *)
(* offered; and no dialog goes, with the link up, but to read the board.    *)
Free == view /\ ~shown /\ closing = "no" /\ snap.read
Offers ==
    \/ offer' = {}
    \/ offer' = Regressed(cached, snap')
    \/ UNCHANGED <<offer, snap>> /\ (Free' => Free)
    \/ ~view'

LEMMA OfferSteps ==
    ASSUME Types, Shape, SerialIsOwn, [Next]_vars
    PROVE  Offers
<1> USE DEF Shape
<1>1. CASE LinkUp
  BY <1>1 DEF LinkUp, report, saveVars, deletes, Offers, Free, NeedsLink, NeedsView, Dialog,
     SerialIsOwn, Known, NoSnap, EmptyState, Resuming
<1>2. CASE SerialRead
  BY <1>2 DEF SerialRead, report, dialog, saveVars, deletes, Offers, Free, NeedsLink, NeedsView,
     Dialog, SerialIsOwn, Known, NoSnap, EmptyState, Resuming
<1>3. CASE ConnectRead
  BY <1>3, TakesResumes DEF ConnectRead, report, dialog, saveVars, deletes, Offers, Free, NeedsLink,
     NeedsView, Dialog, SerialIsOwn, Known, NoSnap, EmptyState, Resuming
<1>4. CASE Expire
  BY <1>4 DEF Expire, report, dialog, saveVars, deletes, Offers, Free, NeedsLink, NeedsView, Dialog,
     SerialIsOwn, Known, NoSnap, EmptyState, Resuming
<1>5. CASE HoldFires
  BY <1>5 DEF HoldFires, SaveKeeps, service, report, dialog, deletes, Offers, Free, NeedsLink,
     NeedsView, Dialog, SerialIsOwn, Known, NoSnap, EmptyState, Resuming
<1>6. CASE OpenDialog
  BY <1>6 DEF OpenDialog, service, deletes, Offers, Free, NeedsLink, NeedsView, Dialog, SerialIsOwn,
     Known, NoSnap, EmptyState, Resuming
<1>7. CASE Close
  BY <1>7 DEF Close, Acts, service, report, dialog, saveVars, deletes, Offers, Free, NeedsLink,
     NeedsView, Dialog, SerialIsOwn, Known, NoSnap, EmptyState, Resuming
<1>8. CASE CloseLost
  BY <1>8 DEF CloseLost, DialogGoes, deletes, Offers, Free, NeedsLink, NeedsView, Dialog,
     SerialIsOwn, Known, NoSnap, EmptyState, Resuming
<1>9. CASE CloseRead
  BY <1>9, TakesResumes DEF CloseRead, service, dialog, saveVars, deletes, Offers, Free, NeedsLink,
     NeedsView, Dialog, SerialIsOwn, Known, NoSnap, EmptyState, Resuming
<1>10. CASE Leave
  BY <1>10 DEF Leave, EmptyState, service, Offers, Free, NeedsLink, NeedsView, Dialog, SerialIsOwn,
     Known, NoSnap, Resuming
<1>11. CASE Mount
  BY <1>11 DEF Mount, service, saveVars, deletes, Offers, Free, NeedsLink, NeedsView, Dialog,
     SerialIsOwn, Known, NoSnap, EmptyState, Resuming
<1>12. CASE AsksReadBack
  BY <1>12 DEF AsksReadBack, SaveKeeps, service, report, dialog, deletes, Offers, Free, NeedsLink,
     NeedsView, Dialog, SerialIsOwn, Known, NoSnap, EmptyState, Resuming
<1>13. CASE Verified
  BY <1>13 DEF Verified, SaveKeeps, Commits, service, dialog, deletes, Offers, Free, NeedsLink,
     NeedsView, Dialog, SerialIsOwn, Known, NoSnap, EmptyState, Resuming
<1>14. CASE Mismatch
  BY <1>14 DEF Mismatch, SaveKeeps, service, report, dialog, deletes, Offers, Free, NeedsLink,
     NeedsView, Dialog, SerialIsOwn, Known, NoSnap, EmptyState, Resuming
<1>15. CASE FailWrite
  BY <1>15, ReportResumes DEF FailWrite, WriteEnded, SaveKeeps, service, dialog, deletes, Offers,
     Free, NeedsLink, NeedsView, Dialog, SerialIsOwn, Known, NoSnap, EmptyState, Resuming
<1>16. CASE LostTimesOut
  BY <1>16 DEF LostTimesOut, WriteEnded, SaveKeeps, service, report, dialog, deletes, Offers, Free,
     NeedsLink, NeedsView, Dialog, SerialIsOwn, Known, NoSnap, EmptyState, Resuming
<1>17. CASE Save \/ Restore
  BY <1>17 DEF Save, Restore, Begins, MaySave, Acts, Commits, service, dialog, deletes, Offers,
     Free, NeedsLink, NeedsView, Dialog, SerialIsOwn, Known, NoSnap, EmptyState, Resuming
<1>18. CASE DeleteChecked
  BY <1>18, TakesResumes, ReportResumes DEF DeleteChecked, DeleteEnds, DeleteKeeps, service, report,
     dialog, saveVars, Offers, Free, NeedsLink, NeedsView, Dialog, SerialIsOwn, Known, NoSnap,
     EmptyState, Resuming
<1>19. CASE DeleteRefreshed
  BY <1>19, TakesResumes DEF DeleteRefreshed, DeleteEnds, DeleteKeeps, service, report, dialog,
     saveVars, Offers, Free, NeedsLink, NeedsView, Dialog, SerialIsOwn, Known, NoSnap, EmptyState,
     Resuming
<1>20. CASE UNCHANGED vars
  BY <1>20 DEF vars, service, report, dialog, saveVars, deletes, Offers, Free, NeedsLink, NeedsView,
     Dialog, SerialIsOwn, Known, NoSnap, EmptyState, Resuming
<1>21. ASSUME NEW ok \in BOOLEAN, OpenAnswered(ok) PROVE Offers
  BY <1>21 DEF OpenAnswered, Answers, saveVars, deletes, Offers, Free, NeedsLink, NeedsView, Dialog,
     SerialIsOwn, Known, NoSnap, EmptyState, Resuming
<1>22. ASSUME NEW ok \in BOOLEAN, ResumeAnswered(ok) PROVE Offers
  BY <1>22 DEF ResumeAnswered, Answers, saveVars, deletes, Offers, Free, NeedsLink, NeedsView,
     Dialog, SerialIsOwn, Known, NoSnap, EmptyState, Resuming
<1>23. ASSUME NEW ok \in BOOLEAN, CloseAnswered(ok) PROVE Offers
  BY <1>23 DEF CloseAnswered, Answers, DialogGoes, deletes, Offers, Free, NeedsLink, NeedsView,
     Dialog, SerialIsOwn, Known, NoSnap, EmptyState, Resuming
<1>24. ASSUME NEW ok \in BOOLEAN, CommitAnswered(ok) PROVE Offers
  BY <1>24 DEF CommitAnswered, SaveKeeps, service, report, dialog, deletes, Offers, Free, NeedsLink,
     NeedsView, Dialog, SerialIsOwn, Known, NoSnap, EmptyState, Resuming
<1>25. ASSUME NEW ok \in BOOLEAN, ReadBack(ok) PROVE Offers
  BY <1>25, TakesResumes DEF ReadBack, Answers, SaveKeeps, service, report, dialog, deletes, Offers,
     Free, NeedsLink, NeedsView, Dialog, SerialIsOwn, Known, NoSnap, EmptyState, Resuming
<1>26. ASSUME NEW ok \in BOOLEAN, ResetAnswered(ok) PROVE Offers
  BY <1>26 DEF ResetAnswered, Answers, DeleteKeeps, service, report, dialog, saveVars, Offers, Free,
     NeedsLink, NeedsView, Dialog, SerialIsOwn, Known, NoSnap, EmptyState, Resuming
<1>27. ASSUME NEW i \in Axes, Capture(i) PROVE Offers
  BY <1>27 DEF Capture, Acts, service, dialog, saveVars, deletes, Offers, Free, NeedsLink,
     NeedsView, Dialog, SerialIsOwn, Known, NoSnap, EmptyState, Resuming
<1>28. ASSUME NEW i \in Axes, DeleteAxis(i) PROVE Offers
  BY <1>28 DEF DeleteAxis, Acts, DeleteKeeps, service, report, dialog, saveVars, Offers, Free,
     NeedsLink, NeedsView, Dialog, SerialIsOwn, Known, NoSnap, EmptyState, Resuming
<1>29. ASSUME NEW to \in Boards, NEW released \in BOOLEAN, Drop(to, released) PROVE Offers
  BY <1>29 DEF Drop, Offers, Free, NeedsLink, NeedsView, Dialog, SerialIsOwn, Known, NoSnap,
     EmptyState, Resuming
<1> QED
  BY <1>1, <1>2, <1>3, <1>4, <1>5, <1>6, <1>7, <1>8, <1>9, <1>10, <1>11, <1>12, <1>13, <1>14, <1>15,
     <1>16, <1>17, <1>18, <1>19, <1>20, <1>21, <1>22, <1>23, <1>24, <1>25, <1>26, <1>27, <1>28,
     <1>29 DEF Next, Answered, Intents, LinkMoves

(* An axis is only added to them when a delete has been checked.            *)
LEMMA ErasedSteps ==
    ASSUME Types, [Next]_vars, NEW b \in Boards, NEW i \in Axes, i \in erased'[b]
    PROVE  \/ i \in erased[b]
           \/ Deletes /\ DropCopy(erasing) /\ Fresh.cal[erasing] = 0 /\ b = at /\ i = erasing /\ serial = at
<1>1. CASE BoardsKept
  BY <1>1 DEF BoardsKept
<1>2. CASE Deletes
  <2>1. CASE UNCHANGED erased
    BY <2>1
  <2>2. CASE SeenErased
    BY <1>2, <2>2 DEF SeenErased, Types, BoardTypes, HistoryTypes
  <2> QED
    BY <1>2, <2>1, <2>2 DEF Deletes
<1>3. CASE Writes
  <2>1. Stores(cur, d) /\ cur \in Axes /\ d \in {0} \cup Values
    BY <1>3 DEF Writes, Types, SaveTypes
  <2> QED
    BY <2>1, StoresHold
<1>4. CASE Resets
  <2>1. erasing \in Axes /\ Stores(erasing, 0)
    BY <1>4 DEF Resets, Types, DeleteTypes
  <2> QED
    BY <2>1, StoresHold
<1>5. CASE Drops
  BY <1>5, DropHolds DEF Drops
<1> QED
  BY <1>1, <1>2, <1>3, <1>4, <1>5, BoardSteps

LEMMA GoneStep ==
    ASSUME Types, NotErased, [Next]_vars
    PROVE  ErasedIsGone'
<1> SUFFICES ASSUME NEW b \in Boards, NEW i \in Axes, i \in erased'[b]
             PROVE  cached'[b][i] = 0 /\ stored'[b][i] = 0
  <2>1. erased' \in [Boards -> SUBSET Axes]
    BY TypesStep DEF Types, HistoryTypes
  <2> QED
    BY <2>1 DEF ErasedIsGone
<1>1. CASE Deletes /\ DropCopy(erasing) /\ Fresh.cal[erasing] = 0 /\ b = at /\ i = erasing /\ serial = at
  <2>1. stored'[b][i] = 0
    BY <1>1, Fields DEF Deletes
  <2>2. erasing \in Axes /\ Cache(erasing, 0)
    BY <1>1 DEF DropCopy
  <2>3. cached'[b][i] = 0
    BY <1>1, <2>2, CacheHolds
  <2> QED
    BY <2>1, <2>3
<1>2. CASE i \in erased[b]
  <2>1. cached[b][i] = 0 /\ stored[b][i] = 0
    BY <1>2 DEF NotErased, ErasedIsGone
  <2>2. stored'[b][i] = 0
    <3>1. CASE BoardsKept \/ Deletes
      BY <2>1, <3>1 DEF BoardsKept, Deletes
    <3>2. CASE Writes
      <4>1. /\ stored'[b][i] = IF b = at /\ i = cur THEN d ELSE stored[b][i]
            /\ i \in erased'[b] <=> i \in erased[b] /\ ~(b = at /\ i = cur /\ d # 0)
        BY <3>2, WritesHold
      <4> QED
        BY <2>1, <4>1
    <3>3. CASE Resets
      <4>1. stored'[b][i] = IF b = at /\ i = erasing THEN 0 ELSE stored[b][i]
        BY <3>3, ResetsHold
      <4> QED
        BY <2>1, <4>1
    <3>4. CASE Drops
      <4>1. PICK to \in Boards, released \in BOOLEAN : Drop(to, released)
        BY <3>4 DEF Drops
      <4>2. b = at => stored'[b][i] = 0
        BY <4>1, DropHolds
      <4>3. b # at => stored'[b][i] = stored[b][i]
        BY <4>1 DEF Drop, Types, BoardTypes
      <4> QED
        BY <2>1, <4>2, <4>3
    <3> QED
      BY <3>1, <3>2, <3>3, <3>4, BoardSteps
  <2>3. cached'[b][i] = 0
    <3>1. CASE UNCHANGED cached
      BY <2>1, <3>1
    <3>2. CASE Verified /\ Cache(cur, d)
      <4>1. saving = "seen" /\ got = d /\ cur \in Axes /\ d \in {0} \cup Values
        BY <3>2 DEF Verified, StoredAsWritten, Types, SaveTypes
      <4>2. cached'[b][i] = IF b = serial /\ i = cur THEN d ELSE cached[b][i]
        BY <3>2, <4>1, CacheHolds
      <4>3. b = serial /\ i = cur => d = 0
        BY <1>2, <4>1, UnknownAssumption DEF NotErased, SeenIsNotErased
      <4> QED
        BY <2>1, <4>2, <4>3
    <3>3. CASE Deletes /\ DropCopy(erasing)
      <4>1. erasing \in Axes /\ Cache(erasing, 0)
        BY <3>3 DEF Deletes, DropCopy, Types, DeleteTypes
      <4> QED
        BY <2>1, <4>1, CacheHolds
    <3> QED
      BY <3>1, <3>2, <3>3, CacheSteps
  <2> QED
    BY <2>2, <2>3
<1> QED
  BY <1>1, <1>2, ErasedSteps

(* No delete goes on while an axis is written, or with no dialog.           *)
LEMMA SeenNotErasedStep ==
    ASSUME ReportsNamed', Types, SerialIsOwn, OneAtATime, SeenIsHeld, NotErased, [Next]_vars
    PROVE  SeenIsNotErased'
<1> SUFFICES ASSUME saving' = "seen", got' # 0, serial' # Unknown, cur' \in erased'[serial']
             PROVE  FALSE
  BY DEF SeenIsNotErased
<1>1. CASE /\ saving = "seen" /\ UNCHANGED <<cur, got, d>>
           /\ (reading = "serial" => serial = at)
              => /\ reading' = "serial" => serial' = at'
                 /\ serial' \in {serial, Unknown}
  <2>1. serial' = serial /\ serial \in Boards /\ cur \in Axes /\ cur \notin erased[serial]
    BY <1>1 DEF SeenIsHeld, NotErased, SeenIsNotErased, Types, ServiceTypes, SaveTypes, Stamps
  <2>2. ~Deletes
    BY <1>1 DEF OneAtATime, Deletes
  <2> QED
    BY <1>1, <2>1, <2>2, ErasedSteps
<1>2. CASE ReadBack(TRUE)
  <2>1. /\ got' = stored[at][cur] /\ cur' = cur /\ cur \in Axes
        /\ serial' = serial /\ erased' = erased /\ at \in Boards
        /\ reading' = reading /\ at' = at
    BY <1>2 DEF ReadBack, SaveKeeps, service, Types, SaveTypes, BoardTypes
  <2>2. serial = at
    BY <1>2, <2>1, AnswersKnown, TakesResumes DEF ReadBack, Answers, SerialIsOwn
  <2> QED
    BY <2>1, <2>2 DEF NotErased, ErasedIsGone
<1> QED
  BY <1>1, <1>2, SeenSteps

LEMMA NotOfferedStep ==
    ASSUME Types, Shape, SerialIsOwn, OneAtATime, NotErased, [Next]_vars
    PROVE  ErasedIsNotOffered'
<1> SUFFICES ASSUME Free', snap'.stamp # Unknown, NEW i \in offer', i \in erased'[snap'.stamp]
             PROVE  FALSE
  BY DEF ErasedIsNotOffered, Free
<1>1. snap' \in Snaps /\ offer' \subseteq Axes
  BY TypesStep DEF Types, ReportTypes
<1>2. snap'.stamp \in Boards /\ i \in Axes
  BY <1>1 DEF Snaps, Stamps
<1>3. ~Deletes
  <2> SUFFICES ASSUME Deletes PROVE FALSE
    OBVIOUS
  <2>1. deleting = "check" /\ shown' = shown /\ closing' = closing
    BY DEF Deletes, Free
  <2>2. shown \/ closing = "read"
    BY <2>1 DEF OneAtATime
  <2>3. ~shown' /\ closing' = "no"
    BY DEF Free
  <2> QED
    BY <2>1, <2>2, <2>3
<1>4. i \in erased[snap'.stamp]
  BY <1>2, <1>3, ErasedSteps
<1>5. i \notin Regressed(cached, snap')
  BY <1>2, <1>4 DEF Regressed, NotErased, ErasedIsGone
<1>6. ~(UNCHANGED <<offer, snap>> /\ (Free' => Free))
  BY <1>4 DEF NotErased, ErasedIsNotOffered, Free
<1> QED
  BY <1>5, <1>6, OfferSteps DEF Offers, Free

LEMMA NotErasedAlways ==
    ASSUME ~Overlaps PROVE Spec /\ []ReportsNamed => []NotErased
<1>1. Init => NotErased
  BY DEF Init, NotErased, ErasedIsGone, SeenIsNotErased, ErasedIsNotOffered
<1>2. /\ Types /\ Shape /\ SerialIsOwn /\ OnItsBoard /\ OneAtATime /\ SeenIsHeld /\ CachedIsHeld
      /\ NotErased /\ ReportsNamed' /\ [Next]_vars
      => NotErased'
  BY GoneStep, SeenNotErasedStep, NotOfferedStep DEF NotErased
<1> QED
  BY <1>1, <1>2, TypesAlways, ShapeAlways, ConnectedAlways, OneAtATimeAlways, CachedAlways, PTL DEF
     Spec

(* When people wait for the dialog's exchanges and no report is stamped     *)
(* with another board's serial, what is kept here for a board is what that  *)
(* board was read to hold, and what people deleted from it is not offered   *)
(* back.                                                                    *)
THEOREM CacheIsHonest ==
    ASSUME ~Overlaps PROVE Spec /\ []ReportsNamed => []CacheHonest
<1>1. Types /\ CachedIsHeld /\ NotErased => CacheHonest
  <2> SUFFICES ASSUME Types, CachedIsHeld, NotErased PROVE CacheHonest
    OBVIOUS
  <2>1. at \in Boards /\ at # Unknown
    BY UnknownAssumption DEF Types, BoardTypes
  <2> QED
    BY <2>1 DEF CacheHonest, CachedIsHeld, NotErased, ErasedIsNotOffered
<1> QED
  BY <1>1, TypesAlways, CachedAlways, NotErasedAlways, PTL

-----------------------------------------------------------------------------
(***************************************************************************)
(* Where values come from.                                                 *)
(***************************************************************************)
LEMMA CapturedIs ==
    ASSUME NEW v
    PROVE  v \in Captured <=> v \in Values /\ origin[v] # Unknown
  BY DEF Captured

(* A capture gets a number none has, and the rest keep theirs.              *)
LEMMA CaptureIsNew ==
    ASSUME Types, Numbered, NEW i \in Axes, Capture(i)
    PROVE  \E v \in Values :
             /\ v \notin Captured
             /\ drafts' = [drafts EXCEPT ![i] = v] /\ origin' = [origin EXCEPT ![v] = at]
             /\ Captured' = Captured \cup {v} /\ Numbered'
<1>1. PICK n \in 0..MaxCaptures : Captured = 1..n
  BY DEF Numbered
<1>2. n \in Nat /\ MaxCaptures \in Nat
  BY <1>1, BoundedCounts
<1>3. Cardinality(Captured) = n
  BY <1>1, <1>2, FS_Interval
<1> DEFINE v == n + 1
<1>4. drafts' = [drafts EXCEPT ![i] = v] /\ origin' = [origin EXCEPT ![v] = at] /\ n < MaxCaptures
  BY <1>3 DEF Capture
<1>5. v \in 1..MaxCaptures /\ v \notin 1..n /\ 1..v = 1..n \cup {v} /\ v \in 0..MaxCaptures
  BY <1>2, <1>4
<1>6. v \in Values /\ v \notin Captured
  BY <1>1, <1>5 DEF Values
<1> HIDE DEF v
<1>7. Captured' = Captured \cup {v}
  <2>1. at # Unknown /\ origin \in [Values -> Stamps]
    BY UnknownAssumption DEF Types, BoardTypes, HistoryTypes
  <2>2. \A w \in Values : origin'[w] # Unknown <=> origin[w] # Unknown \/ w = v
    BY <1>4, <1>6, <2>1
  <2> QED
    BY <1>6, <2>2 DEF Captured
<1>8. Captured' = 1..v
  BY <1>1, <1>5, <1>7
<1>9. Numbered'
  BY <1>5, <1>8 DEF Numbered
<1> QED
  BY <1>4, <1>6, <1>7, <1>9

(* What was captured keeps its origin.                                      *)
LEMMA OriginSteps ==
    ASSUME [Next]_vars
    PROVE  UNCHANGED origin \/ \E i \in Axes : Capture(i)
<1>1. CASE Answered
  <2>1. CASE CloseLost \/ CloseRead \/ \E ok \in BOOLEAN :
               OpenAnswered(ok) \/ ResumeAnswered(ok) \/ CloseAnswered(ok)
    BY <2>1 DEF CloseLost, CloseRead, OpenAnswered, ResumeAnswered, CloseAnswered, DialogGoes,
       Elsewhere, history
  <2>2. CASE AsksReadBack \/ Verified \/ Mismatch \/ FailWrite \/ LostTimesOut
             \/ \E ok \in BOOLEAN : ReadBack(ok) \/ CommitAnswered(ok)
    BY <2>2 DEF AsksReadBack, Verified, Mismatch, FailWrite, LostTimesOut, WriteEnded, ReadBack,
       CommitAnswered, SaveKeeps
  <2>3. CASE DeleteChecked \/ DeleteRefreshed \/ \E ok \in BOOLEAN : ResetAnswered(ok)
    BY <2>3 DEF DeleteChecked, DeleteRefreshed, ResetAnswered, DeleteKeeps
  <2> QED
    BY <1>1, <2>1, <2>2, <2>3 DEF Answered
<1>2. CASE Intents
  BY <1>2 DEF Intents, OpenDialog, Close, Leave, Mount, Save, Restore, Begins, DeleteAxis,
     DeleteKeeps, Elsewhere, history
<1>3. CASE LinkMoves
  BY <1>3 DEF LinkMoves, LinkUp, SerialRead, ConnectRead, Expire, HoldFires, SaveKeeps, Drop,
     history
<1>4. CASE UNCHANGED vars
  BY <1>4 DEF vars, history
<1> QED
  BY <1>1, <1>2, <1>3, <1>4 DEF Next

LEMMA NumberedStep ==
    ASSUME Types, Numbered, [Next]_vars
    PROVE  Numbered' /\ \A v \in Captured : v \in Captured' /\ origin'[v] = origin[v]
<1>1. CASE UNCHANGED origin
  BY <1>1 DEF Numbered, Captured
<1>2. ASSUME NEW i \in Axes, Capture(i) PROVE Numbered' /\ \A v \in Captured : v \in Captured' /\ origin'[v] = origin[v]
  <2>1. PICK w \in Values : /\ w \notin Captured /\ origin' = [origin EXCEPT ![w] = at]
                            /\ Captured' = Captured \cup {w} /\ Numbered'
    BY <1>2, CaptureIsNew
  <2>2. origin \in [Values -> Stamps]
    BY DEF Types, HistoryTypes
  <2> QED
    BY <2>1, <2>2, CapturedIs
<1> QED
  BY <1>1, <1>2, OriginSteps

(* A value measured on a board was captured.                                *)
LEMMA OwnIsCaptured ==
    ASSUME Types, NEW v \in Values, origin[v] \in Boards
    PROVE  v \in Captured
  BY UnknownAssumption, CapturedIs

LEMMA HeldStep ==
    ASSUME Types, Sourced, [Next]_vars
    PROVE  HeldIsOwn'
<1> SUFFICES ASSUME NEW b \in Boards, NEW i \in Axes, NEW v \in held'[b][i]
             PROVE  origin'[v] = b
  BY DEF HeldIsOwn
<1>1. CASE v \in held[b][i]
  <2>1. v \in Values /\ origin[v] = b
    BY <1>1 DEF Sourced, HeldIsOwn, Types, HistoryTypes
  <2> QED
    BY <2>1, OwnIsCaptured, NumberedStep DEF Sourced
<1>2. CASE v \notin held[b][i]
  <2>1. v # 0 /\ v = stored'[b][i]
    BY <1>2, HeldGrows
  <2>2. v # stored[b][i]
    BY <1>2, <2>1 DEF Sourced, StoredIsHeld
  <2>3. saving = "commit" /\ b = at /\ v = d
    <3>1. stored'[b][i] \in {stored[b][i], 0} \/ (saving = "commit" /\ b = at /\ i = cur /\ stored'[b][i] = d)
      BY HeldGrows
    <3> QED
      BY <2>1, <2>2, <3>1
  <2> QED
    BY <2>1, <2>3, NumberedStep DEF Sourced, WrittenIsOwn
<1> QED
  BY <1>1, <1>2

-----------------------------------------------------------------------------
(* A step that leaves the drafts, or some of them, and the dialog's board.  *)
LEMMA DraftsLeft ==
    ASSUME DraftsAreOwn, UNCHANGED origin,
           \A i \in Axes : drafts'[i] \in {0, drafts[i]},
           open => open' /\ device'.stamp = device.stamp,
           open /\ Known' /\ device.stamp = serial' => Known /\ device.stamp = serial /\ at' = at
    PROVE  DraftsAreOwn'
<1> SUFFICES ASSUME NEW i \in Axes, drafts'[i] # 0
             PROVE  /\ open' /\ drafts'[i] \in Captured'
                    /\ device'.stamp # Unknown => origin'[drafts'[i]] = device'.stamp
                    /\ Known' /\ device'.stamp = serial' => origin'[drafts'[i]] = at'
  BY DEF DraftsAreOwn
<1>1. drafts'[i] = drafts[i] /\ drafts[i] # 0
  OBVIOUS
<1>2. open /\ drafts[i] \in Captured
  BY <1>1 DEF DraftsAreOwn
<1>3. Captured' = Captured
  BY DEF Captured
<1>4. open' /\ device'.stamp = device.stamp
  BY <1>2
<1>5. device.stamp # Unknown => origin[drafts[i]] = device.stamp
  BY <1>1 DEF DraftsAreOwn
<1>6. Known' /\ device.stamp = serial' => origin[drafts[i]] = at'
  BY <1>1, <1>2 DEF DraftsAreOwn
<1> QED
  BY <1>1, <1>2, <1>3, <1>4, <1>5, <1>6

LEMMA DraftsKeptAsTheyAre ==
    ASSUME DraftsAreOwn, UNCHANGED <<origin, drafts, open, device, serial, at>>, Known' => Known
    PROVE  DraftsAreOwn'
  BY DraftsLeft

LEMMA NoDrafts ==
    ASSUME \A i \in Axes : drafts'[i] = 0
    PROVE  DraftsAreOwn'
  BY DEF DraftsAreOwn

LEMMA EmptyHasNoDrafts == ASSUME drafts' = Blank PROVE DraftsAreOwn'
  BY NoDrafts DEF Blank

(* A report: the drafts left are of the board that reported.                *)
LEMMA ReportKeepsOwn ==
    ASSUME Shape, SerialIsOwn, DraftsAreOwn, Known, NEW keep, NEW its, Reported(Fresh, keep, its),
           \A i \in Axes : keep[i] \in {0, Kept(Fresh)[i]},
           UNCHANGED <<origin, open, at, serial>>
    PROVE  DraftsAreOwn'
<1>1. CASE view
  <2> SUFFICES ASSUME NEW i \in Axes, drafts'[i] # 0
               PROVE  /\ open /\ drafts'[i] \in Captured
                      /\ device'.stamp # Unknown => origin[drafts'[i]] = device'.stamp
                      /\ origin[drafts'[i]] = at
    BY DEF DraftsAreOwn, Captured
  <2>1. drafts' = keep /\ device' = Fresh
    BY <1>1, ReportResumes
  <2>2. Kept(Fresh)[i] = drafts'[i] /\ Kept(Fresh)[i] # 0
    BY <2>1
  <2>3. device.stamp = serial /\ drafts'[i] = drafts[i]
    BY <2>2, Fields DEF Kept, Differs, Blank
  <2>4. open /\ drafts[i] \in Captured /\ origin[drafts[i]] = at
    BY <2>3 DEF DraftsAreOwn
  <2>5. device'.stamp = serial /\ serial \in {at, Unknown}
    BY <2>1, Fields DEF SerialIsOwn
  <2> QED
    BY <2>3, <2>4, <2>5
<1>2. CASE ~view
  <2>1. ~open
    BY <1>2 DEF Shape, NeedsView
  <2>2. drafts' = drafts
    BY <1>2, ReportResumes
  <2> QED
    BY <2>1, <2>2, NoDrafts DEF DraftsAreOwn
<1> QED
  BY <1>1, <1>2

LEMMA TakenKeepsOwn ==
    ASSUME Types, Shape, SerialIsOwn, DraftsAreOwn, Known, TakesReport, UNCHANGED <<origin, open, at, serial>>
    PROVE  DraftsAreOwn'
  BY ReportKeepsOwn DEF TakesReport

(* The axis a draft goes of is left without, and the rest keep theirs.      *)
LEMMA WithoutLeaves ==
    ASSUME NEW ds, NEW is, NEW i \in Axes
    PROVE  Without(ds, is)[i] \in {0, ds[i]}
  BY DEF Without

LEMMA AfterFailureLeaves ==
    ASSUME NEW s, NEW ds, NEW i \in Axes
    PROVE  AfterFailure(s, ds)[i] \in {0, ds[i]}
  BY WithoutLeaves DEF AfterFailure

(* Reaching the dialog's board: what is captured or written now is on the   *)
(* board plugged in.                                                        *)
LEMMA BoardIsKnown ==
    ASSUME Types, Shape, SerialIsOwn, OnItsBoard, Acts, ~paused
    PROVE  /\ open /\ Known /\ device.stamp \in {serial, at} /\ serial \in {at, Unknown}
           /\ at # Unknown
<1>1. open
  BY DEF Acts, Shape, Dialog
<1>2. at # Unknown
  BY UnknownAssumption DEF Types, BoardTypes
<1> QED
  BY <1>1, <1>2 DEF OnItsBoard, SerialIsOwn

LEMMA DraftsStep ==
    ASSUME ReportsNamed', ~NamelessTwice, Types, Shape, SerialIsOwn, OnItsBoard, Sourced, [Next]_vars
    PROVE  DraftsAreOwn'
<1> USE DEF Sourced
<1>1. CASE LinkUp
  <2>1. UNCHANGED <<origin, drafts, open, device, serial, at>> /\ (Known' => serial = at)
    BY <1>1 DEF LinkUp, boardVars, report, history, Known
  <2>2. at # Unknown /\ Captured' = Captured
    BY <2>1, UnknownAssumption DEF Types, BoardTypes, Captured
  <2> QED
    BY <2>1, <2>2 DEF DraftsAreOwn
<1>2. CASE SerialRead
  <2>1. /\ UNCHANGED <<origin, drafts, open, device, at>>
        /\ \/ serial' = at
           \/ serial' = Unknown /\ (device.stamp # Unknown \/ Dirty(drafts) = {})
    BY <1>2 DEF SerialRead, boardVars, report, dialog, history
  <2>2. \A i \in Axes : drafts[i] # 0 => ~(serial' = Unknown /\ device.stamp = Unknown)
    BY <2>1, UnknownAssumption DEF Dirty, Types, BoardTypes
  <2>3. Captured' = Captured
    BY <2>1 DEF Captured
  <2> QED
    BY <2>1, <2>2, <2>3 DEF DraftsAreOwn
<1>3. CASE ConnectRead
  <2>1. /\ UNCHANGED <<origin, open, at, serial>> /\ Known /\ (Known' => Known)
        /\ TakesReport \/ UNCHANGED <<drafts, device>>
    BY <1>3, AnswersKnown DEF ConnectRead, boardVars, report, dialog, history, Known
  <2>2. CASE TakesReport
    BY <2>1, <2>2, TakenKeepsOwn
  <2>3. CASE UNCHANGED <<drafts, device>>
    BY <2>1, <2>3, DraftsKeptAsTheyAre
  <2> QED
    BY <2>1, <2>2, <2>3
<1>4. CASE Expire
  <2>1. UNCHANGED <<origin, drafts, open, device, serial, at>> /\ (Known' => Known)
    BY <1>4 DEF Expire, boardVars, report, dialog, history, Known
  <2> QED
    BY <2>1, DraftsKeptAsTheyAre
<1>5. CASE HoldFires
  <2>1. UNCHANGED <<origin, drafts, open, device, serial, at>> /\ (Known' => Known)
    BY <1>5 DEF HoldFires, SaveKeeps, service, report, dialog, Known
  <2> QED
    BY <2>1, DraftsKeptAsTheyAre
<1>6. CASE OpenDialog
  <2>1. drafts' = Blank
    BY <1>6 DEF OpenDialog
  <2> QED
    BY <2>1, EmptyHasNoDrafts
<1>7. CASE Close
  <2>1. UNCHANGED <<origin, drafts, open, device, serial, at>> /\ (Known' => Known)
    BY <1>7 DEF Close, Elsewhere, service, report, dialog, boardVars, history, Known
  <2> QED
    BY <2>1, DraftsKeptAsTheyAre
<1>8. CASE CloseLost
  <2>1. drafts' = Blank
    BY <1>8 DEF CloseLost, DialogGoes, EmptyState
  <2> QED
    BY <2>1, EmptyHasNoDrafts
<1>9. CASE CloseRead
  <2>1. /\ UNCHANGED <<origin, open, at, serial, link, reading>> /\ link
        /\ TakesReport \/ UNCHANGED <<drafts, device>>
    BY <1>9 DEF CloseRead, Elsewhere, service, dialog, boardVars, history, Answers
  <2>2. CASE TakesReport
    BY <2>1, <2>2, TakenIsKnown, TakenKeepsOwn DEF TakesReport
  <2>3. CASE UNCHANGED <<drafts, device>>
    BY <2>1, <2>3, DraftsKeptAsTheyAre DEF Known
  <2> QED
    BY <2>1, <2>2, <2>3
<1>10. CASE Leave
  <2>1. drafts' = Blank
    BY <1>10 DEF Leave, EmptyState
  <2> QED
    BY <2>1, EmptyHasNoDrafts
<1>11. CASE Mount
  <2>1. drafts' = drafts /\ ~open
    BY <1>11 DEF Mount, Shape, NeedsView
  <2> QED
    BY <2>1, NoDrafts DEF DraftsAreOwn
<1>12. CASE AsksReadBack
  <2>1. UNCHANGED <<origin, drafts, open, device, serial, at>> /\ (Known' => Known)
    BY <1>12 DEF AsksReadBack, SaveKeeps, service, report, dialog, Known
  <2> QED
    BY <2>1, DraftsKeptAsTheyAre
<1>13. CASE Verified
  <2>1. /\ UNCHANGED <<origin, open, at, serial, link, reading>>
        /\ drafts' = Without(drafts, {cur}) /\ device' = IF snap.read THEN snap ELSE device
    BY <1>13 DEF Verified, SaveKeeps, service, dialog
  <2>2. open => device' = device
    BY <2>1 DEF OnItsBoard
  <2> QED
    BY <2>1, <2>2, WithoutLeaves, DraftsLeft DEF Known
<1>14. CASE Mismatch
  <2>1. UNCHANGED <<origin, drafts, open, device, serial, at>> /\ (Known' => Known)
    BY <1>14 DEF Mismatch, SaveKeeps, service, report, dialog, Known
  <2> QED
    BY <2>1, DraftsKeptAsTheyAre
<1>15. CASE FailWrite
  <2>1. UNCHANGED <<origin, open, at, serial, link, reading>> /\ link
    BY <1>15 DEF FailWrite, Answers, WriteEnded, SaveKeeps, service, dialog
  <2>2. CASE Reported(Fresh, AfterFailure(Fresh, Kept(Fresh)), Offerable(cached, Fresh))
    BY <2>1, <2>2, TakenIsKnown, ReportKeepsOwn, AfterFailureLeaves
  <2>3. CASE drafts' = AfterFailure(device, drafts) /\ UNCHANGED device
    BY <2>1, <2>3, DraftsLeft, AfterFailureLeaves DEF Known
  <2> QED
    BY <1>15, <2>2, <2>3 DEF FailWrite
<1>16. CASE LostTimesOut
  <2>1. UNCHANGED <<origin, open, at, serial, link, reading, device>>
    BY <1>16 DEF LostTimesOut, WriteEnded, SaveKeeps, service, dialog, report
  <2>2. drafts' = AfterFailure(device, drafts) \/ drafts' = drafts
    BY <1>16 DEF LostTimesOut, report
  <2>3. \A i \in Axes : drafts'[i] \in {0, drafts[i]}
    BY <2>2, AfterFailureLeaves
  <2> QED
    BY <2>1, <2>3, DraftsLeft DEF Known
<1>17. CASE Save
  <2>1. UNCHANGED <<origin, drafts, open, device, serial, at>> /\ (Known' => Known)
    BY <1>17 DEF Save, Begins, Elsewhere, service, dialog, boardVars, history, Known
  <2> QED
    BY <2>1, DraftsKeptAsTheyAre
<1>18. CASE Restore
  <2>1. /\ UNCHANGED <<origin, open, at, serial, link, reading, device>> /\ Acts /\ ~paused
        /\ drafts' = [i \in Axes |-> IF restorable[i] # 0 THEN restorable[i] ELSE drafts[i]]
    BY <1>18 DEF Restore, Begins, MaySave, Elsewhere, service, dialog, boardVars, history
  <2>2. /\ open /\ Known /\ device.stamp \in {serial, at} /\ serial \in {at, Unknown}
        /\ at # Unknown
    BY <2>1, BoardIsKnown
  <2>3. Captured' = Captured
    BY <2>1 DEF Captured
  <2>4. ASSUME NEW i \in Axes, restorable[i] # 0
        PROVE  origin[restorable[i]] = at /\ device.stamp = at /\ restorable[i] \in Captured
    <3>1. device.stamp # Unknown /\ origin[restorable[i]] = device.stamp
      BY <2>2, <2>4 DEF OffersAreOwn
    <3>2. restorable[i] \in Values
      BY <2>4 DEF Types, ReportTypes, Contents
    <3> QED
      BY <2>2, <3>1, <3>2, CapturedIs
  <2>5. ASSUME NEW i \in Axes, restorable[i] = 0, drafts[i] # 0
        PROVE  /\ drafts[i] \in Captured /\ origin[drafts[i]] = at
               /\ device.stamp # Unknown => origin[drafts[i]] = device.stamp
    BY <2>2, <2>5 DEF DraftsAreOwn
  <2> QED
    BY <2>1, <2>2, <2>3, <2>4, <2>5 DEF DraftsAreOwn
<1>19. CASE DeleteChecked
  <2>1. UNCHANGED <<origin, open, at, serial, link, reading>> /\ link
    BY <1>19 DEF DeleteChecked, Answers, DeleteKeeps, service, dialog
  <2>2. CASE Reported(Fresh, Without(Kept(Fresh), {erasing}), KeptOffer(Fresh))
    BY <2>1, <2>2, TakenIsKnown, ReportKeepsOwn, WithoutLeaves
  <2>3. CASE TakesReport
    BY <2>1, <2>3, TakenIsKnown, TakenKeepsOwn DEF TakesReport
  <2>4. CASE UNCHANGED report
    BY <2>1, <2>4, DraftsKeptAsTheyAre DEF report, Known
  <2> QED
    BY <1>19, <2>2, <2>3, <2>4 DEF DeleteChecked
<1>20. CASE DeleteRefreshed
  <2>1. /\ UNCHANGED <<origin, open, at, serial, link, reading>> /\ link
        /\ TakesReport \/ UNCHANGED <<drafts, device>>
    BY <1>20 DEF DeleteRefreshed, DeleteKeeps, service, report, dialog, Answers
  <2>2. CASE TakesReport
    BY <2>1, <2>2, TakenIsKnown, TakenKeepsOwn DEF TakesReport
  <2>3. CASE UNCHANGED <<drafts, device>>
    BY <2>1, <2>3, DraftsKeptAsTheyAre DEF Known
  <2> QED
    BY <2>1, <2>2, <2>3
<1>21. CASE UNCHANGED vars
  <2>1. UNCHANGED <<origin, drafts, open, device, serial, at>> /\ (Known' => Known)
    BY <1>21 DEF vars, boardVars, service, report, dialog, history, Known
  <2> QED
    BY <2>1, DraftsKeptAsTheyAre
<1>22. ASSUME NEW ok \in BOOLEAN, OpenAnswered(ok) PROVE DraftsAreOwn'
  <2>1. UNCHANGED <<origin, drafts, open, device, serial, at>> /\ (Known' => Known)
    BY <1>22 DEF OpenAnswered, Elsewhere, boardVars, history, Known
  <2> QED
    BY <2>1, DraftsKeptAsTheyAre
<1>23. ASSUME NEW ok \in BOOLEAN, ResumeAnswered(ok) PROVE DraftsAreOwn'
  <2>1. UNCHANGED <<origin, drafts, open, device, serial, at>> /\ (Known' => Known)
    BY <1>23 DEF ResumeAnswered, Elsewhere, boardVars, history, Known
  <2> QED
    BY <2>1, DraftsKeptAsTheyAre
<1>24. ASSUME NEW ok \in BOOLEAN, CloseAnswered(ok) PROVE DraftsAreOwn'
  <2>1. drafts' = Blank
    BY <1>24 DEF CloseAnswered, DialogGoes, EmptyState
  <2> QED
    BY <2>1, EmptyHasNoDrafts
<1>25. ASSUME NEW ok \in BOOLEAN, CommitAnswered(ok) PROVE DraftsAreOwn'
  <2>1. UNCHANGED <<origin, drafts, open, device, serial, at>> /\ (Known' => Known)
    BY <1>25 DEF CommitAnswered, SaveKeeps, service, report, dialog, Known
  <2> QED
    BY <2>1, DraftsKeptAsTheyAre
<1>26. ASSUME NEW ok \in BOOLEAN, ReadBack(ok) PROVE DraftsAreOwn'
  <2>1. /\ UNCHANGED <<origin, open, at, serial, link, reading>> /\ link
        /\ TakesReport \/ UNCHANGED <<drafts, device>>
    BY <1>26 DEF ReadBack, SaveKeeps, service, report, dialog, Answers
  <2>2. CASE TakesReport
    BY <2>1, <2>2, TakenIsKnown, TakenKeepsOwn DEF TakesReport
  <2>3. CASE UNCHANGED <<drafts, device>>
    BY <2>1, <2>3, DraftsKeptAsTheyAre DEF Known
  <2> QED
    BY <2>1, <2>2, <2>3
<1>27. ASSUME NEW ok \in BOOLEAN, ResetAnswered(ok) PROVE DraftsAreOwn'
  <2>1. UNCHANGED <<origin, drafts, open, device, serial, at>> /\ (Known' => Known)
    BY <1>27 DEF ResetAnswered, DeleteKeeps, service, report, dialog, Known
  <2> QED
    BY <2>1, DraftsKeptAsTheyAre
<1>28. ASSUME NEW i \in Axes, DeleteAxis(i) PROVE DraftsAreOwn'
  <2>1. UNCHANGED <<origin, drafts, open, device, serial, at>> /\ (Known' => Known)
    BY <1>28 DEF DeleteAxis, DeleteKeeps, service, report, dialog, Known
  <2> QED
    BY <2>1, DraftsKeptAsTheyAre
<1>29. ASSUME NEW i \in Axes, Capture(i) PROVE DraftsAreOwn'
  <2>1. PICK v \in Values : /\ drafts' = [drafts EXCEPT ![i] = v] /\ origin' = [origin EXCEPT ![v] = at]
                            /\ v \notin Captured /\ Captured' = Captured \cup {v}
    BY <1>29, CaptureIsNew
  <2>2. UNCHANGED <<open, at, serial, link, reading, device>> /\ Acts /\ ~paused
    BY <1>29 DEF Capture, dialog, boardVars, service
  <2>3. /\ open /\ Known /\ device.stamp \in {serial, at} /\ serial \in {at, Unknown}
        /\ at # Unknown
    BY <2>2, BoardIsKnown
  <2>4. origin \in [Values -> Stamps] /\ drafts \in [Axes -> {0} \cup Values]
    BY DEF Types, HistoryTypes, ReportTypes, Contents
  <2>5. ASSUME NEW j \in Axes, drafts'[j] # 0
        PROVE  /\ drafts'[j] \in Captured' /\ origin'[drafts'[j]] = at
               /\ device.stamp # Unknown => origin'[drafts'[j]] = device.stamp
    <3>1. CASE j = i
      BY <2>1, <2>3, <2>4, <3>1
    <3>2. CASE j # i
      <4>1. drafts'[j] = drafts[j] /\ drafts[j] # 0
        BY <2>1, <2>4, <2>5, <3>2
      <4>2. drafts[j] \in Captured /\ origin[drafts[j]] = at
        BY <2>3, <4>1 DEF DraftsAreOwn
      <4>3. origin'[drafts[j]] = origin[drafts[j]]
        BY <2>1, <2>4, <4>2, CapturedIs
      <4> QED
        BY <2>1, <2>3, <4>1, <4>2, <4>3
    <3> QED
      BY <3>1, <3>2
  <2> QED
    BY <2>2, <2>3, <2>5 DEF DraftsAreOwn
<1>30. ASSUME NEW to \in Boards, NEW released \in BOOLEAN, Drop(to, released) PROVE DraftsAreOwn'
  <2>1. CASE closing = "sent"
    BY <1>30, <2>1, EmptyHasNoDrafts DEF Drop
  <2>2. CASE closing # "sent"
    <3>1. UNCHANGED <<origin, drafts, open, device>> /\ ~Known'
      BY <1>30, <2>2 DEF Drop, Known
    <3> QED
      BY <3>1, DraftsLeft
  <2> QED
    BY <2>1, <2>2
<1> QED
  BY <1>1, <1>2, <1>3, <1>4, <1>5, <1>6, <1>7, <1>8, <1>9, <1>10, <1>11, <1>12, <1>13, <1>14, <1>15,
     <1>16, <1>17, <1>18, <1>19, <1>20, <1>21, <1>22, <1>23, <1>24, <1>25, <1>26, <1>27, <1>28,
     <1>29, <1>30 DEF Next, Answered, Intents, LinkMoves

-----------------------------------------------------------------------------
(* A step that leaves what is offered, or some of it, for the same board.   *)
LEMMA OffersLeft ==
    ASSUME Types, OffersAreOwn,
           \A v \in Captured : origin'[v] = origin[v],
           \A i \in Axes : restorable'[i] \in {0, restorable[i]},
           open' => open /\ device'.stamp = device.stamp
    PROVE  OffersAreOwn'
<1> SUFFICES ASSUME open', NEW i \in Axes, restorable'[i] # 0
             PROVE  device'.stamp # Unknown /\ origin'[restorable'[i]] = device'.stamp
  BY DEF OffersAreOwn
<1>1. open /\ device'.stamp = device.stamp /\ restorable'[i] = restorable[i] /\ restorable[i] # 0
  OBVIOUS
<1>2. device.stamp # Unknown /\ origin[restorable[i]] = device.stamp
  BY <1>1 DEF OffersAreOwn
<1>3. restorable[i] \in Values
  BY <1>1 DEF Types, ReportTypes, Contents
<1> QED
  BY <1>1, <1>2, <1>3, CapturedIs

LEMMA EmptyOffersNothing == ASSUME restorable' = Blank PROVE OffersAreOwn'
  BY DEF OffersAreOwn, Blank

(* A copy that is offered was measured on the board of the serial known,    *)
(* and the report it is offered after is of that board.                     *)
LEMMA CopiesAreOwn ==
    ASSUME Types, HeldIsOwn, NEW c, NEW s, NEW i \in Axes, Offerable(c, s)[i] # 0,
           \A b \in Boards, j \in Axes : c[b][j] # 0 => c[b][j] \in held[b][j]
    PROVE  /\ serial \in Boards /\ serial # Unknown /\ s.stamp # Unknown
           /\ origin[Offerable(c, s)[i]] = serial
<1>1. serial # Unknown /\ i \in Regressed(c, s) /\ Offerable(c, s)[i] = c[serial][i]
  BY DEF Offerable
<1>2. serial \in Boards
  BY <1>1 DEF Types, ServiceTypes, Stamps
<1>3. s.stamp # Unknown
  BY <1>1 DEF Regressed
<1>4. c[serial][i] \in held[serial][i]
  BY <1>1, <1>2
<1> QED
  BY <1>1, <1>2, <1>3, <1>4 DEF HeldIsOwn

(* An offer made after the last report.                                     *)
LEMMA OffersOfSnap ==
    ASSUME Types, SerialIsOwn, OnItsBoard, HeldIsOwn, NEW c,
           \A b \in Boards, j \in Axes : c[b][j] # 0 => c[b][j] \in held[b][j],
           restorable' = Offerable(c, snap), UNCHANGED <<origin, open>>,
           open => device'.stamp = device.stamp
    PROVE  OffersAreOwn'
<1> SUFFICES ASSUME open, NEW i \in Axes, restorable'[i] # 0
             PROVE  device.stamp # Unknown /\ origin[restorable'[i]] = device.stamp
  BY DEF OffersAreOwn
<1>1. serial # Unknown /\ snap.stamp # Unknown /\ origin[restorable'[i]] = serial
  BY CopiesAreOwn
<1>2. snap.read
  BY <1>1, Fields DEF SerialIsOwn
<1>3. Known /\ device = snap /\ snap.stamp \in {serial, at}
  BY <1>2 DEF SerialIsOwn, OnItsBoard
<1>4. serial = at
  BY <1>1, <1>3 DEF SerialIsOwn
<1> QED
  BY <1>1, <1>3, <1>4

(* A report keeps the offer of its own board, and makes none of another's.  *)
LEMMA ReportKeepsOffer ==
    ASSUME Types, Shape, OffersAreOwn, HeldIsOwn, CachedIsHeld, NEW keep, NEW its,
           Reported(Fresh, keep, its), its \in {KeptOffer(Fresh), Offerable(cached, Fresh)},
           UNCHANGED <<origin, open>>
    PROVE  OffersAreOwn'
<1>1. CASE view
  <2> SUFFICES ASSUME open, NEW i \in Axes, restorable'[i] # 0
               PROVE  device'.stamp # Unknown /\ origin[restorable'[i]] = device'.stamp
    BY DEF OffersAreOwn
  <2>1. restorable' = its /\ device' = Fresh /\ device'.stamp = serial
    BY <1>1, ReportResumes, Fields
  <2>2. CASE its = KeptOffer(Fresh)
    <3>1. device.stamp = serial /\ restorable'[i] = restorable[i]
      BY <2>1, <2>2, Fields DEF KeptOffer, Differs, Blank
    <3> QED
      BY <2>1, <3>1 DEF OffersAreOwn
  <2>3. CASE its = Offerable(cached, Fresh)
    <3>1. serial # Unknown /\ origin[Offerable(cached, Fresh)[i]] = serial
      BY <2>1, <2>3, CopiesAreOwn DEF CachedIsHeld
    <3> QED
      BY <2>1, <2>3, <3>1
  <2> QED
    BY <2>2, <2>3
<1>2. CASE ~view
  <2>1. ~open
    BY <1>2 DEF Shape, NeedsView
  <2> QED
    BY <2>1 DEF OffersAreOwn
<1> QED
  BY <1>1, <1>2

LEMMA OffersStep ==
    ASSUME Types, Shape, SerialIsOwn, OnItsBoard, SeenIsHeld, CachedIsHeld, Sourced, [Next]_vars
    PROVE  OffersAreOwn'
<1> USE DEF Sourced
<1>a. \A v \in Captured : origin'[v] = origin[v]
  BY NumberedStep
<1>b. \A b \in Boards, j \in Axes : cached[b][j] # 0 => cached[b][j] \in held[b][j]
  BY DEF CachedIsHeld
<1>1. CASE LinkUp
  <2>1. UNCHANGED <<restorable, open, device>>
    BY <1>1 DEF LinkUp, report
  <2> QED
    BY <1>a, <2>1, OffersLeft
<1>2. CASE SerialRead
  <2>1. UNCHANGED <<restorable, open, device>>
    BY <1>2 DEF SerialRead, report, dialog
  <2> QED
    BY <1>a, <2>1, OffersLeft
<1>3. CASE ConnectRead
  <2>1. UNCHANGED <<origin, open>> /\ (TakesReport \/ UNCHANGED <<restorable, device>>)
    BY <1>3 DEF ConnectRead, report, dialog, history
  <2>2. CASE TakesReport
    BY <2>1, <2>2, ReportKeepsOffer DEF TakesReport
  <2>3. CASE UNCHANGED <<restorable, device>>
    BY <1>a, <2>1, <2>3, OffersLeft
  <2> QED
    BY <2>1, <2>2, <2>3
<1>4. CASE Expire
  <2>1. UNCHANGED <<restorable, open, device>>
    BY <1>4 DEF Expire, report, dialog
  <2> QED
    BY <1>a, <2>1, OffersLeft
<1>5. CASE HoldFires
  <2>1. UNCHANGED <<restorable, open, device>>
    BY <1>5 DEF HoldFires, SaveKeeps, report, dialog
  <2> QED
    BY <1>a, <2>1, OffersLeft
<1>6. CASE OpenDialog
  <2>1. restorable' = Blank
    BY <1>6 DEF OpenDialog
  <2> QED
    BY <2>1, EmptyOffersNothing
<1>7. CASE Close
  <2>1. UNCHANGED <<restorable, open, device>>
    BY <1>7 DEF Close, report, dialog
  <2> QED
    BY <1>a, <2>1, OffersLeft
<1>8. CASE CloseLost
  <2>1. restorable' = Blank
    BY <1>8 DEF CloseLost, DialogGoes, EmptyState
  <2> QED
    BY <2>1, EmptyOffersNothing
<1>9. CASE CloseRead
  <2>1. UNCHANGED <<origin, open>> /\ (TakesReport \/ UNCHANGED <<restorable, device>>)
    BY <1>9 DEF CloseRead, Elsewhere, dialog, history
  <2>2. CASE TakesReport
    BY <2>1, <2>2, ReportKeepsOffer DEF TakesReport
  <2>3. CASE UNCHANGED <<restorable, device>>
    BY <1>a, <2>1, <2>3, OffersLeft
  <2> QED
    BY <2>1, <2>2, <2>3
<1>10. CASE Leave
  <2>1. restorable' = Blank
    BY <1>10 DEF Leave, EmptyState
  <2> QED
    BY <2>1, EmptyOffersNothing
<1>11. CASE Mount
  <2>1. ~open'
    BY <1>11 DEF Mount, Shape, NeedsView
  <2> QED
    BY <2>1 DEF OffersAreOwn
<1>12. CASE AsksReadBack
  <2>1. UNCHANGED <<restorable, open, device>>
    BY <1>12 DEF AsksReadBack, SaveKeeps, report, dialog
  <2> QED
    BY <1>a, <2>1, OffersLeft
<1>13. CASE Verified
  <2>1. /\ UNCHANGED <<origin, open, held>> /\ device' = IF snap.read THEN snap ELSE device
        /\ restorable' = restorable \/ restorable' = Offerable(cached', snap)
    BY <1>13 DEF Verified, SaveKeeps, dialog
  <2>2. open => device' = device
    BY <2>1 DEF OnItsBoard
  <2>3. CASE restorable' = restorable
    BY <1>a, <2>1, <2>2, <2>3, OffersLeft
  <2>4. CASE restorable' = Offerable(cached', snap)
    <3>1. \A b \in Boards, j \in Axes : cached'[b][j] # 0 => cached'[b][j] \in held[b][j]
      BY <2>1, CachedStep DEF CachedIsHeld
    <3> QED
      BY <2>1, <2>2, <2>4, <3>1, OffersOfSnap
  <2> QED
    BY <2>1, <2>3, <2>4
<1>14. CASE Mismatch
  <2>1. UNCHANGED <<restorable, open, device>>
    BY <1>14 DEF Mismatch, SaveKeeps, report, dialog
  <2> QED
    BY <1>a, <2>1, OffersLeft
<1>15. CASE FailWrite
  <2>1. UNCHANGED <<origin, open>>
    BY <1>15 DEF FailWrite, WriteEnded, SaveKeeps, dialog
  <2>2. CASE Reported(Fresh, AfterFailure(Fresh, Kept(Fresh)), Offerable(cached, Fresh))
    BY <2>1, <2>2, ReportKeepsOffer
  <2>3. CASE restorable' = Offerable(cached, snap) /\ UNCHANGED device
    BY <1>b, <2>1, <2>3, OffersOfSnap
  <2> QED
    BY <1>15, <2>2, <2>3 DEF FailWrite
<1>16. CASE LostTimesOut
  <2>1. UNCHANGED <<origin, open, device>>
    BY <1>16 DEF LostTimesOut, WriteEnded, SaveKeeps, dialog, report
  <2>2. restorable' = restorable \/ restorable' = Offerable(cached, snap)
    BY <1>16 DEF LostTimesOut, report
  <2>3. CASE restorable' = restorable
    BY <1>a, <2>1, <2>3, OffersLeft
  <2>4. CASE restorable' = Offerable(cached, snap)
    BY <1>b, <2>1, <2>4, OffersOfSnap
  <2> QED
    BY <2>2, <2>3, <2>4
<1>17. CASE Save \/ Restore
  <2>1. UNCHANGED <<restorable, open, device>>
    BY <1>17 DEF Save, Restore, Begins, dialog
  <2> QED
    BY <1>a, <2>1, OffersLeft
<1>18. CASE DeleteChecked
  <2>1. UNCHANGED <<origin, open>>
    BY <1>18 DEF DeleteChecked, DeleteKeeps, dialog
  <2>2. CASE Reported(Fresh, Without(Kept(Fresh), {erasing}), KeptOffer(Fresh))
    BY <2>1, <2>2, ReportKeepsOffer
  <2>3. CASE TakesReport
    BY <2>1, <2>3, ReportKeepsOffer DEF TakesReport
  <2>4. CASE UNCHANGED report
    BY <1>a, <2>1, <2>4, OffersLeft DEF report
  <2> QED
    BY <1>18, <2>2, <2>3, <2>4 DEF DeleteChecked
<1>19. CASE DeleteRefreshed
  <2>1. UNCHANGED <<origin, open>> /\ (TakesReport \/ UNCHANGED <<restorable, device>>)
    BY <1>19 DEF DeleteRefreshed, DeleteKeeps, report, dialog
  <2>2. CASE TakesReport
    BY <2>1, <2>2, ReportKeepsOffer DEF TakesReport
  <2>3. CASE UNCHANGED <<restorable, device>>
    BY <1>a, <2>1, <2>3, OffersLeft
  <2> QED
    BY <2>1, <2>2, <2>3
<1>20. CASE UNCHANGED vars
  <2>1. UNCHANGED <<restorable, open, device>>
    BY <1>20 DEF vars, report, dialog
  <2> QED
    BY <1>a, <2>1, OffersLeft
<1>21. ASSUME NEW ok \in BOOLEAN, OpenAnswered(ok) PROVE OffersAreOwn'
  <2>1. UNCHANGED <<origin, open, device>>
    BY <1>21 DEF OpenAnswered, Elsewhere, history
  <2>2. restorable' = restorable \/ restorable' = Offerable(cached, snap)
    BY <1>21 DEF OpenAnswered
  <2>3. CASE restorable' = restorable
    BY <1>a, <2>1, <2>3, OffersLeft
  <2>4. CASE restorable' = Offerable(cached, snap)
    BY <1>b, <2>1, <2>4, OffersOfSnap
  <2> QED
    BY <2>2, <2>3, <2>4
<1>22. ASSUME NEW ok \in BOOLEAN, ResumeAnswered(ok) PROVE OffersAreOwn'
  <2>1. UNCHANGED <<origin, open, device>>
    BY <1>22 DEF ResumeAnswered, Elsewhere, history
  <2>2. restorable' = restorable \/ restorable' = Offerable(cached, snap)
    BY <1>22 DEF ResumeAnswered
  <2>3. CASE restorable' = restorable
    BY <1>a, <2>1, <2>3, OffersLeft
  <2>4. CASE restorable' = Offerable(cached, snap)
    BY <1>b, <2>1, <2>4, OffersOfSnap
  <2> QED
    BY <2>2, <2>3, <2>4
<1>23. ASSUME NEW ok \in BOOLEAN, CloseAnswered(ok) PROVE OffersAreOwn'
  <2>1. restorable' = Blank
    BY <1>23 DEF CloseAnswered, DialogGoes, EmptyState
  <2> QED
    BY <2>1, EmptyOffersNothing
<1>24. ASSUME NEW ok \in BOOLEAN, CommitAnswered(ok) PROVE OffersAreOwn'
  <2>1. UNCHANGED <<restorable, open, device>>
    BY <1>24 DEF CommitAnswered, SaveKeeps, report, dialog
  <2> QED
    BY <1>a, <2>1, OffersLeft
<1>25. ASSUME NEW ok \in BOOLEAN, ReadBack(ok) PROVE OffersAreOwn'
  <2>1. UNCHANGED <<origin, open>> /\ (TakesReport \/ UNCHANGED <<restorable, device>>)
    BY <1>25 DEF ReadBack, SaveKeeps, report, dialog
  <2>2. CASE TakesReport
    BY <2>1, <2>2, ReportKeepsOffer DEF TakesReport
  <2>3. CASE UNCHANGED <<restorable, device>>
    BY <1>a, <2>1, <2>3, OffersLeft
  <2> QED
    BY <2>1, <2>2, <2>3
<1>26. ASSUME NEW ok \in BOOLEAN, ResetAnswered(ok) PROVE OffersAreOwn'
  <2>1. UNCHANGED <<restorable, open, device>>
    BY <1>26 DEF ResetAnswered, DeleteKeeps, report, dialog
  <2> QED
    BY <1>a, <2>1, OffersLeft
<1>27. ASSUME NEW i \in Axes, Capture(i) PROVE OffersAreOwn'
  <2>1. UNCHANGED <<restorable, open, device>>
    BY <1>27 DEF Capture, dialog
  <2> QED
    BY <1>a, <2>1, OffersLeft
<1>28. ASSUME NEW i \in Axes, DeleteAxis(i) PROVE OffersAreOwn'
  <2>1. UNCHANGED <<restorable, open, device>>
    BY <1>28 DEF DeleteAxis, DeleteKeeps, report, dialog
  <2> QED
    BY <1>a, <2>1, OffersLeft
<1>29. ASSUME NEW to \in Boards, NEW released \in BOOLEAN, Drop(to, released) PROVE OffersAreOwn'
  <2>1. CASE closing = "sent"
    BY <1>29, <2>1, EmptyOffersNothing DEF Drop
  <2>2. CASE closing # "sent"
    <3>1. UNCHANGED <<restorable, open, device>>
      BY <1>29, <2>2 DEF Drop
    <3> QED
      BY <1>a, <3>1, OffersLeft
  <2> QED
    BY <2>1, <2>2
<1> QED
  BY <1>1, <1>2, <1>3, <1>4, <1>5, <1>6, <1>7, <1>8, <1>9, <1>10, <1>11, <1>12, <1>13, <1>14, <1>15,
     <1>16, <1>17, <1>18, <1>19, <1>20, <1>21, <1>22, <1>23, <1>24, <1>25, <1>26, <1>27, <1>28,
     <1>29 DEF Next, Answered, Intents, LinkMoves

-----------------------------------------------------------------------------
(* What save() takes to write is a draft on screen, and is only written     *)
(* with the link up.                                                        *)
LEMMA CommitsDraft ==
    ASSUME NEW queue \in SUBSET Axes, queue # {}, Commits(queue, drafts')
    PROVE  cur' \in queue /\ cur' \in Axes /\ d' = drafts'[cur'] /\ (saving' = "commit" => link)
<1>1. Min(queue) \in queue
  BY AxesAssumption, MinIsIn
<1>2. cur' = Min(queue) /\ d' = drafts'[Min(queue)] /\ (saving' = "commit" => link)
  BY DEF Commits
<1> QED
  BY <1>1, <1>2

Takes ==
    \E queue \in SUBSET Axes :
      /\ queue # {} /\ Commits(queue, drafts')
      /\ UNCHANGED <<open, link, reading, serial, at>>
      /\ \/ saving = "seen" /\ device' = IF snap.read THEN snap ELSE device
         \/ Acts /\ ~paused /\ device' = device
Written ==
    \/ d' = 0
    \/ d' = d /\ (saving' = "commit" => saving = "commit" /\ at' = at)
    \/ Takes

LEMMA WrittenSteps ==
    ASSUME Types, [Next]_vars
    PROVE  Written
<1>1. CASE LinkUp
  BY <1>1 DEF Written, LinkUp, report, saveVars, deletes, boardVars, Elsewhere
<1>2. CASE SerialRead
  BY <1>2 DEF Written, SerialRead, report, dialog, saveVars, deletes, boardVars, Elsewhere
<1>3. CASE ConnectRead
  BY <1>3 DEF Written, ConnectRead, report, dialog, saveVars, deletes, boardVars, Elsewhere
<1>4. CASE Expire
  BY <1>4 DEF Written, Expire, report, dialog, saveVars, deletes, boardVars, Elsewhere
<1>5. CASE HoldFires
  BY <1>5 DEF Written, HoldFires, SaveKeeps, service, report, dialog, deletes, saveVars, boardVars,
     Elsewhere
<1>6. CASE OpenDialog
  BY <1>6 DEF Written, OpenDialog, service, deletes, saveVars, boardVars, Elsewhere
<1>7. CASE Close
  BY <1>7 DEF Written, Close, Acts, service, report, dialog, saveVars, deletes, boardVars, Elsewhere
<1>8. CASE CloseLost
  BY <1>8 DEF Written, CloseLost, DialogGoes, deletes, saveVars, boardVars, Elsewhere
<1>9. CASE CloseRead
  BY <1>9 DEF Written, CloseRead, service, dialog, saveVars, deletes, boardVars, Elsewhere
<1>10. CASE Leave
  BY <1>10 DEF Written, Leave, EmptyState, service, saveVars, boardVars, Elsewhere
<1>11. CASE Mount
  BY <1>11 DEF Written, Mount, service, saveVars, deletes, boardVars, Elsewhere
<1>12. CASE AsksReadBack
  BY <1>12 DEF Written, AsksReadBack, SaveKeeps, service, report, dialog, deletes, saveVars,
     boardVars, Elsewhere
<1>13. CASE Verified
  <2>1. CASE todo = {}
    BY <1>13, <2>1 DEF Verified, Written
  <2>2. CASE todo # {}
    <3>1. drafts' = Without(drafts, {cur}) /\ Commits(todo, drafts') /\ todo \in SUBSET Axes
      BY <1>13, <2>2 DEF Verified, Types, SaveTypes
    <3>2. /\ UNCHANGED <<open, link, reading, serial, at>>
          /\ saving = "seen" /\ device' = IF snap.read THEN snap ELSE device
      BY <1>13 DEF Verified, SaveKeeps, service, dialog
    <3> QED
      BY <2>2, <3>1, <3>2 DEF Written, Takes
  <2> QED
    BY <2>1, <2>2
<1>14. CASE Mismatch
  BY <1>14 DEF Written, Mismatch, SaveKeeps, service, report, dialog, deletes, saveVars, boardVars,
     Elsewhere
<1>15. CASE FailWrite
  BY <1>15 DEF Written, FailWrite, WriteEnded, SaveKeeps, service, dialog, deletes, saveVars,
     boardVars, Elsewhere
<1>16. CASE LostTimesOut
  BY <1>16 DEF Written, LostTimesOut, WriteEnded, SaveKeeps, service, report, dialog, deletes,
     saveVars, boardVars, Elsewhere
<1>17. CASE Save \/ Restore
  <2>1. PICK ds : Begins(ds)
    BY <1>17 DEF Save, Restore
  <2>2. /\ Dirty(ds) \in SUBSET Axes /\ Dirty(ds) # {} /\ drafts' = ds /\ Commits(Dirty(ds), drafts')
        /\ UNCHANGED <<open, link, reading, serial, at, device>> /\ Acts /\ ~paused
    BY <2>1 DEF Begins, Dirty, MaySave, Elsewhere, service, dialog, boardVars
  <2> QED
    BY <2>2 DEF Written, Takes
<1>18. CASE DeleteChecked
  BY <1>18 DEF Written, DeleteChecked, DeleteEnds, DeleteKeeps, service, report, dialog, saveVars,
     boardVars, Elsewhere
<1>19. CASE DeleteRefreshed
  BY <1>19 DEF Written, DeleteRefreshed, DeleteEnds, DeleteKeeps, service, report, dialog, saveVars,
     boardVars, Elsewhere
<1>20. CASE UNCHANGED vars
  BY <1>20 DEF Written, vars, service, report, dialog, saveVars, deletes, boardVars, Elsewhere
<1>21. ASSUME NEW ok \in BOOLEAN, OpenAnswered(ok) PROVE Written
  BY <1>21 DEF Written, OpenAnswered, Answers, saveVars, deletes, boardVars, Elsewhere
<1>22. ASSUME NEW ok \in BOOLEAN, ResumeAnswered(ok) PROVE Written
  BY <1>22 DEF Written, ResumeAnswered, Answers, saveVars, deletes, boardVars, Elsewhere
<1>23. ASSUME NEW ok \in BOOLEAN, CloseAnswered(ok) PROVE Written
  BY <1>23 DEF Written, CloseAnswered, Answers, DialogGoes, deletes, saveVars, boardVars, Elsewhere
<1>24. ASSUME NEW ok \in BOOLEAN, CommitAnswered(ok) PROVE Written
  BY <1>24 DEF Written, CommitAnswered, SaveKeeps, service, report, dialog, deletes, saveVars,
     boardVars, Elsewhere
<1>25. ASSUME NEW ok \in BOOLEAN, ReadBack(ok) PROVE Written
  BY <1>25 DEF Written, ReadBack, Answers, SaveKeeps, service, report, dialog, deletes, saveVars,
     boardVars, Elsewhere
<1>26. ASSUME NEW ok \in BOOLEAN, ResetAnswered(ok) PROVE Written
  BY <1>26 DEF Written, ResetAnswered, Answers, DeleteKeeps, service, report, dialog, saveVars,
     boardVars, Elsewhere
<1>27. ASSUME NEW i \in Axes, Capture(i) PROVE Written
  BY <1>27 DEF Written, Capture, Acts, service, dialog, saveVars, deletes, boardVars, Elsewhere
<1>28. ASSUME NEW i \in Axes, DeleteAxis(i) PROVE Written
  BY <1>28 DEF Written, DeleteAxis, Acts, DeleteKeeps, service, report, dialog, saveVars, boardVars,
     Elsewhere
<1>29. ASSUME NEW to \in Boards, NEW released \in BOOLEAN, Drop(to, released) PROVE Written
  BY <1>29 DEF Written, Drop, saveVars, boardVars, Elsewhere
<1> QED
  BY <1>1, <1>2, <1>3, <1>4, <1>5, <1>6, <1>7, <1>8, <1>9, <1>10, <1>11, <1>12, <1>13, <1>14, <1>15,
     <1>16, <1>17, <1>18, <1>19, <1>20, <1>21, <1>22, <1>23, <1>24, <1>25, <1>26, <1>27, <1>28,
     <1>29 DEF Next, Answered, Intents, LinkMoves

LEMMA WrittenStep ==
    ASSUME ReportsNamed', ~NamelessTwice, Types, Shape, SerialIsOwn, OnItsBoard, SeenIsHeld, SeenIsReported,
           Sourced, [Next]_vars
    PROVE  WrittenIsOwn'
<1>1. DraftsAreOwn'
  BY DraftsStep
<1>2. CASE d' = 0
  BY <1>2 DEF WrittenIsOwn
<1>3. CASE d' = d /\ (saving' = "commit" => saving = "commit" /\ at' = at)
  BY <1>3, NumberedStep DEF Sourced, WrittenIsOwn
<1>4. CASE Takes
  <2>1. PICK queue \in SUBSET Axes :
          /\ queue # {} /\ Commits(queue, drafts')
          /\ UNCHANGED <<open, link, reading, serial, at>>
          /\ \/ saving = "seen" /\ device' = IF snap.read THEN snap ELSE device
             \/ Acts /\ ~paused /\ device' = device
    BY <1>4 DEF Takes
  <2>2. cur' \in Axes /\ d' = drafts'[cur'] /\ (saving' = "commit" => link)
    BY <2>1, CommitsDraft
  <2>3. d' # 0 => /\ open' /\ d' \in Captured'
                  /\ device'.stamp # Unknown => origin'[d'] = device'.stamp
                  /\ Known' /\ device'.stamp = serial' => origin'[d'] = at'
    BY <1>1, <2>2 DEF DraftsAreOwn
  <2>4. ASSUME link PROVE Known' /\ device'.stamp \in {serial', at'}
    <3>1. CASE saving = "seen" /\ device' = IF snap.read THEN snap ELSE device
      <4>1. (reading = "serial" => serial = at) /\ snap.read
        BY <2>4, <3>1 DEF SeenIsHeld, SeenIsReported
      <4>2. snap.stamp \in {serial, at}
        BY <4>1 DEF SerialIsOwn
      <4> QED
        BY <2>1, <2>4, <3>1, <4>1, <4>2 DEF Known
    <3>2. CASE Acts /\ ~paused /\ device' = device
      BY <2>1, <3>2, BoardIsKnown DEF Known
    <3> QED
      BY <2>1, <3>1, <3>2
  <2>5. at' # Unknown
    BY <2>1, UnknownAssumption DEF Types, BoardTypes
  <2>6. ASSUME link, d' # 0 PROVE origin'[d'] = at'
    <3>1. CASE device'.stamp = at'
      BY <2>3, <2>5, <2>6, <3>1
    <3>2. CASE device'.stamp = serial'
      BY <2>3, <2>4, <2>6, <3>2
    <3> QED
      BY <2>4, <2>6, <3>1, <3>2
  <2> QED
    BY <2>2, <2>3, <2>6 DEF WrittenIsOwn
<1> QED
  BY <1>2, <1>3, <1>4, WrittenSteps DEF Written

(* A read-back is a report too.                                             *)
LEMMA SeenReportedStep ==
    ASSUME Types, SeenIsReported, [Next]_vars
    PROVE  SeenIsReported'
<1>1. CASE LinkUp
  BY <1>1 DEF LinkUp, report, saveVars, deletes, SeenIsReported
<1>2. CASE SerialRead
  BY <1>2 DEF SerialRead, report, dialog, saveVars, deletes, SeenIsReported
<1>3. CASE ConnectRead
  BY <1>3, TakesResumes, Fields DEF ConnectRead, report, dialog, saveVars, deletes, SeenIsReported
<1>4. CASE Expire
  BY <1>4 DEF Expire, report, dialog, saveVars, deletes, SeenIsReported
<1>5. CASE HoldFires
  BY <1>5 DEF HoldFires, SaveKeeps, service, report, dialog, deletes, SeenIsReported
<1>6. CASE OpenDialog
  BY <1>6 DEF OpenDialog, service, deletes, SeenIsReported
<1>7. CASE Close
  BY <1>7 DEF Close, Acts, service, report, dialog, saveVars, deletes, SeenIsReported
<1>8. CASE CloseLost
  BY <1>8 DEF CloseLost, DialogGoes, deletes, SeenIsReported
<1>9. CASE CloseRead
  BY <1>9, TakesResumes, Fields DEF CloseRead, service, dialog, saveVars, deletes, SeenIsReported
<1>10. CASE Leave
  BY <1>10 DEF Leave, EmptyState, service, SeenIsReported
<1>11. CASE Mount
  BY <1>11 DEF Mount, service, saveVars, deletes, SeenIsReported
<1>12. CASE AsksReadBack
  BY <1>12 DEF AsksReadBack, SaveKeeps, service, report, dialog, deletes, SeenIsReported
<1>13. CASE Verified
  BY <1>13 DEF Verified, SaveKeeps, Commits, service, dialog, deletes, SeenIsReported
<1>14. CASE Mismatch
  BY <1>14 DEF Mismatch, SaveKeeps, service, report, dialog, deletes, SeenIsReported
<1>15. CASE FailWrite
  BY <1>15 DEF FailWrite, WriteEnded, SaveKeeps, service, dialog, deletes, SeenIsReported
<1>16. CASE LostTimesOut
  BY <1>16 DEF LostTimesOut, WriteEnded, SaveKeeps, service, report, dialog, deletes, SeenIsReported
<1>17. CASE Save \/ Restore
  BY <1>17 DEF Save, Restore, Begins, MaySave, Acts, Commits, service, dialog, deletes,
     SeenIsReported
<1>18. CASE DeleteChecked
  BY <1>18, ReportResumes, TakesResumes, Fields DEF DeleteChecked, DeleteEnds, DeleteKeeps, service,
     report, dialog, saveVars, SeenIsReported
<1>19. CASE DeleteRefreshed
  BY <1>19, TakesResumes, Fields DEF DeleteRefreshed, DeleteEnds, DeleteKeeps, service, report,
     dialog, saveVars, SeenIsReported
<1>20. CASE UNCHANGED vars
  BY <1>20 DEF vars, service, report, dialog, saveVars, deletes, SeenIsReported
<1>21. ASSUME NEW ok \in BOOLEAN, OpenAnswered(ok) PROVE SeenIsReported'
  BY <1>21 DEF OpenAnswered, Answers, saveVars, deletes, SeenIsReported
<1>22. ASSUME NEW ok \in BOOLEAN, ResumeAnswered(ok) PROVE SeenIsReported'
  BY <1>22 DEF ResumeAnswered, Answers, saveVars, deletes, SeenIsReported
<1>23. ASSUME NEW ok \in BOOLEAN, CloseAnswered(ok) PROVE SeenIsReported'
  BY <1>23 DEF CloseAnswered, Answers, DialogGoes, deletes, SeenIsReported
<1>24. ASSUME NEW ok \in BOOLEAN, CommitAnswered(ok) PROVE SeenIsReported'
  BY <1>24 DEF CommitAnswered, SaveKeeps, service, report, dialog, deletes, SeenIsReported
<1>25. ASSUME NEW ok \in BOOLEAN, ReadBack(ok) PROVE SeenIsReported'
  BY <1>25, TakesResumes, Fields DEF ReadBack, Answers, SaveKeeps, service, report, dialog, deletes,
     SeenIsReported
<1>26. ASSUME NEW ok \in BOOLEAN, ResetAnswered(ok) PROVE SeenIsReported'
  BY <1>26 DEF ResetAnswered, Answers, DeleteKeeps, service, report, dialog, saveVars,
     SeenIsReported
<1>27. ASSUME NEW i \in Axes, Capture(i) PROVE SeenIsReported'
  BY <1>27 DEF Capture, Acts, service, dialog, saveVars, deletes, SeenIsReported
<1>28. ASSUME NEW i \in Axes, DeleteAxis(i) PROVE SeenIsReported'
  BY <1>28 DEF DeleteAxis, Acts, DeleteKeeps, service, report, dialog, saveVars, SeenIsReported
<1>29. ASSUME NEW to \in Boards, NEW released \in BOOLEAN, Drop(to, released) PROVE SeenIsReported'
  BY <1>29 DEF Drop, SeenIsReported
<1> QED
  BY <1>1, <1>2, <1>3, <1>4, <1>5, <1>6, <1>7, <1>8, <1>9, <1>10, <1>11, <1>12, <1>13, <1>14, <1>15,
     <1>16, <1>17, <1>18, <1>19, <1>20, <1>21, <1>22, <1>23, <1>24, <1>25, <1>26, <1>27, <1>28,
     <1>29 DEF Next, Answered, Intents, LinkMoves

LEMMA SourcedAlways ==
    ASSUME ~NamelessTwice PROVE Spec /\ []ReportsNamed => []Sourced
<1>1. Init => Sourced /\ SeenIsReported
  <2> SUFFICES ASSUME Init PROVE Sourced /\ SeenIsReported
    OBVIOUS
  <2>1. Captured = {}
    BY DEF Init, Captured
  <2>2. 0 \in 0..MaxCaptures /\ 1..0 = {}
    BY BoundedCounts
  <2>3. Numbered
    BY <2>1, <2>2 DEF Numbered
  <2>4. HeldIsOwn /\ StoredIsHeld /\ DraftsAreOwn /\ OffersAreOwn /\ WrittenIsOwn /\ SeenIsReported
    BY DEF Init, HeldIsOwn, StoredIsHeld, DraftsAreOwn, OffersAreOwn, WrittenIsOwn, SeenIsReported,
       Blank
  <2> QED
    BY <2>3, <2>4 DEF Sourced
<1>2. /\ Types /\ Shape /\ SerialIsOwn /\ OnItsBoard /\ SeenIsHeld /\ CachedIsHeld
      /\ SeenIsReported /\ Sourced /\ ReportsNamed' /\ [Next]_vars
      => Sourced' /\ SeenIsReported'
  <2> SUFFICES ASSUME Types, Shape, SerialIsOwn, OnItsBoard, SeenIsHeld, CachedIsHeld, SeenIsReported, Sourced,
                      ReportsNamed', [Next]_vars
               PROVE  Sourced' /\ SeenIsReported'
    OBVIOUS
  <2>1. Numbered' /\ HeldIsOwn'
    BY NumberedStep, HeldStep DEF Sourced
  <2>2. StoredIsHeld'
    BY StoredStep DEF Sourced
  <2>3. DraftsAreOwn' /\ OffersAreOwn' /\ WrittenIsOwn' /\ SeenIsReported'
    BY DraftsStep, OffersStep, WrittenStep, SeenReportedStep
  <2> QED
    BY <2>1, <2>2, <2>3 DEF Sourced
<1> QED
  BY <1>1, <1>2, TypesAlways, ShapeAlways, ConnectedAlways, CachedAlways, PTL DEF Spec

(* As long as no report is stamped with another board's serial, and two     *)
(* boards in a row are not both without one, no board is ever made to hold  *)
(* an endpoint measured on another: whatever was captured, restored from    *)
(* the copies, swapped in the middle of a write or an erase, and retried,   *)
(* and whatever people do meanwhile.  The stamps are an assumption: the     *)
(* code answers for them only in a link whose serial is read first.         *)
THEOREM BoardsHoldTheirOwn ==
    ASSUME ~NamelessTwice PROVE Spec /\ []ReportsNamed => []NoForeignWrite
<1>1. Sourced => NoForeignWrite
  BY DEF Sourced, HeldIsOwn, StoredIsHeld, NoForeignWrite
<1> QED
  BY <1>1, SourcedAlways, PTL

-----------------------------------------------------------------------------
(* Where the stamps may be relied on. *)

(* A step that is not the link's takes the report as it was, or an answer's.*)
Replies ==
    /\ UNCHANGED <<at, link, serial, reading>>
    /\ snap' = snap \/ (Answers /\ snap' = Fresh)

LEMMA LinkSteps ==
    ASSUME [Next]_vars
    PROVE  \/ LinkUp \/ SerialRead \/ ConnectRead \/ Replies
           \/ \E to \in Boards, released \in BOOLEAN : Drop(to, released)
<1>1. CASE Answered
  <2>1. CASE CloseLost \/ AsksReadBack \/ Verified \/ Mismatch \/ LostTimesOut
    BY <2>1 DEF CloseLost, AsksReadBack, Verified, Mismatch, LostTimesOut, WriteEnded, DialogGoes,
       SaveKeeps, service, report, Elsewhere, boardVars, Replies
  <2>2. CASE CloseRead
    BY <2>2 DEF CloseRead, TakesReport, Reported, service, Elsewhere, boardVars, Replies
  <2>3. CASE FailWrite
    BY <2>3 DEF FailWrite, Reported, WriteEnded, SaveKeeps, service, Replies
  <2>4. CASE DeleteChecked
    BY <2>4 DEF DeleteChecked, TakesReport, Reported, DeleteKeeps, service, report, Replies
  <2>5. CASE DeleteRefreshed
    BY <2>5 DEF DeleteRefreshed, TakesReport, Reported, DeleteKeeps, service, report, Replies
  <2>6. ASSUME NEW ok \in BOOLEAN, OpenAnswered(ok) \/ ResumeAnswered(ok) \/ CloseAnswered(ok)
        PROVE  Replies
    BY <2>6 DEF OpenAnswered, ResumeAnswered, CloseAnswered, DialogGoes, Elsewhere, boardVars, Replies
  <2>7. ASSUME NEW ok \in BOOLEAN, CommitAnswered(ok) \/ ResetAnswered(ok)
        PROVE  Replies
    BY <2>7 DEF CommitAnswered, ResetAnswered, SaveKeeps, DeleteKeeps, service, report, Replies
  <2>8. ASSUME NEW ok \in BOOLEAN, ReadBack(ok)
        PROVE  Replies
    BY <2>8 DEF ReadBack, TakesReport, Reported, SaveKeeps, service, report, Replies
  <2> QED
    BY <1>1, <2>1, <2>2, <2>3, <2>4, <2>5, <2>6, <2>7, <2>8 DEF Answered
<1>2. CASE Intents
  <2>1. CASE OpenDialog \/ Close \/ Mount
    BY <2>1 DEF OpenDialog, Close, Mount, service, report, Elsewhere, boardVars, Replies
  <2>2. CASE Leave
    BY <2>2 DEF Leave, Replies
  <2>3. CASE Save \/ Restore
    BY <2>3 DEF Save, Restore, Begins, service, Elsewhere, boardVars, Replies
  <2>4. ASSUME NEW i \in Axes, Capture(i) \/ DeleteAxis(i) PROVE Replies
    BY <2>4 DEF Capture, DeleteAxis, DeleteKeeps, service, report, boardVars, Replies
  <2> QED
    BY <1>2, <2>1, <2>2, <2>3, <2>4 DEF Intents
<1>3. CASE Expire \/ HoldFires \/ UNCHANGED vars
  BY <1>3 DEF Expire, HoldFires, SaveKeeps, vars, service, report, boardVars, Replies
<1> QED
  BY <1>1, <1>2, <1>3 DEF Next, LinkMoves

(* A report waits for the serial.                                           *)
StampsWait ==
    /\ link /\ reading # "serial" => serial \in {at, Unknown}
    /\ IF snap.read THEN link /\ reading # "serial" /\ snap.stamp \in {at, Unknown}
                    ELSE snap = NoSnap

(* Where a connect reads the serial before any exchange is answered, no     *)
(* report is stamped with another board's: what BoardsHoldTheirOwn and      *)
(* CacheIsHonest assume holds there.                                        *)
THEOREM SerialFirstNames ==
    ASSUME SerialFirst PROVE Spec => []ReportsNamed
<1>1. Init => StampsWait
  BY Fields DEF Init, StampsWait
<1>2. StampsWait /\ [Next]_vars => StampsWait'
  <2> SUFFICES ASSUME StampsWait, [Next]_vars PROVE StampsWait'
    OBVIOUS
  <2>1. CASE LinkUp
    BY <2>1 DEF LinkUp, boardVars, report, StampsWait
  <2>2. CASE SerialRead
    BY <2>2 DEF SerialRead, boardVars, report, StampsWait
  <2>3. CASE ConnectRead
    <3>1. /\ UNCHANGED <<at, link, serial>> /\ link /\ reading = "cal" /\ reading' = "no"
          /\ snap' = snap \/ snap' = Fresh
      BY <2>3 DEF ConnectRead, TakesReport, Reported, report, boardVars
    <3> QED
      BY <3>1, Fields DEF StampsWait
  <2>4. CASE Replies
    <3>1. snap' = snap \/ (link /\ reading # "serial" /\ snap' = Fresh)
      BY <2>4 DEF Replies, Answers
    <3> QED
      BY <2>4, <3>1, Fields DEF Replies, StampsWait
  <2>5. ASSUME NEW to \in Boards, NEW released \in BOOLEAN, Drop(to, released)
        PROVE  StampsWait'
    BY <2>5, Fields DEF Drop, StampsWait
  <2> QED
    BY <2>1, <2>2, <2>3, <2>4, <2>5, LinkSteps
<1>3. StampsWait => ReportsNamed
  BY DEF StampsWait, ReportsNamed
<1> QED
  BY <1>1, <1>2, <1>3, PTL DEF Spec

-----------------------------------------------------------------------------
(***************************************************************************)
(* What becomes of a capture.                                              *)
(***************************************************************************)
LEMMA NumberedAlways == Spec => []Numbered
<1>1. Init => Numbered
  <2> SUFFICES ASSUME Init PROVE Numbered
    OBVIOUS
  <2>1. Captured = {}
    BY DEF Init, Captured
  <2>2. 0 \in 0..MaxCaptures /\ 1..0 = {}
    BY BoundedCounts
  <2> QED
    BY <2>1, <2>2 DEF Numbered
<1>2. Types /\ Numbered /\ [Next]_vars => Numbered'
  BY NumberedStep
<1> QED
  BY <1>1, <1>2, TypesAlways, PTL DEF Spec

(* The last report, and the dialog's, are a read of this link or none.      *)
ReportsAreRead == snap' \in {snap, Fresh, NoSnap} /\ device' \in {device, snap, Fresh, NoSnap}

LEMMA ReportReads ==
    ASSUME NEW keep, NEW its, Reported(Fresh, keep, its)
    PROVE  ReportsAreRead
  BY ReportResumes DEF ReportsAreRead

LEMMA ReportSteps == ASSUME [Next]_vars PROVE ReportsAreRead
<1>1. CASE LinkUp
  BY <1>1 DEF LinkUp, report, saveVars, deletes, ReportsAreRead
<1>2. CASE SerialRead
  BY <1>2 DEF SerialRead, report, dialog, saveVars, deletes, ReportsAreRead
<1>3. CASE ConnectRead
  BY <1>3, ReportReads DEF ConnectRead, report, dialog, saveVars, deletes, TakesReport,
     ReportsAreRead
<1>4. CASE Expire
  BY <1>4 DEF Expire, report, dialog, saveVars, deletes, ReportsAreRead
<1>5. CASE HoldFires
  BY <1>5 DEF HoldFires, SaveKeeps, service, report, dialog, deletes, ReportsAreRead
<1>6. CASE OpenDialog
  BY <1>6 DEF OpenDialog, service, deletes, ReportsAreRead
<1>7. CASE Close
  BY <1>7 DEF Close, Acts, service, report, dialog, saveVars, deletes, ReportsAreRead
<1>8. CASE CloseLost
  BY <1>8 DEF CloseLost, DialogGoes, EmptyState, deletes, ReportsAreRead
<1>9. CASE CloseRead
  BY <1>9, ReportReads DEF CloseRead, service, dialog, saveVars, deletes, TakesReport,
     ReportsAreRead
<1>10. CASE Leave
  BY <1>10 DEF Leave, EmptyState, service, ReportsAreRead
<1>11. CASE Mount
  BY <1>11 DEF Mount, service, saveVars, deletes, ReportsAreRead
<1>12. CASE AsksReadBack
  BY <1>12 DEF AsksReadBack, SaveKeeps, service, report, dialog, deletes, ReportsAreRead
<1>13. CASE Verified
  BY <1>13 DEF Verified, SaveKeeps, Commits, service, dialog, deletes, ReportsAreRead
<1>14. CASE Mismatch
  BY <1>14 DEF Mismatch, SaveKeeps, service, report, dialog, deletes, ReportsAreRead
<1>15. CASE FailWrite
  BY <1>15, ReportReads DEF FailWrite, WriteEnded, SaveKeeps, service, dialog, deletes, TakesReport,
     ReportsAreRead
<1>16. CASE LostTimesOut
  BY <1>16 DEF LostTimesOut, WriteEnded, SaveKeeps, service, report, dialog, deletes, ReportsAreRead
<1>17. CASE Save \/ Restore
  BY <1>17 DEF Save, Restore, Begins, MaySave, Acts, Commits, service, dialog, deletes,
     ReportsAreRead
<1>18. CASE DeleteChecked
  BY <1>18, ReportReads DEF DeleteChecked, DeleteEnds, DeleteKeeps, service, report, dialog,
     saveVars, TakesReport, ReportsAreRead
<1>19. CASE DeleteRefreshed
  BY <1>19, ReportReads DEF DeleteRefreshed, DeleteEnds, DeleteKeeps, service, report, dialog,
     saveVars, TakesReport, ReportsAreRead
<1>20. CASE UNCHANGED vars
  BY <1>20 DEF vars, service, report, dialog, saveVars, deletes, ReportsAreRead
<1>21. ASSUME NEW ok \in BOOLEAN, OpenAnswered(ok) PROVE ReportsAreRead
  BY <1>21 DEF OpenAnswered, Answers, saveVars, deletes, ReportsAreRead
<1>22. ASSUME NEW ok \in BOOLEAN, ResumeAnswered(ok) PROVE ReportsAreRead
  BY <1>22 DEF ResumeAnswered, Answers, saveVars, deletes, ReportsAreRead
<1>23. ASSUME NEW ok \in BOOLEAN, CloseAnswered(ok) PROVE ReportsAreRead
  BY <1>23 DEF CloseAnswered, Answers, DialogGoes, EmptyState, deletes, ReportsAreRead
<1>24. ASSUME NEW ok \in BOOLEAN, CommitAnswered(ok) PROVE ReportsAreRead
  BY <1>24 DEF CommitAnswered, SaveKeeps, service, report, dialog, deletes, ReportsAreRead
<1>25. ASSUME NEW ok \in BOOLEAN, ReadBack(ok) PROVE ReportsAreRead
  BY <1>25, ReportReads DEF ReadBack, Answers, SaveKeeps, service, report, dialog, deletes,
     TakesReport, ReportsAreRead
<1>26. ASSUME NEW ok \in BOOLEAN, ResetAnswered(ok) PROVE ReportsAreRead
  BY <1>26 DEF ResetAnswered, Answers, DeleteKeeps, service, report, dialog, saveVars,
     ReportsAreRead
<1>27. ASSUME NEW i \in Axes, Capture(i) PROVE ReportsAreRead
  BY <1>27 DEF Capture, Acts, service, dialog, saveVars, deletes, ReportsAreRead
<1>28. ASSUME NEW i \in Axes, DeleteAxis(i) PROVE ReportsAreRead
  BY <1>28 DEF DeleteAxis, Acts, DeleteKeeps, service, report, dialog, saveVars, ReportsAreRead
<1>29. ASSUME NEW to \in Boards, NEW released \in BOOLEAN, Drop(to, released) PROVE ReportsAreRead
  BY <1>29 DEF Drop, ReportsAreRead
<1> QED
  BY <1>1, <1>2, <1>3, <1>4, <1>5, <1>6, <1>7, <1>8, <1>9, <1>10, <1>11, <1>12, <1>13, <1>14, <1>15,
     <1>16, <1>17, <1>18, <1>19, <1>20, <1>21, <1>22, <1>23, <1>24, <1>25, <1>26, <1>27, <1>28,
     <1>29 DEF Next, Answered, Intents, LinkMoves

LEMMA ReportedStep ==
    ASSUME Types, StoredIsHeld, ReportedIsHeld, [Next]_vars
    PROVE  ReportedIsHeld'
<1> SUFFICES ASSUME NEW i \in Axes
             PROVE  /\ snap'.cal[i] # 0 => \E b \in Boards : snap'.cal[i] \in held'[b][i]
                    /\ device'.cal[i] # 0 => \E b \in Boards : device'.cal[i] \in held'[b][i]
  BY DEF ReportedIsHeld, SomeHeld
<1> DEFINE Held(v) == v # 0 => \E b \in Boards : v \in held'[b][i]
<1>1. ASSUME NEW v, SomeHeld(i, v) PROVE Held(v)
  BY <1>1, HeldGrows DEF SomeHeld
<1>2. Held(snap.cal[i]) /\ Held(device.cal[i])
  BY <1>1 DEF ReportedIsHeld
<1>3. Held(Fresh.cal[i])
  <2>1. Fresh.cal[i] = stored[at][i] /\ at \in Boards
    BY Fields DEF Types, BoardTypes
  <2>2. stored[at][i] # 0 => SomeHeld(i, stored[at][i])
    BY <2>1 DEF StoredIsHeld, SomeHeld
  <2> QED
    BY <1>1, <2>1, <2>2
<1>4. Held(NoSnap.cal[i])
  BY Fields DEF Blank
<1>5. Held(snap'.cal[i]) /\ Held(device'.cal[i])
  <2> HIDE DEF Held
  <2>1. snap'.cal[i] \in {snap.cal[i], Fresh.cal[i], NoSnap.cal[i]}
    BY ReportSteps DEF ReportsAreRead
  <2>2. device'.cal[i] \in {device.cal[i], snap.cal[i], Fresh.cal[i], NoSnap.cal[i]}
    BY ReportSteps DEF ReportsAreRead
  <2>3. CASE snap'.cal[i] = snap.cal[i]
    BY <1>2, <1>3, <1>4, <2>2, <2>3
  <2>4. CASE snap'.cal[i] # snap.cal[i]
    BY <1>2, <1>3, <1>4, <2>1, <2>2, <2>4
  <2> QED
    BY <2>3, <2>4
<1> QED
  BY <1>5

LEMMA ReadBackStep ==
    ASSUME Types, StoredIsHeld, ReadBackIsHeld, [Next]_vars
    PROVE  ReadBackIsHeld'
<1> SUFFICES ASSUME saving' = "seen", got' # 0
             PROVE  \E b \in Boards : got' \in held'[b][cur']
  BY DEF ReadBackIsHeld, SomeHeld
<1>1. CASE saving = "seen" /\ UNCHANGED <<cur, got, d>>
  <2>1. PICK b \in Boards : got \in held[b][cur]
    BY <1>1 DEF ReadBackIsHeld, SomeHeld
  <2>2. cur \in Axes
    BY <1>1 DEF Types, SaveTypes
  <2> QED
    BY <1>1, <2>1, <2>2, HeldGrows
<1>2. CASE ReadBack(TRUE)
  <2>1. got' = stored[at][cur] /\ cur' = cur /\ cur \in Axes /\ held' = held /\ at \in Boards
    BY <1>2 DEF ReadBack, Types, SaveTypes, BoardTypes
  <2> QED
    BY <2>1 DEF StoredIsHeld
<1> QED
  BY <1>1, <1>2, SeenSteps

-----------------------------------------------------------------------------
(* A step leaves a draft, drops it, captures one, or begins to write.       *)
DraftsMove ==
    \/ \A i \in Axes : drafts'[i] \in {0, drafts[i]}
    \/ \E i \in Axes : Capture(i)
    \/ \E ds \in Contents : Begins(ds)

LEMMA KeptLeaves ==
    ASSUME NEW s, NEW i \in Axes
    PROVE  Kept(s)[i] \in {0, drafts[i]}
  BY DEF Kept, Blank

LEMMA ReportLeaves ==
    ASSUME NEW keep, NEW its, Reported(Fresh, keep, its), \A i \in Axes : keep[i] \in {0, Kept(Fresh)[i]}
    PROVE  DraftsMove
<1>1. \A i \in Axes : keep[i] \in {0, drafts[i]}
  BY KeptLeaves
<1>2. drafts' = keep \/ drafts' = drafts
  BY ReportResumes
<1> QED
  BY <1>1, <1>2 DEF DraftsMove

LEMMA TakenLeaves == ASSUME TakesReport PROVE DraftsMove
  BY ReportLeaves DEF TakesReport

LEMMA MovesSteps == ASSUME Types, [Next]_vars PROVE DraftsMove
<1>1. CASE LinkUp
  BY <1>1 DEF LinkUp, report, saveVars, deletes, Blank, DraftsMove
<1>2. CASE SerialRead
  BY <1>2 DEF SerialRead, report, dialog, saveVars, deletes, Blank, DraftsMove
<1>3. CASE ConnectRead
  BY <1>3, TakenLeaves DEF ConnectRead, report, dialog, saveVars, deletes, Blank, DraftsMove
<1>4. CASE Expire
  BY <1>4 DEF Expire, report, dialog, saveVars, deletes, Blank, DraftsMove
<1>5. CASE HoldFires
  BY <1>5 DEF HoldFires, SaveKeeps, service, report, dialog, deletes, Blank, DraftsMove
<1>6. CASE OpenDialog
  BY <1>6 DEF OpenDialog, service, deletes, Blank, DraftsMove
<1>7. CASE Close
  BY <1>7 DEF Close, Acts, service, report, dialog, saveVars, deletes, Blank, DraftsMove
<1>8. CASE CloseLost
  BY <1>8 DEF CloseLost, DialogGoes, EmptyState, deletes, Blank, DraftsMove
<1>9. CASE CloseRead
  BY <1>9, TakenLeaves DEF CloseRead, service, dialog, saveVars, deletes, Blank, DraftsMove
<1>10. CASE Leave
  BY <1>10 DEF Leave, EmptyState, service, Blank, DraftsMove
<1>11. CASE Mount
  BY <1>11 DEF Mount, service, saveVars, deletes, Blank, DraftsMove
<1>12. CASE AsksReadBack
  BY <1>12 DEF AsksReadBack, SaveKeeps, service, report, dialog, deletes, Blank, DraftsMove
<1>13. CASE Verified
  <2>1. drafts' = Without(drafts, {cur})
    BY <1>13 DEF Verified
  <2> QED
    BY <2>1, WithoutLeaves DEF DraftsMove
<1>14. CASE Mismatch
  BY <1>14 DEF Mismatch, SaveKeeps, service, report, dialog, deletes, Blank, DraftsMove
<1>15. CASE FailWrite
  <2>1. CASE Reported(Fresh, AfterFailure(Fresh, Kept(Fresh)), Offerable(cached, Fresh))
    BY <2>1, ReportLeaves, AfterFailureLeaves
  <2>2. CASE drafts' = AfterFailure(device, drafts)
    BY <2>2, AfterFailureLeaves DEF DraftsMove
  <2> QED
    BY <1>15, <2>1, <2>2 DEF FailWrite
<1>16. CASE LostTimesOut
  <2>1. drafts' = AfterFailure(device, drafts) \/ drafts' = drafts
    BY <1>16 DEF LostTimesOut, report
  <2> QED
    BY <2>1, AfterFailureLeaves DEF DraftsMove
<1>17. CASE Save \/ Restore
  <2>1. drafts \in Contents /\ [i \in Axes |-> IF restorable[i] # 0 THEN restorable[i] ELSE drafts[i]] \in Contents
    BY DEF Types, ReportTypes, Contents
  <2> QED
    BY <1>17, <2>1 DEF Save, Restore, DraftsMove
<1>18. CASE DeleteChecked
  <2>1. CASE Reported(Fresh, Without(Kept(Fresh), {erasing}), KeptOffer(Fresh))
    BY <2>1, ReportLeaves, WithoutLeaves
  <2>2. CASE TakesReport \/ UNCHANGED report
    BY <2>2, TakenLeaves DEF report, DraftsMove
  <2> QED
    BY <1>18, <2>1, <2>2 DEF DeleteChecked
<1>19. CASE DeleteRefreshed
  BY <1>19, TakenLeaves DEF DeleteRefreshed, DeleteEnds, DeleteKeeps, service, report, dialog,
     saveVars, Blank, DraftsMove
<1>20. CASE UNCHANGED vars
  BY <1>20 DEF vars, service, report, dialog, saveVars, deletes, Blank, DraftsMove
<1>21. ASSUME NEW ok \in BOOLEAN, OpenAnswered(ok) PROVE DraftsMove
  BY <1>21 DEF OpenAnswered, Answers, saveVars, deletes, Blank, DraftsMove
<1>22. ASSUME NEW ok \in BOOLEAN, ResumeAnswered(ok) PROVE DraftsMove
  BY <1>22 DEF ResumeAnswered, Answers, saveVars, deletes, Blank, DraftsMove
<1>23. ASSUME NEW ok \in BOOLEAN, CloseAnswered(ok) PROVE DraftsMove
  BY <1>23 DEF CloseAnswered, Answers, DialogGoes, EmptyState, deletes, Blank, DraftsMove
<1>24. ASSUME NEW ok \in BOOLEAN, CommitAnswered(ok) PROVE DraftsMove
  BY <1>24 DEF CommitAnswered, SaveKeeps, service, report, dialog, deletes, Blank, DraftsMove
<1>25. ASSUME NEW ok \in BOOLEAN, ReadBack(ok) PROVE DraftsMove
  BY <1>25, TakenLeaves DEF ReadBack, Answers, SaveKeeps, service, report, dialog, deletes, Blank,
     DraftsMove
<1>26. ASSUME NEW ok \in BOOLEAN, ResetAnswered(ok) PROVE DraftsMove
  BY <1>26 DEF ResetAnswered, Answers, DeleteKeeps, service, report, dialog, saveVars, Blank,
     DraftsMove
<1>27. ASSUME NEW i \in Axes, Capture(i) PROVE DraftsMove
  BY <1>27 DEF Capture, Acts, service, dialog, saveVars, deletes, Blank, DraftsMove
<1>28. ASSUME NEW i \in Axes, DeleteAxis(i) PROVE DraftsMove
  BY <1>28 DEF DeleteAxis, Acts, DeleteKeeps, service, report, dialog, saveVars, Blank, DraftsMove
<1>29. ASSUME NEW to \in Boards, NEW released \in BOOLEAN, Drop(to, released) PROVE DraftsMove
  BY <1>29 DEF Drop, Blank, DraftsMove
<1> QED
  BY <1>1, <1>2, <1>3, <1>4, <1>5, <1>6, <1>7, <1>8, <1>9, <1>10, <1>11, <1>12, <1>13, <1>14, <1>15,
     <1>16, <1>17, <1>18, <1>19, <1>20, <1>21, <1>22, <1>23, <1>24, <1>25, <1>26, <1>27, <1>28,
     <1>29 DEF Next, Answered, Intents, LinkMoves

(* A draft on screen goes with the dialog, with the board it was captured   *)
(* for, with its axis, or as some board held it.                            *)
Excused(i) ==
    \/ \E b \in Boards : drafts[i] \in held[b][i]
    \/ erasing = i
    \/ ~open' \/ ~open
    \/ device'.stamp # device.stamp

LEMMA ReportExcuses ==
    ASSUME NEW keep, NEW its, Reported(Fresh, keep, its), NEW i \in Axes, drafts[i] # 0, drafts'[i] = 0,
           keep[i] = Kept(Fresh)[i]
    PROVE  Excused(i)
<1>1. view /\ drafts' = keep /\ device' = Fresh
  BY ReportResumes
<1>2. Differs(Fresh)
  BY <1>1 DEF Kept
<1> QED
  BY <1>1, <1>2 DEF Differs, Excused

LEMMA TakenExcuses ==
    ASSUME TakesReport, NEW i \in Axes, drafts[i] # 0, drafts'[i] = 0
    PROVE  Excused(i)
  BY ReportExcuses DEF TakesReport

(* A draft that goes after a failure is what a report shows the board holds.*)
LEMMA FailureExcuses ==
    ASSUME ReportedIsHeld, NEW i \in Axes, drafts[i] # 0, drafts'[i] = 0,
           drafts' = AfterFailure(device, drafts)
    PROVE  Excused(i)
<1>1. i = cur /\ device.cal[i] = drafts[i]
  BY DEF AfterFailure, Without, Landed
<1> QED
  BY <1>1 DEF ReportedIsHeld, SomeHeld, Excused

LEMMA DropsExcused ==
    ASSUME Types, Shape, Numbered, Traced, [Next]_vars, NEW i \in Axes, drafts[i] # 0, drafts'[i] = 0
    PROVE  Excused(i)
<1> USE DEF Shape
<1>1. CASE LinkUp
  BY <1>1 DEF LinkUp, report, saveVars, deletes, Blank, Excused, Dialog
<1>2. CASE SerialRead
  BY <1>2 DEF SerialRead, report, dialog, saveVars, deletes, Blank, Excused, Dialog
<1>3. CASE ConnectRead
  BY <1>3, TakenExcuses DEF ConnectRead, report, dialog, saveVars, deletes, Blank, Excused, Dialog
<1>4. CASE Expire
  BY <1>4 DEF Expire, report, dialog, saveVars, deletes, Blank, Excused, Dialog
<1>5. CASE HoldFires
  BY <1>5 DEF HoldFires, SaveKeeps, service, report, dialog, deletes, Blank, Excused, Dialog
<1>6. CASE OpenDialog
  BY <1>6 DEF OpenDialog, service, deletes, Blank, Excused, Dialog
<1>7. CASE Close
  BY <1>7 DEF Close, Acts, service, report, dialog, saveVars, deletes, Blank, Excused, Dialog
<1>8. CASE CloseLost
  BY <1>8 DEF CloseLost, DialogGoes, EmptyState, deletes, Blank, Excused, Dialog
<1>9. CASE CloseRead
  BY <1>9, TakenExcuses DEF CloseRead, service, dialog, saveVars, deletes, Blank, Excused, Dialog
<1>10. CASE Leave
  BY <1>10 DEF Leave, EmptyState, service, Blank, Excused, Dialog
<1>11. CASE Mount
  BY <1>11 DEF Mount, service, saveVars, deletes, Blank, Excused, Dialog
<1>12. CASE AsksReadBack
  BY <1>12 DEF AsksReadBack, SaveKeeps, service, report, dialog, deletes, Blank, Excused, Dialog
<1>13. CASE Verified
  <2>1. drafts' = Without(drafts, {cur}) /\ saving = "seen" /\ got = d
    BY <1>13 DEF Verified, StoredAsWritten
  <2>2. i = cur
    BY <2>1 DEF Without
  <2>3. drafts[i] = got /\ got # 0
    BY <2>1, <2>2 DEF Traced, DraftIsWritten
  <2> QED
    BY <2>1, <2>2, <2>3 DEF Traced, ReadBackIsHeld, SomeHeld, Excused
<1>14. CASE Mismatch
  BY <1>14 DEF Mismatch, SaveKeeps, service, report, dialog, deletes, Blank, Excused, Dialog
<1>15. CASE FailWrite
  <2>1. CASE Reported(Fresh, AfterFailure(Fresh, Kept(Fresh)), Offerable(cached, Fresh))
    <3>1. CASE AfterFailure(Fresh, Kept(Fresh))[i] = Kept(Fresh)[i]
      BY <2>1, <3>1, ReportExcuses
    <3>2. CASE AfterFailure(Fresh, Kept(Fresh))[i] # Kept(Fresh)[i]
      <4>1. i = cur /\ Kept(Fresh)[i] # 0 /\ Fresh.cal[i] = Kept(Fresh)[i]
        BY <3>2 DEF AfterFailure, Without, Landed
      <4>2. Kept(Fresh)[i] = drafts[i] /\ Fresh.cal[i] = stored[at][i] /\ at \in Boards
        BY <4>1, KeptLeaves, Fields DEF Types, BoardTypes
      <4> QED
        BY <4>1, <4>2 DEF Traced, StoredIsHeld, Excused
    <3> QED
      BY <3>1, <3>2
  <2>2. CASE drafts' = AfterFailure(device, drafts)
    BY <2>2, FailureExcuses DEF Traced
  <2> QED
    BY <1>15, <2>1, <2>2 DEF FailWrite
<1>16. CASE LostTimesOut
  <2>1. drafts' = AfterFailure(device, drafts)
    BY <1>16 DEF LostTimesOut, report
  <2> QED
    BY <2>1, FailureExcuses DEF Traced
<1>17. CASE Save \/ Restore
  BY <1>17 DEF Save, Restore, Begins
<1>18. CASE DeleteChecked
  <2>1. CASE Reported(Fresh, Without(Kept(Fresh), {erasing}), KeptOffer(Fresh))
    <3>1. CASE i = erasing
      BY <3>1 DEF Excused
    <3>2. CASE i # erasing
      <4>1. Without(Kept(Fresh), {erasing})[i] = Kept(Fresh)[i]
        BY <3>2 DEF Without
      <4> QED
        BY <2>1, <4>1, ReportExcuses
    <3> QED
      BY <3>1, <3>2
  <2>2. CASE TakesReport \/ UNCHANGED report
    BY <2>2, TakenExcuses DEF report
  <2> QED
    BY <1>18, <2>1, <2>2 DEF DeleteChecked
<1>19. CASE DeleteRefreshed
  BY <1>19, TakenExcuses DEF DeleteRefreshed, DeleteEnds, DeleteKeeps, service, report, dialog,
     saveVars, Blank, Excused, Dialog
<1>20. CASE UNCHANGED vars
  BY <1>20 DEF vars, service, report, dialog, saveVars, deletes, Blank, Excused, Dialog
<1>21. ASSUME NEW ok \in BOOLEAN, OpenAnswered(ok) PROVE Excused(i)
  BY <1>21 DEF OpenAnswered, Answers, saveVars, deletes, Blank, Excused, Dialog
<1>22. ASSUME NEW ok \in BOOLEAN, ResumeAnswered(ok) PROVE Excused(i)
  BY <1>22 DEF ResumeAnswered, Answers, saveVars, deletes, Blank, Excused, Dialog
<1>23. ASSUME NEW ok \in BOOLEAN, CloseAnswered(ok) PROVE Excused(i)
  BY <1>23 DEF CloseAnswered, Answers, DialogGoes, EmptyState, deletes, Blank, Excused, Dialog
<1>24. ASSUME NEW ok \in BOOLEAN, CommitAnswered(ok) PROVE Excused(i)
  BY <1>24 DEF CommitAnswered, SaveKeeps, service, report, dialog, deletes, Blank, Excused, Dialog
<1>25. ASSUME NEW ok \in BOOLEAN, ReadBack(ok) PROVE Excused(i)
  BY <1>25, TakenExcuses DEF ReadBack, Answers, SaveKeeps, service, report, dialog, deletes, Blank,
     Excused, Dialog
<1>26. ASSUME NEW ok \in BOOLEAN, ResetAnswered(ok) PROVE Excused(i)
  BY <1>26 DEF ResetAnswered, Answers, DeleteKeeps, service, report, dialog, saveVars, Blank,
     Excused, Dialog
<1>27. ASSUME NEW j \in Axes, Capture(j) PROVE Excused(i)
  <2>1. PICK v \in Values : drafts' = [drafts EXCEPT ![j] = v]
    BY <1>27, CaptureIsNew
  <2>2. 0 \notin Values
    BY BoundedCounts DEF Values
  <2>3. drafts \in [Axes -> {0} \cup Values]
    BY DEF Types, ReportTypes, Contents
  <2> QED
    BY <2>1, <2>2, <2>3
<1>28. ASSUME NEW j \in Axes, DeleteAxis(j) PROVE Excused(i)
  BY <1>28 DEF DeleteAxis, Acts, DeleteKeeps, service, report, dialog, saveVars, Blank, Excused,
     Dialog
<1>29. ASSUME NEW to \in Boards, NEW released \in BOOLEAN, Drop(to, released) PROVE Excused(i)
  BY <1>29 DEF Drop, Blank, Excused, Dialog
<1> QED
  BY <1>1, <1>2, <1>3, <1>4, <1>5, <1>6, <1>7, <1>8, <1>9, <1>10, <1>11, <1>12, <1>13, <1>14, <1>15,
     <1>16, <1>17, <1>18, <1>19, <1>20, <1>21, <1>22, <1>23, <1>24, <1>25, <1>26, <1>27, <1>28,
     <1>29 DEF Next, Answered, Intents, LinkMoves

(* The axis being written stays the one, until the next one's draft is      *)
(* taken.                                                                   *)
AxisWritten == saving' = "no" \/ (saving # "no" /\ UNCHANGED <<cur, d>>) \/ Takes

LEMMA AxisSteps ==
    ASSUME Types, [Next]_vars
    PROVE  AxisWritten
<1>1. CASE LinkUp
  BY <1>1 DEF AxisWritten, LinkUp, report, saveVars, deletes
<1>2. CASE SerialRead
  BY <1>2 DEF AxisWritten, SerialRead, report, dialog, saveVars, deletes
<1>3. CASE ConnectRead
  BY <1>3 DEF AxisWritten, ConnectRead, report, dialog, saveVars, deletes
<1>4. CASE Expire
  BY <1>4 DEF AxisWritten, Expire, report, dialog, saveVars, deletes
<1>5. CASE HoldFires
  BY <1>5 DEF AxisWritten, HoldFires, SaveKeeps, service, report, dialog, deletes, saveVars
<1>6. CASE OpenDialog
  BY <1>6 DEF AxisWritten, OpenDialog, service, deletes, saveVars
<1>7. CASE Close
  BY <1>7 DEF AxisWritten, Close, Acts, service, report, dialog, saveVars, deletes
<1>8. CASE CloseLost
  BY <1>8 DEF AxisWritten, CloseLost, DialogGoes, deletes, saveVars
<1>9. CASE CloseRead
  BY <1>9 DEF AxisWritten, CloseRead, service, dialog, saveVars, deletes
<1>10. CASE Leave
  BY <1>10 DEF AxisWritten, Leave, EmptyState, service, saveVars
<1>11. CASE Mount
  BY <1>11 DEF AxisWritten, Mount, service, saveVars, deletes
<1>12. CASE AsksReadBack
  BY <1>12 DEF AxisWritten, AsksReadBack, SaveKeeps, service, report, dialog, deletes, saveVars
<1>13. CASE Verified
  <2>1. CASE todo = {}
    BY <1>13, <2>1 DEF Verified, AxisWritten
  <2>2. CASE todo # {}
    <3>1. drafts' = Without(drafts, {cur}) /\ Commits(todo, drafts') /\ todo \in SUBSET Axes
      BY <1>13, <2>2 DEF Verified, Types, SaveTypes
    <3>2. /\ UNCHANGED <<open, link, reading, serial, at>>
          /\ saving = "seen" /\ device' = IF snap.read THEN snap ELSE device
      BY <1>13 DEF Verified, SaveKeeps, service, dialog
    <3> QED
      BY <2>2, <3>1, <3>2 DEF AxisWritten, Takes
  <2> QED
    BY <2>1, <2>2
<1>14. CASE Mismatch
  BY <1>14 DEF AxisWritten, Mismatch, SaveKeeps, service, report, dialog, deletes, saveVars
<1>15. CASE FailWrite
  BY <1>15 DEF AxisWritten, FailWrite, WriteEnded, SaveKeeps, service, dialog, deletes, saveVars
<1>16. CASE LostTimesOut
  BY <1>16 DEF AxisWritten, LostTimesOut, WriteEnded, SaveKeeps, service, report, dialog, deletes,
     saveVars
<1>17. CASE Save \/ Restore
  <2>1. PICK ds : Begins(ds)
    BY <1>17 DEF Save, Restore
  <2>2. /\ Dirty(ds) \in SUBSET Axes /\ Dirty(ds) # {} /\ drafts' = ds /\ Commits(Dirty(ds), drafts')
        /\ UNCHANGED <<open, link, reading, serial, at, device>> /\ Acts /\ ~paused
    BY <2>1 DEF Begins, Dirty, MaySave, Elsewhere, service, dialog, boardVars
  <2> QED
    BY <2>2 DEF AxisWritten, Takes
<1>18. CASE DeleteChecked
  BY <1>18 DEF AxisWritten, DeleteChecked, DeleteEnds, DeleteKeeps, service, report, dialog,
     saveVars
<1>19. CASE DeleteRefreshed
  BY <1>19 DEF AxisWritten, DeleteRefreshed, DeleteEnds, DeleteKeeps, service, report, dialog,
     saveVars
<1>20. CASE UNCHANGED vars
  BY <1>20 DEF AxisWritten, vars, service, report, dialog, saveVars, deletes
<1>21. ASSUME NEW ok \in BOOLEAN, OpenAnswered(ok) PROVE AxisWritten
  BY <1>21 DEF AxisWritten, OpenAnswered, Answers, saveVars, deletes
<1>22. ASSUME NEW ok \in BOOLEAN, ResumeAnswered(ok) PROVE AxisWritten
  BY <1>22 DEF AxisWritten, ResumeAnswered, Answers, saveVars, deletes
<1>23. ASSUME NEW ok \in BOOLEAN, CloseAnswered(ok) PROVE AxisWritten
  BY <1>23 DEF AxisWritten, CloseAnswered, Answers, DialogGoes, deletes, saveVars
<1>24. ASSUME NEW ok \in BOOLEAN, CommitAnswered(ok) PROVE AxisWritten
  BY <1>24 DEF AxisWritten, CommitAnswered, SaveKeeps, service, report, dialog, deletes, saveVars
<1>25. ASSUME NEW ok \in BOOLEAN, ReadBack(ok) PROVE AxisWritten
  BY <1>25 DEF AxisWritten, ReadBack, Answers, SaveKeeps, service, report, dialog, deletes, saveVars
<1>26. ASSUME NEW ok \in BOOLEAN, ResetAnswered(ok) PROVE AxisWritten
  BY <1>26 DEF AxisWritten, ResetAnswered, Answers, DeleteKeeps, service, report, dialog, saveVars
<1>27. ASSUME NEW i \in Axes, Capture(i) PROVE AxisWritten
  BY <1>27 DEF AxisWritten, Capture, Acts, service, dialog, saveVars, deletes
<1>28. ASSUME NEW i \in Axes, DeleteAxis(i) PROVE AxisWritten
  BY <1>28 DEF AxisWritten, DeleteAxis, Acts, DeleteKeeps, service, report, dialog, saveVars
<1>29. ASSUME NEW to \in Boards, NEW released \in BOOLEAN, Drop(to, released) PROVE AxisWritten
  BY <1>29 DEF AxisWritten, Drop, saveVars
<1> QED
  BY <1>1, <1>2, <1>3, <1>4, <1>5, <1>6, <1>7, <1>8, <1>9, <1>10, <1>11, <1>12, <1>13, <1>14, <1>15,
     <1>16, <1>17, <1>18, <1>19, <1>20, <1>21, <1>22, <1>23, <1>24, <1>25, <1>26, <1>27, <1>28,
     <1>29 DEF Next, Answered, Intents, LinkMoves

LEMMA DraftIsWrittenStep ==
    ASSUME ~Overlaps, Types, OneAtATime, DraftIsWritten, [Next]_vars
    PROVE  DraftIsWritten'
<1> SUFFICES ASSUME saving' # "no"
             PROVE  cur' \in Axes /\ drafts'[cur'] \in {0, d'}
  BY DEF DraftIsWritten
<1>1. CASE saving # "no" /\ UNCHANGED <<cur, d>>
  <2>1. cur \in Axes /\ drafts[cur] \in {0, d}
    BY <1>1 DEF DraftIsWritten
  <2>2. ASSUME NEW i \in Axes PROVE ~Capture(i)
    BY <1>1 DEF Capture, OneAtATime
  <2>3. ASSUME NEW ds PROVE ~Begins(ds)
    BY <1>1 DEF Begins, MaySave
  <2>4. drafts'[cur] \in {0, drafts[cur]}
    BY <2>1, <2>2, <2>3, MovesSteps DEF DraftsMove
  <2> QED
    BY <1>1, <2>1, <2>4
<1>2. CASE Takes
  BY <1>2, CommitsDraft DEF Takes
<1> QED
  BY <1>1, <1>2, AxisSteps DEF AxisWritten

LEMMA TracedAlways ==
    ASSUME ~Overlaps PROVE Spec => []Traced
<1>1. Init => Traced
  BY DEF Init, Traced, StoredIsHeld, ReportedIsHeld, ReadBackIsHeld, DraftIsWritten, NoSnap, Blank
<1>2. Types /\ OneAtATime /\ Traced /\ [Next]_vars => Traced'
  BY StoredStep, ReportedStep, ReadBackStep, DraftIsWrittenStep DEF Traced
<1> QED
  BY <1>1, <1>2, TypesAlways, OneAtATimeAlways, PTL DEF Spec

(* When people wait for the dialog's exchanges, what was captured is only   *)
(* dropped once some board was read to hold it, or when people deleted its  *)
(* axis or left the dialog, or another board came: no failed write, no      *)
(* mismatch and no lost link costs a capture.                               *)
THEOREM CapturesAreKept ==
    ASSUME ~Overlaps PROVE Spec => DraftsKept
<1> DEFINE Step == \A i \in Axes : drafts[i] # 0 /\ drafts'[i] = 0 =>
                     \/ \E b \in Boards : drafts[i] \in held[b][i]
                     \/ erasing = i
                     \/ ~open' \/ ~open
                     \/ device'.stamp # device.stamp
<1>1. Types /\ Shape /\ Numbered /\ Traced /\ [Next]_vars => [Step]_vars
  BY DropsExcused DEF Excused
<1>2. Spec => [][Step]_vars
  BY <1>1, TypesAlways, ShapeAlways, NumberedAlways, TracedAlways, PTL DEF Spec
<1> QED
  BY <1>2 DEF DraftsKept
=============================================================================
