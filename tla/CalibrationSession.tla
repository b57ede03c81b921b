------------------------- MODULE CalibrationSession -------------------------
(***************************************************************************)
(* The calibration dialog: its workflow (src/main/hid/calibration/         *)
(* calibration-workflow.ts), the host that keeps it for the HID tab        *)
(* (workflow-host.ts), the service that reads and writes the Gateway       *)
(* (hid-calibration-service.ts) and the restore cache (cache-rules.ts).    *)
(*                                                                         *)
(* Every operation of the dialog is a chain of exchanges with the board,   *)
(* and at each await the link may drop and another board come back.  An    *)
(* exchange is answered, or fails; the frames are CalLink's.  A request    *)
(* sent into a closed port times out, perhaps after the port is open       *)
(* again.  A calibration is a number, one per capture; which axis is on    *)
(* screen, the sweeps of a capture and every wording are left out.         *)
(*                                                                         *)
(* The operators marked "Mutant" are plausible slips in the definition     *)
(* that follows them; no specification uses them.                          *)
(***************************************************************************)
EXTENDS Naturals, FiniteSets, FiniteSetsExt

CONSTANTS
    Boards,      \* the Gateways, by USB serial
    Axes,        \* the axes each has
    Unknown,     \* no serial
    MaxCaptures, \* bound: captures
    MaxTroubles, \* bound: drops of the link, serials that could not be read, and
                 \* pages that go with a dialog up
    SerialFirst, \* a connect reads the serial before any exchange is answered
    Overlaps,    \* people act while an exchange of the dialog's own is in flight
    NamelessTwice \* no serial is read of a board after another of which none was, with
                 \* drafts on screen: the two are taken for one

ASSUME BoardsAssumption == Boards # {}
ASSUME AxesAssumption == Axes \subseteq Nat
ASSUME UnknownAssumption == Unknown \notin Boards
ASSUME BoundsAssumption == {MaxCaptures, MaxTroubles} \subseteq Nat
ASSUME FlagsAssumption == {SerialFirst, Overlaps, NamelessTwice} \subseteq BOOLEAN

VARIABLES
    \* the boards, and this computer's copies
    at,          \* the board plugged in
    stored,      \* what each board holds per axis; 0: uncalibrated
    cached,      \* calibration-cache.json
    \* the service
    link,        \* the port is open
    serial,      \* calSerialNumber
    reading,     \* the connect read awaits the serial, then the calibration
    session,     \* CalLink's session
    expiring,    \* an unanswered close: the session is assumed dead in time
    snap,        \* the last report: lastCal, and the host's snapshot
    \* the HID tab's view and its workflow's state
    view, shown, offer, open, paused, device, drafts, restorable, seedOnResume,
    write, hold,
    \* what each operation awaits
    opening, resuming, closing, saving, todo, cur, d, got, deleting, erasing,
    \* history: where a value was measured, what each board ever held, which
    \* axes people deleted, and whether a page that went left this session
    origin, held, erased, left,
    troubles     \* counted

boardVars == <<at, stored, cached>>
sessions == <<session, expiring, left>>
service == <<link, serial, reading, sessions>>
report == <<snap, device, drafts, restorable, seedOnResume, offer, resuming>>
dialog == <<view, shown, open, paused>>
saveVars == <<write, hold, saving, todo, cur, d, got>>
deletes == <<deleting, erasing>>
history == <<origin, held, erased>>
vars == <<boardVars, service, report, dialog, saveVars, deletes, opening, closing,
          history, troubles>>

Values == 1..MaxCaptures
Contents == [Axes -> {0} \cup Values]
Blank == [i \in Axes |-> 0]
Stamps == Boards \cup {Unknown}

\* No report has no serial either: boardOf().
NoSnap == [read |-> FALSE, stamp |-> Unknown, cal |-> Blank]
Snaps == [read : BOOLEAN, stamp : Stamps, cal : Contents]

TypeOK ==
    /\ at \in Boards /\ {stored, cached} \subseteq [Boards -> Contents]
    /\ {link, session, expiring, left, opening, view, shown, open, paused, seedOnResume,
        hold} \subseteq BOOLEAN
    /\ serial \in Stamps /\ reading \in {"no", "serial", "cal"}
    /\ {snap, device} \subseteq Snaps
    /\ offer \subseteq Axes /\ {drafts, restorable} \subseteq Contents
    /\ write \in {"none", "writing", "done"}
    /\ resuming \in {"no", "sent"}
    /\ closing \in {"no", "sent", "lost", "read"}
    /\ saving \in {"no", "commit", "committed", "read", "seen", "lost", "failing", "stuck"}
    /\ todo \subseteq Axes /\ cur \in Axes \cup {0} /\ {d, got} \subseteq {0} \cup Values
    /\ deleting \in {"no", "reset", "check", "refresh"} /\ erasing \in Axes \cup {0}
    /\ origin \in [Values -> Stamps] /\ held \in [Boards -> [Axes -> SUBSET Values]]
    /\ erased \in [Boards -> SUBSET Axes]
    /\ troubles \in 0..MaxTroubles

Init ==
    /\ at = (CHOOSE b \in Boards : TRUE) /\ stored = [b \in Boards |-> Blank]
    /\ cached = [b \in Boards |-> Blank]
    /\ link = FALSE /\ serial = Unknown /\ reading = "no" /\ session = FALSE
    /\ expiring = FALSE /\ left = FALSE /\ snap = NoSnap
    /\ view = TRUE /\ shown = FALSE /\ offer = {} /\ open = FALSE /\ paused = TRUE
    /\ device = NoSnap /\ drafts = Blank /\ restorable = Blank /\ seedOnResume = FALSE
    /\ write = "none" /\ hold = FALSE
    /\ opening = FALSE /\ resuming = "no" /\ closing = "no"
    /\ saving = "no" /\ todo = {} /\ cur = 0 /\ d = 0 /\ got = 0
    /\ deleting = "no" /\ erasing = 0
    /\ origin = [v \in Values |-> Unknown]
    /\ held = [b \in Boards |-> [i \in Axes |-> {}]] /\ erased = [b \in Boards |-> {}]
    /\ troubles = 0

---------------------------------------------------------------------------
(***************************************************************************)
(* The cache's rules, and what a report does                               *)
(***************************************************************************)
\* What the board of a report has lost, by the copies of that serial.
Regressed(c, s) ==
    IF s.stamp = Unknown THEN {} ELSE {i \in Axes : c[s.stamp][i] # 0 /\ s.cal[i] = 0}

\* The dialog's offer: the copies of the serial the service knows, for the
\* axes the last report has lost.
Offerable(c, s) ==
    [i \in Axes |-> IF serial # Unknown /\ i \in Regressed(c, s) THEN c[serial][i] ELSE 0]

\* storeAxes(), dropAxis(): nothing without a serial.
Cache(i, v) ==
    cached' = IF serial = Unknown THEN cached ELSE [cached EXCEPT ![serial][i] = v]

Dirty(ds) == {i \in Axes : ds[i] # 0}
Without(ds, is) == [i \in Axes |-> IF i \in is THEN 0 ELSE ds[i]]
Differs(next) == next.stamp # device.stamp

\* The drafts after a report: another board's are thrown away.
\* Mutant: they are kept.
AllKept(next) == drafts
Kept(next) == IF Differs(next) THEN Blank ELSE drafts

\* deviceChanged(): the offer and the drafts go with the board they belong
\* to, and a paused dialog is resumed.
Resumes == paused /\ open /\ link /\ resuming = "no"

\* A calibration read, answered: reported(), deviceChanged() and the tab's
\* offer.  keep: the drafts left; dialogOffer: the dialog's own offer.
Reported(next, keep, dialogOffer) ==
    /\ snap' = next
    /\ IF view
       THEN /\ device' = next /\ drafts' = keep /\ restorable' = dialogOffer
            /\ seedOnResume' = (seedOnResume \/ Differs(next))
            /\ resuming' = IF Resumes THEN "sent" ELSE resuming
            /\ offer' = Regressed(cached, next)
       ELSE UNCHANGED <<device, drafts, restorable, seedOnResume, resuming, offer>>

Fresh == [read |-> TRUE, stamp |-> serial, cal |-> stored[at]]
KeptOffer(next) == IF Differs(next) THEN Blank ELSE restorable
TakesReport == Reported(Fresh, Kept(Fresh), KeptOffer(Fresh))

\* An exchange of the dialog's is answered.
Answers == link /\ (SerialFirst => reading # "serial")

\* The board takes a value for an axis; 0: it is erased.
Stores(i, v) ==
    /\ stored' = [stored EXCEPT ![at][i] = v]
    /\ held' = [held EXCEPT ![at][i] = IF v = 0 THEN @ ELSE @ \cup {v}]
    /\ erased' = [erased EXCEPT ![at] = IF v = 0 THEN @ ELSE @ \ {i}]

\* Only a read that shows the axis uncalibrated says "erased"; the copy goes
\* with it.
DropCopy(i) == Cache(i, 0)

SeenErased ==
    /\ Fresh.cal[erasing] = 0 /\ DropCopy(erasing)
    /\ erased' = [erased EXCEPT ![at] = IF serial = at THEN @ \cup {erasing} ELSE @]

SessionOpens == session' = TRUE /\ expiring' = FALSE /\ left' = FALSE
SessionEnds == session' = FALSE /\ expiring' = FALSE /\ left' = FALSE

\* A close that was not answered: calSessionClose() assumes the expiry.
SessionLapses == expiring' = session /\ UNCHANGED <<session, left>>

---------------------------------------------------------------------------
(***************************************************************************)
(* The link and the connect read                                           *)
(***************************************************************************)
Trouble == troubles < MaxTroubles /\ troubles' = troubles + 1

\* RECONNECT_MS after a drop, and later than the padding of a write's phase.
LinkUp ==
    /\ ~link /\ link' = TRUE /\ reading' = "serial"
    /\ saving \notin {"committed", "seen"} /\ (Overlaps \/ closing # "lost")
    /\ paused' = (paused /\ open)
    /\ UNCHANGED <<boardVars, serial, sessions, report, view, shown, open, saveVars,
                   deletes, opening, closing, history, troubles>>

SerialRead ==
    /\ reading = "serial" /\ link /\ reading' = "cal"
    /\ \/ serial' = at /\ UNCHANGED troubles
       \/ /\ serial' = Unknown /\ Trouble
          /\ NamelessTwice \/ device.stamp # Unknown \/ Dirty(drafts) = {}
    /\ UNCHANGED <<boardVars, link, sessions, report, dialog, saveVars, deletes,
                   opening, closing, history>>

ConnectRead ==
    /\ reading = "cal" /\ link /\ reading' = "no"
    /\ TakesReport \/ UNCHANGED report
    /\ UNCHANGED <<boardVars, link, serial, sessions, dialog, saveVars, deletes,
                   opening, closing, history, troubles>>

\* The port closes, by itself or released: what is in flight is rejected, and
\* whatever a write or an erase did, it did.  The next board is to; the
\* one that left may have lost its calibration with its power.
Drop(to, released) ==
    /\ link /\ Trouble /\ link' = FALSE
    /\ released => ~shown
    /\ at' = to /\ reading' = "no" /\ SessionEnds
    /\ serial' \in IF released THEN {Unknown}
                   ELSE IF reading = "serial" THEN {serial, at} ELSE {serial}
    /\ \E lands \in BOOLEAN, wiped \in BOOLEAN :
         LET now == IF wiped THEN Blank
                    ELSE IF lands /\ saving = "commit" THEN [stored[at] EXCEPT ![cur] = d]
                    ELSE IF lands /\ deleting = "reset" THEN [stored[at] EXCEPT ![erasing] = 0]
                    ELSE stored[at]
         IN  /\ stored' = [stored EXCEPT ![at] = now]
             /\ held' = [held EXCEPT ![at] =
                           [i \in Axes |-> @[i] \cup ({now[i]} \ {0})]]
             /\ erased' = [erased EXCEPT ![at] = {i \in @ : now[i] = 0}]
    /\ snap' = NoSnap /\ offer' = {} /\ paused' = view
    /\ resuming' = "no" /\ deleting' = "no" /\ erasing' = 0
    /\ saving' = IF saving \in {"commit", "read", "failing"} THEN "lost" ELSE saving
    /\ opening' = FALSE
    /\ closing' = (IF closing = "lost" THEN "lost" ELSE "no")
    /\ IF closing = "sent"
       THEN /\ open' = FALSE /\ shown' = FALSE /\ device' = NoSnap /\ drafts' = Blank
            /\ restorable' = Blank /\ write' = "none"
       ELSE /\ shown' = (shown \/ opening)
            /\ UNCHANGED <<open, device, drafts, restorable, write>>
    /\ UNCHANGED <<cached, view, seedOnResume, hold, todo, cur, d, got, origin>>

\* CalLink's assumed expiry.
Expire ==
    /\ expiring /\ SessionEnds
    /\ UNCHANGED <<boardVars, link, serial, reading, report, dialog, saveVars, deletes,
                   opening, closing, history, troubles>>

---------------------------------------------------------------------------
(***************************************************************************)
(* The dialog's session                                                    *)
(***************************************************************************)
Elsewhere == UNCHANGED <<boardVars, history, troubles>>
EmptyState ==
    /\ device' = NoSnap /\ drafts' = Blank /\ restorable' = Blank /\ write' = "none"

\* open(): paused when the link went down since the click.
OpenDialog ==
    /\ view /\ ~shown /\ ~opening /\ closing = "no"
    /\ link => snap.read
    /\ open' = TRUE /\ device' = snap /\ drafts' = Blank /\ restorable' = Blank
    /\ write' = "none" /\ seedOnResume' = TRUE
    /\ paused' = ~link /\ shown' = ~link /\ opening' = link
    /\ UNCHANGED <<service, snap, offer, resuming, view, hold, saving, todo, cur, d, got,
                   deletes, closing>> /\ Elsewhere

OpenAnswered(ok) ==
    /\ opening /\ Answers /\ opening' = FALSE /\ shown' = TRUE
    /\ IF ok THEN SessionOpens /\ restorable' = Offerable(cached, snap) /\ seedOnResume' = FALSE
             ELSE UNCHANGED <<sessions, restorable, seedOnResume>>
    /\ UNCHANGED <<link, serial, reading, snap, device, drafts, offer, resuming, view, open,
                   paused, saveVars, deletes, closing>> /\ Elsewhere

\* resume(), after its await: nothing more in a dialog that was closed.
ResumeAnswered(ok) ==
    /\ resuming = "sent" /\ Answers /\ resuming' = "no"
    /\ IF ok THEN SessionOpens ELSE UNCHANGED sessions
    /\ IF ok /\ open
       THEN /\ paused' = FALSE /\ seedOnResume' = FALSE
            /\ restorable' = IF seedOnResume THEN Offerable(cached, snap) ELSE restorable
       ELSE UNCHANGED <<paused, seedOnResume, restorable>>
    /\ UNCHANGED <<link, serial, reading, snap, device, drafts, offer, view, shown, open,
                   saveVars, deletes, opening, closing>> /\ Elsewhere

\* A person acts on the dialog on screen.
Acts == shown /\ closing = "no"

Close ==
    /\ Acts /\ write # "writing"
    /\ Overlaps \/ ~link \/ (reading = "no" /\ resuming = "no")
    /\ closing' = IF link THEN "sent" ELSE "lost"
    /\ UNCHANGED <<service, report, dialog, saveVars, deletes, opening>> /\ Elsewhere

\* The dialog goes, and the board is read again.
DialogGoes ==
    /\ EmptyState /\ open' = FALSE /\ shown' = FALSE /\ paused' = ~link
    /\ closing' = IF link THEN "read" ELSE "no"
    /\ UNCHANGED <<link, serial, reading, snap, seedOnResume, offer, resuming, view, hold,
                   saving, todo, cur, d, got, deletes, opening>> /\ Elsewhere

\* The board answers in order: what a delete asked for before is settled.
\* Mutant: the dialog goes without the session.
CloseUnasked(ok) ==
    /\ closing = "sent" /\ Answers /\ deleting # "reset" /\ UNCHANGED sessions /\ DialogGoes
CloseAnswered(ok) ==
    /\ closing = "sent" /\ Answers /\ deleting # "reset"
    /\ IF ok THEN SessionEnds ELSE SessionLapses
    /\ DialogGoes

CloseLost ==
    /\ closing = "lost" /\ SessionLapses
    /\ DialogGoes

CloseRead ==
    /\ closing = "read" /\ closing' = "no" /\ Answers /\ deleting = "no"
    /\ \/ TakesReport
       \/ /\ offer' = Regressed(cached, snap)
          /\ UNCHANGED <<snap, device, drafts, restorable, seedOnResume, resuming>>
    /\ UNCHANGED <<service, dialog, saveVars, deletes, opening>> /\ Elsewhere

\* What the view's session was asked to do when it went: opened, closed, or
\* neither.  A session it leaves open nobody closes.
SessionLeft ==
    \/ closing \notin {"sent", "lost"} /\ left' = session /\ UNCHANGED <<session, expiring>>
    \/ /\ opening \/ resuming = "sent"
       /\ Answers /\ session' = TRUE /\ expiring' = FALSE /\ left' = TRUE
    \/ closing = "sent" /\ Answers /\ SessionEnds
    \/ closing \in {"sent", "lost"} /\ SessionLapses

\* What the board was asked to write or to erase, it did or did not.
BoardLeft ==
    \/ UNCHANGED <<stored, held, erased>>
    \/ saving = "commit" /\ Answers /\ Stores(cur, d)
    \/ deleting = "reset" /\ Answers /\ Stores(erasing, 0)

ReadInFlight ==
    \/ closing = "read" \/ saving \in {"read", "failing"}
    \/ deleting \in {"check", "refresh"}

\* The renderer reloads (rendererLoaded(), attach(true) over a view): nothing
\* the view's workflow awaits goes on, whatever it was doing.  Its tab is
\* left (attach(false)): a delete runs on, and the dialog, which covers the
\* window, is not up.  The board answers in order, so what it was asked is
\* settled before the next view asks anything: here.
Leave ==
    /\ view /\ view' = FALSE /\ SessionLeft
    /\ IF shown \/ opening THEN Trouble ELSE UNCHANGED troubles
    /\ \/ /\ BoardLeft /\ UNCHANGED cached
          /\ snap' = snap \/ (ReadInFlight /\ Answers /\ snap' = Fresh)
       \/ /\ ~shown /\ deleting = "check" /\ Answers /\ SeenErased
          /\ snap' = Fresh /\ UNCHANGED <<stored, held>>
    /\ EmptyState /\ shown' = FALSE /\ open' = FALSE /\ paused' = FALSE
    /\ seedOnResume' = FALSE /\ offer' = {} /\ hold' = FALSE /\ opening' = FALSE
    /\ resuming' = "no" /\ closing' = "no" /\ saving' = "no" /\ todo' = {} /\ cur' = 0
    /\ d' = 0 /\ got' = 0 /\ deleting' = "no" /\ erasing' = 0
    /\ UNCHANGED <<at, link, serial, reading, origin>>

\* attach(true): a fresh workflow, handed the link and the report.
Mount ==
    /\ ~view /\ view' = TRUE /\ paused' = ~link
    /\ device' = snap /\ seedOnResume' = Differs(snap) /\ offer' = Regressed(cached, snap)
    /\ UNCHANGED <<service, snap, drafts, restorable, resuming, shown, open, saveVars,
                   deletes, opening, closing>> /\ Elsewhere

---------------------------------------------------------------------------
(***************************************************************************)
(* Capturing and writing                                                   *)
(***************************************************************************)
Captured == {v \in Values : origin[v] # Unknown}

\* advanceCapture(): a completed capture is banked.  A capture begun before
\* a write may complete during it.
Capture(i) ==
    /\ Acts /\ session /\ ~paused /\ (Overlaps \/ write # "writing")
    /\ Cardinality(Captured) < MaxCaptures
    /\ LET v == Cardinality(Captured) + 1
       IN  drafts' = [drafts EXCEPT ![i] = v] /\ origin' = [origin EXCEPT ![v] = at]
    /\ UNCHANGED <<boardVars, service, snap, device, restorable, seedOnResume, offer,
                   resuming, dialog, saveVars, deletes, opening, closing, held, erased,
                   troubles>>

\* save(): its loop over the dirty axes begins.
MaySave ==
    /\ Acts /\ write = "none" /\ saving = "no" /\ ~paused
    /\ Overlaps \/ (deleting = "no" /\ ~hold)

\* The next axis of the queue: its draft is read, and committed.  Without
\* one the loop throws, and the dialog goes on saying "Writing".
Commits(queue, ds) ==
    /\ cur' = Min(queue) /\ todo' = queue \ {Min(queue)} /\ d' = ds[Min(queue)]
    /\ saving' = IF d' = 0 THEN "stuck" ELSE IF link THEN "commit" ELSE "lost"
    /\ got' = 0

Begins(ds) ==
    /\ MaySave /\ Dirty(ds) # {} /\ Commits(Dirty(ds), ds)
    /\ drafts' = ds /\ write' = "writing"
    /\ UNCHANGED <<service, snap, device, restorable, seedOnResume, offer, resuming, dialog,
                   hold, deletes, opening, closing>> /\ Elsewhere

Save == Begins(drafts)

\* restore(): the copies become drafts, for the ordinary save.
Restore ==
    /\ Dirty(restorable) # {}
    /\ Begins([i \in Axes |-> IF restorable[i] # 0 THEN restorable[i] ELSE drafts[i]])

SaveKeeps == UNCHANGED <<service, dialog, deletes, opening, closing, origin, troubles, at>>

\* "The ACK said received", and the flash may not have taken it; a refusal
\* stored nothing, and a timeout may have stored it.
CommitAnswered(ok) ==
    /\ saving = "commit" /\ Answers
    /\ saving' = IF ok THEN "committed" ELSE "failing"
    /\ ok => session
    /\ Stores(cur, d) \/ UNCHANGED <<stored, held, erased>>
    /\ UNCHANGED <<cached, report, write, hold, todo, cur, d, got>> /\ SaveKeeps

\* The phase's padding is over: the read-back is asked for.
AsksReadBack ==
    /\ saving = "committed" /\ saving' = IF link THEN "read" ELSE "lost"
    /\ UNCHANGED <<stored, cached, held, erased, report, write, hold, todo, cur, d, got>>
    /\ SaveKeeps

ReadBack(ok) ==
    /\ saving = "read" /\ Answers
    /\ IF ok THEN TakesReport /\ got' = stored[at][cur] /\ saving' = "seen"
             ELSE UNCHANGED <<report, got>> /\ saving' = "failing"
    /\ UNCHANGED <<stored, cached, held, erased, write, hold, todo, cur, d>> /\ SaveKeeps

\* storedAsWritten(): only what the board was read to hold is kept.
\* Mutant: the acknowledgement is enough.
AsAcknowledged == TRUE
StoredAsWritten == got = d

\* The axis is done: cached, its draft dropped, and the next one's turn.
Verified ==
    /\ saving = "seen" /\ StoredAsWritten
    /\ Cache(cur, d) /\ device' = IF snap.read THEN snap ELSE device
    /\ LET ds == Without(drafts, {cur})
       IN  /\ drafts' = ds
           /\ IF todo # {}
              THEN Commits(todo, ds) /\ UNCHANGED <<restorable, write, hold>>
              ELSE /\ restorable' = Offerable(cached', snap)
                   /\ write' = "done" /\ hold' = TRUE /\ saving' = "no"
                   /\ cur' = 0 /\ d' = 0 /\ got' = 0 /\ UNCHANGED todo
    /\ UNCHANGED <<stored, held, erased, snap, seedOnResume, offer, resuming>> /\ SaveKeeps

Mismatch ==
    /\ saving = "seen" /\ ~StoredAsWritten
    /\ saving' = IF link THEN "failing" ELSE "lost"
    /\ UNCHANGED <<stored, cached, held, erased, report, write, hold, todo, cur, d, got>>
    /\ SaveKeeps

WriteEnded ==
    /\ write' = "none" /\ saving' = "no" /\ todo' = {} /\ cur' = 0 /\ d' = 0 /\ got' = 0
    /\ UNCHANGED <<stored, cached, held, erased, hold>> /\ SaveKeeps

\* failWrite(): the board is read again; a write that landed after all
\* leaves its draft behind.
\* Mutant: the draft of a failed write goes.
AlwaysLanded(s, ds) == TRUE
Landed(s, ds) == ds[cur] # 0 /\ s.cal[cur] = ds[cur]

AfterFailure(s, ds) == Without(ds, IF Landed(s, ds) THEN {cur} ELSE {})

FailWrite ==
    /\ saving = "failing" /\ Answers
    /\ \/ Reported(Fresh, AfterFailure(Fresh, Kept(Fresh)), Offerable(cached, Fresh))
       \/ /\ drafts' = AfterFailure(device, drafts)
          /\ restorable' = Offerable(cached, snap)
          /\ UNCHANGED <<snap, device, seedOnResume, offer, resuming>>
    /\ WriteEnded

\* What was asked of a closed port times out; failWrite()'s own read may be
\* sent after the link is back.
\* Mutant: what was sent to a closed port is awaited for ever.
LostForEver == saving = "lost" /\ UNCHANGED vars
LostTimesOut ==
    /\ saving = "lost"
    /\ \/ /\ link /\ saving' = "failing"
          /\ UNCHANGED <<stored, cached, held, erased, report, write, hold, todo, cur, d, got>>
          /\ SaveKeeps
       \/ /\ drafts' = AfterFailure(device, drafts)
          /\ restorable' = Offerable(cached, snap)
          /\ UNCHANGED <<snap, device, seedOnResume, offer, resuming>>
          /\ WriteEnded

\* hold(): three seconds after a write, whatever is on screen by then.
HoldFires ==
    /\ hold /\ hold' = FALSE /\ write' = "none"
    /\ UNCHANGED <<stored, cached, held, erased, report, saving, todo, cur, d, got>>
    /\ SaveKeeps

---------------------------------------------------------------------------
(***************************************************************************)
(* Deleting                                                                *)
(***************************************************************************)
DeleteKeeps ==
    UNCHANGED <<at, service, dialog, saveVars, opening, closing, origin, troubles>>

DeleteAxis(i) ==
    /\ Acts /\ ~paused /\ write # "writing" /\ deleting = "no" /\ device.cal[i] # 0
    /\ deleting' = "reset" /\ erasing' = i
    /\ UNCHANGED <<stored, cached, held, erased, report>> /\ DeleteKeeps

ResetAnswered(ok) ==
    /\ deleting = "reset" /\ Answers
    /\ deleting' = IF ok THEN "check" ELSE "refresh"
    /\ ok => session
    /\ Stores(erasing, 0) \/ UNCHANGED <<stored, held, erased>>
    /\ UNCHANGED <<cached, report, erasing>> /\ DeleteKeeps

DeleteEnds == deleting' = "no" /\ erasing' = 0

DeleteChecked ==
    /\ deleting = "check" /\ Answers /\ DeleteEnds
    /\ \/ /\ SeenErased
          /\ Reported(Fresh, Without(Kept(Fresh), {erasing}), KeptOffer(Fresh))
       \/ /\ Fresh.cal[erasing] # 0 /\ TakesReport /\ UNCHANGED <<cached, erased>>
       \/ UNCHANGED <<report, cached, erased>>
    /\ UNCHANGED <<stored, held>> /\ DeleteKeeps

DeleteRefreshed ==
    /\ deleting = "refresh" /\ Answers /\ DeleteEnds
    /\ TakesReport \/ UNCHANGED report
    /\ UNCHANGED <<stored, cached, held, erased>> /\ DeleteKeeps

---------------------------------------------------------------------------
Answered ==
    \/ CloseLost \/ CloseRead \/ AsksReadBack \/ Verified \/ Mismatch
    \/ FailWrite \/ LostTimesOut \/ DeleteChecked \/ DeleteRefreshed
    \/ \E ok \in BOOLEAN :
         \/ OpenAnswered(ok) \/ ResumeAnswered(ok) \/ CloseAnswered(ok)
         \/ CommitAnswered(ok) \/ ReadBack(ok) \/ ResetAnswered(ok)

Intents ==
    \/ OpenDialog \/ Close \/ Leave \/ Mount \/ Save \/ Restore
    \/ \E i \in Axes : Capture(i) \/ DeleteAxis(i)

LinkMoves ==
    \/ LinkUp \/ SerialRead \/ ConnectRead \/ Expire \/ HoldFires
    \/ \E to \in Boards, released \in BOOLEAN : Drop(to, released)

Next == Answered \/ Intents \/ LinkMoves

Spec == Init /\ [][Next]_vars

\* Exchanges are answered or time out, and the listing of ports comes back.
FairSpec == Spec /\ WF_vars(Answered) /\ WF_vars(SerialRead)

---------------------------------------------------------------------------
(***************************************************************************)
(* Properties                                                              *)
(***************************************************************************)

\* A board never holds an endpoint measured on another one, whatever was
\* captured, restored, swapped and retried (deviceChanged()'s clearing).
NoForeignWrite ==
    \A b \in Boards, i \in Axes : stored[b][i] # 0 => origin[stored[b][i]] = b

\* What this computer keeps for a board is what that board was read to hold
\* ("after the read-back, never after the ACK"), and with no dialog on screen
\* an axis people deleted is not offered back from it ("or the client would
\* turn round and offer to restore exactly what the user just deleted").
CacheHonest ==
    /\ \A b \in Boards, i \in Axes : cached[b][i] # 0 => cached[b][i] \in held[b][i]
    /\ view /\ ~shown /\ closing = "no" /\ snap.read /\ serial = at /\ snap.stamp = at
         => offer \cap erased[at] = {}

\* A session is some dialog's, is being given up, or was left by a page that
\* went away: a dialog that is closed never leaves the export stream held
\* back, whatever its link, its close and the dialogs before it did.
SessionNeedsDialog == session => (view /\ open) \/ expiring \/ left

\* What was captured is only dropped once the board held it, or when people
\* deleted or left it, or another board came.
DraftsKept ==
    [][\A i \in Axes : drafts[i] # 0 /\ drafts'[i] = 0 =>
          \/ \E b \in Boards : drafts[i] \in held[b][i]
          \/ erasing = i
          \/ ~open' \/ ~open
          \/ device'.stamp # device.stamp]_vars

\* A write ends, whatever the link and the board do: the dialog cannot be
\* closed while it goes on.
WriteEnds == write = "writing" ~> write # "writing"
=============================================================================
