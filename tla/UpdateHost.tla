----------------------------- MODULE UpdateHost -----------------------------
(***************************************************************************)
(* The firmware update dialog (src/main/update/update-host.ts) and the     *)
(* Gateway USB side's own update (usb-side-update.ts): the 1200-baud touch *)
(* into the RP2040's drive, the copy onto it, the reconnect, the version   *)
(* it reports and its calibration put back.  The link is its port's        *)
(* ownership only (GatewayConnection has the rest); the cockpit side's     *)
(* update (CockpitUpdate) is a run that ends, or is cut off.               *)
(*                                                                         *)
(* Every board of the same chip mounts the same drive, at any free path.   *)
(* Boards are plugged, unplugged and started in their drives by people at  *)
(* any time.  The steps of a run interleave with the link's events at      *)
(* every await.  The dialog's relay, image and "I understand" checks only  *)
(* narrow when a run may start; they, and the progress, are left out.      *)
(*                                                                         *)
(* The operators marked "Mutant" are plausible slips in the definition     *)
(* that follows them; no specification uses them.                          *)
(***************************************************************************)
EXTENDS Naturals, FiniteSets

CONSTANTS
    Roots,     \* the paths an update drive can be mounted at
    Others,    \* boards of the same chip that are not the Gateway
    HasCopy,   \* this computer has a copy of the Gateway's calibration
    MaxAsks,   \* bound: connect reads in flight at once
    MaxMoves   \* bound: times people move a board, or disconnect

ASSUME RootsAssumption ==
    IsFiniteSet(Roots) /\ Roots \cap {"none", "port", "toDrive", "toApp", "away"} = {}
ASSUME CopyAssumption == HasCopy \in BOOLEAN
ASSUME HostBounds == MaxAsks \in Nat /\ MaxMoves \in Nat

VARIABLES
    \* the boards
    gw,          \* where the Gateway is
    other,       \* where each other board is
    firmware,    \* what the Gateway runs
    calibrated,  \* the Gateway holds its calibration
    inBoot,      \* its cockpit side waits in its bootloader
    stood,       \* others in their drives since this run's touch (history)
    \* the link and its connect read
    link, held,
    asks,        \* connect reads that await HELLO
    reading,     \* the connect read awaits the calibration
    snap,        \* the calibration it read
    \* the dialog
    open,        \* the phase of the update that is open
    kind, at, retryFrom, failure, cut,
    \* the USB side's run
    await,       \* what it awaits
    imageRead, calBefore, took, root, strays, lastHello, reported, notice,
    wrote,       \* a copy went out since the port was taken (history)
    \* the drive watch, and the cockpit side's quiet
    watching, looking, drives, settling,
    moves        \* counted

boards == <<gw, other, firmware, calibrated, inBoot, stood>>
portVars == <<link, held, asks, reading, snap>>
dialog == <<open, kind, at, retryFrom, failure, cut>>
flowVars == <<await, imageRead, calBefore, took, root, strays, lastHello, reported, notice, wrote>>
watchVars == <<watching, drives, settling>>
hostVars == <<boards, portVars, dialog, flowVars, watchVars, looking, moves>>

Kinds == {"usb", "drive", "cockpit"}
HostAwaits == {"image", "take", "list", "touch", "many", "present", "count", "drive",
           "write", "rec", "hello", "still", "ver", "cal", "restore"}
Snaps == {"none", "kept", "lost"}

HostTypeOK ==
    /\ gw \in Roots \cup {"port", "toDrive", "toApp", "away"}
    /\ other \in [Others -> Roots \cup {"away"}]
    /\ firmware \in {"old", "new"}
    /\ {calibrated, inBoot, held, reading, cut, imageRead, took, wrote, watching,
        settling} \subseteq BOOLEAN
    /\ stood \subseteq Others
    /\ link \in {"off", "look", "up"} /\ asks \in 0..MaxAsks
    /\ {snap, calBefore} \subseteq Snaps
    /\ open \in {"none", "confirm", "run", "fail", "done"}
    /\ kind \in Kinds /\ {at, retryFrom} \subseteq 0..3
    /\ failure \in {"none", "image", "many", "no-drive", "left", "copy", "no-reconnect",
                    "wrong-version", "cockpit"}
    /\ await \in HostAwaits \cup {"idle", "cockpit"}
    /\ root \in Roots \cup {"none"} /\ strays \subseteq Roots
    /\ {lastHello, reported} \subseteq {"none", "old", "new"}
    /\ notice \in {"none", "unread", "no-copy", "restored", "failed"}
    /\ looking \in BOOLEAN /\ drives \in 0..Cardinality(Roots)
    /\ moves \in 0..MaxMoves

HostInit ==
    /\ gw = "port" /\ other = [o \in Others |-> "away"] /\ firmware = "old"
    /\ calibrated = TRUE /\ inBoot = FALSE /\ stood = {}
    /\ link = "look" /\ held = FALSE /\ asks = 0 /\ reading = FALSE /\ snap = "none"
    /\ open = "none" /\ kind = "usb" /\ at = 0 /\ retryFrom = 0 /\ failure = "none"
    /\ cut = FALSE
    /\ await = "idle" /\ imageRead = FALSE /\ calBefore = "none" /\ took = FALSE /\ root = "none"
    /\ strays = {} /\ lastHello = "none" /\ reported = "none" /\ notice = "none"
    /\ wrote = FALSE
    /\ watching = FALSE /\ looking = FALSE /\ drives = 0
    /\ settling = FALSE /\ moves = 0

---------------------------------------------------------------------------
(***************************************************************************)
(* The boards                                                              *)
(***************************************************************************)
Mounted == {r \in Roots : gw = r \/ \E o \in Others : other[o] = r}
Free == Roots \ Mounted
boardsOnly == <<portVars, dialog, flowVars, watchVars, looking>>

\* Unplugged, plugged in, or plugged in holding BOOTSEL.
MoveGateway(to) ==
    /\ gw \in Roots \cup {"port", "away"} /\ to # gw
    /\ "away" \in {gw, to}
    /\ to \in Roots => link # "up"     \* a port's close is seen before a drive mounts
    /\ gw' = to
    /\ UNCHANGED <<other, firmware, calibrated, inBoot, stood, boardsOnly>>

\* A restart ends: in its drive after the touch, in its app after a copy.
Restarts ==
    /\ \/ gw = "toDrive" /\ link # "up" /\ gw' \in Free
       \/ gw = "toApp" /\ gw' = "port"
    /\ UNCHANGED <<other, firmware, calibrated, inBoot, stood, boardsOnly>>

MoveOther(o, to) ==
    /\ to # other[o] /\ "away" \in {to, other[o]}
    /\ other' = [other EXCEPT ![o] = to]
    /\ stood' = stood \ {o}
    /\ UNCHANGED <<gw, firmware, calibrated, inBoot, boardsOnly>>

---------------------------------------------------------------------------
(***************************************************************************)
(* The host's drive watch                                                  *)
(***************************************************************************)
WatchFor(l, p, c) == l # "up" /\ (p # "run" \/ c)

\* watchDrives(): starts or stops the watch.  Its dispose() also clears the
\* cockpit side's timer.
Rewatch(l, p, c) ==
    LET on == WatchFor(l, p, c)  stops == watching /\ ~on
    IN  /\ watching' = on
        /\ drives' = IF stops /\ l = "up" THEN 0 ELSE drives
        /\ settling' = (settling /\ ~stops)

\* lookForDrives(): one in flight; none while a Gateway port enumerates.
Present == gw = "port" \/ link = "up"
LookOnly == UNCHANGED <<boards, portVars, dialog, flowVars, watching, settling>>

SetDrives(n) == drives' = IF watching THEN n ELSE drives

BeginLook ==
    /\ watching /\ ~looking /\ looking' = ~Present
    /\ IF Present THEN SetDrives(0) ELSE UNCHANGED drives
    /\ LookOnly

LookList == looking /\ looking' = FALSE /\ SetDrives(Cardinality(Mounted)) /\ LookOnly

---------------------------------------------------------------------------
(***************************************************************************)
(* The link and its connect read                                           *)
(***************************************************************************)
\* The service forgets what it read when the port is released or closes.
\* Mutant: what it read outlives the port.
ForgetsNothing == reading' = FALSE /\ UNCHANGED snap
Forgets == reading' = FALSE /\ snap' = "none"

\* A flow that has not run; also what is left of one that was dropped.
NewFlow ==
    /\ failure' = "none" /\ imageRead' = FALSE /\ calBefore' = "none" /\ took' = FALSE
    /\ root' = "none" /\ strays' = {} /\ lastHello' = "none" /\ reported' = "none"
    /\ notice' = "none" /\ wrote' = FALSE /\ stood' = {}
Dropped == open' = "none" /\ at' = 0 /\ retryFrom' = 0 /\ kind' = "usb" /\ NewFlow

\* inputsChanged(): the watch, and the dialog of a Gateway that left its drive.
InputsChanged(l) ==
    /\ Rewatch(l, open, cut)
    /\ IF open = "confirm" /\ kind = "drive" /\ l = "up" THEN Dropped
       ELSE UNCHANGED <<open, at, retryFrom, kind, failure, imageRead, calBefore, took, root,
                        strays, lastHello, reported, notice, wrote, stood>>
    /\ UNCHANGED <<gw, other, firmware, calibrated, inBoot, cut, await, looking>>

LinkOnly == UNCHANGED <<boards, looking>>

LinkUp ==
    /\ link = "look" /\ gw = "port" /\ asks < MaxAsks
    /\ link' = "up" /\ asks' = asks + 1 /\ Forgets
    /\ InputsChanged("up") /\ UNCHANGED held

LinkLost ==
    /\ link = "up" /\ gw # "port"
    /\ link' = "look" /\ Forgets
    /\ InputsChanged("look") /\ UNCHANGED <<held, asks>>

Disconnect ==
    /\ link # "off" /\ link' = "off" /\ Forgets
    /\ InputsChanged("off") /\ UNCHANGED <<held, asks>>

Connect ==
    /\ link = "off" /\ ~held /\ link' = "look"
    /\ InputsChanged("look") /\ UNCHANGED <<held, asks, reading, snap>>

\* usbFirmware(): the release HELLO named, or "none" when it went unanswered.
HelloAnswered(v) ==
    /\ LET ours == open # "none" /\ kind # "cockpit"
       IN  /\ lastHello' = IF ours /\ v # "none" THEN v ELSE lastHello
           /\ IF ours /\ await = "hello"
              THEN reported' = v /\ await' = (IF v = "none" THEN "still" ELSE "ver")
              ELSE UNCHANGED <<reported, await>>
    /\ UNCHANGED <<imageRead, calBefore, took, root, strays, notice, wrote>>
    /\ UNCHANGED <<dialog, watchVars>> /\ LinkOnly

\* A read begun on a connect that ended asks whichever port is open by then.
HelloComes ==
    /\ asks > 0 /\ asks' = asks - 1
    /\ link = "up" /\ gw = "port" /\ reading' = TRUE
    /\ UNCHANGED <<link, held, snap>>
    /\ HelloAnswered(firmware)

HelloFails ==
    /\ asks > 0 /\ asks' = asks - 1
    /\ UNCHANGED <<link, held, reading, snap>>
    /\ HelloAnswered("none")

CalibrationRead ==
    /\ reading /\ link = "up" /\ gw = "port" /\ reading' = FALSE
    /\ snap' \in {"none", IF calibrated THEN "kept" ELSE "lost"}
    /\ UNCHANGED <<link, held, asks, dialog, flowVars, watchVars>> /\ LinkOnly

---------------------------------------------------------------------------
(***************************************************************************)
(* The USB side's run                                                      *)
(***************************************************************************)
Fails(f, n, retry) ==
    /\ open' = "fail" /\ failure' = f /\ at' = n /\ retryFrom' = retry /\ await' = "idle"
    /\ Rewatch(link, "fail", FALSE)
    /\ UNCHANGED <<kind, cut>>

Goes(n, next) ==
    /\ at' = n /\ await' = next
    /\ UNCHANGED <<open, kind, retryFrom, failure, cut, watchVars>>

\* What a step of the run leaves alone, but for the variables it names itself.
RunKeeps == UNCHANGED <<imageRead, calBefore, notice, looking>>
Untouched == UNCHANGED <<boards, portVars>>

\* The step a run starts or goes on at.
FirstAwait(n) ==
    CASE n = 0 -> "take"
      [] n = 1 /\ root # "none" -> "drive"
      [] n = 1 /\ root = "none" -> "present"
      [] n >= 2 -> "rec"

\* A copy step begins: only a HELLO after this copy counts.
ForgetsHello(n) == lastHello' = IF n = 1 THEN "none" ELSE lastHello

\* handBack(): the link looks for the board again, whatever the user left it at.
HandBack == held' = FALSE /\ link' = IF link = "off" THEN "look" ELSE link

\* reconnect(): a HELLO that came since counts; else the run waits for one.
BeginReconnect ==
    /\ await = "rec"
    /\ HandBack
    /\ IF lastHello # "none" THEN reported' = lastHello /\ Goes(2, "ver")
                             ELSE reported' = "none" /\ Goes(2, "hello")
    /\ RunKeeps /\ UNCHANGED <<boards, asks, reading, snap, took, root, strays, lastHello, wrote>>

ImageRead ==
    /\ await = "image"
    /\ \/ /\ imageRead' = TRUE /\ Goes(at, FirstAwait(at)) /\ ForgetsHello(at)
       \/ /\ Fails("image", at, at) /\ UNCHANGED <<imageRead, lastHello>>
    /\ Untouched
    /\ UNCHANGED <<calBefore, took, root, strays, reported, notice, wrote, looking>>

\* takeForUpdate(), resolved: the board's path is the open or enumerated port.
Take ==
    /\ await = "take"
    /\ held' = TRUE /\ link' = "off" /\ Forgets
    /\ took' = TRUE /\ lastHello' = "none" /\ root' = "none" /\ wrote' = FALSE
    /\ stood' = {}
    /\ at' = 0 /\ await' = IF Present THEN "list" ELSE "many"
    /\ Rewatch("off", "run", FALSE)
    /\ UNCHANGED <<open, kind, retryFrom, failure, cut, asks, strays, reported>>
    /\ UNCHANGED <<gw, other, firmware, calibrated, inBoot>> /\ RunKeeps

\* The drives mounted before the touch are other boards'.
ListStrays ==
    /\ await = "list"
    /\ strays' = Mounted /\ stood' = {o \in Others : other[o] \in Roots}
    /\ Goes(0, "touch")
    /\ UNCHANGED <<gw, other, firmware, calibrated, inBoot, portVars, took, root, lastHello,
                   reported, wrote>> /\ RunKeeps

Touch ==
    /\ await = "touch"
    /\ \/ gw' = gw
       \/ gw = "port" /\ gw' = "toDrive"
    /\ Goes(0, "drive")
    /\ UNCHANGED <<other, firmware, calibrated, inBoot, stood, portVars, took, root, strays,
                   lastHello, reported, wrote>> /\ RunKeeps

\* No port: the Gateway's drive is the one mounted now, unless several are.
ManyDrives ==
    /\ await \in {"many", "count"}
    /\ strays' = IF await = "many" THEN {} ELSE strays
    /\ IF Cardinality(Mounted) > 1 THEN Fails("many", at, at) ELSE Goes(at, "drive")
    /\ Untouched /\ UNCHANGED <<took, root, lastHello, reported, wrote>> /\ RunKeeps

\* From the drive: a Gateway that enumerates has left it.
LeftDrive ==
    /\ await = "present"
    /\ IF Present THEN Fails("left", 1, 1) ELSE Goes(1, "count")
    /\ Untouched
    /\ UNCHANGED <<took, root, strays, lastHello, reported, wrote>> /\ RunKeeps

\* The drive used before, if it is mounted; else one that was not there at
\* the touch.
\* Mutant: any drive that is mounted.
AnyDrive == IF root \in Mounted THEN {root} ELSE Mounted
ItsDrive == IF root \in Mounted THEN {root} ELSE Mounted \ strays

DriveFound ==
    /\ await = "drive" /\ root' \in ItsDrive
    /\ IF at = 0 THEN Goes(1, "drive") /\ ForgetsHello(1)     \* the copy step begins
                 ELSE Goes(1, "write") /\ UNCHANGED lastHello
    /\ Untouched /\ UNCHANGED <<took, strays, reported, wrote>> /\ RunKeeps

NoDrive ==
    /\ await = "drive" /\ ItsDrive = {} /\ root' = "none"
    /\ IF at = 0 THEN Fails("no-drive", 0, 0) ELSE Fails("copy", 1, 1)
    /\ Untouched /\ UNCHANGED <<took, strays, lastHello, reported, wrote>> /\ RunKeeps

\* The copy: the board restarts as the last block lands.  The update may
\* clear the calibration it holds.
Write ==
    /\ await = "write"
    /\ \/ /\ gw = root /\ gw' = "toApp" /\ firmware' = "new"
          /\ calibrated' \in {calibrated, FALSE} /\ wrote' = TRUE
          /\ UNCHANGED other
       \/ \E o \in Others :
            /\ other[o] = root /\ other' = [other EXCEPT ![o] = "away"] /\ wrote' = TRUE
            /\ UNCHANGED <<gw, firmware, calibrated>>
    /\ Goes(1, "rec")
    /\ UNCHANGED <<inBoot, stood, portVars, took, root, strays, lastHello, reported>>
    /\ RunKeeps

WriteFails ==
    /\ await = "write" /\ Fails("copy", 1, 1)
    /\ Untouched /\ UNCHANGED <<took, root, strays, lastHello, reported, wrote>> /\ RunKeeps

\* Mutant: it looks for the Gateway again.
LooksAgain ==
    /\ await = "hello" /\ Goes(1, "rec")
    /\ Untouched /\ UNCHANGED <<took, root, strays, lastHello, reported, wrote>> /\ RunKeeps

HelloTimeout ==
    /\ await = "hello" /\ Goes(2, "still")
    /\ Untouched /\ UNCHANGED <<took, root, strays, lastHello, reported, wrote>> /\ RunKeeps

\* Still in its drive: the copy did not take, so Retry copies again.
RetryAfterSilence == IF root \in Mounted THEN 1 ELSE 2

NoReconnect ==
    /\ await = "still" /\ Fails("no-reconnect", 2, RetryAfterSilence)
    /\ Untouched /\ UNCHANGED <<took, root, strays, lastHello, reported, wrote>> /\ RunKeeps

CheckVersion ==
    /\ await = "ver"
    /\ IF reported = "new" THEN Goes(3, "cal") ELSE Fails("wrong-version", 3, 0)
    /\ reported' = "none"
    /\ Untouched /\ UNCHANGED <<took, root, strays, lastHello, wrote>> /\ RunKeeps

Succeeds ==
    /\ open' = "done" /\ at' = 3 /\ await' = "idle"
    /\ Rewatch(link, "done", FALSE)
    /\ UNCHANGED <<kind, retryFrom, failure, cut>>

\* Cleared: held before and not now; with no reading before, what the saved
\* copy has and the Gateway does not.
Cleared ==
    /\ snap = "lost"
    /\ \/ calBefore = "kept"
       \/ calBefore = "none" /\ HasCopy

CalibrationSeen ==
    /\ await = "cal" /\ snap # "none"
    /\ IF Cleared /\ HasCopy THEN Goes(3, "restore") /\ UNCHANGED notice
       ELSE Succeeds /\ notice' = IF Cleared THEN "no-copy" ELSE "none"
    /\ Untouched
    /\ UNCHANGED <<took, root, strays, lastHello, reported, wrote, imageRead, calBefore, looking>>

CalibrationTimeout ==
    /\ await = "cal" /\ snap = "none" /\ Succeeds /\ notice' = "unread"
    /\ Untouched
    /\ UNCHANGED <<took, root, strays, lastHello, reported, wrote, imageRead, calBefore, looking>>

\* restoreSaved(): each axis is committed and read back.
Restore ==
    /\ await = "restore" /\ Succeeds
    /\ \/ /\ link = "up" /\ gw = "port"
          /\ calibrated' = TRUE /\ snap' = "kept" /\ notice' = "restored"
       \/ UNCHANGED <<calibrated, snap>> /\ notice' = "failed"
    /\ UNCHANGED <<gw, other, firmware, inBoot, stood, link, held, asks, reading>>
    /\ UNCHANGED <<took, root, strays, lastHello, reported, wrote, imageRead, calBefore, looking>>

Timeouts == NoDrive \/ HelloTimeout \/ CalibrationTimeout

RunStep ==
    \/ BeginReconnect \/ ImageRead \/ Take \/ ListStrays \/ Touch \/ ManyDrives \/ LeftDrive
    \/ DriveFound \/ Write \/ WriteFails \/ NoReconnect \/ CheckVersion \/ CalibrationSeen
    \/ Restore \/ Timeouts

---------------------------------------------------------------------------
(***************************************************************************)
(* The dialog                                                              *)
(***************************************************************************)
HostKeeps == UNCHANGED <<boards, asks, reading, snap, looking>>

\* openUpdate(): refused only while an update runs.
OpenUpdate(k) ==
    /\ open # "run"
    /\ k # "cockpit" => (k = "drive") = (link # "up" /\ drives > 0)
    /\ LET first == IF k = "drive" THEN 1 ELSE 0
       IN  open' = "confirm" /\ kind' = k /\ at' = first /\ retryFrom' = first
    /\ NewFlow
    /\ UNCHANGED <<gw, other, firmware, calibrated, inBoot, portVars, cut, await, watchVars,
                   looking>>

\* run(): the image is read once, and the calibration of before.
Runs(from) ==
    /\ kind # "cockpit"
    /\ open' = "run" /\ at' = from /\ failure' = "none"
    /\ calBefore' = IF failure = "none" THEN snap ELSE calBefore     \* at the first run
    /\ IF imageRead THEN await' = FirstAwait(from) /\ ForgetsHello(from)
                ELSE await' = "image" /\ UNCHANGED lastHello
    /\ Rewatch(link, "run", FALSE)
    /\ UNCHANGED <<kind, retryFrom, cut, imageRead, took, root, strays, reported, notice, wrote>>
    /\ UNCHANGED <<link, held>> /\ HostKeeps

Checks == IF kind = "drive" THEN drives = 1 ELSE link = "up"
First == IF kind = "drive" THEN 1 ELSE 0

StartUpdate == open = "confirm" /\ Checks /\ Runs(retryFrom)

Retry == open = "fail" /\ Runs(IF retryFrom > First THEN retryFrom ELSE First)

\* close(): a failed run's port goes back.
GivesBack == IF open = "fail" /\ kind # "cockpit" /\ took THEN HandBack
                                                         ELSE UNCHANGED <<link, held>>

Close ==
    /\ open \in {"confirm", "fail", "done"}
    /\ Dropped /\ GivesBack
    /\ Rewatch(link', "none", FALSE)
    /\ UNCHANGED <<gw, other, firmware, calibrated, inBoot, asks, reading, snap, cut, await,
                   looking>>

\* The cockpit side's run: it starts, loses its Gateway and finds it again,
\* is left, and ends; one that wrote nothing leaves the board in its
\* bootloader for a while.
CockpitKeeps ==
    /\ UNCHANGED <<gw, other, firmware, calibrated, stood, portVars, kind, looking>>
    /\ UNCHANGED <<imageRead, calBefore, took, root, strays, lastHello, reported, notice, wrote>>

CockpitRun ==
    /\ kind = "cockpit"
    /\ \/ open = "confirm" /\ Checks
       \/ open = "fail"
    /\ open' = "run" /\ await' = "cockpit" /\ failure' = "none"
    /\ settling' = FALSE /\ watching' = WatchFor(link, "run", FALSE)
    /\ UNCHANGED <<drives, at, retryFrom, cut, inBoot>> /\ CockpitKeeps

CockpitCut ==
    /\ await = "cockpit" /\ open = "run" /\ cut' = (link # "up") /\ cut' # cut
    /\ Rewatch(link, "run", cut')
    /\ UNCHANGED <<open, await, failure, at, retryFrom, inBoot>> /\ CockpitKeeps

\* detach(): the run ends with its wait, and nobody reads its result.
CockpitLeave ==
    /\ await = "cockpit" /\ cut
    /\ Dropped /\ cut' = FALSE /\ await' = "idle"
    /\ Rewatch(link, "none", FALSE)
    /\ UNCHANGED <<gw, other, firmware, calibrated, inBoot, portVars, looking>>

\* Refused: the board waits in its bootloader, and settling() expects it.  A
\* run that ended otherwise is taken to have outlasted an earlier wait.
CockpitEnds(refused) ==
    /\ await = "cockpit" /\ ~cut /\ await' = "idle"
    /\ \/ open' = "done" /\ ~refused /\ UNCHANGED failure
       \/ open' = "fail" /\ failure' = "cockpit"
    /\ inBoot' = refused /\ settling' = refused
    /\ watching' = WatchFor(link, open', FALSE)
    /\ UNCHANGED <<drives, at, retryFrom, cut>> /\ CockpitKeeps

\* The cockpit side leaves its bootloader by itself (Boot::IDLE_TIMEOUT_MS),
\* and the settle timer, if it still runs, ends with it.
LeavesBoot ==
    /\ inBoot /\ inBoot' = FALSE /\ settling' = FALSE
    /\ UNCHANGED <<gw, other, firmware, calibrated, stood, portVars, dialog, flowVars, watching,
                   drives, looking>>

---------------------------------------------------------------------------
Moves ==
    /\ moves < MaxMoves /\ moves' = moves + 1
    /\ \/ \E to \in Roots \cup {"port", "away"} : MoveGateway(to)
       \/ \E o \in Others, to \in Free \cup {"away"} : MoveOther(o, to)
       \/ Disconnect

Intents ==
    \/ Connect \/ \E k \in Kinds : OpenUpdate(k)
    \/ StartUpdate \/ Retry \/ Close \/ CockpitRun \/ CockpitLeave

Events ==
    \/ Restarts \/ LeavesBoot \/ BeginLook \/ LookList
    \/ LinkUp \/ LinkLost \/ HelloComes \/ HelloFails \/ CalibrationRead
    \/ CockpitCut \/ \E refused \in BOOLEAN : CockpitEnds(refused)

HostNext ==
    \/ Moves
    \/ Intents /\ UNCHANGED moves
    \/ Events /\ UNCHANGED moves
    \/ RunStep /\ UNCHANGED moves

HostSpec == HostInit /\ [][HostNext]_hostVars

\* The steps of a run follow one another, and its waits end; the cockpit
\* side's run is CockpitUpdate's.
FairHostSpec == HostSpec /\ WF_hostVars(RunStep /\ UNCHANGED moves)

---------------------------------------------------------------------------
(***************************************************************************)
(* Properties                                                              *)
(***************************************************************************)

\* Nothing is written where it should not be, nor twice.  A board that was in
\* its drive when the Gateway was touched, and has not moved since, never
\* receives the Gateway's firmware, whatever drives came and went and however
\* often the run was retried (strays, usb-side-update.ts); and Retry never
\* restarts a Gateway that already took the copy, except one that came back
\* with another version.
WritesAreSafe ==
    /\ [][await = "write" /\ await' # await => \A o \in stood : other'[o] = other[o]]_hostVars
    /\ [](open = "fail" /\ kind # "cockpit" /\ wrote /\ failure # "wrong-version"
           => retryFrom >= 1)

\* The dialog never passes over a calibration the update cleared: if the
\* Gateway held one before and the dialog says nothing or "restored", it
\* holds it now.
NoSilentLoss ==
    open = "done" /\ calBefore = "kept" /\ notice \in {"none", "restored"} => calibrated

\* A run of the USB side ends, whatever happens to the boards and the link.
UsbRunEnds == open = "run" /\ kind # "cockpit" ~> open # "run"
=============================================================================
