# SkyHawkClient in TLA+

TLA+ models of the parts of the SkyHawk client that are hard to test: state machines whose steps are
separated by timers, awaits, serial frames and callbacks. Each is checked with TLC on small
instances; for the core ones, invariants are proved with TLAPS for every value of the constants.

Paths below are relative to the repository (`src/main/...`).

## The system

The client is an Electron application. The main process owns the hardware and every decision; the
renderer draws what it is told (ARCHITECTURE.md). Everything in main runs on one event loop, so a
step of the model is what runs between two awaits, or in one callback; what interleaves are the
callbacks: timers, serial port events, node-hid events, IPC calls and the Gateway's frames.

| Component | State | Operations | What is hard | What makes it correct |
|---|---|---|---|---|
| Gateway link (`gateway-connection.ts`, `serial-bridge.ts`) | the current bridge, link state, auto-connect, an update's hold; per bridge `stopped`, attempt in flight, retry timer, port | start, connect, disconnect, setAutoConnect, takeForUpdate, handBack, shutdown; list, open, error, close, retry | a stopped bridge lives on until what it awaits settles; the port may open after the stop; two callbacks schedule the same retry; an update needs the port alone | one live bridge, no leaked handle, a wanted link is never abandoned, a held link stays down |
| Gateway health (`gateway-health.ts`, driven by `node-hub.ts`) | the oldest request unanswered, the last one, the verdict, a probe in flight, a quiet time | asked, answered, tick, takeProbe, probed, cockpitSide, reset | polls, re-asks, probes, calibrations and updates each stop or restart the clock | a silence is said after a whole window of lost replies, and is said |
| Calibration channel (`cal-link.ts`) | SEQ, pending requests, session, keepalive, assumed expiry | request, open/closeSession, dispatch, close | lost and late frames; a session each side believes or not; the export gate must cover the device's session, not the client's idea of it | the gate is shut while the device streams; every request settles, by its own reply |
| Calibration service, workflow and cache (`hid/calibration/`) | the board's identity and calibration, drafts, the restore cache | open, select, ingest, save, delete, restore, close; board changes | every operation spans several awaits and the board can be swapped at each | what is cached was read back from that board; a closed dialog leaves no session |
| HID reader and service (`hid-reader.ts`, `hid-service.ts`) | the node-hid handle, an open in flight, the retry; the push window | start, reopen, lost, stop; push, flush | release is awaited; a lost device may never say so; pushes are held back | one handle; a device that is there is read; its last report is shown |
| Firmware update (`update/`) | the dialog, the flow, the uploader's state, the boards' drives | open, start, retry, close; stage, flash, settle; touch, copy, reconnect | the Gateway restarts in the middle; answers are lost; the port changes hands; boards of one chip look alike in their drives | a result belongs to its run; no other board is written; a cleared calibration is told |
| DCS relay (`dcs/`) | running, source, timers, recording | run, stop, toggle, reconfigure, replay, record | sockets of an older run; dialogs that stay open while anything else happens | one source, built from the settings as they are; what the relay says of it is so |
| Nodes and mapping (`nodes/`) | the mapping, the roster, bus transitions | status lines, edits, resets, imports, persist | save before adopt, retried load; replies that lack rows; a bridge that restarts | what people were told is what the file says; a board on the bus is not shown offline nor hidden |
| Cockpit snapshot | none (pure) | recompute | | |
| Configuration (`config/`) | files, settings | read, write, restore, transfer | crash between two writes; damaged files; an import over several files | a save is all or nothing, and a good version survives; an import's answer is true |
| Releases and cache (`releases/`) | the check, the cache folder, repairs | check, download, install, read, repair, clear | checks, updates, repairs, retention and Clear share one folder | what an update asked for is there; the list is what is on the disk |
| Event journal, application shell, preload, renderer, generator | see PROJECT.json | | | |

How they interact: the Gateway link tells its riders (calibration service, nodes, health, uploader
channel, HID) when the port opens and closes; the riders send through it. The relay asks the
calibration channel's gate before it forwards. A firmware update takes the port from the link and
hands it back. Most stores save through the same JSON file mechanics.

## Modules

| Module | Models | Kind |
|---|---|---|
| `CalLink`, `CalLink_proofs` | `hid/calibration/cal-link.ts`, and the moments `hid-calibration-service.ts` calls it at | the client's half translated, the Gateway and the wire as environment |
| `CalibrationSession`, `CalibrationSession_proofs` | the dialog: `calibration-workflow.ts`, `workflow-host.ts`, `hid-calibration-service.ts`, `cache-rules.ts` | four classes composed over exchanges that succeed or fail; boards as environment |
| `GatewayConnection`, `GatewayConnection_proofs` | `gateway/gateway-connection.ts` with `gateway/serial-bridge.ts` | both classes composed: a bridge is only ever driven by the link |
| `GatewayWatch` | `gateway/gateway-health.ts`, and how `nodes/node-hub.ts` drives it | a clock, lost replies and the Gateway's two sides as environment; its theorems are in `NodeHub_proofs` |
| `HidReader`, `HidReader_proofs` | `hid/hid-reader.ts`, and when `hid-service.ts` reopens it | with node-hid as environment |
| `HidService` | `hid/hid-service.ts` | extends `HidReader`: the reader and its service composed; its theorems are in `HidReader_proofs` |
| `UpdateHost`, `FirmwareUpdate_proofs` | `update/update-host.ts`, `usb-side-update.ts`, `uf2-drive.ts`, the settle timer of `cockpit-side.ts` | the dialog and the USB side's run, with boards, drives and people as environment |
| `CockpitUpdate`, `FirmwareUpdate_proofs` | `update/cockpit-side-update.ts` over `update/uploader/uploader-client.ts` | the run translated, the Gateway that of `test-harness/fake-uploader.ts` |
| `DcsRelay`, `DcsRelay_proofs` | `dcs/dcs-relay.ts`, `dcs-connection.ts`, `transports.ts`, `replay-source.ts`, `session-recorder.ts`, `ipc.ts` | the relay composed with its sources; sockets and people as environment |
| `NodeMapping`, `NodeHub_proofs` | `nodes/mapping-store.ts`, `mapping-rules.ts`, `mapping-file.ts`, the bus's transitions in `node-hub.ts` | the store, its changes and the bus |
| `NodeRoster`, `NodeHub_proofs` | `nodes/node-status-wire.ts`, asked and fed by `node-hub.ts` | the client's roster over a lossy line; the bridge as environment |
| `AtomicFile` | what a saved file promises | abstract specification |
| `JsonStore`, `Configuration_proofs` | `config/json-store.ts` | the mechanics call by call, with the disk as environment; implements `AtomicFile` |
| `ConfigTransfer` | `config/config-transfer.ts`, `backup-folder.ts` | an import over three files, each written as `JsonStore` does; its theorems are in `Configuration_proofs` |
| `Releases`, `FirmwareUpdate_proofs` | `releases/releases.ts`, `release-cache.ts` | checks, updates, repairs and deletions over one folder |
| `MCNodeHub`, `MCConfiguration` | | instances for TLC of two parts each |

`MCNodeHub` checks `NodeMapping` and `GatewayWatch` in one run, `MCConfiguration` `JsonStore` and
`ConfigTransfer`: the two parts share no state, so that each behaviour is of one of them (`part`)
and the other stands still. Nothing is claimed of how the two interleave.

Definitions carry the source's names where they can. An operator marked *Mutant* is a plausible slip
in the definition after it: with it put in place the property it names is violated, which shows that
the property can fail.

### CalLink

`pending` is the map of requests in flight, keyed by SEQ, with each entry's reply timer; `session`,
`keepalive` (`keepaliveTimer`), `expiry` (`assumedExpiryTimer`) and `deviceTimeout` are the class's
fields. `Send` is `send()`; `Dispatch` is `dispatch()` with the continuation of the promise it
settles, as no other callback can run between the two. `TimeOut`, `KeepaliveFires` and `ExpiryFires`
are the three timers. `Attach`, `Release`, `PortOpens` and `PortCloses` are the link rider's
moments. An assumed expiry armed outside a session (by the continuation of a SESSION_CLOSE that
`close()` rejects) clears what is clear already, or is cleared by the next open: it is left out.

Time is in ticks and a timer that is due fires before time goes on. Requests CalLink treats alike
are one, `EXCHANGE`. `streamAxis`, which only a getter for the tests reads, is left out.

Environment: the Gateway answers frames in order, holds a session with an idle timeout any accepted
frame refreshes, and streams RAW in session. Frames on the way go with the port; the device's
session goes on until its own expiry, as the comment on `close()` says, or went with its power
(`DeviceAfterPort`), so that a port that opens again may meet a device still in session. `openedHere`
tells, for the property, a session opened since the port last opened from one left over. A frame
reaches the device or is lost within a tick; replies may be later than the client waits. Up to
`MaxLost` frames are lost, either way. Unless `StaleReplies`, a number is not given out again while a
reply to its last use is on its way (`ReplyNotOutlived`). Callers make one session change at a time
unless `Overlap`; after a close that failed only the read-back that follows it at once is sent
(`CallerMay`, from `calibration-workflow.ts` and `workflow-host.ts`).

### GatewayConnection

A bridge is one `SerialBridge` object; `connect()` builds a new one each time, and an object is
reused by the model once nothing of the old one is left (`Gone`). `phase` is what `openOnce` awaits
(the port listing, the open); `timer` counts armed retry timers, so that arming two would be seen.
`handle` is the bridge's port, `closing` a handle being closed by `stop()` or, opened too late, by
the open's callback. `link` is what the riders were told last.

`Replace` is `teardown()` and, for `connect()`, the new bridge's start; `CloseEvent` is the port's
close handler through `onClose` to either the retry or, with auto-connect off, `disconnect()`.
`TakeForUpdate`/`Taken` are the two halves of `takeForUpdate` around its await.

External: the operating system gives the port to one handle at a time; a port error is followed by
its close (node-serialport). `HandBack` is offered from "taken" only: what the update flow does
otherwise belongs to its own module.

### HidReader and HidService

`device`, `opening`, `timer` are the class's; `reader` folds `started`, `stopped` and the failed
load of node-hid. A close is awaited: `then` is what the caller chained to it. `immediates` counts
the releases `lost()` has put off with `setImmediate`. A dead handle may or may not say so
(`silent`, `Lost`): no fairness is assumed of its error event, which is the reason `reopen()`
exists. The serial port does not open twice within one release, which takes less than its own
reconnect delay; `Overlap` lets an error event and a reopening meet in one release.

`HidService` numbers the reports the device sends and keeps the number the renderer was last shown.
`PushHid` is the throttle: at once, or by `pushTimer` when the window ends. `NoneLeftUnsent` says
that a report not shown yet has a timer armed for it.

### GatewayWatch

`since` and `sinceLast` are how long ago `askedAt` and `lastAskAt` are, in halves of a re-ask
period; `verdict` is `noAnswer` and `cockpitSilent` in one. `PushTick` is the rider's tick: it
judges (`Judge`), starts the probe and asks again (`ReaskDue`), in the code's order. `Poll5s`,
`Opens`, `Disconnects` and `Unplugs` are the rider's other moments; only a `Disconnects` resets the
watch before the probe that is in flight is let go, as `teardown()` does and a port's own close does
not. `unanswered` and `steady`, for the properties, count the lost replies in a row and the time
since anything outside the client changed.

The Gateway has two sides (`usb`, `bridge`) that stop and recover; a reply takes no time or is lost.
A quiet time outlasts a probe (`Resumes`): a cockpit side's update takes far longer.

### JsonStore and AtomicFile

The store is synchronous: what comes between two of its file system calls is a call that fails or a
crash. `op`, `target` and `step` are where `write()`, `restore()` or the repair of `read()` has got
to in `replace()`: write the temporary file, fsync it, rename it, fsync the folder; `.bak` first.
`disk` is what a read finds now and `maybe` what it may find after a crash: a rename adds to it, the
folder's fsync settles it, and a rename of bytes that were not fsynced adds a torn file. The
contents are numbered by the write that saved them. `spoils` counts what is not the store's doing: a
file damaged by something else, or one that for once cannot be read.

`AtomicFile` says what the callers rely on: a save happens whole or not at all, survives a crash
once acknowledged (where the folder can be fsynced, so not on Windows), and one that was refused may
be there after a crash or not. `Saved` maps the store's main file to it. Nothing is promised of a
file that something else touched; `LastGoodSurvives` is what is left then.

### CalibrationSession

`saving`, `deleting`, `opening`, `resuming` and `closing` are what the five operations of the dialog
await; they run over one another, as the code's async functions do. An exchange is answered while
the port is open (`Answers`), refused, or lost with the port it was sent to. `Reported` is
`setSnapshot()`: the report, the host's `deviceChanged()` and the offer follow one another in one
callback. `Kept` drops the drafts when another board's report comes, `Landed` keeps those a failed
write may not have stored. `stored` is what each board holds, `cached` this computer's copies, and
`origin`, `held` and `erased` the history the properties speak of.

`Leave` is the page going away: a renderer that reloads, whatever the dialog is doing, or the tab
being left. Nothing the view's workflow awaits goes on (`gone()`); what was already sent to the board
or to the cache takes effect, or not (`SessionLeft`, `BoardLeft`). The session is not closed, and
`left` says so: its keepalive runs on until a later dialog opens and closes one, or the port closes.
A tab that is left under a dialog that is up (`attach(false)`: the dialog covers the window, and only
the keyboard gets at the tabs behind it) has its workflow run on, as a delete does here; for the
dialog's other operations that is left out.

`SerialFirst` has a connect read the board's serial before any exchange on the new port is answered.
`Overlaps` lets people act while an exchange of the dialog's own is in flight. `NamelessTwice` lets
two boards in a row go without a serial while drafts are on screen.

### UpdateHost

`await` is what the USB side's run awaits: the image, the port, the listing of drives, the touch, the
drive, the copy, the reconnect, HELLO, the calibration. Boards are people's to move (`Moves`), and
each of the same chip shows the same drive at some path of `Roots`; `strays` are the drives that
were there before the touch. `asks` are connect reads that await HELLO, several when the link came
up again meanwhile. `open` (the code's `open.phase`) and `kind` are the dialog's; `watching`, `looking` and `drives` are the
drive watch's. The cockpit side's run is one wait that ends or is cut off.

### CockpitUpdate

`pc` is what the run awaits: the answer to a request (`info` to `watch`), the Gateway's return
(`cutOff`, where `reconnect()` loops) or the board's row (`row`). A request is one step, taken by
the Gateway or not and answered or not (`Exchange`): the client does nothing between the two, and
the Gateway no more than its flash, which has steps of its own. `partial`, `erased` (`FlashWatch`),
`ours`, `staging` and `missed` are the code's; `result` is what the dialog shows. A flash runs
through `Erase`, `Written` and `FlashEnds`, each telling the client once, or not. The Gateway keeps
its last result and loses it with its power.

`board` is what the cockpit side holds, which no one but its own row tells the client. `erasedIn`,
for the properties, is the run that followed the flash which erased it last. `TIMEOUT` stands for
`VERSION_MISMATCH` too (the board was written and did not come back as asked), `KIND_MISMATCH` for
the other two refusals of a foreign image; NO_RESPONSE comes only before the erase. `Reopen` is the
dialog's Close, a Close that leaves a cut-off run to itself, and the next dialog. Steps, percentages
and notes for the dialog are left out, and so are calibration sessions, which the flow refuses to
start over (`checks()`).

`QuickBoot` lets a USB side that lost power answer again before the client missed `LostAfter` probes
(three seconds). The run excludes it: then `partial` stays false over a status that was missed, and
`RefusedWroteNothing` does not hold.

### DcsRelay

A transport object that was replaced lives until its socket closes: `phase` per transport, `cur` the
one the relay listens to (`Heard`). `built` is the settings it was made from. `said` is the status
the surfaces show. `Configure` is `reconfigure()` with what it rebuilds; `Redials` is the TCP
transport's reconnect; `Plays` the replay's timers. `AskRecord`/`RecordPicked` and
`AskCapture`/`CapturePicked` are the two halves of the intents that open a dialog. What goes through
a source is not modelled, only whether it is up.

### NodeMapping

The file holds each board's membership, its hiding and its power zone. A change reads the mapping
and accesses it again to save it; a file that could not be loaded is tried again at each access
(`Looks`). `Update` is what people do (saved before it is adopted), `Persist` what main does on its
own (applied whether saved or not). `told` is what the last answers said of each board's place, so
that a save that lost something shows. `Tick` is the bus's transitions, every push tick while the
link is up.

### NodeRoster

`shown`, `isComplete`, `burst` and `replying` are the class's; `asked` says whether a request is open
and whether its reply may judge, `judge` how far the hold of an update is. `EndArrives` reconciles
absences only from a reply that is `Whole`. The bridge (external) lists boards it knows, answers a
request with a row for each and an END that counts them, reports changes, and when it starts lists
its own row alone (`BootRoster`): in an update (`RestartsForUpdate`), or with none to hold the roster
(`RestartsOutsideUpdate`; a board may stay in its bootloader past the update's end). `stays`, for the
property, are boards on the bus the client has heard of since the last start of the second kind; the
rows such a start finds on their way are of stays the bridge has forgotten (`Forgotten`).

### ConfigTransfer

An import copies the files, saves a backup when asked, writes the picked targets in `Order` and puts
them back in reverse when one fails (`import.at`). A write that fails, or that a crash cuts short,
leaves one of the outcomes `JsonStore` has (`CutWrite`, `CutRestore`). `memory` is what main holds;
the calibration copies have none. `insured` is the setup before the last import that saved a backup.

### Releases

`queue` is the chain of changes to the cache folder, which run one at a time; `job` is where the
first one is: an install's swap (move aside, place, delete or put back) or a deletion. `check`,
`repair` and `update` are the flows that wait on it; an update holds its version from `findImage`
until it lets go, which starts a retention pass (`LetsGo`). `Ask`, `Match`, `Found` and `Read` are
the two-step read with its repair. `sure` marks an update that asked while its version was saved and
not being deleted. `Restart` ends everything but the disk.

## What is checked

| Run | Shows |
|---|---|
| `cal_link` | With two losses anywhere, late replies, port drops, releases: the gate is shut while the device is in a session opened since the port last opened, one lost frame never costs a live session, a request is settled only by its own reply, every request settles and a closed session ends (`ExchangesEnd`). |
| `cal_session` | Two boards swapped, and the page reloaded, at any await: no board gets endpoints measured on the other, the cache holds what its board was read to hold and offers back no deleted axis, a session is some dialog's or was left by a reload, drafts are dropped only once the board held them, every write ends. |
| `gateway_connection` | No leaked handle, a held link stays down, a wanted link comes up and an update that asked for the port gets it (`LinkSettles`). |
| `hid_reader` | One handle, the reader listens in the end, and no report is left unsent when the push window ends. |
| `configuration` | Failures, crashes and damage between any two calls: a good version survives one damage, and `AtomicFile` is implemented. An import over three files: its answer says what became of each, and the setup before it is in the backups. |
| `update` | Frames lost, links cut and power lost at any point: "done" means installed, "nothing was written" means this run did not erase the board, and every run ends or is left. |
| `update_refused` | violated: a board that an earlier flash erased and that does not answer this one is said to go "back to its old firmware". |
| `update_host` | Boards moved at any await: no other board that stood in its drive is written and Retry never undoes a copy (`WritesAreSafe`), a cleared calibration is never passed over, every run ends. |
| `dcs_relay` | One source feeds the relay, built from the settings as they are; what the relay says is so; a started source gets its stream or its end (`SourceGoesOn`). |
| `node_hub` | What people were told is what the file says, a board on the bus is not hidden, no panel has a power zone outside the cockpit. The Gateway is said to be silent after a whole window of lost replies (`NeverHasty`), and is said to be within two windows and two probes, and not for longer than a poll once it answers (`HealthIsTrue`). |
| `node_roster` | A board on the bus, heard of since the bridge last restarted outside an update, is never shown offline; whatever was lost and whenever the bridge restarts, the roster comes to say who is there. |
| `releases` | An update that asks for a saved version gets its image, the list is what is on the disk and nothing there is downloaded again, the newest are kept, everything asked ends. |

### What the runs leave out, and what it shows

Each of these lets in a behaviour the code has and its run excludes, as a constant; with it the
property named does not hold. The three without a constant are in the runs: there the property itself
excepts them, by the history variable that is named, and fails without the exception.

| Constant | Behaviour | Then |
|---|---|---|
| `CalLink` `LossySessionAck` | a SESSION_ACK is lost or late | `GateShutInSession` fails: the device streams with the gate open |
| `CalLink` `Overlap` | two session changes at once | `GateShutInSession` fails: one close's assumed expiry ends the session opened after it |
| `CalLink` `StaleReplies` | a reply later than its number's next use, 255 requests on | `SettledByOwnReply` fails: `dispatch()` takes it for the new request's |
| none (`openedHere`) | a port that closes and opens again before the device's session expires on its side (`cal-link.ts:377`) | `GateShutInSession` does not cover it: `close()` has cleared the session (`cal-link.ts:384`), the device streams, and the gate is open until the session expires or is opened again |
| `HidReader` `Overlap` | an error event while `reopen()` awaits its close | `NoOrphan` fails: a second handle over the first |
| `CockpitUpdate` `QuickBoot` | a Gateway that lost power is back before three probes were missed | `RefusedWroteNothing` fails |
| `CalibrationSession` `SerialFirst = FALSE` | an exchange answered before the new port's serial is known | `NoForeignWrite` fails: the report has the wrong board's stamp |
| `CalibrationSession` `NamelessTwice` | no serial is read of a board after another of which none was: `boardOf()` is null of both (`calibration-workflow.ts:75`, `:639`) | `NoForeignWrite` fails, with three troubles: the drafts of the first are written to the second |
| `CalibrationSession` `Overlaps` | Close while `resume()` awaits; Write during a delete; a capture during its axis's write | `SessionNeedsDialog`, `CacheHonest`, `WriteEnds` and `DraftsKept` fail |
| none (`left`) | the page reloads with the dialog open, or while a session is being opened (`workflow-host.ts:100`, `:115`) | `SessionNeedsDialog` excepts it: nobody closes the session, its keepalive holds the export stream back with no dialog |
| `DcsRelay` `Odds` "reload" | a capture is loaded over the one that plays | `SourceGoesOn` fails: nothing plays, and the relay says it runs |
| `DcsRelay` `Odds` "join" | a multicast group cannot be joined | `SaysWhatIs` fails: connected, and deaf |
| `DcsRelay` `Odds` "twice" | Record is clicked again over its own dialog | the second recording drops the first, which is never saved (no property states it) |
| `NodeMapping` `Odds` "flicker" | the file fails to load and loads within one change | `AnswersKept` fails: a change made from nothing replaces the file |
| `NodeMapping` `Odds` "late", "window", "pages" | a file loaded after a hidden board came; Hide, or an import, before the tick that sees the board | `OnlineBoardsShow` fails |
| `NodeRoster` `RosterOdds` "slow" | a reply as slow as a poll period, after an update | `StaysShown` fails |
| none (`stays`) | the bridge restarts with no update to hold the roster, or after one that left it in its bootloader (`cockpit-side.ts:137`) | `StaysShown` does not cover it: END(1) of its boot roster counts as a whole reply (`node-status-wire.ts:284`), and every board is shown offline until its next heartbeat; that it comes back is `LearnsInTheEnd` |
| `Releases` `Odds` "late", "slow", "twice" | an update asks for a version being deleted; reads a file across a repair's swap; an install fails twice | `AskedIsServed` fails with the first two, `ListIsTrue` with the first and the last |
| `ConfigTransfer` `TransferOdds` "sync" | a folder whose fsync fails after the rename | `AnswerIsTrue` fails: "Nothing was changed", and the file is new |
| `ConfigTransfer` `TransferOdds` "clock" | the clock is set back between two backups | `BackupIsThere` fails |

Seen while modelling, and stated by no property: a crash between an install's two renames leaves the
copy moved aside where the next scan deletes it (`release-cache.ts`); a restore of an import that
fails is said to keep the imported settings (`config-transfer.ts:371`) though the write before put
the old ones back; a press and release within one push window after another push shows only the
release (`hid-service.ts:112`); before the Gateway's first answer nothing is asked again, so two
lost replies and an uploader that answers are enough for "cockpit side not responding", where
`gateway-health.ts:49` counts five; a probe that an unplug cuts is taken for unanswered and logs
"not responding" of a link that is down.

### Bounds

- `CalLink`: three sequence numbers are enough for one request each of the caller's two kinds and
  the keepalive, and for SEQ to wrap; two losses are the least that break a session that survives
  one; ticks are in the code's proportion (1, 2 and 5: reply timeout < keepalive < half the idle
  timeout), and the default timeout, 3, differs from the device's so that using the wrong one shows.
- `CalibrationSession`: two boards and two axes (the one acted on and another), two captures (a new
  one over one being written), two troubles (a swap takes one drop; a serial unread, or a reload with the
  dialog up, the other). The three safety invariants also hold with three troubles (2.2 million
  states), which the run leaves out for its length.
- `GatewayConnection`: three bridges are one current, one still opening and one still closing; four
  clicks are enough for take, hand back, disconnect and connect in any order. The cable is not
  bounded.
- `GatewayWatch`: three re-asks to a window instead of five, and a probe shorter than a window, as
  in the code; three replies lost are a whole window's; two troubles stop a side and bring it back;
  two turns are a link that goes and an update, or two of either.
- `HidReader`: two handles (one closing, one opening), three drops, three reopenings; three reports
  (the first of a window, one held back, one after it).
- `JsonStore`: three writes (one to back up, one to lose, one to save over the damage), two failures
  or crashes, two damages.
- `ConfigTransfer`: two imports (the second may push out the first's backup), three setups (what
  was, what an edit made, what an import brings), two failures (a write and its putting back).
- `CockpitUpdate`: two runs (a run and its Retry, or the next dialog's); two frames lost
  (UPL_FLASH's answer and that of the UPL_INFO after it; a status and the result); contact is lost
  after two probes instead of three. Links and power cycles are not bounded.
- `UpdateHost`: two drive paths and one other board (one each, or both to the wrong one), two moves,
  one connect read in flight beside the run's. Retries are not bounded.
- `DcsRelay`: two transports (one current, one closing), three changes of settings or restarts
  (away, back and one more), one event in a capture (started, played, ended), two recordings. Drops
  are not bounded.
- `NodeMapping`: two PDUs, one of them the registry's, and a panel they can feed. Nothing is bounded
  but the files that can be imported (`Imports`).
- `NodeRoster`: two boards (one told of, one lost), one line under way when more are sent, one line
  lost, each board twice on the bus, two updates, restarts outside one or reopenings. With two lines
  lost and one of these the properties hold too.
- `Releases`: two releases and one kept, so that each install pushes one out; two updates, which can
  share a repair; one failing file operation (the second is "twice").

### Fairness

Weak fairness of whatever the event loop has ready (due timers, settled awaits, events; in `CalLink`
the timers together, `Due`, as one that is due stays so until it fires), and of the
environment's answers: an open settles, a close settles, the Gateway answers what it receives, a
request to GitHub answers or times out, a file operation ends. Strong fairness where the environment
may refuse again and again but does not for ever: a board that stays plugged in is listed and opens
in the end (`LinkSettles`, `ListensInTheEnd`), time passes between exchanges (`Tick`), an uploader
that is asked each second answers once (`Reconnect`), DCS that is dialed again answers
(`SourceGoesOn`), and a poll period after an update every board has sent its heartbeat (`Ripens`,
`Heartbeat`). `NodeRoster` also has `[]<>(lines = <<>>)`: the lines of a reply take less than a poll
period. None is assumed of the user, of losses, of the cable, or of an error event. An update is
assumed to end (`Release`), its own property in `update` and `update_host`.

`node_hub` and `configuration` check safety alone; `HealthIsTrue` counts time in its place.
`CHECK_DEADLOCK FALSE` is set for `hid_reader`, whose stopped reader really stops, and for
`configuration`, whose bounded writes end.

## What is proved

For every set of bridges and every bound (`GatewayConnection_proofs`):

- `Typing`: the type invariant; with it, that no bridge ever has two retry timers.
- `Ownership`: exactly the current bridge is alive, and no other has the port open.
- `NeverAbandoned`: a link that is wanted is open, being attempted, or has its one retry armed.
- `UpdateHoldsThePort`: a held link stays down and nothing opens while held.
- `ConnectedIsTrue`: "connected" is said only of a port that is open or whose close is yet to be
  heard of.

The inductive invariants add to each property what keeps it: a stopped bridge has no timer and no
port of its own, a live one that listens has no port yet, and so on; each is a named conjunction of
parts, and the step lemma has one step per action. Each holds in TLC on its run's instance.

For every set of handles and every bound, without `Overlap` (`HidReader_proofs`): `Typing`, and
`OneHandleAtATime`, whose invariant says where each handle can be while one is being closed. The
service implements its reader (`ServiceDrivesReader`: each step of `HidService` is one of the reader
or leaves it alone, and the reader's fairness is the service's), which carries both theorems over to
it (`ServiceOneHandle`). `EveryReportIsSent` is the service's own, with or without `Overlap`: a
report the renderer has not been shown has the push timer armed for it.

For any sequence space, timeouts, capacities of the wire and number of losses (`CalLink_proofs`):

- `Typing`; and, without `StaleReplies`, `RequestsSettledByTheirOwn`: a request is settled early by
  the reply to its own frame only. The invariant numbers what is on the wire: a frame or a reply that
  carries a pending number is that request's, however often SEQ has wrapped. That no reply outlives
  its number is an assumption about the Gateway: nothing in the code sees to it.
- `GateIsShutInSession`, without `LossySessionAck` and `Overlap`: of a session opened since the port
  last opened, the gate is shut from the device's answer to the open, heard or not, to its answer to a
  close, or to the end of its idle timer, whatever session the port found when it opened. The
  invariant relates the client's assumed expiry to the device's own timer through every frame still
  on the way: a close or an open under way is the only one, and the expiry armed for a lost close
  has at least as long to run as the device.
- `SessionOutlivesOneLoss`, with the same and `TwoFit` (two keepalives fit in the idle timeout; the
  code's are 10 s and 30 s): no one lost frame ends a live session. `KeptAlive` counts what is left
  of the device's timer against the keepalive's and what was lost.

For any set of boards and axes and any number of captures and troubles (`CalibrationSession_proofs`):

- `Typing`.
- `BoardsHoldTheirOwn`, for behaviours in which `ReportsNamed` always holds and without
  `NamelessTwice`, people acting as they like: no board is made to hold an endpoint measured on
  another. `ReportsNamed` says that no report is stamped with another board's serial. The code does
  not see to it (`calRead()` stamps a report with the serial known by then,
  `hid-calibration-service.ts:313`), so it is a hypothesis of the theorem, `[]ReportsNamed`, and no
  exchange needs to wait for the serial for it. `SerialFirstNames` proves it of a link whose serial is
  read first, which is what the run has. `Sourced` follows each value from its
  capture: a draft is of the board the dialog works on, an offer of the board that is named, what is
  being written of the board plugged in, what a board held of that board. It rests on `SerialIsOwn`
  and `OnItsBoard` (the serial known, and the board the dialog acts on, are those of this link) and
  on `CachedIsHeld` (what is kept here of a board it held), each an invariant of its own.
- `CacheIsHonest`, with `[]ReportsNamed` and without `Overlaps`: the copies are what the board was read
  to hold, and what people deleted is not offered. `NotErased` adds that an erased axis has no copy
  and no value, and that no read-back on its way to the cache is of one.
- `SessionIsSomeDialogs`, without `Overlaps`: with no dialog open no session goes on but one that
  expires, or that a page left open when it went. `OneAtATime` says which operations of the dialog may await at the same time.
- `CapturesAreKept`, without `Overlaps`, an action property: a draft goes only when some board held
  it, or people deleted or left it, or another board came. `Traced` says that what a report, a
  read-back or a write speaks of is what a board held, or the draft itself.

For every bound (`Configuration_proofs`): `Typing`; `WholeFile`, that no crash makes half a file;
`LastGood`, that a good version survives one damage, whose invariant `Backed` says that both files
are whole until one is touched, and one after it; and `AllOrNothing`, that the store implements
`AtomicFile`: each step of an untouched store is a step of the promise or changes nothing of it, by
`StepSaved`, with one step per action. Of imports, for any number of setups, imports, failures and
backups kept: `TransferTyping`; `AnswersAreTrue`, without "sync", whose invariant follows the import
forward (what is done is as the file under review has it, the rest as it was) and back (what is not
done any more is as it was, or named), with the copy that a restore puts back; and `BackupsStay`,
without "clock", for which no stamp is later than the clock's. The proof's first step asked for
`MaxSetups` above 0, which the module now assumes: an import's first setup is one that is counted.

For every number of runs, lost frames, probes and chunk tries (`FirmwareUpdate_proofs`): `Typing`;
`FlashedOnce`; `DoneIsInstalled`, by `Truthful`, that the Gateway's result and the board's row are
true of a board that is not being flashed; and, without `QuickBoot`, `RefusedIsUntouched`, by
`ErasedForGood` (after this run's erase neither result nor row speaks of the time before) and
`PowerNoticed` (a result that is gone went with the Gateway's power, which the client misses).

For any drive paths, other boards, moves and reads (the same module, of `UpdateHost`, whose
definitions have names of their own so that one module can extend both): `HostTyping`;
`NothingLostSilently`, by `Known`, that what was read of the calibration was read on this link, that
a linked board is not in its drive, and so that no copy comes between the reading and the dialog's
word; and `CopiesGoToTheGateway`, by `Apart` (a board that stood in its drive at the touch is at one
of `strays`, and the run's drive is none of these) and `Copied` (what a run has copied by each await,
and so where a failure has Retry go on). `RootsAssumption` keeps drive paths apart from the names of
the other places a board can be.

For any number of releases, updates, kept versions and failures (the same module, of `Releases`):

- `NewestAreKept`, with every odd let in. `Pruned`: what is beyond the newest kept is stuck, or the
  pass that runs is deleting it, or a pass is still to come; the pass comes because each update that
  has let go has one in the queue, and one only (`RetainsFit`).
- `TheListIsTrue`, without "late" and "twice". `HeldFits`: nothing that is read is about to be
  deleted, which a pass decides once and Clear before each deletion; so what is repaired stays on the
  list (`RepairsFit`), only a repair installs over what is saved (`SwapFits`), and what a check
  installs is newer than all of it (`ChecksFit`). Until the scan has filled the list nothing goes by
  it (`ScanIsFirst`, `ScanIsAwaited`). A listed version is off its place only in its repair's hands,
  with the copy aside or with one failure already spent (`AsideIsKept`).
- `AskedAreServed`, without "late" and "slow". What was saved when it was asked for is still there
  when it is read (`Promised`), and what was repaired is whole for those who read it again, nobody
  repairing it once more (`RepairedIsGood`).

The queue is treated by what a step does to it: it grows by passes and one install, or its first job
ends (`Grows`, `ExtendsBy`, `Shrinks`).

For every set of transports, and every number of events, changes and recordings (`DcsRelay_proofs`):
`FedByOne` and `AsConfigured`, by an invariant that a transport that is not the current one is
closing or gone, and that the current one was built from the settings of now; without "join",
`SaidIsTrue`, to which is added that what is said of a source comes from the one that is current.

For every set of boards and PDUs and every registry (`NodeHub_proofs`), without "flicker":
`AnswersAreKept` and `ZonesStayInside`; without any of the odds, `BoardsOnTheBusShow`. The invariant says that file and memory are each fine (no
panel's zone is outside the cockpit), that a loaded memory has every board in the place the file
has, and that a memory not loaded is empty, which is what makes a write from the stand-in
impossible. It is kept by a lemma for each change people make, one for the tick and one for the
link's close.

For any window, re-ask period and probe time, and any number of lost replies and troubles (in the
same module, of `GatewayWatch`): `SilenceIsJudgedSlowly`, by `AskedInv`, that the requests unanswered
are at least as many as the age of the oldest makes them, as long as each period asks again; and
`VerdictIsTrue`, a bound in time and so a safety property, by `HeardSoon` (the next poll comes soon
enough) and `MissedSoon`: `Need` is the time it may yet take to say so, a probe that must end first,
the poll, the window and the probe, and each unit of time uses up one of it.

For any set of boards, and any number of lines under way, lines lost, stays, updates, restarts and
reopenings (the same module, of `NodeRoster`), without "slow": `StaysOnTheBusAreShown`, of boards
heard of since the bridge last restarted outside an update. The invariant is about
the lines on their way. `RowsTrue`: what a row says of a stay that still goes on is so. `LinesTell`:
whatever the client will take for a whole reply - the rows before an END, or these with what it has
heard (`burst`), as many as the END counts - names every board it will have heard of by then. It
holds of a reply as sent, because the bridge lists everyone while the client judges
(`BridgeKnows`), and of one that lacks a line, which has too few rows or has lost its END or its
first row, the bridge's; it is kept as lines are appended and as each is heard, and holds of no lines
at all when a hold ends (`Ripens`), which is where "slow" breaks it.

Some of what is proved is not in a run's list because it is no more than the proof's way there, or
is as cheap to prove as to check: `OneLiveBridge`, `AlwaysLooking`, `ConnectedMeansOpen`,
`NothingOpensWhileHeld`, `OpensNeverOverlap`, `NeverHalf`, `OneFlashPerRun`.

Assumptions: those each module declares, and the exclusions stated above, no more.

Every invariant and every action property of the passing runs is a theorem, with the exclusions
stated above. Only model-checked: the liveness properties and whatever needs ENABLED, which the
prover does not reach. No theorem is by induction over data, and no module here declares a RECURSIVE
operator; the least of some axes (`MinIsIn`) is there by the library's well-foundedness of the
naturals.

## Not modelled

- Byte-level parsing: link framing, the diagnostics record, the calibration codec, DCS-BIOS, the
  node status and telemetry wire, UF2 images, firmware manifests. Each is a function of its input,
  with table tests of its own; the models take its output.
- The renderer, which draws what main tells it; the cockpit snapshot, a pure function; the event
  journal, a bounded list with one caller at a time; Electron's windows, IPC and dialogs; the
  generator script and the tables it generates. Together these are most of the repository's lines:
  the map covers the state machines in main and little else.
- Within modelled components: what the PROJECT.json notes name as left out, which is data the
  control does not depend on.

## Plan

1. The port's ownership as an abstract specification that `GatewayConnection` and `UpdateHost` both
   implement; `CockpitUpdate` with a second version to install.
2. Recording in `DcsRelay`: what the capture's file holds when the relay is stopped under it.
