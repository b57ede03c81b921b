----------------------------- MODULE HidReader -----------------------------
(***************************************************************************)
(* The joystick reader (src/main/hid/hid-reader.ts, class HidReader): one  *)
(* handle on the board's HID interface, opened for as long as the          *)
(* application runs, released and opened again when it dies or when the    *)
(* serial port's reopening proves that it has (HidService.opened).         *)
(*                                                                         *)
(* What is hard here is that a release is awaited: between closeDevice()   *)
(* and its continuation, other callbacks run.                              *)
(*                                                                         *)
(* External: node-hid (an open settles either way, a close settles, a lost *)
(* device may or may not raise its error), the cable, the serial port.     *)
(*                                                                         *)
(* The operators marked "Mutant" are plausible slips in the definition     *)
(* that follows them; no specification uses them.  Put in its place, each  *)
(* violates the property it names.                                         *)
(***************************************************************************)
EXTENDS Integers, FiniteSets

CONSTANTS
    Devices,     \* node-hid handles that can exist at once
    NoDevice,    \* no handle
    MaxDrops,    \* bound: how often the device drops off the bus
    MaxReopens,  \* bound: how often the serial port opens
    Overlap      \* a release may be asked for while one is under way

ASSUME DevicesAssumption == NoDevice \notin Devices /\ IsFiniteSet(Devices)
ASSUME BoundsAssumption ==
    MaxDrops \in Nat /\ MaxReopens \in Nat /\ Overlap \in BOOLEAN

VARIABLES
    reader,      \* "new", "running", "unavailable" or "stopped"
    device,      \* HidReader.device
    opening,     \* an open is in flight
    timer,       \* the retry timer is armed
    handle,      \* per handle: "none", "open", "lost" or "closing"
    then,        \* what follows the close of a handle: "retry", "reopen", "none"
    immediates,  \* how many of lost()'s setImmediate callbacks are due
    silent,      \* handles that have died without an error event so far
    present,     \* the device is on the bus
    drops, reopens

readerVars == <<reader, device, opening, timer>>
handleVars == <<handle, then, immediates, silent>>
envVars == <<present, drops, reopens>>
vars == <<readerVars, handleVars, envVars>>

TypeOK ==
    /\ reader \in {"new", "running", "unavailable", "stopped"}
    /\ device \in Devices \cup {NoDevice}
    /\ opening \in BOOLEAN
    /\ timer \in BOOLEAN
    /\ handle \in [Devices -> {"none", "open", "lost", "closing"}]
    /\ then \in [Devices -> {"none", "retry", "reopen"}]
    /\ immediates \in 0 .. (IF Overlap THEN Cardinality(Devices) ELSE 1)
    /\ silent \subseteq Devices
    /\ present \in BOOLEAN
    /\ drops \in 0 .. MaxDrops
    /\ reopens \in 0 .. MaxReopens

Init ==
    /\ reader = "new"
    /\ device = NoDevice
    /\ opening = FALSE
    /\ timer = FALSE
    /\ handle = [d \in Devices |-> "none"]
    /\ then = [d \in Devices |-> "none"]
    /\ immediates = 0
    /\ silent = {}
    /\ present \in BOOLEAN
    /\ drops = 0
    /\ reopens = 0

-----------------------------------------------------------------------------
Closing == {d \in Devices : handle[d] = "closing"}

(* No release is under way: none put off by lost(), none awaited.           *)
Calm == immediates = 0 /\ Closing = {}

(* retry() *)
Retry == timer' = (timer \/ reader = "running")

(* closeDevice(), and what its caller chained to it.                        *)
CloseDevice(next) ==
    /\ device' = NoDevice
    /\ handle' = [handle EXCEPT ![device] = "closing"]
    /\ then' = [then EXCEPT ![device] = next]

-----------------------------------------------------------------------------
(* The reader. *)

(* start(): the first open, or the finding that node-hid cannot be loaded,  *)
(* which is never tried again.                                              *)
Start ==
    /\ reader = "new"
    /\ \/ reader' = "running" /\ opening' = TRUE
       \/ reader' = "unavailable" /\ UNCHANGED opening
    /\ UNCHANGED <<device, timer, handleVars, envVars>>

(* The open resolves: its handle is the reader's, or is closed at once when *)
(* the reader was stopped meanwhile.                                        *)
Opened(d) ==
    /\ opening /\ present
    /\ handle[d] = "none"
    /\ opening' = FALSE
    /\ IF reader = "stopped"
       THEN /\ handle' = [handle EXCEPT ![d] = "closing"]
            /\ UNCHANGED device
       ELSE /\ handle' = [handle EXCEPT ![d] = "open"]
            /\ device' = d
    /\ UNCHANGED <<reader, timer, then, immediates, silent, envVars>>

OpenFails ==
    /\ opening
    /\ opening' = FALSE
    /\ Retry
    /\ UNCHANGED <<reader, device, handleVars, envVars>>

(* The retry timer: open(), which does nothing while one is in flight.      *)
RetryFires ==
    /\ timer
    /\ timer' = FALSE
    /\ opening' = TRUE
    /\ UNCHANGED <<reader, device, handleVars, envVars>>

(* When the serial port may open: not twice within one release, which takes *)
(* less than its own retry; nor, unless Overlap, while lost() is at work.   *)
PortOpens ==
    /\ reopens < MaxReopens /\ reopens' = reopens + 1
    /\ \A d \in Closing : then[d] # "reopen"
    /\ Overlap \/ Calm

(* Mutant, NoOrphan: reopen() does not ask whether an open is in flight.    *)
ReopenWhileOpening ==
    /\ PortOpens
    /\ IF reader # "running"
       THEN UNCHANGED <<device, timer, opening, handle, then>>
       ELSE /\ timer' = FALSE
            /\ device' = NoDevice
            /\ opening' = TRUE
            /\ UNCHANGED <<handle, then>>
    /\ UNCHANGED <<reader, immediates, silent, present, drops>>

Reopen ==
    /\ PortOpens
    /\ IF reader # "running" \/ opening
       THEN UNCHANGED <<device, timer, opening, handle, then>>
       ELSE /\ timer' = FALSE
            /\ IF device = NoDevice
               THEN /\ opening' = TRUE
                    /\ UNCHANGED <<device, handle, then>>
               ELSE /\ CloseDevice("reopen")
                    /\ UNCHANGED opening
    /\ UNCHANGED <<reader, immediates, silent, present, drops>>

(* lost(): the error of a handle, once; the release is put off.             *)
Lost(d) ==
    /\ d \in silent
    /\ Overlap \/ Closing = {}
    /\ silent' = silent \ {d}
    /\ immediates' = immediates + 1
    /\ UNCHANGED <<readerVars, handle, then, envVars>>

(* The put-off release closes whatever handle the reader has by now.        *)
LostReleases ==
    /\ immediates > 0
    /\ immediates' = immediates - 1
    /\ IF device = NoDevice
       THEN Retry /\ UNCHANGED <<device, handle, then>>
       ELSE CloseDevice("retry") /\ UNCHANGED timer
    /\ UNCHANGED <<reader, opening, silent, envVars>>

(* Mutant, ListensInTheEnd: the continuation of a close never retries.         *)
ClosedForGood(d) ==
    /\ handle[d] = "closing"
    /\ handle' = [handle EXCEPT ![d] = "none"]
    /\ then' = [then EXCEPT ![d] = "none"]
    /\ silent' = silent \ {d}
    /\ opening' = (opening \/ (then[d] = "reopen" /\ reader = "running"))
    /\ UNCHANGED <<reader, device, timer, immediates, envVars>>

(* node-hid has finished closing a handle: the continuation.                *)
Closed(d) ==
    /\ handle[d] = "closing"
    /\ handle' = [handle EXCEPT ![d] = "none"]
    /\ then' = [then EXCEPT ![d] = "none"]
    /\ silent' = silent \ {d}
    /\ opening' = (opening \/ (then[d] = "reopen" /\ reader = "running"))
    /\ IF then[d] = "retry" THEN Retry ELSE UNCHANGED timer
    /\ UNCHANGED <<reader, device, immediates, envVars>>

Stop ==
    /\ reader \in {"running", "unavailable"}
    /\ reader' = "stopped"
    /\ timer' = FALSE
    /\ IF device = NoDevice THEN UNCHANGED <<device, handle, then>>
                            ELSE CloseDevice("none")
    /\ UNCHANGED <<opening, immediates, silent, envVars>>

-----------------------------------------------------------------------------
(* The device (external). *)

Drop ==
    /\ present
    /\ drops < MaxDrops /\ drops' = drops + 1
    /\ present' = FALSE
    /\ handle' = [d \in Devices |-> IF handle[d] = "open" THEN "lost"
                                    ELSE handle[d]]
    /\ silent' = silent \cup {d \in Devices : handle[d] = "open"}
    /\ UNCHANGED <<readerVars, then, immediates, reopens>>

Plug ==
    /\ ~present
    /\ present' = TRUE
    /\ UNCHANGED <<readerVars, handleVars, drops, reopens>>

-----------------------------------------------------------------------------
Next ==
    \/ Start \/ OpenFails \/ RetryFires \/ Reopen
    \/ LostReleases \/ Stop \/ Drop \/ Plug
    \/ \E d \in Devices : Opened(d) \/ Lost(d) \/ Closed(d)

Spec == Init /\ [][Next]_vars

(* node-hid settles what it was asked, and opens a device that stays; the   *)
(* event loop runs what is due.  Nothing says an error event comes.         *)
Fairness ==
    /\ WF_vars(OpenFails \/ \E d \in Devices : Opened(d))
    /\ SF_vars(\E d \in Devices : Opened(d))
    /\ WF_vars(RetryFires) /\ WF_vars(LostReleases)
    /\ \A d \in Devices : WF_vars(Closed(d))

FairSpec == Spec /\ Fairness

-----------------------------------------------------------------------------
(* Properties. *)

(* No handle is open but the reader's own: "the orphan would go on emitting *)
(* reports into a reader that no longer knows it exists".                   *)
NoOrphan == \A d \in Devices : handle[d] \in {"open", "lost"} => d = device

(* An open never begins while the previous handle is still unwinding.       *)
OpensNeverOverlap == opening => Closing = {}

(* A device that stays, and whose losses were all heard of or whose port    *)
(* reopened since, is listened to in the end.                               *)
ListensInTheEnd ==
    <>[](present /\ reader = "running" /\ silent = {}) =>
        <>[](device # NoDevice)

=============================================================================
