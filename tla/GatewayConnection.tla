------------------------- MODULE GatewayConnection -------------------------
(***************************************************************************)
(* The Gateway's serial port: who holds it, who is looking for it, and     *)
(* what the link says of it.                                               *)
(*                                                                         *)
(* src/main/gateway/gateway-connection.ts (GatewayConnection) decides when *)
(* there is a link; src/main/gateway/serial-bridge.ts (SerialBridge) finds,*)
(* opens and retries the port.  Each connect() makes a bridge of its own;  *)
(* one that was stopped lives on until what it awaited has settled.  A     *)
(* firmware update may take the port from the link and hand it back.       *)
(*                                                                         *)
(* External: the operating system's ports (one program handle at a time    *)
(* holds the board's port), the cable, and node-serialport's events.       *)
(*                                                                         *)
(* The operators marked "Mutant" are plausible slips in the definition     *)
(* that follows them; no specification uses them.  Put in its place, each  *)
(* violates the property it names.                                         *)
(***************************************************************************)
EXTENDS Integers

CONSTANTS
    Bridges,    \* SerialBridge objects that can exist at once
    NoBridge,   \* no bridge at all
    MaxClicks   \* bound: what the user and the update do in one behaviour

ASSUME BridgesAssumption == NoBridge \notin Bridges
ASSUME ClicksAssumption == MaxClicks \in Nat

VARIABLES
    plugged,      \* the board enumerates as a serial port
    stopped,      \* SerialBridge.stopped, per bridge
    phase,        \* what the bridge's open attempt awaits; "idle" is ~opening
    timer,        \* how many retry timers the bridge has armed
    handle,       \* the bridge's `port`
    closing,      \* a handle of the bridge being closed: by stop(), or late
    serial,       \* GatewayConnection.serial
    status,       \* GatewayConnection.status.state
    autoConnect,
    app,          \* "launch", "running" or "quit"
    held,         \* a firmware update holds the port
    update,       \* takeForUpdate: "none", "releasing" or "taken"
    waitsFor,     \* the bridge whose release takeForUpdate awaits
    link,         \* what the link's riders were last told of the port
    clicks

bridgeVars == <<stopped, phase, timer, handle, closing>>
linkVars == <<serial, status, link>>
updateVars == <<held, update, waitsFor>>
vars == <<plugged, bridgeVars, linkVars, autoConnect, app, updateVars, clicks>>

States == {"disconnected", "scanning", "no-device", "error", "connected",
           "reconnecting"}

TypeOK ==
    /\ plugged \in BOOLEAN
    /\ stopped \in [Bridges -> BOOLEAN]
    /\ phase \in [Bridges -> {"idle", "listing", "opening"}]
    /\ timer \in [Bridges -> 0 .. 1]
    /\ handle \in [Bridges -> {"none", "opening", "open", "lost", "failed",
                               "dead"}]
    /\ closing \in [Bridges -> {"no", "stop", "late"}]
    /\ serial \in Bridges \cup {NoBridge}
    /\ status \in States
    /\ autoConnect \in BOOLEAN
    /\ app \in {"launch", "running", "quit"}
    /\ held \in BOOLEAN
    /\ update \in {"none", "releasing", "taken"}
    /\ waitsFor \in Bridges \cup {NoBridge}
    /\ link \in {"none", "waiting", "open"}
    /\ clicks \in 0 .. MaxClicks

Init ==
    /\ plugged \in BOOLEAN
    /\ stopped = [b \in Bridges |-> TRUE]
    /\ phase = [b \in Bridges |-> "idle"]
    /\ timer = [b \in Bridges |-> 0]
    /\ handle = [b \in Bridges |-> "none"]
    /\ closing = [b \in Bridges |-> "no"]
    /\ serial = NoBridge
    /\ status = "disconnected"
    /\ autoConnect = TRUE
    /\ app = "launch"
    /\ held = FALSE
    /\ update = "none"
    /\ waitsFor = NoBridge
    /\ link = "none"
    /\ clicks = 0

-----------------------------------------------------------------------------
(* The port as the operating system sees it. *)

(* A handle that keeps the port from being opened again. *)
Holds(b) == handle[b] = "open" \/ closing[b] # "no"

(* Nothing of the bridge is left: its object can be a new one. *)
Gone(b) ==
    /\ stopped[b] /\ phase[b] = "idle" /\ closing[b] = "no"
    /\ b # serial /\ b # waitsFor

-----------------------------------------------------------------------------
(* SerialBridge. *)

Live(b) == ~stopped[b]

(* retry(): at most one timer, none once stopped. *)
RetryFrom(b) == IF stopped[b] \/ timer[b] > 0 THEN timer
                ELSE [timer EXCEPT ![b] = @ + 1]

(* teardown() and, unless `new` is NoBridge, a fresh bridge that starts     *)
(* looking.  stop() only begins the release of an open port; a handle that  *)
(* is opening is left to the open's callback.                               *)
Replace(new) ==
    /\ serial' = new
    /\ stopped' = [b \in Bridges |-> b # new /\ (stopped[b] \/ b = serial)]
    /\ phase' = [b \in Bridges |-> IF b = new THEN "listing" ELSE phase[b]]
    /\ timer' = [b \in Bridges |-> IF b = serial THEN 0 ELSE timer[b]]
    /\ handle' = [b \in Bridges |-> IF b = serial THEN "none" ELSE handle[b]]
    /\ closing' = [b \in Bridges |->
                     IF b = serial /\ handle[b] = "open" THEN "stop"
                     ELSE closing[b]]
    /\ link' = IF new = NoBridge THEN "none" ELSE "waiting"

(* The retry timer: openLoop, which does nothing while an attempt is in     *)
(* flight.                                                                  *)
RetryFires(b) ==
    /\ timer[b] > 0
    /\ timer' = [timer EXCEPT ![b] = @ - 1]
    /\ phase' = [phase EXCEPT ![b] = IF @ = "idle" THEN "listing" ELSE @]
    /\ UNCHANGED <<plugged, stopped, handle, closing, linkVars, autoConnect,
                   app, updateVars, clicks>>

(* A stopped bridge's attempt goes no further once the ports are listed. *)
StoppedWhileListing(b) ==
    /\ phase[b] = "listing" /\ stopped[b]
    /\ phase' = [phase EXCEPT ![b] = "idle"]
    /\ UNCHANGED <<plugged, stopped, timer, handle, closing, linkVars,
                   autoConnect, app, updateVars, clicks>>

(* The board's port is listed: release the old handle, build and open one. *)
FindsBoard(b) ==
    /\ phase[b] = "listing" /\ Live(b)
    /\ plugged
    /\ phase' = [phase EXCEPT ![b] = "opening"]
    /\ handle' = [handle EXCEPT ![b] = "opening"]
    /\ UNCHANGED <<plugged, stopped, timer, closing, linkVars, autoConnect,
                   app, updateVars, clicks>>

(* No such port, or the listing itself failed: say so and look again. *)
FindsNone(b) ==
    /\ phase[b] = "listing" /\ Live(b)
    /\ \/ ~plugged /\ status' = "no-device"
       \/ status' = "error"
    /\ phase' = [phase EXCEPT ![b] = "idle"]
    /\ timer' = RetryFrom(b)
    /\ UNCHANGED <<plugged, stopped, handle, closing, serial, link,
                   autoConnect, app, updateVars, clicks>>

(* Mutant, NoLeakedHandle: the callback does not ask whether it was stopped *)
(* while the port opened.                                                   *)
OpenSucceedsUnasked(b) ==
    /\ phase[b] = "opening"
    /\ plugged /\ \A c \in Bridges : ~Holds(c)
    /\ phase' = [phase EXCEPT ![b] = "idle"]
    /\ handle' = [handle EXCEPT ![b] = "open"]
    /\ status' = "connected"
    /\ link' = "open"
    /\ UNCHANGED <<plugged, stopped, timer, closing, serial, autoConnect, app,
                   updateVars, clicks>>

(* port.open's callback, the port opened: onOpen.  Stopped meanwhile, the   *)
(* handle is released here, and nobody awaits it.                           *)
OpenSucceeds(b) ==
    /\ phase[b] = "opening"
    /\ plugged /\ \A c \in Bridges : ~Holds(c)
    /\ phase' = [phase EXCEPT ![b] = "idle"]
    /\ IF stopped[b]
       THEN /\ closing' = [closing EXCEPT ![b] = "late"]
            /\ UNCHANGED <<handle, status, link>>
       ELSE /\ handle' = [handle EXCEPT ![b] = "open"]
            /\ status' = "connected"
            /\ link' = "open"
            /\ UNCHANGED closing
    /\ UNCHANGED <<plugged, stopped, timer, serial, autoConnect, app,
                   updateVars, clicks>>

(* port.open's callback, the open failed: unplugged, or the port is held. *)
OpenFails(b) ==
    /\ phase[b] = "opening"
    /\ phase' = [phase EXCEPT ![b] = "idle"]
    /\ timer' = RetryFrom(b)
    /\ IF stopped[b]
       THEN UNCHANGED <<handle, status>>
       ELSE /\ handle' = [handle EXCEPT ![b] = "failed"]
            /\ status' = "error"
    /\ UNCHANGED <<plugged, stopped, closing, serial, link, autoConnect, app,
                   updateVars, clicks>>

(* Mutant, LinkSettles: the close is reported but never retried.            *)
CloseEventUnretried(b) ==
    /\ phase[b] = "idle" /\ handle[b] \in {"lost", "failed"}
    /\ handle' = [handle EXCEPT ![b] = "dead"]
    /\ link' = "waiting"
    /\ status' = "reconnecting"
    /\ UNCHANGED <<plugged, stopped, phase, timer, closing, serial,
                   autoConnect, app, updateVars, clicks>>

(* The close handler: onClose, then retry().  With auto-connect off a drop  *)
(* is a disconnect().  A port that failed to open may close too, before the *)
(* retry it already has.                                                    *)
CloseEvent(b) ==
    /\ \/ handle[b] = "lost"
       \/ handle[b] = "failed" /\ phase[b] = "idle"
    /\ IF autoConnect
       THEN /\ handle' = [handle EXCEPT ![b] = "dead"]
            /\ timer' = RetryFrom(b)
            /\ link' = "waiting"
            /\ status' = "reconnecting"
            /\ UNCHANGED <<stopped, phase, closing, serial>>
       ELSE /\ Replace(NoBridge)
            /\ status' = "disconnected"
    /\ UNCHANGED <<plugged, autoConnect, app, updateVars, clicks>>

(* The error handler of an open port; its close follows. *)
PortErrors(b) ==
    /\ handle[b] = "open"
    /\ clicks < MaxClicks /\ clicks' = clicks + 1
    /\ handle' = [handle EXCEPT ![b] = "lost"]
    /\ status' = "error"
    /\ UNCHANGED <<plugged, stopped, phase, timer, closing, serial, link,
                   autoConnect, app, updateVars>>

(* The operating system lets go of a handle being closed. *)
HandleCloses(b) ==
    /\ closing[b] # "no"
    /\ closing' = [closing EXCEPT ![b] = "no"]
    /\ UNCHANGED <<plugged, stopped, phase, timer, handle, linkVars,
                   autoConnect, app, updateVars, clicks>>

Plug ==
    /\ ~plugged
    /\ plugged' = TRUE
    /\ UNCHANGED <<bridgeVars, linkVars, autoConnect, app, updateVars, clicks>>

Unplug ==
    /\ plugged
    /\ plugged' = FALSE
    /\ handle' = [b \in Bridges |-> IF handle[b] = "open" THEN "lost"
                                    ELSE handle[b]]
    /\ UNCHANGED <<stopped, phase, timer, closing, linkVars, autoConnect, app,
                   updateVars, clicks>>

-----------------------------------------------------------------------------
(* GatewayConnection. *)

Click == clicks < MaxClicks /\ clicks' = clicks + 1

(* connect() past its early returns. *)
Connecting ==
    \E new \in Bridges :
        /\ Gone(new)
        /\ Replace(new)
        /\ status' = "scanning"

Start ==
    /\ app = "launch"
    /\ app' = "running"
    /\ \E on \in BOOLEAN :
         /\ autoConnect' = on
         /\ IF on THEN Connecting ELSE UNCHANGED <<bridgeVars, linkVars>>
    /\ UNCHANGED <<plugged, updateVars, clicks>>

(* Mutant, HeldLinkStaysDown: the user's Connect reopens the port under an  *)
(* update.                                                                  *)
ConnectThoughHeld ==
    /\ app = "running" /\ Click
    /\ serial = NoBridge \/ status = "error"
    /\ Connecting
    /\ UNCHANGED <<plugged, autoConnect, app, updateVars>>

(* Connect, and after an error the Retry. *)
Connect ==
    /\ app = "running" /\ Click
    /\ ~held
    /\ serial = NoBridge \/ status = "error"
    /\ Connecting
    /\ UNCHANGED <<plugged, autoConnect, app, updateVars>>

Disconnect ==
    /\ app = "running" /\ Click
    /\ Replace(NoBridge)
    /\ status' = "disconnected"
    /\ UNCHANGED <<plugged, autoConnect, app, updateVars>>

SetAutoConnect ==
    /\ app = "running" /\ Click
    /\ autoConnect' = ~autoConnect
    /\ IF ~autoConnect /\ serial = NoBridge /\ ~held
       THEN Connecting
       ELSE UNCHANGED <<bridgeVars, linkVars>>
    /\ UNCHANGED <<plugged, app, updateVars>>

Shutdown ==
    /\ app = "running"
    /\ app' = "quit"
    /\ Replace(NoBridge)
    /\ UNCHANGED <<plugged, status, autoConnect, updateVars, clicks>>

(* takeForUpdate, up to its await; a Retry of the update may take again. *)
TakeForUpdate ==
    /\ app = "running" /\ Click
    /\ update # "releasing"
    /\ held' = TRUE
    /\ update' = "releasing"
    /\ waitsFor' = serial
    /\ Replace(NoBridge)
    /\ UNCHANGED <<plugged, status, autoConnect, app>>

(* takeForUpdate past its await: the release that stop() began is done. *)
Taken ==
    /\ update = "releasing"
    /\ waitsFor # NoBridge => closing[waitsFor] # "stop"
    /\ update' = "taken"
    /\ waitsFor' = NoBridge
    /\ status' = "reconnecting"
    /\ UNCHANGED <<plugged, bridgeVars, serial, link, autoConnect, app, held,
                   clicks>>

(* handBack: connect() with the hold lifted. *)
HandBack ==
    /\ app = "running"
    /\ update = "taken"
    /\ update' = "none"
    /\ held' = FALSE
    /\ IF serial = NoBridge \/ status = "error"
       THEN Connecting
       ELSE UNCHANGED <<bridgeVars, linkVars>>
    /\ UNCHANGED <<plugged, autoConnect, app, waitsFor, clicks>>

-----------------------------------------------------------------------------
User == Start \/ Connect \/ Disconnect \/ SetAutoConnect \/ Shutdown
Update == TakeForUpdate \/ Taken \/ HandBack
Cable == Plug \/ Unplug
Bridge(b) ==
    \/ RetryFires(b) \/ StoppedWhileListing(b)
    \/ FindsBoard(b) \/ FindsNone(b)
    \/ OpenSucceeds(b) \/ OpenFails(b)
    \/ CloseEvent(b) \/ PortErrors(b) \/ HandleCloses(b)

Next == User \/ Update \/ Cable \/ \E b \in Bridges : Bridge(b)

Spec == Init /\ [][Next]_vars

(* Timers fire, awaited calls settle, handles close; faults do not last:    *)
(* a board that stays plugged in is found, and opens, in the end.           *)
Fairness ==
    /\ WF_vars(Taken)
    /\ \A b \in Bridges :
         /\ WF_vars(RetryFires(b)) /\ WF_vars(StoppedWhileListing(b))
         /\ WF_vars(FindsBoard(b) \/ FindsNone(b))
         /\ WF_vars(OpenSucceeds(b) \/ OpenFails(b))
         /\ SF_vars(FindsBoard(b)) /\ SF_vars(OpenSucceeds(b))
         /\ WF_vars(CloseEvent(b)) /\ WF_vars(HandleCloses(b))

FairSpec == Spec /\ Fairness

-----------------------------------------------------------------------------
(* Properties. *)

(* No handle is open but the current bridge's own: a handle of a stopped    *)
(* bridge is closed or being closed, so the process never blocks its own    *)
(* reopen for good.                                                         *)
NoLeakedHandle == \A b \in Bridges : handle[b] = "open" => b = serial

(* Only the current bridge is alive. *)
OneLiveBridge == \A b \in Bridges : Live(b) <=> b = serial

(* While an update holds the port there is no link, and no attempt that was *)
(* not already opening when the hold began gets as far as opening the port. *)
HeldLinkStaysDown == held => serial = NoBridge /\ link = "none"

NothingOpensWhileHeld ==
    [][held' => \A b \in Bridges :
                  phase'[b] = "opening" => phase[b] = "opening"]_vars

(* The link says connected only of a port that is open, or whose close has  *)
(* not been heard of yet; its riders are told the same.  (takeForUpdate     *)
(* says so only after its await, shutdown never.)                           *)
ConnectedMeansOpen ==
    status = "connected" /\ app = "running" /\ update # "releasing" =>
        /\ serial # NoBridge
        /\ handle[serial] \in {"open", "lost"}
        /\ link = "open"

(* A link that is wanted is never abandoned: its port is open, or an        *)
(* attempt is in flight, or exactly one retry is pending.                   *)
AlwaysLooking ==
    serial # NoBridge =>
        \/ handle[serial] \in {"open", "lost"}
        \/ phase[serial] # "idle" /\ timer[serial] = 0
        \/ phase[serial] = "idle" /\ timer[serial] = 1

(* A wanted link to a board that stays plugged in comes up and stays up. *)
LinkComesUp ==
    <>[](plugged /\ serial # NoBridge) => <>[](status = "connected")

(* The update gets its answer. *)
TakeResolves == update = "releasing" ~> update = "taken" \/ app = "quit"

(* The link ends where it was asked to be: up, or in the update's hands. *)
LinkSettles == LinkComesUp /\ TakeResolves
=============================================================================
