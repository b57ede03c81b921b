---------------------- MODULE GatewayConnection_proofs ----------------------
(***************************************************************************)
(* What holds of the Gateway's port for any number of bridges, with its    *)
(* proof.  The inductive invariant says what an old bridge has left (no    *)
(* handle, no timer) and what the current one is at in every phase of an   *)
(* attempt; the safety properties follow from it.                          *)
(***************************************************************************)
EXTENDS GatewayConnection, TLAPS

(* A bridge that is not the current one has given up its port and timer.    *)
OldBridgesLeaveNothing ==
    \A b \in Bridges : b # serial => handle[b] = "none" /\ timer[b] = 0

(* Where the current bridge is: open, opening, waiting to retry, looking.   *)
Open(b) == handle[b] \in {"open", "lost"} /\ phase[b] = "idle" /\ timer[b] = 0
Opening(b) == handle[b] = "opening" /\ phase[b] = "opening" /\ timer[b] = 0
NoPort(b) == handle[b] \in {"none", "failed", "dead"}
Resting(b) == NoPort(b) /\ phase[b] = "idle" /\ timer[b] = 1
Looking(b) == NoPort(b) /\ phase[b] = "listing" /\ timer[b] = 0

AttemptShape ==
    serial # NoBridge =>
        \/ Open(serial) \/ Opening(serial)
        \/ Resting(serial) \/ Looking(serial)

PortInv == OneLiveBridge /\ OldBridgesLeaveNothing /\ AttemptShape

(* No update can take the port before the application has started.          *)
UnheldAtLaunch == app = "launch" => ~held

Inv == TypeOK /\ PortInv /\ HeldLinkStaysDown /\ UnheldAtLaunch

BridgeTypes ==
    /\ stopped \in [Bridges -> BOOLEAN]
    /\ phase \in [Bridges -> {"idle", "listing", "opening"}]
    /\ timer \in [Bridges -> 0 .. 1]
    /\ handle \in [Bridges -> {"none", "opening", "open", "lost", "failed",
                               "dead"}]
    /\ closing \in [Bridges -> {"no", "stop", "late"}]
    /\ serial \in Bridges \cup {NoBridge}
    /\ link \in {"none", "waiting", "open"}

-----------------------------------------------------------------------------
(* teardown() and connect() leave one bridge in charge, or none: whatever   *)
(* the old one had open or armed is given up.                               *)
LEMMA ReplaceKeepsPort ==
    ASSUME BridgeTypes, PortInv,
           NEW new \in Bridges \cup {NoBridge},
           new \in Bridges => Gone(new),
           Replace(new)
    PROVE  BridgeTypes' /\ PortInv'
<1>1. BridgeTypes'
  BY DEF BridgeTypes, Replace
<1>2. OneLiveBridge'
  BY BridgesAssumption DEF BridgeTypes, PortInv, OneLiveBridge, Live, Replace
<1>3. OldBridgesLeaveNothing'
  BY DEF BridgeTypes, PortInv, OldBridgesLeaveNothing, Replace
<1>4. AttemptShape'
  <2>0. SUFFICES ASSUME serial' # NoBridge
               PROVE  Looking(serial)'
    BY DEF AttemptShape
  <2>1. new \in Bridges /\ new # serial
    BY <2>0 DEF Replace, Gone
  <2>2. handle[new] = "none" /\ timer[new] = 0
    BY <2>1 DEF PortInv, OldBridgesLeaveNothing
  <2> QED
    BY <2>1, <2>2 DEF Looking, NoPort, Replace, BridgeTypes
<1> QED
  BY <1>1, <1>2, <1>3, <1>4 DEF PortInv

(* connect() past its guards. *)
LEMMA ConnectingKeepsPort ==
    ASSUME TypeOK, PortInv, Connecting
    PROVE  BridgeTypes' /\ PortInv' /\ status' \in States
<1>1. PICK new \in Bridges : Gone(new) /\ Replace(new) /\ status' = "scanning"
  BY DEF Connecting
<1>2. BridgeTypes
  BY DEF TypeOK, BridgeTypes
<1> QED
  BY <1>1, <1>2, ReplaceKeepsPort DEF States

(* A release with nothing to follow it. *)
LEMMA ReleaseKeepsPort ==
    ASSUME TypeOK, PortInv, Replace(NoBridge)
    PROVE  /\ BridgeTypes' /\ PortInv'
           /\ serial' = NoBridge /\ link' = "none"
<1>1. BridgeTypes
  BY DEF TypeOK, BridgeTypes
<1> QED
  BY <1>1, ReplaceKeepsPort, BridgesAssumption DEF Replace

(* The initial state. *)
LEMMA InitInv == Init => Inv
<1> SUFFICES ASSUME Init PROVE Inv
  OBVIOUS
<1>1. TypeOK
  <2>1. clicks \in 0 .. MaxClicks
    BY ClicksAssumption DEF Init, ClicksAssumption
  <2>2. BridgeTypes
    BY DEF Init, BridgeTypes
  <2>3. /\ plugged \in BOOLEAN /\ autoConnect \in BOOLEAN /\ held \in BOOLEAN
        /\ waitsFor \in Bridges \cup {NoBridge}
    BY DEF Init
  <2>4. /\ status \in States /\ app \in {"launch", "running", "quit"}
        /\ update \in {"none", "releasing", "taken"}
    BY DEF Init, States
  <2> QED
    BY <2>1, <2>2, <2>3, <2>4 DEF TypeOK, BridgeTypes
<1>2. PortInv
  BY BridgesAssumption DEF Init, PortInv, OneLiveBridge, Live,
     OldBridgesLeaveNothing, AttemptShape
<1>3. HeldLinkStaysDown /\ UnheldAtLaunch
  BY DEF Init, HeldLinkStaysDown, UnheldAtLaunch
<1> QED
  BY <1>1, <1>2, <1>3 DEF Inv

(* What a bridge does on its own. *)
LEMMA BridgeKeepsInv ==
    ASSUME Inv, NEW b \in Bridges, Bridge(b)
    PROVE  Inv'
<1>launch. UnheldAtLaunch'
  BY DEF Inv, UnheldAtLaunch, Bridge, RetryFires, StoppedWhileListing,
     FindsBoard, FindsNone, OpenSucceeds, OpenFails, CloseEvent, PortErrors,
     HandleCloses, updateVars
<1> USE BridgesAssumption, ClicksAssumption
        DEF linkVars, updateVars, bridgeVars, States
<1>0. TypeOK /\ PortInv /\ HeldLinkStaysDown
  BY DEF Inv
<1>1. /\ \A c \in Bridges : Live(c) <=> c = serial
      /\ \A c \in Bridges : c # serial => handle[c] = "none" /\ timer[c] = 0
  BY <1>0 DEF PortInv, OneLiveBridge, OldBridgesLeaveNothing
<1>2. CASE RetryFires(b)
  <2>1. b = serial /\ Resting(b)
    BY <1>0, <1>1, <1>2 DEF RetryFires, PortInv, AttemptShape, Open, Opening,
       Resting, Looking, NoPort, TypeOK
  <2>2. TypeOK'
    BY <1>0, <1>2, <2>1 DEF RetryFires, TypeOK, Resting
  <2>3. PortInv'
    BY <1>0, <1>1, <1>2, <2>1 DEF RetryFires, PortInv, OneLiveBridge, Live,
       OldBridgesLeaveNothing, AttemptShape, Looking, Resting, NoPort, TypeOK
  <2> QED
    BY <1>0, <1>launch, <1>2, <2>2, <2>3 DEF RetryFires, HeldLinkStaysDown, Inv
<1>3. CASE StoppedWhileListing(b)
  <2>1. b # serial
    BY <1>1, <1>3 DEF StoppedWhileListing, Live
  <2>2. TypeOK'
    BY <1>0, <1>3 DEF StoppedWhileListing, TypeOK
  <2>3. PortInv'
    BY <1>0, <1>1, <1>3, <2>1 DEF StoppedWhileListing, PortInv, OneLiveBridge,
       Live, OldBridgesLeaveNothing, AttemptShape, Open, Opening, Resting,
       Looking, NoPort, TypeOK
  <2> QED
    BY <1>0, <1>launch, <1>3, <2>2, <2>3 DEF StoppedWhileListing,
       HeldLinkStaysDown, Inv
<1>4. CASE FindsBoard(b)
  <2>1. b = serial /\ Looking(b)
    BY <1>0, <1>1, <1>4 DEF FindsBoard, PortInv, AttemptShape, Open, Opening,
       Resting, Looking, NoPort
  <2>2. TypeOK'
    BY <1>0, <1>4 DEF FindsBoard, TypeOK
  <2>3. PortInv'
    BY <1>0, <1>1, <1>4, <2>1 DEF FindsBoard, PortInv, OneLiveBridge, Live,
       OldBridgesLeaveNothing, AttemptShape, Looking, Opening, TypeOK
  <2> QED
    BY <1>0, <1>launch, <1>4, <2>2, <2>3 DEF FindsBoard, HeldLinkStaysDown, Inv
<1>5. CASE FindsNone(b)
  <2>1. b = serial /\ Looking(b)
    BY <1>0, <1>1, <1>5 DEF FindsNone, PortInv, AttemptShape, Open, Opening,
       Resting, Looking, NoPort
  <2>2. timer' = [timer EXCEPT ![b] = 1]
    BY <1>0, <1>5, <2>1 DEF FindsNone, RetryFrom, Live, Looking, TypeOK
  <2>3. TypeOK'
    BY <1>0, <1>5, <2>2 DEF FindsNone, TypeOK
  <2>4. PortInv'
    BY <1>0, <1>1, <1>5, <2>1, <2>2 DEF FindsNone, PortInv, OneLiveBridge,
       Live, OldBridgesLeaveNothing, AttemptShape, Looking, Resting, NoPort,
       TypeOK
  <2> QED
    BY <1>0, <1>launch, <1>5, <2>3, <2>4 DEF FindsNone, HeldLinkStaysDown, Inv
<1>6. CASE OpenSucceeds(b)
  <2>1. CASE stopped[b]
    <3>1. b # serial
      BY <1>1, <2>1 DEF Live
    <3>2. TypeOK'
      BY <1>0, <1>6, <2>1 DEF OpenSucceeds, TypeOK
    <3>3. PortInv'
      BY <1>0, <1>1, <1>6, <2>1, <3>1 DEF OpenSucceeds, PortInv,
         OneLiveBridge, Live, OldBridgesLeaveNothing, AttemptShape, Open,
         Opening, Resting, Looking, NoPort, TypeOK
    <3> QED
      BY <1>0, <1>launch, <1>6, <2>1, <3>2, <3>3 DEF OpenSucceeds,
         HeldLinkStaysDown, Inv
  <2>2. CASE ~stopped[b]
    <3>1. b = serial /\ Opening(b)
      BY <1>0, <1>1, <1>6, <2>2 DEF OpenSucceeds, Live, PortInv, AttemptShape,
         Open, Opening, Resting, Looking, NoPort
    <3>2. TypeOK'
      BY <1>0, <1>6, <2>2 DEF OpenSucceeds, TypeOK
    <3>3. PortInv'
      BY <1>0, <1>1, <1>6, <2>2, <3>1 DEF OpenSucceeds, PortInv,
         OneLiveBridge, Live, OldBridgesLeaveNothing, AttemptShape, Open,
         Opening, TypeOK
    <3>4. HeldLinkStaysDown'
      BY <1>0, <1>6, <3>1 DEF OpenSucceeds, HeldLinkStaysDown
    <3> QED
      BY <1>launch, <3>2, <3>3, <3>4 DEF Inv
  <2> QED
    BY <2>1, <2>2
<1>7. CASE OpenFails(b)
  <2>1. CASE stopped[b]
    <3>1. b # serial /\ timer' = timer
      BY <1>1, <1>7, <2>1 DEF Live, OpenFails, RetryFrom
    <3>2. TypeOK'
      BY <1>0, <1>7, <2>1, <3>1 DEF OpenFails, TypeOK
    <3>3. PortInv'
      BY <1>0, <1>1, <1>7, <2>1, <3>1 DEF OpenFails, PortInv, OneLiveBridge,
         Live, OldBridgesLeaveNothing, AttemptShape, Open, Opening, Resting,
         Looking, NoPort, TypeOK
    <3> QED
      BY <1>0, <1>launch, <1>7, <2>1, <3>2, <3>3 DEF OpenFails,
         HeldLinkStaysDown, Inv
  <2>2. CASE ~stopped[b]
    <3>1. b = serial /\ Opening(b)
      BY <1>0, <1>1, <1>7, <2>2 DEF OpenFails, Live, PortInv, AttemptShape,
         Open, Opening, Resting, Looking, NoPort
    <3>2. timer' = [timer EXCEPT ![b] = 1]
      BY <1>0, <1>7, <2>2, <3>1 DEF OpenFails, RetryFrom, Opening, TypeOK
    <3>3. TypeOK'
      BY <1>0, <1>7, <2>2, <3>2 DEF OpenFails, TypeOK
    <3>4. PortInv'
      BY <1>0, <1>1, <1>7, <2>2, <3>1, <3>2 DEF OpenFails, PortInv,
         OneLiveBridge, Live, OldBridgesLeaveNothing, AttemptShape, Opening,
         Resting, NoPort, TypeOK
    <3> QED
      BY <1>0, <1>launch, <1>7, <3>3, <3>4 DEF OpenFails,
         HeldLinkStaysDown, Inv
  <2> QED
    BY <2>1, <2>2
<1>8. CASE CloseEvent(b)
  <2>1. b = serial /\ (Open(b) \/ Resting(b))
    BY <1>0, <1>1, <1>8 DEF CloseEvent, PortInv, AttemptShape, Open, Opening,
       Resting, Looking, NoPort
  <2>2. ~held
    BY <1>0, <2>1 DEF HeldLinkStaysDown
  <2>3. CASE autoConnect
    <3>1. timer' = [timer EXCEPT ![b] = 1]
      BY <1>0, <1>1, <1>8, <2>1, <2>3 DEF CloseEvent, RetryFrom, Open, Resting,
         Live, TypeOK
    <3>2. TypeOK'
      BY <1>0, <1>8, <2>3, <3>1 DEF CloseEvent, TypeOK
    <3>3. PortInv'
      BY <1>0, <1>1, <1>8, <2>1, <2>3, <3>1 DEF CloseEvent, PortInv,
         OneLiveBridge, Live, OldBridgesLeaveNothing, AttemptShape, Open,
         Resting, NoPort, TypeOK
    <3> QED
      BY <1>0, <1>launch, <1>8, <2>2, <3>2, <3>3 DEF CloseEvent,
         HeldLinkStaysDown, Inv
  <2>4. CASE ~autoConnect
    <3>1. Replace(NoBridge)
      BY <1>8, <2>4 DEF CloseEvent
    <3>2. BridgeTypes' /\ PortInv' /\ serial' = NoBridge /\ link' = "none"
      BY <1>0, <3>1, ReleaseKeepsPort
    <3>3. TypeOK'
      BY <1>0, <1>8, <2>4, <3>2 DEF CloseEvent, TypeOK, BridgeTypes
    <3> QED
      BY <1>launch, <3>2, <3>3 DEF HeldLinkStaysDown, Inv
  <2> QED
    BY <2>3, <2>4
<1>9. CASE PortErrors(b)
  <2>1. b = serial /\ Open(b)
    BY <1>0, <1>1, <1>9 DEF PortErrors, PortInv, AttemptShape, Open, Opening,
       Resting, Looking, NoPort
  <2>2. TypeOK'
    BY <1>0, <1>9 DEF PortErrors, TypeOK
  <2>3. PortInv'
    BY <1>0, <1>1, <1>9, <2>1 DEF PortErrors, PortInv, OneLiveBridge, Live,
       OldBridgesLeaveNothing, AttemptShape, Open, TypeOK
  <2> QED
    BY <1>0, <1>launch, <1>9, <2>2, <2>3 DEF PortErrors, HeldLinkStaysDown, Inv
<1>10. CASE HandleCloses(b)
  BY <1>0, <1>launch, <1>10 DEF HandleCloses, TypeOK, PortInv, OneLiveBridge,
     Live,
     OldBridgesLeaveNothing, AttemptShape, Open, Opening, Resting, Looking,
     NoPort, HeldLinkStaysDown, Inv
<1> QED
  BY <1>2, <1>3, <1>4, <1>5, <1>6, <1>7, <1>8, <1>9, <1>10 DEF Bridge

(* What the user, an update and the cable do. *)
LEMMA OtherKeepsInv ==
    ASSUME Inv, User \/ Update \/ Cable
    PROVE  Inv'
<1> USE BridgesAssumption, ClicksAssumption
<1>0. TypeOK /\ PortInv /\ HeldLinkStaysDown /\ UnheldAtLaunch
  BY DEF Inv
<1> DEFINE Rest == /\ plugged' \in BOOLEAN
                   /\ autoConnect' \in BOOLEAN
                   /\ app' \in {"launch", "running", "quit"}
                   /\ held' \in BOOLEAN
                   /\ update' \in {"none", "releasing", "taken"}
                   /\ waitsFor' \in Bridges \cup {NoBridge}
                   /\ clicks' \in 0 .. MaxClicks
<1>1. Rest
  <2>1. CASE Start
    BY <1>0, <2>1 DEF Start, updateVars, TypeOK
  <2>2. CASE Connect
    BY <1>0, <2>2 DEF Connect, Click, updateVars, TypeOK, ClicksAssumption
  <2>3. CASE Disconnect
    BY <1>0, <2>3 DEF Disconnect, Click, updateVars, TypeOK, ClicksAssumption
  <2>4. CASE SetAutoConnect
    BY <1>0, <2>4 DEF SetAutoConnect, Click, updateVars, TypeOK,
       ClicksAssumption
  <2>5. CASE Shutdown
    BY <1>0, <2>5 DEF Shutdown, updateVars, TypeOK
  <2>6. CASE TakeForUpdate
    BY <1>0, <2>6 DEF TakeForUpdate, Click, TypeOK, ClicksAssumption
  <2>7. CASE Taken
    BY <1>0, <2>7 DEF Taken, TypeOK
  <2>8. CASE HandBack
    BY <1>0, <2>8 DEF HandBack, TypeOK
  <2>9. CASE Cable
    BY <1>0, <2>9 DEF Cable, Plug, Unplug, updateVars, TypeOK
  <2> QED
    BY <2>1, <2>2, <2>3, <2>4, <2>5, <2>6, <2>7, <2>8, <2>9 DEF User, Update
<1>2. UnheldAtLaunch' /\ status' \in States
  BY <1>0 DEF TypeOK, States, UnheldAtLaunch, User, Update, Cable, Start,
     Connect, Disconnect, SetAutoConnect, Shutdown, TakeForUpdate, Taken,
     HandBack, Plug, Unplug, Connecting, linkVars, updateVars
<1>3. CASE Connecting
  <2>1. BridgeTypes' /\ PortInv' /\ serial' # NoBridge
    BY <1>0, <1>3, ConnectingKeepsPort DEF Connecting, Replace
  <2>2. ~held'
    <3>1. CASE User
      BY <1>0, <2>1, <3>1 DEF User, Start, Connect, Disconnect,
         SetAutoConnect, Shutdown, Replace, updateVars, linkVars,
         UnheldAtLaunch, HeldLinkStaysDown
    <3>2. CASE Update
      BY <1>0, <2>1, <3>2 DEF Update, TakeForUpdate, Taken, HandBack, Replace,
         HeldLinkStaysDown
    <3>3. CASE Cable
      BY <1>0, <2>1, <3>3 DEF Cable, Plug, Unplug, linkVars, updateVars,
         HeldLinkStaysDown
    <3> QED
      BY <3>1, <3>2, <3>3
  <2> QED
    BY <1>1, <1>2, <2>1, <2>2 DEF Inv, TypeOK, BridgeTypes, HeldLinkStaysDown
<1>4. CASE Replace(NoBridge)
  <2>1. /\ BridgeTypes' /\ PortInv'
        /\ serial' = NoBridge /\ link' = "none"
    BY <1>0, <1>4, ReleaseKeepsPort
  <2> QED
    BY <1>1, <1>2, <2>1 DEF Inv, TypeOK, BridgeTypes, HeldLinkStaysDown
<1>5. CASE UNCHANGED <<bridgeVars, serial, link>> /\ held' \in {held, FALSE}
  BY <1>0, <1>1, <1>2, <1>5 DEF Inv, TypeOK, PortInv, OneLiveBridge, Live,
     OldBridgesLeaveNothing, AttemptShape, Open, Opening, Resting, Looking,
     NoPort, HeldLinkStaysDown, bridgeVars
<1>6. CASE Unplug
  <2>1. UNCHANGED <<stopped, phase, timer, closing, serial, link, held>>
    BY <1>6 DEF Unplug, linkVars, updateVars
  <2>2. TypeOK'
    BY <1>0, <1>1, <1>2, <1>6, <2>1 DEF Unplug, TypeOK
  <2>3. PortInv'
    BY <1>0, <1>6, <2>1 DEF Unplug, TypeOK, PortInv, OneLiveBridge, Live,
       OldBridgesLeaveNothing, AttemptShape, Open, Opening, Resting, Looking,
       NoPort
  <2> QED
    BY <1>0, <1>2, <2>1, <2>2, <2>3 DEF Inv, HeldLinkStaysDown
<1> QED
  BY <1>3, <1>4, <1>5, <1>6 DEF User, Update, Cable, Start, Connect,
     Disconnect, SetAutoConnect, Shutdown, TakeForUpdate, Taken, HandBack,
     Plug, linkVars, updateVars

-----------------------------------------------------------------------------
(* The inductive invariant holds of every reachable state. *)
LEMMA Invariance == Spec => []Inv
<1>1. Inv /\ [Next]_vars => Inv'
  <2>1. ASSUME Inv, Next PROVE Inv'
    BY <2>1, BridgeKeepsInv, OtherKeepsInv DEF Next
  <2>2. ASSUME Inv, UNCHANGED vars PROVE Inv'
    BY <2>2 DEF vars, bridgeVars, linkVars, updateVars, Inv, TypeOK, PortInv,
       OneLiveBridge, Live, OldBridgesLeaveNothing, AttemptShape, Open,
       Opening, Resting, Looking, NoPort, HeldLinkStaysDown, UnheldAtLaunch
  <2> QED
    BY <2>1, <2>2
<1> QED
  BY InitInv, <1>1, PTL DEF Spec

(* Every variable keeps its type: above all, a bridge never has two retry   *)
(* timers armed at once.                                                    *)
THEOREM Typing == Spec => []TypeOK
<1>1. Inv => TypeOK
  BY DEF Inv
<1> QED
  BY <1>1, Invariance, PTL

(* However many bridges connect() has made, exactly the current one is      *)
(* alive, and no other has the port open.                                   *)
THEOREM Ownership == Spec => [](OneLiveBridge /\ NoLeakedHandle)
<1>1. Inv => OneLiveBridge /\ NoLeakedHandle
  BY DEF Inv, PortInv, OneLiveBridge, OldBridgesLeaveNothing, NoLeakedHandle
<1> QED
  BY <1>1, Invariance, PTL

(* A wanted link is never abandoned: open, being attempted, or with its one *)
(* retry armed.                                                             *)
THEOREM NeverAbandoned == Spec => []AlwaysLooking
<1>1. Inv => AlwaysLooking
  BY DEF Inv, PortInv, AttemptShape, Open, Opening, Resting, Looking, NoPort,
     AlwaysLooking
<1> QED
  BY <1>1, Invariance, PTL

(* While an update holds the port there is no link, and no bridge gets as   *)
(* far as opening the port.                                                 *)
THEOREM UpdateHoldsThePort ==
    Spec => []HeldLinkStaysDown /\ NothingOpensWhileHeld
<1>1. Inv => HeldLinkStaysDown
  BY DEF Inv
<1> DEFINE Stays == \A b \in Bridges :
                      phase'[b] = "opening" => phase[b] = "opening"
<1>2. Inv /\ Inv' /\ [Next]_vars => [held' => Stays]_vars
  <2> SUFFICES ASSUME Inv, Inv', Next, held',
                      NEW b \in Bridges, phase'[b] = "opening"
               PROVE  phase[b] = "opening"
    BY DEF vars
  <2>1. OneLiveBridge /\ HeldLinkStaysDown
    BY DEF Inv, PortInv
  <2>2. ~FindsBoard(b)
    BY <2>1, BridgesAssumption DEF FindsBoard, OneLiveBridge,
       HeldLinkStaysDown, updateVars
  <2>3. CASE User \/ Update \/ Cable
    <3>1. (\E new \in Bridges \cup {NoBridge} : Replace(new)) \/ phase' = phase
      BY <2>3 DEF User, Update, Cable, Start, Connect, Disconnect,
         SetAutoConnect, Shutdown, TakeForUpdate, Taken, HandBack, Plug,
         Unplug, Connecting, bridgeVars
    <3> QED
      BY <3>1 DEF Replace
  <2>4. ASSUME NEW c \in Bridges, Bridge(c)
        PROVE  phase[b] = "opening"
    <3>1. phase \in [Bridges -> {"idle", "listing", "opening"}]
      BY DEF Inv, TypeOK
    <3>2. CASE FindsBoard(c)
      BY <2>2, <3>1, <3>2 DEF FindsBoard
    <3>3. CASE RetryFires(c)
      BY <3>1, <3>3 DEF RetryFires
    <3>4. CASE StoppedWhileListing(c) \/ FindsNone(c)
      BY <3>1, <3>4 DEF StoppedWhileListing, FindsNone
    <3>5. CASE OpenSucceeds(c) \/ OpenFails(c)
      BY <3>1, <3>5 DEF OpenSucceeds, OpenFails
    <3>6. CASE CloseEvent(c)
      BY <3>1, <3>6, BridgesAssumption DEF CloseEvent, Replace
    <3>7. CASE PortErrors(c) \/ HandleCloses(c)
      BY <3>7 DEF PortErrors, HandleCloses
    <3> QED
      BY <2>4, <3>2, <3>3, <3>4, <3>5, <3>6, <3>7 DEF Bridge
  <2> QED
    BY <2>3, <2>4 DEF Next
<1> QED
  BY <1>1, <1>2, Invariance, PTL DEF Spec, NothingOpensWhileHeld

-----------------------------------------------------------------------------
(* What the link says of itself. *)

QuietAtLaunch ==
    app = "launch" =>
        status = "disconnected" /\ serial = NoBridge /\ update = "none"

(* The link says connected only of a port that is open, or whose close has  *)
(* not been heard of yet.                                                   *)
THEOREM ConnectedIsTrue == Spec => []ConnectedMeansOpen
<1> DEFINE Says == ConnectedMeansOpen /\ QuietAtLaunch
<1>1. Init => Says
  BY DEF Init, ConnectedMeansOpen, QuietAtLaunch
<1>2. Says /\ Inv /\ Inv' /\ [Next]_vars => Says'
  <2> SUFFICES ASSUME Says, Inv, Inv', [Next]_vars PROVE Says'
    OBVIOUS
  <2>1. OneLiveBridge /\ AttemptShape /\ TypeOK
    BY DEF Inv, PortInv
  <2>2. ASSUME NEW b \in Bridges, Bridge(b) PROVE Says'
    <3>1. /\ b \in Bridges /\ serial \in Bridges \cup {NoBridge}
          /\ handle \in [Bridges -> {"none", "opening", "open", "lost",
                                     "failed", "dead"}]
          /\ Live(b) <=> b = serial
      BY <2>1, <2>2 DEF OneLiveBridge, TypeOK
    <3> USE DEF ConnectedMeansOpen, QuietAtLaunch, updateVars
    <3>2. CASE \/ RetryFires(b) \/ StoppedWhileListing(b) \/ HandleCloses(b)
      BY <3>2 DEF RetryFires, StoppedWhileListing, HandleCloses, linkVars
    <3>3. CASE stopped[b]
      <4>1. b # serial /\ handle[b] = "none"
        BY <3>1, <3>3 DEF Live, Inv, PortInv, OldBridgesLeaveNothing
      <4>2. CASE OpenSucceeds(b)
        BY <3>1, <3>3, <4>1, <4>2 DEF OpenSucceeds
      <4>3. CASE OpenFails(b)
        BY <3>1, <3>3, <4>1, <4>3 DEF OpenFails
      <4> QED
        BY <2>2, <3>2, <3>3, <4>1, <4>2, <4>3 DEF Bridge, FindsBoard,
           FindsNone, CloseEvent, PortErrors, Live
    <3>4. CASE ~stopped[b]
      <4>1. b = serial /\ app # "launch"
        BY <3>1, <3>4, BridgesAssumption DEF Live
      <4>2. CASE FindsBoard(b)
        <5>1. Looking(b)
          BY <2>1, <4>1, <4>2, BridgesAssumption DEF AttemptShape, Open,
             Opening, Resting, Looking, FindsBoard, NoPort
        <5> QED
          BY <3>1, <4>1, <4>2, <5>1 DEF FindsBoard, Looking, NoPort, linkVars
      <4>3. CASE FindsNone(b)
        BY <4>1, <4>3 DEF FindsNone
      <4>4. CASE OpenSucceeds(b)
        BY <3>1, <3>4, <4>1, <4>4, BridgesAssumption DEF OpenSucceeds
      <4>5. CASE OpenFails(b)
        BY <3>4, <4>1, <4>5 DEF OpenFails
      <4>6. CASE CloseEvent(b)
        BY <4>1, <4>6 DEF CloseEvent
      <4>7. CASE PortErrors(b)
        BY <4>1, <4>7 DEF PortErrors
      <4> QED
        BY <2>2, <3>2, <4>2, <4>3, <4>4, <4>5, <4>6, <4>7 DEF Bridge
    <3> QED
      BY <3>3, <3>4
  <2>3. CASE User
    BY <2>1, <2>3 DEF User, Start, Connect, Disconnect, SetAutoConnect,
       Shutdown, Connecting, linkVars, bridgeVars, updateVars,
       ConnectedMeansOpen, QuietAtLaunch
  <2>4. CASE Update
    <3>1. CASE TakeForUpdate
      BY <3>1 DEF TakeForUpdate, ConnectedMeansOpen, QuietAtLaunch
    <3>2. CASE Taken
      BY <3>2 DEF Taken, ConnectedMeansOpen, QuietAtLaunch
    <3>3. CASE HandBack
      BY <3>3 DEF HandBack, Connecting, linkVars, bridgeVars,
         ConnectedMeansOpen, QuietAtLaunch
    <3> QED
      BY <2>4, <3>1, <3>2, <3>3 DEF Update
  <2>5. CASE Cable
    <3>1. UNCHANGED <<serial, status, link, app, update>>
      BY <2>5 DEF Cable, Plug, Unplug, linkVars, updateVars
    <3>2. \A b \in Bridges : handle'[b] = handle[b] \/ handle'[b] = "lost"
      BY <2>5 DEF Cable, Plug, Unplug, bridgeVars
    <3> QED
      BY <2>1, <3>1, <3>2 DEF TypeOK, ConnectedMeansOpen, QuietAtLaunch
  <2>6. CASE UNCHANGED vars
    BY <2>6 DEF vars, linkVars, bridgeVars, updateVars,
       ConnectedMeansOpen, QuietAtLaunch
  <2> QED
    BY <2>2, <2>3, <2>4, <2>5, <2>6 DEF Next
<1> QED
  BY <1>1, <1>2, Invariance, PTL DEF Spec
=============================================================================
