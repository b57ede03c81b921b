--------------------------- MODULE DcsRelay_proofs ---------------------------
(***************************************************************************)
(* For any number of transports, captures, recordings and settings         *)
(* changed: one source feeds the relay, it was built from the settings as  *)
(* they are, and, unless a multicast group cannot be joined, the relay     *)
(* says what is.  The argument: everything that lets a source go forgets   *)
(* it first, so what is alive is current, and only the current one speaks. *)
(***************************************************************************)
EXTENDS DcsRelay, TLAPS

(* What the steps need to know of the types.                                *)
Typed ==
    /\ cur \in Transports \cup {None} /\ phase \in [Transports -> Phases]
    /\ built \in [Transports -> Configs] /\ deaf \in [Transports -> BOOLEAN]
    /\ config \in Configs /\ playing \in Nat /\ running \in BOOLEAN

(* The current transport has not been let go.                               *)
CurLives == cur # None => Alive(cur)

Shape == OneSource /\ BuiltFromSettings /\ CurLives

Inv == Typed /\ Shape

LEMMA InitInv == Init => Inv
<1> SUFFICES ASSUME Init PROVE Inv
  OBVIOUS
<1>1. FirstConfig \in Configs
  BY DEF FirstConfig, Configs, Modes, Kinds, Endpoints
<1>2. Typed
  BY <1>1 DEF Init, Typed, Phases
<1>3. /\ cur = None /\ playing = 0 /\ running = FALSE /\ ticking = FALSE
      /\ \A t \in Transports : phase[t] = "none"
  BY DEF Init
<1>4. OneSource
  BY <1>3 DEF OneSource, Alive
<1>5. BuiltFromSettings /\ CurLives
  BY <1>3 DEF BuiltFromSettings, CurLives
<1> QED
  BY <1>2, <1>4, <1>5 DEF Inv, Shape

(* A source let go is not alive, and nothing else was.                      *)
LEMMA NothingLeft ==
    ASSUME Inv
    PROVE  /\ Let(cur) \in [Transports -> Phases]
           /\ \A t \in Transports : Let(cur)[t] \in {"none", "closing"}
<1>1. \A t \in Transports : Ended(t) \in {"none", "closing"}
  BY DEF Ended
<1>2. \A t \in Transports : t # cur => phase[t] \in {"none", "closing"}
  BY DEF Inv, Typed, Shape, OneSource, Alive, Phases
<1> QED
  BY <1>1, <1>2 DEF Let, Phases, Inv, Typed

LEMMA StopKeeps ==
    ASSUME Inv, Stop, UNCHANGED config
    PROVE  Inv'
<1>1. /\ phase' = Let(cur) /\ cur' = None /\ playing' = 0 /\ running' = FALSE
      /\ ticking' = FALSE /\ UNCHANGED <<built, deaf, config>>
  BY DEF Stop
<1>2. Typed'
  BY <1>1, NothingLeft DEF Inv, Typed
<1>3. Shape'
  BY <1>1, NothingLeft DEF Shape, OneSource, Alive, BuiltFromSettings, CurLives
<1> QED
  BY <1>2, <1>3 DEF Inv

(* run() with the settings as they are from now on.                         *)
LEMMA RunKeeps ==
    ASSUME Inv, NEW cfg \in Configs, Run(cfg), config' = cfg
    PROVE  Inv'
<1> USE NothingLeft DEF StopsFirst
<1>1. CASE RunReplay(cfg)
  <2>1. /\ phase' = Let(cur) /\ cur' = None /\ UNCHANGED <<built, deaf>>
        /\ running' \in BOOLEAN /\ (ticking' <=> running')
        /\ playing' \in Nat /\ (playing' > 0 => running' /\ playedFor' = cfg)
    <3>1. CASE replay
      <4>1. Events + 1 \in Nat
        BY BoundsAssumption DEF BoundsAssumption
      <4>2. /\ phase' = Let(cur) /\ cur' = None /\ UNCHANGED <<built, deaf>>
            /\ running' = TRUE /\ ticking' = TRUE
            /\ playing' = Events + 1 /\ playedFor' = cfg
        BY <1>1, <3>1 DEF RunReplay
      <4> QED
        BY <4>1, <4>2
    <3>2. CASE ~replay
      <4>1. /\ phase' = Let(cur) /\ cur' = None /\ UNCHANGED <<built, deaf>>
            /\ running' = FALSE /\ ticking' = FALSE /\ playing' = 0
        BY <1>1, <3>2 DEF RunReplay
      <4>2. playing' \in Nat /\ ~(playing' > 0)
        BY <4>1
      <4>3. running' \in BOOLEAN /\ (ticking' <=> running')
        BY <4>1
      <4> QED
        BY <4>1, <4>2, <4>3
    <3> QED
      BY <3>1, <3>2
  <2>2. Typed'
    BY <2>1 DEF Inv, Typed
  <2>3. Shape'
    BY <2>1 DEF Shape, OneSource, Alive, BuiltFromSettings, CurLives
  <2> QED
    BY <2>2, <2>3 DEF Inv
<1>2. CASE RunLive(cfg)
  <2>1. CASE cfg.end = "bad" /\ cfg.kind = "tcp"
    <3>1. /\ phase' = Let(cur) /\ cur' = None /\ UNCHANGED <<built, deaf>>
          /\ running' = FALSE /\ ticking' = FALSE /\ playing' = 0
      BY <1>2, <2>1 DEF RunLive
    <3>2. Typed'
      BY <3>1 DEF Inv, Typed
    <3>3. Shape'
      BY <3>1 DEF Shape, OneSource, Alive, BuiltFromSettings, CurLives
    <3> QED
      BY <3>2, <3>3 DEF Inv
  <2>2. CASE ~(cfg.end = "bad" /\ cfg.kind = "tcp")
    <3>1. PICK t \in Transports :
             /\ running' = TRUE /\ ticking' = TRUE /\ cur' = t
             /\ phase' = [Let(cur) EXCEPT ![t] = "dialing"]
             /\ built' = [built EXCEPT ![t] = cfg] /\ deaf' = [deaf EXCEPT ![t] = FALSE]
      BY <1>2, <2>2 DEF RunLive
    <3>2. playing' = 0
      BY <1>2 DEF RunLive
    <3>3. Typed'
      BY <3>1, <3>2 DEF Inv, Typed, Phases
    <3>4. Shape'
      BY <3>1, <3>2, NoneAssumption
      DEF Shape, OneSource, Alive, BuiltFromSettings, CurLives, Inv, Typed, NoneAssumption
    <3> QED
      BY <3>3, <3>4 DEF Inv
  <2> QED
    BY <2>1, <2>2
<1> QED
  BY <1>1, <1>2 DEF Run

(* A transport moves from one live phase to another, or from one it was let *)
(* go in to none.                                                           *)
LEMMA MoveKeeps ==
    ASSUME Inv, NEW t \in Transports, NEW next \in Phases, Moves(t, next),
           \/ Alive(t) /\ next \in {"dialing", "up", "failed", "retry", "dead"}
           \/ phase[t] = "closing" /\ next = "none",
           deaf' \in [Transports -> BOOLEAN],
           UNCHANGED <<config, running, ticking, plays>>
    PROVE  Inv'
<1> USE DEF Moves, plays
<1>1. Typed'
  BY DEF Inv, Typed
<1>2. phase' = [phase EXCEPT ![t] = next] /\ phase \in [Transports -> Phases]
  BY DEF Inv, Typed
<1>3. OneSource' /\ CurLives'
  BY <1>2 DEF Inv, Typed, Shape, OneSource, CurLives, Alive
<1>4. BuiltFromSettings'
  BY DEF Inv, Shape, BuiltFromSettings
<1> QED
  BY <1>1, <1>3, <1>4 DEF Inv, Shape

(* What touches no source.                                                  *)
LEMMA OthersKeep ==
    ASSUME Inv, UNCHANGED <<config, running, ticking, sockets, plays>>
    PROVE  Inv'
BY DEF Inv, Typed, Shape, OneSource, Alive, BuiltFromSettings, CurLives, sockets, plays

LEMMA StepInv == Inv /\ [Next]_vars => Inv'
<1> SUFFICES ASSUME Inv, [Next]_vars PROVE Inv'
  OBVIOUS
<1>0. config \in Configs
  BY DEF Inv, Typed
<1>1. CASE Start
  BY <1>0, <1>1, RunKeeps DEF Start
<1>2. CASE StopRelay
  BY <1>2, StopKeeps DEF StopRelay, settings
<1>3. ASSUME NEW next \in Settings, Configure(next) PROVE Inv'
  <2>0. next \in Configs /\ config' = next
    BY <1>3 DEF Settings, Configure
  <2>1. CASE running /\ Changed(next)
    BY <1>3, <2>0, <2>1, RunKeeps DEF Configure
  <2>2. CASE ~running
    <3>1. UNCHANGED <<running, ticking, cur, phase, built, deaf, playing, playedFor>>
      BY <1>3, <2>2 DEF Configure, relay, sockets, plays
    <3>2. cur = None /\ ~(playing > 0)
      BY <2>2 DEF Inv, Typed, Shape, OneSource, CurLives
    <3> QED
      BY <2>0, <3>1, <3>2
      DEF Inv, Typed, Shape, OneSource, Alive, BuiltFromSettings, CurLives
  <2>3. CASE running /\ ~Changed(next)
    <3>1. UNCHANGED <<config, running, ticking, sockets, plays>>
      BY <1>3, <2>0, <2>3 DEF Configure, Changed, relay
    <3> QED
      BY <3>1, OthersKeep
  <2> QED
    BY <2>1, <2>2, <2>3 DEF Inv, Typed
<1>4. ASSUME NEW t \in Transports, NEW joined \in BOOLEAN, Connects(t, joined) PROVE Inv'
  BY <1>4, MoveKeeps DEF Connects, Reports, settings, Alive, Phases, Inv, Typed
<1>5. ASSUME NEW t \in Transports, Errors(t) PROVE Inv'
  BY <1>5, MoveKeeps DEF Errors, Reports, settings, Alive, Phases, Inv, Typed
<1>6. ASSUME NEW t \in Transports, Closes(t) PROVE Inv'
  BY <1>6, MoveKeeps DEF Closes, Reports, settings, Alive, Phases, Inv, Typed
<1>7. ASSUME NEW t \in Transports, Redials(t) PROVE Inv'
  BY <1>7, MoveKeeps DEF Redials, settings, relay, Alive, Phases, Inv, Typed
<1>8. CASE Plays
  <2>1. /\ playing' = playing - 1 /\ playing > 0 /\ playing \in Nat
        /\ UNCHANGED <<config, running, ticking, cur, phase, built, deaf, playedFor>>
    BY <1>8 DEF Plays, Inv, Typed, settings, sockets
  <2>2. Typed'
    BY <2>1 DEF Inv, Typed
  <2>3. Shape'
    BY <2>1 DEF Inv, Shape, OneSource, Alive, BuiltFromSettings, CurLives
  <2> QED
    BY <2>2, <2>3 DEF Inv
<1>9. ASSUME NEW read \in BOOLEAN, CapturePicked(read) PROVE Inv'
  <2>1. /\ playing' = 0
        /\ UNCHANGED <<config, running, ticking, cur, phase, built, deaf>>
    BY <1>9 DEF CapturePicked, settings, relay, sockets
  <2>2. Typed'
    BY <2>1 DEF Inv, Typed
  <2>3. Shape'
    BY <2>1 DEF Inv, Shape, OneSource, Alive, BuiltFromSettings, CurLives
  <2> QED
    BY <2>2, <2>3 DEF Inv
<1>10. CASE AskCapture \/ NoCapturePicked \/ AskRecord \/ RecordPicked \/ NoRecordPicked
  BY <1>10, OthersKeep
  DEF AskCapture, NoCapturePicked, AskRecord, RecordPicked, NoRecordPicked,
      RecordKeeps, settings, relay
<1>11. ASSUME NEW saved \in BOOLEAN, StopRecord(saved) PROVE Inv'
  BY <1>11, OthersKeep DEF StopRecord, RecordKeeps, settings, relay
<1>12. CASE UNCHANGED vars
  BY <1>12, OthersKeep DEF vars, settings, relay
<1> QED
  BY <1>1, <1>2, <1>3, <1>4, <1>5, <1>6, <1>7, <1>8, <1>9, <1>10, <1>11, <1>12
  DEF Next, Intents, Network

(* At any time one source feeds the relay, and none that was stopped:       *)
(* Start, Stop, a rebuild and a capture's load let go of what ran (run(),   *)
(* stop(), loadReplay()).                                                   *)
THEOREM FedByOne == Spec => []OneSource
<1>1. Inv => OneSource
  BY DEF Inv, Shape
<1> QED
  BY InitInv, StepInv, <1>1, PTL DEF Spec

(* What runs was built from the settings as they are: every setting a relay *)
(* is built from rebuilds it (reconfigure(), RELAY_KEYS).                   *)
THEOREM AsConfigured == Spec => []BuiltFromSettings
<1>1. Inv => BuiltFromSettings
  BY DEF Inv, Shape
<1> QED
  BY InitInv, StepInv, <1>1, PTL DEF Spec

(* What the relay says, with the type of it.                                *)
Said ==
    /\ said \in [running : BOOLEAN, stream : Streams]
    /\ SaysWhatIs

(* A transport's report: heard of the current one, which its relay runs.    *)
LEMMA ReportKeeps ==
    ASSUME Inv, Said, NEW t \in Transports, NEW next \in Phases, NEW stream \in Streams,
           Moves(t, next), Reports(t, stream), deaf' \in [Transports -> BOOLEAN],
           \A u \in Transports : u # t => deaf'[u] = deaf[u],
           t = cur /\ stream = "connected" => next = "up" /\ ~deaf'[t]
    PROVE  Said'
<1>1. cur' = cur /\ phase' = [phase EXCEPT ![t] = next] /\ running' = running
  BY DEF Moves, Reports
<1>2. CASE t = cur
  <2>1. said' = Says(stream)
    BY <1>2 DEF Reports, Heard
  <2>2. running' /\ cur' # None
    BY <1>1, <1>2, NoneAssumption
    DEF Inv, Shape, OneSource, CurLives, NoneAssumption
  <2> QED
    BY <1>1, <1>2, <2>1, <2>2 DEF Said, SaysWhatIs, Says, Inv, Typed
<1>3. CASE t # cur
  <2>1. said' = said
    BY <1>3 DEF Reports, Heard
  <2>2. cur # None => phase'[cur] = phase[cur] /\ deaf'[cur] = deaf[cur]
    BY <1>1, <1>3 DEF Inv, Typed
  <2> QED
    BY <1>1, <2>1, <2>2 DEF Said, SaysWhatIs
<1> QED
  BY <1>2, <1>3

LEMMA RunSays ==
    ASSUME NEW cfg, Run(cfg)
    PROVE  Said'
<1>1. ASSUME NEW stream \in {"connecting", "connected"}, said' = Says(stream),
             running' = TRUE, stream = "connected" => cur' = None
      PROVE  Said'
  <2>1. /\ said'.running = TRUE /\ said'.stream = stream
        /\ said' \in [running : BOOLEAN, stream : Streams]
    BY <1>1 DEF Says, Streams
  <2>2. said'.running <=> running'
    BY <1>1, <2>1
  <2>3. ~(said'.stream = "connected" /\ cur' # None)
    BY <1>1, <2>1
  <2> QED
    BY <2>1, <2>2, <2>3 DEF Said, SaysWhatIs
<1>2. ASSUME said' = Stopped, running' = FALSE PROVE Said'
  <2>1. /\ said'.running = FALSE /\ said'.stream = "none"
        /\ said' \in [running : BOOLEAN, stream : Streams]
    BY <1>2 DEF Stopped, Streams
  <2>2. said'.running <=> running'
    BY <1>2, <2>1
  <2> QED
    BY <2>1, <2>2 DEF Said, SaysWhatIs
<1>3. CASE RunReplay(cfg) /\ replay
  BY <1>1, <1>3 DEF RunReplay
<1>4. CASE RunReplay(cfg) /\ ~replay
  BY <1>2, <1>4 DEF RunReplay
<1>5. CASE RunLive(cfg) /\ cfg.end = "bad" /\ cfg.kind = "tcp"
  BY <1>2, <1>5 DEF RunLive
<1>6. CASE RunLive(cfg) /\ ~(cfg.end = "bad" /\ cfg.kind = "tcp")
  BY <1>1, <1>6 DEF RunLive
<1> QED
  BY <1>3, <1>4, <1>5, <1>6 DEF Run

(* What neither speaks nor touches a socket.                                *)
LEMMA SilenceKeeps ==
    ASSUME Said, UNCHANGED <<relay, sockets>>
    PROVE  Said'
BY DEF Said, SaysWhatIs, relay, sockets

LEMMA SaidStep ==
    ASSUME "join" \notin Odds
    PROVE  Inv /\ Said /\ [Next]_vars => Said'
<1> SUFFICES ASSUME Inv, Said, [Next]_vars PROVE Said'
  OBVIOUS
<1>1. CASE Start
  BY <1>1, RunSays DEF Start
<1>2. CASE StopRelay
  BY <1>2 DEF StopRelay, Stop, Said, SaysWhatIs, Stopped, Streams
<1>3. ASSUME NEW next \in Settings, Configure(next) PROVE Said'
  <2>1. Run(next) \/ UNCHANGED <<relay, sockets>>
    BY <1>3 DEF Configure
  <2> QED
    BY <2>1, RunSays, SilenceKeeps
<1>4. ASSUME NEW t \in Transports, NEW joined \in BOOLEAN, Connects(t, joined) PROVE Said'
  <2>1. Moves(t, "up") /\ Reports(t, "connected") /\ deaf' = [deaf EXCEPT ![t] = FALSE]
    BY <1>4 DEF Connects
  <2> QED
    BY <2>1, ReportKeeps DEF Phases, Streams, Inv, Typed
<1>5. ASSUME NEW t \in Transports, Errors(t) PROVE Said'
  BY <1>5, ReportKeeps DEF Errors, Phases, Streams, Inv, Typed
<1>6. ASSUME NEW t \in Transports, Closes(t) PROVE Said'
  BY <1>6, ReportKeeps DEF Closes, Phases, Streams, Inv, Typed
<1>7. ASSUME NEW t \in Transports, Redials(t) PROVE Said'
  <2>1. /\ phase[t] = "retry" /\ phase' = [phase EXCEPT ![t] = "dialing"]
        /\ cur' = cur /\ deaf' = deaf /\ said' = said /\ running' = running
    BY <1>7 DEF Redials, Moves, relay
  <2>2. cur # t => phase'[cur] = phase[cur] \/ cur = None
    BY <2>1 DEF Inv, Typed
  <2>3. said.stream = "connected" /\ cur # None => cur # t
    BY <2>1 DEF Said, SaysWhatIs
  <2>4. (said'.stream = "connected" /\ cur' # None) => (phase'[cur'] = "up" /\ ~deaf'[cur'])
    BY <2>1, <2>2, <2>3 DEF Said, SaysWhatIs
  <2>5. said'.running <=> running'
    BY <2>1 DEF Said, SaysWhatIs
  <2>6. said' \in [running : BOOLEAN, stream : Streams]
    BY <2>1 DEF Said
  <2> QED
    BY <2>4, <2>5, <2>6 DEF Said, SaysWhatIs
<1>8. CASE Plays
  <2>1. cur = None /\ running
    BY <1>8 DEF Plays, Inv, Shape, OneSource
  <2>2. cur' = None /\ running' = running
    BY <1>8, <2>1 DEF Plays, sockets
  <2>3. CASE said' = said
    BY <2>2, <2>3 DEF Said, SaysWhatIs
  <2>4. CASE said' = Says("ended")
    <3>1. said'.running = TRUE /\ said' \in [running : BOOLEAN, stream : Streams]
      BY <2>4 DEF Says, Streams
    <3> QED
      BY <2>1, <2>2, <3>1 DEF Said, SaysWhatIs
  <2> QED
    BY <1>8, <2>3, <2>4 DEF Plays
<1>9. ASSUME NEW ok \in BOOLEAN, CapturePicked(ok) \/ StopRecord(ok) PROVE Said'
  BY <1>9, SilenceKeeps DEF CapturePicked, StopRecord, RecordKeeps
<1>10. CASE AskCapture \/ NoCapturePicked \/ AskRecord \/ RecordPicked \/ NoRecordPicked
  BY <1>10, SilenceKeeps
  DEF AskCapture, NoCapturePicked, AskRecord, RecordPicked, NoRecordPicked, RecordKeeps
<1>11. CASE UNCHANGED vars
  BY <1>11, SilenceKeeps DEF vars
<1> QED
  BY <1>1, <1>2, <1>3, <1>4, <1>5, <1>6, <1>7, <1>8, <1>9, <1>10, <1>11
  DEF Next, Intents, Network

(* Unless a multicast group cannot be joined, the relay says that it runs   *)
(* when it does, and "connected" of a transport that is: a stopped one's    *)
(* close is not heard (DcsConnection.open()).                               *)
THEOREM SaidIsTrue == "join" \notin Odds => (Spec => []SaysWhatIs)
<1> SUFFICES ASSUME "join" \notin Odds PROVE Spec => []SaysWhatIs
  OBVIOUS
<1>1. Init => Said
  BY DEF Init, Said, SaysWhatIs, Stopped, Streams
<1>2. Inv /\ Said /\ [Next]_vars => Said'
  BY SaidStep
<1>3. Said => SaysWhatIs
  BY DEF Said
<1> QED
  BY InitInv, StepInv, <1>1, <1>2, <1>3, PTL DEF Spec
==============================================================================
