------------------------------ MODULE DcsRelay ------------------------------
(***************************************************************************)
(* The relay (src/main/dcs/dcs-relay.ts) with the sources it runs: the     *)
(* network transports (dcs-connection.ts, transports.ts) and a capture     *)
(* played back (replay-source.ts); the recorder that taps it               *)
(* (session-recorder.ts), and the intents that drive them (dcs/ipc.ts).    *)
(*                                                                         *)
(* A source that was replaced lives on until its socket has closed, and a  *)
(* dialog leaves the intent that opened it waiting while anything else may *)
(* happen.  What the bytes say, the statistics, the log's rows and what the *)
(* surfaces show are left out; the gate that holds the export back is      *)
(* CalLink's.                                                              *)
(*                                                                         *)
(* The operators marked "Mutant" are plausible slips in the definition     *)
(* that follows them; no specification uses them.                          *)
(***************************************************************************)
EXTENDS Naturals

CONSTANTS
    Transports, \* transport objects
    None,       \* no transport
    Events,     \* events in a capture
    MaxChanges, \* bound: settings changed, and a running relay started again
    MaxRecords, \* bound: recordings
    Odds        \* what a run lets in: Record clicked "twice", the second time over
                \* its dialog, "reload" of what plays, a "join" that fails

ASSUME NoneAssumption == None \notin Transports
ASSUME BoundsAssumption == {Events, MaxChanges, MaxRecords} \subseteq Nat
ASSUME OddsAssumption == Odds \subseteq {"twice", "reload", "join"}

VARIABLES
    config,    \* the settings the relay is built from
    changes,   \* counted
    \* the relay
    running, said, ticking,
    \* its sources
    cur,       \* DcsConnection's transport
    phase, built, deaf,     \* per transport: its socket, its settings, no multicast group
    replay,    \* a capture is loaded
    playing,   \* its timers left, and the settings it plays under
    playedFor,
    \* recording, and the dialogs that are open
    recorder, records, asking, opening

settings == <<config, changes>>
relay == <<running, said, ticking>>
sockets == <<cur, phase, built, deaf>>
plays == <<playing, playedFor>>
recordVars == <<recorder, records, asking>>
openVars == <<replay, opening>>
vars == <<settings, relay, sockets, plays, recordVars, openVars>>

Modes == {"bridge", "monitor", "replay"}
Kinds == {"tcp", "udp"}
Endpoints == {"good", "bad"}
Configs == [mode : Modes, kind : Kinds, end : Endpoints, drive : BOOLEAN]
Streams == {"none", "connecting", "connected", "reconnecting", "error", "ended"}
Phases == {"none", "dialing", "up", "failed", "retry", "dead", "closing"}
Records == 1..MaxRecords

Stopped == [running |-> FALSE, stream |-> "none"]
Says(stream) == [running |-> TRUE, stream |-> stream]

TypeOK ==
    /\ config \in Configs /\ changes \in 0..MaxChanges
    /\ {running, ticking, replay, opening} \subseteq BOOLEAN
    /\ said \in [running : BOOLEAN, stream : Streams]
    /\ cur \in Transports \cup {None} /\ phase \in [Transports -> Phases]
    /\ built \in [Transports -> Configs] /\ deaf \in [Transports -> BOOLEAN]
    /\ playing \in 0..(Events + 1) /\ playedFor \in Configs
    /\ recorder \in 0..MaxRecords /\ records \in [Records -> {"none", "on", "saved"}]
    /\ asking \in 0..2

FirstConfig == [mode |-> "bridge", kind |-> "tcp", end |-> "good", drive |-> FALSE]

Init ==
    /\ config = FirstConfig /\ changes = 0
    /\ running = FALSE /\ said = Stopped /\ ticking = FALSE
    /\ cur = None /\ phase = [t \in Transports |-> "none"]
    /\ built = [t \in Transports |-> config] /\ deaf = [t \in Transports |-> FALSE]
    /\ replay = FALSE /\ playing = 0 /\ playedFor = config
    /\ recorder = 0 /\ records = [r \in Records |-> "none"] /\ asking = 0 /\ opening = FALSE

---------------------------------------------------------------------------
(***************************************************************************)
(* The relay                                                               *)
(***************************************************************************)
Live(cfg) == cfg.mode # "replay"

\* A replaced or stopped transport: a TCP socket closes later, a UDP socket
\* and a reconnect timer end at once.
Ended(t) ==
    IF built[t].kind = "tcp" /\ phase[t] \in {"dialing", "up", "failed"}
    THEN "closing" ELSE "none"
Let(go) == [t \in Transports |-> IF t = go THEN Ended(t) ELSE phase[t]]

\* stop() as far as the sources: timers, replay, transport.
Stop ==
    /\ running' = FALSE /\ said' = Stopped /\ ticking' = FALSE
    /\ playing' = 0 /\ cur' = None /\ phase' = Let(cur)
    /\ UNCHANGED <<built, deaf, playedFor>>

\* run(): stops what runs, then plays the capture or opens a transport.
\* Mutant: what runs is left running.
StopsNothing == phase
StopsFirst == Let(cur)

RunReplay(cfg) ==
    /\ ~Live(cfg)
    /\ phase' = StopsFirst /\ cur' = None /\ UNCHANGED <<built, deaf>>
    /\ IF replay
       THEN /\ running' = TRUE /\ said' = Says("connected") /\ ticking' = TRUE
            /\ playing' = Events + 1 /\ playedFor' = cfg
       ELSE /\ running' = FALSE /\ said' = Stopped /\ ticking' = FALSE
            /\ playing' = 0 /\ UNCHANGED playedFor

\* A port that is no port makes net.connect throw, and run() stops again.
RunLive(cfg) ==
    /\ Live(cfg) /\ playing' = 0 /\ UNCHANGED playedFor
    /\ IF cfg.end = "bad" /\ cfg.kind = "tcp"
       THEN /\ running' = FALSE /\ said' = Stopped /\ ticking' = FALSE
            /\ phase' = StopsFirst /\ cur' = None /\ UNCHANGED <<built, deaf>>
       ELSE \E t \in Transports :
              /\ phase[t] = "none"
              /\ running' = TRUE /\ said' = Says("connecting") /\ ticking' = TRUE
              /\ cur' = t /\ phase' = [StopsFirst EXCEPT ![t] = "dialing"]
              /\ built' = [built EXCEPT ![t] = cfg] /\ deaf' = [deaf EXCEPT ![t] = FALSE]

Run(cfg) == RunReplay(cfg) \/ RunLive(cfg)

\* Start and the toggle of a relay shown as stopped.
Start ==
    /\ Run(config)
    /\ IF running THEN changes < MaxChanges /\ changes' = changes + 1 ELSE UNCHANGED changes
    /\ UNCHANGED <<config, recordVars, openVars>>

StopRelay ==
    /\ Stop
    /\ UNCHANGED <<settings, recordVars, openVars>>

\* relayConfigChanged(): every setting a relay is built from is compared.
\* Mutant: Drive Gateway is not one of them.
ChangedButDrive(next) == [next EXCEPT !.drive = config.drive] # config
Changed(next) == next # config

\* A settings change, and reconfigure().
Configure(next) ==
    /\ changes < MaxChanges /\ changes' = changes + 1 /\ config' = next
    /\ IF running /\ Changed(next) THEN Run(next) ELSE UNCHANGED <<relay, sockets, plays>>
    /\ UNCHANGED <<recordVars, openVars>>

---------------------------------------------------------------------------
(***************************************************************************)
(* The transports                                                          *)
(***************************************************************************)
Moves(t, next) == phase' = [phase EXCEPT ![t] = next] /\ UNCHANGED <<cur, built>>

\* What a transport reports counts only while it is the current one.
\* Mutant: it always counts.
AlwaysHeard(t) == TRUE
Heard(t) == t = cur

Reports(t, stream) ==
    /\ said' = IF Heard(t) THEN Says(stream) ELSE said
    /\ UNCHANGED <<running, ticking, settings, plays, recordVars, openVars>>

\* Connected, or bound; a group that cannot be joined is an error, and
\* "connected" right after it.
Connects(t, joined) ==
    /\ phase[t] = "dialing" /\ Moves(t, "up")
    /\ joined \/ ("join" \in Odds /\ built[t].kind = "udp")
    /\ deaf' = [deaf EXCEPT ![t] = ~joined]
    /\ Reports(t, "connected")

\* A socket's error: TCP's close follows, UDP's socket is left as it is.
Errors(t) ==
    /\ phase[t] \in {"dialing", "up"}
    /\ Moves(t, IF built[t].kind = "tcp" THEN "failed"
                ELSE IF phase[t] = "dialing" THEN "dead" ELSE "up")
    /\ UNCHANGED deaf /\ Reports(t, "error")

\* The close event: a relay the user started keeps trying.
\* Mutant: only after an error.
CloseGivesUp(t) ==
    /\ built[t].kind = "tcp" /\ phase[t] \in {"up", "failed", "closing"}
    /\ Moves(t, CASE phase[t] = "failed" -> "retry"
                  [] phase[t] = "up" -> "dead"
                  [] OTHER -> "none")
    /\ UNCHANGED deaf /\ Reports(t, "reconnecting")
Closes(t) ==
    /\ built[t].kind = "tcp" /\ phase[t] \in {"up", "failed", "closing"}
    /\ Moves(t, IF phase[t] = "closing" THEN "none" ELSE "retry")
    /\ UNCHANGED deaf /\ Reports(t, "reconnecting")

Redials(t) ==
    /\ phase[t] = "retry" /\ Moves(t, "dialing")
    /\ UNCHANGED <<deaf, relay, settings, plays, recordVars, openVars>>

---------------------------------------------------------------------------
(***************************************************************************)
(* The capture played back, and the one recorded                           *)
(***************************************************************************)
\* The next of the timers play() set: an event of the export, or the end.
Plays ==
    /\ playing > 0 /\ playing' = playing - 1
    /\ said' = IF playing = 1 THEN Says("ended") ELSE said
    /\ UNCHANGED <<settings, running, ticking, sockets, playedFor, recordVars, openVars>>

AskCapture ==
    /\ ~opening /\ opening' = TRUE
    /\ UNCHANGED <<settings, relay, sockets, plays, recordVars, replay>>

\* loadReplay(): the capture loaded before stops, whether this one can be read
\* or not.
CapturePicked(read) ==
    /\ opening /\ opening' = FALSE
    /\ "reload" \in Odds \/ playing = 0
    /\ playing' = 0 /\ replay' = (replay \/ read)
    /\ UNCHANGED <<settings, relay, sockets, playedFor, recordVars>>

NoCapturePicked ==
    /\ opening /\ opening' = FALSE
    /\ UNCHANGED <<settings, relay, sockets, plays, recordVars, replay>>

\* canRecord(): only while relaying; one that is on can always be stopped.
MayRecord == running \/ recorder # 0

RecordKeeps ==
    UNCHANGED <<settings, relay, sockets, plays, openVars>>

AskRecord ==
    /\ MayRecord /\ recorder = 0 /\ asking < (IF "twice" \in Odds THEN 2 ELSE 1)
    /\ asking' = asking + 1
    /\ UNCHANGED <<recorder, records>> /\ RecordKeeps

Unused == {r \in Records : records[r] = "none"}

\* startRecording(): over whatever is being recorded.
RecordPicked ==
    /\ asking > 0 /\ asking' = asking - 1
    /\ \E r \in Unused : recorder' = r /\ records' = [records EXCEPT ![r] = "on"]
    /\ RecordKeeps

NoRecordPicked ==
    /\ asking > 0 /\ asking' = asking - 1
    /\ UNCHANGED <<recorder, records>> /\ RecordKeeps

\* stopRecording(): saved, or kept when it cannot be.
StopRecord(saved) ==
    /\ recorder # 0
    /\ IF saved THEN recorder' = 0 /\ records' = [records EXCEPT ![recorder] = "saved"]
       ELSE UNCHANGED <<recorder, records>>
    /\ UNCHANGED asking /\ RecordKeeps

---------------------------------------------------------------------------
\* Bound: settings that the mode or the transport has no use for do not vary.
Settings == {c \in Configs :
               /\ c.end = "bad" => c.kind = "tcp" /\ Live(c)
               /\ c.kind = "udp" => Live(c)
               /\ c.drive => ~Live(c)}

Intents ==
    \/ Start \/ StopRelay \/ AskCapture \/ AskRecord \/ NoCapturePicked
    \/ RecordPicked \/ NoRecordPicked
    \/ \E next \in Settings : Configure(next)
    \/ \E ok \in BOOLEAN : CapturePicked(ok) \/ StopRecord(ok)

Network ==
    \E t \in Transports :
      \/ Errors(t) \/ Closes(t) \/ Redials(t)
      \/ \E joined \in BOOLEAN : Connects(t, joined)

Next == Intents \/ Network \/ Plays

Spec == Init /\ [][Next]_vars

\* Timers fire and sockets close; a DCS that is dialed again and again answers
\* in the end.
FairSpec ==
    /\ Spec /\ WF_vars(Plays)
    /\ \A t \in Transports :
         WF_vars(Redials(t)) /\ WF_vars(Closes(t) /\ phase[t] # "up") /\ SF_vars(Connects(t, TRUE))

---------------------------------------------------------------------------
(***************************************************************************)
(* Properties                                                              *)
(***************************************************************************)
Alive(t) == phase[t] \in {"dialing", "up", "failed", "retry", "dead"}

\* Whatever was started, stopped, rebuilt or reloaded: one source feeds the
\* relay, and none one that is stopped.  A second would reach the board too
\* (onExport() does not ask who calls).
OneSource ==
    /\ \A t \in Transports : Alive(t) => t = cur /\ running
    /\ playing > 0 => running /\ cur = None
    /\ ticking <=> running

\* The source that runs was built from the settings as they are: what they
\* say of the board (Monitor reads only, Drive Gateway) is true of it.
BuiltFromSettings ==
    /\ cur # None => built[cur] = config
    /\ playing > 0 => playedFor = config

\* The relay says that it runs when it does, and "connected" of a transport
\* that is bound, joined or connected.
SaysWhatIs ==
    /\ said.running <=> running
    /\ said.stream = "connected" /\ cur # None => phase[cur] = "up" /\ ~deaf[cur]

\* A relay over TCP gets its stream, however often it drops.
StreamComesUp ==
    running /\ Live(config) /\ config.kind = "tcp"
        ~> ~running \/ said.stream = "connected" \/ ~Live(config) \/ config.kind = "udp"

\* A capture that plays ends, and says so.
ReplayEnds ==
    running /\ ~Live(config) ~> ~running \/ said.stream = "ended" \/ Live(config)

\* A source that was started gets somewhere: its stream up, or its end.
SourceGoesOn == StreamComesUp /\ ReplayEnds
=============================================================================
