------------------------------ MODULE CalLink ------------------------------
(***************************************************************************)
(* The calibration control channel (src/main/hid/calibration/cal-link.ts): *)
(* requests matched to replies by SEQ, reply timeouts, session upkeep and  *)
(* the export gate the relay reads before it forwards the simulator's      *)
(* export to the Gateway.                                                  *)
(*                                                                         *)
(* The client's half is translated from the class CalLink and from the     *)
(* moments HidCalibrationService calls it at (attach, release, closed).    *)
(* The device's half and the wire are the environment: the Gateway answers *)
(* frames in order, holds a session that lapses after its idle timeout,    *)
(* and streams RAW while it does.  Frames can be lost, replies can be late,*)
(* and a session outlives the port it was opened through.                  *)
(*                                                                         *)
(* Timers.  A timer is 0 when it is not armed, 1 when it is due, and n + 1 *)
(* when n ticks are left.  Time does not pass while a timer is due.        *)
(*                                                                         *)
(* The operators marked "Mutant" are plausible slips in the definition     *)
(* that follows them; no specification uses them.  Put in its place, each  *)
(* violates the property it names.                                         *)
(***************************************************************************)
EXTENDS Integers, Sequences, FiniteSets

CONSTANTS
    MaxSeq,           \* sequence numbers run 1..MaxSeq (255 in the code)
    ReplyTimeout,     \* REPLY_TIMEOUT_MS, in ticks
    KeepaliveEvery,   \* KEEPALIVE_MS, in ticks
    DefaultTimeout,   \* CAL_PROTO.sessionTimeoutMs, until the device reports
    DeviceTimeout,    \* the idle timeout the device holds and reports
    MaxLost,          \* bound: frames the wire loses in one behaviour
    MaxDown,          \* bound: frames on their way from the device
    LossySessionAck,  \* the wire may lose or delay a SESSION_ACK
    StaleReplies,     \* a reply may be later than its number's next use
    Overlap           \* session changes may be in flight together

ASSUME ParamsAssumption ==
    /\ MaxSeq \in Nat /\ MaxSeq >= 2
    /\ ReplyTimeout \in Nat \ {0}
    /\ KeepaliveEvery \in Nat \ {0}
    /\ DefaultTimeout \in Nat \ {0}
    /\ DeviceTimeout \in Nat \ {0}
    /\ MaxLost \in Nat
    /\ MaxDown \in Nat \ {0}

ASSUME SwitchAssumption ==
    /\ LossySessionAck \in BOOLEAN
    /\ StaleReplies \in BOOLEAN
    /\ Overlap \in BOOLEAN

VARIABLES
    port,           \* "none": no CalLink; "waiting" for it to open; "open"
    seq,            \* the last sequence number given out
    pending,        \* per sequence number, the request awaiting its reply
    session,        \* the client takes the device to be in session
    keepalive,      \* the keepalive interval's timer
    expiry,         \* the assumed-expiry timer of an unanswered close
    deviceTimeout,  \* deviceTimeoutMs
    up,             \* frames on their way to the device
    down,           \* frames on their way to the client
    devSession,     \* the device's idle timer; 0 outside a session
    openedHere,     \* history: the device has opened a session since the
                    \* port last opened
    lost            \* how many frames the wire has lost

linkVars == <<seq, pending, session, keepalive, expiry, deviceTimeout>>
wireVars == <<up, down, lost>>
deviceVars == <<devSession, openedHere>>
vars == <<port, linkVars, wireVars, deviceVars>>

-----------------------------------------------------------------------------
Seqs == 1 .. MaxSeq

(* EXCHANGE stands for every request CalLink treats alike: HELLO, GET_CAL,  *)
(* GET_DIAG, STREAM_SELECT, COMMIT, RESET and the uploader's.               *)
AppRequests == {"EXCHANGE", "SESSION_OPEN", "SESSION_CLOSE"}
Requests == AppRequests \cup {"KEEPALIVE"}

Replies == {"ACK", "NACK", "SESSION_ACK"}
Unsolicited == {"RAW", "UPL"}

UpFrame == [type : Requests, seq : Seqs]
DownFrame == [type : Replies \cup Unsolicited, re : Requests \cup {"none"},
              seq : 0 .. MaxSeq]

None == [type |-> "none", left |-> 0]
Waiting == [type : Requests, left : 1 .. ReplyTimeout + 1]

Free(s) == pending[s] = None
InFlight(type) == \E s \in Seqs : pending[s].type = type

exportGated == session \/ \E s \in Seqs : ~Free(s)

Max2(a, b) == IF a > b THEN a ELSE b
MaxTimeout == Max2(DefaultTimeout, DeviceTimeout)

TypeOK ==
    /\ port \in {"none", "waiting", "open"}
    /\ seq \in 0 .. MaxSeq
    /\ pending \in [Seqs -> Waiting \cup {None}]
    /\ session \in BOOLEAN
    /\ keepalive \in 0 .. KeepaliveEvery + 1
    /\ expiry \in 0 .. MaxTimeout + 1
    /\ deviceTimeout \in {DefaultTimeout, DeviceTimeout}
    /\ up \in Seq(UpFrame)
    /\ down \in Seq(DownFrame)
    /\ devSession \in 0 .. DeviceTimeout + 1
    /\ openedHere \in BOOLEAN
    /\ lost \in 0 .. MaxLost

-----------------------------------------------------------------------------
(* A fresh CalLink, with no port. *)
Init ==
    /\ port = "none"
    /\ seq = 0
    /\ pending = [s \in Seqs |-> None]
    /\ session = FALSE
    /\ keepalive = 0
    /\ expiry = 0
    /\ deviceTimeout = DefaultTimeout
    /\ up = <<>>
    /\ down = <<>>
    /\ devSession = 0
    /\ openedHere = FALSE
    /\ lost = 0

-----------------------------------------------------------------------------
(* Sending. *)

(* The i-th number after the last one given out; never 0. *)
NthSeq(i) == ((seq + i - 1) % MaxSeq) + 1

(* nextSeq: the first that awaits no reply. *)
IsNextSeq(s) ==
    \E i \in 1 .. MaxSeq :
        /\ s = NthSeq(i)
        /\ Free(s)
        /\ \A j \in 1 .. i - 1 : ~Free(NthSeq(j))

(* No reply is still on its way when SEQ comes round to its number again    *)
(* (255 requests later).  Nothing in the code sees to that: it is asked of  *)
(* the environment, unless StaleReplies.                                    *)
ReplyNotOutlived(s) ==
    \A i \in DOMAIN down : down[i].seq = s => down[i].type \in Unsolicited

(* send: one entry, one timer, one frame.  A write while the port is not    *)
(* open goes nowhere.                                                       *)
Send(type) ==
    \E s \in Seqs :
        /\ IsNextSeq(s)
        /\ StaleReplies \/ ReplyNotOutlived(s)
        /\ seq' = s
        /\ pending' = [pending EXCEPT
                         ![s] = [type |-> type, left |-> ReplyTimeout + 1]]
        /\ up' = IF port = "open" THEN Append(up, [type |-> type, seq |-> s])
                 ELSE up

(* How the callers use the channel.  The dialog sends one session change at *)
(* a time unless Overlap; after a close that failed, only the read-back     *)
(* that follows it at once, or a new open.  One number is left free for     *)
(* the keepalive, and a frame has reached the device, or was lost, before   *)
(* the next request is made: the wire is a queue, faster than a tick.       *)
CallerMay(type) ==
    /\ port # "none"
    /\ up = <<>>
    /\ Cardinality({s \in Seqs : Free(s)}) > 1
    /\ type = "EXCHANGE" => expiry \in {0, deviceTimeout + 1}
    /\ type = "SESSION_OPEN" => Overlap \/ ~InFlight("SESSION_CLOSE")
    /\ type = "SESSION_CLOSE" =>
         \/ Overlap
         \/ /\ ~InFlight("SESSION_OPEN")
            /\ ~InFlight("SESSION_CLOSE")
            /\ expiry = 0

(* request / exchange / commit / reset / streamSelect / hello / getCal. *)
Exchange ==
    /\ CallerMay("EXCHANGE")
    /\ Send("EXCHANGE")
    /\ UNCHANGED <<port, session, keepalive, expiry, deviceTimeout, down,
                   deviceVars, lost>>

OpenSession ==
    /\ CallerMay("SESSION_OPEN")
    /\ Send("SESSION_OPEN")
    /\ UNCHANGED <<port, session, keepalive, expiry, deviceTimeout, down,
                   deviceVars, lost>>

(* closeSession stops the keepalive, then asks; session stays set until the *)
(* answer.                                                                  *)
CloseSession ==
    /\ CallerMay("SESSION_CLOSE")
    /\ Send("SESSION_CLOSE")
    /\ keepalive' = 0
    /\ UNCHANGED <<port, session, expiry, deviceTimeout, down, deviceVars,
                   lost>>

(* Mutant, SurvivesOneLoss: one keepalive per idle timeout.                 *)
KeepaliveFiresTooSeldom ==
    /\ keepalive = 1
    /\ Send("KEEPALIVE")
    /\ keepalive' = Max2(KeepaliveEvery, deviceTimeout) + 1
    /\ UNCHANGED <<port, session, expiry, deviceTimeout, down, deviceVars,
                   lost>>

KeepaliveFires ==
    /\ keepalive = 1
    /\ Send("KEEPALIVE")
    /\ keepalive' = KeepaliveEvery + 1
    /\ UNCHANGED <<port, session, expiry, deviceTimeout, down, deviceVars,
                   lost>>

-----------------------------------------------------------------------------
(* Settling a request. *)

(* Mutant, GateShutInSession: the protocol's default, not the timeout the   *)
(* device reported.                                                         *)
AssumeExpiryByDefault == expiry' = IF session THEN DefaultTimeout + 1 ELSE 0

(* Mutant, ExchangesEnd: a close that went unanswered is left at that.      *)
AssumeNothingAfterFailedClose == UNCHANGED expiry

(* closeSession's catch: hold the gate until the device must have dropped   *)
(* the session on its own.  (Armed outside a session the timer would clear  *)
(* what is clear already, or be cleared by the next open: it is left out.)  *)
AssumeExpiryAfterFailedClose ==
    expiry' = IF session THEN deviceTimeout + 1 ELSE 0

(* openSession's continuation on SESSION_ACK. *)
SessionOpened ==
    /\ expiry' = 0
    /\ deviceTimeout' = DeviceTimeout
    /\ session' = TRUE
    /\ keepalive' = KeepaliveEvery + 1

(* closeSession's continuation on its ACK: clearSession. *)
SessionClosed ==
    /\ expiry' = 0
    /\ session' = FALSE
    /\ UNCHANGED <<keepalive, deviceTimeout>>

(* What the caller's continuation does once the request of this type is     *)
(* settled by a reply (or, "none", by its timeout).                         *)
Continue(type, reply) ==
    \/ /\ type = "SESSION_OPEN" /\ reply = "SESSION_ACK"
       /\ SessionOpened
    \/ /\ type = "SESSION_CLOSE" /\ reply = "ACK"
       /\ SessionClosed
    \/ /\ type = "SESSION_CLOSE" /\ reply # "ACK"
       /\ AssumeExpiryAfterFailedClose
       /\ UNCHANGED <<session, keepalive, deviceTimeout>>
    \/ /\ type # "SESSION_CLOSE"
       /\ ~(type = "SESSION_OPEN" /\ reply = "SESSION_ACK")
       /\ UNCHANGED <<session, keepalive, expiry, deviceTimeout>>

(* Mutant, SettledByOwnReply: RAW's own counter is taken for a SEQ.         *)
MatchesBySeqAlone(f) == f.seq \in Seqs /\ ~Free(f.seq)

(* Whether a frame is matched by SEQ to a request at all. *)
Matches(f) == f.type \notin Unsolicited /\ f.seq \in Seqs /\ ~Free(f.seq)

(* dispatch: RAW and the uploader's frames are never matched; an unmatched  *)
(* reply is dropped; any other settles its request.                         *)
Dispatch ==
    /\ down # <<>>
    /\ down' = Tail(down)
    /\ LET f == Head(down) IN
         IF Matches(f)
         THEN /\ pending' = [pending EXCEPT ![f.seq] = None]
              /\ Continue(pending[f.seq].type, f.type)
         ELSE UNCHANGED <<pending, session, keepalive, expiry, deviceTimeout>>
    /\ UNCHANGED <<port, seq, up, deviceVars, lost>>

(* The reply timer of one request. *)
TimeOut ==
    \E s \in Seqs :
        /\ pending[s].left = 1
        /\ pending' = [pending EXCEPT ![s] = None]
        /\ Continue(pending[s].type, "none")
        /\ UNCHANGED <<port, seq, up, down, deviceVars, lost>>

(* The assumed expiry. *)
ExpiryFires ==
    /\ expiry = 1
    /\ expiry' = 0
    /\ session' = FALSE
    /\ UNCHANGED <<port, seq, pending, keepalive, deviceTimeout, wireVars,
                   deviceVars>>

-----------------------------------------------------------------------------
(* The port's moments, as the link's riders hear of them. *)

Attach ==
    /\ port = "none"
    /\ port' = "waiting"
    /\ UNCHANGED <<linkVars, wireVars, deviceVars>>

PortOpens ==
    /\ port = "waiting"
    /\ port' = "open"
    /\ UNCHANGED <<linkVars, wireVars, deviceVars>>

(* Frames on the way are gone with the port.  The device's session is not:  *)
(* it expires on its side, and meets the port if that opens before, unless  *)
(* the Gateway lost its power too.                                          *)
DeviceAfterPort ==
    /\ up' = <<>>
    /\ down' = <<>>
    /\ devSession' \in {0, devSession}
    /\ openedHere' = FALSE
    /\ UNCHANGED lost

(* close(): clearSession, then every request in flight is rejected.  (The   *)
(* continuation of a rejected SESSION_CLOSE runs after that, and arms the   *)
(* assumed expiry outside a session.)                                       *)
CloseLink ==
    /\ keepalive' = 0
    /\ session' = FALSE
    /\ pending' = [s \in Seqs |-> None]
    /\ expiry' = 0
    /\ UNCHANGED <<seq, deviceTimeout>>

PortCloses ==
    /\ port = "open"
    /\ port' = "waiting"
    /\ CloseLink
    /\ DeviceAfterPort

(* release(): the link is closed and dropped; the next attach makes a new   *)
(* one.                                                                     *)
Release ==
    /\ port # "none"
    /\ port' = "none"
    /\ seq' = 0
    /\ pending' = [s \in Seqs |-> None]
    /\ session' = FALSE
    /\ keepalive' = 0
    /\ expiry' = 0
    /\ deviceTimeout' = DefaultTimeout
    /\ DeviceAfterPort

-----------------------------------------------------------------------------
(* The Gateway and the wire (external). *)

(* A session whose idle timer is due is over. *)
InSession == devSession > 1

(* A refused SESSION_OPEN (BAD_INDEX) leaves the device out of session.     *)
Answers(type) ==
    CASE type = "SESSION_OPEN"  -> {"SESSION_ACK"} \cup
                                   (IF InSession THEN {} ELSE {"NACK"})
      [] type = "SESSION_CLOSE" -> {"ACK"} \cup
                                   (IF InSession THEN {} ELSE {"NACK"})
      [] type = "KEEPALIVE"     -> {IF InSession THEN "ACK" ELSE "NACK"}
      [] OTHER                  -> {"ACK", "NACK"}

(* Any accepted frame refreshes an open session's idle timer. *)
SessionAfter(type, reply) ==
    CASE type = "SESSION_OPEN"  -> IF reply = "SESSION_ACK"
                                   THEN DeviceTimeout + 1 ELSE 0
      [] type = "SESSION_CLOSE" -> 0
      [] OTHER                  -> IF InSession THEN DeviceTimeout + 1
                                                ELSE devSession

DeviceAnswers ==
    /\ up # <<>>
    /\ Len(down) < MaxDown
    /\ LET f == Head(up) IN
         \E r \in Answers(f.type) :
            /\ down' = Append(down, [type |-> r, re |-> f.type, seq |-> f.seq])
            /\ devSession' = SessionAfter(f.type, r)
            /\ openedHere' = (openedHere \/ r = "SESSION_ACK")
    /\ up' = Tail(up)
    /\ UNCHANGED <<port, linkVars, lost>>

(* RAW carries a counter of its own in SEQ, the uploader's frames carry 0.  *)
(* Only those that meet a waiting request are here, RAW when its counter    *)
(* has come to the request's number: any other is dropped without effect.   *)
(* Streaming leaves room for an answer within the bound.                    *)
DeviceStreams ==
    /\ port = "open"
    /\ Len(down) + 1 < MaxDown
    /\ \E s \in Seqs :
         /\ ~Free(s)
         /\ \/ /\ InSession
               /\ down' = Append(down,
                                [type |-> "RAW", re |-> "none", seq |-> s])
            \/ down' = Append(down, [type |-> "UPL", re |-> "none", seq |-> 0])
    /\ UNCHANGED <<port, linkVars, up, deviceVars, lost>>

DeviceExpires ==
    /\ devSession = 1
    /\ devSession' = 0
    /\ UNCHANGED <<port, linkVars, wireVars, openedHere>>

LoseUp ==
    /\ up # <<>> /\ lost < MaxLost
    /\ up' = Tail(up)
    /\ lost' = lost + 1
    /\ UNCHANGED <<port, linkVars, down, deviceVars>>

LoseDown ==
    /\ down # <<>> /\ lost < MaxLost
    /\ LossySessionAck \/ Head(down).type # "SESSION_ACK"
    /\ down' = Tail(down)
    /\ lost' = lost + 1
    /\ UNCHANGED <<port, linkVars, up, deviceVars>>

-----------------------------------------------------------------------------
(* Time.  A frame reaches the device, or is lost, within a tick; a reply    *)
(* may take longer, a SESSION_ACK only if LossySessionAck.                  *)

Down1(t) == IF t = 0 THEN 0 ELSE t - 1

NothingDue ==
    /\ keepalive # 1 /\ expiry # 1 /\ devSession # 1
    /\ \A s \in Seqs : pending[s].left # 1

Tick ==
    /\ NothingDue
    /\ up = <<>>
    /\ LossySessionAck \/ \A i \in DOMAIN down : down[i].type # "SESSION_ACK"
    /\ keepalive' = Down1(keepalive)
    /\ expiry' = Down1(expiry)
    /\ devSession' = Down1(devSession)
    /\ pending' = [s \in Seqs |-> [pending[s] EXCEPT !.left = Down1(@)]]
    /\ UNCHANGED <<port, seq, session, deviceTimeout, wireVars, openedHere>>

-----------------------------------------------------------------------------
Caller == Exchange \/ OpenSession \/ CloseSession
Client == KeepaliveFires \/ Dispatch \/ TimeOut \/ ExpiryFires
Port == Attach \/ PortOpens \/ PortCloses \/ Release
Gateway == DeviceAnswers \/ DeviceStreams \/ DeviceExpires
Wire == LoseUp \/ LoseDown

Next == Caller \/ Client \/ Port \/ Gateway \/ Wire \/ Tick

Spec == Init /\ [][Next]_vars

Due == TimeOut \/ KeepaliveFires \/ ExpiryFires \/ DeviceExpires

(* What must happen: the device answers, the event loop runs what is due,   *)
(* and time passes.  Time is strong: an exchange in flight holds the tick.  *)
Fairness ==
    /\ WF_vars(DeviceAnswers) /\ WF_vars(Dispatch) /\ WF_vars(Due)
    /\ SF_vars(Tick)

FairSpec == Spec /\ Fairness

-----------------------------------------------------------------------------
(* Properties. *)

(* The export gate is shut while the device holds a session that it opened  *)
(* since the port last did: nothing is forwarded into a device that streams *)
(* RAW for it.  A device whose session lapses this very tick counts as out  *)
(* of it.  A session left over from before the port closed is not covered:  *)
(* close() takes the device to be in no session "with us either way", and   *)
(* a port that opens again before the device's own expiry meets a device    *)
(* that streams, with the gate open.                                        *)
GateShutInSession ==
    port = "open" /\ InSession /\ openedHere => exportGated

(* A session the user has not closed survives the loss of any one frame.    *)
SurvivesOneLoss == keepalive > 0 /\ lost <= 1 => InSession

(* A request leaves the table by its timeout, by the port closing, or by    *)
(* the one reply that answers it: never by RAW, the uploader's frames or    *)
(* another request's reply, while no reply is as late as its number's next  *)
(* use (with StaleReplies it is settled by such a one).                     *)
SettledByOwnReply ==
    [][\A s \in Seqs :
         /\ ~Free(s) /\ pending[s].left > 1
         /\ pending'[s] = None
         /\ port' = "open"
         => /\ down # <<>>
            /\ Head(down).seq = s
            /\ Head(down).re = pending[s].type
            /\ down' = Tail(down)]_vars

(* Every request is settled. *)
EveryRequestSettles == \A s \in Seqs : ~Free(s) ~> Free(s)

(* A session whose close was asked for ends, answered or not, unless it is  *)
(* opened anew: the gate does not stay shut for good.                       *)
ClosedSessionEnds == (session /\ keepalive = 0) ~> (~session \/ keepalive > 0)

(* What was asked of the device ends: its requests, and its sessions.       *)
ExchangesEnd == EveryRequestSettles /\ ClosedSessionEnds
=============================================================================
