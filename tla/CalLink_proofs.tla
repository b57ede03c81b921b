--------------------------- MODULE CalLink_proofs ---------------------------
(***************************************************************************)
(* For any number of sequence numbers, any timeouts and any losses: a      *)
(* request is settled by its own reply (whatever the callers and the wire  *)
(* do, but for a reply later than its number's next use); the export gate  *)
(* is shut while the device is in a session it opened since the port last  *)
(* did, and such a session outlives the loss of any one frame (when no     *)
(* SESSION_ACK is lost or late, and the dialog changes the session one     *)
(* change at a time).                                                      *)
(*                                                                         *)
(* The argument.  A frame reaches the device before time passes, so its    *)
(* request still has all of its time, and its number no other frame and no *)
(* reply (OneFrameEach): a reply on its way is of the request that has its *)
(* number (RepliesMatch).  A SESSION_ACK is heard before time passes, so a *)
(* device is in session unknown to the client only while the request for   *)
(* it waits (OpensAreHeard).  A close leaves the gate shut until the       *)
(* device's own timer, which nothing refreshes by then, has run out        *)
(* (ExpiryCovers).  All of it is about the session this port opened        *)
(* (OurSession): one left over from before counts for none.                *)
(***************************************************************************)
EXTENDS CalLink, SequenceTheorems, FiniteSetTheorems, TLAPS

Full(type) == [type |-> type, left |-> ReplyTimeout + 1]

IsReply(f) == f.type \in Replies

(* A frame on its way to the device is of a request that has just been      *)
(* made, and neither another frame nor a reply has its number.              *)
OneFrameEach ==
    /\ \A i \in DOMAIN up : pending[up[i].seq] = Full(up[i].type)
    /\ \A i, j \in DOMAIN up : up[i].seq = up[j].seq => i = j
    /\ \A i \in DOMAIN up, j \in DOMAIN down :
          IsReply(down[j]) => up[i].seq # down[j].seq

(* Of a request there is one reply at most on its way, and a number that is *)
(* taken is the one of the request its reply answers.                       *)
RepliesMatch ==
    /\ \A i, j \in DOMAIN down :
          IsReply(down[i]) /\ IsReply(down[j]) /\ down[i].seq = down[j].seq => i = j
    /\ \A i \in DOMAIN down :
          IsReply(down[i]) =>
             /\ down[i].seq \in Seqs
             /\ ~Free(down[i].seq) => pending[down[i].seq].type = down[i].re

(* No reply is so late that its number is in use again.                     *)
NoneStale == ~StaleReplies

WireInv == TypeOK /\ NoneStale /\ OneFrameEach /\ RepliesMatch

-----------------------------------------------------------------------------
(* The device's idle timer as far as the session is this port's.            *)
OurSession == IF openedHere THEN devSession ELSE 0

SessionAcks == {i \in DOMAIN down : down[i].type = "SESSION_ACK"}

(* Opens and closes of the session exclude one another, and closes each     *)
(* other; from a close to its end, and to the assumed expiry after a failed *)
(* one, there are no keepalives.                                            *)
OneChange ==
    /\ \A s, t \in Seqs :
          pending[s].type = "SESSION_CLOSE" =>
             /\ pending[t].type # "SESSION_OPEN"
             /\ pending[t].type = "SESSION_CLOSE" => s = t
    /\ InFlight("SESSION_CLOSE") => expiry = 0
    /\ InFlight("SESSION_CLOSE") \/ expiry > 0 =>
          /\ keepalive = 0
          /\ \A i \in DOMAIN up : up[i].type # "KEEPALIVE"

(* A SESSION_ACK on its way is of a request that has just been made, and    *)
(* the device has just been in session; one on its way, or heard, is all    *)
(* that lets a device be in session.                                        *)
OpensAreHeard ==
    /\ \A i \in SessionAcks :
          /\ pending[down[i].seq] = Full("SESSION_OPEN")
          /\ OurSession = DeviceTimeout + 1
    /\ SessionAcks = {} /\ OurSession > 1 => session
    /\ SessionAcks = {} /\ OurSession > 0 => deviceTimeout = DeviceTimeout

(* A close that was answered has ended the session.                         *)
ClosesEnd ==
    \A i \in DOMAIN down :
       IsReply(down[i]) /\ pending[down[i].seq].type = "SESSION_CLOSE" => OurSession = 0

(* The assumed expiry comes no earlier than the device's own.               *)
ExpiryCovers ==
    /\ expiry > 0 /\ SessionAcks = {} => OurSession <= expiry
    /\ expiry > 0 =>
          \A i \in DOMAIN up : up[i].type # "SESSION_OPEN" => expiry = deviceTimeout + 1

GateInv == OneChange /\ OpensAreHeard /\ ClosesEnd /\ ExpiryCovers

(* What is left of the device's idle timer while the client keeps the       *)
(* session alive: a loss costs one keepalive's interval, and so does a      *)
(* keepalive that has not arrived yet.                                      *)
KeepaliveUp == \E i \in DOMAIN up : up[i].type = "KEEPALIVE"

ForTheOneUp == IF KeepaliveUp THEN KeepaliveEvery ELSE 0
ForTheLost == IF lost = 0 THEN 0 ELSE KeepaliveEvery

LeftOfSession ==
    keepalive > 0 /\ lost <= 1 =>
       DeviceTimeout + keepalive <= OurSession + KeepaliveEvery + ForTheOneUp + ForTheLost

KeptAlive ==
    /\ LeftOfSession
    /\ KeepaliveUp => keepalive \in {0, KeepaliveEvery + 1}
    /\ port # "open" => up = <<>> /\ down = <<>> /\ keepalive = 0

-----------------------------------------------------------------------------
(* Queues: what is appended comes last, what is taken came first.           *)
LEMMA Appended ==
    ASSUME NEW S, NEW q \in Seq(S), NEW e \in S
    PROVE  /\ Append(q, e) \in Seq(S)
           /\ DOMAIN q = 1 .. Len(q) /\ Len(q) \in Nat
           /\ DOMAIN Append(q, e) = 1 .. Len(q) + 1
           /\ \A i \in DOMAIN q : i \in DOMAIN Append(q, e) /\ Append(q, e)[i] = q[i]
           /\ \A i \in DOMAIN Append(q, e) : i \in DOMAIN q \/ i = Len(q) + 1
           /\ Append(q, e)[Len(q) + 1] = e
  OBVIOUS

LEMMA Taken ==
    ASSUME NEW S, NEW q \in Seq(S), q # <<>>
    PROVE  /\ Tail(q) \in Seq(S) /\ Head(q) \in S /\ Head(q) = q[1] /\ 1 \in DOMAIN q
           /\ \A i \in DOMAIN Tail(q) :
                 i \in Nat /\ i + 1 \in DOMAIN q /\ i + 1 # 1 /\ Tail(q)[i] = q[i + 1]
           /\ \A i \in DOMAIN q : i = 1 \/ (i - 1 \in DOMAIN Tail(q) /\ Tail(q)[i - 1] = q[i])
  OBVIOUS

(* The slot of a request: taken by one of Requests, or free.                *)
LEMMA Slot ==
    ASSUME TypeOK, NEW s \in Seqs
    PROVE  /\ pending[s] \in Waiting \cup {None}
           /\ Free(s) <=> pending[s].type = "none"
           /\ ~Free(s) => pending[s].type \in Requests /\ pending[s].left \in 1 .. ReplyTimeout + 1
           /\ Free(s) => pending[s].type = "none" /\ pending[s].left = 0
<1>1. pending[s] \in Waiting \cup {None}
  BY DEF TypeOK
<1>2. "none" \notin Requests
  BY DEF Requests, AppRequests
<1> QED
  BY <1>1, <1>2 DEF Free, None, Waiting

LEMMA FullIsWaiting ==
    ASSUME NEW type \in Requests
    PROVE  Full(type) \in Waiting /\ Full(type) # None /\ Full(type).type = type
           /\ Full(type).left = ReplyTimeout + 1 /\ ReplyTimeout + 1 >= 2
<1>1. ReplyTimeout \in Nat \ {0}
  BY ParamsAssumption DEF ParamsAssumption
<1> QED
  BY <1>1 DEF Full, Waiting, None

(* What a request does: the first free number, its slot, and its frame when *)
(* the port is open.                                                        *)
LEMMA SendDoes ==
    ASSUME NEW type \in Requests, Send(type)
    PROVE  \E s \in Seqs :
              /\ Free(s) /\ (NoneStale => ReplyNotOutlived(s))
              /\ seq' = s /\ pending' = [pending EXCEPT ![s] = Full(type)]
              /\ up' = up \/ up' = Append(up, [type |-> type, seq |-> s])
  BY DEF Send, IsNextSeq, Full, NoneStale

LEMMA TimeoutsCovered ==
    /\ MaxTimeout \in Nat /\ DefaultTimeout <= MaxTimeout /\ DeviceTimeout <= MaxTimeout
    /\ DefaultTimeout \in Nat /\ DefaultTimeout >= 1 /\ DeviceTimeout \in Nat /\ DeviceTimeout >= 1
    /\ KeepaliveEvery \in Nat /\ KeepaliveEvery >= 1 /\ ReplyTimeout \in Nat /\ ReplyTimeout >= 1
  BY ParamsAssumption DEF ParamsAssumption, MaxTimeout, Max2

-----------------------------------------------------------------------------
(* The wire. *)

LEMMA SendWire ==
    ASSUME WireInv, NEW type \in Requests, Send(type), UNCHANGED down
    PROVE  /\ OneFrameEach' /\ RepliesMatch'
           /\ seq' \in 0 .. MaxSeq /\ up' \in Seq(UpFrame)
           /\ pending' \in [Seqs -> Waiting \cup {None}]
<1>0. TypeOK /\ OneFrameEach /\ RepliesMatch
  BY DEF WireInv
<1>1. PICK s \in Seqs :
              /\ Free(s) /\ ReplyNotOutlived(s)
              /\ seq' = s /\ pending' = [pending EXCEPT ![s] = Full(type)]
              /\ up' = up \/ up' = Append(up, [type |-> type, seq |-> s])
  BY SendDoes DEF WireInv
<1> DEFINE f == [type |-> type, seq |-> s]
<1>2. up \in Seq(UpFrame) /\ f \in UpFrame /\ down \in Seq(DownFrame)
  BY <1>0 DEF TypeOK, UpFrame
<1>3. /\ pending' \in [Seqs -> Waiting \cup {None}]
      /\ pending'[s] = Full(type) /\ \A t \in Seqs \ {s} : pending'[t] = pending[t]
  BY <1>0, <1>1, FullIsWaiting DEF TypeOK
<1>4. seq' \in 0 .. MaxSeq
  BY <1>1, ParamsAssumption DEF Seqs, ParamsAssumption
<1>5. \A i \in DOMAIN up : up[i] \in UpFrame /\ up[i].seq \in Seqs /\ up[i].seq # s
  <2> TAKE i \in DOMAIN up
  <2>1. up[i] \in UpFrame
    BY <1>2
  <2>2. pending[up[i].seq] = Full(up[i].type)
    BY <1>0 DEF OneFrameEach
  <2>3. up[i].type \in Requests /\ up[i].seq \in Seqs
    BY <2>1 DEF UpFrame
  <2> QED
    BY <1>1, <2>1, <2>2, <2>3, FullIsWaiting DEF Free
<1>6. \A i \in DOMAIN down : IsReply(down[i]) => down[i].seq # s
  BY <1>1 DEF ReplyNotOutlived, IsReply, Replies, Unsolicited
<1>7. \A i \in DOMAIN up' : (i \in DOMAIN up /\ up'[i] = up[i]) \/ (i = Len(up) + 1 /\ i \notin DOMAIN up /\ up'[i] = f)
  <2>1. DOMAIN up = 1 .. Len(up) /\ Len(up) \in Nat
    BY <1>2
  <2>2. CASE up' = up
    BY <2>2
  <2>3. CASE up' = Append(up, f)
    BY <2>1, <2>3, <1>2, Appended
  <2> QED
    BY <1>1, <2>2, <2>3
<1>8. up' \in Seq(UpFrame)
  BY <1>1, <1>2, Appended
<1>9. f.type = type /\ f.seq = s
  OBVIOUS
<1> HIDE DEF f
<1>10. OneFrameEach'
  <2>1. \A i \in DOMAIN up' : pending'[up'[i].seq] = Full(up'[i].type)
    BY <1>0, <1>3, <1>5, <1>7, <1>9 DEF OneFrameEach
  <2>2. \A i, j \in DOMAIN up' : up'[i].seq = up'[j].seq => i = j
    BY <1>0, <1>5, <1>7, <1>9 DEF OneFrameEach
  <2>3. \A i \in DOMAIN up', j \in DOMAIN down' : IsReply(down'[j]) => up'[i].seq # down'[j].seq
    BY <1>0, <1>6, <1>7, <1>9 DEF OneFrameEach
  <2> QED
    BY <2>1, <2>2, <2>3 DEF OneFrameEach, Full
<1>11. RepliesMatch'
  <2>1. \A i \in DOMAIN down : IsReply(down[i]) => pending'[down[i].seq] = pending[down[i].seq]
    BY <1>0, <1>3, <1>6 DEF RepliesMatch
  <2> QED
    BY <2>1, <1>0 DEF RepliesMatch, Free, IsReply
<1> QED
  BY <1>3, <1>4, <1>8, <1>10, <1>11

(* A frame that goes from the head of a queue takes nothing else along.     *)
LEMMA UpTaken ==
    ASSUME WireInv, up # <<>>, up' = Tail(up), UNCHANGED <<pending, down>>
    PROVE  OneFrameEach' /\ RepliesMatch' /\ up' \in Seq(UpFrame)
<1>0. TypeOK /\ OneFrameEach /\ RepliesMatch
  BY DEF WireInv
<1>1. up \in Seq(UpFrame)
  BY <1>0 DEF TypeOK
<1>2. \A i \in DOMAIN up' : i \in Nat /\ i + 1 \in DOMAIN up /\ up'[i] = up[i + 1]
  BY <1>1, Taken
<1>3. OneFrameEach'
  <2>1. \A i \in DOMAIN up' : pending[up'[i].seq] = Full(up'[i].type)
    BY <1>0, <1>2 DEF OneFrameEach
  <2>2. \A i, j \in DOMAIN up' : up'[i].seq = up'[j].seq => i = j
    <3> TAKE i, j \in DOMAIN up'
    <3> HAVE up'[i].seq = up'[j].seq
    <3>1. i + 1 = j + 1
      BY <1>0, <1>2 DEF OneFrameEach
    <3> QED
      BY <1>2, <3>1
  <2>3. \A i \in DOMAIN up', j \in DOMAIN down : IsReply(down[j]) => up'[i].seq # down[j].seq
    BY <1>0, <1>2 DEF OneFrameEach
  <2> QED
    BY <2>1, <2>2, <2>3 DEF OneFrameEach, Full
<1>4. RepliesMatch'
  BY <1>0 DEF RepliesMatch, Free, IsReply
<1> QED
  BY <1>1, <1>3, <1>4, Taken

LEMMA DownTaken ==
    ASSUME WireInv, down # <<>>, down' = Tail(down), UNCHANGED up,
           pending' \in [Seqs -> Waiting \cup {None}],
           \A s \in Seqs : pending'[s] = pending[s] \/ (pending'[s] = None /\ Head(down).seq = s
                                                        /\ IsReply(Head(down)))
    PROVE  OneFrameEach' /\ RepliesMatch' /\ down' \in Seq(DownFrame)
<1>0. TypeOK /\ OneFrameEach /\ RepliesMatch
  BY DEF WireInv
<1>1. down \in Seq(DownFrame) /\ up \in Seq(UpFrame)
  BY <1>0 DEF TypeOK
<1>2. /\ \A i \in DOMAIN down' : i \in Nat /\ i + 1 \in DOMAIN down /\ down'[i] = down[i + 1]
      /\ 1 \in DOMAIN down /\ Head(down) = down[1] /\ down' \in Seq(DownFrame)
  BY <1>1, Taken
<1>3. \A i \in DOMAIN up : up[i].seq \in Seqs /\ pending'[up[i].seq] = pending[up[i].seq]
  <2> TAKE i \in DOMAIN up
  <2>1. up[i] \in UpFrame
    BY <1>1
  <2>2. up[i].seq \in Seqs
    BY <2>1 DEF UpFrame
  <2>3. IsReply(Head(down)) => up[i].seq # Head(down).seq
    BY <1>0, <1>2 DEF OneFrameEach
  <2> QED
    BY <2>2, <2>3
<1>4. OneFrameEach'
  BY <1>0, <1>2, <1>3 DEF OneFrameEach, Full, IsReply
<1>5. RepliesMatch'
  <2>1. \A i, j \in DOMAIN down' :
          IsReply(down'[i]) /\ IsReply(down'[j]) /\ down'[i].seq = down'[j].seq => i = j
    <3> TAKE i, j \in DOMAIN down'
    <3> HAVE IsReply(down'[i]) /\ IsReply(down'[j]) /\ down'[i].seq = down'[j].seq
    <3>1. i + 1 = j + 1
      BY <1>0, <1>2 DEF RepliesMatch
    <3> QED
      BY <1>2, <3>1
  <2>2. ASSUME NEW i \in DOMAIN down', IsReply(down'[i])
        PROVE  /\ down'[i].seq \in Seqs
               /\ pending'[down'[i].seq] # None => pending'[down'[i].seq].type = down'[i].re
    <3>1. /\ down'[i].seq \in Seqs
          /\ pending[down'[i].seq] # None => pending[down'[i].seq].type = down'[i].re
      BY <1>0, <1>2, <2>2 DEF RepliesMatch, Free
    <3> QED
      BY <3>1
  <2> QED
    BY <2>1, <2>2 DEF RepliesMatch, IsReply, Free
<1> QED
  BY <1>2, <1>4, <1>5

(* The answer has the number of its frame, and answers what the frame asks. *)
LEMMA AnswerWire ==
    ASSUME WireInv, up # <<>>, up' = Tail(up), UNCHANGED pending,
           NEW r \in Replies,
           down' = Append(down, [type |-> r, re |-> Head(up).type, seq |-> Head(up).seq])
    PROVE  OneFrameEach' /\ RepliesMatch' /\ up' \in Seq(UpFrame) /\ down' \in Seq(DownFrame)
<1>0. TypeOK /\ OneFrameEach /\ RepliesMatch
  BY DEF WireInv
<1> DEFINE f == Head(up)
           g == [type |-> r, re |-> f.type, seq |-> f.seq]
<1>1. up \in Seq(UpFrame) /\ down \in Seq(DownFrame)
  BY <1>0 DEF TypeOK
<1>2. /\ \A i \in DOMAIN up' : i \in Nat /\ i + 1 \in DOMAIN up /\ i + 1 # 1 /\ up'[i] = up[i + 1]
      /\ 1 \in DOMAIN up /\ f = up[1] /\ f \in UpFrame /\ up' \in Seq(UpFrame)
  BY <1>1, Taken
<1>3. f.type \in Requests /\ f.seq \in Seqs /\ f.seq \in 0 .. MaxSeq
  BY <1>2 DEF UpFrame, Seqs
<1>4. g \in DownFrame /\ g.seq = f.seq /\ g.re = f.type
  BY <1>3 DEF DownFrame
<1>5. pending[f.seq] = Full(f.type) /\ \A j \in DOMAIN down : IsReply(down[j]) => down[j].seq # f.seq
  BY <1>0, <1>2 DEF OneFrameEach
<1> HIDE DEF f, g
<1>6. down' = Append(down, g)
  BY DEF f, g
<1>7. /\ \A i \in DOMAIN down' : \/ i \in DOMAIN down /\ down'[i] = down[i]
                                 \/ i = Len(down) + 1 /\ down'[i] = g
      /\ down' \in Seq(DownFrame)
  BY <1>1, <1>4, <1>6, Appended
<1>8. \A i \in DOMAIN up' : up'[i].seq # f.seq
  BY <1>0, <1>2 DEF OneFrameEach
<1>9. OneFrameEach'
  <2>1. \A i \in DOMAIN up' : pending[up'[i].seq] = Full(up'[i].type)
    BY <1>0, <1>2 DEF OneFrameEach
  <2>2. \A i, j \in DOMAIN up' : up'[i].seq = up'[j].seq => i = j
    <3> TAKE i, j \in DOMAIN up'
    <3> HAVE up'[i].seq = up'[j].seq
    <3>1. i + 1 = j + 1
      BY <1>0, <1>2 DEF OneFrameEach
    <3> QED
      BY <1>2, <3>1
  <2>3. \A i \in DOMAIN up', j \in DOMAIN down' : IsReply(down'[j]) => up'[i].seq # down'[j].seq
    BY <1>0, <1>2, <1>4, <1>7, <1>8 DEF OneFrameEach
  <2> QED
    BY <2>1, <2>2, <2>3 DEF OneFrameEach, Full, IsReply
<1>10. RepliesMatch'
  <2>1. \A i, j \in DOMAIN down' :
          IsReply(down'[i]) /\ IsReply(down'[j]) /\ down'[i].seq = down'[j].seq => i = j
    BY <1>0, <1>4, <1>5, <1>7 DEF RepliesMatch
  <2>2. Full(f.type).type = f.type
    BY <1>3, FullIsWaiting
  <2>3. \A i \in DOMAIN down' :
          IsReply(down'[i]) =>
             /\ down'[i].seq \in Seqs
             /\ pending[down'[i].seq] # None => pending[down'[i].seq].type = down'[i].re
    BY <1>0, <1>3, <1>4, <1>5, <1>7, <2>2 DEF RepliesMatch, Free
  <2> QED
    BY <2>1, <2>3 DEF RepliesMatch, Free, IsReply
<1> QED
  BY <1>2, <1>7, <1>9, <1>10

(* What the device sends on its own answers nothing.                        *)
LEMMA StreamWire ==
    ASSUME WireInv, UNCHANGED <<up, pending>>, NEW g \in DownFrame, g.type \in Unsolicited,
           down' = Append(down, g)
    PROVE  OneFrameEach' /\ RepliesMatch' /\ down' \in Seq(DownFrame)
<1>0. TypeOK /\ OneFrameEach /\ RepliesMatch
  BY DEF WireInv
<1>1. down \in Seq(DownFrame)
  BY <1>0 DEF TypeOK
<1>2. ~IsReply(g)
  BY DEF IsReply, Replies, Unsolicited
<1>3. /\ \A i \in DOMAIN down' : \/ i \in DOMAIN down /\ down'[i] = down[i]
                                 \/ i = Len(down) + 1 /\ down'[i] = g
      /\ down' \in Seq(DownFrame)
  BY <1>1, Appended
<1>4. \A i \in DOMAIN down' : IsReply(down'[i]) => i \in DOMAIN down /\ down'[i] = down[i]
  BY <1>2, <1>3
<1>5. OneFrameEach'
  <2>1. \A i \in DOMAIN up, j \in DOMAIN down' : IsReply(down'[j]) => up[i].seq # down'[j].seq
    BY <1>0, <1>4 DEF OneFrameEach
  <2> QED
    BY <1>0, <2>1 DEF OneFrameEach, Full, IsReply
<1>6. RepliesMatch'
  <2>1. \A i, j \in DOMAIN down' :
          IsReply(down'[i]) /\ IsReply(down'[j]) /\ down'[i].seq = down'[j].seq => i = j
    BY <1>0, <1>4 DEF RepliesMatch
  <2>2. \A i \in DOMAIN down' :
          IsReply(down'[i]) =>
             /\ down'[i].seq \in Seqs
             /\ ~Free(down'[i].seq) => pending[down'[i].seq].type = down'[i].re
    BY <1>0, <1>4 DEF RepliesMatch
  <2> QED
    BY <2>1, <2>2 DEF RepliesMatch, Free, IsReply
<1> QED
  BY <1>3, <1>5, <1>6

(* A request whose time is up has no frame on its way.                      *)
LEMMA SettledWire ==
    ASSUME WireInv, UNCHANGED <<up, down>>, NEW s \in Seqs, pending[s].left = 1,
           pending' = [pending EXCEPT ![s] = None]
    PROVE  OneFrameEach' /\ RepliesMatch' /\ pending' \in [Seqs -> Waiting \cup {None}]
<1>0. TypeOK /\ OneFrameEach /\ RepliesMatch
  BY DEF WireInv
<1>1. /\ pending' \in [Seqs -> Waiting \cup {None}] /\ pending'[s] = None
      /\ \A t \in Seqs \ {s} : pending'[t] = pending[t]
  BY <1>0 DEF TypeOK
<1>2. \A i \in DOMAIN up : up[i].seq \in Seqs /\ up[i].seq # s
  <2> TAKE i \in DOMAIN up
  <2>1. up[i] \in UpFrame
    BY <1>0 DEF TypeOK
  <2>2. up[i].seq \in Seqs /\ up[i].type \in Requests
    BY <2>1 DEF UpFrame
  <2>3. pending[up[i].seq].left # 1
    BY <1>0, <2>2, FullIsWaiting DEF OneFrameEach
  <2> QED
    BY <2>2, <2>3
<1>3. OneFrameEach'
  BY <1>0, <1>1, <1>2 DEF OneFrameEach, Full, IsReply
<1>4. RepliesMatch'
  <2>1. \A i \in DOMAIN down :
          IsReply(down[i]) =>
             /\ down[i].seq \in Seqs
             /\ pending'[down[i].seq] # None => pending'[down[i].seq].type = down[i].re
    BY <1>0, <1>1 DEF RepliesMatch, Free
  <2> QED
    BY <2>1, <1>0 DEF RepliesMatch, IsReply, Free
<1> QED
  BY <1>1, <1>3, <1>4

(* Nothing on the way: nothing to be mistaken.                              *)
LEMMA EmptyWire ==
    ASSUME up' = <<>>, down' = <<>>
    PROVE  OneFrameEach' /\ RepliesMatch' /\ up' \in Seq(UpFrame) /\ down' \in Seq(DownFrame)
  BY DEF OneFrameEach, RepliesMatch

(* The time that passes changes no request but its time.                    *)
LEMMA TickSlots ==
    ASSUME TypeOK, Tick, NEW s \in Seqs
    PROVE  /\ pending'[s] \in Waiting \cup {None}
           /\ pending'[s].type = pending[s].type
           /\ pending'[s] = None <=> pending[s] = None
<1>1. CASE Free(s)
  <2>1. pending[s] = None
    BY <1>1 DEF Free
  <2>2. [None EXCEPT !.left = Down1(@)] = None
    BY DEF None, Down1
  <2> QED
    BY <2>1, <2>2 DEF Tick
<1>2. CASE ~Free(s)
  <2>1. pending[s] \in Waiting
    BY <1>2, Slot DEF Free
  <2>2. pending[s].left - 1 \in 1 .. ReplyTimeout + 1 /\ pending[s].left # 0
    BY <2>1, TimeoutsCovered DEF Tick, NothingDue, Waiting
  <2>3. pending'[s] = [pending[s] EXCEPT !.left = pending[s].left - 1]
    BY <2>2 DEF Tick, Down1
  <2>4. pending'[s] \in Waiting /\ pending'[s].type = pending[s].type
    BY <2>1, <2>2, <2>3 DEF Waiting
  <2>5. None \notin Waiting
    BY DEF None, Waiting
  <2> QED
    BY <2>1, <2>4, <2>5
<1> QED
  BY <1>1, <1>2

LEMMA TickWire ==
    ASSUME WireInv, Tick
    PROVE  OneFrameEach' /\ RepliesMatch' /\ pending' \in [Seqs -> Waiting \cup {None}]
<1>0. TypeOK /\ OneFrameEach /\ RepliesMatch
  BY DEF WireInv
<1>1. pending' \in [Seqs -> Waiting \cup {None}]
  <2>1. pending' = [s \in Seqs |-> [pending[s] EXCEPT !.left = Down1(@)]]
    BY DEF Tick
  <2> QED
    BY <2>1, <1>0, TickSlots
<1>2. up = <<>> /\ up' = up /\ down' = down
  BY DEF Tick, wireVars
<1>3. RepliesMatch'
  BY <1>0, <1>2, TickSlots DEF RepliesMatch, Free, IsReply
<1> QED
  BY <1>1, <1>2, <1>3 DEF OneFrameEach

-----------------------------------------------------------------------------
(* The types of what only counts down, or is set. *)
Flags ==
    /\ port \in {"none", "waiting", "open"} /\ session \in BOOLEAN
    /\ openedHere \in BOOLEAN

Counters ==
    /\ keepalive \in 0 .. KeepaliveEvery + 1
    /\ expiry \in 0 .. MaxTimeout + 1
    /\ deviceTimeout \in {DefaultTimeout, DeviceTimeout}
    /\ devSession \in 0 .. DeviceTimeout + 1
    /\ lost \in 0 .. MaxLost

LEMMA FlagsStep ==
    ASSUME Flags, Next
    PROVE  Flags'
<1>1. CASE Caller \/ Client
  BY <1>1 DEF Flags, Caller, Exchange, OpenSession, CloseSession, Client, KeepaliveFires, Dispatch,
     TimeOut, ExpiryFires, Continue, SessionOpened, SessionClosed, deviceVars
<1>2. CASE Port
  BY <1>2 DEF Flags, Port, Attach, PortOpens, PortCloses, Release, CloseLink, DeviceAfterPort,
     linkVars, deviceVars
<1>3. CASE Gateway \/ Wire \/ Tick
  BY <1>3 DEF Flags, Gateway, DeviceAnswers, DeviceStreams, DeviceExpires, Wire, LoseUp, LoseDown,
     Tick, linkVars, deviceVars
<1> QED
  BY <1>1, <1>2, <1>3 DEF Next

LEMMA ContinueTypes ==
    ASSUME Counters, NEW type, NEW reply, Continue(type, reply)
    PROVE  /\ keepalive' \in 0 .. KeepaliveEvery + 1
           /\ expiry' \in 0 .. MaxTimeout + 1
           /\ deviceTimeout' \in {DefaultTimeout, DeviceTimeout}
<1> USE TimeoutsCovered DEF Counters
<1>1. CASE SessionOpened
  BY <1>1 DEF SessionOpened
<1>2. CASE SessionClosed
  BY <1>2 DEF SessionClosed
<1>3. CASE AssumeExpiryAfterFailedClose /\ UNCHANGED <<keepalive, deviceTimeout>>
  <2>1. expiry' \in {0, deviceTimeout + 1}
    BY <1>3 DEF AssumeExpiryAfterFailedClose
  <2> QED
    BY <1>3, <2>1
<1>4. CASE UNCHANGED <<keepalive, expiry, deviceTimeout>>
  BY <1>4
<1> QED
  BY <1>1, <1>2, <1>3, <1>4 DEF Continue

LEMMA CountersStep ==
    ASSUME Counters, Next
    PROVE  Counters'
<1> USE TimeoutsCovered
<1>1. CASE Caller
  <2>1. UNCHANGED <<expiry, deviceTimeout, devSession, lost>> /\ keepalive' \in {keepalive, 0}
    BY <1>1 DEF Caller, Exchange, OpenSession, CloseSession, deviceVars
  <2> QED
    BY <2>1 DEF Counters
<1>2. CASE KeepaliveFires
  <2>1. UNCHANGED <<expiry, deviceTimeout, devSession, lost>> /\ keepalive' = KeepaliveEvery + 1
    BY <1>2 DEF KeepaliveFires, deviceVars
  <2> QED
    BY <2>1 DEF Counters
<1>3. CASE ExpiryFires
  <2>1. UNCHANGED <<keepalive, deviceTimeout, devSession, lost>> /\ expiry' = 0
    BY <1>3 DEF ExpiryFires, wireVars, deviceVars
  <2> QED
    BY <2>1 DEF Counters
<1>4. CASE Dispatch
  <2>1. /\ UNCHANGED <<devSession, lost>>
        /\ \/ \E type, reply : Continue(type, reply)
           \/ UNCHANGED <<keepalive, expiry, deviceTimeout>>
    BY <1>4 DEF Dispatch, deviceVars
  <2> QED
    BY <2>1, ContinueTypes DEF Counters
<1>5. CASE TimeOut
  <2>1. UNCHANGED <<devSession, lost>> /\ \E type, reply : Continue(type, reply)
    BY <1>5 DEF TimeOut, deviceVars
  <2> QED
    BY <2>1, ContinueTypes DEF Counters
<1>6. CASE Attach \/ PortOpens
  <2>1. UNCHANGED <<keepalive, expiry, deviceTimeout, devSession, lost>>
    BY <1>6 DEF Attach, PortOpens, linkVars, wireVars, deviceVars
  <2> QED
    BY <2>1 DEF Counters
<1>7. CASE PortCloses \/ Release
  <2>1. /\ keepalive' = 0 /\ expiry' = 0 /\ devSession' \in {0, devSession}
        /\ deviceTimeout' \in {deviceTimeout, DefaultTimeout} /\ UNCHANGED lost
    BY <1>7 DEF PortCloses, Release, CloseLink, DeviceAfterPort
  <2> QED
    BY <2>1 DEF Counters
<1>8. CASE Gateway
  <2>1. UNCHANGED <<keepalive, expiry, deviceTimeout, lost>>
    BY <1>8 DEF Gateway, DeviceAnswers, DeviceStreams, DeviceExpires, linkVars, wireVars
  <2>2. devSession' \in {devSession, 0, DeviceTimeout + 1}
    BY <1>8 DEF Gateway, DeviceAnswers, DeviceStreams, DeviceExpires, SessionAfter, deviceVars
  <2> QED
    BY <2>1, <2>2 DEF Counters
<1>9. CASE Wire
  <2>1. UNCHANGED <<keepalive, expiry, deviceTimeout, devSession>> /\ lost < MaxLost /\ lost' = lost + 1
    BY <1>9 DEF Wire, LoseUp, LoseDown, linkVars, deviceVars
  <2> QED
    BY <2>1, ParamsAssumption DEF Counters, ParamsAssumption
<1>10. CASE Tick
  <2>1. /\ keepalive' = Down1(keepalive) /\ expiry' = Down1(expiry) /\ devSession' = Down1(devSession)
        /\ UNCHANGED <<deviceTimeout, lost>>
    BY <1>10 DEF Tick, wireVars
  <2> QED
    BY <2>1 DEF Counters, Down1
<1> QED
  BY <1>1, <1>2, <1>3, <1>4, <1>5, <1>6, <1>7, <1>8, <1>9, <1>10 DEF Next, Client, Port

Queues ==
    /\ seq \in 0 .. MaxSeq
    /\ pending \in [Seqs -> Waiting \cup {None}]
    /\ up \in Seq(UpFrame) /\ down \in Seq(DownFrame)

LEMMA QueuesStep ==
    ASSUME TypeOK, Next
    PROVE  Queues'
<1>1. Queues
  BY DEF TypeOK, Queues
<1>2. ASSUME NEW type \in Requests, Send(type), UNCHANGED down
      PROVE  Queues'
  <2>1. PICK s \in Seqs :
              /\ seq' = s /\ pending' = [pending EXCEPT ![s] = Full(type)]
              /\ up' = up \/ up' = Append(up, [type |-> type, seq |-> s])
    BY <1>2, SendDoes
  <2>2. [type |-> type, seq |-> s] \in UpFrame /\ Full(type) \in Waiting
    BY FullIsWaiting DEF UpFrame
  <2>3. seq' \in 0 .. MaxSeq
    BY <2>1, ParamsAssumption DEF Seqs, ParamsAssumption
  <2> QED
    BY <1>1, <1>2, <2>1, <2>2, <2>3 DEF Queues
<1>3. CASE Caller \/ KeepaliveFires
  <2>1. \E type \in {"EXCHANGE", "SESSION_OPEN", "SESSION_CLOSE", "KEEPALIVE"} :
          Send(type) /\ UNCHANGED down
    BY <1>3 DEF Caller, Exchange, OpenSession, CloseSession, KeepaliveFires
  <2>2. \E type \in Requests : Send(type) /\ UNCHANGED down
    BY <2>1 DEF Requests, AppRequests
  <2> QED
    BY <2>2, <1>2
<1>4. CASE Dispatch
  <2>1. down # <<>> /\ down' = Tail(down) /\ UNCHANGED <<seq, up>>
    BY <1>4 DEF Dispatch
  <2>2. pending' = [pending EXCEPT ![Head(down).seq] = None] \/ pending' = pending
    BY <1>4 DEF Dispatch
  <2>3. down' \in Seq(DownFrame)
    BY <1>1, <2>1, Taken DEF Queues
  <2> QED
    BY <1>1, <2>1, <2>2, <2>3 DEF Queues
<1>5. CASE TimeOut
  BY <1>1, <1>5 DEF TimeOut, Queues
<1>6. CASE ExpiryFires \/ Attach \/ PortOpens \/ DeviceExpires
  BY <1>1, <1>6 DEF ExpiryFires, Attach, PortOpens, DeviceExpires, linkVars, wireVars, Queues
<1>7. CASE PortCloses \/ Release
  <2>1. /\ up' = <<>> /\ down' = <<>> /\ seq' \in {seq, 0}
        /\ pending' = [s \in Seqs |-> None]
    BY <1>7 DEF PortCloses, Release, CloseLink, DeviceAfterPort
  <2> QED
    BY <1>1, <2>1, ParamsAssumption DEF Queues, ParamsAssumption
<1>8. CASE DeviceAnswers
  <2>1. /\ up # <<>> /\ up' = Tail(up) /\ UNCHANGED <<seq, pending>>
        /\ \E r \in Answers(Head(up).type) :
             down' = Append(down, [type |-> r, re |-> Head(up).type, seq |-> Head(up).seq])
    BY <1>8 DEF DeviceAnswers, linkVars
  <2>2. Head(up) \in UpFrame /\ up' \in Seq(UpFrame)
    BY <1>1, <2>1, Taken DEF Queues
  <2>3. Answers(Head(up).type) \subseteq Replies
    BY DEF Answers, Replies
  <2>4. \A r \in Replies :
          [type |-> r, re |-> Head(up).type, seq |-> Head(up).seq] \in DownFrame
    BY <2>2 DEF UpFrame, DownFrame, Seqs
  <2> QED
    BY <1>1, <2>1, <2>2, <2>3, <2>4 DEF Queues
<1>9. CASE DeviceStreams
  <2>1. UNCHANGED <<seq, pending, up>>
    BY <1>9 DEF DeviceStreams, linkVars
  <2>2. PICK g : /\ down' = Append(down, g)
                 /\ \/ \E s \in Seqs : g = [type |-> "RAW", re |-> "none", seq |-> s]
                    \/ g = [type |-> "UPL", re |-> "none", seq |-> 0]
    BY <1>9 DEF DeviceStreams
  <2>3. g \in DownFrame
    BY <2>2, ParamsAssumption DEF DownFrame, Unsolicited, Seqs, ParamsAssumption
  <2> QED
    BY <1>1, <2>1, <2>2, <2>3 DEF Queues
<1>10. CASE LoseUp
  <2>1. up # <<>> /\ up' = Tail(up) /\ UNCHANGED <<seq, pending, down>>
    BY <1>10 DEF LoseUp, linkVars
  <2> QED
    BY <1>1, <2>1, Taken DEF Queues
<1>11. CASE LoseDown
  <2>1. down # <<>> /\ down' = Tail(down) /\ UNCHANGED <<seq, pending, up>>
    BY <1>11 DEF LoseDown, linkVars
  <2> QED
    BY <1>1, <2>1, Taken DEF Queues
<1>12. CASE Tick
  <2>1. UNCHANGED <<seq, up, down>>
    BY <1>12 DEF Tick, wireVars
  <2>2. pending' = [s \in Seqs |-> [pending[s] EXCEPT !.left = Down1(@)]]
    BY <1>12 DEF Tick
  <2>3. pending' \in [Seqs -> Waiting \cup {None}]
    BY <1>12, <2>2, TickSlots
  <2> QED
    BY <1>1, <2>1, <2>3 DEF Queues
<1> QED
  BY <1>3, <1>4, <1>5, <1>6, <1>7, <1>8, <1>9, <1>10, <1>11, <1>12
  DEF Next, Client, Port, Gateway, Wire

LEMMA TypesStep ==
    ASSUME TypeOK, [Next]_vars
    PROVE  TypeOK'
<1>1. CASE UNCHANGED vars
  BY <1>1 DEF vars, linkVars, wireVars, deviceVars, TypeOK
<1>2. CASE Next
  <2>1. Flags /\ Counters
    BY DEF TypeOK, Flags, Counters
  <2> QED
    BY <1>2, <2>1, FlagsStep, CountersStep, QueuesStep DEF TypeOK, Flags, Counters, Queues
<1> QED
  BY <1>1, <1>2

(* The variables keep their types, whatever the callers and the wire do.    *)
THEOREM Typing == Spec => []TypeOK
<1>1. Init => TypeOK
  <2> SUFFICES ASSUME Init PROVE TypeOK
    OBVIOUS
  <2>1. Flags
    BY DEF Init, Flags
  <2>2. Counters
    BY TimeoutsCovered, ParamsAssumption DEF Init, Counters, ParamsAssumption
  <2>3. Queues
    BY ParamsAssumption DEF Init, Queues, ParamsAssumption
  <2> QED
    BY <2>1, <2>2, <2>3 DEF TypeOK, Flags, Counters, Queues
<1> QED
  BY <1>1, TypesStep, PTL DEF Spec

LEMMA WireStep ==
    ASSUME WireInv, [Next]_vars
    PROVE  WireInv'
<1>0. TypeOK /\ NoneStale /\ OneFrameEach /\ RepliesMatch /\ TypeOK'
  BY TypesStep DEF WireInv
<1>1. pending \in [Seqs -> Waiting \cup {None}] /\ up \in Seq(UpFrame) /\ down \in Seq(DownFrame)
  BY <1>0 DEF TypeOK
<1> SUFFICES ASSUME Next PROVE OneFrameEach' /\ RepliesMatch'
  <2>1. CASE UNCHANGED vars
    BY <2>1, <1>0 DEF vars, linkVars, wireVars, WireInv, OneFrameEach, RepliesMatch, Full,
       IsReply, Free, NoneStale
  <2>2. CASE Next
    BY <1>0, <2>2 DEF WireInv, NoneStale
  <2> QED
    BY <2>1, <2>2
<1>4. CASE Caller \/ KeepaliveFires
  <2>1. \E type \in {"EXCHANGE", "SESSION_OPEN", "SESSION_CLOSE", "KEEPALIVE"} :
          Send(type) /\ UNCHANGED down
    BY <1>4 DEF Caller, Exchange, OpenSession, CloseSession, KeepaliveFires
  <2>2. \E type \in Requests : Send(type) /\ UNCHANGED down
    BY <2>1 DEF Requests, AppRequests
  <2> QED
    BY <2>2, SendWire
<1>5. CASE Dispatch
  <2> DEFINE f == Head(down)
  <2>1. down # <<>> /\ down' = Tail(down) /\ UNCHANGED <<seq, up>>
    BY <1>5 DEF Dispatch
  <2>2. /\ pending' \in [Seqs -> Waiting \cup {None}]
        /\ \A s \in Seqs : pending'[s] = pending[s]
                           \/ (pending'[s] = None /\ f.seq = s /\ IsReply(f))
    <3>1. CASE Matches(f)
      <4>1. f \in DownFrame
        BY <1>1, <2>1, Taken
      <4>2. IsReply(f) /\ f.seq \in Seqs
        BY <3>1, <4>1 DEF Matches, IsReply, DownFrame
      <4>3. pending' = [pending EXCEPT ![f.seq] = None]
        BY <1>5, <3>1 DEF Dispatch
      <4> QED
        BY <1>1, <4>2, <4>3
    <3>2. CASE ~Matches(f)
      BY <1>1, <1>5, <3>2 DEF Dispatch
    <3> QED
      BY <3>1, <3>2
  <2> QED
    BY <1>1, <2>1, <2>2, DownTaken
<1>6. CASE TimeOut
  BY <1>1, <1>6, SettledWire DEF TimeOut
<1>7. CASE ExpiryFires \/ Attach \/ PortOpens \/ DeviceExpires
  <2>1. UNCHANGED <<seq, pending, up, down>>
    BY <1>7 DEF ExpiryFires, Attach, PortOpens, DeviceExpires, linkVars, wireVars
  <2> QED
    BY <1>0, <1>1, <2>1 DEF OneFrameEach, RepliesMatch, Full, IsReply, Free
<1>8. CASE PortCloses \/ Release
  <2>1. up' = <<>> /\ down' = <<>>
    BY <1>8 DEF PortCloses, Release, DeviceAfterPort
  <2> QED
    BY <2>1, EmptyWire
<1>9. CASE DeviceAnswers
  <2>1. /\ up # <<>> /\ up' = Tail(up) /\ UNCHANGED <<seq, pending>>
        /\ \E r \in Answers(Head(up).type) :
             down' = Append(down, [type |-> r, re |-> Head(up).type, seq |-> Head(up).seq])
    BY <1>9 DEF DeviceAnswers, linkVars
  <2>2. Answers(Head(up).type) \subseteq Replies
    BY DEF Answers, Replies
  <2> QED
    BY <1>1, <2>1, <2>2, AnswerWire
<1>10. CASE DeviceStreams
  <2>1. UNCHANGED <<seq, pending, up>>
    BY <1>10 DEF DeviceStreams, linkVars
  <2>2. PICK g : /\ down' = Append(down, g)
                 /\ \/ \E s \in Seqs : g = [type |-> "RAW", re |-> "none", seq |-> s]
                    \/ g = [type |-> "UPL", re |-> "none", seq |-> 0]
    BY <1>10 DEF DeviceStreams
  <2>3. g \in DownFrame /\ g.type \in Unsolicited
    BY <2>2, ParamsAssumption DEF DownFrame, Unsolicited, Seqs, ParamsAssumption
  <2> QED
    BY <1>1, <2>1, <2>2, <2>3, StreamWire
<1>11. CASE LoseUp
  <2>1. up # <<>> /\ up' = Tail(up) /\ UNCHANGED <<seq, pending, down>>
    BY <1>11 DEF LoseUp, linkVars
  <2> QED
    BY <1>1, <2>1, UpTaken
<1>12. CASE LoseDown
  <2>1. down # <<>> /\ down' = Tail(down) /\ UNCHANGED <<seq, pending, up>>
    BY <1>12 DEF LoseDown, linkVars
  <2> QED
    BY <1>1, <2>1, DownTaken
<1>13. CASE Tick
  <2>1. UNCHANGED <<seq, up, down>>
    BY <1>13 DEF Tick, wireVars
  <2> QED
    BY <1>1, <1>13, <2>1, TickWire
<1> QED
  BY <1>4, <1>5, <1>6, <1>7, <1>8, <1>9, <1>10, <1>11, <1>12, <1>13
  DEF Next, Client, Port, Gateway, Wire

LEMMA WireAlways == ASSUME NoneStale PROVE Spec => []WireInv
<1>1. Init /\ TypeOK => WireInv
  BY DEF Init, WireInv, OneFrameEach, RepliesMatch
<1> QED
  BY <1>1, Typing, WireStep, PTL DEF Spec

(* Only its own reply settles a request early: never RAW, whose counter     *)
(* runs through the same numbers, never the reply to another request that   *)
(* had the number before, on a wire that loses what it likes and delays     *)
(* what it likes, so long as no reply is still on its way when its number   *)
(* is next used (NoneStale; nothing in the code sees to that).              *)
THEOREM RequestsSettledByTheirOwn ==
    ASSUME NoneStale PROVE Spec => SettledByOwnReply
<1> DEFINE Settled ==
         \A s \in Seqs :
         /\ ~Free(s) /\ pending[s].left > 1
         /\ pending'[s] = None
         /\ port' = "open"
         => /\ down # <<>>
            /\ Head(down).seq = s
            /\ Head(down).re = pending[s].type
            /\ down' = Tail(down)
<1>1. ASSUME WireInv, [Next]_vars PROVE Settled
  <2> SUFFICES ASSUME NEW s \in Seqs, ~Free(s), pending[s].left > 1, pending'[s] = None,
                      port' = "open"
               PROVE  /\ down # <<>>
                      /\ Head(down).seq = s
                      /\ Head(down).re = pending[s].type
                      /\ down' = Tail(down)
    OBVIOUS
  <2>0. TypeOK /\ NoneStale /\ RepliesMatch
    BY <1>1 DEF WireInv
  <2>1. pending[s] # None /\ pending'[s] # pending[s]
    BY DEF Free
  <2>2. ASSUME NEW type \in Requests PROVE ~Send(type)
    <3> SUFFICES ASSUME Send(type) PROVE FALSE
      OBVIOUS
    <3>1. PICK t \in Seqs : pending' = [pending EXCEPT ![t] = Full(type)]
      BY SendDoes
    <3>2. pending'[s] \in {pending[s], Full(type)}
      BY <3>1, <2>0 DEF TypeOK
    <3> QED
      BY <3>2, <2>1, FullIsWaiting
  <2>3. ~(Caller \/ KeepaliveFires)
    <3>1. {"EXCHANGE", "SESSION_OPEN", "SESSION_CLOSE", "KEEPALIVE"} \subseteq Requests
      BY DEF Requests, AppRequests
    <3> QED
      BY <2>2, <3>1 DEF Caller, Exchange, OpenSession, CloseSession, KeepaliveFires
  <2>4. CASE Dispatch
    <3>1. down # <<>> /\ down' = Tail(down)
      BY <2>4 DEF Dispatch
    <3>2. Matches(Head(down)) /\ Head(down).seq = s
      <4>1. CASE Matches(Head(down))
        <5>1. pending' = [pending EXCEPT ![Head(down).seq] = None]
          BY <2>4, <4>1 DEF Dispatch
        <5> QED
          BY <2>0, <2>1, <4>1, <5>1 DEF TypeOK
      <4>2. CASE ~Matches(Head(down))
        BY <2>1, <2>4, <4>2 DEF Dispatch
      <4> QED
        BY <4>1, <4>2
    <3>3. Head(down) = down[1] /\ 1 \in DOMAIN down /\ Head(down) \in DownFrame
      BY <2>0, <3>1, Taken DEF TypeOK
    <3>4. IsReply(Head(down))
      BY <3>2, <3>3 DEF Matches, IsReply, DownFrame
    <3> QED
      BY <2>0, <3>1, <3>2, <3>3, <3>4 DEF RepliesMatch
  <2>5. CASE TimeOut
    <3>1. PICK t \in Seqs : pending[t].left = 1 /\ pending' = [pending EXCEPT ![t] = None]
      BY <2>5 DEF TimeOut
    <3>2. s # t
      BY <3>1
    <3>3. pending'[s] = pending[s]
      BY <2>0, <3>1, <3>2 DEF TypeOK
    <3> QED
      BY <2>1, <3>3
  <2>6. CASE ExpiryFires \/ Attach \/ PortOpens \/ Gateway \/ Wire \/ UNCHANGED vars
    BY <2>1, <2>6 DEF ExpiryFires, Attach, PortOpens, Gateway, DeviceAnswers, DeviceStreams,
       DeviceExpires, Wire, LoseUp, LoseDown, linkVars, wireVars, deviceVars, vars
  <2>7. ~(PortCloses \/ Release)
    BY DEF PortCloses, Release
  <2>8. ~Tick
    BY <2>0, <2>1, TickSlots
  <2> QED
    BY <1>1, <2>3, <2>4, <2>5, <2>6, <2>7, <2>8 DEF Next, Client, Port
<1>2. Spec => [][Settled]_vars
  <2> HIDE DEF Settled
  <2> QED
    BY <1>1, WireAlways, PTL DEF Spec
<1> QED
  BY <1>2 DEF SettledByOwnReply

-----------------------------------------------------------------------------
(***************************************************************************)
(* The export gate.                                                        *)
(***************************************************************************)
OneAtATime == NoneStale /\ ~LossySessionAck /\ ~Overlap

(* It is a timer, and runs above 1 while the device is in such a session.   *)
LEMMA Ours ==
    ASSUME TypeOK
    PROVE  /\ OurSession \in 0 .. DeviceTimeout + 1 /\ OurSession \in Nat
           /\ OurSession > 1 <=> openedHere /\ InSession
  BY TimeoutsCovered DEF TypeOK, OurSession, InSession

LEMMA SameSession ==
    ASSUME UNCHANGED deviceVars
    PROVE  UNCHANGED OurSession
  BY DEF deviceVars, OurSession

(* What an answer makes of the session.                                     *)
LEMMA AnswerOurs ==
    ASSUME TypeOK, NEW type, NEW r \in Answers(type),
           devSession' = SessionAfter(type, r),
           openedHere' = (openedHere \/ r = "SESSION_ACK")
    PROVE  /\ r = "SESSION_ACK" => type = "SESSION_OPEN" /\ OurSession' = DeviceTimeout + 1
           /\ type = "SESSION_OPEN" /\ r # "SESSION_ACK" =>
                 OurSession' = 0 /\ ~(OurSession > 1)
           /\ type = "SESSION_CLOSE" => r # "SESSION_ACK" /\ OurSession' = 0
           /\ type \notin {"SESSION_OPEN", "SESSION_CLOSE"} =>
                 /\ r # "SESSION_ACK"
                 /\ OurSession' = IF OurSession > 1 THEN DeviceTimeout + 1 ELSE OurSession
<1>1. CASE type = "SESSION_OPEN"
  <2>1. r = "SESSION_ACK" => openedHere' /\ devSession' = DeviceTimeout + 1
    BY <1>1 DEF SessionAfter
  <2>2. r # "SESSION_ACK" => devSession' = 0 /\ ~InSession
    BY <1>1 DEF SessionAfter, Answers
  <2> QED
    BY <1>1, <2>1, <2>2, Ours DEF OurSession
<1>2. CASE type = "SESSION_CLOSE"
  <2>1. r # "SESSION_ACK" /\ devSession' = 0
    BY <1>2 DEF SessionAfter, Answers
  <2> QED
    BY <1>2, <2>1 DEF OurSession
<1>3. CASE type \notin {"SESSION_OPEN", "SESSION_CLOSE"}
  <2>1. r # "SESSION_ACK" /\ devSession' = IF InSession THEN DeviceTimeout + 1 ELSE devSession
    BY <1>3 DEF SessionAfter, Answers
  <2>2. (openedHere' <=> openedHere) /\ openedHere \in BOOLEAN /\ openedHere' \in BOOLEAN
    BY <2>1 DEF TypeOK
  <2>3. CASE openedHere
    <3>1. OurSession = devSession /\ OurSession' = devSession'
      BY <2>2, <2>3 DEF OurSession
    <3> QED
      BY <1>3, <2>1, <3>1 DEF InSession
  <2>4. CASE ~openedHere
    <3>1. OurSession = 0 /\ OurSession' = 0
      BY <2>2, <2>4 DEF OurSession
    <3> QED
      BY <1>3, <2>1, <3>1
  <2> QED
    BY <2>3, <2>4
<1> QED
  BY <1>1, <1>2, <1>3

(* A SESSION_ACK on its way means an open in flight, a device in session,   *)
(* and no close.                                                            *)
LEMMA AckHeld ==
    ASSUME WireInv, GateInv, NEW i \in SessionAcks
    PROVE  /\ i \in DOMAIN down /\ IsReply(down[i]) /\ down[i].seq \in Seqs
           /\ pending[down[i].seq].type = "SESSION_OPEN" /\ ~Free(down[i].seq)
           /\ pending[down[i].seq].left # 1
           /\ OurSession = DeviceTimeout + 1 /\ OurSession > 1
           /\ ~InFlight("SESSION_CLOSE")
<1>1. i \in DOMAIN down /\ down[i].type = "SESSION_ACK"
  BY DEF SessionAcks
<1>2. IsReply(down[i])
  BY <1>1 DEF IsReply, Replies
<1>3. down[i].seq \in Seqs
  BY <1>1, <1>2 DEF WireInv, RepliesMatch
<1>4. pending[down[i].seq] = Full("SESSION_OPEN") /\ OurSession = DeviceTimeout + 1
  BY DEF GateInv, OpensAreHeard
<1>5. "SESSION_OPEN" \in Requests
  BY DEF Requests, AppRequests
<1>6. /\ pending[down[i].seq].type = "SESSION_OPEN" /\ pending[down[i].seq].left # 1
      /\ ~Free(down[i].seq)
  BY <1>4, <1>5, FullIsWaiting DEF Free
<1>7. OurSession > 1
  BY <1>4, TimeoutsCovered
<1>8. ~InFlight("SESSION_CLOSE")
  BY <1>3, <1>6 DEF InFlight, GateInv, OneChange
<1> QED
  BY <1>1, <1>2, <1>3, <1>4, <1>6, <1>7, <1>8

(* A request is made.                                                       *)
LEMMA SendGate ==
    ASSUME WireInv, GateInv, NEW type \in Requests, Send(type),
           UNCHANGED <<session, expiry, deviceTimeout, down, OurSession>>,
           type \in {"EXCHANGE", "SESSION_OPEN"} => UNCHANGED keepalive,
           type = "EXCHANGE" => expiry \in {0, deviceTimeout + 1},
           type = "SESSION_OPEN" => ~InFlight("SESSION_CLOSE"),
           type = "SESSION_CLOSE" =>
              /\ ~InFlight("SESSION_OPEN") /\ ~InFlight("SESSION_CLOSE")
              /\ expiry = 0 /\ up = <<>> /\ keepalive' = 0,
           type = "KEEPALIVE" => keepalive = 1
    PROVE  GateInv'
<1>0. /\ TypeOK /\ OneFrameEach /\ RepliesMatch
      /\ OneChange /\ OpensAreHeard /\ ClosesEnd /\ ExpiryCovers
  BY DEF WireInv, GateInv
<1>1. PICK s \in Seqs :
              /\ Free(s) /\ ReplyNotOutlived(s)
              /\ seq' = s /\ pending' = [pending EXCEPT ![s] = Full(type)]
              /\ up' = up \/ up' = Append(up, [type |-> type, seq |-> s])
  BY SendDoes DEF WireInv
<1>2. /\ pending'[s] = Full(type) /\ \A t \in Seqs \ {s} : pending'[t] = pending[t]
      /\ pending'[s].type = type
  BY <1>0, <1>1, FullIsWaiting DEF TypeOK
<1>3. \A i \in DOMAIN down : IsReply(down[i]) => pending'[down[i].seq] = pending[down[i].seq]
  BY <1>0, <1>1, <1>2 DEF RepliesMatch, ReplyNotOutlived, IsReply, Replies, Unsolicited
<1>4. \A i \in DOMAIN up' : (i \in DOMAIN up /\ up'[i] = up[i]) \/ up'[i].type = type
  <2>1. [type |-> type, seq |-> s] \in UpFrame /\ up \in Seq(UpFrame)
    BY <1>0 DEF TypeOK, UpFrame
  <2>2. CASE up' = up
    BY <2>2
  <2>3. CASE up' = Append(up, [type |-> type, seq |-> s])
    BY <2>1, <2>3, Appended
  <2> QED
    BY <1>1, <2>2, <2>3
<1>5. type \in {"EXCHANGE", "SESSION_OPEN", "SESSION_CLOSE", "KEEPALIVE"}
  BY DEF Requests, AppRequests
<1>6. SessionAcks' = SessionAcks
  BY DEF SessionAcks
<1>7. \A t \in Seqs : pending'[t].type = IF t = s THEN type ELSE pending[t].type
  BY <1>2
<1>8. type = "KEEPALIVE" => ~InFlight("SESSION_CLOSE") /\ ~(expiry > 0)
  BY <1>0 DEF OneChange
<1>9. OneChange'
  <2>1. ASSUME NEW t \in Seqs, NEW u \in Seqs, pending'[t].type = "SESSION_CLOSE"
        PROVE  /\ pending'[u].type # "SESSION_OPEN"
               /\ pending'[u].type = "SESSION_CLOSE" => t = u
    <3>1. CASE type = "SESSION_CLOSE"
      BY <1>7, <2>1, <3>1 DEF InFlight
    <3>2. CASE type = "SESSION_OPEN"
      BY <1>7, <2>1, <3>2 DEF InFlight
    <3>3. CASE type \notin {"SESSION_OPEN", "SESSION_CLOSE"}
      BY <1>0, <1>7, <2>1, <3>3 DEF OneChange
    <3> QED
      BY <3>1, <3>2, <3>3
  <2>2. InFlight("SESSION_CLOSE")' => type = "SESSION_CLOSE" \/ InFlight("SESSION_CLOSE")
    BY <1>7 DEF InFlight
  <2>3. InFlight("SESSION_CLOSE")' => expiry' = 0
    BY <1>0, <2>2 DEF OneChange
  <2>4. InFlight("SESSION_CLOSE")' \/ expiry' > 0 =>
          /\ keepalive' = 0
          /\ \A i \in DOMAIN up' : up'[i].type # "KEEPALIVE"
    <3>1. CASE type = "SESSION_CLOSE"
      BY <1>4, <3>1
    <3>2. CASE type = "KEEPALIVE"
      BY <1>8, <2>2, <3>2
    <3>3. CASE type \in {"EXCHANGE", "SESSION_OPEN"}
      BY <1>0, <1>4, <2>2, <3>3 DEF OneChange
    <3> QED
      BY <1>5, <3>1, <3>2, <3>3
  <2> QED
    BY <2>1, <2>3, <2>4 DEF OneChange
<1>10. OpensAreHeard'
  <2>1. \A i \in SessionAcks : IsReply(down[i]) /\ i \in DOMAIN down
    BY DEF SessionAcks, IsReply, Replies
  <2> QED
    BY <1>0, <1>3, <1>6, <2>1 DEF OpensAreHeard, Full
<1>11. ClosesEnd'
  BY <1>0, <1>3 DEF ClosesEnd, IsReply
<1>12. ExpiryCovers'
  <2>1. ASSUME expiry > 0, NEW i \in DOMAIN up', up'[i].type # "SESSION_OPEN"
        PROVE  expiry = deviceTimeout + 1
    <3>1. CASE i \in DOMAIN up /\ up'[i] = up[i]
      BY <1>0, <2>1, <3>1 DEF ExpiryCovers
    <3>2. CASE up'[i].type = type
      BY <1>5, <1>8, <2>1, <3>2
    <3> QED
      BY <1>4, <3>1, <3>2
  <2> QED
    BY <1>0, <1>6, <2>1 DEF ExpiryCovers
<1> QED
  BY <1>9, <1>10, <1>11, <1>12 DEF GateInv

(* A reply settles its request, and the caller goes on.                     *)
LEMMA DispatchGate ==
    ASSUME WireInv, GateInv, Dispatch
    PROVE  GateInv'
<1>0. /\ TypeOK /\ OneFrameEach /\ RepliesMatch
      /\ OneChange /\ OpensAreHeard /\ ClosesEnd /\ ExpiryCovers
  BY DEF WireInv, GateInv
<1> DEFINE f == Head(down)
           s == f.seq
<1>1. /\ down # <<>> /\ down' = Tail(down) /\ UNCHANGED <<up, OurSession>>
      /\ down \in Seq(DownFrame)
  BY <1>0, SameSession DEF Dispatch, TypeOK
<1>2. /\ f = down[1] /\ 1 \in DOMAIN down /\ f \in DownFrame
      /\ \A i \in DOMAIN down' :
            i \in Nat /\ i + 1 \in DOMAIN down /\ i + 1 # 1 /\ down'[i] = down[i + 1]
      /\ \A i \in DOMAIN down : i = 1 \/ (i - 1 \in DOMAIN down' /\ down'[i - 1] = down[i])
  BY <1>1, Taken
<1>3. \A i \in SessionAcks' : i + 1 \in SessionAcks /\ down'[i] = down[i + 1]
  BY <1>2 DEF SessionAcks
<1>4. f.type # "SESSION_ACK" => (SessionAcks' = {} => SessionAcks = {})
  BY <1>2 DEF SessionAcks
<1> HIDE DEF f
<1>5. CASE ~Matches(f)
  <2>1. UNCHANGED <<pending, session, keepalive, expiry, deviceTimeout>>
    BY <1>5 DEF Dispatch, f
  <2>2. f.type # "SESSION_ACK"
    <3> SUFFICES ASSUME 1 \in SessionAcks PROVE FALSE
      BY <1>2 DEF SessionAcks
    <3>1. s \in Seqs /\ ~Free(s) /\ IsReply(f)
      BY <1>2, AckHeld
    <3> QED
      BY <1>5, <3>1 DEF Matches, IsReply, Replies, Unsolicited
  <2>3. OneChange'
    BY <1>0, <1>1, <2>1 DEF OneChange, InFlight
  <2>4. OpensAreHeard'
    BY <1>0, <1>1, <1>3, <1>4, <2>1, <2>2 DEF OpensAreHeard, Full
  <2>5. ClosesEnd'
    BY <1>0, <1>1, <1>2, <2>1 DEF ClosesEnd, IsReply
  <2>6. ExpiryCovers'
    BY <1>0, <1>1, <1>4, <2>1, <2>2 DEF ExpiryCovers
  <2> QED
    BY <2>3, <2>4, <2>5, <2>6 DEF GateInv
<1>6. CASE Matches(f)
  <2>1. /\ s \in Seqs /\ ~Free(s) /\ IsReply(f)
        /\ pending' = [pending EXCEPT ![s] = None]
        /\ Continue(pending[s].type, f.type)
    BY <1>2, <1>6 DEF Dispatch, f, Matches, IsReply, DownFrame
  <2>2. /\ pending'[s].type = "none" /\ \A t \in Seqs \ {s} : pending'[t] = pending[t]
    BY <1>0, <2>1 DEF TypeOK, None
  <2>3. \A i \in DOMAIN down' : IsReply(down'[i]) =>
           /\ down'[i].seq \in Seqs \ {s} /\ pending'[down'[i].seq] = pending[down'[i].seq]
    BY <1>0, <1>2, <2>1, <2>2 DEF RepliesMatch
  <2>5. \A t, u \in Seqs :
          pending'[t].type = "SESSION_CLOSE" =>
             /\ pending'[u].type # "SESSION_OPEN"
             /\ pending'[u].type = "SESSION_CLOSE" => t = u
    <3>1. \A t \in Seqs : /\ pending'[t].type = "SESSION_CLOSE" => pending[t].type = "SESSION_CLOSE"
                          /\ pending'[t].type = "SESSION_OPEN" => pending[t].type = "SESSION_OPEN"
      BY <2>2
    <3> QED
      BY <1>0, <3>1 DEF OneChange
  <2>6. InFlight("SESSION_CLOSE")' => InFlight("SESSION_CLOSE")
    BY <2>2 DEF InFlight
  <2>7. ClosesEnd'
    BY <1>0, <1>1, <1>2, <2>3 DEF ClosesEnd, IsReply
  <2>8. \A i \in SessionAcks' : /\ pending'[down'[i].seq] = Full("SESSION_OPEN")
                                /\ OurSession' = DeviceTimeout + 1
    <3> TAKE i \in SessionAcks'
    <3>1. i + 1 \in SessionAcks /\ down'[i] = down[i + 1] /\ i \in DOMAIN down' /\ IsReply(down'[i])
      BY <1>3 DEF SessionAcks, IsReply, Replies
    <3> QED
      BY <1>0, <1>1, <2>3, <3>1 DEF OpensAreHeard
  <2>9. f.type = "SESSION_ACK" => pending[s].type = "SESSION_OPEN" /\ OurSession = DeviceTimeout + 1
    <3> SUFFICES ASSUME 1 \in SessionAcks
                 PROVE  pending[s].type = "SESSION_OPEN" /\ OurSession = DeviceTimeout + 1
      BY <1>2 DEF SessionAcks
    <3> QED
      BY <1>2, AckHeld
  <2>10. CASE pending[s].type = "SESSION_OPEN" /\ f.type = "SESSION_ACK"
    <3>1. SessionOpened
      BY <2>1, <2>10 DEF Continue
    <3>2. ~InFlight("SESSION_CLOSE")'
      BY <1>0, <2>1, <2>6, <2>10 DEF OneChange, InFlight
    <3>3. OneChange'
      BY <2>5, <3>1, <3>2 DEF OneChange, SessionOpened
    <3>4. OpensAreHeard'
      BY <2>8, <3>1 DEF OpensAreHeard, SessionOpened, Full
    <3>5. ExpiryCovers'
      BY <3>1 DEF ExpiryCovers, SessionOpened
    <3> QED
      BY <2>7, <3>3, <3>4, <3>5 DEF GateInv
  <2>11. CASE pending[s].type = "SESSION_CLOSE"
    <3>1. OurSession = 0
      BY <1>0, <1>2, <2>1, <2>11 DEF ClosesEnd
    <3>2. f.type # "SESSION_ACK"
      BY <2>9, <2>11
    <3>3. SessionAcks' = {}
      BY <1>1, <2>8, <3>1, TimeoutsCovered
    <3>4. InFlight("SESSION_CLOSE") /\ ~InFlight("SESSION_CLOSE")'
      <4>1. \A t \in Seqs : pending'[t].type # "SESSION_CLOSE"
        BY <1>0, <2>1, <2>2, <2>11 DEF OneChange
      <4> QED
        BY <2>1, <2>11, <4>1 DEF InFlight
    <3>5. keepalive' = 0 /\ \A i \in DOMAIN up' : up'[i].type # "KEEPALIVE"
      BY <1>0, <1>1, <2>1, <2>11, <3>4 DEF OneChange, Continue, SessionClosed
    <3>6. OneChange'
      BY <2>5, <3>4, <3>5 DEF OneChange
    <3>7. OpensAreHeard'
      BY <1>1, <3>1, <3>3 DEF OpensAreHeard
    <3>8. ExpiryCovers'
      <4>1. expiry' = 0 \/ (expiry' = deviceTimeout + 1 /\ UNCHANGED deviceTimeout)
        BY <2>1, <2>11 DEF Continue, SessionClosed, AssumeExpiryAfterFailedClose
      <4>2. deviceTimeout \in Nat
        BY <1>0, TimeoutsCovered DEF TypeOK
      <4> QED
        BY <1>1, <3>1, <4>1, <4>2 DEF ExpiryCovers
    <3> QED
      BY <2>7, <3>6, <3>7, <3>8 DEF GateInv
  <2>12. CASE pending[s].type # "SESSION_CLOSE" /\ f.type # "SESSION_ACK"
    <3>1. UNCHANGED <<session, keepalive, expiry, deviceTimeout>>
      BY <2>1, <2>12 DEF Continue
    <3>2. OneChange'
      BY <1>0, <1>1, <2>5, <2>6, <3>1 DEF OneChange
    <3>3. OpensAreHeard'
      BY <1>0, <1>1, <1>4, <2>8, <2>12, <3>1 DEF OpensAreHeard, Full
    <3>4. ExpiryCovers'
      BY <1>0, <1>1, <1>4, <2>12, <3>1 DEF ExpiryCovers
    <3> QED
      BY <2>7, <3>2, <3>3, <3>4 DEF GateInv
  <2> QED
    BY <2>9, <2>10, <2>11, <2>12
<1> QED
  BY <1>5, <1>6

(* A request whose time is up, a close among them: the device's own timer   *)
(* can have no more left than what it reported.                             *)
LEMMA TimeOutGate ==
    ASSUME WireInv, GateInv, TimeOut
    PROVE  GateInv'
<1>0. /\ TypeOK /\ OneFrameEach /\ RepliesMatch
      /\ OneChange /\ OpensAreHeard /\ ClosesEnd /\ ExpiryCovers
  BY DEF WireInv, GateInv
<1>1. PICK s \in Seqs : /\ pending[s].left = 1
                        /\ pending' = [pending EXCEPT ![s] = None]
                        /\ Continue(pending[s].type, "none")
  BY DEF TimeOut
<1>2. UNCHANGED <<up, down, OurSession>>
  BY SameSession DEF TimeOut
<1>3. /\ pending'[s].type = "none" /\ \A t \in Seqs \ {s} : pending'[t] = pending[t]
  BY <1>0, <1>1 DEF TypeOK, None
<1>4. \A t \in Seqs : /\ pending'[t].type = "SESSION_CLOSE" => t # s /\ pending[t].type = "SESSION_CLOSE"
                      /\ pending'[t].type = "SESSION_OPEN" => pending[t].type = "SESSION_OPEN"
  BY <1>3
<1>5. /\ InFlight("SESSION_CLOSE")' => InFlight("SESSION_CLOSE")
      /\ \A t, u \in Seqs :
          pending'[t].type = "SESSION_CLOSE" =>
             /\ pending'[u].type # "SESSION_OPEN"
             /\ pending'[u].type = "SESSION_CLOSE" => t = u
  BY <1>0, <1>4 DEF InFlight, OneChange
<1>6. /\ SessionAcks' = SessionAcks
      /\ \A i \in SessionAcks : /\ pending'[down[i].seq] = Full("SESSION_OPEN")
                                /\ OurSession = DeviceTimeout + 1
  <2>1. SessionAcks' = SessionAcks
    BY <1>2 DEF SessionAcks
  <2>2. ASSUME NEW i \in SessionAcks
        PROVE  pending'[down[i].seq] = Full("SESSION_OPEN") /\ OurSession = DeviceTimeout + 1
    <3>1. down[i].seq \in Seqs \ {s}
      BY <1>1, <2>2, AckHeld
    <3> QED
      BY <1>0, <1>3, <2>2, <3>1 DEF OpensAreHeard
  <2> QED
    BY <2>1, <2>2
<1>7. ClosesEnd'
  <2>1. \A i \in DOMAIN down : IsReply(down[i]) => down[i].seq \in Seqs
    BY <1>0 DEF RepliesMatch
  <2> QED
    BY <1>0, <1>2, <1>4, <2>1 DEF ClosesEnd, IsReply
<1>8. CASE pending[s].type = "SESSION_CLOSE"
  <2>1. expiry' \in {0, deviceTimeout + 1} /\ UNCHANGED <<session, keepalive, deviceTimeout>>
    BY <1>1, <1>8 DEF Continue, AssumeExpiryAfterFailedClose
  <2>2. InFlight("SESSION_CLOSE") /\ ~InFlight("SESSION_CLOSE")'
    BY <1>0, <1>4, <1>8 DEF InFlight, OneChange
  <2>3. SessionAcks = {}
    BY <2>2, AckHeld
  <2>4. OurSession <= deviceTimeout + 1
    <3>1. OurSession \in 0 .. DeviceTimeout + 1 /\ deviceTimeout \in {DefaultTimeout, DeviceTimeout}
      BY <1>0, Ours DEF TypeOK
    <3>2. OurSession > 0 => deviceTimeout = DeviceTimeout
      BY <1>0, <2>3 DEF OpensAreHeard
    <3> QED
      BY <3>1, <3>2, TimeoutsCovered
  <2>5. OneChange'
    BY <1>0, <1>2, <1>5, <2>1, <2>2 DEF OneChange
  <2>6. OpensAreHeard'
    BY <1>0, <1>2, <1>6, <2>1 DEF OpensAreHeard, Full
  <2>7. ExpiryCovers'
    BY <1>2, <2>1, <2>4 DEF ExpiryCovers
  <2> QED
    BY <1>7, <2>5, <2>6, <2>7 DEF GateInv
<1>9. CASE pending[s].type # "SESSION_CLOSE"
  <2>1. UNCHANGED <<session, keepalive, expiry, deviceTimeout>>
    BY <1>1, <1>9 DEF Continue
  <2>2. OneChange'
    BY <1>0, <1>2, <1>5, <2>1 DEF OneChange
  <2>3. OpensAreHeard'
    BY <1>0, <1>2, <1>6, <2>1 DEF OpensAreHeard, Full
  <2>4. ExpiryCovers'
    BY <1>0, <1>2, <1>6, <2>1 DEF ExpiryCovers
  <2> QED
    BY <1>7, <2>2, <2>3, <2>4 DEF GateInv
<1> QED
  BY <1>8, <1>9

(* The device answers: an open that is refused was not in session, a close  *)
(* ends the session, and what refreshes it comes before the assumed expiry  *)
(* has begun to run.                                                        *)
LEMMA AnswersGate ==
    ASSUME WireInv, GateInv, DeviceAnswers
    PROVE  GateInv'
<1>0. /\ TypeOK /\ OneFrameEach /\ RepliesMatch
      /\ OneChange /\ OpensAreHeard /\ ClosesEnd /\ ExpiryCovers
  BY DEF WireInv, GateInv
<1> DEFINE f == Head(up)
<1>1. /\ up # <<>> /\ up' = Tail(up) /\ up \in Seq(UpFrame) /\ down \in Seq(DownFrame)
      /\ UNCHANGED <<pending, session, keepalive, expiry, deviceTimeout>>
  BY <1>0 DEF DeviceAnswers, linkVars, TypeOK
<1>2. /\ f = up[1] /\ 1 \in DOMAIN up /\ f \in UpFrame
      /\ \A i \in DOMAIN up' : i + 1 \in DOMAIN up /\ up'[i] = up[i + 1]
  BY <1>1, Taken
<1>3. PICK r \in Answers(f.type) :
         /\ down' = Append(down, [type |-> r, re |-> f.type, seq |-> f.seq])
         /\ devSession' = SessionAfter(f.type, r)
         /\ openedHere' = (openedHere \/ r = "SESSION_ACK")
  BY DEF DeviceAnswers
<1> DEFINE g == [type |-> r, re |-> f.type, seq |-> f.seq]
<1>4. r \in Replies
  BY <1>3 DEF Answers, Replies
<1>5. f.type \in Requests /\ f.seq \in Seqs /\ f.seq \in 0 .. MaxSeq
  BY <1>2 DEF UpFrame, Seqs
<1>6. g \in DownFrame /\ g.type = r /\ g.seq = f.seq
  BY <1>4, <1>5 DEF DownFrame
<1>7. pending[f.seq] = Full(f.type) /\ pending[f.seq].type = f.type
  BY <1>0, <1>2, <1>5, FullIsWaiting DEF OneFrameEach
<1> HIDE DEF f, g
<1>8. /\ \A i \in DOMAIN down' : \/ i \in DOMAIN down /\ down'[i] = down[i]
                                 \/ i = Len(down) + 1 /\ down'[i] = g
      /\ \A i \in DOMAIN down : i \in DOMAIN down' /\ down'[i] = down[i]
      /\ Len(down) + 1 \in DOMAIN down' /\ down'[Len(down) + 1] = g
  <2>1. down' = Append(down, g)
    BY <1>3 DEF f, g
  <2>2. Len(down) \in Nat /\ DOMAIN down' = 1 .. Len(down) + 1
    BY <2>1, <1>1, <1>6, Appended
  <2> QED
    BY <2>1, <2>2, <1>1, <1>6, Appended
<1>9. \A i \in SessionAcks' : (i \in SessionAcks /\ down'[i] = down[i])
                              \/ (r = "SESSION_ACK" /\ down'[i] = g)
  BY <1>6, <1>8 DEF SessionAcks
<1>10. SessionAcks' = {} => SessionAcks = {}
  BY <1>8 DEF SessionAcks
<1>11. OneChange'
  BY <1>0, <1>1, <1>2 DEF OneChange, InFlight
<1>12. \A i \in DOMAIN up' : \A x : up'[i].type # x => i + 1 \in DOMAIN up /\ up[i + 1].type # x
  BY <1>2
<1>13. /\ OurSession \in 0 .. DeviceTimeout + 1
       /\ r = "SESSION_ACK" => f.type = "SESSION_OPEN" /\ OurSession' = DeviceTimeout + 1
       /\ f.type = "SESSION_OPEN" /\ r # "SESSION_ACK" =>
             OurSession' = 0 /\ ~(OurSession > 1)
       /\ f.type = "SESSION_CLOSE" => r # "SESSION_ACK" /\ OurSession' = 0
       /\ f.type \notin {"SESSION_OPEN", "SESSION_CLOSE"} =>
             /\ r # "SESSION_ACK"
             /\ OurSession' = IF OurSession > 1 THEN DeviceTimeout + 1 ELSE OurSession
  BY <1>0, <1>3, Ours, AnswerOurs
<1>14. CASE f.type = "SESSION_OPEN"
  <2>1. ~InFlight("SESSION_CLOSE")
    BY <1>0, <1>5, <1>7, <1>14 DEF OneChange, InFlight
  <2>2. ClosesEnd'
    <3>1. \A i \in DOMAIN down' : IsReply(down'[i]) => down'[i].seq \in Seqs
      BY <1>0, <1>5, <1>6, <1>8 DEF RepliesMatch
    <3> QED
      BY <1>1, <2>1, <3>1 DEF ClosesEnd, InFlight, IsReply
  <2>3. CASE r = "SESSION_ACK"
    <3>1. OurSession' = DeviceTimeout + 1
      BY <1>13, <2>3
    <3>2. SessionAcks' # {}
      BY <1>6, <1>8, <2>3 DEF SessionAcks
    <3>3. OpensAreHeard'
      <4>1. \A i \in SessionAcks' : pending[down'[i].seq] = Full("SESSION_OPEN")
        BY <1>0, <1>6, <1>7, <1>9, <1>14 DEF OpensAreHeard
      <4> QED
        BY <1>1, <3>1, <3>2, <4>1 DEF OpensAreHeard, Full
    <3>4. ExpiryCovers'
      BY <1>0, <1>1, <1>12, <3>2 DEF ExpiryCovers
    <3> QED
      BY <1>11, <2>2, <3>3, <3>4 DEF GateInv
  <2>4. CASE r # "SESSION_ACK"
    <3>1. OurSession' = 0 /\ ~(OurSession > 1)
      BY <1>13, <1>14, <2>4
    <3>2. SessionAcks = {}
      BY <3>1, AckHeld
    <3>3. SessionAcks' = {}
      BY <1>9, <2>4, <3>2
    <3>4. OpensAreHeard'
      BY <3>1, <3>3 DEF OpensAreHeard
    <3>5. ExpiryCovers'
      <4>1. expiry \in Nat
        BY <1>0, TimeoutsCovered DEF TypeOK
      <4>2. expiry' > 0 => OurSession' <= expiry'
        BY <1>1, <3>1, <4>1
      <4> QED
        BY <1>0, <1>1, <1>12, <4>2 DEF ExpiryCovers
    <3> QED
      BY <1>11, <2>2, <3>4, <3>5 DEF GateInv
  <2> QED
    BY <2>3, <2>4
<1>15. CASE f.type = "SESSION_CLOSE"
  <2>1. OurSession' = 0 /\ r # "SESSION_ACK"
    BY <1>13, <1>15
  <2>2. SessionAcks = {}
    BY <1>5, <1>7, <1>15, AckHeld DEF InFlight
  <2>3. SessionAcks' = {}
    BY <1>9, <2>1, <2>2
  <2>4. OpensAreHeard' /\ ClosesEnd'
    BY <2>1, <2>3 DEF OpensAreHeard, ClosesEnd
  <2>5. ExpiryCovers'
    <3>1. expiry \in Nat
      BY <1>0, TimeoutsCovered DEF TypeOK
    <3>2. expiry' > 0 => OurSession' <= expiry'
      BY <1>1, <2>1, <3>1
    <3> QED
      BY <1>0, <1>1, <1>12, <3>2 DEF ExpiryCovers
  <2> QED
    BY <1>11, <2>4, <2>5 DEF GateInv
<1>16. CASE f.type \notin {"SESSION_OPEN", "SESSION_CLOSE"}
  <2>1. r # "SESSION_ACK" /\ OurSession' = IF OurSession > 1 THEN DeviceTimeout + 1 ELSE OurSession
    BY <1>13, <1>16
  <2>2. SessionAcks' = {} <=> SessionAcks = {}
    BY <1>9, <1>10, <2>1
  <2>3. OurSession' > 1 => OurSession > 1
    BY <2>1
  <2>4. OurSession' > 0 => OurSession > 0
    BY <1>13, <2>1
  <2>5. \A i \in SessionAcks' : /\ pending'[down'[i].seq] = Full("SESSION_OPEN")
                                /\ OurSession' = DeviceTimeout + 1
    BY <1>0, <1>1, <1>9, <2>1 DEF OpensAreHeard
  <2>6. OpensAreHeard'
    BY <1>0, <1>1, <2>2, <2>3, <2>4, <2>5 DEF OpensAreHeard, Full
  <2>7. ClosesEnd'
    <3>1. OurSession = 0 => OurSession' = 0
      BY <2>1
    <3> QED
      BY <1>0, <1>1, <1>6, <1>7, <1>8, <1>16, <3>1 DEF ClosesEnd, IsReply
  <2>8. ExpiryCovers'
    <3>1. ASSUME expiry > 0, SessionAcks = {}
          PROVE  OurSession' <= expiry
      <4>1. expiry = deviceTimeout + 1
        BY <1>0, <1>2, <1>16, <3>1 DEF ExpiryCovers
      <4>2. OurSession > 1 => deviceTimeout = DeviceTimeout
        BY <1>0, <1>13, <3>1 DEF OpensAreHeard
      <4>3. OurSession <= expiry
        BY <1>0, <3>1 DEF ExpiryCovers
      <4> QED
        BY <2>1, <4>1, <4>2, <4>3, TimeoutsCovered
    <3> QED
      BY <1>0, <1>1, <1>12, <2>2, <3>1 DEF ExpiryCovers
  <2> QED
    BY <1>11, <2>6, <2>7, <2>8 DEF GateInv
<1> QED
  BY <1>14, <1>15, <1>16

(* Time passes: no frame and no SESSION_ACK is on its way, and the device's *)
(* timer runs with the client's.                                            *)
LEMMA TickGate ==
    ASSUME OneAtATime, WireInv, GateInv, Tick
    PROVE  GateInv'
<1>0. /\ TypeOK /\ OneFrameEach /\ RepliesMatch
      /\ OneChange /\ OpensAreHeard /\ ClosesEnd /\ ExpiryCovers
  BY DEF WireInv, GateInv
<1>1. up = <<>> /\ up' = up /\ down' = down /\ UNCHANGED <<session, deviceTimeout>>
  BY DEF Tick, wireVars
<1>2. SessionAcks = {} /\ SessionAcks' = {}
  BY <1>1 DEF SessionAcks, Tick, OneAtATime
<1>3. \A s \in Seqs : pending'[s].type = pending[s].type
  BY <1>0, TickSlots
<1>4. /\ OurSession \in Nat /\ expiry \in Nat /\ keepalive \in Nat /\ expiry # 1
      /\ OurSession' = Down1(OurSession) /\ expiry' = Down1(expiry) /\ keepalive' = Down1(keepalive)
  <2>1. OurSession' = Down1(OurSession)
    BY DEF Tick, OurSession, Down1
  <2> QED
    BY <1>0, <2>1, Ours, TimeoutsCovered DEF TypeOK, Tick, NothingDue
<1>5. /\ expiry' > 0 <=> expiry > 0
      /\ expiry = 0 => expiry' = 0
      /\ keepalive = 0 => keepalive' = 0
      /\ OurSession = 0 => OurSession' = 0
      /\ OurSession' > 1 => OurSession > 1
      /\ OurSession' > 0 => OurSession > 0
      /\ OurSession <= expiry => OurSession' <= expiry'
  BY <1>4 DEF Down1
<1>6. OneChange'
  <2>1. InFlight("SESSION_CLOSE")' <=> InFlight("SESSION_CLOSE")
    BY <1>3 DEF InFlight
  <2>2. \A s, t \in Seqs :
          pending'[s].type = "SESSION_CLOSE" =>
             /\ pending'[t].type # "SESSION_OPEN"
             /\ pending'[t].type = "SESSION_CLOSE" => s = t
    BY <1>0, <1>3 DEF OneChange
  <2> QED
    BY <1>0, <1>1, <1>5, <2>1, <2>2 DEF OneChange
<1>7. OpensAreHeard'
  BY <1>0, <1>1, <1>2, <1>5 DEF OpensAreHeard
<1>8. ClosesEnd'
  <2>1. \A i \in DOMAIN down : IsReply(down[i]) => down[i].seq \in Seqs
    BY <1>0 DEF RepliesMatch
  <2> QED
    BY <1>0, <1>1, <1>3, <1>5, <2>1 DEF ClosesEnd, IsReply
<1>9. ExpiryCovers'
  BY <1>0, <1>1, <1>2, <1>5 DEF ExpiryCovers
<1> QED
  BY <1>6, <1>7, <1>8, <1>9 DEF GateInv

LEMMA GateStep ==
    ASSUME OneAtATime, WireInv, GateInv, [Next]_vars
    PROVE  GateInv'
<1>0. /\ TypeOK /\ OneFrameEach /\ RepliesMatch
      /\ OneChange /\ OpensAreHeard /\ ClosesEnd /\ ExpiryCovers
  BY DEF WireInv, GateInv
<1>1. {"EXCHANGE", "SESSION_OPEN", "SESSION_CLOSE", "KEEPALIVE"} \subseteq Requests
  BY DEF Requests, AppRequests
<1>2. CASE Exchange
  BY <1>1, <1>2, SendGate, SameSession DEF Exchange, CallerMay
<1>3. CASE OpenSession
  BY <1>1, <1>3, SendGate, SameSession DEF OpenSession, CallerMay, OneAtATime
<1>4. CASE CloseSession
  BY <1>1, <1>4, SendGate, SameSession DEF CloseSession, CallerMay, OneAtATime
<1>5. CASE KeepaliveFires
  BY <1>1, <1>5, SendGate, SameSession DEF KeepaliveFires
<1>6. CASE Dispatch \/ TimeOut
  BY <1>6, DispatchGate, TimeOutGate
<1>7. CASE ExpiryFires
  <2>1. UNCHANGED <<pending, keepalive, deviceTimeout, up, down, OurSession>> /\ expiry' = 0
    BY <1>7, SameSession DEF ExpiryFires, wireVars
  <2>2. SessionAcks = {} => ~(OurSession > 1)
    <3>1. OurSession \in Nat
      BY <1>0, Ours
    <3> QED
      BY <1>0, <1>7, <3>1 DEF ExpiryCovers, ExpiryFires
  <2>3. SessionAcks' = SessionAcks
    BY <2>1 DEF SessionAcks
  <2>4. OneChange' /\ ClosesEnd' /\ ExpiryCovers'
    BY <1>0, <2>1 DEF OneChange, InFlight, ClosesEnd, IsReply, ExpiryCovers
  <2>5. OpensAreHeard'
    BY <1>0, <2>1, <2>2, <2>3 DEF OpensAreHeard, Full
  <2> QED
    BY <2>4, <2>5 DEF GateInv
<1>8. CASE PortCloses \/ Release
  <2>1. /\ up' = <<>> /\ down' = <<>> /\ OurSession' = 0 /\ keepalive' = 0
        /\ pending' = [s \in Seqs |-> None] /\ expiry' = 0
    BY <1>8 DEF PortCloses, Release, CloseLink, DeviceAfterPort, OurSession
  <2>2. \A s \in Seqs : pending'[s].type = "none"
    BY <2>1 DEF None
  <2>3. OneChange'
    BY <2>1, <2>2 DEF OneChange, InFlight
  <2>4. OpensAreHeard' /\ ClosesEnd'
    BY <2>1 DEF OpensAreHeard, ClosesEnd, SessionAcks
  <2>5. ExpiryCovers'
    BY <2>1 DEF ExpiryCovers
  <2> QED
    BY <2>3, <2>4, <2>5 DEF GateInv
<1>9. CASE DeviceAnswers \/ Tick
  BY <1>9, AnswersGate, TickGate
<1>10. CASE DeviceStreams
  <2>1. UNCHANGED <<pending, session, keepalive, expiry, deviceTimeout, up, OurSession>>
    BY <1>10, SameSession DEF DeviceStreams, linkVars
  <2>2. PICK g : /\ down' = Append(down, g)
                 /\ \/ \E s \in Seqs : g = [type |-> "RAW", re |-> "none", seq |-> s]
                    \/ g = [type |-> "UPL", re |-> "none", seq |-> 0]
    BY <1>10 DEF DeviceStreams
  <2>3. g \in DownFrame /\ g.type \in Unsolicited
    BY <2>2, ParamsAssumption DEF DownFrame, Unsolicited, Seqs, ParamsAssumption
  <2>4. \A i \in DOMAIN down' : IsReply(down'[i]) => i \in DOMAIN down /\ down'[i] = down[i]
    BY <1>0, <2>2, <2>3, Appended DEF IsReply, Replies, Unsolicited, TypeOK
  <2>5. \A i \in DOMAIN down : i \in DOMAIN down' /\ down'[i] = down[i]
    BY <1>0, <2>2, <2>3, Appended DEF TypeOK
  <2>6. SessionAcks' = SessionAcks
    BY <2>4, <2>5 DEF SessionAcks, IsReply, Replies
  <2>7. \A i \in SessionAcks : down'[i] = down[i]
    BY <2>5 DEF SessionAcks
  <2>8. OneChange' /\ ExpiryCovers'
    BY <1>0, <2>1, <2>6 DEF OneChange, InFlight, ExpiryCovers
  <2>9. OpensAreHeard'
    BY <1>0, <2>1, <2>6, <2>7 DEF OpensAreHeard, Full
  <2>10. ClosesEnd'
    BY <1>0, <2>1, <2>4 DEF ClosesEnd, IsReply
  <2> QED
    BY <2>8, <2>9, <2>10 DEF GateInv
<1>11. CASE DeviceExpires
  <2>1. /\ UNCHANGED <<pending, session, keepalive, expiry, deviceTimeout, up, down>>
        /\ OurSession' = 0 /\ ~(OurSession > 1)
    BY <1>11 DEF DeviceExpires, OurSession, linkVars, wireVars
  <2>2. SessionAcks = {} /\ SessionAcks' = SessionAcks
    BY <2>1, AckHeld DEF SessionAcks
  <2>3. expiry \in Nat
    BY <1>0, TimeoutsCovered DEF TypeOK
  <2>4. OneChange' /\ ClosesEnd'
    BY <1>0, <2>1 DEF OneChange, InFlight, ClosesEnd
  <2>5. OpensAreHeard'
    BY <2>1, <2>2 DEF OpensAreHeard
  <2>6. ExpiryCovers'
    BY <1>0, <2>1, <2>3 DEF ExpiryCovers
  <2> QED
    BY <2>4, <2>5, <2>6 DEF GateInv
<1>12. CASE LoseUp
  <2>1. /\ UNCHANGED <<pending, session, keepalive, expiry, deviceTimeout, down, OurSession>>
        /\ up # <<>> /\ up' = Tail(up)
    BY <1>12, SameSession DEF LoseUp, linkVars
  <2>2. \A i \in DOMAIN up' : i + 1 \in DOMAIN up /\ up'[i] = up[i + 1]
    BY <1>0, <2>1, Taken DEF TypeOK
  <2>3. SessionAcks' = SessionAcks
    BY <2>1 DEF SessionAcks
  <2>4. OneChange'
    BY <1>0, <2>1, <2>2 DEF OneChange, InFlight
  <2>5. OpensAreHeard' /\ ClosesEnd'
    BY <1>0, <2>1, <2>3 DEF OpensAreHeard, ClosesEnd, Full, IsReply
  <2>6. ExpiryCovers'
    BY <1>0, <2>1, <2>2, <2>3 DEF ExpiryCovers
  <2> QED
    BY <2>4, <2>5, <2>6 DEF GateInv
<1>13. CASE LoseDown
  <2>1. /\ UNCHANGED <<pending, session, keepalive, expiry, deviceTimeout, up, OurSession>>
        /\ down # <<>> /\ down' = Tail(down) /\ Head(down).type # "SESSION_ACK"
    BY <1>13, SameSession DEF LoseDown, linkVars, OneAtATime
  <2>2. /\ Head(down) = down[1]
        /\ \A i \in DOMAIN down' :
              i \in Nat /\ i + 1 \in DOMAIN down /\ down'[i] = down[i + 1]
        /\ \A i \in DOMAIN down : i = 1 \/ (i - 1 \in DOMAIN down' /\ down'[i - 1] = down[i])
    BY <1>0, <2>1, Taken DEF TypeOK
  <2>3. \A i \in SessionAcks' : i + 1 \in SessionAcks /\ down'[i] = down[i + 1]
    BY <2>2 DEF SessionAcks
  <2>4. SessionAcks' = {} => SessionAcks = {}
    BY <2>1, <2>2 DEF SessionAcks
  <2>5. OneChange'
    BY <1>0, <2>1 DEF OneChange, InFlight
  <2>6. OpensAreHeard'
    BY <1>0, <2>1, <2>3, <2>4 DEF OpensAreHeard, Full
  <2>7. ClosesEnd'
    BY <1>0, <2>1, <2>2 DEF ClosesEnd, IsReply
  <2>8. ExpiryCovers'
    BY <1>0, <2>1, <2>4 DEF ExpiryCovers
  <2> QED
    BY <2>5, <2>6, <2>7, <2>8 DEF GateInv
<1>14. CASE Attach \/ PortOpens \/ UNCHANGED vars
  <2>1. UNCHANGED <<pending, session, keepalive, expiry, deviceTimeout, up, down, OurSession>>
    BY <1>14, SameSession DEF Attach, PortOpens, vars, linkVars, wireVars
  <2> QED
    BY <1>0, <2>1 DEF GateInv, OneChange, InFlight, OpensAreHeard, SessionAcks, ClosesEnd, ExpiryCovers,
       Full, IsReply
<1> QED
  BY <1>2, <1>3, <1>4, <1>5, <1>6, <1>7, <1>8, <1>9, <1>10, <1>11, <1>12, <1>13, <1>14
  DEF Next, Caller, Client, Port, Gateway, Wire

LEMMA GateAlways == ASSUME OneAtATime PROVE Spec => []GateInv
<1>1. Init => GateInv
  <2> SUFFICES ASSUME Init PROVE GateInv
    OBVIOUS
  <2>1. /\ up = <<>> /\ down = <<>> /\ expiry = 0 /\ OurSession = 0
        /\ \A s \in Seqs : pending[s].type = "none"
    BY DEF Init, None, OurSession
  <2>2. SessionAcks = {} /\ ~InFlight("SESSION_CLOSE")
    BY <2>1 DEF SessionAcks, InFlight
  <2>3. OneChange
    BY <2>1, <2>2 DEF OneChange
  <2>4. OpensAreHeard /\ ClosesEnd /\ ExpiryCovers
    BY <2>1, <2>2 DEF OpensAreHeard, ClosesEnd, ExpiryCovers
  <2> QED
    BY <2>3, <2>4 DEF GateInv
<1>2. WireInv /\ GateInv /\ [Next]_vars => GateInv'
  BY GateStep
<1> QED
  <2>1. NoneStale
    BY DEF OneAtATime
  <2> QED
    BY <1>1, <1>2, <2>1, WireAlways, PTL DEF Spec

(* The export gate is shut whenever the device is in a session it opened    *)
(* since the port last did, from its answer to the open, heard or not yet,  *)
(* to its answer to a close, or to the end of its idle timer when the close *)
(* was lost: for any timeouts the client assumes and the device reports,    *)
(* and any frames lost but a SESSION_ACK.  A session left over from before  *)
(* the port closed is not covered.                                          *)
THEOREM GateIsShutInSession ==
    ASSUME OneAtATime PROVE Spec => []GateShutInSession
<1>1. WireInv /\ GateInv => GateShutInSession
  <2> SUFFICES ASSUME WireInv, GateInv, InSession, openedHere PROVE exportGated
    BY DEF GateShutInSession
  <2>1. CASE SessionAcks = {}
    <3>1. OurSession > 1
      BY Ours DEF WireInv
    <3> QED
      BY <2>1, <3>1 DEF GateInv, OpensAreHeard, exportGated
  <2>2. CASE SessionAcks # {}
    BY <2>2, AckHeld DEF exportGated
  <2> QED
    BY <2>1, <2>2
<1>2. NoneStale
  BY DEF OneAtATime
<1> QED
  BY <1>1, <1>2, WireAlways, GateAlways, PTL

-----------------------------------------------------------------------------
(***************************************************************************)
(* The session the user has not closed.                                    *)
(***************************************************************************)
(* Two intervals pass before the device gives up: what KEEPALIVE_MS is      *)
(* chosen for (10 s, for a session that lasts 30 s).                        *)
TwoFit == 2 * KeepaliveEvery < DeviceTimeout

LEMMA Numbers ==
    ASSUME TypeOK
    PROVE  /\ keepalive \in Nat /\ keepalive <= KeepaliveEvery + 1
           /\ OurSession \in Nat /\ lost \in Nat
           /\ KeepaliveEvery \in Nat /\ KeepaliveEvery >= 1 /\ DeviceTimeout \in Nat
           /\ ForTheOneUp \in Nat /\ ForTheLost \in Nat
  BY Ours, TimeoutsCovered, ParamsAssumption
  DEF TypeOK, ParamsAssumption, ForTheOneUp, ForTheLost

(* There is always enough left.                                             *)
LEMMA EnoughLeft ==
    ASSUME TwoFit, TypeOK, KeptAlive, keepalive > 0, lost <= 1
    PROVE  OurSession > 1
<1>1. DeviceTimeout + keepalive <= OurSession + KeepaliveEvery + ForTheOneUp + ForTheLost
  BY DEF KeptAlive, LeftOfSession
<1>2. ForTheLost <= KeepaliveEvery
  BY Numbers DEF ForTheLost
<1>3. CASE KeepaliveUp
  <2>1. keepalive = KeepaliveEvery + 1 /\ ForTheOneUp = KeepaliveEvery
    BY <1>3, Numbers DEF KeptAlive, ForTheOneUp
  <2> QED
    BY <1>1, <1>2, <2>1, Numbers DEF TwoFit
<1>4. CASE ~KeepaliveUp
  <2>1. ForTheOneUp = 0
    BY <1>4 DEF ForTheOneUp
  <2> QED
    BY <1>1, <1>2, <2>1, Numbers DEF TwoFit
<1> QED
  BY <1>3, <1>4

(* With all of its time a session has what it needs.                        *)
LEMMA AllLeft ==
    ASSUME WireInv', OurSession' = DeviceTimeout + 1
    PROVE  LeftOfSession'
<1>1. /\ keepalive' \in Nat /\ keepalive' <= KeepaliveEvery + 1
      /\ KeepaliveEvery \in Nat /\ DeviceTimeout \in Nat
      /\ ForTheOneUp' \in Nat /\ ForTheLost' \in Nat
  <2>1. TypeOK'
    BY DEF WireInv
  <2> QED
    BY <2>1, TimeoutsCovered DEF TypeOK, ForTheOneUp, ForTheLost
<1>2. \A k, a, b \in Nat : k <= KeepaliveEvery + 1
         => DeviceTimeout + k <= (DeviceTimeout + 1) + KeepaliveEvery + a + b
  <2>1. KeepaliveEvery \in Nat /\ DeviceTimeout \in Nat
    BY TimeoutsCovered
  <2> QED
    BY <2>1
<1>3. DeviceTimeout + keepalive' <= OurSession' + KeepaliveEvery + ForTheOneUp' + ForTheLost'
  BY <1>1, <1>2
<1> QED
  BY <1>3 DEF LeftOfSession

LEMMA NoneLeft ==
    ASSUME keepalive' = 0
    PROVE  LeftOfSession'
  BY DEF LeftOfSession

(* Nothing changes of what a session has left.                              *)
LEMMA SameLeft ==
    ASSUME LeftOfSession, UNCHANGED <<keepalive, OurSession, lost>>, KeepaliveUp' = KeepaliveUp
    PROVE  LeftOfSession'
  BY DEF LeftOfSession, ForTheOneUp, ForTheLost

(* A loss costs an interval, and takes a keepalive away at most.            *)
LEMMA LossLeft ==
    ASSUME TypeOK, LeftOfSession, UNCHANGED <<keepalive, OurSession>>, lost' = lost + 1,
           KeepaliveUp' => KeepaliveUp
    PROVE  LeftOfSession'
<1> SUFFICES ASSUME keepalive > 0, lost = 0
             PROVE  DeviceTimeout + keepalive <= OurSession + KeepaliveEvery + ForTheOneUp' + ForTheLost'
  BY Numbers DEF LeftOfSession
<1>1. DeviceTimeout + keepalive <= OurSession + KeepaliveEvery + ForTheOneUp + 0
  <2>1. ForTheLost = 0
    BY DEF ForTheLost
  <2> QED
    BY <2>1, Numbers DEF LeftOfSession
<1>2. ForTheLost' = KeepaliveEvery
  BY DEF ForTheLost
<1>3. ForTheOneUp <= KeepaliveEvery /\ ForTheOneUp' \in {0, KeepaliveEvery}
  BY Numbers DEF ForTheOneUp
<1> QED
  BY <1>1, <1>2, <1>3, Numbers

LEMMA AliveStep ==
    ASSUME OneAtATime, TwoFit, WireInv, GateInv, KeptAlive, [Next]_vars
    PROVE  KeptAlive'
<1>0. /\ TypeOK /\ OneFrameEach /\ RepliesMatch /\ WireInv'
      /\ OneChange /\ OpensAreHeard /\ LeftOfSession
      /\ up \in Seq(UpFrame) /\ down \in Seq(DownFrame)
  BY WireStep DEF WireInv, GateInv, KeptAlive, TypeOK
<1>1. CASE Exchange \/ OpenSession \/ CloseSession
  <2>1. /\ port # "none" /\ up = <<>> /\ UNCHANGED <<port, down, OurSession, lost>>
        /\ keepalive' \in {keepalive, 0}
    BY <1>1, SameSession DEF Exchange, OpenSession, CloseSession, CallerMay
  <2>2. PICK type \in {"EXCHANGE", "SESSION_OPEN", "SESSION_CLOSE"} : Send(type)
    BY <1>1 DEF Exchange, OpenSession, CloseSession
  <2>3. PICK s \in Seqs :
          up' = IF port = "open" THEN Append(up, [type |-> type, seq |-> s]) ELSE up
    BY <2>2 DEF Send
  <2>4. ~KeepaliveUp /\ ~KeepaliveUp'
    BY <2>1, <2>3 DEF KeepaliveUp
  <2>5. LeftOfSession'
    <3>1. CASE keepalive' = 0
      BY <3>1, NoneLeft
    <3>2. CASE keepalive' = keepalive
      <4>1. KeepaliveUp' = KeepaliveUp
        BY <2>4, Zenon DEF KeepaliveUp
      <4> QED
        BY <1>0, <2>1, <3>2, <4>1, SameLeft
    <3> QED
      BY <2>1, <3>1, <3>2
  <2> QED
    BY <2>1, <2>3, <2>4, <2>5 DEF KeptAlive
<1>2. CASE KeepaliveFires
  <2>1. /\ keepalive = 1 /\ keepalive' = KeepaliveEvery + 1
        /\ UNCHANGED <<port, down, OurSession, lost>>
    BY <1>2, SameSession DEF KeepaliveFires
  <2>2. port = "open" /\ ~KeepaliveUp
    BY <2>1, <1>0, Numbers DEF KeptAlive
  <2>3. KeepaliveUp'
    <3>1. PICK s \in Seqs : up' = Append(up, [type |-> "KEEPALIVE", seq |-> s])
      BY <1>2, <2>2 DEF KeepaliveFires, Send
    <3>2. [type |-> "KEEPALIVE", seq |-> s] \in UpFrame /\ Len(up) \in Nat
      BY <1>0 DEF UpFrame, Requests
    <3>3. Len(up) + 1 \in DOMAIN up' /\ up'[Len(up) + 1] = [type |-> "KEEPALIVE", seq |-> s]
      BY <1>0, <3>1, <3>2, Appended
    <3> QED
      BY <3>3 DEF KeepaliveUp
  <2>4. LeftOfSession'
    <3>1. lost <= 1 => DeviceTimeout + 1 <= OurSession + KeepaliveEvery + 0 + ForTheLost
      <4>1. ForTheOneUp = 0
        BY <2>2 DEF ForTheOneUp
      <4> QED
        BY <1>0, <2>1, <4>1, Numbers DEF LeftOfSession
    <3>2. ForTheOneUp' = KeepaliveEvery /\ ForTheLost' = ForTheLost
      BY <2>1, <2>3 DEF ForTheOneUp, ForTheLost
    <3>3. lost' <= 1 => DeviceTimeout + keepalive' <= OurSession' + KeepaliveEvery + ForTheOneUp' + ForTheLost'
      BY <1>0, <2>1, <3>1, <3>2, Numbers
    <3> QED
      BY <3>3 DEF LeftOfSession
  <2> QED
    BY <2>1, <2>2, <2>4 DEF KeptAlive
<1>3. CASE Dispatch
  <2>1. /\ down # <<>> /\ UNCHANGED <<port, up, OurSession, lost>>
    BY <1>3, SameSession DEF Dispatch
  <2>2. port = "open" /\ port' = "open"
    BY <2>1 DEF KeptAlive
  <2>3. KeepaliveUp' = KeepaliveUp
    BY <2>1 DEF KeepaliveUp
  <2>4. CASE UNCHANGED keepalive
    <3>1. LeftOfSession'
      BY <1>0, <2>1, <2>3, <2>4, SameLeft
    <3> QED
      BY <2>1, <2>2, <2>3, <2>4, <3>1 DEF KeptAlive
  <2>5. CASE keepalive' = KeepaliveEvery + 1 /\ Head(down).type = "SESSION_ACK"
    <3>1. 1 \in SessionAcks
      BY <1>0, <2>1, <2>5, Taken DEF SessionAcks
    <3>2. OurSession' = DeviceTimeout + 1
      BY <1>0, <2>1, <3>1 DEF OpensAreHeard
    <3>3. LeftOfSession'
      BY <1>0, <3>2, AllLeft
    <3> QED
      BY <2>2, <2>5, <3>3 DEF KeptAlive
  <2>6. UNCHANGED keepalive \/ (keepalive' = KeepaliveEvery + 1 /\ Head(down).type = "SESSION_ACK")
    BY <1>3 DEF Dispatch, Continue, SessionOpened, SessionClosed
  <2> QED
    BY <2>4, <2>5, <2>6
<1>4. CASE TimeOut \/ ExpiryFires
  <2>1. UNCHANGED <<port, keepalive, up, down, OurSession, lost>>
    BY <1>4, SameSession DEF TimeOut, Continue, SessionClosed, ExpiryFires, wireVars
  <2> QED
    BY <1>0, <2>1, SameLeft DEF KeptAlive, KeepaliveUp
<1>5. CASE Attach \/ PortOpens \/ UNCHANGED vars
  <2>1. /\ UNCHANGED <<keepalive, up, down, OurSession, lost>>
        /\ port' = port \/ port' = "open" \/ (port = "none" /\ port' = "waiting")
    BY <1>5, SameSession DEF Attach, PortOpens, vars, linkVars, wireVars
  <2> QED
    BY <1>0, <2>1, SameLeft DEF KeptAlive, KeepaliveUp
<1>6. CASE PortCloses \/ Release
  <2>1. keepalive' = 0 /\ up' = <<>> /\ down' = <<>>
    BY <1>6 DEF PortCloses, Release, CloseLink, DeviceAfterPort
  <2> QED
    BY <2>1, NoneLeft DEF KeptAlive
<1>7. CASE DeviceAnswers
  <2> DEFINE f == Head(up)
  <2>1. /\ up # <<>> /\ up' = Tail(up) /\ UNCHANGED <<port, keepalive, lost>>
    BY <1>7 DEF DeviceAnswers, linkVars
  <2>2. /\ f = up[1] /\ 1 \in DOMAIN up /\ f \in UpFrame
        /\ \A i \in DOMAIN up' : i + 1 \in DOMAIN up /\ up'[i] = up[i + 1]
    BY <1>0, <2>1, Taken
  <2>3. KeepaliveUp' => KeepaliveUp
    BY <2>2 DEF KeepaliveUp
  <2>4. PICK r \in Answers(f.type) :
          /\ devSession' = SessionAfter(f.type, r)
          /\ openedHere' = (openedHere \/ r = "SESSION_ACK")
    BY <1>7 DEF DeviceAnswers
  <2>5. port = "open"
    BY <2>1 DEF KeptAlive
  <2> HIDE DEF f
  <2>6. LeftOfSession'
    <3>1. CASE keepalive = 0
      BY <2>1, <3>1, NoneLeft
    <3>2. CASE lost > 1
      BY <2>1, <3>2, <1>0, Numbers DEF LeftOfSession
    <3>3. CASE keepalive > 0 /\ lost <= 1
      <4>1. OurSession > 1
        BY <1>0, <3>3, EnoughLeft
      <4>2. f.type # "SESSION_CLOSE"
        <5> SUFFICES ASSUME f.type = "SESSION_CLOSE" PROVE FALSE
          OBVIOUS
        <5>1. f.seq \in Seqs /\ f.type \in Requests
          BY <2>2 DEF UpFrame
        <5>2. pending[f.seq].type = "SESSION_CLOSE"
          BY <1>0, <2>2, <5>1, FullIsWaiting DEF OneFrameEach
        <5> QED
          BY <1>0, <3>3, <5>1, <5>2, Numbers DEF OneChange, InFlight
      <4>3. OurSession' = DeviceTimeout + 1
        BY <1>0, <2>4, <4>1, <4>2, AnswerOurs
      <4> QED
        BY <1>0, <4>3, AllLeft
    <3> QED
      BY <1>0, <3>1, <3>2, <3>3, Numbers
  <2> QED
    BY <2>1, <2>3, <2>5, <2>6 DEF KeptAlive
<1>8. CASE DeviceStreams
  <2>1. UNCHANGED <<port, keepalive, up, OurSession, lost>> /\ port = "open"
    BY <1>8, SameSession DEF DeviceStreams, linkVars
  <2> QED
    BY <1>0, <2>1, SameLeft DEF KeptAlive, KeepaliveUp
<1>9. CASE DeviceExpires
  <2>1. UNCHANGED <<port, keepalive, up, down, lost>> /\ ~(OurSession > 1)
    BY <1>9 DEF DeviceExpires, OurSession, linkVars, wireVars
  <2>2. ~(keepalive > 0 /\ lost <= 1)
    BY <1>0, <2>1, EnoughLeft
  <2> QED
    BY <1>0, <2>1, <2>2 DEF KeptAlive, LeftOfSession, KeepaliveUp
<1>10. CASE LoseUp
  <2>1. /\ up # <<>> /\ up' = Tail(up) /\ UNCHANGED <<port, keepalive, down, OurSession>>
        /\ lost' = lost + 1
    BY <1>10, SameSession DEF LoseUp, linkVars
  <2>2. /\ Head(up) = up[1] /\ 1 \in DOMAIN up
        /\ \A i \in DOMAIN up' : i + 1 \in DOMAIN up /\ up'[i] = up[i + 1]
    BY <1>0, <2>1, Taken
  <2>3. KeepaliveUp' => KeepaliveUp
    BY <2>2 DEF KeepaliveUp
  <2>4. LeftOfSession'
    BY <1>0, <2>1, <2>3, LossLeft
  <2>5. port = "open"
    BY <2>1 DEF KeptAlive
  <2> QED
    BY <2>1, <2>3, <2>4, <2>5 DEF KeptAlive
<1>11. CASE LoseDown
  <2>1. /\ down # <<>> /\ UNCHANGED <<port, keepalive, up, OurSession>>
        /\ lost' = lost + 1
    BY <1>11, SameSession DEF LoseDown, linkVars
  <2>2. KeepaliveUp' = KeepaliveUp
    BY <2>1 DEF KeepaliveUp
  <2>3. LeftOfSession'
    BY <1>0, <2>1, <2>2, LossLeft
  <2>4. port = "open"
    BY <2>1 DEF KeptAlive
  <2> QED
    BY <2>1, <2>2, <2>3, <2>4 DEF KeptAlive
<1>12. CASE Tick
  <2>1. /\ up = <<>> /\ UNCHANGED <<port, up, down, lost>>
        /\ keepalive # 1 /\ keepalive' = Down1(keepalive) /\ OurSession' = Down1(OurSession)
    BY <1>12 DEF Tick, NothingDue, wireVars, OurSession, Down1
  <2>2. ~KeepaliveUp /\ ~KeepaliveUp'
    BY <2>1 DEF KeepaliveUp
  <2>3. LeftOfSession'
    <3>1. CASE keepalive = 0
      BY <2>1, <3>1, NoneLeft DEF Down1
    <3>2. CASE keepalive > 0 /\ lost <= 1
      <4>1. OurSession > 1
        BY <1>0, <3>2, EnoughLeft
      <4>2. keepalive' = keepalive - 1 /\ OurSession' = OurSession - 1
        BY <1>0, <2>1, <3>2, <4>1, Numbers DEF Down1
      <4>3. DeviceTimeout + keepalive <= OurSession + KeepaliveEvery + ForTheOneUp + ForTheLost
        BY <1>0, <3>2 DEF LeftOfSession
      <4>4. ForTheOneUp' = ForTheOneUp /\ ForTheLost' = ForTheLost
        BY <2>1, <2>2 DEF ForTheOneUp, ForTheLost
      <4>5. \A a, b \in Nat :
               DeviceTimeout + keepalive <= OurSession + KeepaliveEvery + a + b
               => DeviceTimeout + (keepalive - 1) <= (OurSession - 1) + KeepaliveEvery + a + b
        <5>1. /\ keepalive \in Nat /\ OurSession \in Nat /\ KeepaliveEvery \in Nat
              /\ DeviceTimeout \in Nat
          BY <1>0, Numbers
        <5> QED
          BY <5>1
      <4>6. ForTheOneUp \in Nat /\ ForTheLost \in Nat
        BY <1>0, Numbers
      <4>7. DeviceTimeout + keepalive' <= OurSession' + KeepaliveEvery + ForTheOneUp' + ForTheLost'
        BY <4>2, <4>3, <4>4, <4>5, <4>6
      <4> QED
        BY <4>7 DEF LeftOfSession
    <3>3. CASE lost > 1
      BY <1>0, <2>1, <3>3, Numbers DEF LeftOfSession
    <3> QED
      BY <1>0, <3>1, <3>2, <3>3, Numbers
  <2> QED
    BY <2>1, <2>2, <2>3 DEF KeptAlive, Down1
<1> QED
  BY <1>1, <1>2, <1>3, <1>4, <1>5, <1>6, <1>7, <1>8, <1>9, <1>10, <1>11, <1>12
  DEF Next, Caller, Client, Port, Gateway, Wire

(* A session the user has not closed is still the device's, although any    *)
(* one frame was lost, a keepalive or its answer: for any interval of which *)
(* two fit in the idle timeout the device reports.                          *)
THEOREM SessionOutlivesOneLoss ==
    ASSUME OneAtATime, TwoFit PROVE Spec => []SurvivesOneLoss
<1>1. Init => KeptAlive
  BY DEF Init, KeptAlive, LeftOfSession, KeepaliveUp
<1>2. WireInv /\ GateInv /\ KeptAlive /\ [Next]_vars => KeptAlive'
  BY AliveStep
<1>3. WireInv /\ KeptAlive => SurvivesOneLoss
  BY EnoughLeft, Ours DEF WireInv, SurvivesOneLoss
<1>4. NoneStale
  BY DEF OneAtATime
<1> QED
  BY <1>1, <1>2, <1>3, <1>4, WireAlways, GateAlways, PTL DEF Spec
=============================================================================
