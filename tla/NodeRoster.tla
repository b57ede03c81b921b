----------------------------- MODULE NodeRoster -----------------------------
(***************************************************************************)
(* The boards on the bus as the client learns them: NodeRoster             *)
(* (nodes/node-status-wire.ts), asked and fed by NodeHub (node-hub.ts),    *)
(* over the lines PanelBridge sends.  A line can be lost, lines keep their *)
(* order, and the bridge loses what it knows when it restarts: for an      *)
(* update, after it (a board may stay in its bootloader past the update's  *)
(* end), or on its own.                                                    *)
(*                                                                         *)
(* The bridge is the Gateway's firmware, outside this repository: it is    *)
(* what the client relies on.  A board's kind, faults and times, and older *)
(* bridges, whose rows are dropped, are left out.                          *)
(*                                                                         *)
(* The operators marked "Mutant" are plausible slips in the definition     *)
(* that follows them; no specification uses them.                          *)
(***************************************************************************)
EXTENDS Naturals, Sequences, FiniteSets

CONSTANTS
    BusBoards,
    Bridge,     \* node 0: the bridge's own row
    MaxLines,   \* bound: lines on their way when more are sent
    MaxLost,    \* bound: lines and requests lost
    MaxStints,  \* bound: times each board comes to the bus
    MaxUpdates, \* bound: updates of the cockpit side, ports opened again, and
                \* restarts of the bridge outside an update
    RosterOdds  \* what a run lets in: a reply as "slow" as a poll period

ASSUME BusAssumption == IsFiniteSet(BusBoards) /\ Bridge \notin BusBoards
ASSUME BoundsAssumption == {MaxLines, MaxLost, MaxStints, MaxUpdates} \subseteq Nat
ASSUME RosterOddsAssumption == RosterOdds \subseteq {"slow"}

VARIABLES
    \* the bus and the bridge
    on, stint, \* boards there, and how often each has come
    cache,     \* what the bridge lists
    lines, lost, updates,
    \* the client's roster
    shown, isComplete,
    burst, replying,
    asked,     \* a request since the last END, and whether its reply may judge
    judge,     \* "free", "held" by an update, "waiting" a poll period after it, "ripe"
    \* history: boards whose stay the client has heard of, or found when it
    \* connected, since the bridge last restarted outside an update
    stays

bridgeVars == <<on, stint, cache>>
rosterVars == <<shown, isComplete, burst, replying, asked>>
allVars == <<bridgeVars, lines, lost, updates, rosterVars, judge, stays>>

Nodes == BusBoards \cup {Bridge}
RowLine(n, present) == [kind |-> "row", node |-> n, present |-> present,
                        stint |-> IF n = Bridge THEN 0 ELSE stint[n]]
End(count) == [kind |-> "end", count |-> count]
Lines == [kind : {"row"}, node : Nodes, present : BOOLEAN, stint : 0..MaxStints]
         \cup [kind : {"end"}, count : 1..Cardinality(Nodes)]

RosterTypeOK ==
    /\ on \subseteq BusBoards /\ stays \subseteq on /\ stint \in [BusBoards -> 0..MaxStints]
    /\ cache \in [BusBoards -> {"no", "present", "absent"}]
    /\ lines \in Seq(Lines) /\ lost \in 0..MaxLost /\ updates \in 0..MaxUpdates
    /\ shown \in [BusBoards -> {"none", "present", "absent"}]
    /\ {isComplete, replying} \subseteq BOOLEAN /\ burst \subseteq Nodes
    /\ asked \in {"no", "early", "due"} /\ judge \in {"free", "held", "waiting", "ripe"}

RosterInit ==
    /\ on = {} /\ stint = [b \in BusBoards |-> 0] /\ cache = [b \in BusBoards |-> "no"]
    /\ lines = <<>> /\ lost = 0 /\ updates = 0
    /\ shown = [b \in BusBoards |-> "none"] /\ isComplete = FALSE
    /\ burst = {} /\ replying = FALSE /\ asked = "no" /\ judge = "free" /\ stays = {}

---------------------------------------------------------------------------
(***************************************************************************)
(* The bridge: each change is a row, a request is answered with all rows   *)
(***************************************************************************)
\* The lines get through, or one of them does not.
Drop(s, k) == SubSeq(s, 1, k - 1) \o SubSeq(s, k + 1, Len(s))
Send(sent) ==
    /\ Len(lines) <= MaxLines
    /\ \/ lines' = lines \o sent /\ UNCHANGED lost
       \/ /\ lost < MaxLost /\ lost' = lost + 1
          /\ \E k \in DOMAIN sent : lines' = lines \o Drop(sent, k)

Joins(b) ==
    /\ b \notin on /\ stint[b] < MaxStints
    /\ on' = on \cup {b} /\ stint' = [stint EXCEPT ![b] = @ + 1]
    /\ cache' = [cache EXCEPT ![b] = "present"]
    /\ Send(<<[RowLine(b, TRUE) EXCEPT !.stint = @ + 1]>>)
    /\ UNCHANGED <<updates, rosterVars, judge, stays>>

Leaves(b) ==
    /\ b \in on /\ cache[b] = "present"
    /\ on' = on \ {b} /\ stays' = stays \ {b} /\ cache' = [cache EXCEPT ![b] = "absent"]
    /\ Send(<<RowLine(b, FALSE)>>)
    /\ UNCHANGED <<stint, updates, rosterVars, judge>>

Removes(b) ==
    /\ cache[b] = "absent" /\ cache' = [cache EXCEPT ![b] = "no"]
    /\ UNCHANGED <<on, stint, lines, lost, updates, rosterVars, judge, stays>>

\* It lists no one but itself until the boards' next heartbeats, and says so.
Boots == cache' = [b \in BusBoards |-> "no"]
BootRoster == <<RowLine(Bridge, TRUE), End(1)>>

RestartsForUpdate ==
    /\ judge = "held" /\ Boots
    /\ Send(BootRoster)
    /\ UNCHANGED <<on, stint, updates, rosterVars, judge, stays>>

\* The rows on their way are of stays the bridge no longer knows of.
Forgotten(s) == [i \in DOMAIN s |-> IF s[i].kind = "row" THEN [s[i] EXCEPT !.stint = 0]
                                                       ELSE s[i]]

\* With no update to hold the roster its boot roster is a whole reply.
RestartsOutsideUpdate ==
    /\ judge # "held" /\ updates < MaxUpdates /\ updates' = updates + 1
    /\ Boots /\ Len(lines) <= MaxLines
    /\ lines' = Forgotten(lines) \o BootRoster
    /\ stays' = {}
    /\ UNCHANGED <<on, stint, lost, rosterVars, judge>>

Heartbeat(b) ==
    /\ b \in on /\ cache[b] = "no" /\ cache' = [cache EXCEPT ![b] = "present"]
    /\ Send(<<RowLine(b, TRUE)>>)
    /\ UNCHANGED <<on, stint, updates, rosterVars, judge, stays>>

Listed == {b \in BusBoards : cache[b] # "no"}
Reply ==
    LET order == CHOOSE s \in [1..Cardinality(Listed) -> Listed] :
                   \A b \in Listed : \E i \in DOMAIN s : s[i] = b
    IN  <<RowLine(Bridge, TRUE)>>
        \o [i \in DOMAIN order |-> RowLine(order[i], cache[order[i]] = "present")]
        \o <<End(Cardinality(Listed) + 1)>>

---------------------------------------------------------------------------
(***************************************************************************)
(* The roster                                                              *)
(***************************************************************************)
\* requestNodes() and beginBurst(): rows of a reply that is arriving are kept.
Poll ==
    /\ burst' = IF replying THEN burst ELSE {}
    /\ asked' = IF judge \in {"free", "ripe"} THEN "due" ELSE "early"
    /\ Send(Reply) \/ (lost < MaxLost /\ lost' = lost + 1 /\ UNCHANGED lines)
    /\ UNCHANGED <<bridgeVars, updates, shown, isComplete, replying, judge, stays>>

Heard == Head(lines)

\* A reply starts with the bridge's own row.
RowArrives ==
    /\ Heard.kind = "row"
    /\ burst' = (IF Heard.node = Bridge THEN {} ELSE burst) \cup {Heard.node}
    /\ replying' = (replying \/ Heard.node = Bridge)
    /\ shown' = [b \in BusBoards |-> IF b # Heard.node THEN shown[b]
                                ELSE IF Heard.present THEN "present" ELSE "absent"]
    /\ stays' = stays \cup {b \in on : b = Heard.node /\ Heard.present /\ Heard.stint = stint[b]}
    /\ UNCHANGED <<isComplete, asked, judge>>

\* An update holds the roster, and after it the reply must be to a request of
\* a poll period later.
\* Mutant: once held it never judges again.
JudgesUntilHeld == judge = "free"
Judges == judge = "free" \/ (judge # "held" /\ asked = "due")

\* Mutant: a reply short of its count counts.
AnyReply == TRUE
Whole == Heard.count = Cardinality(burst)

\* The boards a whole reply left out are absent.
EndArrives ==
    /\ Heard.kind = "end"
    /\ burst' = {} /\ replying' = FALSE /\ asked' = "no" /\ UNCHANGED stays
    /\ judge' = IF Judges THEN "free" ELSE judge
    /\ IF Judges /\ Whole
       THEN /\ isComplete' = TRUE
            /\ shown' = [b \in BusBoards |->
                           IF shown[b] = "present" /\ b \notin burst THEN "absent" ELSE shown[b]]
       ELSE UNCHANGED <<shown, isComplete>>

Arrives ==
    /\ lines # <<>> /\ lines' = Tail(lines)
    /\ RowArrives \/ EndArrives
    /\ UNCHANGED <<bridgeVars, lost, updates>>

\* hold() and release().
Hold ==
    /\ judge # "held" /\ updates < MaxUpdates /\ updates' = updates + 1
    /\ judge' = "held"
    /\ UNCHANGED <<bridgeVars, lines, lost, rosterVars, stays>>

Release ==
    /\ judge = "held" /\ judge' = "waiting"
    /\ asked' = IF asked = "no" THEN "no" ELSE "early"
    /\ UNCHANGED <<bridgeVars, lines, lost, updates, shown, isComplete, burst, replying, stays>>

\* A poll period after it: every board has sent its heartbeat to a bridge that
\* restarted for it, and what was asked before has arrived.
Ripens ==
    /\ judge = "waiting" /\ judge' = "ripe"
    /\ \A b \in stays : cache[b] = "present"
    /\ lines = <<>> \/ "slow" \in RosterOdds
    /\ UNCHANGED <<bridgeVars, lines, lost, updates, rosterVars, stays>>

\* The port opens again: reset().
Reopens ==
    /\ updates < MaxUpdates /\ updates' = updates + 1
    /\ lines' = <<>>
    /\ stays' = IF judge = "held" THEN on ELSE {b \in on : cache[b] = "present"}
    /\ shown' = [b \in BusBoards |-> "none"] /\ isComplete' = FALSE
    /\ burst' = {} /\ replying' = FALSE /\ asked' = "no"
    /\ UNCHANGED <<bridgeVars, lost, judge>>

---------------------------------------------------------------------------
TheBus == \E b \in BusBoards : Joins(b) \/ Leaves(b) \/ Removes(b) \/ Heartbeat(b)
Client == Poll \/ Arrives \/ Hold \/ Release \/ Ripens \/ Reopens

Restarts == RestartsForUpdate \/ RestartsOutsideUpdate

RosterNext == TheBus \/ Restarts \/ Client

RosterSpec == RosterInit /\ [][RosterNext]_allVars

\* The poll is a timer, an update ends, and boards send heartbeats; lines
\* take less than a poll period, so that now and then none is on its way.
FairRosterSpec ==
    /\ RosterSpec
    /\ WF_allVars(Poll) /\ WF_allVars(Arrives) /\ WF_allVars(Release) /\ SF_allVars(Ripens)
    /\ SF_allVars(\E b \in BusBoards : Heartbeat(b))
    /\ []<>(lines = <<>>)

---------------------------------------------------------------------------
(***************************************************************************)
(* Properties                                                              *)
(***************************************************************************)
ShownOffline(b) == shown[b] = "absent" \/ (isComplete /\ shown[b] = "none")

\* A board that has been on the bus since the client last heard of it, or since
\* it connected to a bridge that listed it, is never shown offline: not by a
\* lost line, not by a request in the middle of a reply, not by a bridge that an
\* update restarts.  A bridge that restarts at another time does blank the
\* boards, until their next heartbeats: nothing tells its boot roster from a
\* whole reply.  The stay is then one the client has not heard of since.
StaysShown == \A b \in stays : ~ShownOffline(b)

\* Whatever was lost, the roster comes to say who is on the bus.
LearnsInTheEnd == <>[](\A b \in BusBoards : shown[b] = "present" <=> b \in on)
=============================================================================
