---------------------------- MODULE GatewayWatch ----------------------------
(***************************************************************************)
(* Whether the Gateway answers: GatewayWatch (gateway/gateway-health.ts),  *)
(* driven by NodeHub's poll, its re-asks, the link's push tick and what    *)
(* its uploader says of a silence (nodes/node-hub.ts).                     *)
(*                                                                         *)
(* Time passes in units of half a re-ask period.  A reply takes no time or *)
(* does not come.  Of a row only that it came is kept: its faults, and     *)
(* that the Gateway recovered itself, are left out.                        *)
(*                                                                         *)
(* The operators marked "Mutant" are plausible slips in the definition     *)
(* that follows them; no specification uses them.                          *)
(***************************************************************************)
EXTENDS Integers

CONSTANTS
    NoAnswer,     \* GATEWAY_NO_ANSWER_MS, and NODES_POLL_MS
    Reask,        \* GATEWAY_REASK_MS
    ProbeTime,    \* an exchange's REPLY_TIMEOUT_MS
    MaxMisses,    \* bound: requests and probes lost
    MaxTroubles,  \* bound: times a side of the Gateway stops or recovers
    MaxTurns      \* bound: links that go, calibrations and updates

ASSUME WatchAssumption ==
    /\ {NoAnswer, Reask, ProbeTime} \subseteq Nat \ {0}
    /\ {MaxMisses, MaxTroubles, MaxTurns} \subseteq Nat
    /\ Reask < NoAnswer /\ ProbeTime < NoAnswer

VARIABLES
    \* GatewayWatch
    since, sinceLast,  \* how long ago askedAt and lastAskAt are
    answeredOnce, probing,
    verdict,           \* "none", "gateway" (noAnswer) or "cockpit" (cockpitSilent)
    uploader, quiet,
    \* the link, its timers and what is on its way
    linked, due, pollIn,
    coming,            \* a reply
    probe,             \* how long the uploader has been asked, 0 if it is not
    calibrating,       \* other exchanges hold the export
    \* the Gateway
    usb, bridge,       \* its USB side answers, its cockpit side does
    offers,            \* it has an uploader
    \* requests since the last answer, or since they last did not count
    unanswered,
    \* for how long nothing has changed but by the client and by time
    steady,
    misses, troubles, turns

watchVars == <<since, sinceLast, answeredOnce, probing, verdict, uploader, quiet>>
wireVars == <<linked, due, pollIn, coming, probe, calibrating>>
boardVars == <<usb, bridge, offers>>
bounds == <<misses, troubles, turns>>
gatewayVars == <<watchVars, wireVars, boardVars, unanswered, steady, bounds>>

Never == -1
LostReplies == NoAnswer \div Reask
InTime == 2 * (NoAnswer + ProbeTime)
Least(a, b) == IF a < b THEN a ELSE b

WatchTypeOK ==
    /\ since \in Never..NoAnswer /\ sinceLast \in 0..Reask
    /\ verdict \in {"none", "gateway", "cockpit"}
    /\ {answeredOnce, probing, uploader, quiet, linked, due, coming, calibrating} \subseteq BOOLEAN
    /\ pollIn \in 0..NoAnswer /\ probe \in 0..ProbeTime
    /\ {usb, bridge, offers} \subseteq BOOLEAN /\ unanswered \in 0..LostReplies
    /\ steady \in 0..InTime + 1
    /\ misses \in 0..MaxMisses /\ troubles \in 0..MaxTroubles /\ turns \in 0..MaxTurns

WatchInit ==
    /\ since = Never /\ sinceLast = 0 /\ verdict = "none" /\ pollIn = 0 /\ probe = 0
    /\ answeredOnce = FALSE /\ probing = FALSE /\ uploader = FALSE /\ quiet = FALSE
    /\ linked = FALSE /\ due = FALSE /\ coming = FALSE /\ calibrating = FALSE
    /\ usb = TRUE /\ bridge = TRUE /\ offers \in BOOLEAN
    /\ unanswered = 0 /\ steady = 0 /\ misses = 0 /\ troubles = 0 /\ turns = 0

Answers == usb /\ bridge
Misses == misses < MaxMisses /\ misses' = misses + 1
Turn == turns < MaxTurns /\ turns' = turns + 1

---------------------------------------------------------------------------
(***************************************************************************)
(* Asking                                                                  *)
(***************************************************************************)
\* Mutant, HealthIsTrue: each request starts the clock.
AskedAnew(at) == since' = 0 /\ sinceLast' = 0

\* asked(): a later request doesn't restart the clock.
Asked(at) == since' = (IF at = Never THEN 0 ELSE at) /\ sinceLast' = 0

\* requestNodes(), the oldest request still unanswered being of `at`.
RequestNodes(at, missed) ==
    /\ Asked(at)
    /\ unanswered' = Least(missed + 1, LostReplies)
    /\ \/ coming' = (coming \/ Answers) /\ UNCHANGED misses
       \/ Answers /\ Misses /\ UNCHANGED coming

Poll5s ==
    /\ linked /\ pollIn = 0 /\ pollIn' = NoAnswer
    /\ RequestNodes(since, unanswered)
    /\ UNCHANGED <<answeredOnce, probing, verdict, uploader, quiet, linked, due, probe, calibrating,
                   boardVars, troubles, turns>>

\* Mutant, NeverHasty: the poll alone asks again.
NoReask(at) == FALSE

\* reaskDue(): not before it has answered since the port opened.
ReaskDue(at) == answeredOnce /\ at # Never /\ sinceLast >= Reask

---------------------------------------------------------------------------
(***************************************************************************)
(* Judging                                                                 *)
(***************************************************************************)
Silent(at) == verdict = "none" /\ at >= NoAnswer

\* tick(): the silence is the uploader's to judge when there is one.
Judge(at) ==
    IF Silent(at) /\ uploader /\ ~probing
    THEN probing' = TRUE /\ probe' = (IF probe = 0 THEN 1 ELSE probe) /\ UNCHANGED verdict
    ELSE /\ UNCHANGED <<probing, probe>>
         /\ verdict' = IF Silent(at) /\ ~uploader /\ answeredOnce THEN "gateway" ELSE verdict

\* The rider's tick: paused while an exchange, the probe's own included, holds
\* the export.
PushTick ==
    LET at == IF calibrating \/ probe > 0 \/ quiet THEN Never ELSE since
        missed == IF quiet \/ (calibrating /\ ~probing) THEN 0 ELSE unanswered
    IN  /\ linked /\ due /\ due' = FALSE
        /\ Judge(at)
        /\ IF ReaskDue(at) THEN RequestNodes(at, missed)
           ELSE since' = at /\ unanswered' = missed /\ UNCHANGED <<sinceLast, coming, misses>>
        /\ UNCHANGED <<answeredOnce, uploader, quiet, linked, pollIn, calibrating, boardVars,
                       troubles, turns>>

\* probed(): a quiet time, or an answer meanwhile, wins.
Probed(usbAnswers) ==
    /\ probing' = FALSE
    /\ IF probing /\ ~quiet /\ ~usbAnswers /\ ~answeredOnce
       THEN since' = Never /\ unanswered' = 0 ELSE UNCHANGED <<since, unanswered>>
    /\ verdict' = IF ~probing \/ quiet THEN verdict
                  ELSE IF usbAnswers THEN "cockpit"
                  ELSE IF answeredOnce THEN "gateway" ELSE verdict

ProbeEnds ==
    /\ probe > 0 /\ probe' = 0
    /\ \/ usb /\ Probed(TRUE) /\ UNCHANGED misses
       \/ probe = ProbeTime /\ Probed(FALSE) /\ IF usb THEN Misses ELSE UNCHANGED misses
    /\ UNCHANGED <<sinceLast, answeredOnce, uploader, quiet, linked, due, pollIn, coming, calibrating,
                   boardVars, troubles, turns>>

\* answered(): any row, asked for or not.
Answered ==
    /\ linked /\ Answers
    /\ coming' = FALSE /\ since' = Never /\ answeredOnce' = TRUE /\ probing' = FALSE
    /\ verdict' = "none" /\ unanswered' = 0
    /\ UNCHANGED <<sinceLast, uploader, quiet, linked, due, pollIn, probe, calibrating, boardVars, bounds>>

\* The next unit of time, once what this one had due is done.
Later ==
    /\ linked /\ ~due /\ ~coming /\ pollIn > 0 /\ probe < ProbeTime
    /\ due' = TRUE /\ pollIn' = pollIn - 1
    /\ since' = (IF since = Never THEN Never ELSE Least(since + 1, NoAnswer))
    /\ sinceLast' = Least(sinceLast + 1, Reask)
    /\ probe' = (IF probe = 0 THEN 0 ELSE probe + 1)
    /\ UNCHANGED <<answeredOnce, probing, verdict, uploader, quiet, linked, coming, calibrating,
                   boardVars, unanswered, bounds>>

---------------------------------------------------------------------------
(***************************************************************************)
(* The link, what else uses it, and the Gateway                            *)
(***************************************************************************)
Reset == answeredOnce' = FALSE /\ probing' = FALSE /\ verdict' = "none"

\* A port opens: everything starts over and the roster is asked for; where
\* the poll timer stands is chance.
Opens ==
    /\ ~linked /\ linked' = TRUE /\ Reset
    /\ pollIn' \in 0..NoAnswer
    /\ RequestNodes(Never, 0)
    /\ UNCHANGED <<uploader, quiet, due, probe, calibrating, boardVars, troubles, turns>>

LinkGone ==
    /\ linked /\ Turn /\ linked' = FALSE
    /\ uploader' = FALSE /\ due' = FALSE /\ pollIn' = 0 /\ coming' = FALSE /\ probe' = 0
    /\ calibrating' = FALSE
    /\ UNCHANGED <<sinceLast, quiet, boardVars, misses, troubles>>

\* teardown() resets the watch before the probe is let go.
Disconnects == LinkGone /\ Reset /\ since' = Never /\ unanswered' = 0

\* An unplug does not: the probe it cuts counts as unanswered.
Unplugs ==
    LinkGone /\ (IF probe > 0 THEN Probed(FALSE) ELSE UNCHANGED <<probing, verdict, since, unanswered>>)
    /\ UNCHANGED answeredOnce

\* UPL_INFO is answered after a connect.
Learns ==
    /\ linked /\ usb /\ offers /\ ~uploader /\ uploader' = TRUE
    /\ UNCHANGED <<since, sinceLast, answeredOnce, probing, verdict, quiet, wireVars, boardVars,
                   unanswered, bounds>>

\* cockpitSide(): an update of the cockpit side, or its return to its app;
\* either outlasts a probe.
Quiets ==
    /\ uploader /\ ~quiet /\ Turn /\ quiet' = TRUE
    /\ since' = Never /\ unanswered' = 0
    /\ UNCHANGED <<sinceLast, answeredOnce, probing, verdict, uploader, wireVars, boardVars,
                   misses, troubles>>

Resumes ==
    /\ quiet /\ probe = 0 /\ quiet' = FALSE
    /\ UNCHANGED <<since, sinceLast, answeredOnce, probing, verdict, uploader, wireVars, boardVars,
                   unanswered, bounds>>

Calibrates ==
    /\ linked /\ calibrating' = ~calibrating
    /\ IF calibrating THEN UNCHANGED turns ELSE Turn
    /\ UNCHANGED <<watchVars, linked, due, pollIn, coming, probe, boardVars, unanswered, misses, troubles>>

\* A side stops, or recovers.
Trouble ==
    /\ troubles < MaxTroubles /\ troubles' = troubles + 1
    /\ \/ usb' = ~usb /\ UNCHANGED bridge
       \/ bridge' = ~bridge /\ UNCHANGED usb
    /\ coming' = (coming /\ Answers')
    /\ UNCHANGED <<watchVars, linked, due, pollIn, probe, calibrating, offers, unanswered, misses, turns>>

Steps ==
    \/ Poll5s \/ PushTick \/ ProbeEnds \/ Answered \/ Later
    \/ Opens \/ Disconnects \/ Unplugs \/ Learns \/ Quiets \/ Resumes \/ Calibrates \/ Trouble

Outside == <<linked, uploader, quiet, calibrating, usb, bridge, misses>>
WatchNext ==
    /\ Steps
    /\ steady' = IF Outside' # Outside THEN 0
                 ELSE IF due' /\ ~due THEN Least(steady + 1, InTime + 1) ELSE steady

WatchSpec == WatchInit /\ [][WatchNext]_gatewayVars

---------------------------------------------------------------------------
(***************************************************************************)
(* Properties                                                              *)
(***************************************************************************)
\* Once it has answered, "not responding" takes a whole window of lost
\* replies in a row, whatever polls, pauses and probes fall between them, and
\* is never said while its cockpit side is quiet.
NeverHasty ==
    [][verdict' # verdict /\ verdict' # "none" /\ answeredOnce
         => unanswered >= LostReplies /\ ~quiet]_gatewayVars

\* A Gateway that answers is not said to be silent for longer than a poll, and
\* one that has stopped is said to be, two windows and two probes later at most.
HealthIsTrue ==
    linked =>
      /\ Answers /\ steady > NoAnswer => verdict = "none"
      /\ ~Answers /\ ~calibrating /\ ~quiet /\ (answeredOnce \/ (uploader /\ usb))
           /\ steady > InTime => verdict # "none"
=============================================================================
