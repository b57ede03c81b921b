---------------------------- MODULE CockpitUpdate ----------------------------
(***************************************************************************)
(* The update of the Gateway's cockpit side (src/main/update/              *)
(* cockpit-side-update.ts and uploader/uploader-client.ts): the client     *)
(* asks the Gateway's uploader to flash the board, follows it through lost *)
(* answers, lost links and a Gateway that loses power, and says what came  *)
(* of it.  The Gateway is the one of test-harness/fake-uploader.ts, which  *)
(* follows its firmware.                                                   *)
(*                                                                         *)
(* A request is one step, at the moment the Gateway takes it: the Gateway  *)
(* moves only between requests, and what came of the answer is part of the *)
(* step.  UPL_DATA stands for all the chunks.                              *)
(*                                                                         *)
(* The operators marked "Mutant" are plausible slips in the definition     *)
(* that follows them; no specification uses them.  Put in its place, each  *)
(* violates the property it names.                                         *)
(***************************************************************************)
EXTENDS Integers

CONSTANTS
    LostAfter,   \* UPL_INFOs unanswered in a row before contact is lost
    ChunkTries,  \* sends of one chunk before staging gives up
    QuickBoot,   \* the Gateway may be back from a power cycle before that
    MaxRuns,     \* bound: runs in one behaviour
    MaxLost      \* bound: frames lost while the link is up

ASSUME TimingAssumption == LostAfter \in Nat \ {0} /\ ChunkTries \in Nat \ {0}
ASSUME QuickBootAssumption == QuickBoot \in BOOLEAN
ASSUME BoundsAssumption == MaxRuns \in Nat /\ MaxLost \in Nat

VARIABLES
    \* the client's run
    pc,        \* what the run awaits; "confirm" and "ended" between runs
    staging,   \* the run stages the release's image: the bundle is not there
    ours,      \* what the Gateway holds staged is this dialog's
    staged,    \* this run may flash what is staged
    partial,   \* statuses may have been missed
    erased,    \* a status at or past the erase was seen
    missed,    \* probes unanswered in a row
    tries,     \* sends of the chunk
    result,    \* what the dialog says: how it ended, and what it left behind
    \* the Gateway, its cockpit side and the link between it and the client
    state, image, bundle, lastResult, phase,
    board,     \* what the cockpit side holds
    row,       \* the version its row reports to the client
    linkUp, booting,
    \* counted
    runs, lost,
    flashes,   \* flashes this run began
    erasedIn   \* the run whose flash erased the board last

runVars == <<pc, staging, ours, staged, partial, erased, missed, tries, result>>
gatewayVars == <<state, image, bundle, lastResult, phase>>
linkVars == <<row, linkUp, booting>>
counted == <<runs, flashes, erasedIn>>
vars == <<runVars, gatewayVars, board, linkVars, counted, lost>>

Awaits == {"info", "abort", "begin", "data", "end", "flash", "flashInfo",
           "watch", "cutOff", "row"}
Results == {"NONE", "OK", "NO_RESPONSE", "KIND_MISMATCH", "WRITE_FAILED",
            "TIMEOUT"}
Failures == {"no-uploader", "busy", "image", "no-answer", "interrupted",
             "not-responding", "refused", "no-response", "write-failed",
             "no-confirmation"}
NoResult == [end |-> "none", after |-> "none"]

TypeOK ==
    /\ pc \in {"confirm", "ended"} \cup Awaits
    /\ staging \in BOOLEAN /\ ours \in BOOLEAN /\ staged \in BOOLEAN
    /\ partial \in BOOLEAN /\ erased \in BOOLEAN
    /\ linkUp \in BOOLEAN /\ booting \in BOOLEAN /\ bundle \in BOOLEAN
    /\ missed \in 0 .. LostAfter - 1
    /\ tries \in 0 .. ChunkTries
    /\ result \in [end : {"none", "ok"} \cup Failures,
                   after : {"none", "refused", "erased"}]
    /\ state \in {"IDLE", "STAGING", "STAGED", "FLASHING"}
    /\ image \in {"none", "own", "foreign"}
    /\ lastResult \in Results
    /\ phase \in {"entering", "erased", "written"}
    /\ board \in {"old", "erased", "written", "new"}
    /\ row \in {"none", "old", "new"}
    /\ runs \in 0 .. MaxRuns
    /\ lost \in 0 .. MaxLost
    /\ flashes \in Nat
    /\ erasedIn \in 0 .. MaxRuns

(* The dialog opens on a Gateway that may hold an image of another update,  *)
(* or be flashing what an earlier client began.                             *)
Init ==
    /\ pc = "confirm" /\ result = NoResult
    /\ bundle \in BOOLEAN /\ staging = ~bundle
    /\ ours = FALSE /\ staged = FALSE /\ partial = FALSE /\ erased = FALSE
    /\ missed = 0 /\ tries = 0
    /\ \/ state = "IDLE" /\ image = "none"
       \/ state = "STAGED" /\ image = "foreign"
       \/ state = "FLASHING" /\ image = "own"
    /\ lastResult = "NONE" /\ phase = "entering"
    /\ board \in {"old", "erased"}
    /\ row = IF board = "old" THEN "old" ELSE "none"
    /\ linkUp = TRUE /\ booting = FALSE
    /\ runs = 0 /\ lost = 0 /\ flashes = 0 /\ erasedIn = 0

-----------------------------------------------------------------------------
(* Requests. *)

Losing == lost < MaxLost /\ lost' = lost + 1

(* A request the Gateway takes or not, and whose answer comes or not: the   *)
(* frame may be lost, or the link goes, either way.                         *)
Exchange(taken, heard) ==
    \/ /\ taken /\ heard /\ linkUp
       /\ UNCHANGED <<linkVars, lost>>
    \/ /\ taken /\ ~heard /\ linkUp
       /\ \/ Losing /\ UNCHANGED linkVars
          \/ linkUp' = FALSE /\ UNCHANGED <<row, booting, lost>>
    \/ /\ ~taken /\ ~heard
       /\ IF linkUp THEN Losing ELSE UNCHANGED lost
       /\ UNCHANGED linkVars

(* UPL_INFO, which changes nothing at the Gateway.                          *)
AskInfo(heard) ==
    /\ \E taken \in BOOLEAN : Exchange(taken, heard)
    /\ UNCHANGED gatewayVars

Elsewhere == UNCHANGED <<board, runs, erasedIn>>

RunEnds(end, after) ==
    /\ pc' = "ended"
    /\ result' = [end |-> end, after |-> after]

MayBeErased == partial \/ erased

(* What a result means for the cockpit side.                                *)
Outcome(r) ==
    \/ r = "OK" /\ RunEnds("ok", "none")
    \/ r = "NO_RESPONSE" /\ RunEnds("no-response", "refused")
    \/ /\ r = "KIND_MISMATCH"
       /\ RunEnds("refused", IF MayBeErased THEN "erased" ELSE "refused")
    \/ r = "WRITE_FAILED" /\ RunEnds("write-failed", "erased")
    \/ r = "TIMEOUT" /\ RunEnds("no-confirmation", "none")

(* A result, or none: the Gateway lost power and with it the result.        *)
Settle(r) ==
    IF r = "NONE" THEN pc' = "row" /\ UNCHANGED result ELSE Outcome(r)

Stage == pc' = "begin"
Flash(mustStage) == IF mustStage THEN Stage ELSE pc' = "flash"
Watch == pc' = "watch" /\ missed' = 0

-----------------------------------------------------------------------------
(* The run. *)

(* Start, or Retry.                                                         *)
Start ==
    /\ \/ pc = "confirm" /\ linkUp
       \/ pc = "ended" /\ result.end # "ok"
    /\ runs < MaxRuns
    /\ runs' = runs + 1 /\ flashes' = 0
    /\ pc' = "info" /\ result' = NoResult
    /\ staged' = FALSE /\ partial' = FALSE /\ erased' = FALSE
    /\ missed' = 0 /\ tries' = 0
    /\ UNCHANGED <<staging, ours, gatewayVars, board, linkVars, lost, erasedIn>>

(* attempt(): a flash that runs already is followed, what another update    *)
(* left staged is dropped.                                                  *)
Info ==
    /\ pc = "info"
    /\ \E heard \in BOOLEAN :
         /\ AskInfo(heard)
         /\ \/ /\ heard /\ state = "FLASHING"
               /\ Watch /\ partial' = TRUE
               /\ UNCHANGED <<staged, result>>
            \/ /\ heard /\ state \in {"STAGING", "STAGED"} /\ ~ours
               /\ pc' = "abort"
               /\ UNCHANGED <<staged, partial, missed, result>>
            \/ /\ heard /\ (state = "IDLE" \/ (state # "FLASHING" /\ ours))
               /\ staged' = (state = "STAGED")
               /\ Flash(staging /\ ~staged')
               /\ UNCHANGED <<partial, missed, result>>
            \/ /\ ~heard
               /\ RunEnds("no-uploader", "none")
               /\ UNCHANGED <<staged, partial, missed>>
    /\ UNCHANGED <<staging, ours, erased, tries, flashes>> /\ Elsewhere

(* UPL_ABORT: whatever comes of it the run goes on.                         *)
Abort ==
    /\ pc = "abort"
    /\ \E taken, heard \in BOOLEAN :
         /\ Exchange(taken, heard)
         /\ state' = IF taken /\ state # "FLASHING" THEN "IDLE" ELSE state
    /\ Flash(staging)
    /\ UNCHANGED <<image, bundle, lastResult, phase>>
    /\ UNCHANGED <<staging, ours, staged, partial, erased, missed, tries, result,
                   flashes>>
    /\ Elsewhere

(* The release's image cannot be read, or is not the cockpit side's.        *)
ImageDamaged ==
    /\ pc = "begin"
    /\ RunEnds("image", "none")
    /\ UNCHANGED <<staging, ours, staged, partial, erased, missed, tries,
                   gatewayVars, linkVars, lost, flashes>>
    /\ Elsewhere

Begin ==
    /\ pc = "begin"
    /\ \E taken, heard \in BOOLEAN :
         /\ Exchange(taken, heard)
         /\ IF taken /\ state # "FLASHING"
            THEN state' = "STAGING" /\ image' = "none"
            ELSE UNCHANGED <<state, image>>
         /\ IF heard /\ state # "FLASHING"
            THEN pc' = "data" /\ tries' = 1 /\ UNCHANGED result
            ELSE /\ RunEnds(IF heard THEN "busy" ELSE "no-answer", "none")
                 /\ UNCHANGED tries
    /\ UNCHANGED <<bundle, lastResult, phase>>
    /\ UNCHANGED <<staging, ours, staged, partial, erased, missed, flashes>>
    /\ Elsewhere

(* UPL_DATA: with no answer the chunk is sent again, by its offset.         *)
Data ==
    /\ pc = "data"
    /\ \E taken, heard \in BOOLEAN :
         /\ Exchange(taken, heard)
         /\ \/ /\ heard /\ state = "STAGING"
               /\ pc' = "end" /\ UNCHANGED <<tries, result>>
            \/ /\ ~heard /\ tries < ChunkTries
               /\ tries' = tries + 1 /\ UNCHANGED <<pc, result>>
            \/ /\ IF heard THEN state # "STAGING" ELSE tries = ChunkTries
               /\ RunEnds("no-answer", "none") /\ UNCHANGED tries
    /\ UNCHANGED <<gatewayVars, staging, ours, staged, partial, erased, missed,
                   flashes>>
    /\ Elsewhere

End ==
    /\ pc = "end"
    /\ \E taken, heard \in BOOLEAN :
         /\ Exchange(taken, heard)
         /\ IF taken /\ state = "STAGING"
            THEN state' = "STAGED" /\ image' = "own"
            ELSE UNCHANGED <<state, image>>
         /\ IF heard /\ state = "STAGING"
            THEN /\ ours' = TRUE /\ staged' = TRUE
                 /\ pc' = "flash" /\ UNCHANGED result
            ELSE RunEnds("no-answer", "none") /\ UNCHANGED <<ours, staged>>
    /\ UNCHANGED <<bundle, lastResult, phase>>
    /\ UNCHANGED <<staging, partial, erased, missed, tries, flashes>>
    /\ Elsewhere

(* The Gateway flashes what is staged, or the image it carries.             *)
CanFlash == state = "STAGED" \/ (state = "IDLE" /\ bundle)

FlashRequest ==
    /\ pc = "flash"
    /\ \E taken, heard \in BOOLEAN :
         /\ Exchange(taken, heard)
         /\ IF taken /\ CanFlash
            THEN /\ state' = "FLASHING" /\ phase' = "entering"
                 /\ image' = IF state = "IDLE" THEN "own" ELSE image
                 /\ flashes' = flashes + 1
            ELSE UNCHANGED <<state, phase, image, flashes>>
         /\ \/ /\ heard /\ CanFlash
               /\ Watch /\ ours' = TRUE
               /\ UNCHANGED <<staging, result>>
            \/ /\ heard /\ state \in {"IDLE", "STAGING"} /\ ~CanFlash /\ ~staged
               /\ staging' = TRUE /\ Stage
               /\ UNCHANGED <<ours, missed, result>>
            \/ /\ heard /\ ~CanFlash /\ (state = "FLASHING" \/ staged)
               /\ RunEnds(IF state = "FLASHING" THEN "busy" ELSE "no-answer",
                          "none")
               /\ UNCHANGED <<staging, ours, missed>>
            \/ /\ ~heard
               /\ pc' = "flashInfo"
               /\ UNCHANGED <<staging, ours, missed, result>>
    /\ UNCHANGED <<bundle, lastResult, staged, partial, erased, tries>>
    /\ Elsewhere

(* No answer to UPL_FLASH: a Gateway that flashes is followed, any other is *)
(* waited for as after a loss of contact.                                   *)
FlashInfo ==
    /\ pc = "flashInfo"
    /\ \E heard \in BOOLEAN :
         /\ AskInfo(heard)
         /\ IF heard /\ state = "FLASHING"
            THEN Watch /\ UNCHANGED partial
            ELSE pc' = "cutOff" /\ partial' = TRUE /\ UNCHANGED missed
    /\ ours' = TRUE
    /\ UNCHANGED <<staging, staged, erased, tries, result, flashes>>
    /\ Elsewhere

(* Mutant, RunSettles: only UPL_RESULT ends a flash.                        *)
ProbeOnlyListens ==
    /\ pc = "watch"
    /\ \E heard \in BOOLEAN :
         /\ AskInfo(heard)
         /\ \/ heard /\ missed' = 0 /\ UNCHANGED <<pc, partial, result>>
            \/ /\ ~heard /\ missed + 1 < LostAfter
               /\ missed' = missed + 1 /\ UNCHANGED <<pc, partial, result>>
            \/ /\ ~heard /\ missed + 1 = LostAfter
               /\ pc' = "cutOff" /\ partial' = TRUE /\ UNCHANGED <<missed, result>>
    /\ UNCHANGED <<staging, ours, staged, erased, tries, flashes>>
    /\ Elsewhere

(* Mutant, RefusedWroteNothing: what was missed meanwhile is forgotten.     *)
ProbeForgets ==
    /\ pc = "watch"
    /\ \E heard \in BOOLEAN :
         /\ AskInfo(heard)
         /\ \/ heard /\ state = "FLASHING" /\ missed' = 0 /\ UNCHANGED <<pc, result>>
            \/ heard /\ state # "FLASHING" /\ missed' = 0 /\ Settle(lastResult)
            \/ /\ ~heard /\ missed + 1 < LostAfter
               /\ missed' = missed + 1 /\ UNCHANGED <<pc, result>>
            \/ /\ ~heard /\ missed + 1 = LostAfter
               /\ pc' = "cutOff" /\ UNCHANGED <<missed, result>>
    /\ UNCHANGED <<staging, ours, staged, partial, erased, tries, flashes>>
    /\ Elsewhere

(* The UPL_INFO of each second: the flash goes on, has ended, or contact is *)
(* lost.                                                                    *)
Probe ==
    /\ pc = "watch"
    /\ \E heard \in BOOLEAN :
         /\ AskInfo(heard)
         /\ \/ /\ heard /\ missed' = 0 /\ UNCHANGED partial
               /\ IF state = "FLASHING" THEN UNCHANGED <<pc, result>>
                                        ELSE Settle(lastResult)
            \/ /\ ~heard /\ missed + 1 < LostAfter
               /\ missed' = missed + 1 /\ UNCHANGED <<pc, partial, result>>
            \/ /\ ~heard /\ missed + 1 = LostAfter
               /\ pc' = "cutOff" /\ partial' = TRUE /\ UNCHANGED <<missed, result>>
    /\ UNCHANGED <<staging, ours, staged, erased, tries, flashes>>
    /\ Elsewhere

(* reconnect(): the link is up and the uploader answers again.              *)
Reconnect ==
    /\ pc = "cutOff" /\ linkUp
    /\ \E heard \in BOOLEAN :
         /\ AskInfo(heard)
         /\ \/ heard /\ state = "FLASHING" /\ Watch /\ UNCHANGED result
            \/ heard /\ state # "FLASHING" /\ Settle(lastResult) /\ UNCHANGED missed
            \/ ~heard /\ UNCHANGED <<pc, missed, result>>
    /\ UNCHANGED <<staging, ours, staged, partial, erased, tries, flashes>>
    /\ Elsewhere

(* Mutant, OkMeansInstalled: a board that reports at all is taken as done.  *)
JudgeFromAnyRow ==
    /\ pc = "row"
    /\ IF row # "none" THEN RunEnds("ok", "none")
       ELSE RunEnds("not-responding", "erased")
    /\ UNCHANGED <<staging, ours, staged, partial, erased, missed, tries,
                   gatewayVars, linkVars, lost, flashes>>
    /\ Elsewhere

(* judgeFromRow(): the row comes, or does not in time.                      *)
JudgeFromRow ==
    /\ pc = "row"
    /\ \/ row = "new" /\ RunEnds("ok", "none")
       \/ row = "old" /\ RunEnds("interrupted", "refused")
       \/ row = "none" /\ MayBeErased /\ RunEnds("not-responding", "erased")
       \/ row = "none" /\ ~MayBeErased /\ RunEnds("interrupted", "refused")
    /\ UNCHANGED <<staging, ours, staged, partial, erased, missed, tries,
                   gatewayVars, linkVars, lost, flashes>>
    /\ Elsewhere

(* The dialog closes, after a result or while cut off, or another is opened *)
(* over it; only its Close after a result drops what is staged.             *)
Reopen ==
    /\ pc \in {"confirm", "ended", "cutOff"}
    /\ pc' = "confirm" /\ result' = NoResult
    /\ ours' = FALSE /\ staging' = ~bundle
    /\ \/ UNCHANGED state
       \/ /\ pc = "ended" /\ linkUp /\ state # "FLASHING"
          /\ state' = "IDLE"
    /\ UNCHANGED <<staged, partial, erased, missed, tries, image, bundle,
                   lastResult, phase, linkVars, lost, flashes>>
    /\ Elsewhere

-----------------------------------------------------------------------------
(* The Gateway (test-harness/fake-uploader.ts). *)

Listening == pc \in {"flashInfo", "watch"}
Following == Listening \/ pc = "cutOff"

(* A status at or past the erase: the client hears it, or it is lost.       *)
Status ==
    \/ linkUp /\ Listening /\ erased' = TRUE /\ UNCHANGED lost
    \/ linkUp /\ Listening /\ Losing /\ UNCHANGED erased
    \/ ~(linkUp /\ Listening) /\ UNCHANGED <<erased, lost>>

Erase ==
    /\ state = "FLASHING" /\ phase = "entering" /\ image = "own"
    /\ phase' = "erased" /\ board' = "erased"
    /\ erasedIn' = IF Following THEN runs ELSE erasedIn
    /\ Status
    /\ UNCHANGED <<pc, staging, ours, staged, partial, missed, tries, result,
                   state, image, bundle, lastResult, linkVars, runs, flashes>>

Written ==
    /\ state = "FLASHING" /\ phase = "erased"
    /\ phase' = "written" /\ board' = "written"
    /\ Status
    /\ UNCHANGED <<pc, staging, ours, staged, partial, missed, tries, result,
                   state, image, bundle, lastResult, linkVars, runs, flashes,
                   erasedIn>>

(* How a flash may end, by how far it got.                                  *)
EndsWith(r) ==
    \/ phase = "entering" /\ image = "own" /\ r = "NO_RESPONSE"
    \/ phase = "entering" /\ image # "own" /\ r = "KIND_MISMATCH"
    \/ phase = "erased" /\ r = "WRITE_FAILED"
    \/ phase = "written" /\ r \in {"OK", "TIMEOUT"}

(* The flash ends.  Its result is sent once and kept; what was flashed      *)
(* stays staged.                                                            *)
FlashEnds ==
    /\ state = "FLASHING"
    /\ \E r \in Results :
         /\ EndsWith(r)
         /\ state' = "STAGED" /\ lastResult' = r
         /\ board' = IF r = "OK" THEN "new" ELSE board
         /\ \/ linkUp /\ pc = "watch" /\ Outcome(r) /\ UNCHANGED lost
            \/ linkUp /\ pc = "watch" /\ Losing /\ UNCHANGED <<pc, result>>
            \/ ~(linkUp /\ pc = "watch") /\ UNCHANGED <<pc, result, lost>>
    /\ UNCHANGED <<staging, ours, staged, partial, erased, missed, tries, image,
                   bundle, phase, linkVars, counted>>

(* What is staged is dropped once no frame came for a while.                *)
IdleDrop ==
    /\ state \in {"STAGING", "STAGED"}
    /\ pc \in {"confirm", "ended", "cutOff", "row"}
    /\ state' = "IDLE"
    /\ UNCHANGED <<runVars, image, bundle, lastResult, phase, board, linkVars,
                   counted, lost>>

(* The USB side loses power, and all the uploader holds with it; another    *)
(* one may take its place.                                                  *)
PowerCycle ==
    /\ state' = "IDLE" /\ image' = "none" /\ lastResult' = "NONE"
    /\ bundle' \in BOOLEAN
    /\ linkUp' = FALSE /\ booting' = TRUE
    /\ UNCHANGED <<runVars, phase, board, row, counted, lost>>

LinkDrops ==
    /\ linkUp /\ linkUp' = FALSE
    /\ UNCHANGED <<runVars, gatewayVars, board, row, booting, counted, lost>>

LinkReturns ==
    /\ ~linkUp /\ linkUp' = TRUE /\ row' = "none"
    /\ booting => QuickBoot \/ ~Listening
    /\ booting' = FALSE
    /\ UNCHANGED <<runVars, gatewayVars, board, counted, lost>>

(* The cockpit side starts its app, unless it is being flashed.             *)
BoardStarts ==
    /\ board = "written" /\ state # "FLASHING"
    /\ board' = "new"
    /\ UNCHANGED <<runVars, gatewayVars, linkVars, counted, lost>>

RowComes ==
    /\ linkUp /\ state # "FLASHING" /\ board \in {"old", "new"}
    /\ row # board /\ row' = board
    /\ UNCHANGED <<runVars, gatewayVars, board, linkUp, booting, counted, lost>>

-----------------------------------------------------------------------------
Run == \/ Info \/ Abort \/ Begin \/ Data \/ End \/ FlashRequest \/ FlashInfo
       \/ Probe \/ Reconnect \/ JudgeFromRow

Gateway == Erase \/ Written \/ FlashEnds

Next ==
    \/ Start \/ Run \/ ImageDamaged \/ Reopen
    \/ Gateway \/ IdleDrop \/ PowerCycle \/ LinkDrops \/ LinkReturns
    \/ BoardStarts \/ RowComes

Spec == Init /\ [][Next]_vars

(* Every request is answered or times out, a flash ends, the link comes     *)
(* back, and an uploader asked again and again answers in the end.          *)
Fairness ==
    /\ WF_vars(Run)
    /\ WF_vars(Gateway)
    /\ WF_vars(LinkReturns)
    /\ SF_vars(Reconnect /\ pc' # "cutOff")

FairSpec == Spec /\ Fairness

-----------------------------------------------------------------------------
(* Properties. *)

(* A run that says it is done left the new version on the board.            *)
OkMeansInstalled == result.end = "ok" => board = "new"

(* A run that says nothing was written did not erase the board, whatever it *)
(* missed of the flash.                                                     *)
RefusedWroteNothing == result.after = "refused" => erasedIn # runs

(* A run has the Gateway flash at most once; a second time is the user's.   *)
OneFlashPerRun == flashes <= 1

(* A run ends, or is left, however often contact is lost.                   *)
RunSettles == pc \in Awaits ~> pc \notin Awaits

(* "Nothing was written. The board goes back to its old firmware": a board  *)
(* of which the dialog says so has a firmware to go back to.                *)
RefusedMeansItReturns == result.after = "refused" => board # "erased"
=============================================================================
