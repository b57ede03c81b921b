------------------------------ MODULE Releases ------------------------------
(***************************************************************************)
(* The firmware releases saved on this computer: Releases                  *)
(* (releases/releases.ts) over ReleaseCache (releases/release-cache.ts).   *)
(* A check downloads a release newer than the newest saved one, updates    *)
(* read images and repair damaged versions, retention and Clear delete;    *)
(* all of them share one folder, whose changes run one at a time.          *)
(*                                                                         *)
(* A version is its rank among the releases.  The zip, the manifest and    *)
(* the checksums are what they decide: a download is whole or it is        *)
(* refused.  What only the Firmware sheet shows (the last check, dates,    *)
(* sizes, releases on a newer major) is left out.                          *)
(*                                                                         *)
(* The operators marked "Mutant" are plausible slips in the definition     *)
(* that follows them; no specification uses them.                          *)
(***************************************************************************)
EXTENDS Naturals, Sequences, FiniteSets, SequencesExt

CONSTANTS
    LastRelease,       \* the last release there will be
    Keep,       \* how many versions are kept
    Updates,    \* updates that ask for an image
    MaxFaults,  \* bound: file operations that fail
    Odds        \* what a run lets in: an update that comes "late", for a version that is being
                \* deleted, a "slow" read of a file, an install that fails "twice"

ASSUME CountsAssumption == {LastRelease, Keep} \subseteq Nat \ {0}
ASSUME FaultsAssumption == MaxFaults \in Nat
ASSUME UpdatesAssumption == IsFiniteSet(Updates)
ASSUME OddsAssumption == Odds \subseteq {"late", "slow", "twice"}

VARIABLES
    disk,     \* the folder of each version; "junk" is one without its manifest
    saved,    \* the versions ReleaseCache lists
    queue,    \* the changes to the folder, the first one running
    job,      \* where that one is: the folder moved aside, what it deletes and has yet to
    released, \* the latest release on GitHub
    scanned, check, repair, update,
    stuck,    \* what the last retention pass could not delete
    faults

cacheVars == <<disk, saved, queue, job, stuck>>
workVars == <<released, scanned, check, repair, update>>
releasesVars == <<cacheVars, workVars, faults>>

Versions == 1..LastRelease
Folders == {"none", "good", "damaged", "junk"}
Jobs == [kind : {"scan", "clear"}] \cup [kind : {"retain"}, update : Updates]
        \cup [kind : {"install"}, version : Versions, caller : {"check", "repair"}]

ReleasesTypeOK ==
    /\ disk \in [Versions -> Folders] /\ saved \subseteq Versions /\ stuck \subseteq Versions
    /\ queue \in Seq(Jobs)
    /\ job \in [at : {"ready", "swap", "place", "replace", "back", "sweeps", "deletes"},
                aside : Folders, rest : SUBSET Versions, going : 0..LastRelease, failed : BOOLEAN]
    /\ released \in Versions /\ scanned \in BOOLEAN
    /\ check \in [at : {"idle", "lists", "waits", "asks", "downloads", "installs"},
                  version : 0..LastRelease, newest : 0..LastRelease]
    /\ repair \in [Versions -> {"none", "downloads", "installs"}]
    /\ update \in [Updates -> [at : {"idle", "waits", "reads", "repairs", "reads again", "lets go"},
                               version : 0..LastRelease, sure : BOOLEAN, moved : BOOLEAN,
                               answer : {"none", "ok", "not-cached", "damaged", "failed"}]]
    /\ faults \in 0..MaxFaults

Ready == [at |-> "ready", aside |-> "none", rest |-> {}, going |-> 0, failed |-> FALSE]
NoCheck == [at |-> "idle", version |-> 0, newest |-> 0]
NoUpdate == [at |-> "idle", version |-> 0, sure |-> FALSE, moved |-> FALSE, answer |-> "none"]

OnDisk(v) == disk[v] \in {"good", "damaged"}
Newest == Max(saved \cup {0})
Running(kind) == queue # <<>> /\ Head(queue).kind = kind
Fault == faults < MaxFaults /\ faults' = faults + 1

\* ReleaseCache.reading: what hold() holds until its answer's let go.
Holds(u) == update[u].at \notin {"idle", "lets go"}
Reading == {update[u].version : u \in {w \in Updates : Holds(w)}}

\* open(): the scan is queued.
ReleasesInit ==
    /\ disk \in [Versions -> Folders] /\ saved = {} /\ stuck = {}
    /\ queue = <<[kind |-> "scan"]>> /\ job = Ready
    /\ released \in {r \in Versions : \A v \in Versions : disk[v] # "none" => v <= r}
    /\ scanned = FALSE /\ check = NoCheck
    /\ repair = [v \in Versions |-> "none"]
    /\ update = [u \in Updates |-> NoUpdate]
    /\ faults = 0

---------------------------------------------------------------------------
(***************************************************************************)
(* An update's image: its version is held, and let go with the answer;     *)
(* retention runs then, and the answer waits for it                        *)
(***************************************************************************)
Answered(set, answer) ==
    [u \in Updates |-> IF u \in set THEN [update[u] EXCEPT !.at = "lets go", !.answer = answer]
                       ELSE update[u]]
\* Mutant: what a read held back stays.
RetainsNothing(set) == <<>>
Retains(set) ==
    LET order == SetToSeq(set) IN [i \in DOMAIN order |-> [kind |-> "retain", update |-> order[i]]]

LetsGo(u, answer) ==
    update' = Answered({u}, answer) /\ queue' = queue \o Retains({u}) /\ UNCHANGED repair

\* The versions that go whoever reads them from now on: prune() looked who
\* reads when it started, Clear looks before each deletion.
Doomed == {job.going} \cup (IF Running("clear") THEN {} ELSE job.rest)
Here(v) == IF Running("scan") /\ job = Ready THEN OnDisk(v) ELSE v \in saved

Ask(u, v) ==
    /\ update[u] = NoUpdate /\ (v \in Doomed => "late" \in Odds)
    /\ update' = [update EXCEPT ![u] = [NoUpdate EXCEPT !.at = "waits", !.version = v,
                                                        !.sure = Here(v)]]
    /\ UNCHANGED <<queue, repair>>

Match(u) ==
    /\ update[u].at = "waits" /\ scanned
    /\ IF update[u].version \in saved
       THEN update' = [update EXCEPT ![u].at = "reads"] /\ UNCHANGED <<queue, repair>>
       ELSE LetsGo(u, "not-cached")

\* A file in a folder that is being moved aside may be found or not.
Found(u) ==
    {disk[update[u].version] = "good"} \cup (IF update[u].moved THEN {FALSE} ELSE {})

\* repair(): one a version; a second read joins it.
Read(u) ==
    LET v == update[u].version
    IN  /\ update[u].at \in {"reads", "reads again"}
        /\ \E found \in Found(u) :
             \/ found /\ LetsGo(u, "ok")
             \/ /\ ~found
                /\ \/ update[u].at = "reads again"
                   \/ v \notin saved /\ repair[v] = "none"
                /\ LetsGo(u, "damaged")
             \/ /\ ~found /\ update[u].at = "reads" /\ (v \in saved \/ repair[v] # "none")
                /\ update' = [update EXCEPT ![u].at = "repairs"]
                /\ repair' = [repair EXCEPT ![v] = IF @ = "none" THEN "downloads" ELSE @]
                /\ UNCHANGED queue

Joined(v) == {u \in Updates : update[u].at = "repairs" /\ update[u].version = v}
RepairFails(v) ==
    /\ repair' = [repair EXCEPT ![v] = "none"] /\ update' = Answered(Joined(v), "failed")

DownloadsAgain(v) ==
    /\ repair[v] = "downloads"
    /\ \/ /\ repair' = [repair EXCEPT ![v] = "installs"] /\ UNCHANGED update
          /\ queue' = Append(queue, [kind |-> "install", version |-> v, caller |-> "repair"])
       \/ RepairFails(v) /\ queue' = queue \o Retains(Joined(v))

Image ==
    /\ \/ \E u \in Updates : (\E v \in Versions : Ask(u, v)) \/ Match(u) \/ Read(u)
       \/ \E v \in Versions : DownloadsAgain(v)
    /\ UNCHANGED <<disk, saved, job, stuck, released, scanned, check, faults>>

---------------------------------------------------------------------------
(***************************************************************************)
(* The check, at launch or asked for: one at a time                        *)
(***************************************************************************)
\* The candidates from v down: one no newer than the newest saved asks nothing.
Considers(v, newest) ==
    IF v <= newest THEN NoCheck ELSE [at |-> "asks", version |-> v, newest |-> newest]

CheckNow == check = NoCheck /\ check' = [NoCheck EXCEPT !.at = "lists"]

List ==
    /\ check.at = "lists"
    /\ check' \in {NoCheck, [check EXCEPT !.at = "waits", !.version = released]}

\* Mutant: the check does not wait for the scan.
ScanIgnored == TRUE
ScanAwaited == scanned

Consider ==
    /\ check.at = "waits" /\ ScanAwaited
    /\ check' = Considers(check.version, Newest)

\* A manifest not there yet, or a bad one, is skipped.
Manifest ==
    /\ check.at = "asks"
    /\ check' \in {NoCheck, Considers(check.version - 1, check.newest),
                   [check EXCEPT !.at = "downloads"]}

Download ==
    /\ check.at = "downloads"
    /\ \/ check' = NoCheck /\ UNCHANGED queue
       \/ /\ check' = [check EXCEPT !.at = "installs"]
          /\ queue' = Append(queue, [kind |-> "install", version |-> check.version,
                                     caller |-> "check"])

CheckSteps ==
    /\ \/ (CheckNow \/ List \/ Consider \/ Manifest) /\ UNCHANGED queue
       \/ Download
    /\ UNCHANGED <<disk, saved, job, stuck, released, scanned, repair, update, faults>>

\* *Clear*, refused while nothing is saved or an update reads; bound: one queued.
Clear ==
    /\ saved # {} /\ Reading = {} /\ \A i \in DOMAIN queue : queue[i].kind # "clear"
    /\ queue' = Append(queue, [kind |-> "clear"])
    /\ UNCHANGED <<disk, saved, job, stuck, workVars, faults>>

---------------------------------------------------------------------------
(***************************************************************************)
(* The folder's changes: a step of one is a file operation                 *)
(***************************************************************************)
\* Mutant: retention forgets who reads.
Oldest(versions, held) == {v \in versions : Cardinality({w \in versions : w > v}) >= Keep}
BeyondKept(versions, held) ==
    {v \in versions \ held : Cardinality({w \in versions : w > v}) >= Keep}

\* The next deletion of a pass, if any.
Deletes(kind, rest) ==
    LET left == IF kind = "clear" THEN rest \ Reading ELSE rest
        next == IF kind = "clear" THEN Min(left) ELSE Max(left)
    IN  IF left = {} THEN [Ready EXCEPT !.at = "deletes"]
        ELSE [Ready EXCEPT !.at = "deletes", !.going = next,
                           !.rest = {v \in rest \ {next} : kind = "clear" => v > next}]
Prune(list) == job' = Deletes("retain", BeyondKept(list, Reading)) /\ stuck' = {}

StartDeleting ==
    /\ \/ job = Ready /\ Running("retain") /\ Prune(saved)
       \/ job.at = "sweeps" /\ Prune(saved)
       \/ job = Ready /\ Running("clear") /\ job' = Deletes("clear", saved) /\ UNCHANGED stuck
    /\ UNCHANGED <<disk, saved, queue, scanned, check, repair, update, faults>>

\* scan(): folders without their manifest and what was moved aside are dropped.
Scan ==
    /\ job = Ready /\ Running("scan")
    /\ saved' = {v \in Versions : OnDisk(v)} /\ job' = [Ready EXCEPT !.at = "sweeps"]
    /\ \/ /\ disk' = [v \in Versions |-> IF OnDisk(v) THEN disk[v] ELSE "none"]
          /\ UNCHANGED faults
       \/ Fault /\ UNCHANGED disk
    /\ UNCHANGED <<queue, stuck, scanned, check, repair, update>>

\* What a deletion that did not end leaves.
LeftOf(folder) ==
    CASE folder = "good" -> {"good", "damaged", "junk"}
      [] folder = "damaged" -> {"damaged", "junk"}
      [] OTHER -> {folder}

Delete ==
    LET v == job.going
    IN  /\ job.at = "deletes" /\ v # 0
        /\ \/ /\ disk' = [disk EXCEPT ![v] = "none"] /\ saved' = saved \ {v}
              /\ UNCHANGED <<stuck, faults>>
           \/ /\ Fault /\ stuck' = stuck \cup {v} /\ UNCHANGED saved
              /\ \E left \in LeftOf(disk[v]) : disk' = [disk EXCEPT ![v] = left]
        /\ job' = Deletes(Head(queue).kind, job.rest)
        /\ UNCHANGED <<queue, scanned, check, repair, update>>

\* The job ends, and who waited for it goes on.
EndOfPass ==
    LET ended == Head(queue)
    IN  /\ job.at = "deletes" /\ job.going = 0 /\ job' = Ready /\ queue' = Tail(queue)
        /\ scanned' = (scanned \/ ended.kind = "scan")
        /\ check' = IF Running("install") /\ ended.caller = "check" THEN NoCheck ELSE check
        /\ \/ /\ ended.kind \in {"scan", "clear"} /\ UNCHANGED <<repair, update>>
           \/ /\ ended.kind = "retain" /\ UNCHANGED repair
              /\ update' = [update EXCEPT ![ended.update] = NoUpdate]
           \/ /\ ended.kind = "install" /\ ended.caller = "check" /\ UNCHANGED <<repair, update>>
           \/ /\ ended.kind = "install" /\ ended.caller = "repair"
              /\ repair' = [repair EXCEPT ![ended.version] = "none"]
              /\ update' = [u \in Updates |-> IF u \in Joined(ended.version)
                                              THEN [update[u] EXCEPT !.at = "reads again"]
                                              ELSE update[u]]
        /\ UNCHANGED <<disk, saved, stuck, faults>>

\* Mutant: who waits for a repair that failed is not told.
Forsakes(v) ==
    repair' = [repair EXCEPT ![v] = "none"] /\ queue' = Tail(queue) /\ UNCHANGED update
TellsOfFailure(v) == RepairFails(v) /\ queue' = Tail(queue) \o Retains(Joined(v))

InstallFails ==
    /\ job' = Ready /\ UNCHANGED <<saved, stuck, scanned>>
    /\ \/ /\ Head(queue).caller = "check" /\ check' = NoCheck
          /\ queue' = Tail(queue) /\ UNCHANGED <<repair, update>>
       \/ /\ Head(queue).caller = "repair" /\ UNCHANGED check
          /\ TellsOfFailure(Head(queue).version)

GoesTo(at) ==
    /\ job' = [job EXCEPT !.at = at]
    /\ UNCHANGED <<saved, queue, stuck, scanned, check, repair, update>>

\* put(): unpacked into a folder of its own, unless the zip is not what its
\* manifest says or the disk is full.
Unpacks ==
    /\ job = Ready /\ Running("install") /\ UNCHANGED <<disk, faults>>
    /\ \/ GoesTo(IF Head(queue).version \in saved THEN "swap" ELSE "place")
       \/ InstallFails

\* A saved copy moves aside; if it cannot, it is deleted.
MoveAside ==
    LET v == Head(queue).version
    IN  /\ job.at = "swap"
        /\ \/ /\ disk[v] # "none" /\ disk' = [disk EXCEPT ![v] = "none"] /\ UNCHANGED faults
              /\ job' = [job EXCEPT !.at = "replace", !.aside = disk[v]]
              /\ update' = [u \in Updates |->
                              IF "slow" \in Odds /\ update[u].version = v
                                 /\ update[u].at \in {"reads", "reads again"}
                              THEN [update[u] EXCEPT !.moved = TRUE] ELSE update[u]]
              /\ UNCHANGED <<saved, queue, stuck, scanned, check, repair>>
           \/ /\ IF disk[v] = "none" THEN UNCHANGED faults ELSE Fault
              /\ disk' = [disk EXCEPT ![v] = "none"]
              /\ job' = [job EXCEPT !.at = "place", !.failed = disk[v] # "none"]
              /\ UNCHANGED <<saved, queue, stuck, scanned, check, repair, update>>
           \/ /\ Fault /\ InstallFails
              /\ \E left \in LeftOf(disk[v]) : disk' = [disk EXCEPT ![v] = left]

MayFail == Fault /\ (job.failed => "twice" \in Odds)

\* A folder that is in the way is in the way for good.
Place ==
    LET v == Head(queue).version
    IN  /\ job.at \in {"place", "replace"}
        /\ \/ /\ disk[v] = "none" /\ disk' = [disk EXCEPT ![v] = "good"]
              /\ saved' = saved \cup {v} /\ job' = [Ready EXCEPT !.at = "sweeps"]
              /\ UNCHANGED <<queue, stuck, scanned, check, repair, update, faults>>
           \/ /\ IF disk[v] = "none" THEN MayFail ELSE UNCHANGED faults
              /\ UNCHANGED disk
              /\ IF job.at = "replace"
                 THEN /\ job' = [job EXCEPT !.at = "back", !.failed = TRUE]
                      /\ UNCHANGED <<saved, queue, stuck, scanned, check, repair, update>>
                 ELSE InstallFails

ComesBack(v) ==
    \/ disk' = [disk EXCEPT ![v] = job.aside] /\ UNCHANGED faults
    \/ MayFail /\ UNCHANGED disk

PutBack == job.at = "back" /\ ComesBack(Head(queue).version) /\ InstallFails

Folder ==
    /\ StartDeleting \/ Scan \/ Delete \/ EndOfPass \/ Unpacks \/ MoveAside \/ Place \/ PutBack
    /\ UNCHANGED released

---------------------------------------------------------------------------
Release ==
    /\ released < LastRelease /\ released' = released + 1
    /\ UNCHANGED <<cacheVars, scanned, check, repair, update, faults>>

\* The application dies or quits, and is started again: the folder is all
\* there is, with what a deletion had left and without what was aside.
Restart ==
    /\ \/ job.going = 0 /\ UNCHANGED disk
       \/ /\ job.going # 0
          /\ \E left \in LeftOf(disk[job.going]) : disk' = [disk EXCEPT ![job.going] = left]
    /\ saved' = {} /\ stuck' = {} /\ queue' = <<[kind |-> "scan"]>> /\ job' = Ready
    /\ scanned' = FALSE /\ check' = NoCheck
    /\ repair' = [v \in Versions |-> "none"] /\ update' = [u \in Updates |-> NoUpdate]
    /\ UNCHANGED <<released, faults>>

ReleasesNext == Image \/ CheckSteps \/ Clear \/ Folder \/ Release \/ Restart

ReleasesSpec == ReleasesInit /\ [][ReleasesNext]_releasesVars

\* Requests have timeouts and file operations end: what was asked goes on.
FairReleasesSpec ==
    /\ ReleasesSpec /\ WF_releasesVars(Folder) /\ WF_releasesVars(CheckSteps /\ check.at # "idle")
    /\ \A u \in Updates : WF_releasesVars(Image /\ update[u] # NoUpdate /\ update'[u] # update[u])
    /\ \A v \in Versions : WF_releasesVars(Image /\ repair[v] = "downloads" /\ repair'[v] # "downloads")

---------------------------------------------------------------------------
(***************************************************************************)
(* Properties                                                              *)
(***************************************************************************)
\* An update that asked for a version while it was saved gets its image,
\* unless the download or the install of its repair failed: no retention
\* pass, Clear, scan, check or other update takes it away.
AskedIsServed ==
    \A u \in Updates : update[u].sure => update[u].answer \in {"none", "ok", "failed"}

\* A version the list offers is on the disk, except while its repair swaps it.
SavedIsThere ==
    \A v \in saved : disk[v] = "none" =>
        job.at \in {"place", "replace", "back"} /\ Head(queue).version = v

\* A check downloads nothing that is on the disk.
NoneTwice == check.at = "downloads" => ~OnDisk(check.version)

\* The list and the disk agree, whatever failed and whenever the application
\* died, and a check goes by the list only once the scan has filled it.
ListIsTrue == SavedIsThere /\ NoneTwice

\* When all is done, what is saved is the newest, and what could not be
\* deleted.
KeepsTheNewest == queue = <<>> /\ Reading = {} => BeyondKept(saved, {}) \subseteq stuck

\* Every check ends, and every update is answered.
EverythingEnds ==
    /\ check.at # "idle" ~> check.at = "idle"
    /\ \A u \in Updates : update[u].at # "idle" ~> update[u].at = "idle"
=============================================================================
