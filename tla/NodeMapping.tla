---------------------------- MODULE NodeMapping ----------------------------
(***************************************************************************)
(* Your cockpit, as node-mapping.json holds it: MappingStore               *)
(* (nodes/mapping-store.ts, mapping-file.ts), the changes people make to   *)
(* it (mapping-rules.ts, offline-actions.ts, a config import's mapping     *)
(* section) and those the bus makes (node-hub.ts busTransitions).          *)
(*                                                                         *)
(* A board's name and console are left out, and its kind is what it always *)
(* reports.  A file a newer client wrote is one that refuses every write;  *)
(* a write is whole or not at all (JsonStore).  "Add all" and "Un-hide     *)
(* all" are Adopt and Hide, one board after another.  An import that fails *)
(* later puts mapping and file back in one go, and changes nothing here.   *)
(*                                                                         *)
(* The operators marked "Mutant" are plausible slips in the definition     *)
(* that follows them; no specification uses them.                          *)
(***************************************************************************)
CONSTANTS
    Boards, Pdus,
    Registry,   \* the boards NODE_IDS.md names,
    Home,       \* and the power zone it gives each
    NoZone,
    Odds        \* what a run lets in: a file that "flicker"s within one change, is
                \* loaded "late", after a hidden board came online; Hide in the
                \* "window" before a tick; an import over boards seen by "pages" alone

ASSUME BoardsAssumption ==
    /\ Pdus \subseteq Boards /\ Registry \subseteq Boards /\ NoZone \notin Boards
    /\ Home \in [Boards -> (Pdus \cap Registry) \cup {NoZone}]
    /\ \A b \in Boards : b \in Pdus \/ b \notin Registry => Home[b] = NoZone
ASSUME WordsAssumption == {"default", "out"} \cap (Boards \cup {NoZone}) = {}
ASSUME OddsAssumption == Odds \subseteq {"flicker", "late", "window", "pages"}

VARIABLES
    disk,      \* node-mapping.json
    mem, load, \* MappingStore: what it holds, and whether that is the file
    told,      \* what people were last told of each board's place in the cockpit
    \* the bus, as the client knows it
    up, row,
    pages,     \* fresh ones of a PDU, newer than the row that says it is absent
    complete,
    was, dirty \* on the bus at the last tick, and whether another is due

storeVars == <<disk, mem, load, told>>
busVars == <<up, row, pages, complete>>
vars == <<storeVars, busVars, was, dirty>>

Zones == Pdus \cup {NoZone}
\* A zone that is the registry's is stored as no entry at all.
Entries == [in : BOOLEAN, hidden : BOOLEAN, zone : Zones \cup {"default"}]
Files == [Boards -> Entries]
Out == [in |-> FALSE, hidden |-> FALSE, zone |-> "default"]
Empty == [b \in Boards |-> Out]

TypeOK ==
    /\ disk \in Files /\ mem \in Files /\ load \in {"none", "retry", "ok"}
    /\ told \in [Boards -> Zones \cup {"default", "out"}]
    /\ {up, complete, dirty} \subseteq BOOLEAN
    /\ row \in [Boards -> {"none", "absent", "present"}]
    /\ pages \in [Boards -> BOOLEAN]
    /\ was \subseteq Boards

Cockpit(file) == {b \in Boards : file[b].in}
Stored(file, b) == IF file[b].zone = "default" THEN Home[b] ELSE file[b].zone
AsStored(b, zone) == IF zone = Home[b] THEN "default" ELSE zone
\* Where a panel's link may point: a PDU in the cockpit, hidden or not.
Feeders(file) == Cockpit(file) \cap Pdus
PlaceOf(entry) == IF entry.in THEN entry.zone ELSE "out"

Init ==
    /\ disk = Empty /\ mem = Empty /\ load = "none"
    /\ told = [b \in Boards |-> "out"]
    /\ up = FALSE /\ complete = FALSE /\ was = {} /\ dirty = TRUE
    /\ row = [b \in Boards |-> "none"] /\ pages = [b \in Boards |-> FALSE]

---------------------------------------------------------------------------
(***************************************************************************)
(* The bus                                                                 *)
(***************************************************************************)
\* availabilityOf(): a row that says present, or fresh pages newer than the one
\* that says absent; offline once a row, or a whole roster, says so.
Online(b) == row[b] = "present" \/ pages[b]
Offline(b) == ~Online(b) /\ (row[b] # "none" \/ complete)

Row(b, r) ==
    /\ up /\ row' = [row EXCEPT ![b] = r] /\ dirty' = TRUE
    /\ pages' = [pages EXCEPT ![b] = @ /\ (r = "absent" => row[b] = "absent")]
    /\ UNCHANGED <<storeVars, up, complete, was>>

\* A reply that ended whole: boards it left out are absent.
RosterEnds(missing) ==
    /\ up /\ missing \subseteq {b \in Boards : row[b] = "present"}
    /\ complete' = TRUE /\ dirty' = TRUE
    /\ row' = [b \in Boards |-> IF b \in missing THEN "absent" ELSE row[b]]
    /\ pages' = [b \in Boards |-> pages[b] /\ b \notin missing]
    /\ UNCHANGED <<storeVars, up, was>>

Page(b) ==
    /\ up /\ b \in Pdus /\ pages' = [pages EXCEPT ![b] = TRUE] /\ dirty' = TRUE
    /\ UNCHANGED <<storeVars, up, row, complete, was>>

PageStale(b) ==
    /\ pages[b] /\ pages' = [pages EXCEPT ![b] = FALSE] /\ dirty' = TRUE
    /\ UNCHANGED <<storeVars, up, row, complete, was>>

---------------------------------------------------------------------------
(***************************************************************************)
(* The store                                                               *)
(***************************************************************************)
\* A file that could not be loaded is tried again at each access.  A change
\* reads the mapping (before) and accesses it again to save (held).
StandIn == IF load = "none" THEN Empty ELSE mem
Loads == "late" \in Odds \/ \A b \in was : ~disk[b].hidden
Look(before, held, state) == [before |-> before, held |-> held, load |-> state]
Looks ==
    IF load = "ok" THEN {Look(mem, mem, "ok")}
    ELSE {Look(StandIn, StandIn, "retry")}
         \cup (IF Loads THEN {Look(disk, disk, "ok")} ELSE {})
         \cup (IF "flicker" \in Odds THEN {Look(StandIn, disk, "ok")} ELSE {})

\* A file that is not the one on disk must not be written over it.
\* Mutant: it is.
AlwaysWritable(look) == TRUE
Writable(look) == look.load = "ok"

Writes(look, next) ==
    /\ Writable(look) /\ load' = look.load /\ disk' = next /\ mem' = next
Keeps(look) == load' = look.load /\ mem' = look.held /\ UNCHANGED disk

\* update(): saved before it is adopted.  Nothing to change, a refusal and a
\* failed write come to no more than the accesses they make: see LookAgain.
Update(look, next) ==
    /\ next # look.held /\ Writes(look, next)
    /\ told' = [b \in Boards |-> IF next[b] = look.before[b] THEN told[b] ELSE PlaceOf(next[b])]

\* persist(): what main does on its own applies in memory, saved or not; a
\* board seen is a change of its own.
Persist(look, next, seen) ==
    /\ UNCHANGED told
    /\ IF next = look.held /\ seen \cap Cockpit(next) = {} THEN Keeps(look)
       ELSE Writes(look, next) \/ (load' = look.load /\ mem' = next /\ UNCHANGED disk)

\* An access to a file not loaded yet, by a change that comes to nothing too.
LookAgain ==
    /\ load # "ok" /\ \E look \in Looks : Keeps(look)
    /\ UNCHANGED <<told, busVars, was, dirty>>

---------------------------------------------------------------------------
(***************************************************************************)
(* What people change                                                      *)
(***************************************************************************)
Edit(look, next) == Update(look, next) /\ UNCHANGED <<busVars, was, dirty>>

ZonesFor(file, b) == IF b \in Pdus THEN {NoZone} ELSE Feeders(file) \cup {NoZone}

\* Only a board that has said what it is (pages gone stale would do, too).
Adopt(look, b, zone) ==
    /\ row[b] # "none" \/ pages[b] \/ look.before[b].in
    /\ zone \in ZonesFor(look.before, b)
    /\ Edit(look, [look.before EXCEPT ![b] =
         [in |-> TRUE, hidden |-> @.hidden /\ b \in Registry, zone |-> AsStored(b, zone)]])

SetZone(look, b, zone) ==
    /\ look.before[b].in /\ b \notin Pdus /\ zone \in ZonesFor(look.before, b)
    /\ Edit(look, [look.before EXCEPT ![b].zone = AsStored(b, zone)])

\* Since it went, a tick has seen it.
Ticked(b) == "window" \in Odds \/ b \notin was

Hide(look, b) ==
    /\ look.before[b].in /\ Offline(b) /\ Ticked(b)
    /\ Edit(look, [look.before EXCEPT ![b].hidden = TRUE])

Unhide(look, b) == Edit(look, [look.before EXCEPT ![b].hidden = FALSE])

\* The boards a forgotten PDU fed have no zone, stored or by the registry.
\* Mutant: those it is stored for.
UnlinkedIfStored(file, c, gone) ==
    IF file[c].in /\ file[c].zone = gone THEN [file[c] EXCEPT !.zone = AsStored(c, NoZone)] ELSE file[c]
Unlinked(file, c, gone) ==
    IF file[c].in /\ Stored(file, c) = gone THEN [file[c] EXCEPT !.zone = AsStored(c, NoZone)] ELSE file[c]

Forget(look, b) ==
    /\ look.before[b].in /\ Offline(b)
    /\ Edit(look, [c \in Boards |-> IF c = b THEN Out ELSE Unlinked(look.before, c, b)])

\* The registry's zone again, while its PDU is in the cockpit.
KeptOnReset(file, b) ==
    [file[b] EXCEPT !.zone = IF @ # "default" /\ Home[b] \notin Feeders(file) THEN AsStored(b, NoZone)
                             ELSE "default"]

ResetBoard(look, b) ==
    /\ b \in Registry /\ look.before[b].in
    /\ Edit(look, [look.before EXCEPT ![b] = KeptOnReset(look.before, b)])

ResetAll(look, forget) ==
    Edit(look, [b \in Boards |->
        IF b \in Registry THEN KeptOnReset(look.before, b)
        ELSE IF forget THEN Out ELSE look.before[b]])

\* importMapping(): as written, but no board of a present row is hidden, and
\* no zone is one outside the imported cockpit.
Staged(file) ==
    [b \in Boards |-> [file[b] EXCEPT !.hidden = @ /\ file[b].in /\ row[b] # "present"]]
UnlinkedOutside(file) ==
    [b \in Boards |->
        IF file[b].in /\ b \notin Pdus /\ Stored(file, b) \notin Feeders(file) \cup {NoZone}
        THEN [file[b] EXCEPT !.zone = AsStored(b, NoZone)] ELSE file[b]]
Import(look, file) ==
    /\ \A b \in Boards :
         Staged(file)[b].hidden => IF Online(b) THEN "pages" \in Odds ELSE Ticked(b)
    /\ Edit(look, UnlinkedOutside(Staged(file)))

---------------------------------------------------------------------------
(***************************************************************************)
(* What the bus and the link change                                        *)
(***************************************************************************)
\* onBusIds(): by rows or pages.
\* Mutant: by the rows alone.
OnBusByRows == {b \in Boards : row[b] = "present"}
OnBus == {b \in Boards : Online(b)}

ClearReported(file, came) ==
    [b \in Boards |-> IF b \in came THEN [file[b] EXCEPT !.hidden = FALSE] ELSE file[b]]

\* The tick: a board that came shows again, one that came or went was seen.
Tick ==
    /\ up /\ dirty /\ dirty' = FALSE /\ was' = OnBus
    /\ IF OnBus = was THEN UNCHANGED storeVars
       ELSE \E look \in Looks :
              Persist(look, ClearReported(look.before, OnBus \ was),
                      (OnBus \ was) \cup (was \ OnBus))
    /\ UNCHANGED busVars

\* The rows stay until the port opens again.
LinkCloses ==
    /\ up /\ up' = FALSE /\ was' = {}
    /\ IF was = {} THEN UNCHANGED storeVars
       ELSE \E look \in Looks : Persist(look, look.before, was)
    /\ UNCHANGED <<row, pages, complete, dirty>>

NoBus ==
    /\ row' = [b \in Boards |-> "none"] /\ pages' = [b \in Boards |-> FALSE]
    /\ complete' = FALSE /\ was' = {} /\ dirty' = TRUE

LinkOpens == ~up /\ up' = TRUE /\ NoBus /\ UNCHANGED storeVars

Restart == up' = FALSE /\ NoBus /\ load' = "none" /\ mem' = Empty /\ UNCHANGED <<disk, told>>

---------------------------------------------------------------------------
\* Bound: an imported file hides all its boards, and zones its panels alike.
Imports ==
    {[b \in Boards |-> IF b \notin members THEN Out
                       ELSE [in |-> TRUE, hidden |-> TRUE,
                             zone |-> IF b \in Pdus THEN "default" ELSE zone]] :
       members \in SUBSET Boards, zone \in (Pdus \ Registry) \cup {"default"}}

People ==
    \E look \in Looks :
      \/ \E b \in Boards :
           \/ \E zone \in Zones : Adopt(look, b, zone) \/ SetZone(look, b, zone)
           \/ Hide(look, b) \/ Unhide(look, b) \/ Forget(look, b) \/ ResetBoard(look, b)
      \/ \E forget \in BOOLEAN : ResetAll(look, forget)
      \/ \E file \in Imports : Import(look, file)

Bus ==
    \/ \E b \in Boards : Page(b) \/ PageStale(b) \/ \E r \in {"absent", "present"} : Row(b, r)
    \/ \E missing \in SUBSET Boards : RosterEnds(missing)
    \/ Tick \/ LinkCloses \/ LinkOpens

Next == People \/ Bus \/ LookAgain \/ Restart

Spec == Init /\ [][Next]_vars

---------------------------------------------------------------------------
(***************************************************************************)
(* Properties                                                              *)
(***************************************************************************)
\* What people were told of a board's place in the cockpit (added, zone set,
\* forgotten, imported) is what the file says, whatever failed to load or to
\* be saved since, and whatever main wrote on its own.
AnswersKept == \A b \in Boards : PlaceOf(disk[b]) = told[b]

\* "A board on the bus always shows": once the tick after a change has run, no
\* board that is online is hidden.
OnlineBoardsShow ==
    up /\ load = "ok" /\ ~dirty => \A b \in Boards : Online(b) => ~mem[b].hidden

\* A panel's power zone is none, or a PDU in the cockpit: no forgotten,
\* imported or reset one is left behind, to feed it again when it comes back.
ZoneHeld(file) ==
    \A b \in Cockpit(file) \ Pdus : Stored(file, b) \in Feeders(file) \cup {NoZone}
ZonesHold == ZoneHeld(disk) /\ ZoneHeld(mem)
=============================================================================
