--------------------------- MODULE NodeHub_proofs ---------------------------
(***************************************************************************)
(* Three parts of what NodeHub keeps.                                      *)
(*                                                                         *)
(* What people were told of the cockpit is what the file says, and no      *)
(* panel is left with a power zone outside it, for every set of boards.    *)
(* The invariant says what the mapping in memory is: the file, but for the *)
(* hidden flags a save did not reach, or, as long as the file could not be *)
(* loaded, an empty cockpit.  A change therefore starts from a mapping     *)
(* that agrees with the file on every place (LookIsFine), and it is enough *)
(* that each change keeps the zones inside the cockpit.  The assumption    *)
(* that a file does not "flicker" is needed: a change would start from the *)
(* empty cockpit and be saved over the file.                               *)
(*                                                                         *)
(* Then whether the Gateway answers: "not responding" takes a whole window *)
(* of requests lost in a row, and is said, and taken back, in time.        *)
(*                                                                         *)
(* Last the roster: a board that is on the bus is not shown offline.  The  *)
(* invariant speaks of the lines on their way: what each row says, and     *)
(* that whatever the client will take for a whole reply names every board  *)
(* it has heard of by then (LinesTell).  A reply that lacks a line has one *)
(* line fewer than its END counts; an update, after which the bridge does  *)
(* not know the boards, keeps the client from judging until nothing asked  *)
(* during it is on its way; and of the boards a bridge forgot without one  *)
(* the client has not heard since (KnownHeard): it does blank those.       *)
(***************************************************************************)
EXTENDS NodeMapping, GatewayWatch, NodeRoster, SequenceTheorems, FiniteSetTheorems, TLAPS

Fine(file) == file \in Files /\ ZoneHeld(file)

SamePlaces(f, g) == \A b \in Boards : PlaceOf(f[b]) = PlaceOf(g[b])

Inv ==
    /\ Fine(disk) /\ Fine(mem)
    /\ load \in {"none", "retry", "ok"}
    /\ load = "ok" => SamePlaces(mem, disk)
    /\ load # "ok" => mem = Empty
    /\ \A b \in Boards : told[b] = PlaceOf(disk[b])
    /\ told \in [Boards -> Zones \cup {"default", "out"}]

\* What a change starts from, and what is held when it is saved.
FineLook(look) ==
    /\ Fine(look.before) /\ look.held = look.before
    /\ look.load \in {"none", "retry", "ok"}
    /\ look.load = "ok" => SamePlaces(look.before, disk)
    /\ look.load # "ok" => look.before = Empty

---------------------------------------------------------------------------
(* An empty cockpit has no panel to feed.                                  *)
LEMMA EmptyIsFine == Fine(Empty)
  BY DEF Fine, Empty, Files, Entries, Out, ZoneHeld, Cockpit

(* Zones do not depend on the hidden flags.                                *)
LEMMA PlacesDecide ==
    ASSUME NEW f \in Files, NEW g \in Files, SamePlaces(f, g), ZoneHeld(f)
    PROVE  ZoneHeld(g)
<1>1. \A b \in Boards : f[b] \in Entries /\ g[b] \in Entries
  BY DEF Files
<1>2. "out" \notin Zones \cup {"default"}
  BY WordsAssumption, BoardsAssumption DEF WordsAssumption, BoardsAssumption, Zones
<1>3. \A b \in Boards : (f[b].in <=> g[b].in) /\ (g[b].in => f[b].zone = g[b].zone)
  <2> TAKE b \in Boards
  <2>1. PlaceOf(f[b]) = PlaceOf(g[b]) /\ f[b] \in Entries /\ g[b] \in Entries
    BY <1>1 DEF SamePlaces
  <2>2. /\ f[b].zone \in Zones \cup {"default"} /\ g[b].zone \in Zones \cup {"default"}
        /\ f[b].in \in BOOLEAN /\ g[b].in \in BOOLEAN
    BY <2>1 DEF Entries
  <2> QED
    BY <2>1, <2>2, <1>2 DEF PlaceOf
<1>4. Cockpit(f) = Cockpit(g) /\ Feeders(f) = Feeders(g)
  BY <1>3 DEF Cockpit, Feeders
<1>5. \A b \in Cockpit(g) : Stored(g, b) = Stored(f, b)
  BY <1>3 DEF Cockpit, Stored
<1> QED
  BY <1>4, <1>5 DEF ZoneHeld

(* A zone is read back as it was set, the registry's or another.           *)
LEMMA StoredAsSet ==
    ASSUME NEW file, NEW b \in Boards, NEW zone \in Zones, file[b].zone = AsStored(b, zone)
    PROVE  Stored(file, b) = zone
<1>1. zone # "default"
  BY WordsAssumption, BoardsAssumption DEF WordsAssumption, BoardsAssumption, Zones
<1> QED
  BY <1>1 DEF Stored, AsStored

LEMMA AsStoredTyped ==
    ASSUME NEW b \in Boards, NEW zone \in Zones
    PROVE  AsStored(b, zone) \in Zones \cup {"default"}
  BY DEF AsStored

---------------------------------------------------------------------------
(* Every access finds the file or the empty stand-in.                      *)
LEMMA LookIsFine ==
    ASSUME "flicker" \notin Odds, Inv, NEW look \in Looks
    PROVE  FineLook(look)
<1>1. CASE load = "ok"
  BY <1>1 DEF Inv, Looks, Look, FineLook
<1>2. CASE load # "ok"
  <2>1. StandIn = Empty
    BY <1>2 DEF Inv, StandIn
  <2>2. look = Look(Empty, Empty, "retry") \/ look = Look(disk, disk, "ok")
    BY <1>2, <2>1 DEF Looks
  <2>3. CASE look = Look(Empty, Empty, "retry")
    BY <2>3, EmptyIsFine DEF Look, FineLook
  <2>4. CASE look = Look(disk, disk, "ok")
    BY <2>4 DEF Look, FineLook, Inv, SamePlaces
  <2> QED
    BY <2>2, <2>3, <2>4
<1> QED
  BY <1>1, <1>2

(* What is held back leaves the file as it is.                             *)
LEMMA KeepsInv ==
    ASSUME Inv, NEW look, FineLook(look), Keeps(look), UNCHANGED told
    PROVE  Inv'
  BY DEF Inv, FineLook, Keeps, Fine, SamePlaces, ZoneHeld, Feeders, Cockpit, Stored, PlaceOf

(* A file that is written is the mapping from then on.                     *)
LEMMA WritesInv ==
    ASSUME Inv, NEW look, FineLook(look), NEW next, Fine(next), Writes(look, next),
           told' \in [Boards -> Zones \cup {"default", "out"}],
           \A b \in Boards : told'[b] = PlaceOf(next[b])
    PROVE  Inv'
<1>1. load' = "ok" /\ disk' = next /\ mem' = next
  BY DEF Writes, Writable
<1>2. Fine(disk)' /\ Fine(mem)'
  BY <1>1 DEF Fine, ZoneHeld, Feeders, Cockpit, Stored
<1> QED
  BY <1>1, <1>2 DEF Inv, SamePlaces, PlaceOf

(* A change of people's.                                                   *)
LEMMA UpdateKeeps ==
    ASSUME Inv, NEW look, FineLook(look), NEW next, Fine(next), Update(look, next)
    PROVE  Inv'
<1>1. Writes(look, next)
  BY DEF Update
<1>2. look.load = "ok"
  BY <1>1 DEF Writes, Writable
<1>3. \A b \in Boards : told[b] = PlaceOf(look.before[b])
  BY <1>2 DEF FineLook, SamePlaces, Inv
<1>4. \A b \in Boards : told'[b] = PlaceOf(next[b])
  BY <1>3 DEF Update
<1>5. \A b \in Boards : PlaceOf(next[b]) \in Zones \cup {"default", "out"}
  BY DEF Fine, Files, Entries, PlaceOf
<1>6. told' \in [Boards -> Zones \cup {"default", "out"}]
  BY <1>4, <1>5 DEF Update
<1> QED
  BY <1>1, <1>4, <1>6, WritesInv

(* A change of main's own that leaves every board in its place.            *)
LEMMA PersistKeeps ==
    ASSUME Inv, NEW look, FineLook(look), NEW seen, NEW next, Fine(next),
           SamePlaces(next, look.before), look.load # "ok" => next = Empty,
           Persist(look, next, seen)
    PROVE  Inv'
<1>0. UNCHANGED told
  BY DEF Persist
<1>1. CASE Keeps(look)
  BY <1>0, <1>1, KeepsInv
<1>2. CASE Writes(look, next)
  <2>1. look.load = "ok"
    BY <1>2 DEF Writes, Writable
  <2>2. \A b \in Boards : told'[b] = PlaceOf(next[b])
    BY <1>0, <2>1 DEF FineLook, SamePlaces, Inv
  <2>3. told' \in [Boards -> Zones \cup {"default", "out"}]
    BY <1>0 DEF Inv
  <2> QED
    BY <1>2, <2>2, <2>3, WritesInv
<1>3. CASE load' = look.load /\ mem' = next /\ UNCHANGED disk
  <2>1. Fine(disk)' /\ Fine(mem)'
    BY <1>3 DEF Inv, Fine, ZoneHeld, Feeders, Cockpit, Stored
  <2>2. look.load = "ok" => SamePlaces(next, disk)
    BY DEF FineLook, SamePlaces
  <2>3. (load = "ok" => SamePlaces(mem, disk))' /\ (load # "ok" => mem = Empty)'
    BY <1>3, <2>2 DEF SamePlaces, PlaceOf, Empty
  <2>4. load' \in {"none", "retry", "ok"}
    BY <1>3 DEF FineLook
  <2>5. (\A b \in Boards : told[b] = PlaceOf(disk[b]))'
    BY <1>0, <1>3 DEF Inv, PlaceOf
  <2> QED
    BY <1>0, <2>1, <2>3, <2>4, <2>5 DEF Inv
<1> QED
  BY <1>1, <1>2, <1>3 DEF Persist

---------------------------------------------------------------------------
(* Each change leaves every panel with a zone inside the cockpit.          *)
LEMMA FileAt ==
    ASSUME NEW file \in Files, NEW b \in Boards
    PROVE  /\ file[b] \in Entries /\ file[b].in \in BOOLEAN /\ file[b].hidden \in BOOLEAN
           /\ file[b].zone \in Zones \cup {"default"}
<1>1. file[b] \in Entries
  BY DEF Files
<1> QED
  BY <1>1 DEF Entries

LEMMA NoZoneIsOne == NoZone \in Zones /\ \A b \in Boards : Home[b] \in Zones
  BY BoardsAssumption DEF BoardsAssumption, Zones

(* One board's place changes, to a zone that was there to choose.          *)
LEMMA PlacedFine ==
    ASSUME NEW f, Fine(f), NEW b \in Boards, NEW zone \in ZonesFor(f, b), NEW entry \in Entries,
           entry.in, entry.zone = AsStored(b, zone)
    PROVE  Fine([f EXCEPT ![b] = entry])
<1> DEFINE g == [f EXCEPT ![b] = entry]
<1>0. f \in Files /\ ZoneHeld(f) /\ zone \in Zones
  BY DEF Fine, ZonesFor, Feeders, Zones
<1>1. g \in Files /\ g[b] = entry /\ \A c \in Boards \ {b} : g[c] = f[c]
  BY <1>0 DEF Files
<1>2. Feeders(f) \subseteq Feeders(g)
  BY <1>1 DEF Feeders, Cockpit
<1>3. ASSUME NEW c \in Cockpit(g) \ Pdus
      PROVE  Stored(g, c) \in Feeders(g) \cup {NoZone}
  <2>1. CASE c = b
    <3>1. c \in Boards /\ g[c].zone = AsStored(c, zone) /\ zone \in Zones
      BY <2>1, <1>0, <1>1
    <3> HIDE DEF g
    <3>2. Stored(g, c) = zone
      BY <3>1, StoredAsSet
    <3> QED
      BY <3>2, <2>1, <1>2, <1>3 DEF ZonesFor
  <2>2. CASE c # b
    <3>1. c \in Cockpit(f) /\ Stored(g, c) = Stored(f, c)
      BY <2>2, <1>1, <1>3 DEF Cockpit, Stored
    <3> QED
      BY <3>1, <1>0, <1>2, <1>3 DEF ZoneHeld
  <2> QED
    BY <2>1, <2>2
<1> QED
  BY <1>1, <1>3 DEF Fine, ZoneHeld

LEMMA AdoptKeeps ==
    ASSUME Inv, NEW look, FineLook(look), NEW b \in Boards, NEW zone \in Zones,
           Adopt(look, b, zone)
    PROVE  Inv'
<1> DEFINE entry == [in |-> TRUE, hidden |-> look.before[b].hidden /\ b \in Registry,
                     zone |-> AsStored(b, zone)]
<1>1. Fine(look.before)
  BY DEF FineLook
<1>2. entry \in Entries
  BY AsStoredTyped DEF Entries
<1>3. zone \in ZonesFor(look.before, b)
  BY DEF Adopt
<1>4. Fine([look.before EXCEPT ![b] = entry])
  <2> HIDE DEF entry
  <2>1. entry.in /\ entry.zone = AsStored(b, zone)
    BY DEF entry
  <2> QED
    BY <1>1, <1>2, <1>3, <2>1, PlacedFine
<1>5. Update(look, [look.before EXCEPT ![b] = entry])
  <2>1. look.before \in Files
    BY <1>1 DEF Fine
  <2>2. [look.before EXCEPT ![b] = entry] = [look.before EXCEPT ![b] =
         [in |-> TRUE, hidden |-> @.hidden /\ b \in Registry, zone |-> AsStored(b, zone)]]
    BY <2>1 DEF Files
  <2> QED
    BY <2>2 DEF Adopt, Edit
<1> HIDE DEF entry
<1> QED
  BY <1>4, <1>5, UpdateKeeps

LEMMA SetZoneKeeps ==
    ASSUME Inv, NEW look, FineLook(look), NEW b \in Boards, NEW zone \in Zones,
           SetZone(look, b, zone)
    PROVE  Inv'
<1> DEFINE entry == [look.before[b] EXCEPT !.zone = AsStored(b, zone)]
<1>1. Fine(look.before) /\ look.before \in Files
  BY DEF FineLook, Fine
<1>2. look.before[b] \in Entries /\ look.before[b].in
  BY <1>1, FileAt DEF SetZone
<1>3. entry \in Entries /\ entry.in /\ entry.zone = AsStored(b, zone)
  BY <1>2, AsStoredTyped DEF Entries
<1>4. zone \in ZonesFor(look.before, b)
  BY DEF SetZone
<1>5. [look.before EXCEPT ![b].zone = AsStored(b, zone)] = [look.before EXCEPT ![b] = entry]
  BY <1>1 DEF Files
<1>6. Update(look, [look.before EXCEPT ![b] = entry])
  BY <1>5 DEF SetZone, Edit
<1> HIDE DEF entry
<1>7. Fine([look.before EXCEPT ![b] = entry])
  BY <1>1, <1>3, <1>4, PlacedFine
<1> QED
  BY <1>6, <1>7, UpdateKeeps

(* A hidden flag moves no board.                                           *)
LEMMA HiddenFine ==
    ASSUME NEW f, Fine(f), NEW flag \in [Boards -> BOOLEAN]
    PROVE  LET g == [b \in Boards |-> [f[b] EXCEPT !.hidden = flag[b]]]
           IN  Fine(g) /\ SamePlaces(g, f)
<1> DEFINE g == [b \in Boards |-> [f[b] EXCEPT !.hidden = flag[b]]]
<1>1. f \in Files /\ ZoneHeld(f)
  BY DEF Fine
<1>2. \A b \in Boards : /\ g[b] = [f[b] EXCEPT !.hidden = flag[b]]
                        /\ f[b] \in Entries /\ flag[b] \in BOOLEAN
  BY <1>1, FileAt
<1> HIDE DEF g
<1>3. \A b \in Boards : g[b] \in Entries /\ g[b].in = f[b].in /\ g[b].zone = f[b].zone
  BY <1>2 DEF Entries
<1>4. g \in Files
  <2>1. g = [b \in Boards |-> g[b]]
    BY DEF g
  <2> QED
    BY <2>1, <1>3 DEF Files
<1>5. SamePlaces(g, f) /\ SamePlaces(f, g)
  BY <1>3 DEF SamePlaces, PlaceOf
<1>6. Fine(g)
  BY <1>1, <1>4, <1>5, PlacesDecide DEF Fine
<1> QED
  BY <1>5, <1>6 DEF g

LEMMA HideKeeps ==
    ASSUME Inv, NEW look, FineLook(look), NEW b \in Boards, NEW to \in BOOLEAN,
           Edit(look, [look.before EXCEPT ![b].hidden = to])
    PROVE  Inv'
<1> DEFINE flag == [c \in Boards |-> IF c = b THEN to ELSE look.before[c].hidden]
           g == [c \in Boards |-> [look.before[c] EXCEPT !.hidden = flag[c]]]
<1>1. Fine(look.before) /\ look.before \in Files
  BY DEF FineLook, Fine
<1>2. flag \in [Boards -> BOOLEAN]
  BY <1>1, FileAt
<1>3. g = [look.before EXCEPT ![b].hidden = to]
  <2>1. \A c \in Boards \ {b} : [look.before[c] EXCEPT !.hidden = look.before[c].hidden]
                                  = look.before[c]
    <3> TAKE c \in Boards \ {b}
    <3>1. look.before[c] \in Entries
      BY <1>1, FileAt
    <3> QED
      BY <3>1 DEF Entries
  <2>2. \A c \in Boards : g[c] = [look.before EXCEPT ![b].hidden = to][c]
    BY <2>1, <1>1 DEF Files
  <2> QED
    BY <2>2, <1>1 DEF Files
<1>4. Fine(g)
  <2> HIDE DEF flag
  <2> QED
    BY <1>1, <1>2, HiddenFine
<1>5. Update(look, g)
  BY <1>3 DEF Edit
<1> HIDE DEF g
<1> QED
  BY <1>4, <1>5, UpdateKeeps

(* A forgotten PDU's boards are unlinked with it.                          *)
LEMMA ForgetKeeps ==
    ASSUME Inv, NEW look, FineLook(look), NEW b \in Boards, Forget(look, b)
    PROVE  Inv'
<1> DEFINE f == look.before
           g == [c \in Boards |-> IF c = b THEN Out ELSE Unlinked(f, c, b)]
<1>1. Fine(f) /\ f \in Files /\ ZoneHeld(f)
  BY DEF FineLook, Fine
<1>2. Update(look, g)
  BY DEF Forget, Edit
<1> HIDE DEF f
<1>3. g[b] = Out /\ Out \in Entries /\ ~Out.in
  BY DEF Out, Entries
<1>4. ASSUME NEW c \in Boards \ {b}
      PROVE  /\ g[c] \in Entries /\ g[c].in = f[c].in
             /\ f[c].in => Stored(g, c) = IF Stored(f, c) = b THEN NoZone ELSE Stored(f, c)
  <2>1. f[c] \in Entries /\ AsStored(c, NoZone) \in Zones \cup {"default"} /\ NoZone \in Zones
    BY <1>1, FileAt, NoZoneIsOne, AsStoredTyped
  <2>2. CASE f[c].in /\ Stored(f, c) = b
    <3>1. g[c] = [f[c] EXCEPT !.zone = AsStored(c, NoZone)]
      BY <2>2 DEF Unlinked
    <3> HIDE DEF g
    <3>2. g[c] \in Entries /\ g[c].in = f[c].in /\ g[c].zone = AsStored(c, NoZone)
      BY <2>1, <3>1 DEF Entries
    <3>3. Stored(g, c) = NoZone
      BY <2>1, <3>2, StoredAsSet
    <3> QED
      BY <2>2, <3>2, <3>3
  <2>3. CASE ~(f[c].in /\ Stored(f, c) = b)
    <3>1. g[c] = f[c]
      BY <2>3 DEF Unlinked
    <3> QED
      BY <2>1, <2>3, <3>1 DEF Stored
  <2> QED
    BY <2>2, <2>3
<1>5. g \in Files
  <2>1. \A c \in Boards : g[c] \in Entries
    BY <1>3, <1>4
  <2> QED
    BY <2>1 DEF Files
<1> HIDE DEF g
<1>6. ZoneHeld(g)
  <2> SUFFICES ASSUME NEW c \in Cockpit(g) \ Pdus
               PROVE  Stored(g, c) \in Feeders(g) \cup {NoZone}
    BY DEF ZoneHeld
  <2>1. c # b /\ c \in Cockpit(f) \ Pdus
    BY <1>3, <1>4 DEF Cockpit
  <2>2. Stored(f, c) \in Feeders(f) \cup {NoZone}
    BY <1>1, <2>1 DEF ZoneHeld
  <2>3. Feeders(f) \ {b} \subseteq Feeders(g)
    BY <1>4 DEF Feeders, Cockpit
  <2>4. f[c].in
    BY <2>1 DEF Cockpit
  <2> QED
    BY <1>4, <2>1, <2>2, <2>3, <2>4 DEF Cockpit
<1> QED
  BY <1>2, <1>5, <1>6, UpdateKeeps DEF Fine

(* The registry's zone, or none.                                           *)
LEMMA KeptOnResetFine ==
    ASSUME NEW f, Fine(f), NEW b \in Boards
    PROVE  LET kept == KeptOnReset(f, b)
           IN  /\ kept \in Entries /\ kept.in = f[b].in
               /\ \A g : g[b] = kept /\ b \in Cockpit(f) \ Pdus =>
                    Stored(g, b) \in {NoZone} \cup ({Home[b]} \cap Feeders(f))
<1>1. f \in Files /\ ZoneHeld(f) /\ f[b] \in Entries
  BY FileAt DEF Fine
<1>2. NoZone \in Zones /\ AsStored(b, NoZone) \in Zones \cup {"default"}
  BY NoZoneIsOne, AsStoredTyped
<1> DEFINE kept == KeptOnReset(f, b)
<1>3. CASE f[b].zone # "default" /\ Home[b] \notin Feeders(f)
  <2>1. kept = [f[b] EXCEPT !.zone = AsStored(b, NoZone)]
    BY <1>3, <1>1 DEF KeptOnReset, Entries
  <2> HIDE DEF kept
  <2>2. kept \in Entries /\ kept.in = f[b].in /\ kept.zone = AsStored(b, NoZone)
    BY <1>1, <1>2, <2>1 DEF Entries
  <2>3. ASSUME NEW g, g[b] = kept
        PROVE  Stored(g, b) = NoZone
    <3>1. g[b].zone = AsStored(b, NoZone)
      BY <2>2, <2>3
    <3> QED
      BY <1>2, <3>1, StoredAsSet
  <2> QED
    BY <2>2, <2>3 DEF kept
<1>4. CASE ~(f[b].zone # "default" /\ Home[b] \notin Feeders(f))
  <2>1. kept = [f[b] EXCEPT !.zone = "default"]
    BY <1>4, <1>1 DEF KeptOnReset, Entries
  <2> HIDE DEF kept
  <2>2. kept \in Entries /\ kept.in = f[b].in /\ kept.zone = "default"
    BY <1>1, <2>1 DEF Entries
  <2>3. ASSUME NEW g, g[b] = kept, b \in Cockpit(f) \ Pdus
        PROVE  Stored(g, b) \in {NoZone} \cup ({Home[b]} \cap Feeders(f))
    <3>1. Stored(g, b) = Home[b]
      BY <2>2, <2>3 DEF Stored
    <3>2. CASE f[b].zone = "default"
      <4>1. Stored(f, b) = Home[b]
        BY <3>2 DEF Stored
      <4> QED
        BY <1>1, <2>3, <3>1, <4>1 DEF ZoneHeld
    <3>3. CASE f[b].zone # "default"
      BY <1>4, <3>1, <3>3
    <3> QED
      BY <3>2, <3>3
  <2> QED
    BY <2>2, <2>3 DEF kept
<1> QED
  BY <1>3, <1>4

LEMMA ResetBoardKeeps ==
    ASSUME Inv, NEW look, FineLook(look), NEW b \in Boards, ResetBoard(look, b)
    PROVE  Inv'
<1> DEFINE f == look.before
           g == [f EXCEPT ![b] = KeptOnReset(f, b)]
<1>1. Fine(f) /\ f \in Files /\ ZoneHeld(f)
  BY DEF FineLook, Fine
<1>2. Update(look, g)
  BY DEF ResetBoard, Edit
<1> HIDE DEF f
<1>3. g[b] = KeptOnReset(f, b) /\ \A c \in Boards \ {b} : g[c] = f[c]
  BY <1>1 DEF Files
<1>4. g[b] \in Entries /\ g[b].in = f[b].in
  BY <1>1, <1>3, KeptOnResetFine
<1>5. g \in Files
  BY <1>1, <1>3, <1>4 DEF Files
<1> HIDE DEF g
<1>6. Cockpit(g) = Cockpit(f) /\ Feeders(g) = Feeders(f)
  BY <1>3, <1>4 DEF Cockpit, Feeders
<1>7. ASSUME NEW c \in Cockpit(g) \ Pdus
      PROVE  Stored(g, c) \in Feeders(g) \cup {NoZone}
  <2>1. CASE c = b
    BY <2>1, <1>1, <1>3, <1>6, <1>7, KeptOnResetFine
  <2>2. CASE c # b
    <3>1. c \in Boards \ {b} /\ c \in Cockpit(f) \ Pdus
      BY <2>2, <1>6, <1>7 DEF Cockpit
    <3>2. Stored(g, c) = Stored(f, c)
      BY <3>1, <1>3 DEF Stored
    <3> QED
      BY <3>1, <3>2, <1>1, <1>6 DEF ZoneHeld
  <2> QED
    BY <2>1, <2>2
<1> QED
  BY <1>2, <1>5, <1>7, UpdateKeeps DEF Fine, ZoneHeld

(* The boards NODE_IDS.md does not name go or stay; no zone it gives is    *)
(* one of theirs.                                                          *)
LEMMA ResetAllKeeps ==
    ASSUME Inv, NEW look, FineLook(look), NEW forget \in BOOLEAN, ResetAll(look, forget)
    PROVE  Inv'
<1> DEFINE f == look.before
           g == [b \in Boards |-> IF b \in Registry THEN KeptOnReset(f, b)
                                  ELSE IF forget THEN Out ELSE f[b]]
<1>1. Fine(f) /\ f \in Files /\ ZoneHeld(f)
  BY DEF FineLook, Fine
<1>2. Update(look, g)
  BY DEF ResetAll, Edit
<1> HIDE DEF f
<1>3. Out \in Entries /\ ~Out.in
  BY DEF Out, Entries
<1>4. \A b \in Boards \cap Registry : /\ g[b] = KeptOnReset(f, b)
                                      /\ g[b] \in Entries /\ g[b].in = f[b].in
  <2> TAKE b \in Boards \cap Registry
  <2>1. g[b] = KeptOnReset(f, b)
    OBVIOUS
  <2> HIDE DEF g
  <2> QED
    BY <2>1, <1>1, KeptOnResetFine
<1>5. \A b \in Boards \ Registry : g[b] = IF forget THEN Out ELSE f[b]
  OBVIOUS
<1>6. g \in Files
  <2>1. \A b \in Boards : g[b] \in Entries
    BY <1>1, <1>3, <1>4, <1>5, FileAt
  <2> QED
    BY <2>1 DEF Files
<1> HIDE DEF g
<1>7. Cockpit(g) \subseteq Cockpit(f) /\ Feeders(g) \subseteq Feeders(f)
  BY <1>3, <1>4, <1>5 DEF Cockpit, Feeders
<1>8. Feeders(f) \cap Registry \subseteq Feeders(g) /\ (~forget => Feeders(f) = Feeders(g))
  BY <1>4, <1>5, <1>7 DEF Cockpit, Feeders
<1>9. ASSUME NEW c \in Cockpit(g) \ Pdus
      PROVE  Stored(g, c) \in Feeders(g) \cup {NoZone}
  <2>0. c \in Boards /\ c \in Cockpit(f) \ Pdus /\ g[c].in
    BY <1>7, <1>9 DEF Cockpit
  <2>1. CASE c \in Registry
    <3>1. Stored(g, c) \in {NoZone} \cup ({Home[c]} \cap Feeders(f))
      BY <2>0, <2>1, <1>1, <1>4, KeptOnResetFine
    <3>2. Home[c] \in Registry \cup {NoZone}
      BY <2>0, BoardsAssumption DEF BoardsAssumption
    <3> QED
      BY <3>1, <3>2, <1>8
  <2>2. CASE c \notin Registry
    <3>1. g[c] = f[c] /\ ~forget
      BY <2>0, <2>2, <1>3, <1>5
    <3>2. Stored(g, c) = Stored(f, c)
      BY <3>1 DEF Stored
    <3> QED
      BY <3>1, <3>2, <2>0, <1>1, <1>8 DEF ZoneHeld
  <2> QED
    BY <2>1, <2>2
<1> QED
  BY <1>2, <1>6, <1>9, UpdateKeeps DEF Fine, ZoneHeld

(* An imported panel has a PDU of the imported cockpit or none.            *)
LEMMA UnlinkedOutsideFine ==
    ASSUME NEW f \in Files
    PROVE  Fine(UnlinkedOutside(f))
<1> DEFINE g == UnlinkedOutside(f)
<1>1. ASSUME NEW b \in Boards
      PROVE  /\ g[b] \in Entries /\ g[b].in = f[b].in
             /\ f[b].in /\ b \notin Pdus => Stored(g, b) \in Feeders(f) \cup {NoZone}
  <2>1. f[b] \in Entries /\ AsStored(b, NoZone) \in Zones \cup {"default"} /\ NoZone \in Zones
    BY FileAt, NoZoneIsOne, AsStoredTyped
  <2>2. CASE f[b].in /\ b \notin Pdus /\ Stored(f, b) \notin Feeders(f) \cup {NoZone}
    <3>1. g[b] = [f[b] EXCEPT !.zone = AsStored(b, NoZone)]
      BY <2>2 DEF UnlinkedOutside
    <3> HIDE DEF g
    <3>2. g[b] \in Entries /\ g[b].in = f[b].in /\ g[b].zone = AsStored(b, NoZone)
      BY <2>1, <3>1 DEF Entries
    <3>3. Stored(g, b) = NoZone
      BY <2>1, <3>2, StoredAsSet
    <3> QED
      BY <3>2, <3>3
  <2>3. CASE ~(f[b].in /\ b \notin Pdus /\ Stored(f, b) \notin Feeders(f) \cup {NoZone})
    <3>1. g[b] = f[b]
      BY <2>3 DEF UnlinkedOutside
    <3> HIDE DEF g
    <3>2. Stored(g, b) = Stored(f, b)
      BY <3>1 DEF Stored
    <3> QED
      BY <2>1, <2>3, <3>1, <3>2
  <2> QED
    BY <2>2, <2>3
<1>2. g \in Files
  <2>1. g = [b \in Boards |-> g[b]]
    BY DEF UnlinkedOutside
  <2> HIDE DEF g
  <2> QED
    BY <2>1, <1>1 DEF Files
<1> HIDE DEF g
<1>3. Cockpit(g) = Cockpit(f) /\ Feeders(g) = Feeders(f)
  BY <1>1 DEF Cockpit, Feeders
<1>4. ZoneHeld(g)
  BY <1>1, <1>3 DEF ZoneHeld, Cockpit
<1> QED
  BY <1>2, <1>4 DEF Fine, g

LEMMA ImportKeeps ==
    ASSUME Inv, NEW look, FineLook(look), NEW file \in Imports, Import(look, file)
    PROVE  Inv'
<1>1. file \in Files
  <2>1. "default" \in Zones \cup {"default"} /\ Pdus \subseteq Zones /\ Out \in Entries
    BY DEF Zones, Out, Entries
  <2>2. PICK members \in SUBSET Boards, zone \in (Pdus \ Registry) \cup {"default"} :
          file = [b \in Boards |-> IF b \notin members THEN Out
                       ELSE [in |-> TRUE, hidden |-> TRUE,
                             zone |-> IF b \in Pdus THEN "default" ELSE zone]]
    BY DEF Imports
  <2>3. \A b \in Boards : [in |-> TRUE, hidden |-> TRUE,
                           zone |-> IF b \in Pdus THEN "default" ELSE zone] \in Entries
    BY <2>1 DEF Entries
  <2> QED
    BY <2>1, <2>2, <2>3 DEF Files
<1>2. Staged(file) \in Files
  <2>1. \A b \in Boards : [file[b] EXCEPT !.hidden = @ /\ file[b].in /\ row[b] # "present"] \in Entries
    <3> TAKE b \in Boards
    <3>1. file[b] \in Entries
      BY <1>1, FileAt
    <3> QED
      BY <3>1 DEF Entries
  <2> QED
    BY <2>1 DEF Staged, Files
<1>3. Fine(UnlinkedOutside(Staged(file)))
  BY <1>2, UnlinkedOutsideFine
<1>4. Update(look, UnlinkedOutside(Staged(file)))
  BY DEF Import, Edit
<1> QED
  BY <1>3, <1>4, UpdateKeeps

---------------------------------------------------------------------------
LEMMA ShownAlready ==
    ASSUME NEW entry \in Entries, entry.hidden = FALSE
    PROVE  [entry EXCEPT !.hidden = FALSE] = entry
  BY DEF Entries

(* What main changes on its own shows boards, and moves none.              *)
LEMMA TickKeeps ==
    ASSUME Inv, "flicker" \notin Odds, Tick
    PROVE  Inv'
<1>1. CASE UNCHANGED storeVars
  BY <1>1 DEF Inv, storeVars, Fine, SamePlaces, ZoneHeld, Feeders, Cockpit, Stored, PlaceOf
<1>2. CASE \E look \in Looks : Persist(look, ClearReported(look.before, OnBus \ was),
                                       (OnBus \ was) \cup (was \ OnBus))
  <2>1. PICK look \in Looks : Persist(look, ClearReported(look.before, OnBus \ was),
                                      (OnBus \ was) \cup (was \ OnBus))
    BY <1>2
  <2>2. FineLook(look)
    BY LookIsFine
  <2> DEFINE f == look.before
             flag == [b \in Boards |-> IF b \in OnBus \ was THEN FALSE ELSE f[b].hidden]
             g == [b \in Boards |-> [f[b] EXCEPT !.hidden = flag[b]]]
  <2>3. Fine(f) /\ f \in Files
    BY <2>2 DEF FineLook, Fine
  <2>4. flag \in [Boards -> BOOLEAN]
    BY <2>3, FileAt
  <2>5. ClearReported(f, OnBus \ was) = g
    <3>1. \A b \in Boards : [f[b] EXCEPT !.hidden = f[b].hidden] = f[b]
      <4> TAKE b \in Boards
      <4>1. f[b] \in Entries
        BY <2>3, FileAt
      <4> QED
        BY <4>1 DEF Entries
    <3> QED
      BY <3>1 DEF ClearReported
  <2>6. Fine(g) /\ SamePlaces(g, f)
    <3> HIDE DEF flag, f
    <3> QED
      BY <2>3, <2>4, HiddenFine
  <2>7. look.load # "ok" => g = Empty
    <3>1. ASSUME f = Empty PROVE g = Empty
      <4>1. \A b \in Boards : f[b] = Out
        BY <3>1 DEF Empty
      <4>2. Out \in Entries /\ Out.hidden = FALSE
        BY DEF Out, Entries
      <4>3. \A b \in Boards : flag[b] = FALSE
        <5> HIDE DEF f
        <5> QED
          BY <4>1, <4>2
      <4> HIDE DEF flag, f
      <4>4. \A b \in Boards : g[b] = Out
        BY <4>1, <4>2, <4>3, ShownAlready
      <4> QED
        BY <4>4 DEF Empty
    <3> QED
      BY <2>2, <3>1 DEF FineLook
  <2>8. Persist(look, g, (OnBus \ was) \cup (was \ OnBus))
    BY <2>1, <2>5
  <2> HIDE DEF g
  <2> QED
    BY <2>2, <2>6, <2>7, <2>8, PersistKeeps
<1> QED
  BY <1>1, <1>2 DEF Tick

LEMMA LinkClosesKeeps ==
    ASSUME Inv, "flicker" \notin Odds, LinkCloses
    PROVE  Inv'
<1>1. CASE UNCHANGED storeVars
  BY <1>1 DEF Inv, storeVars, Fine, SamePlaces, ZoneHeld, Feeders, Cockpit, Stored, PlaceOf
<1>2. CASE \E look \in Looks : Persist(look, look.before, was)
  <2>1. PICK look \in Looks : Persist(look, look.before, was)
    BY <1>2
  <2>2. FineLook(look)
    BY LookIsFine
  <2>3. /\ Fine(look.before) /\ SamePlaces(look.before, look.before)
        /\ look.load # "ok" => look.before = Empty
    BY <2>2 DEF FineLook, SamePlaces
  <2> QED
    BY <2>1, <2>2, <2>3, PersistKeeps
<1> QED
  BY <1>1, <1>2 DEF LinkCloses

LEMMA PeopleKeep ==
    ASSUME Inv, "flicker" \notin Odds, People
    PROVE  Inv'
<1>1. PICK look \in Looks :
        \/ \E b \in Boards :
             \/ \E zone \in Zones : Adopt(look, b, zone) \/ SetZone(look, b, zone)
             \/ Hide(look, b) \/ Unhide(look, b) \/ Forget(look, b) \/ ResetBoard(look, b)
        \/ \E forget \in BOOLEAN : ResetAll(look, forget)
        \/ \E file \in Imports : Import(look, file)
  BY DEF People
<1>2. FineLook(look)
  BY LookIsFine
<1>3. ASSUME NEW b \in Boards, NEW zone \in Zones, Adopt(look, b, zone) \/ SetZone(look, b, zone)
      PROVE  Inv'
  BY <1>2, <1>3, AdoptKeeps, SetZoneKeeps
<1>4. ASSUME NEW b \in Boards, Hide(look, b) \/ Unhide(look, b)
      PROVE  Inv'
  <2>1. \E to \in BOOLEAN : Edit(look, [look.before EXCEPT ![b].hidden = to])
    BY <1>4 DEF Hide, Unhide
  <2> QED
    BY <1>2, <2>1, HideKeeps
<1>5. ASSUME NEW b \in Boards, Forget(look, b) \/ ResetBoard(look, b)
      PROVE  Inv'
  BY <1>2, <1>5, ForgetKeeps, ResetBoardKeeps
<1>6. ASSUME NEW forget \in BOOLEAN, ResetAll(look, forget)
      PROVE  Inv'
  BY <1>2, <1>6, ResetAllKeeps
<1>7. ASSUME NEW file \in Imports, Import(look, file)
      PROVE  Inv'
  BY <1>2, <1>7, ImportKeeps
<1> QED
  BY <1>1, <1>3, <1>4, <1>5, <1>6, <1>7

LEMMA Started ==
    ASSUME Init
    PROVE  Inv
<1>1. disk = Empty /\ mem = Empty /\ load = "none" /\ told = [b \in Boards |-> "out"]
  BY DEF Init
<1>2. \A b \in Boards : PlaceOf(Empty[b]) = "out"
  BY DEF Empty, Out, PlaceOf
<1> QED
  BY <1>1, <1>2, EmptyIsFine DEF Inv

LEMMA StepKeeps ==
    ASSUME Inv, "flicker" \notin Odds, [Next]_vars
    PROVE  Inv'
<1>1. CASE UNCHANGED storeVars
  BY <1>1 DEF Inv, storeVars, Fine, SamePlaces, ZoneHeld, Feeders, Cockpit, Stored, PlaceOf
<1>2. CASE People
  BY <1>2, PeopleKeep
<1>3. CASE Bus
  <2>1. CASE Tick
    BY <2>1, TickKeeps
  <2>2. CASE LinkCloses
    BY <2>2, LinkClosesKeeps
  <2>3. CASE \/ \E b \in Boards : \/ Page(b) \/ PageStale(b)
                                  \/ \E r \in {"absent", "present"} : Row(b, r)
             \/ \E missing \in SUBSET Boards : RosterEnds(missing)
             \/ LinkOpens
    BY <2>3, <1>1 DEF Page, PageStale, Row, RosterEnds, LinkOpens
  <2> QED
    BY <1>3, <2>1, <2>2, <2>3 DEF Bus
<1>4. CASE LookAgain
  <2>1. PICK look \in Looks : Keeps(look)
    BY <1>4 DEF LookAgain
  <2> QED
    BY <1>4, <2>1, LookIsFine, KeepsInv DEF LookAgain
<1>5. CASE Restart
  <2>1. load' = "none" /\ mem' = Empty /\ disk' = disk /\ told' = told
    BY <1>5 DEF Restart
  <2>2. Fine(disk)' /\ Fine(mem)'
    BY <2>1, EmptyIsFine DEF Inv, Fine, ZoneHeld, Feeders, Cockpit, Stored, Empty
  <2> QED
    BY <2>1, <2>2 DEF Inv, PlaceOf, Empty
<1>6. CASE UNCHANGED vars
  BY <1>1, <1>6 DEF vars
<1> QED
  BY <1>2, <1>3, <1>4, <1>5, <1>6 DEF Next

LEMMA InvAlways ==
    ASSUME "flicker" \notin Odds
    PROVE  Spec => []Inv
<1>1. Init => Inv
  BY Started
<1>2. Inv /\ [Next]_vars => Inv'
  BY StepKeeps
<1> QED
  BY <1>1, <1>2, PTL DEF Spec

(* A file that is there to be loaded or not, but does not change its mind  *)
(* within a change, always says what people were told: what was added,     *)
(* zoned, forgotten or imported outlives failed loads, refused saves, what *)
(* main writes on its own, and restarts.                                   *)
THEOREM AnswersAreKept ==
    ASSUME "flicker" \notin Odds
    PROVE  Spec => []AnswersKept
<1>1. Inv => AnswersKept
  BY DEF Inv, AnswersKept
<1> QED
  BY <1>1, InvAlways, PTL

(* Every panel's power zone is none or a PDU in the cockpit, after every   *)
(* sequence of changes, resets and imports.                                *)
THEOREM ZonesStayInside ==
    ASSUME "flicker" \notin Odds
    PROVE  Spec => []ZonesHold
<1>1. Inv => ZonesHold
  BY DEF Inv, Fine, ZonesHold
<1> QED
  BY <1>1, InvAlways, PTL

---------------------------------------------------------------------------
(***************************************************************************)
(* A board on the bus always shows                                         *)
(*                                                                         *)
(* What the last tick saw is not hidden in the mapping held, from one tick *)
(* to the next; and while no tick is due, what it saw is what is online.   *)
(* The odds would each break the first: a file that comes late, or in the  *)
(* middle of a change, hides a board seen before it; so do Hide in the     *)
(* window before a tick, and an import over a board known by pages alone.  *)
(***************************************************************************)
Shows(file) == \A b \in was : ~file[b].hidden

ShowInv ==
    /\ was \subseteq Boards
    /\ load = "ok" => Shows(mem)
    /\ up /\ ~dirty => was = OnBus

NoOdds == {"flicker", "late", "window", "pages"} \cap Odds = {}

(* A file that is used hides no board that was seen before it was read.    *)
LEMMA LookShows ==
    ASSUME NoOdds, Inv, ShowInv, NEW look \in Looks
    PROVE  FineLook(look) /\ (look.load = "ok" => Shows(look.before))
<1>1. FineLook(look)
  BY LookIsFine DEF NoOdds
<1>2. CASE load = "ok"
  BY <1>1, <1>2 DEF ShowInv, Looks, Look
<1>3. CASE load # "ok"
  <2>1. \/ look = Look(StandIn, StandIn, "retry")
        \/ look = Look(disk, disk, "ok") /\ \A b \in was : ~disk[b].hidden
    BY <1>3 DEF Looks, Loads, NoOdds
  <2> QED
    BY <1>1, <2>1 DEF Look, Shows
<1> QED
  BY <1>1, <1>2, <1>3

(* A change that leaves what was seen shown.                               *)
LEMMA EditShows ==
    ASSUME ShowInv, NEW look, NEW next, Edit(look, next),
           look.load = "ok" => Shows(next)
    PROVE  ShowInv'
<1>1. look.load = "ok" /\ mem' = next
  BY DEF Edit, Update, Writes, Writable
<1>2. UNCHANGED <<up, row, pages, was, dirty>>
  BY DEF Edit, busVars
<1> QED
  BY <1>1, <1>2 DEF ShowInv, Shows, OnBus, Online

(* A change that says only where a board is.                               *)
LEMMA RezonedShown ==
    ASSUME NEW file \in Files, NEW b \in Boards, NEW z
    PROVE  [file[b] EXCEPT !.zone = z].hidden = file[b].hidden
<1>1. file[b] \in Entries
  BY FileAt
<1> QED
  BY <1>1 DEF Entries

LEMMA ChangesShow ==
    ASSUME NoOdds, ShowInv, NEW look, FineLook(look), NEW b \in Boards,
           look.load = "ok" => Shows(look.before),
           \/ \E zone \in Zones : Adopt(look, b, zone) \/ SetZone(look, b, zone)
           \/ Hide(look, b) \/ Unhide(look, b) \/ Forget(look, b) \/ ResetBoard(look, b)
    PROVE  ShowInv'
<1> DEFINE f == look.before
<1>1. f \in Files /\ f[b] \in Entries /\ was \subseteq Boards
  BY FileAt DEF FineLook, Fine, ShowInv
<1>2. ASSUME NEW entry, Edit(look, [f EXCEPT ![b] = entry]), b \in was /\ entry.hidden => f[b].hidden
      PROVE  ShowInv'
  <2>1. look.load = "ok" => Shows([f EXCEPT ![b] = entry])
    BY <1>1, <1>2 DEF Shows, Files
  <2> QED
    BY <1>2, <2>1, EditShows
<1>3. ASSUME NEW zone \in Zones, Adopt(look, b, zone)
      PROVE  ShowInv'
  <2> DEFINE entry == [in |-> TRUE, hidden |-> f[b].hidden /\ b \in Registry,
                       zone |-> AsStored(b, zone)]
  <2>1. Edit(look, [f EXCEPT ![b] = entry])
    BY <1>1, <1>3 DEF Adopt, Files
  <2>2. entry.hidden => f[b].hidden
    OBVIOUS
  <2> HIDE DEF entry
  <2> QED
    BY <2>1, <2>2, <1>2
<1>4. ASSUME NEW zone \in Zones, SetZone(look, b, zone)
      PROVE  ShowInv'
  <2>1. Edit(look, [f EXCEPT ![b] = [f[b] EXCEPT !.zone = AsStored(b, zone)]])
    BY <1>1, <1>4 DEF SetZone, Files
  <2> QED
    BY <2>1, <1>1, <1>2, RezonedShown
<1>5. CASE Hide(look, b)
  <2>1. Edit(look, [f EXCEPT ![b] = [f[b] EXCEPT !.hidden = TRUE]]) /\ b \notin was
    BY <1>1, <1>5 DEF Hide, Files, Ticked, NoOdds
  <2> QED
    BY <2>1, <1>2
<1>6. CASE Unhide(look, b)
  <2>1. Edit(look, [f EXCEPT ![b] = [f[b] EXCEPT !.hidden = FALSE]])
    BY <1>1, <1>6 DEF Unhide, Files
  <2>2. ~[f[b] EXCEPT !.hidden = FALSE].hidden
    BY <1>1 DEF Entries
  <2> QED
    BY <2>1, <2>2, <1>2
<1>7. CASE Forget(look, b)
  <2> DEFINE g == [c \in Boards |-> IF c = b THEN Out ELSE Unlinked(f, c, b)]
  <2>1. \A c \in Boards : g[c].hidden => f[c].hidden
    <3> SUFFICES ASSUME NEW c \in Boards PROVE g[c].hidden => f[c].hidden
      OBVIOUS
    <3>1. ~Out.hidden
      BY DEF Out
    <3>2. Unlinked(f, c, b).hidden = f[c].hidden
      BY <1>1, RezonedShown DEF Unlinked
    <3> QED
      BY <3>1, <3>2
  <2>2. Edit(look, g)
    BY <1>7 DEF Forget
  <2> HIDE DEF g
  <2>3. look.load = "ok" => Shows(g)
    BY <2>1, <1>1 DEF Shows
  <2> QED
    BY <2>2, <2>3, EditShows
<1>8. CASE ResetBoard(look, b)
  <2>1. Edit(look, [f EXCEPT ![b] = KeptOnReset(f, b)])
    BY <1>8 DEF ResetBoard
  <2>2. KeptOnReset(f, b).hidden = f[b].hidden
    BY <1>1 DEF KeptOnReset, Entries
  <2> QED
    BY <2>1, <2>2, <1>2
<1> QED
  BY <1>3, <1>4, <1>5, <1>6, <1>7, <1>8

LEMMA ResetAllShows ==
    ASSUME ShowInv, NEW look, FineLook(look), NEW forget \in BOOLEAN,
           look.load = "ok" => Shows(look.before), ResetAll(look, forget)
    PROVE  ShowInv'
<1> DEFINE f == look.before
           g == [b \in Boards |-> IF b \in Registry THEN KeptOnReset(f, b)
                                  ELSE IF forget THEN Out ELSE f[b]]
<1>1. f \in Files /\ was \subseteq Boards
  BY DEF FineLook, Fine, ShowInv
<1>2. \A b \in Boards : g[b].hidden => f[b].hidden
  <2> SUFFICES ASSUME NEW b \in Boards PROVE g[b].hidden => f[b].hidden
    OBVIOUS
  <2>1. f[b] \in Entries
    BY <1>1, FileAt
  <2>2. KeptOnReset(f, b).hidden = f[b].hidden
    BY <2>1 DEF KeptOnReset, Entries
  <2>3. ~Out.hidden
    BY DEF Out
  <2> QED
    BY <2>2, <2>3
<1>3. Edit(look, g)
  BY DEF ResetAll
<1> HIDE DEF g
<1>4. look.load = "ok" => Shows(g)
  BY <1>1, <1>2 DEF Shows
<1> QED
  BY <1>3, <1>4, EditShows

(* An import hides what is offline, and what no tick has seen since.       *)
LEMMA ImportShows ==
    ASSUME NoOdds, ShowInv, NEW look, NEW file, Import(look, file)
    PROVE  ShowInv'
<1> DEFINE f == Staged(file)
<1>1. \A b \in was : b \in Boards /\ ~f[b].hidden
  BY DEF Import, Ticked, NoOdds, ShowInv
<1>2. \A b \in Boards : UnlinkedOutside(f)[b].hidden = f[b].hidden
  <2> TAKE b \in Boards
  <2> DEFINE e == [file[b] EXCEPT !.hidden = @ /\ file[b].in /\ row[b] # "present"]
  <2>1. f[b] = e
    BY DEF Staged
  <2>2. [e EXCEPT !.zone = AsStored(b, NoZone)].hidden = e.hidden
    OBVIOUS
  <2> HIDE DEF e
  <2>3. UnlinkedOutside(f)[b] \in {f[b], [f[b] EXCEPT !.zone = AsStored(b, NoZone)]}
    BY DEF UnlinkedOutside
  <2> QED
    BY <2>1, <2>2, <2>3
<1> HIDE DEF f
<1>3. Shows(UnlinkedOutside(f))
  BY <1>1, <1>2 DEF Shows
<1>4. Edit(look, UnlinkedOutside(f))
  BY DEF Import, f
<1> QED
  BY <1>3, <1>4, EditShows

(* The tick shows what came, and what stayed was shown.                    *)
LEMMA TickShows ==
    ASSUME NoOdds, Inv, ShowInv, Tick
    PROVE  ShowInv'
<1>1. was' = OnBus /\ OnBus' = OnBus /\ OnBus \subseteq Boards
  BY DEF Tick, busVars, OnBus, Online
<1>2. load' = "ok" => \A b \in OnBus : ~mem'[b].hidden
  <2>1. CASE OnBus = was
    BY <2>1 DEF Tick, storeVars, ShowInv, Shows
  <2>2. CASE OnBus # was
    <3>1. PICK look \in Looks : Persist(look, ClearReported(look.before, OnBus \ was),
                                        (OnBus \ was) \cup (was \ OnBus))
      BY <2>2 DEF Tick
    <3>2. FineLook(look) /\ (look.load = "ok" => Shows(look.before))
      BY LookShows
    <3> DEFINE f == look.before
               g == ClearReported(f, OnBus \ was)
    <3>3. f \in Files
      BY <3>2 DEF FineLook, Fine
    <3>4. ASSUME NEW b \in OnBus, look.load = "ok"
          PROVE  ~g[b].hidden
      <4>1. f[b] \in Entries /\ b \in Boards
        BY <3>3, FileAt DEF OnBus
      <4>2. CASE b \in was
        BY <3>2, <3>4, <4>1, <4>2 DEF ClearReported, Shows
      <4>3. CASE b \notin was
        BY <3>4, <4>1, <4>3 DEF ClearReported, Entries
      <4> QED
        BY <4>2, <4>3
    <3>5. mem' = g /\ load' = look.load
      BY <3>1, <3>2 DEF Persist, Keeps, Writes, FineLook
    <3> QED
      BY <3>4, <3>5
  <2> QED
    BY <2>1, <2>2
<1> QED
  BY <1>1, <1>2 DEF ShowInv, Shows

LEMMA StepShows ==
    ASSUME NoOdds, Inv, ShowInv, [Next]_vars
    PROVE  ShowInv'
<1>1. CASE People
  <2>1. PICK look \in Looks :
          \/ \E b \in Boards :
               \/ \E zone \in Zones : Adopt(look, b, zone) \/ SetZone(look, b, zone)
               \/ Hide(look, b) \/ Unhide(look, b) \/ Forget(look, b) \/ ResetBoard(look, b)
          \/ \E forget \in BOOLEAN : ResetAll(look, forget)
          \/ \E file \in Imports : Import(look, file)
    BY <1>1 DEF People
  <2>2. FineLook(look) /\ (look.load = "ok" => Shows(look.before))
    BY LookShows
  <2> QED
    BY <2>1, <2>2, ChangesShow, ResetAllShows, ImportShows
<1>2. CASE Tick
  BY <1>2, TickShows
<1>3. CASE LinkCloses \/ LinkOpens \/ Restart
  BY <1>3 DEF LinkCloses, LinkOpens, Restart, NoBus, ShowInv, Shows
<1>4. CASE LookAgain
  <2>1. PICK look \in Looks : Keeps(look)
    BY <1>4 DEF LookAgain
  <2>2. /\ look.held = look.before
        /\ look.load = "ok" => Shows(look.before)
    BY LookShows DEF FineLook
  <2>3. load' = look.load /\ mem' = look.before /\ UNCHANGED <<up, row, pages, was, dirty>>
    BY <1>4, <2>1, <2>2 DEF Keeps, LookAgain, busVars
  <2> QED
    BY <2>2, <2>3 DEF ShowInv, Shows, OnBus, Online
<1>5. CASE \/ \E b \in Boards : \/ Page(b) \/ PageStale(b)
                                \/ \E r \in {"absent", "present"} : Row(b, r)
           \/ \E missing \in SUBSET Boards : RosterEnds(missing)
  <2>1. dirty' = TRUE /\ UNCHANGED <<storeVars, was>>
    BY <1>5 DEF Page, PageStale, Row, RosterEnds
  <2> QED
    BY <2>1 DEF ShowInv, Shows, storeVars
<1>6. CASE UNCHANGED vars
  BY <1>6 DEF vars, storeVars, busVars, ShowInv, Shows, OnBus, Online
<1> QED
  BY <1>1, <1>2, <1>3, <1>4, <1>5, <1>6 DEF Next, Bus

(* "A board on the bus always shows": hidden by people, by an imported     *)
(* file or by the file on disk, a board that is online is not hidden once  *)
(* the tick has run, for every set of boards; unless the file is loaded    *)
(* late, changes within a change, or people act in the window before the   *)
(* tick (the odds).                                                        *)
THEOREM BoardsOnTheBusShow ==
    ASSUME NoOdds
    PROVE  Spec => []OnlineBoardsShow
<1>1. Init => ShowInv
  BY DEF Init, ShowInv, Shows
<1>2. Inv /\ ShowInv /\ [Next]_vars => ShowInv'
  BY StepShows
<1>3. ShowInv => OnlineBoardsShow
  BY DEF ShowInv, Shows, OnlineBoardsShow, OnBus
<1>4. Spec => []Inv
  BY InvAlways DEF NoOdds
<1> QED
  BY <1>1, <1>2, <1>3, <1>4, PTL DEF Spec

-----------------------------------------------------------------------------
(***************************************************************************)
(* Whether the Gateway answers.                                            *)
(***************************************************************************)
WatchBits ==
    /\ {answeredOnce, probing, uploader, quiet, linked, due, coming, calibrating} \subseteq BOOLEAN
    /\ {usb, bridge, offers} \subseteq BOOLEAN /\ verdict \in {"none", "gateway", "cockpit"}
WatchTimes ==
    /\ since \in Never..NoAnswer /\ sinceLast \in 0..Reask
    /\ pollIn \in 0..NoAnswer /\ probe \in 0..ProbeTime /\ unanswered \in 0..LostReplies
WatchCounts ==
    misses \in 0..MaxMisses /\ troubles \in 0..MaxTroubles /\ turns \in 0..MaxTurns
Steady == steady \in 0..InTime + 1

LEMMA WatchTypesAre == WatchTypeOK <=> WatchBits /\ WatchTimes /\ WatchCounts /\ Steady
  BY DEF WatchTypeOK, WatchBits, WatchTimes, WatchCounts, Steady

LEMMA WatchNumbers ==
    /\ NoAnswer \in Nat /\ Reask \in Nat /\ ProbeTime \in Nat
    /\ 0 < Reask /\ Reask < NoAnswer /\ 0 < ProbeTime /\ ProbeTime < NoAnswer
    /\ MaxMisses \in Nat /\ MaxTroubles \in Nat /\ MaxTurns \in Nat
    /\ LostReplies \in Nat /\ 0 < LostReplies /\ InTime \in Nat /\ Never = -1
<1>1. /\ NoAnswer \in Nat /\ Reask \in Nat /\ ProbeTime \in Nat
      /\ 0 < Reask /\ Reask < NoAnswer /\ 0 < ProbeTime /\ ProbeTime < NoAnswer
      /\ MaxMisses \in Nat /\ MaxTroubles \in Nat /\ MaxTurns \in Nat
  BY WatchAssumption
<1>2. LostReplies \in Nat /\ 0 < LostReplies
  BY <1>1 DEF LostReplies
<1>3. InTime \in Nat /\ Never = -1
  BY <1>1 DEF InTime, Never
<1> QED
  BY <1>1, <1>2, <1>3

LEMMA LeastIsLess ==
    ASSUME NEW a \in Int, NEW b \in Int
    PROVE  /\ Least(a, b) \in {a, b} /\ Least(a, b) <= a /\ Least(a, b) <= b
           /\ a < b => Least(a, b) = a
  BY DEF Least

(* Enough requests have gone unanswered once the oldest is old enough.      *)
LEMMA EnoughLost ==
    ASSUME NEW u \in Nat, NoAnswer <= u * Reask PROVE LostReplies <= u
<1>1. NoAnswer \in Nat /\ Reask \in Nat /\ 0 < Reask /\ LostReplies \in Nat
  BY WatchNumbers
<1>2. LostReplies * Reask <= NoAnswer
  BY <1>1 DEF LostReplies
<1>3. LostReplies * Reask <= u * Reask
  BY <1>1, <1>2
<1> QED
  BY <1>1, <1>3

LEMMA OneMore == ASSUME NEW u \in Int PROVE (u + 1 - 1) * Reask = (u - 1) * Reask + Reask
  BY WatchNumbers

(* A request for the roster.                                                *)
LEMMA RequestTyped ==
    ASSUME WatchTimes, WatchBits, WatchCounts, NEW at \in Never..NoAnswer,
           NEW missed \in 0..LostReplies, RequestNodes(at, missed)
    PROVE  /\ since' \in Never..NoAnswer /\ sinceLast' \in 0..Reask
           /\ unanswered' \in 0..LostReplies /\ coming' \in BOOLEAN /\ misses' \in 0..MaxMisses
           /\ since' = (IF at = Never THEN 0 ELSE at) /\ sinceLast' = 0
           /\ unanswered' = Least(missed + 1, LostReplies)
           /\ 1 <= unanswered' /\ (unanswered' = LostReplies \/ unanswered' = missed + 1)
<1>1. since' = (IF at = Never THEN 0 ELSE at) /\ sinceLast' = 0
      /\ unanswered' = Least(missed + 1, LostReplies)
  BY DEF RequestNodes, Asked
<1>2. since' \in Never..NoAnswer /\ sinceLast' \in 0..Reask
  BY <1>1, WatchNumbers
<1>3. unanswered' \in 0..LostReplies /\ 1 <= unanswered'
      /\ (unanswered' = LostReplies \/ unanswered' = missed + 1)
  BY <1>1, WatchNumbers DEF Least
<1>4. coming' \in BOOLEAN
  <2>1. Answers \in BOOLEAN
    BY DEF Answers
  <2> QED
    BY <2>1 DEF RequestNodes, WatchBits
<1>5. misses' \in 0..MaxMisses
  BY WatchNumbers DEF RequestNodes, Misses, WatchCounts
<1> QED
  BY <1>1, <1>2, <1>3, <1>4, <1>5

LEMMA PollTyped == ASSUME WatchTypeOK, Poll5s PROVE WatchBits' /\ WatchTimes' /\ WatchCounts'
<1>0. WatchBits /\ WatchTimes /\ WatchCounts
  BY WatchTypesAre
<1>1. since \in Never..NoAnswer /\ unanswered \in 0..LostReplies /\ RequestNodes(since, unanswered)
  BY <1>0 DEF Poll5s, WatchTimes
<1>2. /\ since' \in Never..NoAnswer /\ sinceLast' \in 0..Reask
      /\ unanswered' \in 0..LostReplies /\ coming' \in BOOLEAN /\ misses' \in 0..MaxMisses
  BY <1>0, <1>1, RequestTyped
<1>3. pollIn' \in 0..NoAnswer /\ probe' = probe /\ troubles' = troubles /\ turns' = turns
  BY WatchNumbers DEF Poll5s
<1>4. WatchBits'
  BY <1>0, <1>2 DEF Poll5s, WatchBits, boardVars
<1> QED
  BY <1>0, <1>2, <1>3, <1>4 DEF WatchTimes, WatchCounts

(* What the tick judges and asks by: the time the oldest request has been   *)
(* unanswered for, unless the watch is paused.                              *)
TickAt == IF calibrating \/ probe > 0 \/ quiet THEN Never ELSE since
TickMissed == IF quiet \/ (calibrating /\ ~probing) THEN 0 ELSE unanswered

LEMMA TickAsks ==
    ASSUME PushTick
    PROVE  /\ linked /\ due /\ due' = FALSE /\ Judge(TickAt)
           /\ \/ ReaskDue(TickAt) /\ RequestNodes(TickAt, TickMissed)
              \/ /\ ~ReaskDue(TickAt) /\ since' = TickAt /\ unanswered' = TickMissed
                 /\ sinceLast' = sinceLast /\ coming' = coming /\ misses' = misses
           /\ UNCHANGED <<answeredOnce, uploader, quiet, linked, pollIn, calibrating, boardVars,
                          troubles, turns>>
  BY DEF PushTick, TickAt, TickMissed

LEMMA TickInputs ==
    ASSUME WatchTimes
    PROVE  TickAt \in {Never, since} /\ TickAt \in Never..NoAnswer
           /\ TickMissed \in {0, unanswered} /\ TickMissed \in 0..LostReplies
<1>1. TickAt \in {Never, since}
  BY DEF TickAt
<1>2. TickMissed \in {0, unanswered}
  BY DEF TickMissed
<1> QED
  BY <1>1, <1>2, WatchNumbers DEF WatchTimes

LEMMA JudgeTyped ==
    ASSUME WatchBits, WatchTimes, NEW at, Judge(at)
    PROVE  probing' \in BOOLEAN /\ verdict' \in {"none", "gateway", "cockpit"}
           /\ probe' \in 0..ProbeTime
<1>1. CASE Silent(at) /\ uploader /\ ~probing
  <2>1. probing' = TRUE /\ probe' = (IF probe = 0 THEN 1 ELSE probe) /\ verdict' = verdict
    BY <1>1 DEF Judge
  <2>2. probe' \in 0..ProbeTime
    BY <2>1, WatchNumbers DEF WatchTimes
  <2> QED
    BY <2>1, <2>2 DEF WatchBits
<1>2. CASE ~(Silent(at) /\ uploader /\ ~probing)
  <2>1. probing' = probing /\ probe' = probe /\ verdict' \in {"gateway", verdict}
    BY <1>2 DEF Judge
  <2> QED
    BY <2>1 DEF WatchBits, WatchTimes
<1> QED
  BY <1>1, <1>2

LEMMA TickTyped == ASSUME WatchTypeOK, PushTick PROVE WatchBits' /\ WatchTimes' /\ WatchCounts'
<1>0. WatchBits /\ WatchTimes /\ WatchCounts
  BY WatchTypesAre
<1>1. /\ since' \in Never..NoAnswer /\ sinceLast' \in 0..Reask
      /\ unanswered' \in 0..LostReplies /\ coming' \in BOOLEAN /\ misses' \in 0..MaxMisses
  <2>1. TickAt \in Never..NoAnswer /\ TickMissed \in 0..LostReplies
    BY <1>0, TickInputs
  <2>2. CASE RequestNodes(TickAt, TickMissed)
    BY <1>0, <2>1, <2>2, RequestTyped
  <2>3. CASE /\ since' = TickAt /\ unanswered' = TickMissed
             /\ sinceLast' = sinceLast /\ coming' = coming /\ misses' = misses
    BY <1>0, <2>1, <2>3 DEF WatchTimes, WatchCounts, WatchBits
  <2> QED
    BY <2>2, <2>3, TickAsks
<1>2. probing' \in BOOLEAN /\ verdict' \in {"none", "gateway", "cockpit"} /\ probe' \in 0..ProbeTime
  BY <1>0, TickAsks, JudgeTyped
<1>3. /\ due' = FALSE
      /\ UNCHANGED <<answeredOnce, uploader, quiet, linked, pollIn, calibrating, boardVars,
                     troubles, turns>>
  BY TickAsks
<1>4. WatchBits'
  BY <1>0, <1>1, <1>2, <1>3 DEF WatchBits, boardVars
<1> QED
  BY <1>0, <1>1, <1>2, <1>3, <1>4 DEF WatchTimes, WatchCounts

LEMMA ProbedTyped ==
    ASSUME WatchBits, WatchTimes, NEW usbAnswers \in BOOLEAN, Probed(usbAnswers)
    PROVE  /\ probing' = FALSE /\ verdict' \in {verdict, "cockpit", "gateway"}
           /\ verdict' \in {"none", "gateway", "cockpit"}
           /\ \/ since' = Never /\ unanswered' = 0 /\ ~answeredOnce
              \/ since' = since /\ unanswered' = unanswered
           /\ since' \in Never..NoAnswer /\ unanswered' \in 0..LostReplies
<1>1. probing' = FALSE
  BY DEF Probed
<1>2. verdict' \in {verdict, "cockpit", "gateway"}
  BY DEF Probed
<1>3. \/ since' = Never /\ unanswered' = 0 /\ ~answeredOnce
      \/ since' = since /\ unanswered' = unanswered
  BY DEF Probed
<1> QED
  BY <1>1, <1>2, <1>3, WatchNumbers DEF WatchBits, WatchTimes

LEMMA ProbeEndsTyped == ASSUME WatchTypeOK, ProbeEnds PROVE WatchBits' /\ WatchTimes' /\ WatchCounts'
<1>0. WatchBits /\ WatchTimes /\ WatchCounts
  BY WatchTypesAre
<1>1. Probed(TRUE) \/ Probed(FALSE)
  BY DEF ProbeEnds
<1>2. /\ probing' = FALSE /\ verdict' \in {"none", "gateway", "cockpit"}
      /\ since' \in Never..NoAnswer /\ unanswered' \in 0..LostReplies
  BY <1>0, <1>1, ProbedTyped
<1>3. misses' \in 0..MaxMisses
  <2>1. Misses \/ misses' = misses
    BY DEF ProbeEnds
  <2> QED
    BY <1>0, <2>1, WatchNumbers DEF Misses, WatchCounts
<1>4. /\ probe' = 0
      /\ UNCHANGED <<sinceLast, answeredOnce, uploader, quiet, linked, due, pollIn, coming, calibrating,
                   boardVars, troubles, turns>>
  BY DEF ProbeEnds
<1>5. WatchBits'
  BY <1>0, <1>2, <1>4 DEF WatchBits, boardVars
<1> QED
  BY <1>0, <1>2, <1>3, <1>4, <1>5, WatchNumbers DEF WatchTimes, WatchCounts

LEMMA LaterTyped == ASSUME WatchTypeOK, Later PROVE WatchBits' /\ WatchTimes' /\ WatchCounts'
<1>0. WatchBits /\ WatchTimes /\ WatchCounts
  BY WatchTypesAre
<1>1. WatchBits'
  BY <1>0 DEF Later, WatchBits, boardVars
<1>2. WatchCounts'
  BY <1>0 DEF Later, WatchCounts, bounds
<1>3. /\ pollIn > 0 /\ probe < ProbeTime /\ pollIn' = pollIn - 1
      /\ since' = (IF since = Never THEN Never ELSE Least(since + 1, NoAnswer))
      /\ sinceLast' = Least(sinceLast + 1, Reask)
      /\ probe' = (IF probe = 0 THEN 0 ELSE probe + 1) /\ unanswered' = unanswered
  BY DEF Later
<1>4. WatchTimes'
  BY <1>0, <1>3, WatchNumbers DEF WatchTimes, Least
<1> QED
  BY <1>1, <1>2, <1>4

LEMMA OpensTyped == ASSUME WatchTypeOK, Opens PROVE WatchBits' /\ WatchTimes' /\ WatchCounts'
<1>0. WatchBits /\ WatchTimes /\ WatchCounts
  BY WatchTypesAre
<1>1. RequestNodes(Never, 0) /\ Never \in Never..NoAnswer /\ 0 \in 0..LostReplies
  BY WatchNumbers DEF Opens
<1>2. /\ since' \in Never..NoAnswer /\ sinceLast' \in 0..Reask
      /\ unanswered' \in 0..LostReplies /\ coming' \in BOOLEAN /\ misses' \in 0..MaxMisses
  BY <1>0, <1>1, RequestTyped
<1>3. /\ linked' = TRUE /\ answeredOnce' = FALSE /\ probing' = FALSE /\ verdict' = "none"
      /\ pollIn' \in 0..NoAnswer
      /\ UNCHANGED <<uploader, quiet, due, probe, calibrating, boardVars, troubles, turns>>
  BY DEF Opens, Reset
<1>4. WatchBits'
  BY <1>0, <1>2, <1>3 DEF WatchBits, boardVars
<1> QED
  BY <1>0, <1>2, <1>3, <1>4 DEF WatchTimes, WatchCounts

LEMMA GoneTyped ==
    ASSUME WatchTypeOK, Disconnects \/ Unplugs PROVE WatchBits' /\ WatchTimes' /\ WatchCounts'
<1>0. WatchBits /\ WatchTimes /\ WatchCounts
  BY WatchTypesAre
<1>1. /\ linked' = FALSE /\ uploader' = FALSE /\ due' = FALSE /\ pollIn' = 0 /\ coming' = FALSE
      /\ probe' = 0 /\ calibrating' = FALSE /\ Turn
      /\ UNCHANGED <<sinceLast, quiet, boardVars, misses, troubles>>
  BY DEF Disconnects, Unplugs, LinkGone
<1>2. /\ probing' \in BOOLEAN /\ answeredOnce' \in BOOLEAN
      /\ verdict' \in {"none", "gateway", "cockpit"}
      /\ since' \in Never..NoAnswer /\ unanswered' \in 0..LostReplies
  <2>1. CASE Disconnects
    <3>1. probing' = FALSE /\ answeredOnce' = FALSE /\ verdict' = "none" /\ since' = Never
          /\ unanswered' = 0
      BY <2>1 DEF Disconnects, Reset
    <3>2. Never \in Never..NoAnswer /\ 0 \in 0..LostReplies
      BY WatchNumbers
    <3> QED
      BY <3>1, <3>2
  <2>2. CASE Unplugs
    <3>1. CASE probe > 0
      BY <1>0, <2>2, <3>1, ProbedTyped DEF Unplugs, WatchBits
    <3>2. CASE ~(probe > 0)
      BY <1>0, <2>2, <3>2 DEF Unplugs, WatchBits, WatchTimes
    <3> QED
      BY <3>1, <3>2
  <2> QED
    BY <2>1, <2>2
<1>3. WatchBits'
  BY <1>0, <1>1, <1>2 DEF WatchBits, boardVars
<1>4. turns' \in 0..MaxTurns
  BY <1>0, <1>1, WatchNumbers DEF Turn, WatchCounts
<1> QED
  BY <1>0, <1>1, <1>2, <1>3, <1>4, WatchNumbers DEF WatchTimes, WatchCounts

LEMMA OthersTyped ==
    ASSUME WatchTypeOK, Answered \/ Learns \/ Quiets \/ Resumes \/ Calibrates \/ Trouble
    PROVE  WatchBits' /\ WatchTimes' /\ WatchCounts'
<1>0. WatchBits /\ WatchTimes /\ WatchCounts
  BY WatchTypesAre
<1>1. CASE Answered
  <2>1. WatchBits'
    BY <1>0, <1>1 DEF Answered, WatchBits, boardVars
  <2>2. WatchTimes' /\ WatchCounts'
    BY <1>0, <1>1, WatchNumbers DEF Answered, WatchTimes, WatchCounts, bounds
  <2> QED
    BY <2>1, <2>2
<1>2. CASE Learns
  <2>1. WatchBits'
    BY <1>0, <1>2 DEF Learns, WatchBits, boardVars, wireVars
  <2>2. WatchTimes' /\ WatchCounts'
    BY <1>0, <1>2 DEF Learns, WatchTimes, WatchCounts, bounds, wireVars
  <2> QED
    BY <2>1, <2>2
<1>3. CASE Quiets
  <2>1. WatchBits'
    BY <1>0, <1>3 DEF Quiets, WatchBits, boardVars, wireVars
  <2>2. WatchTimes'
    BY <1>0, <1>3, WatchNumbers DEF Quiets, WatchTimes, wireVars
  <2>3. WatchCounts'
    BY <1>0, <1>3, WatchNumbers DEF Quiets, Turn, WatchCounts
  <2> QED
    BY <2>1, <2>2, <2>3
<1>4. CASE Resumes
  <2>1. WatchBits'
    BY <1>0, <1>4 DEF Resumes, WatchBits, boardVars, wireVars
  <2>2. WatchTimes' /\ WatchCounts'
    BY <1>0, <1>4 DEF Resumes, WatchTimes, WatchCounts, bounds, wireVars
  <2> QED
    BY <2>1, <2>2
<1>5. CASE Calibrates
  <2>1. WatchBits'
    BY <1>0, <1>5 DEF Calibrates, WatchBits, boardVars, watchVars
  <2>2. WatchTimes'
    BY <1>0, <1>5 DEF Calibrates, WatchTimes, watchVars
  <2>3. WatchCounts'
    BY <1>0, <1>5, WatchNumbers DEF Calibrates, Turn, WatchCounts
  <2> QED
    BY <2>1, <2>2, <2>3
<1>6. CASE Trouble
  <2>1. WatchBits'
    <3>1. usb' \in BOOLEAN /\ bridge' \in BOOLEAN
      BY <1>0, <1>6 DEF Trouble, WatchBits
    <3>2. coming' \in BOOLEAN
      BY <1>6 DEF Trouble
    <3> QED
      BY <1>0, <1>6, <3>1, <3>2 DEF Trouble, WatchBits, watchVars
  <2>2. WatchTimes'
    BY <1>0, <1>6 DEF Trouble, WatchTimes, watchVars
  <2>3. WatchCounts'
    BY <1>0, <1>6, WatchNumbers DEF Trouble, WatchCounts
  <2> QED
    BY <2>1, <2>2, <2>3
<1> QED
  BY <1>1, <1>2, <1>3, <1>4, <1>5, <1>6

LEMMA WatchTypesHold == WatchSpec => []WatchTypeOK
<1>1. ASSUME WatchInit PROVE WatchTypeOK
  <2>1. WatchBits
    BY <1>1 DEF WatchInit, WatchBits
  <2>2. WatchTimes /\ WatchCounts /\ Steady
    BY <1>1, WatchNumbers DEF WatchInit, WatchTimes, WatchCounts, Steady
  <2> QED
    BY <2>1, <2>2, WatchTypesAre
<1>2. ASSUME WatchTypeOK, [WatchNext]_gatewayVars PROVE WatchTypeOK'
  <2>1. CASE WatchNext
    <3>1. WatchBits' /\ WatchTimes' /\ WatchCounts'
      BY <1>2, <2>1, PollTyped, TickTyped, ProbeEndsTyped, LaterTyped, OpensTyped, GoneTyped,
         OthersTyped DEF WatchNext, Steps
    <3>2. steady' \in 0..InTime + 1
      <4>1. steady' \in {0, steady, Least(steady + 1, InTime + 1)}
        BY <2>1 DEF WatchNext
      <4>2. steady \in 0..InTime + 1
        BY <1>2, WatchTypesAre DEF Steady
      <4> QED
        BY <4>1, <4>2, WatchNumbers DEF Least
    <3> QED
      BY <3>1, <3>2 DEF WatchTypeOK, WatchBits, WatchTimes, WatchCounts
  <2>2. CASE UNCHANGED gatewayVars
    BY <1>2, <2>2 DEF WatchTypeOK, gatewayVars, watchVars, wireVars, boardVars, bounds
  <2> QED
    BY <1>2, <2>1, <2>2
<1> QED
  BY <1>1, <1>2, PTL DEF WatchSpec

(* A probe that is on runs; while the Gateway is asked, it is asked again   *)
(* in each re-ask period, so that the requests unanswered are at least as   *)
(* many as the oldest's age makes them; and a probe is begun, once it has   *)
(* answered, after a whole window of them.                                  *)
ProbeRuns == probing => probe > 0
AskedLately == linked /\ answeredOnce /\ since # Never /\ ~due => sinceLast < Reask
AskedOften ==
    linked /\ answeredOnce /\ since # Never =>
      unanswered = LostReplies \/ since <= (unanswered - 1) * Reask + sinceLast
ProbedForGood == probing /\ answeredOnce /\ ~quiet => unanswered = LostReplies

AskedInv == ProbeRuns /\ AskedLately /\ AskedOften /\ ProbedForGood

LEMMA LongSilence ==
    ASSUME WatchTypeOK, AskedInv, linked, answeredOnce, since >= NoAnswer
    PROVE  unanswered = LostReplies
<1>0. WatchTimes
  BY WatchTypesAre
<1>1. /\ NoAnswer \in Nat /\ Reask \in Nat /\ LostReplies \in Nat /\ unanswered \in Nat
      /\ unanswered <= LostReplies /\ sinceLast \in Nat /\ sinceLast <= Reask /\ since \in Int
      /\ since # Never
  BY <1>0, WatchNumbers DEF WatchTimes
<1>2. unanswered = LostReplies \/ since <= (unanswered - 1) * Reask + sinceLast
  BY <1>1 DEF AskedInv, AskedOften
<1>3. CASE since <= (unanswered - 1) * Reask + sinceLast
  <2>1. (unanswered - 1) * Reask + Reask = unanswered * Reask
    BY <1>1
  <2>2. (unanswered - 1) * Reask \in Int /\ unanswered * Reask \in Int
    BY <1>1
  <2>3. NoAnswer <= unanswered * Reask
    BY <1>1, <1>3, <2>1, <2>2
  <2>4. LostReplies <= unanswered
    BY <1>1, <2>3, EnoughLost
  <2> QED
    BY <1>1, <2>4
<1> QED
  BY <1>2, <1>3

LEMMA RequestOften ==
    ASSUME WatchTypeOK, NEW at \in Never..NoAnswer, NEW missed \in 0..LostReplies,
           RequestNodes(at, missed),
           at = Never \/ missed = LostReplies \/ at <= (missed - 1) * Reask + sinceLast
    PROVE  /\ sinceLast' < Reask
           /\ unanswered' = LostReplies \/ since' <= (unanswered' - 1) * Reask + sinceLast'
           /\ missed = LostReplies => unanswered' = LostReplies
<1>0. WatchTimes /\ WatchBits /\ WatchCounts
  BY WatchTypesAre
<1>1. /\ since' = (IF at = Never THEN 0 ELSE at) /\ sinceLast' = 0
      /\ unanswered' = Least(missed + 1, LostReplies) /\ unanswered' \in 0..LostReplies
      /\ 1 <= unanswered' /\ (unanswered' = LostReplies \/ unanswered' = missed + 1)
  BY <1>0, RequestTyped
<1>2. /\ Reask \in Nat /\ 0 < Reask /\ LostReplies \in Nat /\ missed \in Nat /\ missed <= LostReplies
      /\ sinceLast \in Nat /\ sinceLast <= Reask /\ unanswered' \in Nat
  BY <1>0, <1>1, WatchNumbers DEF WatchTimes
<1>3. missed = LostReplies => unanswered' = LostReplies
  BY <1>1, <1>2
<1>4. CASE at = Never
  <2>1. since' = 0
    BY <1>1, <1>4
  <2>2. (unanswered' - 1) * Reask \in Nat
    BY <1>1, <1>2
  <2> QED
    BY <1>1, <1>2, <1>3, <2>1, <2>2
<1>5. CASE at # Never /\ unanswered' = missed + 1 /\ at <= (missed - 1) * Reask + sinceLast
  <2>1. since' = at /\ at \in Int
    BY <1>1, <1>5, WatchNumbers
  <2>2. (unanswered' - 1) * Reask = (missed - 1) * Reask + Reask
    BY <1>2, <1>5, OneMore
  <2>3. (missed - 1) * Reask \in Int
    BY <1>2
  <2> QED
    BY <1>1, <1>2, <1>3, <1>5, <2>1, <2>2, <2>3
<1> QED
  BY <1>1, <1>2, <1>3, <1>4, <1>5

(* One lemma for each step of the watch.                                    *)
LEMMA PollAsked == ASSUME WatchTypeOK, AskedInv, Poll5s PROVE AskedInv'
<1>0. WatchTimes /\ WatchBits
  BY WatchTypesAre
<1>1. since \in Never..NoAnswer /\ unanswered \in 0..LostReplies /\ RequestNodes(since, unanswered)
  BY <1>0 DEF Poll5s, WatchTimes
<1>2. UNCHANGED <<answeredOnce, probing, probe, linked, quiet>> /\ linked
  BY DEF Poll5s
<1>3. CASE answeredOnce
  <2>1. since = Never \/ unanswered = LostReplies \/ since <= (unanswered - 1) * Reask + sinceLast
    BY <1>2, <1>3 DEF AskedInv, AskedOften
  <2>2. /\ sinceLast' < Reask
        /\ unanswered' = LostReplies \/ since' <= (unanswered' - 1) * Reask + sinceLast'
        /\ unanswered = LostReplies => unanswered' = LostReplies
    BY <1>1, <2>1, RequestOften
  <2> QED
    BY <1>2, <2>2 DEF AskedInv, ProbeRuns, AskedLately, AskedOften, ProbedForGood
<1>4. CASE ~answeredOnce
  BY <1>2, <1>4 DEF AskedInv, ProbeRuns, AskedLately, AskedOften, ProbedForGood
<1> QED
  BY <1>3, <1>4

LEMMA TickAsked == ASSUME WatchTypeOK, AskedInv, PushTick PROVE AskedInv'
<1>0. WatchTimes /\ WatchBits
  BY WatchTypesAre
<1>1. /\ linked /\ due /\ due' = FALSE /\ Judge(TickAt)
      /\ \/ ReaskDue(TickAt) /\ RequestNodes(TickAt, TickMissed)
         \/ /\ ~ReaskDue(TickAt) /\ since' = TickAt /\ unanswered' = TickMissed
            /\ sinceLast' = sinceLast
      /\ answeredOnce' = answeredOnce /\ quiet' = quiet /\ linked' = linked
  BY TickAsks
<1>2. TickAt \in {Never, since} /\ TickAt \in Never..NoAnswer /\ TickMissed \in 0..LostReplies
  BY <1>0, TickInputs
<1>3. TickAt # Never => TickAt = since /\ TickMissed = unanswered /\ ~quiet /\ ~(probe > 0)
  BY DEF TickAt, TickMissed
<1>4. ASSUME answeredOnce
      PROVE  TickAt = Never \/ TickMissed = LostReplies
             \/ TickAt <= (TickMissed - 1) * Reask + sinceLast
  BY <1>1, <1>3, <1>4 DEF AskedInv, AskedOften
<1>5. ASSUME answeredOnce, since' # Never
      PROVE  /\ sinceLast' < Reask
             /\ unanswered' = LostReplies \/ since' <= (unanswered' - 1) * Reask + sinceLast'
  <2>1. CASE RequestNodes(TickAt, TickMissed)
    BY <1>2, <1>4, <1>5, <2>1, RequestOften
  <2>2. CASE ~ReaskDue(TickAt) /\ since' = TickAt /\ unanswered' = TickMissed /\ sinceLast' = sinceLast
    <3>1. TickAt # Never
      BY <1>5, <2>2
    <3>2. ~(sinceLast >= Reask)
      BY <1>5, <2>2, <3>1 DEF ReaskDue
    <3>3. sinceLast < Reask
      BY <1>0, <3>2, WatchNumbers DEF WatchTimes
    <3> QED
      BY <1>4, <1>5, <2>2, <3>1, <3>3
  <2> QED
    BY <1>1, <2>1, <2>2
<1>6. probing' => probe' > 0
  <2>1. CASE Silent(TickAt) /\ uploader /\ ~probing
    <3>1. probe' = (IF probe = 0 THEN 1 ELSE probe)
      BY <1>1, <2>1 DEF Judge
    <3> QED
      BY <1>0, <3>1, WatchNumbers DEF WatchTimes
  <2>2. CASE ~(Silent(TickAt) /\ uploader /\ ~probing)
    BY <1>1, <2>2 DEF Judge, AskedInv, ProbeRuns
  <2> QED
    BY <2>1, <2>2
<1>7. ASSUME probing', answeredOnce, ~quiet PROVE unanswered' = LostReplies
  <2>1. CASE probing
    <3>1. unanswered = LostReplies /\ probe > 0
      BY <1>7, <2>1 DEF AskedInv, ProbedForGood, ProbeRuns
    <3>2. TickAt = Never /\ TickMissed = unanswered
      BY <1>7, <2>1, <3>1 DEF TickAt, TickMissed
    <3>3. ~ReaskDue(TickAt)
      BY <3>2 DEF ReaskDue
    <3> QED
      BY <1>1, <3>1, <3>2, <3>3
  <2>2. CASE ~probing
    <3>1. Silent(TickAt)
      BY <1>1, <1>7, <2>2 DEF Judge
    <3>2. TickAt # Never
      BY <3>1, WatchNumbers DEF Silent
    <3>3. since >= NoAnswer
      BY <1>3, <3>1, <3>2 DEF Silent
    <3>4. TickMissed = LostReplies
      BY <1>1, <1>3, <1>7, <3>2, <3>3, LongSilence
    <3>5. CASE RequestNodes(TickAt, TickMissed)
      BY <1>2, <3>4, <3>5, RequestOften
    <3> QED
      BY <1>1, <3>4, <3>5
  <2> QED
    BY <2>1, <2>2
<1> QED
  BY <1>1, <1>5, <1>6, <1>7 DEF AskedInv, ProbeRuns, AskedLately, AskedOften, ProbedForGood

LEMMA ProbedAsked ==
    ASSUME WatchTypeOK, AskedInv, NEW usbAnswers \in BOOLEAN, Probed(usbAnswers),
           UNCHANGED <<sinceLast, answeredOnce, quiet>>, due' = due \/ linked' = FALSE,
           linked' \in {linked, FALSE}
    PROVE  AskedInv'
<1>0. WatchTimes /\ WatchBits
  BY WatchTypesAre
<1>1. /\ probing' = FALSE
      /\ \/ since' = Never /\ unanswered' = 0 /\ ~answeredOnce
         \/ since' = since /\ unanswered' = unanswered
  BY <1>0, ProbedTyped
<1>2. ProbeRuns' /\ ProbedForGood'
  BY <1>1 DEF ProbeRuns, ProbedForGood
<1>3. CASE linked' = FALSE
  BY <1>2, <1>3 DEF AskedInv, AskedLately, AskedOften
<1>4. CASE ~answeredOnce
  BY <1>2, <1>4 DEF AskedInv, AskedLately, AskedOften
<1>5. CASE linked' = linked /\ due' = due /\ since' = since /\ unanswered' = unanswered
  BY <1>2, <1>5 DEF AskedInv, AskedLately, AskedOften
<1> QED
  BY <1>1, <1>3, <1>4, <1>5 DEF AskedInv, ProbeRuns, AskedLately, AskedOften, ProbedForGood

LEMMA LaterAsked == ASSUME WatchTypeOK, AskedInv, Later PROVE AskedInv'
<1>0. WatchTimes /\ WatchBits
  BY WatchTypesAre
<1>1. /\ linked /\ ~due /\ due' = TRUE
      /\ since' = (IF since = Never THEN Never ELSE Least(since + 1, NoAnswer))
      /\ sinceLast' = Least(sinceLast + 1, Reask)
      /\ probe' = (IF probe = 0 THEN 0 ELSE probe + 1) /\ unanswered' = unanswered
      /\ UNCHANGED <<answeredOnce, probing, quiet, linked>>
  BY DEF Later
<1>2. ProbeRuns'
  BY <1>0, <1>1, WatchNumbers DEF AskedInv, ProbeRuns, WatchTimes
<1>3. ASSUME answeredOnce, since # Never
      PROVE  unanswered' = LostReplies \/ since' <= (unanswered' - 1) * Reask + sinceLast'
  <2>1. sinceLast < Reask
    BY <1>1, <1>3 DEF AskedInv, AskedLately
  <2>2. sinceLast' = sinceLast + 1
    BY <1>0, <1>1, <2>1, WatchNumbers DEF Least, WatchTimes
  <2>3. since' <= since + 1 /\ since \in Int /\ since' \in Int
    BY <1>0, <1>1, <1>3, WatchNumbers DEF Least, WatchTimes
  <2>4. unanswered = LostReplies \/ since <= (unanswered - 1) * Reask + sinceLast
    BY <1>1, <1>3 DEF AskedInv, AskedOften
  <2>5. (unanswered - 1) * Reask \in Int /\ sinceLast \in Int
    BY <1>0, WatchNumbers DEF WatchTimes
  <2> QED
    BY <1>1, <2>2, <2>3, <2>4, <2>5
<1>4. AskedOften'
  BY <1>1, <1>3 DEF AskedOften
<1> QED
  BY <1>1, <1>2, <1>4 DEF AskedInv, AskedLately, ProbedForGood

LEMMA OthersAsked ==
    ASSUME WatchTypeOK, AskedInv,
           Answered \/ Opens \/ Disconnects \/ Learns \/ Quiets \/ Resumes \/ Calibrates \/ Trouble
    PROVE  AskedInv'
<1>0. WatchTimes /\ WatchBits
  BY WatchTypesAre
<1>1. CASE Answered
  BY <1>1 DEF Answered, AskedInv, ProbeRuns, AskedLately, AskedOften, ProbedForGood
<1>2. CASE Opens
  BY <1>2 DEF Opens, Reset, AskedInv, ProbeRuns, AskedLately, AskedOften, ProbedForGood
<1>3. CASE Disconnects
  BY <1>3 DEF Disconnects, Reset, AskedInv, ProbeRuns, AskedLately, AskedOften, ProbedForGood
<1>4. CASE Learns
  BY <1>4 DEF Learns, wireVars, AskedInv, ProbeRuns, AskedLately, AskedOften, ProbedForGood
<1>5. CASE Quiets
  BY <1>5 DEF Quiets, wireVars, AskedInv, ProbeRuns, AskedLately, AskedOften, ProbedForGood
<1>6. CASE Resumes
  <2>1. ~probing
    BY <1>0, <1>6, WatchNumbers DEF Resumes, AskedInv, ProbeRuns, WatchTimes
  <2> QED
    BY <1>6, <2>1 DEF Resumes, wireVars, AskedInv, ProbeRuns, AskedLately, AskedOften, ProbedForGood
<1>7. CASE Calibrates
  BY <1>7 DEF Calibrates, watchVars, AskedInv, ProbeRuns, AskedLately, AskedOften, ProbedForGood
<1>8. CASE Trouble
  BY <1>8 DEF Trouble, watchVars, AskedInv, ProbeRuns, AskedLately, AskedOften, ProbedForGood
<1> QED
  BY <1>1, <1>2, <1>3, <1>4, <1>5, <1>6, <1>7, <1>8

LEMMA UnplugsAsked == ASSUME WatchTypeOK, AskedInv, Unplugs PROVE AskedInv'
<1>1. linked' = FALSE /\ UNCHANGED <<sinceLast, answeredOnce, quiet>>
  BY DEF Unplugs, LinkGone
<1>2. CASE probe > 0
  BY <1>1, <1>2, ProbedAsked DEF Unplugs
<1>3. CASE ~(probe > 0)
  <2>1. ~probing /\ probing' = probing
    BY <1>3 DEF Unplugs, AskedInv, ProbeRuns
  <2> QED
    BY <1>1, <2>1 DEF AskedInv, ProbeRuns, AskedLately, AskedOften, ProbedForGood
<1> QED
  BY <1>2, <1>3

LEMMA AskedAlways == WatchSpec => [](WatchTypeOK /\ AskedInv)
<1>1. WatchInit => AskedInv
  BY DEF WatchInit, AskedInv, ProbeRuns, AskedLately, AskedOften, ProbedForGood
<1>2. ASSUME WatchTypeOK, AskedInv, [WatchNext]_gatewayVars PROVE AskedInv'
  <2>1. CASE ProbeEnds
    <3>1. Probed(TRUE) \/ Probed(FALSE)
      BY <2>1 DEF ProbeEnds
    <3>2. UNCHANGED <<sinceLast, answeredOnce, quiet, due, linked>>
      BY <2>1 DEF ProbeEnds
    <3> QED
      BY <1>2, <3>1, <3>2, ProbedAsked
  <2>2. CASE UNCHANGED gatewayVars
    BY <1>2, <2>2 DEF gatewayVars, watchVars, wireVars, AskedInv, ProbeRuns, AskedLately,
       AskedOften, ProbedForGood
  <2> QED
    BY <1>2, <2>1, <2>2, PollAsked, TickAsked, LaterAsked, OthersAsked, UnplugsAsked
    DEF WatchNext, Steps
<1> QED
  BY <1>1, <1>2, WatchTypesHold, PTL DEF WatchSpec

(* Once the Gateway has answered, "not responding" is said only after a     *)
(* whole window of requests went unanswered in a row, whatever polls,       *)
(* re-asks, pauses and probes fell between them, and not while the          *)
(* uploader holds its cockpit side: tick() and probed() of                  *)
(* gateway-health.ts as node-hub.ts drives them.                            *)
THEOREM SilenceIsJudgedSlowly == WatchSpec => NeverHasty
<1>1. ASSUME WatchTypeOK, AskedInv, [WatchNext]_gatewayVars,
             verdict' # verdict, verdict' # "none", answeredOnce
      PROVE  unanswered >= LostReplies /\ ~quiet
  <2>0. LostReplies \in Nat /\ NoAnswer \in Nat
    BY WatchNumbers
  <2>1. CASE PushTick
    <3>1. linked /\ Judge(TickAt)
      BY <2>1, TickAsks
    <3>2. Silent(TickAt)
      BY <1>1, <3>1 DEF Judge
    <3>3. TickAt # Never /\ TickAt >= NoAnswer
      BY <3>2, WatchNumbers DEF Silent
    <3>4. TickAt = since /\ ~quiet
      BY <3>3 DEF TickAt
    <3> QED
      BY <1>1, <2>0, <3>1, <3>3, <3>4, LongSilence
  <2>2. ASSUME NEW usbAnswers \in BOOLEAN, Probed(usbAnswers)
        PROVE  unanswered >= LostReplies /\ ~quiet
    <3>1. probing /\ ~quiet
      BY <1>1, <2>2 DEF Probed
    <3> QED
      BY <1>1, <2>0, <3>1 DEF AskedInv, ProbedForGood
  <2>3. CASE ProbeEnds
    BY <2>2, <2>3 DEF ProbeEnds
  <2>4. CASE Unplugs
    BY <1>1, <2>2, <2>4 DEF Unplugs
  <2>5. PushTick \/ ProbeEnds \/ Unplugs
    BY <1>1 DEF WatchNext, Steps, gatewayVars, watchVars, Poll5s, Answered, Later, Opens, Reset,
       Disconnects, Learns, Quiets, Resumes, Calibrates, Trouble
  <2> QED
    BY <2>1, <2>3, <2>4, <2>5
<1> QED
  BY <1>1, AskedAlways, PTL DEF NeverHasty, WatchSpec

(* How many units of time it may yet take to say that a Gateway is silent:  *)
(* the probe that runs, one that must end first, the next poll, the age of  *)
(* the oldest request and the probe after it.                               *)
Need(probes, asking, at, poll, ticks) ==
    IF probes THEN ProbeTime - asking
    ELSE IF asking > 0 THEN ProbeTime - asking + 2 * NoAnswer + ProbeTime
    ELSE IF at = Never THEN poll + NoAnswer + ProbeTime
    ELSE NoAnswer - at + ProbeTime + (IF at = NoAnswer /\ ~ticks THEN 1 ELSE 0)
NeedNow == Need(probing, probe, since, pollIn, due)

(* A Gateway that answers has been heard since the last poll, or the next   *)
(* one comes soon enough; one that does not is said to be silent in time.   *)
Watched == ~Answers /\ ~calibrating /\ ~quiet /\ (answeredOnce \/ (uploader /\ usb))
HeardSoon ==
    linked /\ Answers =>
      \/ steady + pollIn <= NoAnswer
      \/ coming /\ steady <= NoAnswer
      \/ verdict = "none" /\ ~probing /\ (since = Never \/ (coming /\ since = 0))
MissedSoon == linked /\ Watched /\ verdict = "none" => steady + NeedNow <= InTime

LEMMA NeedIsBounded ==
    ASSUME NEW p \in BOOLEAN, NEW asking \in 0..ProbeTime, NEW at \in Never..NoAnswer,
           NEW poll \in 0..NoAnswer, NEW d \in BOOLEAN
    PROVE  Need(p, asking, at, poll, d) \in Nat /\ Need(p, asking, at, poll, d) <= InTime
<1>0. NoAnswer \in Nat /\ ProbeTime \in Nat /\ 0 < NoAnswer /\ 0 < ProbeTime /\ Never = -1
      /\ InTime = 2 * (NoAnswer + ProbeTime)
  BY WatchNumbers DEF InTime
<1>1. CASE p
  BY <1>0, <1>1 DEF Need
<1>2. CASE ~p /\ asking > 0
  BY <1>0, <1>2 DEF Need
<1>3. CASE ~p /\ ~(asking > 0) /\ at = Never
  BY <1>0, <1>3 DEF Need
<1>4. CASE ~p /\ ~(asking > 0) /\ at # Never
  <2>1. (IF at = NoAnswer /\ ~d THEN 1 ELSE 0) \in {0, 1}
    OBVIOUS
  <2>2. Need(p, asking, at, poll, d) = NoAnswer - at + ProbeTime + (IF at = NoAnswer /\ ~d THEN 1 ELSE 0)
    BY <1>4 DEF Need
  <2>3. ASSUME NEW extra \in {0, 1}
        PROVE  NoAnswer - at + ProbeTime + extra \in Nat /\ NoAnswer - at + ProbeTime + extra <= InTime
    BY <1>0, <1>4
  <2> QED
    BY <2>1, <2>2, <2>3
<1> QED
  BY <1>1, <1>2, <1>3, <1>4

LEMMA OneLess ==
    ASSUME NEW top \in Int
    PROVE  \A a, b, x, y \in Int : a + x <= top /\ b <= a + 1 /\ y <= x - 1 => b + y <= top
  OBVIOUS

(* What a step does to the time things have been steady for.                *)
LEMMA Steadies ==
    ASSUME WatchTypeOK, WatchNext
    PROVE  /\ steady \in Nat /\ steady' \in Nat /\ steady' <= steady + 1
           /\ Outside' # Outside => steady' = 0
           /\ Outside' = Outside /\ due' = FALSE => steady' = steady
           /\ Outside' = Outside /\ due = TRUE => steady' = steady
           /\ Outside' = Outside /\ due' = due => steady' = steady
<1>1. steady \in Nat /\ InTime \in Nat
  BY WatchTypesAre, WatchNumbers DEF Steady
<1>2. due \in BOOLEAN
  BY WatchTypesAre DEF WatchBits
<1>3. Outside' # Outside => steady' = 0
  BY DEF WatchNext
<1>4. Outside' = Outside => steady' = IF due' /\ ~due THEN Least(steady + 1, InTime + 1) ELSE steady
  BY DEF WatchNext
<1>5. steady' \in Nat /\ steady' <= steady + 1
  <2>1. steady' \in {0, steady, Least(steady + 1, InTime + 1)}
    BY <1>3, <1>4
  <2> QED
    BY <1>1, <2>1 DEF Least
<1> QED
  BY <1>1, <1>2, <1>3, <1>4, <1>5

(* Whatever changes from outside starts the time over.                      *)
LEMMA Afresh ==
    ASSUME WatchTypeOK, WatchTypeOK', WatchNext, Outside' # Outside
    PROVE  HeardSoon' /\ MissedSoon'
<1>1. steady' = 0
  BY Steadies
<1>2. /\ probing' \in BOOLEAN /\ probe' \in 0..ProbeTime /\ since' \in Never..NoAnswer
      /\ pollIn' \in 0..NoAnswer /\ due' \in BOOLEAN
  BY DEF WatchTypeOK
<1>3. NeedNow' = Need(probing', probe', since', pollIn', due')
  BY DEF NeedNow
<1>4. NeedNow' \in Nat /\ NeedNow' <= InTime
  BY <1>2, <1>3, NeedIsBounded
<1>5. steady' + NeedNow' <= InTime
  BY <1>1, <1>4
<1>6. steady' + pollIn' <= NoAnswer
  <2>1. pollIn' \in 0..NoAnswer /\ NoAnswer \in Nat
    BY <1>2, WatchNumbers
  <2>2. \A poll \in 0..NoAnswer : steady' + poll <= NoAnswer
    BY <1>1, <2>1
  <2> QED
    BY <2>1, <2>2
<1> QED
  BY <1>5, <1>6 DEF HeardSoon, MissedSoon

(* A request with nothing lost reaches a Gateway that answers.              *)
LEMMA RequestHeard ==
    ASSUME WatchTypeOK, NEW at, NEW missed, RequestNodes(at, missed), Answers, misses' = misses
    PROVE  coming' = TRUE
<1>1. ~Misses
  BY WatchTypesAre DEF Misses, WatchCounts
<1> QED
  BY <1>1 DEF RequestNodes

Still == linked' = linked /\ uploader' = uploader /\ quiet' = quiet /\ calibrating' = calibrating
         /\ usb' = usb /\ bridge' = bridge /\ misses' = misses

LEMMA StillIsSame == Outside' = Outside <=> Still
  BY DEF Still, Outside

LEMMA PollHeard ==
    ASSUME WatchTypeOK, HeardSoon, WatchNext, Still, Poll5s PROVE HeardSoon'
<1>0. WatchTimes /\ WatchBits
  BY WatchTypesAre
<1>1. /\ pollIn = 0 /\ RequestNodes(since, unanswered) /\ due' = due /\ probing' = probing
      /\ verdict' = verdict /\ linked
  BY DEF Poll5s
<1>2. steady' = steady /\ steady \in Nat
  BY <1>1, StillIsSame, Steadies
<1>3. CASE Answers
  <2>1. coming' = TRUE
    BY <1>1, <1>3, RequestHeard DEF Still
  <2>2. since' = IF since = Never THEN 0 ELSE since
    BY <1>1 DEF RequestNodes, Asked
  <2>3. CASE steady <= NoAnswer
    BY <1>2, <2>1, <2>3 DEF HeardSoon
  <2>4. CASE verdict = "none" /\ ~probing /\ (since = Never \/ (coming /\ since = 0))
    <3>1. since' = 0
      BY <2>2, <2>4
    <3> QED
      BY <1>1, <2>1, <2>4, <3>1 DEF HeardSoon
  <2>5. steady + pollIn <= NoAnswer => steady <= NoAnswer
    BY <1>1, <1>2
  <2> QED
    BY <1>1, <1>3, <2>3, <2>4, <2>5 DEF HeardSoon
<1>4. CASE ~Answers
  BY <1>4 DEF HeardSoon, Answers, Still
<1> QED
  BY <1>3, <1>4

LEMMA TickHeard ==
    ASSUME WatchTypeOK, HeardSoon, WatchNext, Still, PushTick PROVE HeardSoon'
<1>0. WatchTimes /\ WatchBits
  BY WatchTypesAre
<1>1. /\ linked /\ due' = FALSE /\ Judge(TickAt) /\ pollIn' = pollIn
      /\ \/ ReaskDue(TickAt) /\ RequestNodes(TickAt, TickMissed)
         \/ ~ReaskDue(TickAt) /\ since' = TickAt /\ coming' = coming
  BY TickAsks
<1>2. steady' = steady
  BY <1>1, StillIsSame, Steadies
<1>3. CASE Answers
  <2>1. coming => coming'
    BY <1>1, <1>3, RequestHeard DEF Still
  <2>2. CASE steady + pollIn <= NoAnswer \/ (coming /\ steady <= NoAnswer)
    BY <1>1, <1>2, <2>1, <2>2 DEF HeardSoon
  <2>3. CASE verdict = "none" /\ ~probing /\ (since = Never \/ (coming /\ since = 0))
    <3>1. TickAt = Never \/ (TickAt = 0 /\ coming)
      BY <1>0, <2>3, TickInputs
    <3>2. ~Silent(TickAt)
      BY <3>1, WatchNumbers DEF Silent
    <3>3. verdict' = verdict /\ probing' = probing
      BY <1>1, <3>2 DEF Judge
    <3>4. since' = Never \/ (since' = 0 /\ coming')
      <4>1. CASE ReaskDue(TickAt) /\ RequestNodes(TickAt, TickMissed)
        <5>1. TickAt # Never
          BY <4>1 DEF ReaskDue
        <5>2. since' = 0
          BY <3>1, <4>1, <5>1 DEF RequestNodes, Asked
        <5> QED
          BY <2>1, <3>1, <5>1, <5>2
      <4>2. CASE ~ReaskDue(TickAt) /\ since' = TickAt /\ coming' = coming
        BY <3>1, <4>2
      <4> QED
        BY <1>1, <4>1, <4>2
    <3> QED
      BY <2>3, <3>3, <3>4 DEF HeardSoon
  <2> QED
    BY <1>1, <1>3, <2>2, <2>3 DEF HeardSoon
<1>4. CASE ~Answers
  BY <1>4 DEF HeardSoon, Answers, Still
<1> QED
  BY <1>3, <1>4

LEMMA ProbeEndsHeard ==
    ASSUME WatchTypeOK, HeardSoon, WatchNext, Still, ProbeEnds PROVE HeardSoon'
<1>0. WatchTimes /\ WatchBits
  BY WatchTypesAre
<1>1. /\ Probed(TRUE) \/ Probed(FALSE)
      /\ due' = due /\ pollIn' = pollIn /\ coming' = coming /\ linked' = linked
  BY DEF ProbeEnds
<1>2. steady' = steady
  BY <1>1, StillIsSame, Steadies
<1>3. ~probing => ~probing' /\ verdict' = verdict /\ since' = since
  BY <1>1 DEF Probed
<1> QED
  BY <1>1, <1>2, <1>3 DEF HeardSoon, Answers, Still

LEMMA LaterHeard ==
    ASSUME WatchTypeOK, HeardSoon, WatchNext, Still, Later PROVE HeardSoon'
<1>0. WatchTimes /\ WatchBits
  BY WatchTypesAre
<1>1. /\ ~coming /\ pollIn > 0 /\ pollIn' = pollIn - 1 /\ coming' = coming
      /\ verdict' = verdict /\ probing' = probing
      /\ since' = (IF since = Never THEN Never ELSE Least(since + 1, NoAnswer))
  BY DEF Later
<1>2. steady \in Nat /\ steady' \in Nat /\ steady' <= steady + 1
  BY Steadies
<1>3. steady + pollIn <= NoAnswer => steady' + pollIn' <= NoAnswer
  <2>1. pollIn \in Nat /\ NoAnswer \in Nat
    BY <1>0, WatchNumbers DEF WatchTimes
  <2>2. pollIn' = pollIn - 1
    BY <1>1
  <2>3. /\ NoAnswer \in Int /\ steady \in Int /\ steady' \in Int /\ pollIn \in Int
        /\ pollIn' \in Int /\ steady' <= steady + 1 /\ pollIn' <= pollIn - 1
    BY <1>2, <2>1, <2>2
  <2> QED
    BY <2>3, OneLess, Zenon
<1>4. since = Never => since' = Never
  BY <1>1
<1> QED
  BY <1>1, <1>3, <1>4 DEF HeardSoon, Answers, Still

LEMMA AnsweredHeard == ASSUME Answered PROVE HeardSoon' /\ MissedSoon'
<1>1. /\ Answers' = Answers /\ Answers /\ verdict' = "none" /\ probing' = FALSE /\ since' = Never
  BY DEF Answered, Answers, boardVars
<1> QED
  BY <1>1 DEF HeardSoon, MissedSoon, Watched

LEMMA PollMissed ==
    ASSUME WatchTypeOK, MissedSoon, WatchNext, Still, Poll5s PROVE MissedSoon'
<1>0. WatchTimes /\ WatchBits
  BY WatchTypesAre
<1>1. /\ pollIn = 0 /\ RequestNodes(since, unanswered)
      /\ UNCHANGED <<due, probing, probe, verdict, answeredOnce>>
  BY DEF Poll5s
<1>2. steady' = steady
  BY <1>1, StillIsSame, Steadies
<1>3. since' = IF since = Never THEN 0 ELSE since
  BY <1>1 DEF RequestNodes, Asked
<1>4. NeedNow' = NeedNow
  <2>0. NoAnswer \in Nat /\ ProbeTime \in Nat /\ 0 < NoAnswer /\ Never = -1
    BY WatchNumbers
  <2>1. NeedNow' = Need(probing, probe, since', pollIn', due)
    BY <1>1 DEF NeedNow
  <2>2. CASE probing \/ probe > 0
    BY <2>1, <2>2 DEF NeedNow, Need
  <2>3. CASE ~probing /\ ~(probe > 0) /\ since = Never
    <3>1. since' = 0 /\ 0 # Never /\ 0 # NoAnswer
      BY <1>3, <2>0, <2>3
    <3>2. NeedNow' = NoAnswer - 0 + ProbeTime + 0
      BY <2>1, <2>3, <3>1 DEF Need
    <3>3. NeedNow = 0 + NoAnswer + ProbeTime
      BY <1>1, <2>3 DEF NeedNow, Need
    <3> QED
      BY <2>0, <3>2, <3>3
  <2>4. CASE ~probing /\ ~(probe > 0) /\ since # Never
    BY <1>3, <2>1, <2>4 DEF NeedNow, Need
  <2> QED
    BY <2>2, <2>3, <2>4
<1> QED
  BY <1>1, <1>2, <1>4 DEF MissedSoon, Watched, Answers, Still

LEMMA TickMissedSoon ==
    ASSUME WatchTypeOK, AskedInv, MissedSoon, WatchNext, Still, PushTick PROVE MissedSoon'
<1>0. WatchTimes /\ WatchBits
  BY WatchTypesAre
<1>1. /\ linked /\ due = TRUE /\ due' = FALSE /\ Judge(TickAt) /\ pollIn' = pollIn
      /\ \/ ReaskDue(TickAt) /\ RequestNodes(TickAt, TickMissed)
         \/ ~ReaskDue(TickAt) /\ since' = TickAt
      /\ answeredOnce' = answeredOnce
  BY <1>0, TickAsks DEF WatchBits
<1>2. steady' = steady /\ steady \in Nat
  BY <1>1, StillIsSame, Steadies
<1>3. since' = TickAt
  BY <1>1 DEF ReaskDue, RequestNodes, Asked
<1>4. SUFFICES ASSUME Watched, verdict' = "none"
      PROVE  NeedNow' \in Int /\ NeedNow' <= NeedNow /\ NeedNow \in Int /\ verdict = "none"
  <2>1. Watched' <=> Watched
    BY <1>1 DEF Watched, Answers, Still
  <2>2. linked' = linked
    BY DEF Still
  <2>3. InTime \in Int
    BY WatchNumbers
  <2>4. Watched /\ verdict' = "none" => steady + NeedNow <= InTime /\ NeedNow' \in Int
                                        /\ NeedNow' <= NeedNow /\ NeedNow \in Int
    BY <1>1, <1>4 DEF MissedSoon
  <2>5. Watched /\ verdict' = "none" => steady' + NeedNow' <= InTime
    BY <1>2, <2>3, <2>4
  <2> QED
    BY <2>1, <2>5 DEF MissedSoon
<1>5. /\ NeedNow = Need(probing, probe, since, pollIn, due)
      /\ NeedNow' = Need(probing', probe', since', pollIn, FALSE)
  BY <1>1 DEF NeedNow
<1>6. NeedNow \in Nat
  BY <1>0, <1>5, NeedIsBounded DEF WatchTimes, WatchBits
<1>7. ~calibrating /\ ~quiet /\ (answeredOnce \/ (uploader /\ usb))
  BY <1>4 DEF Watched
<1>8. verdict = "none"
  <2>1. verdict' \in {verdict, "gateway"}
    BY <1>1 DEF Judge
  <2> QED
    BY <1>4, <2>1
<1>9. NoAnswer \in Nat /\ ProbeTime \in Nat /\ 0 < ProbeTime /\ 0 < NoAnswer /\ Never = -1
      /\ since \in Never..NoAnswer /\ probe \in 0..ProbeTime
  BY <1>0, WatchNumbers DEF WatchTimes
<1>10. CASE probe > 0
  <2>1. ~Silent(TickAt)
    BY <1>9, <1>10 DEF TickAt, Silent
  <2>2. probing' = probing /\ probe' = probe
    BY <1>1, <2>1 DEF Judge
  <2>3. NeedNow' = NeedNow
    BY <1>5, <1>10, <2>2 DEF Need
  <2> QED
    BY <1>6, <1>8, <2>3
<1>11. CASE ~(probe > 0)
  <2>1. probe = 0 /\ ~probing
    BY <1>9, <1>11 DEF AskedInv, ProbeRuns
  <2>2. TickAt = since
    BY <1>7, <1>11 DEF TickAt
  <2>3. CASE since = NoAnswer
    <3>1. Silent(TickAt)
      BY <1>8, <1>9, <2>2, <2>3 DEF Silent
    <3>2. uploader
      <4>1. CASE ~uploader
        <5>1. verdict' = "gateway"
          BY <1>1, <1>7, <3>1, <4>1 DEF Judge
        <5> QED
          BY <1>4, <5>1
      <4> QED
        BY <4>1
    <3>3. probing' = TRUE /\ probe' = 1
      BY <1>1, <2>1, <3>1, <3>2 DEF Judge
    <3>4. NeedNow' = ProbeTime - 1
      BY <1>5, <3>3 DEF Need
    <3>5. NeedNow = NoAnswer - since + ProbeTime + 0
      <4>1. since # Never
        BY <1>9, <2>3
      <4> QED
        BY <1>1, <1>5, <1>11, <2>1, <4>1 DEF Need
    <3> QED
      BY <1>8, <1>9, <2>3, <3>4, <3>5
  <2>4. CASE since # NoAnswer
    <3>1. ~Silent(TickAt)
      BY <1>9, <2>2, <2>4 DEF Silent
    <3>2. probing' = probing /\ probe' = probe
      BY <1>1, <3>1 DEF Judge
    <3>3. NeedNow' = NeedNow
      BY <1>3, <1>5, <1>11, <2>1, <2>2, <2>4, <3>2 DEF Need
    <3> QED
      BY <1>6, <1>8, <3>3
  <2> QED
    BY <2>3, <2>4
<1> QED
  BY <1>10, <1>11

LEMMA ProbeEndsMissed ==
    ASSUME WatchTypeOK, AskedInv, MissedSoon, WatchNext, Still, ProbeEnds PROVE MissedSoon'
<1>0. WatchTimes /\ WatchBits
  BY WatchTypesAre
<1>1. /\ probe > 0 /\ probe' = 0
      /\ UNCHANGED <<due, pollIn, linked, answeredOnce>>
  BY DEF ProbeEnds
<1>2. steady' = steady /\ steady \in Nat
  BY <1>1, StillIsSame, Steadies
<1>3. CASE probing /\ Watched
  <2>1. ~Misses
    BY WatchTypesAre DEF Misses, WatchCounts, Still
  <2>2. (usb /\ Probed(TRUE)) \/ (~usb /\ Probed(FALSE))
    BY <2>1 DEF ProbeEnds
  <2>3. ~quiet /\ (answeredOnce \/ usb)
    BY <1>3 DEF Watched
  <2>4. verdict' \in {"cockpit", "gateway"}
    BY <1>3, <2>2, <2>3 DEF Probed
  <2> QED
    BY <2>4 DEF MissedSoon
<1>4. CASE ~probing /\ Watched
  <2>1. probing' = FALSE /\ verdict' = verdict /\ since' = since
    BY <1>4 DEF ProbeEnds, Probed
  <2>2. NeedNow' = Need(FALSE, 0, since, pollIn, due) /\ NeedNow = Need(probing, probe, since, pollIn, due)
    BY <1>1, <2>1 DEF NeedNow
  <2>3. NoAnswer \in Nat /\ ProbeTime \in Nat /\ 0 < ProbeTime /\ 0 < NoAnswer /\ Never = -1
        /\ since \in Never..NoAnswer /\ probe \in 0..ProbeTime /\ pollIn \in 0..NoAnswer
    BY <1>0, WatchNumbers DEF WatchTimes
  <2>4. NeedNow = ProbeTime - probe + 2 * NoAnswer + ProbeTime
    BY <1>1, <1>4, <2>2 DEF Need
  <2>5. NeedNow' \in Int /\ NeedNow' <= 2 * NoAnswer + ProbeTime
    <3>1. CASE since = Never
      <4>1. NeedNow' = pollIn + NoAnswer + ProbeTime
        BY <2>2, <2>3, <3>1 DEF Need
      <4> QED
        BY <2>3, <4>1
    <3>2. CASE since # Never
      <4>1. NeedNow' = NoAnswer - since + ProbeTime + (IF since = NoAnswer /\ ~due THEN 1 ELSE 0)
        BY <2>2, <2>3, <3>2 DEF Need
      <4>2. ASSUME NEW extra \in {0, 1}
            PROVE  NoAnswer - since + ProbeTime + extra \in Int
                   /\ NoAnswer - since + ProbeTime + extra <= 2 * NoAnswer + ProbeTime
        BY <2>3, <3>2
      <4>3. (IF since = NoAnswer /\ ~due THEN 1 ELSE 0) \in {0, 1}
        OBVIOUS
      <4> QED
        BY <4>1, <4>2, <4>3
    <3> QED
      BY <3>1, <3>2
  <2>6. NeedNow' <= NeedNow /\ NeedNow \in Int
    BY <2>3, <2>4, <2>5
  <2>7. linked' /\ verdict' = "none" => steady + NeedNow <= InTime
    BY <1>1, <1>4, <2>1 DEF MissedSoon
  <2>8. linked' /\ verdict' = "none" => steady' + NeedNow' <= InTime
    <3>1. steady + NeedNow <= InTime =>
            \A need \in Int : need <= NeedNow => steady' + need <= InTime
      BY <1>2, <2>6, WatchNumbers
    <3> QED
      BY <2>5, <2>6, <2>7, <3>1
  <2> QED
    BY <2>8 DEF MissedSoon
<1>5. CASE ~Watched
  BY <1>1, <1>5 DEF MissedSoon, Watched, Answers, Still
<1> QED
  BY <1>3, <1>4, <1>5

LEMMA LaterMissed ==
    ASSUME WatchTypeOK, AskedInv, MissedSoon, WatchNext, Still, Later PROVE MissedSoon'
<1>0. WatchTimes /\ WatchBits
  BY WatchTypesAre
<1>1. /\ linked /\ ~due /\ due' = TRUE /\ pollIn > 0 /\ pollIn' = pollIn - 1
      /\ probe < ProbeTime /\ probe' = (IF probe = 0 THEN 0 ELSE probe + 1)
      /\ since' = (IF since = Never THEN Never ELSE Least(since + 1, NoAnswer))
      /\ UNCHANGED <<verdict, probing, answeredOnce>>
  BY DEF Later
<1>2. steady \in Nat /\ steady' \in Nat /\ steady' <= steady + 1
  BY Steadies
<1>3. NoAnswer \in Nat /\ ProbeTime \in Nat /\ 0 < ProbeTime /\ 0 < NoAnswer /\ Never = -1
      /\ since \in Never..NoAnswer /\ probe \in 0..ProbeTime /\ pollIn \in 0..NoAnswer
  BY <1>0, WatchNumbers DEF WatchTimes
<1>4. /\ NeedNow = Need(probing, probe, since, pollIn, FALSE)
      /\ NeedNow' = Need(probing, probe', since', pollIn - 1, TRUE)
  BY <1>0, <1>1 DEF NeedNow, WatchBits
<1>5. NeedNow \in Int /\ NeedNow' \in Int /\ NeedNow' <= NeedNow - 1
  <2>1. CASE probing
    <3>1. probe > 0
      BY <2>1 DEF AskedInv, ProbeRuns
    <3>2. probe' = probe + 1
      BY <1>1, <1>3, <3>1
    <3>3. NeedNow = ProbeTime - probe /\ NeedNow' = ProbeTime - (probe + 1)
      BY <1>4, <2>1, <3>2 DEF Need
    <3> QED
      BY <1>3, <3>3
  <2>2. CASE ~probing /\ probe > 0
    <3>1. probe' = probe + 1 /\ probe + 1 > 0
      BY <1>1, <1>3, <2>2
    <3>2. /\ NeedNow = ProbeTime - probe + 2 * NoAnswer + ProbeTime
          /\ NeedNow' = ProbeTime - (probe + 1) + 2 * NoAnswer + ProbeTime
      BY <1>4, <2>2, <3>1 DEF Need
    <3> QED
      BY <1>3, <3>2
  <2>3. CASE ~probing /\ ~(probe > 0) /\ since = Never
    <3>1. probe' = 0 /\ since' = Never /\ ~(0 > 0)
      BY <1>1, <1>3, <2>3
    <3>2. /\ NeedNow = pollIn + NoAnswer + ProbeTime
          /\ NeedNow' = pollIn - 1 + NoAnswer + ProbeTime
      BY <1>4, <2>3, <3>1 DEF Need
    <3> QED
      BY <1>3, <3>2
  <2>4. CASE ~probing /\ ~(probe > 0) /\ since # Never /\ since = NoAnswer
    <3>1. probe' = 0 /\ since' = NoAnswer /\ NoAnswer # Never /\ ~(0 > 0)
      BY <1>1, <1>3, <2>4 DEF Least
    <3>2. NeedNow = NoAnswer - since + ProbeTime + 1
      BY <1>4, <2>4 DEF Need
    <3>3. NeedNow' = NoAnswer - NoAnswer + ProbeTime + 0
      BY <1>4, <2>4, <3>1 DEF Need
    <3> QED
      BY <1>3, <2>4, <3>2, <3>3
  <2>5. CASE ~probing /\ ~(probe > 0) /\ since # Never /\ since # NoAnswer
    <3>1. probe' = 0 /\ since' = since + 1 /\ since + 1 # Never /\ ~(0 > 0)
      BY <1>1, <1>3, <2>5 DEF Least
    <3>2. NeedNow = NoAnswer - since + ProbeTime + 0
      BY <1>4, <2>5 DEF Need
    <3>3. NeedNow' = NoAnswer - (since + 1) + ProbeTime + 0
      BY <1>4, <2>5, <3>1 DEF Need
    <3> QED
      BY <1>3, <3>2, <3>3
  <2> QED
    BY <2>1, <2>2, <2>3, <2>4, <2>5
<1>6. Watched /\ verdict = "none" => steady + NeedNow <= InTime
  BY <1>1 DEF MissedSoon
<1>7. Watched /\ verdict = "none" => steady' + NeedNow' <= InTime
  <2>1. InTime \in Int /\ steady \in Int /\ steady' \in Int /\ steady' <= steady + 1
    BY <1>2, WatchNumbers
  <2>2. steady + NeedNow <= InTime => steady' + NeedNow' <= InTime
    BY <1>5, <2>1, OneLess, Zenon
  <2> QED
    BY <1>6, <2>2
<1> QED
  BY <1>1, <1>7 DEF MissedSoon, Watched, Answers, Still

(* The Gateway's verdict is true in time: once nothing has changed outside  *)
(* for a poll, one that answers is not said to be silent; after two windows *)
(* and two probes one that does not answer is: gateway-health.ts with the   *)
(* poll, the re-asks and the probe of node-hub.ts.                          *)
THEOREM VerdictIsTrue == WatchSpec => []HealthIsTrue
<1>1. ASSUME WatchInit PROVE HeardSoon /\ MissedSoon
  BY <1>1 DEF WatchInit, HeardSoon, MissedSoon
<1>2. ASSUME WatchTypeOK, WatchTypeOK', AskedInv, HeardSoon, MissedSoon, [WatchNext]_gatewayVars
      PROVE  HeardSoon' /\ MissedSoon'
  <2>1. CASE WatchNext /\ Outside' # Outside
    BY <1>2, <2>1, Afresh
  <2>2. CASE WatchNext /\ Outside' = Outside
    <3>1. Still
      BY <2>2, StillIsSame
    <3>2. Poll5s \/ PushTick \/ ProbeEnds \/ Later \/ Answered
      <4>1. ~Opens /\ ~Disconnects /\ ~Unplugs
        BY <3>1 DEF Still, Opens, Disconnects, Unplugs, LinkGone
      <4>2. ~Learns
        BY <3>1 DEF Still, Learns
      <4>3. ~Quiets /\ ~Resumes
        BY <3>1 DEF Still, Quiets, Resumes
      <4>4. ~Calibrates
        <5>1. calibrating \in BOOLEAN
          BY <1>2, WatchTypesAre DEF WatchBits
        <5> QED
          BY <3>1, <5>1 DEF Still, Calibrates
      <4>5. ~Trouble
        <5>1. usb \in BOOLEAN /\ bridge \in BOOLEAN
          BY <1>2, WatchTypesAre DEF WatchBits
        <5> QED
          BY <3>1, <5>1 DEF Still, Trouble
      <4> QED
        BY <2>2, <4>1, <4>2, <4>3, <4>4, <4>5 DEF WatchNext, Steps
    <3> QED
      BY <1>2, <2>2, <3>1, <3>2, PollHeard, TickHeard, ProbeEndsHeard, LaterHeard, AnsweredHeard,
         PollMissed, TickMissedSoon, ProbeEndsMissed, LaterMissed
  <2>3. CASE UNCHANGED gatewayVars
    BY <1>2, <2>3 DEF gatewayVars, watchVars, wireVars, boardVars, bounds, HeardSoon, MissedSoon,
       NeedNow, Watched, Answers
  <2> QED
    BY <1>2, <2>1, <2>2, <2>3
<1>3. ASSUME WatchTypeOK, HeardSoon, MissedSoon PROVE HealthIsTrue
  <2>0. WatchTimes /\ WatchBits
    BY <1>3, WatchTypesAre
  <2>1. steady \in Nat /\ NoAnswer \in Nat /\ pollIn \in Nat /\ InTime \in Nat
    BY <1>3, <2>0, WatchNumbers, WatchTypesAre DEF Steady, WatchTimes
  <2>2. ASSUME linked, Answers, steady > NoAnswer PROVE verdict = "none"
    <3>1. ~(steady + pollIn <= NoAnswer) /\ ~(steady <= NoAnswer)
      BY <2>1, <2>2
    <3> QED
      BY <1>3, <2>2, <3>1 DEF HeardSoon
  <2>3. NeedNow \in Nat
    BY <2>0, NeedIsBounded DEF NeedNow, WatchBits, WatchTimes
  <2>4. ASSUME linked, Watched, steady > InTime PROVE verdict # "none"
    <3>1. ~(steady + NeedNow <= InTime)
      BY <2>1, <2>3, <2>4
    <3> QED
      BY <1>3, <2>4, <3>1 DEF MissedSoon
  <2> QED
    BY <2>2, <2>4 DEF HealthIsTrue, Watched
<1> QED
  BY <1>1, <1>2, <1>3, AskedAlways, PTL DEF WatchSpec

(***************************************************************************)
(* The roster.  A reply is whole only if no line of it was lost: one that  *)
(* lacks a row has fewer lines than its END counts, and what was heard     *)
(* before its first row counts only if that row, the bridge's, was lost    *)
(* itself, and then no other was.                                          *)
(***************************************************************************)

(* The rows that end i of the lines s closes, from m on, and their nodes.  *)
Closes(s, m, i) ==
    /\ s[i].kind = "end"
    /\ \A k \in m .. i - 1 : s[k].kind = "row"
    /\ \A k \in m + 1 .. i - 1 : s[k].node # Bridge
Told(s, m, i) == {s[k].node : k \in m .. i - 1}

(* The boards of o that the client has heard of when line i arrives.       *)
Heeded(s, i, st, o, t) ==
    st \cup {b \in o : \E k \in 1 .. i - 1 :
                          /\ s[k].kind = "row" /\ s[k].node = b
                          /\ s[k].present /\ s[k].stint = t[b]}

(* A reply all of whose lines are there, and what was heard together with  *)
(* the reply that is arriving, tell of each of these boards.               *)
RepliesTell(s, st, o, t) ==
    \A i \in DOMAIN s : \A m \in 1 .. i :
      Closes(s, m, i) /\ s[i].count <= i - m => Heeded(s, i, st, o, t) \subseteq Told(s, m, i)

BurstTells(s, heard, st, o, t) ==
    \A i \in DOMAIN s :
      /\ Closes(s, 1, i)
      /\ i = 1 \/ s[1].node # Bridge
      /\ Cardinality(heard \cup Told(s, 1, i)) = s[i].count
      => Heeded(s, i, st, o, t) \subseteq heard \cup Told(s, 1, i)

(* The lines speak of a board's stays in their order, and of none as       *)
(* absent that is there and that the client has heard of.                  *)
RowsTrue(s, st, o, t) ==
    /\ \A i \in DOMAIN s : s[i].kind = "row" /\ s[i].node \in BusBoards =>
         /\ s[i].stint <= t[s[i].node]
         /\ s[i].node \in o /\ s[i].stint = t[s[i].node] => s[i].present
         /\ s[i].node \in st => s[i].stint = t[s[i].node]
    /\ \A i \in DOMAIN s : \A j \in DOMAIN s :
         i < j /\ s[i].kind = "row" /\ s[j].kind = "row"
           /\ s[i].node = s[j].node /\ s[i].node \in BusBoards
           => s[i].stint <= s[j].stint

Judging == judge \in {"free", "ripe"}

Known == {b \in on : cache[b] = "present"}
BridgeKnows ==
    /\ \A b \in on : cache[b] # "absent" /\ stint[b] >= 1
    /\ \A b \in BusBoards : cache[b] = "present" => b \in on

(* Of a board that the bridge does not list while the client judges, as     *)
(* after a restart of its own, the client has not heard, nor will it from   *)
(* the lines on their way.                                                  *)
Unheard(s, b, t) ==
    \A i \in DOMAIN s : s[i].kind = "row" /\ s[i].node = b => s[i].stint # t[b]
KnownHeard ==
    Judging => \A b \in on : cache[b] # "present" => b \notin stays /\ Unheard(lines, b, stint)
NotYetDue == judge = "waiting" => asked # "due"
LinesTrue == RowsTrue(lines, stays, on, stint)
BurstShown == \A b \in burst \cap BusBoards : shown[b] # "none"
LinesTell ==
    Judging => /\ RepliesTell(lines, stays, on, stint)
               /\ BurstTells(lines, burst, stays, on, stint)

RosterInv ==
    /\ BridgeKnows /\ KnownHeard /\ NotYetDue /\ LinesTrue /\ BurstShown /\ LinesTell
    /\ StaysShown

(* What is appended: its rows say how it is now, and its END, if it has     *)
(* one, comes after a row for each board that is there.                     *)
SpeaksTruly(new, o, t) ==
    \A i \in DOMAIN new : new[i].kind = "row" /\ new[i].node \in BusBoards =>
      /\ new[i].stint = t[new[i].node]
      /\ new[i].node \in o => new[i].present
TellsAll(new, o) ==
    \A i \in DOMAIN new : new[i].kind = "end" =>
      /\ \A m \in 1 .. i :
           Closes(new, m, i) /\ new[i].count <= i - m => o \subseteq Told(new, m, i)
      /\ (\A k \in 1 .. i - 1 : new[k].kind = "row" /\ new[k].node # Bridge)
           => o \subseteq Told(new, 1, i)

(* The stays go on, end or begin: a board that comes has a later stint.     *)
GoesOn(o, t, o2, t2) ==
    /\ t \in [BusBoards -> Nat] /\ t2 \in [BusBoards -> Nat]
    /\ o \subseteq BusBoards /\ o2 \subseteq BusBoards
    /\ \A b \in BusBoards : t2[b] >= t[b]
    /\ \A b \in o2 : t2[b] > t[b] \/ (b \in o /\ t2[b] = t[b])

LEMMA RowHasStint ==
    ASSUME NEW l \in Lines, l.kind = "row"
    PROVE  l.stint \in Nat /\ l.present \in BOOLEAN /\ l.node \in Nodes
BY BoundsAssumption DEF BoundsAssumption, Lines

(* A reply is told of by no more nodes than it has rows.                    *)
LEMMA ToldCount ==
    ASSUME NEW s, NEW i \in Nat, NEW m \in 1 .. i
    PROVE  Cardinality(Told(s, m, i)) \in Nat /\ Cardinality(Told(s, m, i)) <= i - m
<1> DEFINE f == [k \in m .. i - 1 |-> s[k].node]
<1>1. IsFiniteSet(m .. i - 1) /\ Cardinality(m .. i - 1) = i - m
  BY FS_Interval
<1>2. f \in Surjection(m .. i - 1, Told(s, m, i))
  BY DEF Surjection, Told
<1>3. IsFiniteSet(Told(s, m, i)) /\ Cardinality(Told(s, m, i)) <= i - m
  BY <1>1, <1>2, FS_Surjection
<1> QED
  BY <1>3, FS_CardinalityType

LEMMA AppendedLines ==
    ASSUME NEW s \in Seq(Lines), NEW new \in Seq(Lines)
    PROVE  /\ s \o new \in Seq(Lines)
           /\ Len(s) \in Nat /\ Len(new) \in Nat
           /\ Len(s \o new) = Len(s) + Len(new)
           /\ DOMAIN s = 1 .. Len(s) /\ DOMAIN new = 1 .. Len(new)
           /\ DOMAIN (s \o new) = 1 .. Len(s) + Len(new)
           /\ \A i \in 1 .. Len(s) : (s \o new)[i] = s[i]
           /\ \A i \in 1 .. Len(new) : (s \o new)[Len(s) + i] = new[i]
           /\ \A i \in 1 .. Len(s) : s[i] \in Lines
           /\ \A i \in 1 .. Len(new) : new[i] \in Lines
OBVIOUS

LEMMA AppendRows ==
    ASSUME NEW s \in Seq(Lines), NEW new \in Seq(Lines),
           NEW st, NEW o, NEW t, NEW st2, NEW o2, NEW t2,
           RowsTrue(s, st, o, t), GoesOn(o, t, o2, t2), SpeaksTruly(new, o2, t2),
           st2 \subseteq st, \A b \in st2 : t2[b] = t[b]
    PROVE  RowsTrue(s \o new, st2, o2, t2)
<1> DEFINE all == s \o new
<1>1. ASSUME NEW i \in DOMAIN all, all[i].kind = "row", all[i].node \in BusBoards
      PROVE  /\ all[i].stint <= t2[all[i].node]
             /\ all[i].node \in o2 /\ all[i].stint = t2[all[i].node] => all[i].present
             /\ all[i].node \in st2 => all[i].stint = t2[all[i].node]
  <2>1. CASE i \in 1 .. Len(s)
    <3>1. i \in DOMAIN s /\ all[i] = s[i] /\ s[i] \in Lines
      BY <2>1, AppendedLines
    <3>2. s[i].stint \in Nat
      BY <1>1, <3>1, RowHasStint
    <3>3. /\ s[i].stint <= t[s[i].node]
          /\ s[i].node \in o /\ s[i].stint = t[s[i].node] => s[i].present
          /\ s[i].node \in st => s[i].stint = t[s[i].node]
      BY <1>1, <3>1 DEF RowsTrue
    <3>4. s[i].node \in BusBoards
      BY <1>1, <3>1
    <3>5. t[s[i].node] \in Nat /\ t2[s[i].node] \in Nat /\ t2[s[i].node] >= t[s[i].node]
      BY <3>4 DEF GoesOn
    <3>6. s[i].stint <= t2[s[i].node]
      BY <3>2, <3>3, <3>5
    <3>7. ASSUME s[i].node \in o2, s[i].stint = t2[s[i].node] PROVE s[i].present
      <4>1. ~(t2[s[i].node] > t[s[i].node])
        BY <3>2, <3>3, <3>5, <3>7
      <4>2. s[i].node \in o /\ t2[s[i].node] = t[s[i].node]
        BY <4>1, <3>7 DEF GoesOn
      <4> QED
        BY <4>2, <3>3, <3>7
    <3>8. s[i].node \in st2 => s[i].stint = t2[s[i].node]
      BY <3>3
    <3> QED
      BY <3>1, <3>6, <3>7, <3>8
  <2>2. CASE i \notin 1 .. Len(s)
    <3>1. i - Len(s) \in 1 .. Len(new) /\ Len(s) + (i - Len(s)) = i
      BY <2>2, AppendedLines
    <3>2. all[i] = new[i - Len(s)] /\ i - Len(s) \in DOMAIN new
      BY <3>1, AppendedLines
    <3>3. /\ new[i - Len(s)].stint = t2[new[i - Len(s)].node]
          /\ new[i - Len(s)].node \in o2 => new[i - Len(s)].present
      BY <1>1, <3>2 DEF SpeaksTruly
    <3>4. t2[all[i].node] \in Nat
      BY <1>1 DEF GoesOn
    <3> QED
      BY <3>2, <3>3, <3>4
  <2> QED
    BY <2>1, <2>2
<1>2. ASSUME NEW i \in DOMAIN all, NEW j \in DOMAIN all, i < j,
             all[i].kind = "row", all[j].kind = "row", all[i].node = all[j].node, all[i].node \in BusBoards
      PROVE  all[i].stint <= all[j].stint
  <2>0. i \in 1 .. Len(s) + Len(new) /\ j \in 1 .. Len(s) + Len(new) /\ Len(s) \in Nat
    BY AppendedLines
  <2>1. CASE j \in 1 .. Len(s)
    <3>1. i \in DOMAIN s /\ j \in DOMAIN s /\ all[i] = s[i] /\ all[j] = s[j]
      BY <1>2, <2>0, <2>1, AppendedLines
    <3> QED
      BY <1>2, <3>1 DEF RowsTrue
  <2>2. CASE j \notin 1 .. Len(s)
    <3>1. j - Len(s) \in 1 .. Len(new) /\ Len(s) + (j - Len(s)) = j
      BY <2>0, <2>2
    <3>2. all[j] = new[j - Len(s)] /\ j - Len(s) \in DOMAIN new
      BY <3>1, AppendedLines
    <3>3. all[j].stint = t2[all[j].node]
      BY <1>2, <2>2, <3>2 DEF SpeaksTruly
    <3> QED
      BY <1>1, <1>2, <2>2, <3>3
  <2> QED
    BY <2>1, <2>2
<1> QED
  BY <1>1, <1>2 DEF RowsTrue

(* To what was there already nothing is added that the client heeds: who    *)
(* came since has another stint.                                            *)
LEMMA HeedsNoMore ==
    ASSUME NEW s \in Seq(Lines), NEW new \in Seq(Lines),
           NEW st, NEW o, NEW t, NEW st2, NEW o2, NEW t2,
           RowsTrue(s, st, o, t), GoesOn(o, t, o2, t2), st2 \subseteq st,
           NEW i \in 1 .. Len(s)
    PROVE  Heeded(s \o new, i, st2, o2, t2) \subseteq Heeded(s, i, st, o, t)
<1> SUFFICES ASSUME NEW b \in o2, NEW k \in 1 .. i - 1,
                    (s \o new)[k].kind = "row", (s \o new)[k].node = b,
                    (s \o new)[k].present, (s \o new)[k].stint = t2[b]
             PROVE  b \in o /\ s[k].kind = "row" /\ s[k].node = b /\ s[k].present
                    /\ s[k].stint = t[b]
  BY DEF Heeded
<1>1. k \in 1 .. Len(s)
  BY AppendedLines
<1>2. (s \o new)[k] = s[k] /\ s[k] \in Lines /\ k \in DOMAIN s
  BY <1>1, AppendedLines
<1>3. b \in BusBoards /\ t[b] \in Nat /\ t2[b] \in Nat
  BY DEF GoesOn
<1>4. s[k].stint <= t[b]
  BY <1>2, <1>3 DEF RowsTrue
<1>5. ~(t2[b] > t[b])
  BY <1>2, <1>3, <1>4
<1>6. b \in o /\ t2[b] = t[b]
  BY <1>5 DEF GoesOn
<1> QED
  BY <1>2, <1>6

LEMMA HeedsTheKnown ==
    ASSUME NEW s \in Seq(Lines), NEW i \in DOMAIN s, NEW st, NEW o, NEW t, NEW k, st \subseteq o,
           \A b \in o : b \notin k => b \notin st /\ Unheard(s, b, t)
    PROVE  Heeded(s, i, st, o, t) \subseteq k
<1>1. \A j \in 1 .. i - 1 : j \in DOMAIN s
  OBVIOUS
<1> QED
  BY <1>1 DEF Heeded, Unheard

(* Nobody is heeded of whom no line speaks.                                 *)
LEMMA NobodyHeeded ==
    ASSUME NEW s \in Seq(Lines), NEW h, NEW o, NEW t, o \subseteq BusBoards,
           t \in [BusBoards -> Nat], \A b \in o : t[b] >= 1,
           \A i \in DOMAIN s : s[i].kind = "row" /\ s[i].node \in BusBoards => s[i].stint = 0
    PROVE  /\ RowsTrue(s, {}, o, t) /\ RepliesTell(s, {}, o, t) /\ BurstTells(s, h, {}, o, t)
           /\ \A b \in o : Unheard(s, b, t)
<1>1. RowsTrue(s, {}, o, t)
  BY DEF RowsTrue
<1>2. \A b \in o : Unheard(s, b, t)
  BY DEF Unheard
<1>3. ASSUME NEW i \in DOMAIN s PROVE Heeded(s, i, {}, o, t) \subseteq {}
  <2>1. \A j \in 1 .. i - 1 : j \in DOMAIN s
    OBVIOUS
  <2> QED
    BY <1>2, <2>1 DEF Heeded, Unheard
<1> QED
  BY <1>1, <1>2, <1>3 DEF RepliesTell, BurstTells

LEMMA ForgottenLines ==
    ASSUME NEW s \in Seq(Lines)
    PROVE  /\ Forgotten(s) \in Seq(Lines) /\ DOMAIN Forgotten(s) = DOMAIN s
           /\ \A i \in DOMAIN s : Forgotten(s)[i].kind = "row" => Forgotten(s)[i].stint = 0
<1>1. ASSUME NEW l \in Lines, l.kind = "row"
      PROVE  /\ [l EXCEPT !.stint = 0] \in Lines /\ [l EXCEPT !.stint = 0].stint = 0
  <2>1. l \in [kind : {"row"}, node : Nodes, present : BOOLEAN, stint : 0 .. MaxStints]
    BY <1>1 DEF Lines
  <2>2. [l EXCEPT !.stint = 0]
          \in [kind : {"row"}, node : Nodes, present : BOOLEAN, stint : 0 .. MaxStints]
    BY <2>1, BoundsAssumption DEF BoundsAssumption
  <2> QED
    BY <2>1, <2>2 DEF Lines
<1> DEFINE F(l) == IF l.kind = "row" THEN [l EXCEPT !.stint = 0] ELSE l
<1>2. ASSUME NEW l \in Lines PROVE F(l) \in Lines /\ (F(l).kind = "row" => F(l).stint = 0)
  <2>1. CASE l.kind = "row"
    BY <1>1, <2>1
  <2>2. CASE l.kind # "row"
    BY <2>2
  <2> QED
    BY <2>1, <2>2
<1>3. Forgotten(s) = [i \in DOMAIN s |-> F(s[i])]
  BY DEF Forgotten
<1> HIDE DEF F
<1>4. \A i \in DOMAIN s : s[i] \in Lines
  OBVIOUS
<1>5. [i \in DOMAIN s |-> F(s[i])] \in Seq(Lines)
  BY <1>2, <1>4
<1> QED
  BY <1>2, <1>3, <1>4, <1>5

(* The lines before what is appended close what they closed.                *)
LEMMA ClosesAsBefore ==
    ASSUME NEW s \in Seq(Lines), NEW new \in Seq(Lines),
           NEW i \in 1 .. Len(s), NEW m \in 1 .. i
    PROVE  /\ Closes(s \o new, m, i) <=> Closes(s, m, i)
           /\ Told(s \o new, m, i) = Told(s, m, i)
           /\ (s \o new)[i] = s[i]
<1>1. \A k \in m .. i : (s \o new)[k] = s[k]
  BY AppendedLines
<1>2. Closes(s \o new, m, i) <=> Closes(s, m, i)
  BY <1>1 DEF Closes
<1> QED
  BY <1>1, <1>2 DEF Told

(* The place of an appended line among those a reply runs over.             *)
LEMMA PlaceOfAppended ==
    ASSUME NEW l \in Nat, NEW k \in Nat, NEW m \in Nat, NEW i \in Nat, l + k <= i - 1, m <= l + k
    PROVE  l + k \in m .. i - 1 /\ (l + k \in m + 1 .. i - 1 \/ l + k = m)
  OBVIOUS

(* An END that is appended closes a reply that begins in what is appended,  *)
(* or one of which it has all rows.                                         *)
LEMMA NewCloses ==
    ASSUME NEW s \in Seq(Lines), NEW new \in Seq(Lines), NEW o, TellsAll(new, o),
           NEW i \in 1 .. Len(s) + Len(new), i \notin 1 .. Len(s), NEW m \in 1 .. i,
           Closes(s \o new, m, i),
           (s \o new)[i].count <= i - m \/ (m <= Len(s) + 1 /\ (m = i \/ (s \o new)[m].node # Bridge))
    PROVE  o \subseteq Told(s \o new, m, i)
<1> DEFINE e == i - Len(s)
<1>0. Len(s) \in Nat /\ Len(new) \in Nat
  BY AppendedLines
<1>1. e \in 1 .. Len(new) /\ e \in DOMAIN new /\ (s \o new)[i] = new[e] /\ new[e].kind = "end"
  <2>1. e \in 1 .. Len(new) /\ Len(s) + e = i
    BY <1>0
  <2> QED
    BY <2>1, AppendedLines DEF Closes
<1>2. ASSUME NEW k \in 1 .. e - 1
      PROVE  (s \o new)[Len(s) + k] = new[k] /\ Len(s) + k \in 1 .. i - 1
  <2>1. k \in 1 .. Len(new) /\ Len(s) + k \in 1 .. i - 1
    BY <1>0, <1>1
  <2> QED
    BY <2>1, AppendedLines
<1>3. CASE m > Len(s) /\ (s \o new)[i].count <= i - m
  <2> DEFINE n == m - Len(s)
  <2>1. n \in 1 .. e /\ e - n = i - m /\ Len(s) + n = m
    BY <1>0, <1>1, <1>3
  <2>2. \A k \in n .. e - 1 : (s \o new)[Len(s) + k] = new[k] /\ Len(s) + k \in m .. i - 1
    BY <1>0, <1>2, <2>1
  <2>3. Closes(new, n, e)
    <3>1. \A k \in n .. e - 1 : new[k].kind = "row"
      BY <2>2 DEF Closes
    <3>2. ASSUME NEW k \in n + 1 .. e - 1
          PROVE  k \in n .. e - 1 /\ Len(s) + k \in m + 1 .. i - 1
      <4>0. i \in Nat /\ m \in Nat /\ Len(s) \in Nat
        BY <1>0
      <4>1. k \in Nat /\ m \in Nat /\ i \in Nat /\ Len(s) \in Nat
        <5>1. e \in Nat /\ n \in 1 .. e
          BY <1>1, <2>1
        <5> HIDE DEF e, n
        <5>2. k \in Nat
          BY <5>1
        <5> QED
          BY <4>0, <5>2
      <4>2. n + 1 <= k /\ k <= e - 1 /\ e = i - Len(s) /\ n = m - Len(s)
        BY <1>0, <2>1, <4>1
      <4> HIDE DEF e, n
      <4>3. n <= k /\ Len(s) + k <= i - 1 /\ m + 1 <= Len(s) + k
        BY <4>1, <4>2
      <4> QED
        BY <1>1, <2>1, <4>1, <4>2, <4>3
    <3>3. \A k \in n + 1 .. e - 1 : new[k].node # Bridge
      BY <2>2, <3>2 DEF Closes
    <3> QED
      BY <1>1, <3>1, <3>3 DEF Closes
  <2>4. new[e].count <= e - n
    BY <1>1, <1>3, <2>1
  <2>5. o \subseteq Told(new, n, e)
    BY <1>1, <2>1, <2>3, <2>4 DEF TellsAll
  <2>6. Told(new, n, e) \subseteq Told(s \o new, m, i)
    <3> SUFFICES ASSUME NEW k \in n .. e - 1
                 PROVE  \E j \in m .. i - 1 : new[k].node = (s \o new)[j].node
      BY DEF Told
    <3> QED
      BY <2>2
  <2> QED
    BY <2>5, <2>6
<1>4. CASE m <= Len(s) \/ (m = Len(s) + 1 /\ (m = i \/ (s \o new)[m].node # Bridge))
  <2>1. ASSUME NEW k \in 1 .. e - 1
        PROVE  new[k].kind = "row" /\ new[k].node # Bridge /\ Len(s) + k \in m .. i - 1
    <3>1. Len(s) + k \in m .. i - 1 /\ (Len(s) + k \in m + 1 .. i - 1 \/ Len(s) + k = m)
      <4>1. k \in Nat \ {0} /\ m \in Nat /\ i \in Nat /\ Len(s) \in Nat
        BY <1>0, <1>1
      <4>2. k <= e - 1 /\ e = i - Len(s) /\ m <= Len(s) + 1
        BY <1>0, <1>1, <1>4, <4>1
      <4> HIDE DEF e
      <4>3. Len(s) + k <= i - 1 /\ m <= Len(s) + k
        BY <4>1, <4>2
      <4>4. k \in Nat
        BY <4>1
      <4> QED
        BY <4>1, <4>3, <4>4, PlaceOfAppended
    <3>2. Len(s) + k = m => (s \o new)[m].node # Bridge
      BY <1>0, <1>4, <3>1
    <3> QED
      BY <1>2, <3>1, <3>2 DEF Closes
  <2>2. o \subseteq Told(new, 1, e)
    BY <1>1, <2>1 DEF TellsAll
  <2>3. Told(new, 1, e) \subseteq Told(s \o new, m, i)
    <3> SUFFICES ASSUME NEW k \in 1 .. e - 1
                 PROVE  \E j \in m .. i - 1 : new[k].node = (s \o new)[j].node
      BY DEF Told
    <3> QED
      BY <1>2, <2>1
  <2> QED
    BY <2>2, <2>3
<1> QED
  BY <1>0, <1>3, <1>4

LEMMA AppendTells ==
    ASSUME NEW s \in Seq(Lines), NEW new \in Seq(Lines), NEW h,
           NEW st, NEW o, NEW t, NEW st2, NEW o2, NEW t2,
           RowsTrue(s, st, o, t), GoesOn(o, t, o2, t2), st2 \subseteq st,
           NEW known, TellsAll(new, known),
           \A i \in DOMAIN (s \o new) : Heeded(s \o new, i, st2, o2, t2) \subseteq known,
           RepliesTell(s, st, o, t), BurstTells(s, h, st, o, t)
    PROVE  RepliesTell(s \o new, st2, o2, t2) /\ BurstTells(s \o new, h, st2, o2, t2)
<1> DEFINE all == s \o new
<1>0. /\ DOMAIN all = 1 .. Len(s) + Len(new) /\ Len(s) \in Nat /\ Len(new) \in Nat
      /\ DOMAIN s = 1 .. Len(s)
  BY AppendedLines
<1>1. ASSUME NEW i \in DOMAIN all, NEW m \in 1 .. i, Closes(all, m, i), all[i].count <= i - m
      PROVE  Heeded(all, i, st2, o2, t2) \subseteq Told(all, m, i)
  <2>1. CASE i \in 1 .. Len(s)
    <3>1. Closes(s, m, i) /\ Told(all, m, i) = Told(s, m, i) /\ all[i] = s[i]
      BY <1>1, <2>1, ClosesAsBefore
    <3>2. Heeded(s, i, st, o, t) \subseteq Told(s, m, i)
      BY <1>0, <1>1, <2>1, <3>1 DEF RepliesTell
    <3> QED
      BY <2>1, <3>1, <3>2, HeedsNoMore
  <2>2. CASE i \notin 1 .. Len(s)
    <3>1. known \subseteq Told(all, m, i)
      BY <1>0, <1>1, <2>2, NewCloses
    <3> QED
      BY <3>1
  <2> QED
    BY <2>1, <2>2
<1>2. ASSUME NEW i \in DOMAIN all, Closes(all, 1, i), i = 1 \/ all[1].node # Bridge,
             Cardinality(h \cup Told(all, 1, i)) = all[i].count
      PROVE  Heeded(all, i, st2, o2, t2) \subseteq h \cup Told(all, 1, i)
  <2>0. 1 \in 1 .. i
    BY <1>0
  <2>1. CASE i \in 1 .. Len(s)
    <3>1. Closes(s, 1, i) /\ Told(all, 1, i) = Told(s, 1, i) /\ all[i] = s[i]
      BY <1>2, <2>0, <2>1, ClosesAsBefore
    <3>2. i = 1 \/ s[1].node # Bridge
      <4>1. 1 \in 1 .. Len(s)
        BY <1>0, <2>1
      <4> QED
        BY <1>2, <4>1, AppendedLines
    <3>3. Heeded(s, i, st, o, t) \subseteq h \cup Told(s, 1, i)
      BY <1>0, <1>2, <2>1, <3>1, <3>2 DEF BurstTells
    <3> QED
      BY <2>1, <3>1, <3>3, HeedsNoMore
  <2>2. CASE i \notin 1 .. Len(s)
    <3>1. known \subseteq Told(all, 1, i)
      BY <1>0, <1>2, <2>0, <2>2, NewCloses
    <3> QED
      BY <3>1
  <2> QED
    BY <2>1, <2>2
<1> QED
  BY <1>1, <1>2 DEF RepliesTell, BurstTells

(* A poll that forgets what was heard leaves only what is still to come,    *)
(* which is whole only if the reply is all there.                           *)
LEMMA NothingHeardTells ==
    ASSUME NEW s \in Seq(Lines), NEW st, NEW o, NEW t, RepliesTell(s, st, o, t)
    PROVE  BurstTells(s, {}, st, o, t)
<1> SUFFICES ASSUME NEW i \in DOMAIN s, Closes(s, 1, i),
                    Cardinality({} \cup Told(s, 1, i)) = s[i].count
             PROVE  Heeded(s, i, st, o, t) \subseteq {} \cup Told(s, 1, i)
  BY DEF BurstTells
<1>1. i \in Nat /\ 1 \in 1 .. i
  OBVIOUS
<1>2. {} \cup Told(s, 1, i) = Told(s, 1, i)
  OBVIOUS
<1>3. s[i].count <= i - 1
  BY <1>1, <1>2, ToldCount
<1> QED
  BY <1>1, <1>2, <1>3 DEF RepliesTell

LEMMA RestOfLines ==
    ASSUME NEW s \in Seq(Lines), s # <<>>
    PROVE  /\ Tail(s) \in Seq(Lines) /\ Len(s) \in Nat \ {0} /\ Len(Tail(s)) = Len(s) - 1
           /\ DOMAIN s = 1 .. Len(s) /\ DOMAIN Tail(s) = 1 .. Len(s) - 1
           /\ \A i \in 1 .. Len(s) - 1 : Tail(s)[i] = s[i + 1]
           /\ Head(s) = s[1] /\ \A i \in 1 .. Len(s) : s[i] \in Lines
OBVIOUS

LEMMA RestUnheard ==
    ASSUME NEW s \in Seq(Lines), s # <<>>, NEW b, NEW t, Unheard(s, b, t)
    PROVE  Unheard(Tail(s), b, t)
<1>1. \A i \in DOMAIN Tail(s) : i + 1 \in DOMAIN s /\ Tail(s)[i] = s[i + 1]
  BY RestOfLines
<1> QED
  BY <1>1 DEF Unheard

LEMMA RestCloses ==
    ASSUME NEW s \in Seq(Lines), s # <<>>,
           NEW i \in 1 .. Len(s) - 1, NEW m \in 1 .. i
    PROVE  /\ Closes(Tail(s), m, i) <=> Closes(s, m + 1, i + 1)
           /\ Told(Tail(s), m, i) = Told(s, m + 1, i + 1)
           /\ Tail(s)[i] = s[i + 1]
<1>0. Len(s) \in Nat \ {0} /\ i \in Nat /\ m \in Nat
  BY RestOfLines
<1>1. \A k \in m .. i : Tail(s)[k] = s[k + 1]
  BY <1>0, RestOfLines
<1>2. \A k \in m + 1 .. i + 1 : k - 1 \in m .. i /\ s[k] = Tail(s)[k - 1]
  BY <1>0, <1>1
<1>3. Closes(Tail(s), m, i) => Closes(s, m + 1, i + 1)
  <2> SUFFICES ASSUME Closes(Tail(s), m, i) PROVE Closes(s, m + 1, i + 1)
    OBVIOUS
  <2>1. s[i + 1].kind = "end"
    BY <1>0, <1>1 DEF Closes
  <2>2. ASSUME NEW k \in m + 1 .. i + 1 - 1 PROVE s[k].kind = "row"
    <3>1. k - 1 \in m .. i - 1 /\ s[k] = Tail(s)[k - 1]
      BY <1>0, <1>2
    <3> QED
      BY <3>1 DEF Closes
  <2>3. ASSUME NEW k \in m + 1 + 1 .. i + 1 - 1 PROVE s[k].node # Bridge
    <3>1. k - 1 \in m + 1 .. i - 1 /\ s[k] = Tail(s)[k - 1]
      BY <1>0, <1>2
    <3> QED
      BY <3>1 DEF Closes
  <2> QED
    BY <2>1, <2>2, <2>3 DEF Closes
<1>4. Closes(s, m + 1, i + 1) => Closes(Tail(s), m, i)
  <2> SUFFICES ASSUME Closes(s, m + 1, i + 1) PROVE Closes(Tail(s), m, i)
    OBVIOUS
  <2>1. Tail(s)[i].kind = "end"
    BY <1>0, <1>1 DEF Closes
  <2>2. ASSUME NEW k \in m .. i - 1 PROVE Tail(s)[k].kind = "row"
    <3>1. k + 1 \in m + 1 .. i + 1 - 1 /\ s[k + 1] = Tail(s)[k]
      BY <1>0, <1>1
    <3> QED
      BY <3>1 DEF Closes
  <2>3. ASSUME NEW k \in m + 1 .. i - 1 PROVE Tail(s)[k].node # Bridge
    <3>1. k + 1 \in m + 1 + 1 .. i + 1 - 1 /\ s[k + 1] = Tail(s)[k]
      BY <1>0, <1>1
    <3> QED
      BY <3>1 DEF Closes
  <2> QED
    BY <2>1, <2>2, <2>3 DEF Closes
<1>5. Told(Tail(s), m, i) \subseteq Told(s, m + 1, i + 1)
  <2> SUFFICES ASSUME NEW k \in m .. i - 1
               PROVE  \E j \in m + 1 .. i + 1 - 1 : Tail(s)[k].node = s[j].node
    BY DEF Told
  <2>1. k + 1 \in m + 1 .. i + 1 - 1 /\ s[k + 1] = Tail(s)[k]
    BY <1>0, <1>1
  <2> QED
    BY <2>1
<1>6. Told(s, m + 1, i + 1) \subseteq Told(Tail(s), m, i)
  <2> SUFFICES ASSUME NEW k \in m + 1 .. i + 1 - 1
               PROVE  \E j \in m .. i - 1 : s[k].node = Tail(s)[j].node
    BY DEF Told
  <2>1. k - 1 \in m .. i - 1 /\ s[k] = Tail(s)[k - 1]
    BY <1>0, <1>2
  <2> QED
    BY <2>1
<1>7. Tail(s)[i] = s[i + 1]
  BY <1>0, <1>1
<1>8. Told(Tail(s), m, i) = Told(s, m + 1, i + 1)
  BY <1>5, <1>6
<1> QED
  BY <1>3, <1>4, <1>7, <1>8

(* The stays after a row was heard.                                         *)
HeardOf(l, st, o, t) == st \cup {b \in o : b = l.node /\ l.present /\ l.stint = t[b]}

LEMMA RestHeeds ==
    ASSUME NEW s \in Seq(Lines), s # <<>>, NEW i \in 1 .. Len(s) - 1,
           NEW st, NEW o, NEW t, NEW st2,
           st2 = st \/ (s[1].kind = "row" /\ st2 = HeardOf(s[1], st, o, t))
    PROVE  Heeded(Tail(s), i, st2, o, t) \subseteq Heeded(s, i + 1, st, o, t)
<1>0. Len(s) \in Nat \ {0} /\ i \in Nat
  BY RestOfLines
<1>1. ASSUME NEW b \in o, NEW k \in 1 .. i - 1, Tail(s)[k].kind = "row", Tail(s)[k].node = b,
             Tail(s)[k].present, Tail(s)[k].stint = t[b]
      PROVE  b \in Heeded(s, i + 1, st, o, t)
  <2>1. k + 1 \in 1 .. i + 1 - 1 /\ s[k + 1] = Tail(s)[k]
    BY <1>0, RestOfLines
  <2> QED
    BY <1>1, <2>1 DEF Heeded
<1>2. ASSUME NEW b \in st2 PROVE b \in Heeded(s, i + 1, st, o, t)
  <2>1. 1 \in 1 .. i + 1 - 1
    BY <1>0
  <2> QED
    BY <1>2, <2>1 DEF Heeded, HeardOf
<1> QED
  BY <1>1, <1>2 DEF Heeded

LEMMA RestRows ==
    ASSUME NEW s \in Seq(Lines), s # <<>>, NEW st, NEW o, NEW t, NEW st2,
           RowsTrue(s, st, o, t), t \in [BusBoards -> Nat], o \subseteq BusBoards,
           st2 = st \/ (s[1].kind = "row" /\ st2 = HeardOf(s[1], st, o, t))
    PROVE  RowsTrue(Tail(s), st2, o, t)
<1> DEFINE r == Tail(s)
<1>0. Len(s) \in Nat \ {0} /\ DOMAIN s = 1 .. Len(s) /\ DOMAIN r = 1 .. Len(s) - 1
  BY RestOfLines
<1>1. ASSUME NEW i \in DOMAIN r PROVE i + 1 \in DOMAIN s /\ r[i] = s[i + 1] /\ i \in Nat
  BY <1>0, RestOfLines
<1>2. ASSUME NEW i \in DOMAIN r, r[i].kind = "row", r[i].node \in BusBoards
      PROVE  /\ r[i].stint <= t[r[i].node]
             /\ r[i].node \in o /\ r[i].stint = t[r[i].node] => r[i].present
             /\ r[i].node \in st2 => r[i].stint = t[r[i].node]
  <2>1. /\ s[i + 1].stint <= t[s[i + 1].node]
        /\ s[i + 1].node \in o /\ s[i + 1].stint = t[s[i + 1].node] => s[i + 1].present
        /\ s[i + 1].node \in st => s[i + 1].stint = t[s[i + 1].node]
    BY <1>1, <1>2 DEF RowsTrue
  <2>2. CASE r[i].node \in st2 /\ r[i].node \notin st
    <3>1. s[1].kind = "row" /\ s[1].node = r[i].node /\ s[1].stint = t[r[i].node]
      BY <2>2 DEF HeardOf
    <3>2. 1 \in DOMAIN s /\ 1 < i + 1
      BY <1>0, <1>1
    <3>3. s[1].stint <= s[i + 1].stint
      BY <1>1, <1>2, <3>1, <3>2 DEF RowsTrue
    <3>4. s[i + 1].stint \in Nat /\ t[r[i].node] \in Nat
      BY <1>0, <1>1, <1>2, RestOfLines, RowHasStint
    <3> QED
      BY <1>1, <2>1, <3>1, <3>3, <3>4
  <2> QED
    BY <1>1, <2>1, <2>2
<1>3. ASSUME NEW i \in DOMAIN r, NEW j \in DOMAIN r, i < j, r[i].kind = "row",
             r[j].kind = "row", r[i].node = r[j].node, r[i].node \in BusBoards
      PROVE  r[i].stint <= r[j].stint
  <2>1. i + 1 < j + 1
    BY <1>1, <1>3
  <2> QED
    BY <1>1, <1>3, <2>1 DEF RowsTrue
<1> QED
  BY <1>2, <1>3 DEF RowsTrue

LEMMA RestTells ==
    ASSUME NEW s \in Seq(Lines), s # <<>>, NEW st, NEW o, NEW t, NEW st2,
           RepliesTell(s, st, o, t),
           st2 = st \/ (s[1].kind = "row" /\ st2 = HeardOf(s[1], st, o, t))
    PROVE  RepliesTell(Tail(s), st2, o, t)
<1> SUFFICES ASSUME NEW i \in 1 .. Len(s) - 1, NEW m \in 1 .. i,
                    Closes(Tail(s), m, i), Tail(s)[i].count <= i - m
             PROVE  Heeded(Tail(s), i, st2, o, t) \subseteq Told(Tail(s), m, i)
  BY RestOfLines DEF RepliesTell
<1>0. Len(s) \in Nat \ {0} /\ i \in Nat /\ m \in Nat
  BY RestOfLines
<1>1. i + 1 \in DOMAIN s /\ m + 1 \in 1 .. i + 1 /\ (i + 1) - (m + 1) = i - m
  BY <1>0, RestOfLines
<1>2. Closes(s, m + 1, i + 1) /\ Told(Tail(s), m, i) = Told(s, m + 1, i + 1)
      /\ Tail(s)[i] = s[i + 1]
  BY RestCloses
<1>3. s[i + 1].count <= (i + 1) - (m + 1)
  BY <1>1, <1>2
<1>4. Heeded(s, i + 1, st, o, t) \subseteq Told(s, m + 1, i + 1)
  BY <1>1, <1>2, <1>3 DEF RepliesTell
<1> QED
  BY <1>2, <1>4, RestHeeds

(* A row that is heard joins what was heard, or begins it anew.             *)
LEMMA HeardTells ==
    ASSUME NEW s \in Seq(Lines), s # <<>>, s[1].kind = "row",
           NEW h, NEW st, NEW o, NEW t,
           RepliesTell(s, st, o, t), BurstTells(s, h, st, o, t)
    PROVE  BurstTells(Tail(s), (IF s[1].node = Bridge THEN {} ELSE h) \cup {s[1].node},
                      HeardOf(s[1], st, o, t), o, t)
<1> DEFINE h2 == (IF s[1].node = Bridge THEN {} ELSE h) \cup {s[1].node}
           st2 == HeardOf(s[1], st, o, t)
<1> SUFFICES ASSUME NEW i \in 1 .. Len(s) - 1, Closes(Tail(s), 1, i),
                    i = 1 \/ Tail(s)[1].node # Bridge,
                    Cardinality(h2 \cup Told(Tail(s), 1, i)) = Tail(s)[i].count
             PROVE  Heeded(Tail(s), i, st2, o, t) \subseteq h2 \cup Told(Tail(s), 1, i)
  BY RestOfLines DEF BurstTells
<1>0. Len(s) \in Nat \ {0} /\ i \in Nat /\ 1 \in 1 .. i
  BY RestOfLines
<1>1. i + 1 \in DOMAIN s /\ i + 1 # 1 /\ 1 \in 1 .. i + 1
  BY <1>0, RestOfLines
<1>2. Closes(s, 2, i + 1) /\ Told(Tail(s), 1, i) = Told(s, 2, i + 1)
      /\ Tail(s)[i] = s[i + 1]
  BY <1>0, RestCloses
<1>3. Closes(s, 1, i + 1)
  <2>1. \A k \in 1 .. i + 1 - 1 : s[k].kind = "row"
    <3> SUFFICES ASSUME NEW k \in 1 .. i + 1 - 1 PROVE s[k].kind = "row"
      OBVIOUS
    <3>1. k = 1 \/ k \in 2 .. i + 1 - 1
      BY <1>0
    <3> QED
      BY <1>2, <3>1 DEF Closes
  <2>2. \A k \in 1 + 1 .. i + 1 - 1 : s[k].node # Bridge
    <3> SUFFICES ASSUME NEW k \in 1 + 1 .. i + 1 - 1 PROVE s[k].node # Bridge
      OBVIOUS
    <3>1. k \in 2 + 1 .. i + 1 - 1 \/ (k = 2 /\ i # 1)
      BY <1>0
    <3>2. i # 1 => Tail(s)[1] = s[2]
      BY <1>0, RestOfLines
    <3> QED
      BY <1>2, <3>1, <3>2 DEF Closes
  <2> QED
    BY <1>2, <2>1, <2>2 DEF Closes
<1>4. Told(s, 1, i + 1) = {s[1].node} \cup Told(s, 2, i + 1)
  <2>1. ASSUME NEW k \in 1 .. i + 1 - 1 PROVE s[k].node \in {s[1].node} \cup Told(s, 2, i + 1)
    <3>1. k = 1 \/ k \in 2 .. i + 1 - 1
      BY <1>0
    <3> QED
      BY <3>1 DEF Told
  <2>2. Told(s, 1, i + 1) \subseteq {s[1].node} \cup Told(s, 2, i + 1)
    BY <2>1 DEF Told
  <2>3. ASSUME NEW k \in 2 .. i + 1 - 1 PROVE s[k].node \in Told(s, 1, i + 1)
    <3>1. k \in 1 .. i + 1 - 1
      BY <1>0
    <3> QED
      BY <3>1 DEF Told
  <2>4. Told(s, 2, i + 1) \subseteq Told(s, 1, i + 1)
    BY <2>3 DEF Told
  <2>5. s[1].node \in Told(s, 1, i + 1)
    <3>1. 1 \in 1 .. i + 1 - 1
      BY <1>0
    <3> QED
      BY <3>1 DEF Told
  <2> QED
    BY <2>2, <2>4, <2>5
<1>5. Heeded(Tail(s), i, st2, o, t) \subseteq Heeded(s, i + 1, st, o, t)
  BY RestHeeds
<1>6. CASE s[1].node = Bridge
  <2>1. h2 \cup Told(Tail(s), 1, i) = Told(s, 1, i + 1)
    BY <1>2, <1>4, <1>6
  <2>2. s[i + 1].count <= (i + 1) - 1
    <3>1. i + 1 \in Nat
      BY <1>0
    <3>2. Cardinality(Told(s, 1, i + 1)) <= (i + 1) - 1
      BY <1>1, <3>1, ToldCount
    <3> QED
      BY <1>2, <2>1, <3>2
  <2>3. Heeded(s, i + 1, st, o, t) \subseteq Told(s, 1, i + 1)
    BY <1>1, <1>3, <2>2 DEF RepliesTell
  <2> QED
    BY <1>5, <2>1, <2>3
<1>7. CASE s[1].node # Bridge
  <2>1. h2 \cup Told(Tail(s), 1, i) = h \cup Told(s, 1, i + 1)
    BY <1>2, <1>4, <1>7
  <2>2. Heeded(s, i + 1, st, o, t) \subseteq h \cup Told(s, 1, i + 1)
    BY <1>1, <1>2, <1>3, <1>7, <2>1 DEF BurstTells
  <2> QED
    BY <1>5, <2>1, <2>2
<1> QED
  BY <1>6, <1>7

LEMMA LessOneLine ==
    ASSUME NEW s \in Seq(Lines), NEW k \in DOMAIN s
    PROVE  /\ Drop(s, k) \in Seq(Lines) /\ Len(s) \in Nat \ {0} /\ k \in 1 .. Len(s)
           /\ Len(Drop(s, k)) = Len(s) - 1
           /\ DOMAIN Drop(s, k) = 1 .. Len(s) - 1
           /\ \A i \in 1 .. k - 1 : Drop(s, k)[i] = s[i]
           /\ \A i \in k .. Len(s) - 1 : Drop(s, k)[i] = s[i + 1]
<1> DEFINE a == SubSeq(s, 1, k - 1)
           b == SubSeq(s, k + 1, Len(s))
<1>1. Len(s) \in Nat /\ k \in 1 .. Len(s) /\ \A i \in 1 .. Len(s) : s[i] \in Lines
  OBVIOUS
<1>2. a \in Seq(Lines) /\ Len(a) = k - 1 /\ \A i \in 1 .. k - 1 : a[i] = s[i]
  BY <1>1, SubSeqProperties
<1>3. b \in Seq(Lines) /\ Len(b) = Len(s) - k /\ \A i \in 1 .. Len(s) - k : b[i] = s[k + i]
  <2>1. k + 1 \in 1 .. Len(s) + 1 /\ Len(s) \in (k + 1) - 1 .. Len(s)
    BY <1>1
  <2>2. \A i \in 1 .. Len(s) - k : (k + 1) + i - 1 = k + i
    BY <1>1
  <2>3. Len(b) = Len(s) - (k + 1) + 1 /\ \A i \in 1 .. Len(s) - (k + 1) + 1 : b[i] = s[(k + 1) + i - 1]
    BY <1>1, <2>1, SubSeqProperties
  <2>4. Len(s) - (k + 1) + 1 = Len(s) - k
    BY <1>1
  <2>5. b \in Seq(Lines)
    BY <1>1, <2>1, SubSeqProperties
  <2> QED
    BY <2>2, <2>3, <2>4, <2>5
<1>4. Drop(s, k) = a \o b
  BY DEF Drop
<1> HIDE DEF a, b
<1>5. Drop(s, k) \in Seq(Lines) /\ Len(Drop(s, k)) = Len(s) - 1
  <2>1. a \o b \in Seq(Lines) /\ Len(a \o b) = Len(a) + Len(b)
    BY <1>2, <1>3, ConcatProperties
  <2>2. Len(a) + Len(b) = Len(s) - 1
    BY <1>1, <1>2, <1>3
  <2> QED
    BY <1>4, <2>1, <2>2
<1>6. ASSUME NEW i \in 1 .. k - 1 PROVE Drop(s, k)[i] = s[i]
  <2>1. i \in 1 .. Len(a)
    BY <1>1, <1>2
  <2>2. (a \o b)[i] = a[i]
    BY <1>2, <1>3, <2>1
  <2> QED
    BY <1>2, <1>4, <2>2
<1>7. ASSUME NEW i \in k .. Len(s) - 1 PROVE Drop(s, k)[i] = s[i + 1]
  <2>1. i - (k - 1) \in 1 .. Len(s) - k /\ k + (i - (k - 1)) = i + 1
    BY <1>1
  <2>2. \A j \in 1 .. Len(b) : (a \o b)[Len(a) + j] = b[j]
    BY <1>2, <1>3, AppendedLines
  <2>3. i - (k - 1) \in 1 .. Len(b) /\ Len(a) + (i - (k - 1)) = i
    BY <1>1, <1>2, <1>3, <2>1
  <2>4. (a \o b)[i] = b[i - (k - 1)]
    BY <2>2, <2>3
  <2> QED
    BY <1>3, <1>4, <2>1, <2>4
<1>8. DOMAIN Drop(s, k) = 1 .. Len(s) - 1
  BY <1>5
<1> QED
  BY <1>1, <1>5, <1>6, <1>7, <1>8

(* What gets through of what is sent is as true as what was sent.           *)
LEMMA LessOneIsOfThem ==
    ASSUME NEW s \in Seq(Lines), NEW k \in DOMAIN s, NEW i \in DOMAIN Drop(s, k)
    PROVE  \E j \in DOMAIN s : Drop(s, k)[i] = s[j]
<1>1. i \in 1 .. Len(s) - 1 /\ Len(s) \in Nat /\ DOMAIN s = 1 .. Len(s)
  BY LessOneLine
<1>2. i \in DOMAIN s /\ i + 1 \in DOMAIN s
  BY <1>1
<1>3. Drop(s, k)[i] = s[i] \/ Drop(s, k)[i] = s[i + 1]
  <2>1. i \in 1 .. k - 1 \/ i \in k .. Len(s) - 1
    BY <1>1, LessOneLine
  <2> QED
    BY <2>1, LessOneLine
<1> QED
  BY <1>2, <1>3

LEMMA LessOneIsTrue ==
    ASSUME NEW s \in Seq(Lines), NEW k \in DOMAIN s, NEW o, NEW t, SpeaksTruly(s, o, t)
    PROVE  SpeaksTruly(Drop(s, k), o, t)
<1>1. \A i \in DOMAIN Drop(s, k) : \E j \in DOMAIN s : Drop(s, k)[i] = s[j]
  BY LessOneIsOfThem
<1> QED
  BY <1>1 DEF SpeaksTruly

(* One line, a row, is sent.                                                *)
LEMMA OneRowSent ==
    ASSUME NEW r \in Lines, r.kind = "row", NEW new,
           new = <<r>> \/ (\E k \in DOMAIN <<r>> : new = Drop(<<r>>, k))
    PROVE  /\ new \in Seq(Lines) /\ \A k : TellsAll(new, k)
           /\ \A i \in DOMAIN new : new[i] = r
           /\ \A o, t : (r.node \in BusBoards => r.stint = t[r.node] /\ (r.node \in o => r.present))
                      => SpeaksTruly(new, o, t)
<1>1. <<r>> \in Seq(Lines) /\ DOMAIN <<r>> = {1} /\ <<r>>[1] = r /\ Len(<<r>>) = 1
  OBVIOUS
<1>3. new \in Seq(Lines) /\ (\A k : TellsAll(new, k)) /\ \A i \in DOMAIN new : new[i] = r
  <2>1. CASE new = <<r>>
    BY <1>1, <2>1 DEF TellsAll
  <2>2. CASE \E k \in DOMAIN <<r>> : new = Drop(<<r>>, k)
    <3>1. PICK k \in DOMAIN <<r>> : new = Drop(<<r>>, k)
      BY <2>2
    <3>2. new \in Seq(Lines) /\ DOMAIN new = 1 .. Len(<<r>>) - 1
      BY <1>1, <3>1, LessOneLine
    <3>3. DOMAIN new = {}
      BY <1>1, <3>2
    <3> QED
      BY <3>2, <3>3 DEF TellsAll
  <2> QED
    BY <2>1, <2>2
<1> QED
  BY <1>3 DEF SpeaksTruly

(* The reply has a row for the bridge, one for each board it lists, and an  *)
(* END that counts them.                                                    *)
LEMMA ReplyIs ==
    ASSUME RosterTypeOK
    PROVE  LET n == Cardinality(Listed)
           IN  /\ n \in Nat /\ Reply \in Seq(Lines) /\ Len(Reply) = n + 2
               /\ DOMAIN Reply = 1 .. n + 2
               /\ Reply[1] = RowLine(Bridge, TRUE) /\ Reply[n + 2] = End(n + 1)
               /\ \A i \in 2 .. n + 1 :
                    \E b \in Listed : Reply[i] = RowLine(b, cache[b] = "present")
               /\ \A b \in Listed :
                    \E i \in 2 .. n + 1 : Reply[i] = RowLine(b, cache[b] = "present")
<1> DEFINE n == Cardinality(Listed)
           Tells(s) == \A b \in Listed : \E i \in DOMAIN s : s[i] = b
           order == CHOOSE s \in [1 .. n -> Listed] : Tells(s)
           rows == [i \in DOMAIN order |-> RowLine(order[i], cache[order[i]] = "present")]
<1>0. stint \in [BusBoards -> 0 .. MaxStints] /\ MaxStints \in Nat /\ Bridge \notin BusBoards
      /\ IsFiniteSet(BusBoards)
  BY BusAssumption, BoundsAssumption DEF BusAssumption, BoundsAssumption, RosterTypeOK
<1>1. Listed \in SUBSET BusBoards
  BY DEF Listed
<1>2. n \in Nat /\ IsFiniteSet(Listed) /\ n <= Cardinality(BusBoards)
  BY <1>0, <1>1, FS_Subset, FS_CardinalityType
<1>3. \E s \in [1 .. n -> Listed] : Tells(s)
  <2>1. PICK s : s \in Bijection(1 .. n, Listed)
    BY <1>2, FS_CardinalityType DEF ExistsBijection
  <2> QED
    BY <2>1 DEF Bijection, Surjection
<1>4. order \in [1 .. n -> Listed] /\ Tells(order)
  BY <1>3
<1>5. Reply = (<<RowLine(Bridge, TRUE)>> \o rows) \o <<End(n + 1)>>
  BY DEF Reply
<1>6. ASSUME NEW b \in Nodes, NEW p \in BOOLEAN PROVE RowLine(b, p) \in Lines
  BY <1>0, <1>6 DEF RowLine, Lines, Nodes
<1>7. rows \in Seq(Lines) /\ Len(rows) = n /\ DOMAIN rows = 1 .. n
  <2>1. DOMAIN order = 1 .. n /\ \A i \in 1 .. n : order[i] \in Nodes
    BY <1>1, <1>4 DEF Nodes
  <2>2. \A i \in 1 .. n : RowLine(order[i], cache[order[i]] = "present") \in Lines
    BY <1>6, <2>1
  <2>3. rows \in [1 .. n -> Lines]
    BY <2>1, <2>2
  <2> HIDE DEF rows, n
  <2>4. rows \in Seq(Lines) /\ DOMAIN rows = 1 .. n
    BY <1>2, <2>3
  <2> QED
    BY <1>2, <2>4
<1>8. <<RowLine(Bridge, TRUE)>> \in Seq(Lines) /\ <<End(n + 1)>> \in Seq(Lines)
  <2>1. RowLine(Bridge, TRUE) \in Lines
    BY <1>6 DEF Nodes
  <2>2. Cardinality(Nodes) = Cardinality(BusBoards) + 1 /\ Cardinality(BusBoards) \in Nat
    BY <1>0, FS_AddElement, FS_CardinalityType DEF Nodes
  <2>3. n + 1 \in 1 .. Cardinality(Nodes)
    BY <1>2, <2>2
  <2>4. End(n + 1) \in Lines
    BY <2>3 DEF End, Lines
  <2> DEFINE e == End(n + 1)
             r == RowLine(Bridge, TRUE)
  <2> HIDE DEF e, r
  <2>5. e \in Lines /\ r \in Lines
    BY <2>1, <2>4 DEF e, r
  <2>6. <<e>> \in Seq(Lines) /\ <<r>> \in Seq(Lines)
    BY <2>5
  <2> QED
    BY <2>6 DEF e, r
<1> DEFINE first == <<RowLine(Bridge, TRUE)>>
           last == <<End(n + 1)>>
<1> HIDE DEF rows, order, n, first, last
<1>9. /\ first \in Seq(Lines) /\ Len(first) = 1 /\ first[1] = RowLine(Bridge, TRUE)
      /\ last \in Seq(Lines) /\ Len(last) = 1 /\ last[1] = End(n + 1)
  BY <1>8 DEF first, last
<1>10. /\ first \o rows \in Seq(Lines) /\ Len(first \o rows) = n + 1
       /\ (first \o rows)[1] = first[1]
       /\ \A i \in 2 .. n + 1 : (first \o rows)[i] = rows[i - 1]
  <2>1. /\ first \o rows \in Seq(Lines) /\ Len(first \o rows) = Len(first) + Len(rows)
        /\ \A i \in 1 .. Len(first) : (first \o rows)[i] = first[i]
        /\ \A i \in 1 .. Len(rows) : (first \o rows)[Len(first) + i] = rows[i]
    BY <1>7, <1>9, AppendedLines
  <2>2. 1 \in 1 .. 1 /\ 1 + n = n + 1
        /\ \A i \in 2 .. n + 1 : i - 1 \in 1 .. n /\ 1 + (i - 1) = i
    BY <1>2
  <2>3. Len(first) = 1 /\ Len(rows) = n
    BY <1>7, <1>9
  <2>4. /\ \A i \in 1 .. 1 : (first \o rows)[i] = first[i]
        /\ \A i \in 1 .. n : (first \o rows)[1 + i] = rows[i]
    BY <2>1, <2>3
  <2>5. Len(first \o rows) = n + 1
    BY <1>2, <2>1, <2>3
  <2> QED
    BY <2>1, <2>2, <2>4, <2>5
<1>11. /\ Reply \in Seq(Lines) /\ Len(Reply) = n + 2 /\ DOMAIN Reply = 1 .. n + 2
       /\ Reply[1] = RowLine(Bridge, TRUE) /\ Reply[n + 2] = End(n + 1)
       /\ \A i \in 2 .. n + 1 : i - 1 \in 1 .. n /\ Reply[i] = rows[i - 1]
  <2>1. Reply = (first \o rows) \o last
    BY <1>5 DEF first, last
  <2>2. /\ Reply \in Seq(Lines) /\ Len(Reply) = n + 2
        /\ \A i \in 1 .. n + 1 : Reply[i] = (first \o rows)[i]
        /\ Reply[n + 2] = last[1]
    <3>1. n + 1 \in Nat /\ 1 \in Nat /\ (n + 1) + 1 = n + 2 /\ 1 \in 1 .. 1
      BY <1>2
    <3> DEFINE most == first \o rows
    <3> HIDE DEF most
    <3>2. most \in Seq(Lines) /\ Len(most) = n + 1 /\ Reply = most \o last
      BY <1>10, <2>1 DEF most
    <3>3. /\ Reply \in Seq(Lines) /\ Len(Reply) = Len(most) + Len(last)
          /\ \A i \in 1 .. Len(most) : Reply[i] = most[i]
          /\ \A i \in 1 .. Len(last) : Reply[Len(most) + i] = last[i]
      BY <1>9, <3>2, AppendedLines
    <3>4. Len(most) = n + 1 /\ Len(last) = 1
      BY <1>9, <3>2
    <3>5. Len(Reply) = (n + 1) + 1 /\ Reply[(n + 1) + 1] = last[1]
      BY <3>1, <3>3, <3>4
    <3>6. \A i \in 1 .. n + 1 : Reply[i] = most[i]
      BY <3>3, <3>4
    <3> QED
      BY <3>1, <3>3, <3>5, <3>6 DEF most
  <2>3. DOMAIN Reply = 1 .. n + 2
    BY <2>2
  <2>4. \A i \in 2 .. n + 1 : i - 1 \in 1 .. n /\ i \in 1 .. n + 1
    BY <1>2
  <2>5. 1 \in 1 .. n + 1
    BY <1>2
  <2> QED
    BY <1>9, <1>10, <2>2, <2>3, <2>4, <2>5
<1>12. \A i \in 1 .. n : order[i] \in Listed
                         /\ rows[i] = RowLine(order[i], cache[order[i]] = "present")
  BY <1>4, <1>7 DEF rows
<1>13. \A i \in 2 .. n + 1 : \E b \in Listed : Reply[i] = RowLine(b, cache[b] = "present")
  BY <1>11, <1>12
<1>14. ASSUME NEW b \in Listed
       PROVE  \E i \in 2 .. n + 1 : Reply[i] = RowLine(b, cache[b] = "present")
  <2>1. PICK i \in 1 .. n : order[i] = b
    BY <1>4
  <2>2. i + 1 \in 2 .. n + 1 /\ (i + 1) - 1 = i
    BY <1>2
  <2>3. Reply[i + 1] = rows[i]
    BY <1>11, <2>2
  <2> QED
    BY <1>12, <2>1, <2>2, <2>3
<1> QED
  BY <1>2, <1>11, <1>13, <1>14 DEF n

(* A reply tells of everyone it lists if it is whole, and nobody takes what *)
(* is left of it for a whole one when a line of it is lost.                 *)
LEMMA ReplyTells ==
    ASSUME NEW r \in Seq(Lines), NEW n \in Nat, Len(r) = n + 2,
           r[1].kind = "row", r[1].node = Bridge,
           r[n + 2].kind = "end", r[n + 2].count = n + 1,
           \A i \in 2 .. n + 1 : r[i].kind = "row",
           NEW o, \A b \in o : \E i \in 2 .. n + 1 : r[i].node = b
    PROVE  /\ TellsAll(r, o)
           /\ \A k \in DOMAIN r : TellsAll(Drop(r, k), o)
<1>0. DOMAIN r = 1 .. n + 2 /\ \A i \in 1 .. n + 1 : r[i].kind = "row"
  <2>1. DOMAIN r = 1 .. n + 2
    OBVIOUS
  <2>2. \A i \in 1 .. n + 1 : i = 1 \/ i \in 2 .. n + 1
    OBVIOUS
  <2> QED
    BY <2>1, <2>2
<1>1. TellsAll(r, o)
  <2> SUFFICES ASSUME NEW i \in DOMAIN r, r[i].kind = "end"
               PROVE  /\ \A m \in 1 .. i :
                           Closes(r, m, i) /\ r[i].count <= i - m => o \subseteq Told(r, m, i)
                      /\ (\A k \in 1 .. i - 1 : r[k].kind = "row" /\ r[k].node # Bridge)
                           => o \subseteq Told(r, 1, i)
    BY DEF TellsAll
  <2>1. i = n + 2
    <3>1. i \notin 1 .. n + 1
      BY <1>0
    <3> QED
      BY <1>0, <3>1
  <2>2. ASSUME NEW m \in 1 .. i, r[i].count <= i - m PROVE o \subseteq Told(r, m, i)
    <3>1. m = 1
      BY <2>1, <2>2
    <3>2. \A j \in 2 .. n + 1 : j \in m .. i - 1
      BY <2>1, <3>1
    <3> QED
      BY <3>2 DEF Told
  <2>3. 1 \in 1 .. i - 1
    BY <2>1
  <2> QED
    BY <2>2, <2>3
<1>2. ASSUME NEW k \in DOMAIN r PROVE TellsAll(Drop(r, k), o)
  <2> DEFINE d == Drop(r, k)
  <2>1. Len(r) - 1 = n + 1 /\ k \in 1 .. n + 2 /\ DOMAIN d = 1 .. n + 1
    <3>1. Len(r) - 1 = n + 1
      OBVIOUS
    <3>2. DOMAIN d = 1 .. Len(r) - 1
      BY LessOneLine
    <3> QED
      BY <1>0, <3>1, <3>2
  <2> HIDE DEF d
  <2>2. ASSUME NEW i \in 1 .. n + 1, i < k PROVE d[i] = r[i]
    <3>1. i \in 1 .. k - 1
      BY <2>1, <2>2
    <3> QED
      BY <3>1, LessOneLine DEF d
  <2>3. ASSUME NEW i \in 1 .. n + 1, ~(i < k) PROVE d[i] = r[i + 1]
    <3>1. i \in k .. Len(r) - 1
      BY <2>1, <2>3
    <3>2. \A j \in k .. Len(r) - 1 : Drop(r, k)[j] = r[j + 1]
      BY LessOneLine
    <3> QED
      BY <3>1, <3>2 DEF d
  <2> SUFFICES ASSUME NEW i \in 1 .. n + 1, d[i].kind = "end"
               PROVE  /\ \A m \in 1 .. i :
                           Closes(d, m, i) /\ d[i].count <= i - m => o \subseteq Told(d, m, i)
                      /\ (\A j \in 1 .. i - 1 : d[j].kind = "row" /\ d[j].node # Bridge)
                           => o \subseteq Told(d, 1, i)
    BY <2>1 DEF TellsAll, d
  <2>4. ~(i < k)
    <3>1. r[i].kind = "row"
      BY <1>0
    <3> QED
      BY <2>2, <3>1
  <2>5. d[i] = r[i + 1] /\ i = n + 1
    <3>1. d[i] = r[i + 1]
      BY <2>3, <2>4
    <3>2. i + 1 \notin 1 .. n + 1
      BY <1>0, <3>1
    <3> QED
      BY <3>1, <3>2
  <2>6. d[i].count = n + 1 /\ \A m \in 1 .. i : ~(n + 1 <= i - m)
    <3>1. i + 1 = n + 2
      BY <2>5
    <3> QED
      BY <2>5, <3>1
  <2>7. CASE k = 1
    <3>1. ASSUME NEW b \in o PROVE b \in Told(d, 1, i)
      <4>1. PICK j \in 2 .. n + 1 : r[j].node = b
        OBVIOUS
      <4>2. j - 1 \in 1 .. n + 1 /\ ~(j - 1 < k) /\ (j - 1) + 1 = j /\ j - 1 \in 1 .. i - 1
        BY <2>5, <2>7
      <4>3. d[j - 1] = r[j]
        BY <2>3, <4>2
      <4> QED
        BY <4>1, <4>2, <4>3 DEF Told
    <3> QED
      BY <2>6, <3>1
  <2>8. CASE k # 1
    <3>1. 1 \in 1 .. n + 1 /\ 1 < k /\ 1 \in 1 .. i - 1
      BY <2>1, <2>4, <2>5, <2>8
    <3>2. d[1] = r[1]
      BY <2>2, <3>1
    <3> QED
      BY <2>6, <3>1, <3>2
  <2> QED
    BY <2>7, <2>8
<1> QED
  BY <1>1, <1>2

LEMMA PollTells ==
    ASSUME RosterTypeOK, BridgeKnows, NEW new,
           new = Reply \/ (\E k \in DOMAIN Reply : new = Drop(Reply, k))
    PROVE  /\ new \in Seq(Lines) /\ SpeaksTruly(new, on, stint)
           /\ TellsAll(new, Known)
           /\ \A i \in DOMAIN new : new[i].kind = "row" => new[i].node \in Listed \cup {Bridge}
<1> DEFINE n == Cardinality(Listed)
<1>1. /\ n \in Nat /\ Reply \in Seq(Lines) /\ Len(Reply) = n + 2
      /\ DOMAIN Reply = 1 .. n + 2
      /\ Reply[1] = RowLine(Bridge, TRUE) /\ Reply[n + 2] = End(n + 1)
      /\ \A i \in 2 .. n + 1 : \E b \in Listed : Reply[i] = RowLine(b, cache[b] = "present")
      /\ \A b \in Listed : \E i \in 2 .. n + 1 : Reply[i] = RowLine(b, cache[b] = "present")
  BY ReplyIs
<1> DEFINE r == Reply
<1> HIDE DEF n, r
<1>2. Bridge \notin BusBoards /\ Listed \subseteq BusBoards
  BY BusAssumption DEF BusAssumption, Listed
<1>3. /\ r[1].kind = "row" /\ r[1].node = Bridge
      /\ r[n + 2].kind = "end" /\ r[n + 2].count = n + 1
  BY <1>1 DEF r, RowLine, End
<1>4. ASSUME NEW i \in 2 .. n + 1
      PROVE  /\ r[i].kind = "row" /\ r[i].node \in Listed
             /\ r[i].stint = stint[r[i].node] /\ r[i].present = (cache[r[i].node] = "present")
  <2>1. PICK b \in Listed : r[i] = RowLine(b, cache[b] = "present")
    BY <1>1 DEF r
  <2>2. b # Bridge
    BY <1>2
  <2> QED
    BY <2>1, <2>2 DEF RowLine
<1>5. \A b \in on : b \in Listed => cache[b] = "present"
  BY DEF BridgeKnows, RosterTypeOK, Listed
<1>6. SpeaksTruly(r, on, stint)
  <2> SUFFICES ASSUME NEW i \in DOMAIN r, r[i].kind = "row", r[i].node \in BusBoards
               PROVE  r[i].stint = stint[r[i].node] /\ (r[i].node \in on => r[i].present)
    BY DEF SpeaksTruly
  <2>1. i \in 1 .. n + 2 /\ i # 1 /\ i # n + 2
    BY <1>1, <1>2, <1>3 DEF r
  <2>2. i \in 2 .. n + 1
    BY <1>1, <2>1
  <2> QED
    BY <1>4, <1>5, <2>2
<1>7. r \in Seq(Lines) /\ Len(r) = n + 2 /\ n \in Nat
  BY <1>1 DEF r
<1>8. TellsAll(r, Known) /\ \A k \in DOMAIN r : TellsAll(Drop(r, k), Known)
  <2>1. \A b \in Known : b \in Listed
    BY DEF Known, RosterTypeOK, Listed
  <2>2. \A b \in Known : \E i \in 2 .. n + 1 : r[i] = RowLine(b, cache[b] = "present")
    BY <1>1, <2>1 DEF r
  <2>3. \A b \in Known : \E i \in 2 .. n + 1 : r[i].node = b
    <3>1. ASSUME NEW b, NEW p PROVE RowLine(b, p).node = b
      BY DEF RowLine
    <3>2. ASSUME NEW b \in Known PROVE \E i \in 2 .. n + 1 : r[i].node = b
      <4>1. PICK i \in 2 .. n + 1 : r[i] = RowLine(b, cache[b] = "present")
        BY <2>2
      <4>2. r[i].node = b
        BY <3>1, <4>1
      <4> QED
        BY <4>2
    <3> QED
      BY <3>2
  <2>4. \A i \in 2 .. n + 1 : r[i].kind = "row"
    BY <1>4
  <2> QED
    BY <1>3, <1>7, <2>3, <2>4, ReplyTells
<1>9. new \in Seq(Lines) /\ SpeaksTruly(new, on, stint)
  <2>1. ASSUME NEW k \in DOMAIN r PROVE Drop(r, k) \in Seq(Lines) /\ SpeaksTruly(Drop(r, k), on, stint)
    BY <1>6, <1>7, LessOneIsTrue, LessOneLine
  <2>2. new = r \/ (\E k \in DOMAIN r : new = Drop(r, k))
    BY DEF r
  <2> QED
    BY <1>6, <1>7, <2>1, <2>2
<1>10. TellsAll(new, Known)
  BY <1>8 DEF r
<1>11. \A i \in DOMAIN r : r[i].kind = "row" => r[i].node \in Listed \cup {Bridge}
  <2> SUFFICES ASSUME NEW i \in DOMAIN r, r[i].kind = "row"
               PROVE  r[i].node \in Listed \cup {Bridge}
    OBVIOUS
  <2>1. i \in 1 .. n + 2 /\ i # n + 2
    BY <1>1, <1>3 DEF r
  <2>2. i = 1 \/ i \in 2 .. n + 1
    BY <1>1, <2>1
  <2> QED
    BY <1>3, <1>4, <2>2
<1>12. \A i \in DOMAIN new : \E j \in DOMAIN r : new[i] = r[j]
  <2>1. new = r \/ (\E k \in DOMAIN r : new = Drop(r, k))
    BY DEF r
  <2> QED
    BY <1>7, <2>1, LessOneIsOfThem
<1> QED
  BY <1>9, <1>10, <1>11, <1>12

---------------------------------------------------------------------------
LEMMA RosterTypeInit == RosterInit => RosterTypeOK
<1> SUFFICES ASSUME RosterInit PROVE RosterTypeOK
  OBVIOUS
<1>1. 0 \in 0 .. MaxStints /\ 0 \in 0 .. MaxLost /\ 0 \in 0 .. MaxUpdates
  BY BoundsAssumption DEF BoundsAssumption
<1>2. lines \in Seq(Lines)
  BY DEF RosterInit
<1> QED
  BY <1>1, <1>2 DEF RosterInit, RosterTypeOK

(* What is sent is appended, but for a line of it that is lost.             *)
LEMMA SendAppends ==
    ASSUME RosterTypeOK, NEW sent \in Seq(Lines), Send(sent)
    PROVE  /\ lost' \in 0 .. MaxLost /\ lines' \in Seq(Lines)
           /\ \E new \in Seq(Lines) :
                /\ lines' = lines \o new
                /\ new = sent \/ (\E k \in DOMAIN sent : new = Drop(sent, k))
<1>0. lines \in Seq(Lines) /\ lost \in 0 .. MaxLost /\ MaxLost \in Nat
  BY BoundsAssumption DEF BoundsAssumption, RosterTypeOK
<1>1. CASE lines' = lines \o sent /\ UNCHANGED lost
  <2>1. lines' \in Seq(Lines)
    BY <1>0, <1>1, AppendedLines
  <2> QED
    BY <1>0, <1>1, <2>1
<1>2. CASE /\ lost < MaxLost /\ lost' = lost + 1
           /\ \E k \in DOMAIN sent : lines' = lines \o Drop(sent, k)
  <2>1. PICK k \in DOMAIN sent : lines' = lines \o Drop(sent, k)
    BY <1>2
  <2>2. Drop(sent, k) \in Seq(Lines)
    BY LessOneLine
  <2>3. lines' \in Seq(Lines)
    BY <1>0, <2>1, <2>2, AppendedLines
  <2>4. lost' \in 0 .. MaxLost
    BY <1>0, <1>2
  <2> QED
    BY <2>1, <2>2, <2>3, <2>4
<1> QED
  BY <1>1, <1>2 DEF Send

(* The rows the bridge sends are lines.                                     *)
LEMMA RowLineIs ==
    ASSUME RosterTypeOK, NEW b \in BusBoards, NEW p \in BOOLEAN
    PROVE  /\ RowLine(b, p) \in Lines /\ RowLine(b, p).kind = "row"
           /\ RowLine(b, p).node = b /\ RowLine(b, p).present = p
           /\ RowLine(b, p).stint = stint[b]
<1>1. b # Bridge /\ b \in Nodes /\ stint[b] \in 0 .. MaxStints
  BY BusAssumption DEF BusAssumption, Nodes, RosterTypeOK
<1> QED
  BY <1>1 DEF RowLine, Lines

LEMMA LaterStint ==
    ASSUME NEW r \in Lines, r.kind = "row", r.stint \in Nat, r.stint < MaxStints
    PROVE  LET l == [r EXCEPT !.stint = @ + 1]
           IN  l \in Lines /\ l.kind = "row" /\ l.node = r.node
               /\ l.present = r.present /\ l.stint = r.stint + 1
<1>0. MaxStints \in Nat
  BY BoundsAssumption DEF BoundsAssumption
<1>1. r \in [kind : {"row"}, node : Nodes, present : BOOLEAN, stint : 0 .. MaxStints]
  BY DEF Lines
<1> DEFINE l == [r EXCEPT !.stint = @ + 1]
<1>2. r.stint + 1 \in 0 .. MaxStints
  BY <1>0
<1>3. l \in [kind : {"row"}, node : Nodes, present : BOOLEAN, stint : 0 .. MaxStints]
  BY <1>1, <1>2
<1>4. l.kind = "row" /\ l.node = r.node /\ l.present = r.present /\ l.stint = r.stint + 1
  BY <1>1
<1> QED
  BY <1>3, <1>4 DEF Lines

LEMMA FirstRowIs ==
    ASSUME RosterTypeOK, NEW b \in BusBoards, stint[b] < MaxStints
    PROVE  LET r == [RowLine(b, TRUE) EXCEPT !.stint = @ + 1]
           IN  /\ r \in Lines /\ r.kind = "row" /\ r.node = b /\ r.present
               /\ r.stint = stint[b] + 1
<1> DEFINE r == RowLine(b, TRUE)
<1>1. r \in Lines /\ r.kind = "row" /\ r.node = b /\ r.present = TRUE /\ r.stint = stint[b]
  BY RowLineIs
<1>2. stint[b] \in Nat
  BY DEF RosterTypeOK
<1> HIDE DEF r
<1> DEFINE l == [r EXCEPT !.stint = @ + 1]
<1>3. l \in Lines /\ l.kind = "row" /\ l.node = r.node
      /\ l.present = r.present /\ l.stint = r.stint + 1
  BY <1>1, <1>2, LaterStint
<1> HIDE DEF l
<1>4. l \in Lines /\ l.kind = "row" /\ l.node = b /\ l.present /\ l.stint = stint[b] + 1
  BY <1>1, <1>3
<1> QED
  BY <1>4 DEF l, r

LEMMA AloneIs ==
    ASSUME RosterTypeOK, NEW new,
           LET sent == <<RowLine(Bridge, TRUE), End(1)>>
           IN  new = sent \/ (\E k \in DOMAIN sent : new = Drop(sent, k))
    PROVE  /\ <<RowLine(Bridge, TRUE), End(1)>> \in Seq(Lines)
           /\ new \in Seq(Lines) /\ SpeaksTruly(new, on, stint)
<1> DEFINE r == RowLine(Bridge, TRUE)
           e == End(1)
<1>1. r \in Lines /\ r.node = Bridge /\ e \in Lines /\ e.kind = "end"
  <2>1. Cardinality(Nodes) = Cardinality(BusBoards) + 1 /\ Cardinality(BusBoards) \in Nat
    BY BusAssumption, FS_AddElement, FS_CardinalityType DEF BusAssumption, Nodes
  <2>2. 1 \in 1 .. Cardinality(Nodes)
    BY <2>1
  <2>3. e \in Lines /\ e.kind = "end"
    BY <2>2 DEF End, Lines
  <2>4. 0 \in 0 .. MaxStints /\ Bridge \in Nodes
    BY BoundsAssumption DEF BoundsAssumption, Nodes
  <2>5. r \in Lines /\ r.node = Bridge
    BY <2>4 DEF RowLine, Lines
  <2> QED
    BY <2>3, <2>5
<1> HIDE DEF r, e
<1>2. <<r, e>> \in Seq(Lines) /\ DOMAIN <<r, e>> = 1 .. 2
      /\ <<r, e>>[1] = r /\ <<r, e>>[2] = e
  BY <1>1
<1>3. SpeaksTruly(<<r, e>>, on, stint)
  <2>1. \A i \in DOMAIN <<r, e>> : i = 1 \/ i = 2
    BY <1>2
  <2>2. r.node \notin BusBoards
    BY <1>1, BusAssumption DEF BusAssumption
  <2> QED
    BY <1>1, <1>2, <2>1, <2>2 DEF SpeaksTruly
<1>4. \A k \in DOMAIN <<r, e>> : /\ Drop(<<r, e>>, k) \in Seq(Lines)
                                /\ SpeaksTruly(Drop(<<r, e>>, k), on, stint)
  BY <1>2, <1>3, LessOneLine, LessOneIsTrue
<1> QED
  BY <1>2, <1>3, <1>4 DEF r, e

(* The boards it does not list were there before, unlisted, and what is     *)
(* sent does not speak of them.                                             *)
Newly(new) ==
    \A b \in on' : cache'[b] # "present" =>
      /\ b \in on /\ cache[b] # "present" /\ stint'[b] = stint[b]
      /\ \A i \in DOMAIN new : new[i].kind = "row" => new[i].node # b

(* A step that sends: what is on its way stays true, and goes on telling of *)
(* everyone the client has heard of.                                        *)
LEMMA SendingKeeps ==
    ASSUME RosterTypeOK, RosterInv, NEW new \in Seq(Lines), lines' = lines \o new,
           GoesOn(on, stint, on', stint'), SpeaksTruly(new, on', stint'),
           stays' \subseteq stays, stays' \subseteq on', \A b \in stays' : stint'[b] = stint[b],
           Judging' => Judging /\ TellsAll(new, Known') /\ Newly(new),
           burst' = burst \/ burst' = {}
    PROVE  LinesTrue' /\ LinesTell' /\ KnownHeard'
<1>0. lines \in Seq(Lines) /\ lines \o new \in Seq(Lines)
  BY AppendedLines DEF RosterTypeOK
<1>3. ASSUME Judging', NEW b \in on', cache'[b] # "present"
      PROVE  b \notin stays' /\ Unheard(lines \o new, b, stint')
  <2>1. /\ b \in on /\ cache[b] # "present" /\ stint'[b] = stint[b]
        /\ \A i \in DOMAIN new : new[i].kind = "row" => new[i].node # b
    BY <1>3 DEF Newly
  <2>2. b \notin stays /\ Unheard(lines, b, stint)
    BY <1>3, <2>1 DEF RosterInv, KnownHeard
  <2>3. ASSUME NEW i \in DOMAIN (lines \o new), (lines \o new)[i].kind = "row",
               (lines \o new)[i].node = b
        PROVE  (lines \o new)[i].stint # stint'[b]
    <3>0. i \in 1 .. Len(lines) + Len(new) /\ Len(lines) \in Nat /\ Len(new) \in Nat
      BY <1>0, AppendedLines
    <3>1. CASE i \in 1 .. Len(lines)
      <4>1. (lines \o new)[i] = lines[i] /\ i \in DOMAIN lines
        BY <1>0, <3>1, AppendedLines
      <4> QED
        BY <2>1, <2>2, <2>3, <4>1 DEF Unheard
    <3>2. CASE i \notin 1 .. Len(lines)
      <4>1. i - Len(lines) \in 1 .. Len(new) /\ Len(lines) + (i - Len(lines)) = i
        BY <3>0, <3>2
      <4>2. (lines \o new)[i] = new[i - Len(lines)] /\ i - Len(lines) \in DOMAIN new
        BY <1>0, <4>1, AppendedLines
      <4> QED
        BY <2>1, <2>3, <4>2
    <3> QED
      BY <3>1, <3>2
  <2> QED
    BY <2>2, <2>3 DEF Unheard
<1>1. LinesTrue'
  <2>1. RowsTrue(lines, stays, on, stint)
    BY DEF RosterInv, LinesTrue
  <2>2. RowsTrue(lines \o new, stays', on', stint')
    BY <1>0, <2>1, AppendRows
  <2> QED
    BY <2>2 DEF LinesTrue
<1>2. ASSUME Judging' PROVE /\ RepliesTell(lines', stays', on', stint')
                            /\ BurstTells(lines', burst', stays', on', stint')
  <2>1. /\ RowsTrue(lines, stays, on, stint) /\ RepliesTell(lines, stays, on, stint)
        /\ BurstTells(lines, burst, stays, on, stint)
    BY <1>2 DEF RosterInv, LinesTrue, LinesTell
  <2>2. BurstTells(lines, {}, stays, on, stint)
    BY <1>0, <2>1, NothingHeardTells
  <2>3. TellsAll(new, Known')
    BY <1>2
  <2>6. \A i \in DOMAIN (lines \o new) :
           Heeded(lines \o new, i, stays', on', stint') \subseteq Known'
    <3>1. \A b \in on' : b \notin Known' => b \notin stays' /\ Unheard(lines \o new, b, stint')
      BY <1>2, <1>3 DEF Known
    <3> QED
      BY <1>0, <3>1, HeedsTheKnown
  <2>4. CASE burst' = burst
    <3>1. /\ RepliesTell(lines \o new, stays', on', stint')
          /\ BurstTells(lines \o new, burst, stays', on', stint')
      BY <1>0, <2>1, <2>3, <2>6, AppendTells
    <3> QED
      BY <2>4, <3>1
  <2>5. CASE burst' = {}
    <3>1. /\ RepliesTell(lines \o new, stays', on', stint')
          /\ BurstTells(lines \o new, {}, stays', on', stint')
      BY <1>0, <2>1, <2>2, <2>3, <2>6, AppendTells
    <3> QED
      BY <2>5, <3>1
  <2> QED
    BY <2>4, <2>5
<1>4. KnownHeard'
  BY <1>3 DEF KnownHeard
<1> QED
  BY <1>1, <1>2, <1>4 DEF LinesTell

LEMMA StintsAre ==
    ASSUME RosterTypeOK
    PROVE  /\ stint \in [BusBoards -> Nat] /\ on \subseteq BusBoards /\ stays \subseteq on
           /\ GoesOn(on, stint, on, stint)
<1>1. stint \in [BusBoards -> Nat]
  BY DEF RosterTypeOK
<1>2. \A b \in BusBoards : stint[b] >= stint[b]
  BY <1>1
<1> QED
  BY <1>1, <1>2 DEF RosterTypeOK, GoesOn

LEMMA JoinsStep ==
    ASSUME RosterTypeOK, RosterInv, NEW b \in BusBoards, Joins(b)
    PROVE  RosterTypeOK' /\ RosterInv'
<1> DEFINE r == [RowLine(b, TRUE) EXCEPT !.stint = @ + 1]
<1>0. /\ b \notin on /\ stint[b] < MaxStints
      /\ on' = on \cup {b} /\ stint' = [stint EXCEPT ![b] = @ + 1]
      /\ cache' = [cache EXCEPT ![b] = "present"] /\ Send(<<r>>)
      /\ UNCHANGED <<updates, shown, isComplete, burst, replying, asked, judge, stays>>
  BY DEF Joins, rosterVars
<1>1. r \in Lines /\ r.kind = "row" /\ r.node = b /\ r.present /\ r.stint = stint[b] + 1
  BY <1>0, FirstRowIs
<1> HIDE DEF r
<1>2. <<r>> \in Seq(Lines)
  BY <1>1
<1>3. PICK new \in Seq(Lines) :
        /\ lines' = lines \o new /\ lost' \in 0 .. MaxLost /\ lines' \in Seq(Lines)
        /\ new = <<r>> \/ (\E k \in DOMAIN <<r>> : new = Drop(<<r>>, k))
  BY <1>0, <1>2, SendAppends
<1>4. stint \in [BusBoards -> 0 .. MaxStints] /\ MaxStints \in Nat
  BY BoundsAssumption DEF BoundsAssumption, RosterTypeOK
<1>5. stint[b] + 1 \in 0 .. MaxStints
  BY <1>0, <1>4
<1>6. stint' \in [BusBoards -> 0 .. MaxStints] /\ stint'[b] = stint[b] + 1
      /\ \A c \in BusBoards \ {b} : stint'[c] = stint[c]
  BY <1>0, <1>4, <1>5
<1>7. RosterTypeOK'
  <2>1. on' \subseteq BusBoards /\ stays' \subseteq on'
    BY <1>0 DEF RosterTypeOK
  <2>2. cache' \in [BusBoards -> {"no", "present", "absent"}]
    BY <1>0 DEF RosterTypeOK
  <2> QED
    BY <1>0, <1>3, <1>6, <2>1, <2>2 DEF RosterTypeOK
<1>8. GoesOn(on, stint, on', stint')
  <2>1. \A c \in BusBoards : stint'[c] >= stint[c]
    BY <1>4, <1>6
  <2>2. stint'[b] > stint[b]
    BY <1>4, <1>6
  <2>3. \A c \in on' : stint'[c] > stint[c] \/ (c \in on /\ stint'[c] = stint[c])
    BY <1>0, <1>6, <2>2 DEF RosterTypeOK
  <2>4. stint \in [BusBoards -> Nat] /\ stint' \in [BusBoards -> Nat]
    BY <1>4, <1>6
  <2> QED
    BY <1>7, <2>1, <2>3, <2>4 DEF GoesOn, RosterTypeOK
<1>9. SpeaksTruly(new, on', stint') /\ TellsAll(new, Known') /\ \A i \in DOMAIN new : new[i] = r
  <2>1. r.node \in BusBoards => r.stint = stint'[r.node] /\ (r.node \in on' => r.present)
    BY <1>1, <1>6
  <2>2. /\ \A o, t : (r.node \in BusBoards => r.stint = t[r.node] /\ (r.node \in o => r.present))
                      => SpeaksTruly(new, o, t)
        /\ \A k : TellsAll(new, k)
        /\ \A i \in DOMAIN new : new[i] = r
    BY <1>1, <1>3, OneRowSent
  <2> QED
    BY <2>1, <2>2
<1>13. cache'[b] = "present" /\ \A c \in BusBoards \ {b} : cache'[c] = cache[c]
  <2>1. cache \in [BusBoards -> {"no", "present", "absent"}]
    BY DEF RosterTypeOK
  <2> QED
    BY <1>0, <2>1
<1>14. Newly(new)
  <2>1. \A i \in DOMAIN new : new[i].node = b
    BY <1>1, <1>9
  <2>2. \A c \in on' : c # b \/ cache'[b] # "present" => c \in on /\ c # b /\ stint'[c] = stint[c]
    BY <1>0, <1>6, <1>13 DEF RosterTypeOK
  <2>3. \A c \in on' : cache'[c] # "present" => c # b /\ cache[c] # "present"
    BY <1>0, <1>7, <1>13 DEF RosterTypeOK
  <2> QED
    BY <2>1, <2>2, <2>3 DEF Newly
<1>10. LinesTrue' /\ LinesTell' /\ KnownHeard'
  <2>1. stays' \subseteq stays /\ stays' \subseteq on' /\ \A c \in stays' : stint'[c] = stint[c]
    BY <1>0, <1>6 DEF RosterTypeOK
  <2>2. Judging' => Judging /\ TellsAll(new, Known') /\ Newly(new)
    BY <1>0, <1>9, <1>14 DEF Judging
  <2>3. burst' = burst
    BY <1>0
  <2> QED
    BY <1>3, <1>8, <1>9, <2>1, <2>2, <2>3, SendingKeeps
<1>11. BridgeKnows'
  <2>1. \A c \in on' : stint'[c] >= 1
    <3>1. stint'[b] >= 1 /\ \A c \in on : c # b => stint'[c] >= 1
      BY <1>4, <1>6 DEF RosterInv, BridgeKnows, RosterTypeOK
    <3> QED
      BY <1>0, <3>1
  <2> QED
    BY <1>0, <1>13, <2>1 DEF BridgeKnows, RosterInv, RosterTypeOK
<1>12. NotYetDue' /\ BurstShown' /\ StaysShown'
  BY <1>0 DEF RosterInv, NotYetDue, BurstShown, StaysShown, ShownOffline
<1> QED
  BY <1>7, <1>10, <1>11, <1>12 DEF RosterInv

LEMMA LeavesStep ==
    ASSUME RosterTypeOK, RosterInv, NEW b \in BusBoards, Leaves(b)
    PROVE  RosterTypeOK' /\ RosterInv'
<1> DEFINE r == RowLine(b, FALSE)
<1>0. /\ b \in on /\ cache[b] = "present"
      /\ on' = on \ {b} /\ stays' = stays \ {b} /\ cache' = [cache EXCEPT ![b] = "absent"]
      /\ Send(<<r>>)
      /\ UNCHANGED <<stint, updates, shown, isComplete, burst, replying, asked, judge>>
  BY DEF Leaves, rosterVars
<1>1. r \in Lines /\ r.kind = "row" /\ r.node = b /\ r.stint = stint[b]
  BY RowLineIs
<1> HIDE DEF r
<1>2. <<r>> \in Seq(Lines)
  BY <1>1
<1>3. PICK new \in Seq(Lines) :
        /\ lines' = lines \o new /\ lost' \in 0 .. MaxLost /\ lines' \in Seq(Lines)
        /\ new = <<r>> \/ (\E k \in DOMAIN <<r>> : new = Drop(<<r>>, k))
  BY <1>0, <1>2, SendAppends
<1>7. RosterTypeOK'
  <2>1. on' \subseteq BusBoards /\ stays' \subseteq on'
    BY <1>0 DEF RosterTypeOK
  <2>2. cache' \in [BusBoards -> {"no", "present", "absent"}]
    BY <1>0 DEF RosterTypeOK
  <2> QED
    BY <1>0, <1>3, <2>1, <2>2 DEF RosterTypeOK
<1>8. GoesOn(on, stint, on', stint')
  <2>1. stint \in [BusBoards -> Nat] /\ stint' = stint
    BY <1>0, StintsAre
  <2> QED
    BY <1>0, <2>1, StintsAre DEF GoesOn
<1>9. SpeaksTruly(new, on', stint') /\ TellsAll(new, Known') /\ \A i \in DOMAIN new : new[i] = r
  <2>1. r.node \in BusBoards => r.stint = stint'[r.node] /\ (r.node \in on' => r.present)
    BY <1>0, <1>1
  <2>2. /\ \A o, t : (r.node \in BusBoards => r.stint = t[r.node] /\ (r.node \in o => r.present))
                      => SpeaksTruly(new, o, t)
        /\ \A k : TellsAll(new, k)
        /\ \A i \in DOMAIN new : new[i] = r
    BY <1>1, <1>3, OneRowSent
  <2> QED
    BY <2>1, <2>2
<1>13. cache'[b] = "absent" /\ \A c \in BusBoards \ {b} : cache'[c] = cache[c]
  <2>1. cache \in [BusBoards -> {"no", "present", "absent"}]
    BY DEF RosterTypeOK
  <2> QED
    BY <1>0, <2>1
<1>14. Newly(new)
  <2>1. \A i \in DOMAIN new : new[i].node = b
    BY <1>1, <1>9
  <2>2. \A c \in on' : c # b \/ cache'[b] # "present" => c \in on /\ c # b /\ stint'[c] = stint[c]
    BY <1>0, <1>13 DEF RosterTypeOK
  <2>3. \A c \in on' : cache'[c] # "present" => c # b /\ cache[c] # "present"
    BY <1>0, <1>7, <1>13 DEF RosterTypeOK
  <2> QED
    BY <2>1, <2>2, <2>3 DEF Newly
<1>10. LinesTrue' /\ LinesTell' /\ KnownHeard'
  <2>1. stays' \subseteq stays /\ stays' \subseteq on' /\ \A c \in stays' : stint'[c] = stint[c]
    BY <1>0 DEF RosterTypeOK
  <2>2. Judging' => Judging /\ TellsAll(new, Known') /\ Newly(new)
    BY <1>0, <1>9, <1>14 DEF Judging
  <2>3. burst' = burst
    BY <1>0
  <2> QED
    BY <1>3, <1>8, <1>9, <2>1, <2>2, <2>3, SendingKeeps
<1>11. BridgeKnows'
  <2> QED
    BY <1>0, <1>13 DEF BridgeKnows, RosterInv, RosterTypeOK
<1>12. NotYetDue' /\ BurstShown' /\ StaysShown'
  BY <1>0 DEF RosterInv, NotYetDue, BurstShown, StaysShown, ShownOffline
<1> QED
  BY <1>7, <1>10, <1>11, <1>12 DEF RosterInv

LEMMA HeartbeatStep ==
    ASSUME RosterTypeOK, RosterInv, NEW b \in BusBoards, Heartbeat(b)
    PROVE  RosterTypeOK' /\ RosterInv'
<1> DEFINE r == RowLine(b, TRUE)
<1>0. /\ b \in on /\ cache[b] = "no" /\ cache' = [cache EXCEPT ![b] = "present"]
      /\ Send(<<r>>)
      /\ UNCHANGED <<on, stint, updates, shown, isComplete, burst, replying, asked, judge, stays>>
  BY DEF Heartbeat, rosterVars
<1>1. r \in Lines /\ r.kind = "row" /\ r.node = b /\ r.present /\ r.stint = stint[b]
  BY RowLineIs
<1> HIDE DEF r
<1>2. <<r>> \in Seq(Lines)
  BY <1>1
<1>3. PICK new \in Seq(Lines) :
        /\ lines' = lines \o new /\ lost' \in 0 .. MaxLost /\ lines' \in Seq(Lines)
        /\ new = <<r>> \/ (\E k \in DOMAIN <<r>> : new = Drop(<<r>>, k))
  BY <1>0, <1>2, SendAppends
<1>7. RosterTypeOK'
  <2>1. cache' \in [BusBoards -> {"no", "present", "absent"}]
    BY <1>0 DEF RosterTypeOK
  <2> QED
    BY <1>0, <1>3, <2>1 DEF RosterTypeOK
<1>8. GoesOn(on, stint, on', stint')
  BY <1>0, StintsAre
<1>9. SpeaksTruly(new, on', stint') /\ TellsAll(new, Known') /\ \A i \in DOMAIN new : new[i] = r
  <2>1. r.node \in BusBoards => r.stint = stint'[r.node] /\ (r.node \in on' => r.present)
    BY <1>0, <1>1
  <2>2. /\ \A o, t : (r.node \in BusBoards => r.stint = t[r.node] /\ (r.node \in o => r.present))
                      => SpeaksTruly(new, o, t)
        /\ \A k : TellsAll(new, k)
        /\ \A i \in DOMAIN new : new[i] = r
    BY <1>1, <1>3, OneRowSent
  <2> QED
    BY <2>1, <2>2
<1>13. cache'[b] = "present" /\ \A c \in BusBoards \ {b} : cache'[c] = cache[c]
  <2>1. cache \in [BusBoards -> {"no", "present", "absent"}]
    BY DEF RosterTypeOK
  <2> QED
    BY <1>0, <2>1
<1>14. Newly(new)
  <2>1. \A i \in DOMAIN new : new[i].node = b
    BY <1>1, <1>9
  <2>2. \A c \in on' : c # b \/ cache'[b] # "present" => c \in on /\ c # b /\ stint'[c] = stint[c]
    BY <1>0, <1>13 DEF RosterTypeOK
  <2>3. \A c \in on' : cache'[c] # "present" => c # b /\ cache[c] # "present"
    BY <1>0, <1>7, <1>13 DEF RosterTypeOK
  <2> QED
    BY <2>1, <2>2, <2>3 DEF Newly
<1>10. LinesTrue' /\ LinesTell' /\ KnownHeard'
  <2>1. stays' \subseteq stays /\ stays' \subseteq on' /\ \A c \in stays' : stint'[c] = stint[c]
    BY <1>0 DEF RosterTypeOK
  <2>2. Judging' => Judging /\ TellsAll(new, Known') /\ Newly(new)
    BY <1>0, <1>9, <1>14 DEF Judging
  <2>3. burst' = burst
    BY <1>0
  <2> QED
    BY <1>3, <1>8, <1>9, <2>1, <2>2, <2>3, SendingKeeps
<1>11. BridgeKnows'
  <2> QED
    BY <1>0, <1>13 DEF BridgeKnows, RosterInv, RosterTypeOK
<1>12. NotYetDue' /\ BurstShown' /\ StaysShown'
  BY <1>0 DEF RosterInv, NotYetDue, BurstShown, StaysShown, ShownOffline
<1> QED
  BY <1>7, <1>10, <1>11, <1>12 DEF RosterInv

LEMMA RestartsForUpdateStep ==
    ASSUME RosterTypeOK, RosterInv, RestartsForUpdate
    PROVE  RosterTypeOK' /\ RosterInv'
<1> DEFINE sent == <<RowLine(Bridge, TRUE), End(1)>>
<1>0. /\ judge = "held" /\ cache' = [b \in BusBoards |-> "no"] /\ Send(sent)
      /\ UNCHANGED <<on, stint, updates, shown, isComplete, burst, replying, asked, judge, stays>>
  BY DEF RestartsForUpdate, Boots, BootRoster, rosterVars
<1>1. /\ sent \in Seq(Lines)
      /\ \A new : new = sent \/ (\E k \in DOMAIN sent : new = Drop(sent, k))
           => SpeaksTruly(new, on, stint)
  <2>1. sent \in Seq(Lines)
    <3>1. sent = sent
      OBVIOUS
    <3> QED
      BY <3>1, AloneIs
  <2>2. ASSUME NEW new, new = sent \/ (\E k \in DOMAIN sent : new = Drop(sent, k))
        PROVE  SpeaksTruly(new, on, stint)
    BY <2>2, AloneIs
  <2> QED
    BY <2>1, <2>2
<1> HIDE DEF sent
<1>3. PICK new \in Seq(Lines) :
        /\ lines' = lines \o new /\ lost' \in 0 .. MaxLost /\ lines' \in Seq(Lines)
        /\ new = sent \/ (\E k \in DOMAIN sent : new = Drop(sent, k))
  BY <1>0, <1>1, SendAppends
<1>7. RosterTypeOK'
  BY <1>0, <1>3 DEF RosterTypeOK
<1>8. GoesOn(on, stint, on', stint')
  BY <1>0, StintsAre
<1>9. SpeaksTruly(new, on', stint')
  BY <1>0, <1>1, <1>3
<1>10. LinesTrue' /\ LinesTell' /\ KnownHeard'
  <2>1. stays' \subseteq stays /\ stays' \subseteq on' /\ \A c \in stays' : stint'[c] = stint[c]
    BY <1>0 DEF RosterTypeOK
  <2>2. ~Judging'
    BY <1>0 DEF Judging
  <2>3. burst' = burst
    BY <1>0
  <2> QED
    BY <1>3, <1>8, <1>9, <2>1, <2>2, <2>3, SendingKeeps
<1>11. BridgeKnows'
  <2>1. \A b \in BusBoards : cache'[b] = "no"
    BY <1>0
  <2> QED
    BY <1>0, <2>1 DEF RosterInv, BridgeKnows, RosterTypeOK
<1>12. NotYetDue' /\ BurstShown' /\ StaysShown'
  BY <1>0 DEF RosterInv, NotYetDue, BurstShown, StaysShown, ShownOffline
<1> QED
  BY <1>7, <1>10, <1>11, <1>12 DEF RosterInv

(* Nothing on its way speaks of a board's stay any longer, so that its boot *)
(* roster, taken for a whole reply, puts nobody offline whom the client has *)
(* heard of since.                                                          *)
LEMMA RestartsOutsideUpdateStep ==
    ASSUME RosterTypeOK, RosterInv, RestartsOutsideUpdate
    PROVE  RosterTypeOK' /\ RosterInv'
<1> DEFINE sent == <<RowLine(Bridge, TRUE), End(1)>>
           old == Forgotten(lines)
<1>0. /\ judge # "held" /\ updates < MaxUpdates /\ updates' = updates + 1
      /\ cache' = [b \in BusBoards |-> "no"] /\ lines' = old \o sent /\ stays' = {}
      /\ UNCHANGED <<on, stint, lost, shown, isComplete, burst, replying, asked, judge>>
  BY DEF RestartsOutsideUpdate, Boots, BootRoster, rosterVars
<1>1. sent \in Seq(Lines)
  <2>1. sent = sent
    OBVIOUS
  <2> QED
    BY <2>1, AloneIs
<1>2. /\ old \in Seq(Lines)
      /\ \A i \in DOMAIN old : old[i].kind = "row" => old[i].stint = 0
  <2>1. lines \in Seq(Lines)
    BY DEF RosterTypeOK
  <2> QED
    BY <2>1, ForgottenLines
<1>3. \A i \in DOMAIN sent : sent[i].kind = "row" => sent[i].node = Bridge
  <2>1. DOMAIN sent = {1, 2}
    BY <1>1
  <2>2. sent[1].node = Bridge /\ sent[2].kind = "end"
    BY DEF RowLine, End
  <2> QED
    BY <2>1, <2>2
<1>4. Bridge \notin BusBoards
  BY BusAssumption DEF BusAssumption
<1> HIDE DEF sent, old
<1>5. old \o sent \in Seq(Lines)
  BY <1>1, <1>2, AppendedLines
<1>6. ASSUME NEW i \in DOMAIN (old \o sent), (old \o sent)[i].kind = "row",
             (old \o sent)[i].node \in BusBoards
      PROVE  (old \o sent)[i].stint = 0
  <2>0. i \in 1 .. Len(old) + Len(sent) /\ Len(old) \in Nat /\ Len(sent) \in Nat
    BY <1>1, <1>2, AppendedLines
  <2>1. CASE i \in 1 .. Len(old)
    <3>1. (old \o sent)[i] = old[i] /\ i \in DOMAIN old
      BY <1>1, <1>2, <2>1, AppendedLines
    <3> QED
      BY <1>2, <1>6, <3>1
  <2>2. CASE i \notin 1 .. Len(old)
    <3>1. i - Len(old) \in 1 .. Len(sent) /\ Len(old) + (i - Len(old)) = i
      BY <2>0, <2>2
    <3>2. (old \o sent)[i] = sent[i - Len(old)] /\ i - Len(old) \in DOMAIN sent
      BY <1>1, <1>2, <3>1, AppendedLines
    <3> QED
      BY <1>3, <1>4, <1>6, <3>2
  <2> QED
    BY <2>1, <2>2
<1>7. RosterTypeOK'
  <2>1. updates' \in 0 .. MaxUpdates
    BY <1>0, BoundsAssumption DEF BoundsAssumption, RosterTypeOK
  <2>2. cache' \in [BusBoards -> {"no", "present", "absent"}]
    BY <1>0
  <2> QED
    BY <1>0, <1>5, <2>1, <2>2 DEF RosterTypeOK
<1>8. on \subseteq BusBoards /\ stint \in [BusBoards -> Nat] /\ \A b \in on : stint[b] >= 1
  BY StintsAre DEF RosterInv, BridgeKnows
<1>9. /\ RowsTrue(old \o sent, {}, on, stint) /\ RepliesTell(old \o sent, {}, on, stint)
      /\ BurstTells(old \o sent, burst, {}, on, stint)
      /\ \A b \in on : Unheard(old \o sent, b, stint)
  BY <1>5, <1>6, <1>8, NobodyHeeded
<1>10. LinesTrue' /\ LinesTell' /\ KnownHeard'
  BY <1>0, <1>9 DEF LinesTrue, LinesTell, KnownHeard
<1>11. BridgeKnows'
  <2>1. \A b \in BusBoards : cache'[b] = "no"
    BY <1>0
  <2> QED
    BY <1>0, <2>1 DEF RosterInv, BridgeKnows, RosterTypeOK
<1>12. NotYetDue' /\ BurstShown' /\ StaysShown'
  BY <1>0 DEF RosterInv, NotYetDue, BurstShown, StaysShown
<1> QED
  BY <1>7, <1>10, <1>11, <1>12 DEF RosterInv

LEMMA PollStep ==
    ASSUME RosterTypeOK, RosterInv, Poll
    PROVE  RosterTypeOK' /\ RosterInv'
<1>0. /\ burst' = (IF replying THEN burst ELSE {})
      /\ asked' = (IF judge \in {"free", "ripe"} THEN "due" ELSE "early")
      /\ Send(Reply) \/ (lost < MaxLost /\ lost' = lost + 1 /\ UNCHANGED lines)
      /\ UNCHANGED <<on, stint, cache, updates, shown, isComplete, replying, judge, stays>>
  BY DEF Poll, bridgeVars
<1>1. burst' = burst \/ burst' = {}
  BY <1>0
<1>2. lines \in Seq(Lines) /\ BridgeKnows
  BY DEF RosterTypeOK, RosterInv
<1>3. PICK new \in Seq(Lines) :
        /\ lines' = lines \o new /\ lost' \in 0 .. MaxLost /\ lines' \in Seq(Lines)
        /\ SpeaksTruly(new, on, stint) /\ TellsAll(new, Known)
        /\ \A i \in DOMAIN new : new[i].kind = "row" => new[i].node \in Listed \cup {Bridge}
  <2>1. CASE Send(Reply)
    <3>1. Reply \in Seq(Lines)
      BY ReplyIs
    <3>2. PICK new \in Seq(Lines) :
            /\ lines' = lines \o new /\ lost' \in 0 .. MaxLost /\ lines' \in Seq(Lines)
            /\ new = Reply \/ (\E k \in DOMAIN Reply : new = Drop(Reply, k))
      BY <2>1, <3>1, SendAppends
    <3>3. /\ SpeaksTruly(new, on, stint) /\ TellsAll(new, Known)
          /\ \A i \in DOMAIN new : new[i].kind = "row" => new[i].node \in Listed \cup {Bridge}
      BY <1>2, <3>2, PollTells
    <3> QED
      BY <3>2, <3>3
  <2>2. CASE lost < MaxLost /\ lost' = lost + 1 /\ UNCHANGED lines
    <3>1. <<>> \in Seq(Lines) /\ DOMAIN <<>> = {} /\ lines \o <<>> = lines
      BY <1>2
    <3>2. SpeaksTruly(<<>>, on, stint) /\ TellsAll(<<>>, Known)
      BY <3>1 DEF SpeaksTruly, TellsAll
    <3>3. lost' \in 0 .. MaxLost
      BY <2>2, BoundsAssumption DEF BoundsAssumption, RosterTypeOK
    <3> QED
      BY <1>2, <2>2, <3>1, <3>2, <3>3
  <2> QED
    BY <1>0, <2>1, <2>2
<1>4. RosterTypeOK'
  <2>1. burst' \subseteq Nodes
    BY <1>1 DEF RosterTypeOK
  <2>2. asked' \in {"no", "early", "due"}
    BY <1>0
  <2> QED
    BY <1>0, <1>3, <2>1, <2>2 DEF RosterTypeOK
<1>5. GoesOn(on, stint, on', stint')
  BY <1>0, StintsAre
<1>6. LinesTrue' /\ LinesTell' /\ KnownHeard'
  <2>1. stays' \subseteq stays /\ stays' \subseteq on' /\ \A c \in stays' : stint'[c] = stint[c]
    BY <1>0 DEF RosterTypeOK
  <2>4. Known' = Known
    BY <1>0 DEF Known
  <2>5. Newly(new)
    <3>1. \A b \in on : cache[b] # "present" => b \notin Listed \cup {Bridge}
      BY <1>2, BusAssumption DEF BusAssumption, BridgeKnows, Listed, RosterTypeOK
    <3> QED
      BY <1>0, <1>3, <3>1 DEF Newly
  <2>2. Judging' => Judging /\ TellsAll(new, Known') /\ Newly(new)
    BY <1>0, <1>3, <2>4, <2>5 DEF Judging
  <2>3. SpeaksTruly(new, on', stint')
    BY <1>0, <1>3
  <2> QED
    BY <1>1, <1>3, <1>5, <2>1, <2>2, <2>3, SendingKeeps
<1>7. BridgeKnows'
  BY <1>0 DEF BridgeKnows, RosterInv, Judging
<1>8. NotYetDue'
  BY <1>0 DEF NotYetDue
<1>9. BurstShown' /\ StaysShown'
  BY <1>0, <1>1 DEF RosterInv, BurstShown, StaysShown, ShownOffline
<1> QED
  BY <1>4, <1>6, <1>7, <1>8, <1>9 DEF RosterInv

LEMMA RemovesStep ==
    ASSUME RosterTypeOK, RosterInv, NEW b \in BusBoards, Removes(b)
    PROVE  RosterTypeOK' /\ RosterInv'
<1>0. /\ cache[b] = "absent" /\ cache' = [cache EXCEPT ![b] = "no"]
      /\ UNCHANGED <<on, stint, lines, lost, updates, shown, isComplete, burst, replying, asked,
                     judge, stays>>
  BY DEF Removes, rosterVars
<1>1. cache \in [BusBoards -> {"no", "present", "absent"}]
  BY DEF RosterTypeOK
<1>2. cache'[b] = "no" /\ \A c \in BusBoards \ {b} : cache'[c] = cache[c]
  BY <1>0, <1>1
<1>3. cache' \in [BusBoards -> {"no", "present", "absent"}]
  BY <1>0, <1>1
<1>4. RosterTypeOK'
  BY <1>0, <1>3 DEF RosterTypeOK
<1>5. b \notin on
  BY <1>0 DEF RosterInv, BridgeKnows
<1>6. BridgeKnows'
  BY <1>0, <1>2, <1>5 DEF BridgeKnows, RosterInv, Judging, RosterTypeOK
<1>7. LinesTrue' /\ LinesTell' /\ KnownHeard'
  BY <1>0, <1>2, <1>5 DEF RosterInv, LinesTrue, LinesTell, KnownHeard, Judging, RosterTypeOK
<1>8. NotYetDue' /\ BurstShown' /\ StaysShown'
  BY <1>0 DEF RosterInv, NotYetDue, BurstShown, StaysShown, ShownOffline
<1> QED
  BY <1>4, <1>6, <1>7, <1>8 DEF RosterInv

LEMMA UpdateStep ==
    ASSUME RosterTypeOK, RosterInv, Hold \/ Release
    PROVE  RosterTypeOK' /\ RosterInv'
<1>0. /\ judge' \in {"held", "waiting"} /\ updates' \in {updates, updates + 1}
      /\ updates' = updates + 1 => updates < MaxUpdates
      /\ judge' = "waiting" => asked' \in {"no", "early"}
      /\ asked' \in {asked, "no", "early"}
      /\ UNCHANGED <<on, stint, cache, lines, lost, shown, isComplete, burst, replying, stays>>
  <2>1. updates \in Nat /\ updates # updates + 1
    BY BoundsAssumption DEF BoundsAssumption, RosterTypeOK
  <2>2. CASE Hold
    BY <2>1, <2>2 DEF Hold, bridgeVars, rosterVars
  <2>3. CASE Release
    BY <2>1, <2>3 DEF Release, bridgeVars
  <2> QED
    BY <2>2, <2>3
<1>1. updates' \in 0 .. MaxUpdates
  <2>1. updates \in 0 .. MaxUpdates /\ MaxUpdates \in Nat
    BY BoundsAssumption DEF BoundsAssumption, RosterTypeOK
  <2>2. updates < MaxUpdates => updates + 1 \in 0 .. MaxUpdates
    BY <2>1
  <2> QED
    BY <1>0, <2>1, <2>2
<1>2. RosterTypeOK'
  BY <1>0, <1>1 DEF RosterTypeOK
<1>3. ~Judging'
  BY <1>0 DEF Judging
<1>4. BridgeKnows' /\ LinesTell' /\ KnownHeard'
  BY <1>0, <1>3 DEF RosterInv, BridgeKnows, LinesTell, KnownHeard
<1>5. LinesTrue' /\ NotYetDue' /\ BurstShown' /\ StaysShown'
  BY <1>0 DEF RosterInv, LinesTrue, NotYetDue, BurstShown, StaysShown, ShownOffline
<1> QED
  BY <1>2, <1>4, <1>5 DEF RosterInv

LEMMA NoLinesTell ==
    ASSUME NEW h, NEW st, NEW o, NEW t
    PROVE  /\ RepliesTell(<<>>, st, o, t) /\ BurstTells(<<>>, h, st, o, t)
           /\ RowsTrue(<<>>, st, o, t) /\ \A b : Unheard(<<>>, b, t)
<1>1. DOMAIN <<>> = {}
  OBVIOUS
<1> QED
  BY <1>1 DEF RepliesTell, BurstTells, RowsTrue, Unheard

LEMMA RipensStep ==
    ASSUME "slow" \notin RosterOdds, RosterTypeOK, RosterInv, Ripens
    PROVE  RosterTypeOK' /\ RosterInv'
<1>0. /\ judge = "waiting" /\ judge' = "ripe" /\ lines = <<>>
      /\ \A b \in stays : cache[b] = "present"
      /\ UNCHANGED <<on, stint, cache, lines, lost, updates, shown, isComplete, burst, replying,
                     asked, stays>>
  BY DEF Ripens, bridgeVars, rosterVars
<1>1. RosterTypeOK'
  BY <1>0 DEF RosterTypeOK
<1>2. BridgeKnows' /\ NotYetDue' /\ BurstShown' /\ StaysShown'
  BY <1>0 DEF RosterInv, BridgeKnows, Judging, NotYetDue, BurstShown, StaysShown, ShownOffline
<1>3. LinesTrue' /\ LinesTell' /\ KnownHeard'
  <2>1. lines' = <<>>
    BY <1>0
  <2> QED
    BY <1>0, <2>1, NoLinesTell DEF LinesTrue, LinesTell, KnownHeard
<1> QED
  BY <1>1, <1>2, <1>3 DEF RosterInv

LEMMA ReopensStep ==
    ASSUME RosterTypeOK, RosterInv, Reopens
    PROVE  RosterTypeOK' /\ RosterInv'
<1>0. /\ updates < MaxUpdates /\ updates' = updates + 1
      /\ lines' = <<>>
      /\ stays' = (IF judge = "held" THEN on ELSE {b \in on : cache[b] = "present"})
      /\ shown' = [b \in BusBoards |-> "none"] /\ isComplete' = FALSE
      /\ burst' = {} /\ replying' = FALSE /\ asked' = "no"
      /\ UNCHANGED <<on, stint, cache, lost, judge>>
  BY DEF Reopens, bridgeVars
<1>1. updates' \in 0 .. MaxUpdates
  BY <1>0, BoundsAssumption DEF BoundsAssumption, RosterTypeOK
<1>2. shown' \in [BusBoards -> {"none", "present", "absent"}] /\ lines' \in Seq(Lines)
  BY <1>0
<1>7. stays' \subseteq on /\ (Judging => \A b \in stays' : cache[b] = "present")
  BY <1>0 DEF Judging
<1>3. RosterTypeOK'
  BY <1>0, <1>1, <1>2, <1>7 DEF RosterTypeOK
<1>4. LinesTrue' /\ LinesTell' /\ KnownHeard'
  BY <1>0, <1>7, NoLinesTell DEF LinesTrue, LinesTell, KnownHeard, Judging
<1>5. BridgeKnows' /\ NotYetDue' /\ BurstShown'
  BY <1>0 DEF RosterInv, BridgeKnows, Judging, NotYetDue, BurstShown
<1>6. StaysShown'
  <2>1. \A b \in BusBoards : shown'[b] = "none"
    BY <1>0
  <2> QED
    BY <1>0, <2>1, <1>3 DEF StaysShown, ShownOffline, RosterTypeOK
<1> QED
  BY <1>3, <1>4, <1>5, <1>6 DEF RosterInv

LEMMA RowArrivesStep ==
    ASSUME RosterTypeOK, RosterInv, Arrives, RowArrives
    PROVE  RosterTypeOK' /\ RosterInv'
<1> DEFINE l == lines[1]
<1>0. /\ lines \in Seq(Lines) /\ lines # <<>> /\ lines' = Tail(lines) /\ Heard = l
      /\ l \in Lines /\ 1 \in DOMAIN lines /\ lines' \in Seq(Lines)
  <2>1. lines \in Seq(Lines) /\ lines # <<>> /\ lines' = Tail(lines)
    BY DEF RosterTypeOK, Arrives
  <2>2. 1 \in 1 .. Len(lines)
    BY <2>1, RestOfLines
  <2> QED
    BY <2>1, <2>2, RestOfLines DEF Heard
<1> HIDE DEF l
<1>1. /\ l.kind = "row"
      /\ burst' = (IF l.node = Bridge THEN {} ELSE burst) \cup {l.node}
      /\ replying' = (replying \/ l.node = Bridge)
      /\ shown' = [b \in BusBoards |-> IF b # l.node THEN shown[b]
                                ELSE IF l.present THEN "present" ELSE "absent"]
      /\ stays' = stays \cup {b \in on : b = l.node /\ l.present /\ l.stint = stint[b]}
      /\ UNCHANGED <<on, stint, cache, lost, updates, isComplete, asked, judge>>
  BY <1>0 DEF RowArrives, Arrives, bridgeVars
<1>2. l.node \in Nodes
  BY <1>0, <1>1, RowHasStint
<1>3. stays' = HeardOf(l, stays, on, stint)
  BY <1>1 DEF HeardOf
<1>4. RosterTypeOK'
  <2>1. shown' \in [BusBoards -> {"none", "present", "absent"}]
    BY <1>1 DEF RosterTypeOK
  <2>2. burst' \subseteq Nodes
    BY <1>1, <1>2 DEF RosterTypeOK
  <2>3. stays' \subseteq on
    BY <1>1 DEF RosterTypeOK
  <2>4. replying' \in BOOLEAN
    BY <1>1
  <2> QED
    BY <1>0, <1>1, <2>1, <2>2, <2>3, <2>4 DEF RosterTypeOK
<1>5. stint \in [BusBoards -> Nat] /\ on \subseteq BusBoards
  BY StintsAre
<1>6. LinesTrue'
  <2>1. RowsTrue(lines, stays, on, stint)
    BY DEF RosterInv, LinesTrue
  <2>2. RowsTrue(Tail(lines), stays', on, stint)
    BY <1>0, <1>1, <1>3, <1>5, <2>1, RestRows DEF l
  <2> QED
    BY <1>0, <1>1, <2>2 DEF LinesTrue
<1>7. LinesTell'
  <2> SUFFICES ASSUME Judging'
               PROVE  /\ RepliesTell(lines', stays', on', stint')
                      /\ BurstTells(lines', burst', stays', on', stint')
    BY DEF LinesTell
  <2>1. /\ RepliesTell(lines, stays, on, stint)
        /\ BurstTells(lines, burst, stays, on, stint)
    BY <1>1 DEF RosterInv, LinesTell, Judging
  <2>2. RepliesTell(Tail(lines), stays', on, stint)
    BY <1>0, <1>1, <1>3, <2>1, RestTells DEF l
  <2>3. BurstTells(Tail(lines), (IF l.node = Bridge THEN {} ELSE burst) \cup {l.node},
                   HeardOf(l, stays, on, stint), on, stint)
    BY <1>0, <1>1, <2>1, HeardTells DEF l
  <2> QED
    BY <1>0, <1>1, <1>3, <2>2, <2>3
<1>12. KnownHeard'
  <2> SUFFICES ASSUME Judging, NEW b \in on, cache[b] # "present"
               PROVE  b \notin stays' /\ Unheard(lines', b, stint)
    BY <1>1 DEF KnownHeard, Judging
  <2>1. b \notin stays /\ Unheard(lines, b, stint)
    BY DEF RosterInv, KnownHeard
  <2>2. ~(b = l.node /\ l.stint = stint[b])
    BY <1>0, <1>1, <2>1 DEF Unheard, l
  <2>3. Unheard(lines', b, stint)
    BY <1>0, <2>1, RestUnheard
  <2> QED
    BY <1>1, <2>1, <2>2, <2>3
<1>8. BridgeKnows' /\ NotYetDue'
  BY <1>1 DEF RosterInv, BridgeKnows, Judging, NotYetDue
<1>9. /\ \A b \in BusBoards : b # l.node => shown'[b] = shown[b]
      /\ \A b \in BusBoards : b = l.node => shown'[b] # "none"
      /\ \A b \in BusBoards : b = l.node /\ l.present => shown'[b] = "present"
  BY <1>1
<1>10. BurstShown'
  <2>1. burst' \subseteq burst \cup {l.node}
    BY <1>1
  <2> QED
    BY <1>9, <2>1 DEF RosterInv, BurstShown
<1>11. StaysShown'
  <2> SUFFICES ASSUME NEW b \in stays' PROVE ~ShownOffline(b)'
    BY DEF StaysShown
  <2>1. b \in on /\ b \in BusBoards
    BY <1>4, <1>1 DEF RosterTypeOK
  <2>2. CASE b # l.node
    <3>1. b \in stays /\ shown'[b] = shown[b]
      BY <1>1, <1>9, <2>1, <2>2
    <3> QED
      BY <1>1, <3>1 DEF RosterInv, StaysShown, ShownOffline
  <2>3. CASE b = l.node
    <3>1. l.present
      <4>1. CASE b \in stays
        <5>1. RowsTrue(lines, stays, on, stint)
          BY DEF RosterInv, LinesTrue
        <5>2. /\ l.node \in on /\ l.stint = stint[l.node] => l.present
              /\ l.node \in stays => l.stint = stint[l.node]
          BY <1>0, <1>1, <2>1, <2>3, <5>1 DEF RowsTrue, l
        <5> QED
          BY <2>1, <2>3, <4>1, <5>2
      <4>2. CASE b \notin stays
        BY <1>1, <4>2
      <4> QED
        BY <4>1, <4>2
    <3>2. shown'[b] = "present"
      BY <1>9, <2>1, <2>3, <3>1
    <3> QED
      BY <3>2 DEF ShownOffline
  <2> QED
    BY <2>2, <2>3
<1> QED
  BY <1>4, <1>6, <1>7, <1>8, <1>10, <1>11, <1>12 DEF RosterInv

LEMMA EndArrivesStep ==
    ASSUME RosterTypeOK, RosterInv, Arrives, EndArrives
    PROVE  RosterTypeOK' /\ RosterInv'
<1> DEFINE l == lines[1]
<1>0. /\ lines \in Seq(Lines) /\ lines # <<>> /\ lines' = Tail(lines) /\ Heard = l
      /\ 1 \in DOMAIN lines /\ lines' \in Seq(Lines)
  <2>1. lines \in Seq(Lines) /\ lines # <<>> /\ lines' = Tail(lines)
    BY DEF RosterTypeOK, Arrives
  <2>2. 1 \in 1 .. Len(lines)
    BY <2>1, RestOfLines
  <2> QED
    BY <2>1, <2>2, RestOfLines DEF Heard
<1> HIDE DEF l
<1>1. /\ l.kind = "end"
      /\ burst' = {} /\ replying' = FALSE /\ asked' = "no" /\ stays' = stays
      /\ judge' = (IF Judges THEN "free" ELSE judge)
      /\ UNCHANGED <<on, stint, cache, lost, updates>>
  BY <1>0 DEF EndArrives, Arrives, bridgeVars
<1>2. \/ /\ Judges /\ Whole /\ isComplete' = TRUE
         /\ shown' = [b \in BusBoards |->
                        IF shown[b] = "present" /\ b \notin burst THEN "absent" ELSE shown[b]]
      \/ UNCHANGED <<shown, isComplete>>
  BY DEF EndArrives
<1>3. Judges => Judging
  BY DEF RosterInv, NotYetDue, Judges, Judging, RosterTypeOK
<1>4. Judging' => Judging
  BY <1>1, <1>3 DEF Judging
<1>5. RosterTypeOK'
  <2>1. shown' \in [BusBoards -> {"none", "present", "absent"}] /\ isComplete' \in BOOLEAN
    BY <1>2 DEF RosterTypeOK
  <2>2. judge' \in {"free", "held", "waiting", "ripe"}
    BY <1>1 DEF RosterTypeOK
  <2> QED
    BY <1>0, <1>1, <2>1, <2>2 DEF RosterTypeOK
<1>6. LinesTrue'
  <2>1. RowsTrue(lines, stays, on, stint)
    BY DEF RosterInv, LinesTrue
  <2>2. RowsTrue(Tail(lines), stays, on, stint)
    BY <1>0, <2>1, RestRows, StintsAre
  <2> QED
    BY <1>0, <1>1, <2>2 DEF LinesTrue
<1>7. LinesTell'
  <2> SUFFICES ASSUME Judging'
               PROVE  /\ RepliesTell(lines', stays', on', stint')
                      /\ BurstTells(lines', burst', stays', on', stint')
    BY DEF LinesTell
  <2>1. RepliesTell(lines, stays, on, stint)
    BY <1>4 DEF RosterInv, LinesTell
  <2>2. RepliesTell(Tail(lines), stays, on, stint)
    BY <1>0, <2>1, RestTells
  <2>3. BurstTells(Tail(lines), {}, stays, on, stint)
    BY <1>0, <2>2, NothingHeardTells
  <2> QED
    BY <1>0, <1>1, <2>2, <2>3
<1>10. KnownHeard'
  <2> SUFFICES ASSUME Judging', NEW b \in on, cache[b] # "present"
               PROVE  b \notin stays /\ Unheard(lines', b, stint)
    BY <1>1 DEF KnownHeard
  <2>1. b \notin stays /\ Unheard(lines, b, stint)
    BY <1>4 DEF RosterInv, KnownHeard
  <2> QED
    BY <1>0, <2>1, RestUnheard
<1>8. BridgeKnows' /\ NotYetDue' /\ BurstShown'
  BY <1>1, <1>4 DEF RosterInv, BridgeKnows, NotYetDue, BurstShown
<1>9. StaysShown'
  <2>1. CASE UNCHANGED <<shown, isComplete>>
    BY <1>1, <2>1 DEF RosterInv, StaysShown, ShownOffline
  <2>2. CASE /\ Judges /\ Whole /\ isComplete' = TRUE
             /\ shown' = [b \in BusBoards |->
                        IF shown[b] = "present" /\ b \notin burst THEN "absent" ELSE shown[b]]
    <3>1. BurstTells(lines, burst, stays, on, stint)
      BY <1>3, <2>2 DEF RosterInv, LinesTell
    <3>2. Told(lines, 1, 1) = {} /\ Closes(lines, 1, 1)
      BY <1>1 DEF Told, Closes, l
    <3>3. Cardinality(burst \cup Told(lines, 1, 1)) = lines[1].count
      <4>1. burst \cup Told(lines, 1, 1) = burst
        BY <3>2
      <4> QED
        BY <1>0, <2>2, <4>1 DEF Whole, l
    <3>4. Heeded(lines, 1, stays, on, stint) \subseteq burst \cup Told(lines, 1, 1)
      BY <1>0, <3>1, <3>2, <3>3 DEF BurstTells
    <3>5. stays \subseteq burst
      BY <3>2, <3>4 DEF Heeded
    <3>6. ASSUME NEW b \in stays PROVE shown'[b] = "present"
      <4>1. b \in BusBoards /\ b \in burst
        BY <3>5 DEF RosterTypeOK
      <4>2. shown[b] = "present"
        BY <4>1 DEF RosterInv, BurstShown, StaysShown, ShownOffline, RosterTypeOK
      <4> QED
        BY <2>2, <4>1, <4>2
    <3> QED
      BY <1>1, <3>6 DEF StaysShown, ShownOffline
  <2> QED
    BY <1>2, <2>1, <2>2
<1> QED
  BY <1>5, <1>6, <1>7, <1>8, <1>9, <1>10 DEF RosterInv

LEMMA RosterInvInit == RosterInit => RosterInv
<1> SUFFICES ASSUME RosterInit PROVE RosterInv
  OBVIOUS
<1>1. LinesTrue /\ LinesTell
  BY NoLinesTell DEF RosterInit, LinesTrue, LinesTell
<1>2. BridgeKnows /\ KnownHeard /\ NotYetDue /\ BurstShown /\ StaysShown
  BY DEF RosterInit, BridgeKnows, KnownHeard, NotYetDue, BurstShown, StaysShown
<1> QED
  BY <1>1, <1>2 DEF RosterInv

LEMMA RosterStep ==
    ASSUME "slow" \notin RosterOdds, RosterTypeOK, RosterInv, [RosterNext]_allVars
    PROVE  RosterTypeOK' /\ RosterInv'
<1>1. ASSUME NEW b \in BusBoards, Joins(b) \/ Leaves(b) \/ Removes(b) \/ Heartbeat(b)
      PROVE  RosterTypeOK' /\ RosterInv'
  BY <1>1, JoinsStep, LeavesStep, RemovesStep, HeartbeatStep
<1>2. CASE Restarts
  BY <1>2, RestartsForUpdateStep, RestartsOutsideUpdateStep DEF Restarts
<1>3. CASE Poll
  BY <1>3, PollStep
<1>4. CASE Arrives
  <2>1. RowArrives \/ EndArrives
    BY <1>4 DEF Arrives
  <2> QED
    BY <1>4, <2>1, RowArrivesStep, EndArrivesStep
<1>5. CASE Hold \/ Release
  BY <1>5, UpdateStep
<1>6. CASE Ripens
  BY <1>6, RipensStep
<1>7. CASE Reopens
  BY <1>7, ReopensStep
<1>8. CASE UNCHANGED allVars
  <2>1. UNCHANGED <<on, stint, cache, lines, lost, updates, shown, isComplete, burst, replying,
                    asked, judge, stays>>
    BY <1>8 DEF allVars, bridgeVars, rosterVars
  <2>2. RosterTypeOK'
    BY <2>1 DEF RosterTypeOK
  <2>3. LinesTrue' /\ LinesTell' /\ BridgeKnows' /\ KnownHeard'
    BY <2>1 DEF RosterInv, LinesTrue, LinesTell, BridgeKnows, KnownHeard, Judging
  <2>4. NotYetDue' /\ BurstShown' /\ StaysShown'
    BY <2>1 DEF RosterInv, NotYetDue, BurstShown, StaysShown, ShownOffline
  <2> QED
    BY <2>2, <2>3, <2>4 DEF RosterInv
<1> QED
  BY <1>1, <1>2, <1>3, <1>4, <1>5, <1>6, <1>7, <1>8 DEF RosterNext, TheBus, Client

(* Unless a line can be on its way for longer than a poll period, a board   *)
(* that is on the bus and that the client has heard of, or found there when *)
(* it connected, is not shown offline before the bridge restarts outside an *)
(* update: whatever line or request was lost, whenever it asked, whatever   *)
(* the bridge forgot in an update.  After a restart outside one it is again *)
(* so for the boards the client has heard of since.                         *)
THEOREM StaysOnTheBusAreShown ==
    ASSUME "slow" \notin RosterOdds
    PROVE  RosterSpec => [](RosterTypeOK /\ StaysShown)
<1>1. RosterInit => RosterTypeOK /\ RosterInv
  BY RosterTypeInit, RosterInvInit
<1>2. (RosterTypeOK /\ RosterInv) /\ [RosterNext]_allVars => (RosterTypeOK /\ RosterInv)'
  BY RosterStep
<1>3. RosterTypeOK /\ RosterInv => RosterTypeOK /\ StaysShown
  BY DEF RosterInv
<1> QED
  BY <1>1, <1>2, <1>3, PTL DEF RosterSpec
=============================================================================
