------------------------------ MODULE Timetable ------------------------------
(***************************************************************************)
(* The timetable of races: src/src/trk/Timetable.{hpp,cpp}.                *)
(*                                                                         *)
(* A timetable is a vector of entries; an entry is a slot (a track and a   *)
(* timestamp) and a map from the names of the tarakans that run in it to   *)
(* their strategies.  Every strategy of the program is a RandomStrategy,   *)
(* so the vector of strategies of a tarakan is its length.                 *)
(***************************************************************************)
EXTENDS Naturals, Sequences, FiniteSets

CONSTANTS
    Names,      \* names of teams and of tarakans, as the server stores them
    Tracks,     \* track ids
    Times,      \* timestamps
    SlotSize,   \* the tarakans a slot takes: the literal 5 of isFree
    NoKey       \* what a map gives for a key it does not have

ASSUME SlotSizeAssumption == SlotSize \in Nat \ {0}
ASSUME NoKeyAssumption == NoKey \notin Nat /\ NoKey \notin Seq({"RandomStrategy"})

Entry ==
    [ timestamp     : Times,
      track_id      : Tracks,
      tarakans_info : [Names -> Nat \cup {NoKey}] ]

\* The names an entry holds: the keys of its std::map.
Runners(e) == { n \in Names : e.tarakans_info[n] # NoKey }

IsSlot(e, track, time) == e.track_id = track /\ e.timestamp = time

\* The positions of a slot in the vector, and the one the loops stop at.
Matching(entries, track, time) ==
    { k \in DOMAIN entries : IsSlot(entries[k], track, time) }

FirstMatch(entries, track, time) ==
    CHOOSE k \in Matching(entries, track, time) :
        \A l \in Matching(entries, track, time) : k <= l

-----------------------------------------------------------------------------
(* isFree: the first entry of the slot has room, or there is none. *)

\* Mutant: the comparison lets one tarakan too many in.
isFreeOffByOne(entries, track, time) ==
    Matching(entries, track, time) # {} =>
        Cardinality(Runners(entries[FirstMatch(entries, track, time)])) <= SlotSize

\* Mutant: a slot is refused one tarakan too early.
isFreeTooStrict(entries, track, time) ==
    Matching(entries, track, time) # {} =>
        Cardinality(Runners(entries[FirstMatch(entries, track, time)])) + 1 < SlotSize

isFree(entries, track, time) ==
    Matching(entries, track, time) # {} =>
        Cardinality(Runners(entries[FirstMatch(entries, track, time)])) < SlotSize

-----------------------------------------------------------------------------
(* addTarakan: the first entry of the slot gets the tarakan, or a new entry  *)
(* at the end of the vector does.                                            *)

\* Mutant: the two numbers change places.
newEntrySwapped(track, time) ==
    [timestamp |-> track, track_id |-> time, tarakans_info |-> [n \in Names |-> NoKey]]

newEntry(track, time) ==
    [timestamp |-> time, track_id |-> track, tarakans_info |-> [n \in Names |-> NoKey]]

\* Mutant: the map is replaced instead of extended.
addTarakanInfoReplacing(e, name, strategies) ==
    [newEntry(e.track_id, e.timestamp) EXCEPT !.tarakans_info[name] = strategies]

\* tarakans_info[name] = strategies: a name already there is overwritten.
addTarakanInfo(e, name, strategies) ==
    [e EXCEPT !.tarakans_info[name] = strategies]

\* Mutant: the search is skipped, every tarakan gets an entry of its own.
addTarakanAppending(entries, name, strategies, track, time) ==
    Append(entries, addTarakanInfo(newEntry(track, time), name, strategies))

addTarakan(entries, name, strategies, track, time) ==
    IF Matching(entries, track, time) # {}
    THEN LET k == FirstMatch(entries, track, time)
         IN  [entries EXCEPT ![k] = addTarakanInfo(entries[k], name, strategies)]
    ELSE Append(entries, addTarakanInfo(newEntry(track, time), name, strategies))

-----------------------------------------------------------------------------
(* serialize and deserialize: in JSON the strategies of a tarakan are an     *)
(* array that says "RandomStrategy" once for each of them; reading it back   *)
(* makes one new RandomStrategy for each element, whatever the element says. *)

JSONEntry ==
    [ timestamp     : Times,
      track_id      : Tracks,
      tarakans_info : [Names -> Seq({"RandomStrategy"}) \cup {NoKey}] ]

serializeEntry(e) ==
    [ timestamp     |-> e.timestamp,
      track_id      |-> e.track_id,
      tarakans_info |->
        [n \in Names |-> IF e.tarakans_info[n] = NoKey THEN NoKey
                         ELSE [s \in 1 .. e.tarakans_info[n] |-> "RandomStrategy"]] ]

\* Mutant: the loop stops one entry early.
serializeShort(entries) == [k \in 1 .. Len(entries) - 1 |-> serializeEntry(entries[k])]

serialize(entries) == [k \in DOMAIN entries |-> serializeEntry(entries[k])]

deserializeEntry(j) ==
    [ timestamp     |-> j.timestamp,
      track_id      |-> j.track_id,
      tarakans_info |->
        [n \in Names |-> IF j.tarakans_info[n] = NoKey THEN NoKey
                         ELSE Len(j.tarakans_info[n])] ]

deserialize(json) == [k \in DOMAIN json |-> deserializeEntry(json[k])]

-----------------------------------------------------------------------------
(* What the timetable says about a slot, for the properties. *)

\* The tarakans of a slot, over all the entries that name it.
Booked(entries, track, time) ==
    UNION { Runners(entries[k]) : k \in Matching(entries, track, time) }

\* No two entries are the same slot.
DistinctSlots(entries) ==
    \A k, l \in DOMAIN entries :
        IsSlot(entries[k], entries[l].track_id, entries[l].timestamp) => k = l

=============================================================================
