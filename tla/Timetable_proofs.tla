--------------------------- MODULE Timetable_proofs ---------------------------
(***************************************************************************)
(* What the operations of Timetable return, for every set of names, tracks *)
(* and times and every size of a slot.                                     *)
(***************************************************************************)
EXTENDS Timetable, FiniteSetTheorems, SequenceTheorems, TLAPS

-----------------------------------------------------------------------------
(* Entries. *)

\* A new entry is empty and is the slot it was made for.
LEMMA newEntryLemma ==
    ASSUME NEW track \in Tracks, NEW time \in Times
    PROVE  /\ newEntry(track, time) \in Entry
           /\ Runners(newEntry(track, time)) = {}
           /\ newEntry(track, time).track_id = track
           /\ newEntry(track, time).timestamp = time
BY DEF newEntry, Entry, Runners

\* addTarakanInfo adds the one name and leaves the slot of the entry alone.
LEMMA addTarakanInfoLemma ==
    ASSUME NEW e \in Entry, NEW name \in Names, NEW strategies \in Nat
    PROVE  /\ addTarakanInfo(e, name, strategies) \in Entry
           /\ Runners(addTarakanInfo(e, name, strategies)) = Runners(e) \cup {name}
           /\ addTarakanInfo(e, name, strategies).track_id = e.track_id
           /\ addTarakanInfo(e, name, strategies).timestamp = e.timestamp
<1> DEFINE f == addTarakanInfo(e, name, strategies)
<1>1. f \in Entry
    BY DEF addTarakanInfo, Entry
<1>2. f.track_id = e.track_id /\ f.timestamp = e.timestamp
    BY DEF addTarakanInfo, Entry
<1>3. \A n \in Names : f.tarakans_info[n] = IF n = name THEN strategies ELSE e.tarakans_info[n]
    BY DEF addTarakanInfo, Entry
<1>4. strategies # NoKey
    BY NoKeyAssumption
<1>5. Runners(f) = Runners(e) \cup {name}
    BY <1>3, <1>4 DEF Runners
<1>6. QED
    BY <1>1, <1>2, <1>5

-----------------------------------------------------------------------------
(* The searches. *)

\* When no slot has two entries, the first match is the only one.
LEMMA FirstMatchLemma ==
    ASSUME NEW entries \in Seq(Entry), DistinctSlots(entries),
           NEW track, NEW time,
           Matching(entries, track, time) # {}
    PROVE  Matching(entries, track, time) = {FirstMatch(entries, track, time)}
<1> DEFINE S == Matching(entries, track, time)
<1>1. PICK k \in S : TRUE
    OBVIOUS
<1>2. S \subseteq DOMAIN entries /\ \A l \in S : IsSlot(entries[l], track, time)
    BY DEF Matching
<1>3. \A l \in S : l = k
    BY <1>1, <1>2 DEF DistinctSlots, IsSlot
<1>4. DOMAIN entries \subseteq Nat
    BY LenProperties
<1>5. \A l \in S : k <= l
    BY <1>1, <1>2, <1>3, <1>4
<1>6. FirstMatch(entries, track, time) \in S
    BY <1>1, <1>5 DEF FirstMatch
<1>7. QED
    BY <1>1, <1>3, <1>6

\* isFree says whether the slot, over all its entries, has room.
LEMMA isFreeLemma ==
    ASSUME NEW entries \in Seq(Entry), DistinctSlots(entries),
           NEW track, NEW time
    PROVE  isFree(entries, track, time)
            <=> Cardinality(Booked(entries, track, time)) < SlotSize
<1> DEFINE S == Matching(entries, track, time)
<1>1. CASE S = {}
    <2>1. Booked(entries, track, time) = {}
        BY <1>1 DEF Booked
    <2>2. QED
        BY <1>1, <2>1, FS_EmptySet, SlotSizeAssumption DEF isFree
<1>2. CASE S # {}
    <2> DEFINE k == FirstMatch(entries, track, time)
    <2>1. S = {k}
        BY <1>2, FirstMatchLemma
    <2>2. Booked(entries, track, time) = Runners(entries[k])
        BY <2>1 DEF Booked
    <2>3. QED
        BY <1>2, <2>2 DEF isFree
<1>3. QED
    BY <1>1, <1>2

-----------------------------------------------------------------------------
(* addTarakan. *)

\* addTarakan keeps the vector a timetable in which no slot has two entries, puts
\* the name into its slot and changes no other slot.
LEMMA addTarakanLemma ==
    ASSUME NEW entries \in Seq(Entry), DistinctSlots(entries),
           NEW name \in Names, NEW strategies \in Nat,
           NEW track \in Tracks, NEW time \in Times,
           NEW result, result = addTarakan(entries, name, strategies, track, time)
    PROVE  /\ result \in Seq(Entry)
           /\ DistinctSlots(result)
           /\ \A tr \in Tracks, ti \in Times :
                Booked(result, tr, ti) =
                    IF tr = track /\ ti = time THEN Booked(entries, tr, ti) \cup {name}
                                               ELSE Booked(entries, tr, ti)
<1> DEFINE S == Matching(entries, track, time)
<1>0. DOMAIN entries = 1 .. Len(entries) /\ Len(entries) \in Nat
      /\ \A l \in DOMAIN entries : entries[l] \in Entry
    BY LenProperties
<1>1. CASE S # {}
    <2> DEFINE k == FirstMatch(entries, track, time)
               e == addTarakanInfo(entries[k], name, strategies)
    <2>1. S = {k}
        BY <1>1, FirstMatchLemma
    <2>2. k \in DOMAIN entries /\ IsSlot(entries[k], track, time)
        BY <2>1 DEF Matching
    <2>3. entries[k] \in Entry
        BY <1>0, <2>2
    <2>4. /\ e \in Entry
          /\ Runners(e) = Runners(entries[k]) \cup {name}
          /\ e.track_id = entries[k].track_id
          /\ e.timestamp = entries[k].timestamp
        BY <2>3, addTarakanInfoLemma
    <2>5. result = [entries EXCEPT ![k] = e]
        BY <1>1 DEF addTarakan
    <2>6. result \in Seq(Entry)
        BY <1>0, <2>2, <2>4, <2>5, ExceptSeq
    <2>7. /\ DOMAIN result = DOMAIN entries
          /\ \A l \in DOMAIN entries : result[l] = IF l = k THEN e ELSE entries[l]
        BY <1>0, <2>5
    <2>8. \A l \in DOMAIN entries : /\ result[l].track_id = entries[l].track_id
                                    /\ result[l].timestamp = entries[l].timestamp
        BY <2>4, <2>7
    <2>9. DistinctSlots(result)
        BY <2>7, <2>8 DEF DistinctSlots, IsSlot
    <2>10. \A tr \in Tracks, ti \in Times :
                Matching(result, tr, ti) = Matching(entries, tr, ti)
        BY <2>7, <2>8 DEF Matching, IsSlot
    <2>11. ASSUME NEW tr \in Tracks, NEW ti \in Times
           PROVE  Booked(result, tr, ti) =
                    IF tr = track /\ ti = time THEN Booked(entries, tr, ti) \cup {name}
                                               ELSE Booked(entries, tr, ti)
        <3>1. CASE tr = track /\ ti = time
            <4>1. Booked(entries, tr, ti) = Runners(entries[k])
                BY <2>1, <3>1 DEF Booked
            <4>2. Booked(result, tr, ti) = Runners(e)
                BY <2>1, <2>2, <2>7, <2>10, <3>1 DEF Booked
            <4>3. QED
                BY <2>4, <3>1, <4>1, <4>2
        <3>2. CASE ~(tr = track /\ ti = time)
            <4>1. k \notin Matching(entries, tr, ti)
                BY <2>2, <3>2 DEF Matching, IsSlot
            <4>2. \A l \in Matching(entries, tr, ti) : result[l] = entries[l]
                BY <2>7, <4>1 DEF Matching
            <4>3. QED
                BY <2>10, <3>2, <4>2 DEF Booked
        <3>3. QED
            BY <3>1, <3>2
    <2>12. QED
        BY <2>6, <2>9, <2>11
<1>2. CASE S = {}
    <2> DEFINE e == addTarakanInfo(newEntry(track, time), name, strategies)
               n == Len(entries) + 1
    <2>1. /\ e \in Entry
          /\ Runners(e) = {name}
          /\ e.track_id = track
          /\ e.timestamp = time
        BY newEntryLemma, addTarakanInfoLemma
    <2>2. result = Append(entries, e)
        BY <1>2 DEF addTarakan
    <2>3. result \in Seq(Entry) /\ Len(result) = n
        BY <2>1, <2>2, AppendProperties
    <2>4. DOMAIN result = DOMAIN entries \cup {n} /\ n \notin DOMAIN entries
        BY <1>0, <2>3, LenProperties
    <2>5. result[n] = e /\ \A l \in DOMAIN entries : result[l] = entries[l]
        BY <1>0, <2>1, <2>2, AppendProperties
    <2>6. \A l \in DOMAIN entries : ~IsSlot(entries[l], track, time)
        BY <1>2 DEF Matching
    <2>7. DistinctSlots(result)
        BY <2>1, <2>4, <2>5, <2>6 DEF DistinctSlots, IsSlot
    <2>8. ASSUME NEW tr \in Tracks, NEW ti \in Times
          PROVE  Booked(result, tr, ti) =
                    IF tr = track /\ ti = time THEN Booked(entries, tr, ti) \cup {name}
                                               ELSE Booked(entries, tr, ti)
        <3>1. CASE tr = track /\ ti = time
            <4>1. Booked(entries, tr, ti) = {}
                BY <1>2, <3>1 DEF Booked
            <4>2. Matching(result, tr, ti) = {n}
                BY <2>1, <2>4, <2>5, <2>6, <3>1 DEF Matching, IsSlot
            <4>3. Booked(result, tr, ti) = {name}
                BY <2>1, <2>5, <4>2 DEF Booked
            <4>4. QED
                BY <3>1, <4>1, <4>3
        <3>2. CASE ~(tr = track /\ ti = time)
            <4>1. Matching(result, tr, ti) = Matching(entries, tr, ti)
                BY <2>1, <2>4, <2>5, <3>2 DEF Matching, IsSlot
            <4>2. \A l \in Matching(entries, tr, ti) : result[l] = entries[l]
                BY <2>5 DEF Matching
            <4>3. QED
                BY <3>2, <4>1, <4>2 DEF Booked
        <3>3. QED
            BY <3>1, <3>2
    <2>9. QED
        BY <2>3, <2>7, <2>8
<1>3. QED
    BY <1>1, <1>2

-----------------------------------------------------------------------------
(* serialize and deserialize. *)

\* The array written for n strategies is a JSON array of n strings.
LEMMA StrategiesLemma ==
    ASSUME NEW n \in Nat, NEW array, array = [s \in 1 .. n |-> "RandomStrategy"]
    PROVE  array \in Seq({"RandomStrategy"}) /\ Len(array) = n
OBVIOUS

\* Writing an entry gives its JSON, and reading that back gives the entry.
LEMMA serializeEntryLemma ==
    ASSUME NEW e \in Entry
    PROVE  /\ serializeEntry(e) \in JSONEntry
           /\ deserializeEntry(serializeEntry(e)) = e
<1> DEFINE j == serializeEntry(e)
<1>1. /\ e = [timestamp |-> e.timestamp, track_id |-> e.track_id,
              tarakans_info |-> e.tarakans_info]
      /\ e.timestamp \in Times /\ e.track_id \in Tracks
      /\ e.tarakans_info \in [Names -> Nat \cup {NoKey}]
    BY DEF Entry
<1>2. ASSUME NEW n \in Names
      PROVE  /\ j.tarakans_info[n] \in Seq({"RandomStrategy"}) \cup {NoKey}
             /\ (IF j.tarakans_info[n] = NoKey THEN NoKey ELSE Len(j.tarakans_info[n]))
                    = e.tarakans_info[n]
    <2>1. CASE e.tarakans_info[n] = NoKey
        <3>1. j.tarakans_info[n] = NoKey
            BY <2>1 DEF serializeEntry
        <3>2. QED
            BY <2>1, <3>1
    <2>2. CASE e.tarakans_info[n] # NoKey
        <3>1. e.tarakans_info[n] \in Nat
            BY <1>1, <2>2
        <3>2. j.tarakans_info[n] = [s \in 1 .. e.tarakans_info[n] |-> "RandomStrategy"]
            BY <2>2 DEF serializeEntry
        <3>3. /\ j.tarakans_info[n] \in Seq({"RandomStrategy"})
              /\ Len(j.tarakans_info[n]) = e.tarakans_info[n]
            BY <3>1, <3>2, StrategiesLemma
        <3>4. QED
            BY <3>3, NoKeyAssumption
    <2>3. QED
        BY <2>1, <2>2
<1>3. /\ j = [timestamp |-> e.timestamp, track_id |-> e.track_id,
              tarakans_info |-> j.tarakans_info]
      /\ j.tarakans_info = [n \in Names |-> j.tarakans_info[n]]
    BY DEF serializeEntry
<1>4. j \in JSONEntry
    <2>1. j.tarakans_info \in [Names -> Seq({"RandomStrategy"}) \cup {NoKey}]
        BY <1>2, <1>3
    <2>2. QED
        BY <1>1, <1>3, <2>1 DEF JSONEntry
<1>5. deserializeEntry(j) = e
    <2>1. deserializeEntry(j) =
            [timestamp |-> e.timestamp, track_id |-> e.track_id,
             tarakans_info |-> [n \in Names |-> e.tarakans_info[n]]]
        BY <1>2, <1>3 DEF deserializeEntry
    <2>2. QED
        BY <1>1, <2>1
<1>6. QED
    BY <1>4, <1>5

\* Reading any JSON entry gives an entry.
LEMMA deserializeEntryLemma ==
    ASSUME NEW j \in JSONEntry
    PROVE  deserializeEntry(j) \in Entry
<1>1. /\ j.timestamp \in Times /\ j.track_id \in Tracks
      /\ \A n \in Names : j.tarakans_info[n] \in Seq({"RandomStrategy"}) \cup {NoKey}
    BY DEF JSONEntry
<1>2. \A n \in Names : (IF j.tarakans_info[n] = NoKey THEN NoKey
                        ELSE Len(j.tarakans_info[n])) \in Nat \cup {NoKey}
    BY <1>1, LenProperties
<1>3. QED
    BY <1>1, <1>2 DEF deserializeEntry, Entry

\* Timetable::deserialize makes a timetable of the JSON of one.
LEMMA deserializeLemma ==
    ASSUME NEW json \in Seq(JSONEntry)
    PROVE  deserialize(json) \in Seq(Entry)
<1>1. DOMAIN json = 1 .. Len(json) /\ Len(json) \in Nat
      /\ \A k \in 1 .. Len(json) : json[k] \in JSONEntry
    BY LenProperties
<1>2. \A k \in 1 .. Len(json) : deserializeEntry(json[k]) \in Entry
    BY <1>1, deserializeEntryLemma
<1>3. QED
    BY <1>1, <1>2 DEF deserialize

\* What Timetable::serialize writes, Timetable::deserialize reads back: a client
\* that parses a whole answer has the very timetable the server had.
THEOREM RoundTrip ==
    ASSUME NEW entries \in Seq(Entry)
    PROVE  /\ serialize(entries) \in Seq(JSONEntry)
           /\ deserialize(serialize(entries)) = entries
<1> DEFINE json == serialize(entries)
<1>1. DOMAIN entries = 1 .. Len(entries) /\ Len(entries) \in Nat
      /\ entries = [k \in 1 .. Len(entries) |-> entries[k]]
      /\ \A k \in 1 .. Len(entries) : entries[k] \in Entry
    BY LenProperties
<1>2. \A k \in 1 .. Len(entries) : /\ serializeEntry(entries[k]) \in JSONEntry
                                   /\ deserializeEntry(serializeEntry(entries[k])) = entries[k]
    BY <1>1, serializeEntryLemma
<1>3. json = [k \in 1 .. Len(entries) |-> serializeEntry(entries[k])]
    BY <1>1 DEF serialize
<1>4. json \in Seq(JSONEntry)
    BY <1>1, <1>2, <1>3
<1>5. deserialize(json) = [k \in 1 .. Len(entries) |-> deserializeEntry(json[k])]
    BY <1>3 DEF deserialize
<1>6. \A k \in 1 .. Len(entries) : deserializeEntry(json[k]) = entries[k]
    BY <1>2, <1>3
<1>7. deserialize(json) = entries
    BY <1>1, <1>5, <1>6
<1>8. QED
    BY <1>4, <1>7

=============================================================================
