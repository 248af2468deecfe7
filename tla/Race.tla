--------------------------------- MODULE Race ---------------------------------
(***************************************************************************)
(* A race: src/src/trk/Race.cpp.  A Race object may be started again, with *)
(* another duration and more tarakans, and every start passes its data     *)
(* from function to function in the fields of the object.                  *)
(*                                                                         *)
(* A name is a number, and the order of the numbers is the order of the    *)
(* names in a std::map.                                                    *)
(***************************************************************************)
EXTENDS Naturals, Sequences, FiniteSets

CONSTANTS
    Tarakans,       \* names of tarakans
    Durations,      \* bound: the durations of a race
    MaxStrategies,  \* bound: the strategies of one tarakan
    MaxStep,        \* the farthest a RandomStrategy goes in a round: 5
    MaxStarts       \* bound: how often one Race is started

ASSUME TarakansAssumption == Tarakans \subseteq Nat /\ IsFiniteSet(Tarakans)
ASSUME BoundsAssumption ==
    /\ Durations \subseteq Nat
    /\ MaxStrategies \in Nat
    /\ MaxStep \in Nat \ {0}
    /\ MaxStarts \in Nat

VARIABLES
    pc,                     \* the function of start() that comes next
    duration,
    tarakans_info,          \* name -> how many strategies it may choose from
    current_tarakans_info,  \* name -> the strategy of the race
    dist_positions_map,     \* name -> the way it has come
    dist_positions,         \* ways and names, sorted
    positions,              \* names, the result
    i,                      \* the round
    starts                  \* how often start() was called

vars == <<pc, duration, tarakans_info, current_tarakans_info, dist_positions_map,
          dist_positions, positions, i, starts>>

Racers == DOMAIN tarakans_info

Empty == [t \in {} |-> 0]

Init ==
    /\ pc = "idle"
    /\ duration \in Durations
    /\ tarakans_info \in UNION { [S -> 0 .. MaxStrategies] : S \in SUBSET Tarakans }
    /\ current_tarakans_info = Empty
    /\ dist_positions_map    = Empty
    /\ dist_positions = <<>>
    /\ positions      = <<>>
    /\ i              = 0
    /\ starts         = 0

-----------------------------------------------------------------------------
(* Between two starts. *)

setDuration ==
    /\ pc = "idle"
    /\ starts < MaxStarts
    /\ duration' \in Durations
    /\ UNCHANGED <<pc, tarakans_info, current_tarakans_info, dist_positions_map,
                   dist_positions, positions, i, starts>>

\* A name that is there already is refused with an exception.
addTarakanInfo(name, strategies) ==
    /\ pc = "idle"
    /\ starts < MaxStarts
    /\ name \notin Racers
    /\ tarakans_info' = [t \in Racers \cup {name} |->
                            IF t = name THEN strategies ELSE tarakans_info[t]]
    /\ UNCHANGED <<pc, duration, current_tarakans_info, dist_positions_map,
                   dist_positions, positions, i, starts>>

-----------------------------------------------------------------------------
(* start *)

\* The racers before the first one that has no strategy to choose.
Chosen == { t \in Racers : \A u \in Racers : u <= t => tarakans_info[u] > 0 }

\* Mutant: a tarakan without strategies is left out.
initRaceLenient ==
    /\ pc = "idle"
    /\ starts < MaxStarts
    /\ starts' = starts + 1
    /\ \E choice \in [Racers -> 1 .. MaxStrategies] :
            current_tarakans_info' = [t \in { u \in Racers : tarakans_info[u] > 0 } |-> choice[t]]
    /\ pc' = "processRace"
    /\ UNCHANGED <<duration, tarakans_info, dist_positions_map, dist_positions, positions, i>>

\* Without strategies, size() - 1 is the greatest size_t and at() of an empty vector
\* throws: start() ends there.
initRace ==
    /\ pc = "idle"
    /\ starts < MaxStarts
    /\ starts' = starts + 1
    /\ \E choice \in [Racers -> 1 .. MaxStrategies] :
            /\ \A t \in Chosen : choice[t] <= tarakans_info[t]
            /\ current_tarakans_info' = [t \in Chosen |-> choice[t]]
    /\ pc' = IF Chosen = Racers THEN "processRace" ELSE "idle"
    /\ UNCHANGED <<duration, tarakans_info, dist_positions_map, dist_positions, positions, i>>

\* Mutant: the ways of the race before are kept.
processRaceGoesOn ==
    /\ pc = "processRace"
    /\ dist_positions_map' = [t \in DOMAIN current_tarakans_info |->
            IF t \in DOMAIN dist_positions_map THEN dist_positions_map[t] ELSE 0]
    /\ i' = 0
    /\ pc' = "round"
    /\ UNCHANGED <<duration, tarakans_info, current_tarakans_info, dist_positions,
                   positions, starts>>

processRace ==
    /\ pc = "processRace"
    /\ dist_positions_map' = [t \in DOMAIN current_tarakans_info |-> 0]
    /\ i' = 0
    /\ pc' = "round"
    /\ UNCHANGED <<duration, tarakans_info, current_tarakans_info, dist_positions,
                   positions, starts>>

\* Every tarakan goes as far as its strategy says.
round ==
    /\ pc = "round"
    /\ \/ /\ i < duration
          /\ i' = i + 1
          /\ \E exec \in [DOMAIN current_tarakans_info -> 1 .. MaxStep] :
                dist_positions_map' = [t \in DOMAIN dist_positions_map |->
                                            dist_positions_map[t] + exec[t]]
          /\ UNCHANGED pc
       \/ /\ i = duration
          /\ pc' = "sortResults"
          /\ UNCHANGED <<i, dist_positions_map>>
    /\ UNCHANGED <<duration, tarakans_info, current_tarakans_info, dist_positions,
                   positions, starts>>

\* Mutant: who went farthest comes first.
LessFarthest(p, q) == p[1] > q[1] \/ (p[1] = q[1] /\ p[2] < q[2])

\* The order of std::pair: by the way, then by the name.
Less(p, q) == p[1] < q[1] \/ (p[1] = q[1] /\ p[2] < q[2])

Sorted(S) ==
    CHOOSE q \in [1 .. Cardinality(S) -> S] :
        \A k, l \in DOMAIN q : k < l => Less(q[k], q[l])

Results == { <<dist_positions_map[t], t>> : t \in DOMAIN dist_positions_map }

\* Mutant: the vector is not cleared.
sortResultsAgain ==
    /\ pc = "sortResults"
    /\ dist_positions' = dist_positions \o Sorted(Results)
    /\ pc' = "packResults"
    /\ UNCHANGED <<duration, tarakans_info, current_tarakans_info, dist_positions_map,
                   positions, i, starts>>

sortResults ==
    /\ pc = "sortResults"
    /\ dist_positions' = Sorted(Results)
    /\ pc' = "packResults"
    /\ UNCHANGED <<duration, tarakans_info, current_tarakans_info, dist_positions_map,
                   positions, i, starts>>

packResults ==
    /\ pc = "packResults"
    /\ positions' = [k \in DOMAIN dist_positions |-> dist_positions[k][2]]
    /\ pc' = "idle"
    /\ UNCHANGED <<duration, tarakans_info, current_tarakans_info, dist_positions_map,
                   dist_positions, i, starts>>

start == initRace \/ processRace \/ round \/ sortResults \/ packResults

Next ==
    \/ start
    \/ setDuration
    \/ \E t \in Tarakans, n \in 0 .. MaxStrategies : addTarakanInfo(t, n)

Spec == Init /\ [][Next]_vars

-----------------------------------------------------------------------------

\* The result names every tarakan of the race once, and nobody twice because the
\* object was used for a race before.
EveryonePlaced ==
    [][ pc = "packResults" /\ pc' = "idle" =>
            /\ { positions'[k] : k \in DOMAIN positions' } = Racers
            /\ Len(positions') = Cardinality(Racers) ]_vars

\* No race starts from where the race before has ended: after all rounds everyone
\* went one to MaxStep steps in each.
FreshStart ==
    pc = "sortResults" =>
        \A t \in DOMAIN dist_positions_map :
            dist_positions_map[t] \in duration .. MaxStep * duration

\* The place of a tarakan is decided by its way and, if two went as far, by its name;
\* the last place is the one that went farthest.
PlacesByWay ==
    [][ pc = "packResults" /\ pc' = "idle" =>
            \A k, l \in DOMAIN positions' : k < l =>
                \/ dist_positions_map[positions'[k]] < dist_positions_map[positions'[l]]
                \/ /\ dist_positions_map[positions'[k]] = dist_positions_map[positions'[l]]
                   /\ positions'[k] < positions'[l] ]_vars

\* A race in which one tarakan has no strategies has no result: the positions stay
\* those of the race before, for everybody.
NoPartialRace ==
    [][ positions' # positions => \A t \in Racers : tarakans_info[t] > 0 ]_vars

=============================================================================
