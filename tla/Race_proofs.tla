----------------------------- MODULE Race_proofs -----------------------------
(* Proofs about Race, for any tarakans, durations and steps. *)
EXTENDS Race, FiniteSetTheorems, TLAPS

\* The product of the bounds, round by round.
LEMMA StepLemma ==
    ASSUME NEW n \in Nat
    PROVE  /\ MaxStep * n \in Nat
           /\ MaxStep * (n + 1) = MaxStep * n + MaxStep
  BY BoundsAssumption

\* One more round keeps a way between one and MaxStep steps for each round.
LEMMA WayLemma ==
    ASSUME NEW n \in Nat, NEW way \in n .. MaxStep * n, NEW step \in 1 .. MaxStep
    PROVE  way + step \in n + 1 .. MaxStep * (n + 1)
<1> DEFINE m == MaxStep * n
<1>1. m \in Nat /\ MaxStep * (n + 1) = m + MaxStep
  BY StepLemma
<1>2. MaxStep \in Nat /\ way \in n .. m
  BY BoundsAssumption
<1> HIDE DEF m
<1> QED BY <1>1, <1>2

-----------------------------------------------------------------------------

\* While a race runs, everybody has a strategy, and after i rounds everyone went
\* one to MaxStep steps for each of them.
RaceInv ==
    /\ duration \in Nat
    /\ i \in Nat
    /\ Racers \subseteq Nat
    /\ pc # "idle" => Chosen = Racers
    /\ pc \in {"round", "sortResults"} =>
        /\ i <= duration
        /\ DOMAIN dist_positions_map = DOMAIN current_tarakans_info
        /\ \A t \in DOMAIN dist_positions_map : dist_positions_map[t] \in i .. MaxStep * i
    /\ pc = "sortResults" => i = duration

LEMMA InitRaceInv == Init => RaceInv
<1> SUFFICES ASSUME Init PROVE RaceInv
  OBVIOUS
<1>1. PICK S \in SUBSET Tarakans : tarakans_info \in [S -> 0 .. MaxStrategies]
  BY DEF Init
<1>2. Racers \subseteq Nat
  BY <1>1, TarakansAssumption DEF Racers
<1> QED BY <1>2, BoundsAssumption DEF Init, RaceInv

LEMMA initRaceRaceInv ==
    ASSUME RaceInv, initRace
    PROVE  RaceInv'
<1>1. Racers' = Racers /\ Chosen' = Chosen
  BY DEF initRace, Racers, Chosen
<1>2. pc' = IF Chosen = Racers THEN "processRace" ELSE "idle"
  BY DEF initRace
<1>3. UNCHANGED <<duration, i>>
  BY DEF initRace
<1> QED BY <1>1, <1>2, <1>3 DEF RaceInv

\* A race begins at nothing, whatever the race before has left.
LEMMA processRaceRaceInv ==
    ASSUME RaceInv, processRace
    PROVE  RaceInv'
<1>1. Racers' = Racers /\ Chosen' = Chosen
  BY DEF processRace, Racers, Chosen
<1>2. MaxStep * 0 = 0
  BY BoundsAssumption
<1>3. \A t \in DOMAIN dist_positions_map' : dist_positions_map'[t] \in i' .. MaxStep * i'
  BY <1>2 DEF processRace
<1>4. DOMAIN dist_positions_map' = DOMAIN current_tarakans_info'
  BY DEF processRace
<1> QED BY <1>1, <1>3, <1>4 DEF RaceInv, processRace

LEMMA roundRaceInv ==
    ASSUME RaceInv, round
    PROVE  RaceInv'
<1>1. Racers' = Racers /\ Chosen' = Chosen
  BY DEF round, Racers, Chosen
<1>2. CASE i < duration /\ i' = i + 1 /\ UNCHANGED pc
  <2>1. PICK exec \in [DOMAIN current_tarakans_info -> 1 .. MaxStep] :
            dist_positions_map' = [t \in DOMAIN dist_positions_map |->
                                        dist_positions_map[t] + exec[t]]
    BY <1>2 DEF round
  <2>2. ASSUME NEW t \in DOMAIN dist_positions_map
        PROVE  dist_positions_map'[t] \in i' .. MaxStep * i'
    <3>1. dist_positions_map[t] \in i .. MaxStep * i /\ exec[t] \in 1 .. MaxStep
      BY <2>1 DEF RaceInv, round
    <3>2. i \in Nat /\ dist_positions_map'[t] = dist_positions_map[t] + exec[t]
      BY <2>1 DEF RaceInv
    <3> QED BY <1>2, <3>1, <3>2, WayLemma
  <2>3. DOMAIN dist_positions_map' = DOMAIN current_tarakans_info'
    BY <2>1 DEF RaceInv, round
  <2>4. DOMAIN dist_positions_map' = DOMAIN dist_positions_map
    BY <2>1
  <2>5. i' \in Nat /\ i' <= duration' /\ duration' = duration /\ pc' = "round"
    BY <1>2 DEF RaceInv, round
  <2> QED BY <1>1, <2>2, <2>3, <2>4, <2>5 DEF RaceInv, round
<1>3. CASE i = duration /\ pc' = "sortResults" /\ UNCHANGED <<i, dist_positions_map>>
  BY <1>1, <1>3 DEF RaceInv, round
<1> QED BY <1>2, <1>3 DEF round

LEMMA NextRaceInv == RaceInv /\ [Next]_vars => RaceInv'
<1> SUFFICES ASSUME RaceInv, [Next]_vars PROVE RaceInv'
  OBVIOUS
<1>1. CASE initRace
  BY <1>1, initRaceRaceInv
<1>2. CASE processRace
  BY <1>2, processRaceRaceInv
<1>3. CASE round
  BY <1>3, roundRaceInv
<1>4. CASE sortResults
  BY <1>4 DEF sortResults, RaceInv, Racers, Chosen
<1>5. CASE packResults
  BY <1>5 DEF packResults, RaceInv, Racers, Chosen
<1>6. CASE setDuration
  BY <1>6, BoundsAssumption DEF setDuration, RaceInv, Racers
<1>7. ASSUME NEW t \in Tarakans, NEW n \in 0 .. MaxStrategies, addTarakanInfo(t, n)
      PROVE  RaceInv'
  BY <1>7, TarakansAssumption DEF addTarakanInfo, RaceInv, Racers
<1>8. CASE UNCHANGED vars
  BY <1>8 DEF vars, RaceInv, Racers, Chosen
<1> QED
  BY <1>1, <1>2, <1>3, <1>4, <1>5, <1>6, <1>7, <1>8 DEF Next, start

LEMMA InductiveRace == Spec => []RaceInv
  BY InitRaceInv, NextRaceInv, PTL DEF Spec

-----------------------------------------------------------------------------

\* FreshStart: the ways of a race are its own, however often the object raced.
THEOREM RaceStartsFresh == Spec => []FreshStart
<1>1. RaceInv => FreshStart
  BY DEF RaceInv, FreshStart
<1> QED BY <1>1, InductiveRace, PTL

\* NoPartialRace: only a race in which everyone has a strategy has a result.
THEOREM ResultsNeedStrategies == Spec => NoPartialRace
<1>1. RaceInv /\ [Next]_vars =>
        [positions' # positions => \A t \in Racers : tarakans_info[t] > 0]_vars
  <2> SUFFICES ASSUME RaceInv, Next, positions' # positions, NEW t \in Racers
               PROVE  tarakans_info[t] > 0
    BY DEF vars
  <2>1. packResults
    BY DEF Next, start, initRace, processRace, round, sortResults, setDuration, addTarakanInfo
  <2>2. t \in Chosen
    BY <2>1 DEF RaceInv, packResults
  <2>3. t \in Nat
    BY DEF RaceInv
  <2> QED BY <2>2, <2>3 DEF Chosen
<1> QED BY <1>1, InductiveRace, PTL DEF Spec, NoPartialRace

-----------------------------------------------------------------------------
(* The places. *)

LEMMA LeastNatural ==
    ASSUME NEW S \in SUBSET Nat, S # {}
    PROVE  \E n \in S : \A m \in S : n <= m
<1> DEFINE R == { ss \in Nat \X Nat : ss[1] < ss[2] }
<1>1. IsWellFoundedOn(R, Nat)
  BY NatLessThanWellFounded DEF OpToRel
<1>2. PICK n \in S : \A m \in S : <<m, n>> \notin R
  <2> HIDE DEF R
  <2> QED BY <1>1, WFMin
<1>3. \A m \in S : ~ (m < n)
  BY <1>2
<1> QED BY <1>3

\* Among pairs there is one that comes before all others.
LEMMA LeastPair ==
    ASSUME NEW S \in SUBSET (Nat \X Nat), S # {}
    PROVE  \E p \in S : \A q \in S : q # p => Less(p, q)
<1> DEFINE Ways == { p[1] : p \in S }
<1>1. Ways \in SUBSET Nat /\ Ways # {}
  OBVIOUS
<1>2. PICK way \in Ways : \A m \in Ways : way <= m
  BY <1>1, LeastNatural
<1> DEFINE Ties == { t \in Nat : <<way, t>> \in S }
<1>3. Ties \in SUBSET Nat /\ Ties # {}
  OBVIOUS
<1>4. PICK name \in Ties : \A m \in Ties : name <= m
  BY <1>3, LeastNatural
<1>5. ASSUME NEW q \in S, q # <<way, name>>
      PROVE  Less(<<way, name>>, q)
  <2>1. q[1] \in Nat /\ q[2] \in Nat /\ q = <<q[1], q[2]>> /\ way <= q[1] /\ way \in Nat /\ name \in Nat
    BY <1>1, <1>2, <1>4
  <2>2. q[1] = way => q[2] \in Ties /\ name <= q[2] /\ q[2] # name
    BY <1>4, <1>5, <2>1
  <2> QED BY <2>1, <2>2 DEF Less
<1> QED BY <1>4, <1>5

\* q lists the pairs of S in their order.
Lists(q, S) ==
    /\ q \in [1 .. Cardinality(S) -> S]
    /\ \A k, l \in DOMAIN q : k < l => Less(q[k], q[l])

\* The least pair before the others is a list of all.
LEMMA ListLemma ==
    ASSUME NEW S \in SUBSET (Nat \X Nat), IsFiniteSet(S), NEW p \in S,
           \A r \in S : r # p => Less(p, r), NEW q, Lists(q, S \ {p})
    PROVE  \E r : Lists(r, S)
<1> DEFINE n == Cardinality(S)
           r == [k \in 1 .. n |-> IF k = 1 THEN p ELSE q[k - 1]]
<1>1. n \in Nat /\ n # 0 /\ Cardinality(S \ {p}) = n - 1
  BY FS_CardinalityType, FS_EmptySet, FS_RemoveElement
<1>2. /\ q \in [1 .. n - 1 -> S \ {p}]
      /\ \A k, l \in 1 .. n - 1 : k < l => Less(q[k], q[l])
  BY <1>1 DEF Lists
<1> HIDE DEF n
<1>3. r \in [1 .. n -> S]
  BY <1>1, <1>2
<1>4. ASSUME NEW k \in 1 .. n, NEW l \in 1 .. n, k < l
      PROVE  Less(r[k], r[l])
  <2>1. l - 1 \in 1 .. n - 1 /\ r[l] = q[l - 1] /\ r[l] \in S \ {p}
    BY <1>1, <1>2, <1>4
  <2>2. CASE k = 1
    BY <2>1, <2>2
  <2>3. CASE k # 1
    <3>1. k - 1 \in 1 .. n - 1 /\ r[k] = q[k - 1] /\ k - 1 < l - 1
      BY <1>1, <1>4, <2>3
    <3> QED BY <1>2, <2>1, <3>1
  <2> QED BY <2>2, <2>3
<1>5. Lists(r, S)
  BY <1>3, <1>4 DEF Lists, n
<1> QED BY <1>5

\* Every finite set of pairs can be sorted: the smallest one that could not would be
\* sorted by its least pair and the others.
LEMMA SortedLemma ==
    ASSUME NEW S \in SUBSET (Nat \X Nat), IsFiniteSet(S)
    PROVE  Lists(Sorted(S), S)
<1> DEFINE Unsorted == { T \in SUBSET S : ~ \E q : Lists(q, T) }
<1>1. Unsorted = {}
  <2> SUFFICES ASSUME Unsorted # {} PROVE FALSE
    OBVIOUS
  <2>1. /\ FiniteSubsetsOf(S) = SUBSET S
        /\ IsWellFoundedOn(StrictSubsetOrdering(S), FiniteSubsetsOf(S))
    BY FS_FiniteSubsetsOfFinite, FS_StrictSubsetOrderingWellFounded
  <2>2. PICK T \in Unsorted : \A U \in Unsorted : <<U, T>> \notin StrictSubsetOrdering(S)
    <3>1. Unsorted \subseteq FiniteSubsetsOf(S)
      BY <2>1
    <3> HIDE DEF Unsorted
    <3> QED BY <2>1, <3>1, WFMin
  <2>3. IsFiniteSet(T) /\ T \in SUBSET (Nat \X Nat) /\ ~ \E q : Lists(q, T)
    BY FS_Subset
  <2>4. T # {}
    <3>1. Lists([k \in {} |-> 0], {})
      BY FS_EmptySet DEF Lists
    <3> QED BY <2>3, <3>1
  <2>5. PICK p \in T : \A q \in T : q # p => Less(p, q)
    BY <2>3, <2>4, LeastPair
  <2>6. T \ {p} \notin Unsorted
    BY <2>2 DEF StrictSubsetOrdering
  <2>7. PICK q : Lists(q, T \ {p})
    BY <2>6
  <2> QED BY <2>3, <2>5, <2>7, ListLemma
<1>2. \E q : Lists(q, S)
  BY <1>1
<1>3. \E q \in [1 .. Cardinality(S) -> S] : \A k, l \in DOMAIN q : k < l => Less(q[k], q[l])
  BY <1>2 DEF Lists
<1> QED BY <1>3 DEF Sorted, Lists

\* The pairs of ways and names, as many as racers, while a race runs.
LEMMA ResultsLemma ==
    ASSUME Racers \in SUBSET Tarakans, dist_positions_map \in [Racers -> Nat]
    PROVE  /\ Results \in SUBSET (Nat \X Nat)
           /\ IsFiniteSet(Results)
           /\ Cardinality(Results) = Cardinality(Racers)
           /\ IsFiniteSet(Racers)
           /\ \A p \in Results : p[2] \in Racers /\ p[1] = dist_positions_map[p[2]]
           /\ \A t \in Racers : <<dist_positions_map[t], t>> \in Results
<1>1. IsFiniteSet(Racers) /\ Racers \subseteq Nat
  BY TarakansAssumption, FS_Subset
<1> DEFINE pair == [t \in Racers |-> <<dist_positions_map[t], t>>]
<1>2. Results = { <<dist_positions_map[t], t>> : t \in Racers }
  BY DEF Results
<1>3. pair \in Bijection(Racers, Results)
  BY <1>2 DEF Bijection, Injection, Surjection, IsInjective
<1>4. IsFiniteSet(Results) /\ Cardinality(Results) = Cardinality(Racers)
  BY <1>1, <1>3, FS_Bijection DEF ExistsBijection
<1> QED BY <1>1, <1>2, <1>4

\* What the functions of start() pass on to each other: a way for each racer and,
\* at the end, the sorted list of them.
PlaceInv ==
    /\ Racers \in SUBSET Tarakans
    /\ pc # "idle" => DOMAIN current_tarakans_info = Racers
    /\ pc \in {"round", "sortResults", "packResults"} => dist_positions_map \in [Racers -> Nat]
    /\ pc = "packResults" => Lists(dist_positions, Results)

LEMMA InitPlaceInv == Init => PlaceInv
  BY DEF Init, PlaceInv, Racers

LEMMA roundPlaceInv ==
    ASSUME PlaceInv, round
    PROVE  PlaceInv'
<1>1. UNCHANGED <<Racers, current_tarakans_info>> /\ pc = "round" /\ pc' \in {"round", "sortResults"}
  BY DEF round, Racers
<1>2. dist_positions_map' \in [Racers -> Nat]
  <2>1. CASE UNCHANGED dist_positions_map
    BY <1>1, <2>1 DEF PlaceInv
  <2>2. CASE \E exec \in [DOMAIN current_tarakans_info -> 1 .. MaxStep] :
                dist_positions_map' = [t \in DOMAIN dist_positions_map |->
                                            dist_positions_map[t] + exec[t]]
    <3>1. PICK exec \in [Racers -> 1 .. MaxStep] :
                dist_positions_map' = [t \in Racers |-> dist_positions_map[t] + exec[t]]
      BY <1>1, <2>2 DEF PlaceInv
    <3>2. \A t \in Racers : dist_positions_map[t] \in Nat /\ exec[t] \in Nat
      BY <1>1, BoundsAssumption DEF PlaceInv
    <3> QED BY <3>1, <3>2
  <2> QED BY <2>1, <2>2 DEF round
<1> QED BY <1>1, <1>2 DEF PlaceInv

LEMMA NextPlaceInv == RaceInv /\ PlaceInv /\ [Next]_vars => PlaceInv'
<1> SUFFICES ASSUME RaceInv, PlaceInv, [Next]_vars PROVE PlaceInv'
  OBVIOUS
<1>1. CASE initRace
  <2>1. UNCHANGED Racers /\ pc' = IF Chosen = Racers THEN "processRace" ELSE "idle"
    BY <1>1 DEF initRace, Racers
  <2>2. DOMAIN current_tarakans_info' = Chosen
    BY <1>1 DEF initRace
  <2> QED BY <2>1, <2>2 DEF PlaceInv
<1>2. CASE processRace
  BY <1>2 DEF processRace, PlaceInv, Racers
<1>3. CASE round
  BY <1>3, roundPlaceInv
<1>4. CASE sortResults
  <2>1. UNCHANGED <<Racers, Results, current_tarakans_info, dist_positions_map>>
    BY <1>4 DEF sortResults, Racers, Results
  <2>2. Lists(Sorted(Results), Results)
    BY <1>4, ResultsLemma, SortedLemma DEF sortResults, PlaceInv
  <2>3. dist_positions' = Sorted(Results) /\ pc = "sortResults" /\ pc' = "packResults"
    BY <1>4 DEF sortResults
  <2> QED BY <2>1, <2>2, <2>3 DEF PlaceInv
<1>5. CASE packResults
  BY <1>5 DEF packResults, PlaceInv, Racers
<1>6. CASE setDuration
  BY <1>6 DEF setDuration, PlaceInv, Racers
<1>7. ASSUME NEW t \in Tarakans, NEW n \in 0 .. MaxStrategies, addTarakanInfo(t, n)
      PROVE  PlaceInv'
  BY <1>7 DEF addTarakanInfo, PlaceInv, Racers
<1>8. CASE UNCHANGED vars
  BY <1>8 DEF vars, PlaceInv, Racers, Results
<1> QED
  BY <1>1, <1>2, <1>3, <1>4, <1>5, <1>6, <1>7, <1>8 DEF Next, start

LEMMA InductivePlaces == Spec => [](RaceInv /\ PlaceInv)
  BY InitRaceInv, NextRaceInv, InitPlaceInv, NextPlaceInv, PTL DEF Spec

\* A list of all racers, in order, names each of them once.
LEMMA ListedOnce ==
    ASSUME PlaceInv, pc = "packResults"
    PROVE  /\ DOMAIN dist_positions = 1 .. Cardinality(Racers)
           /\ Cardinality(Racers) \in Nat
           /\ { dist_positions[k] : k \in DOMAIN dist_positions } = Results
<1> DEFINE n == Cardinality(Racers)
<1>1. /\ Results \in SUBSET (Nat \X Nat)
      /\ IsFiniteSet(Results) /\ Cardinality(Results) = n /\ n \in Nat
  BY ResultsLemma, FS_CardinalityType DEF PlaceInv
<1>2. /\ dist_positions \in [1 .. n -> Results]
      /\ \A k, l \in 1 .. n : k < l => Less(dist_positions[k], dist_positions[l])
  BY <1>1 DEF PlaceInv, Lists
<1>3. \A p \in Results : ~ Less(p, p)
  BY <1>1 DEF Less
<1>4. \A k, l \in 1 .. n : dist_positions[k] = dist_positions[l] => k = l
  <2> SUFFICES ASSUME NEW k \in 1 .. n, NEW l \in 1 .. n, k < l,
                      dist_positions[k] = dist_positions[l]
               PROVE  FALSE
    BY <1>1
  <2> QED BY <1>2, <1>3
<1>5. dist_positions \in Injection(1 .. n, Results)
  BY <1>2, <1>4 DEF Injection, IsInjective
<1>6. Cardinality(1 .. n) = n
  BY <1>1, FS_Interval
<1>7. dist_positions \in Surjection(1 .. n, Results)
  BY <1>1, <1>5, <1>6, FS_Injection
<1> QED BY <1>1, <1>2, <1>7 DEF Surjection

\* EveryonePlaced: the result names every tarakan of the race, once.
THEOREM EveryoneHasAPlace == Spec => EveryonePlaced
<1>1. RaceInv /\ PlaceInv /\ [Next]_vars =>
        [pc = "packResults" /\ pc' = "idle" =>
            /\ { positions'[k] : k \in DOMAIN positions' } = Racers
            /\ Len(positions') = Cardinality(Racers)]_vars
  <2> SUFFICES ASSUME PlaceInv, Next, pc = "packResults"
               PROVE  /\ { positions'[k] : k \in DOMAIN positions' } = Racers
                      /\ Len(positions') = Cardinality(Racers)
    BY DEF vars
  <2>1. positions' = [k \in DOMAIN dist_positions |-> dist_positions[k][2]]
    BY DEF Next, start, initRace, processRace, round, sortResults, packResults,
           setDuration, addTarakanInfo
  <2>2. /\ \A p \in Results : p[2] \in Racers
        /\ \A t \in Racers : <<dist_positions_map[t], t>> \in Results
    BY ResultsLemma DEF PlaceInv
  <2>3. { positions'[k] : k \in DOMAIN positions' } = { p[2] : p \in Results }
    BY <2>1, ListedOnce
  <2>4. { p[2] : p \in Results } = Racers
    <3>1. \A t \in Racers : \E p \in Results : p[2] = t
      <4> USE <2>2
      <4> TAKE t \in Racers
      <4> WITNESS <<dist_positions_map[t], t>> \in Results
      <4> QED OBVIOUS
    <3> QED BY <2>2, <3>1
  <2>5. DOMAIN positions' = 1 .. Cardinality(Racers) /\ Cardinality(Racers) \in Nat
    BY <2>1, ListedOnce
  <2>6. Len(positions') = Cardinality(Racers)
    BY <2>1, <2>5
  <2> QED BY <2>3, <2>4, <2>6
<1> QED BY <1>1, InductivePlaces, PTL DEF Spec, EveryonePlaced

\* PlacesByWay: the way decides the place and, if two went as far, the name.
THEOREM WayDecides == Spec => PlacesByWay
<1> DEFINE Ordered ==
        \A k, l \in DOMAIN positions' : k < l =>
            \/ dist_positions_map[positions'[k]] < dist_positions_map[positions'[l]]
            \/ /\ dist_positions_map[positions'[k]] = dist_positions_map[positions'[l]]
               /\ positions'[k] < positions'[l]
<1>1. RaceInv /\ PlaceInv /\ [Next]_vars =>
        [pc = "packResults" /\ pc' = "idle" => Ordered]_vars
  <2> SUFFICES ASSUME PlaceInv, Next, pc = "packResults"
               PROVE  Ordered
    BY DEF vars
  <2>1. positions' = [k \in DOMAIN dist_positions |-> dist_positions[k][2]]
    BY DEF Next, start, initRace, processRace, round, sortResults, packResults,
           setDuration, addTarakanInfo
  <2>2. \A p \in Results : p[1] = dist_positions_map[p[2]]
    BY ResultsLemma DEF PlaceInv
  <2>3. \A k \in DOMAIN positions' :
            /\ k \in DOMAIN dist_positions
            /\ positions'[k] = dist_positions[k][2]
            /\ dist_positions_map[positions'[k]] = dist_positions[k][1]
    BY <2>1, <2>2, ListedOnce
  <2>4. \A k, l \in DOMAIN dist_positions :
            k < l => Less(dist_positions[k], dist_positions[l])
    BY DEF PlaceInv, Lists
  <2> QED BY <2>3, <2>4 DEF Less
<1> QED BY <1>1, InductivePlaces, PTL DEF Spec, PlacesByWay


=============================================================================
