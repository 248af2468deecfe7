-------------------------- MODULE TarakanRuns_proofs --------------------------
(***************************************************************************)
(* The type invariant and the safety of the slots of TarakanRuns, for any  *)
(* teams, scripts, names, tracks, times, slot size and number of sessions. *)
(* IInv is inductive: one lemma for each action says that it is kept.      *)
(***************************************************************************)
EXTENDS TarakanRuns, Timetable_proofs

-----------------------------------------------------------------------------
(* The protocol. *)

\* Every answer a handler sends is of a kind of the protocol.
LEMMA KindsLemma ==
    /\ "TIMETABLE" \in Kinds
    /\ "TEAM REGISTERED" \in Kinds /\ "TEAM ALREADY REGISTERED" \in Kinds
    /\ "TEAM DEREGISTERED" \in Kinds /\ "NO SUCH TEAM" \in Kinds
    /\ "TARAKAN REGISTERED" \in Kinds /\ "TRACK BUSY" \in Kinds
<1>1. /\ Answers["REQUEST TIMETABLE"] = {"TIMETABLE"}
      /\ Answers["REGISTER TEAM"] = {"TEAM REGISTERED", "TEAM ALREADY REGISTERED"}
      /\ Answers["DEREGISTER TEAM"] = {"TEAM DEREGISTERED", "NO SUCH TEAM"}
      /\ Answers["REGISTER TARAKAN"] = {"TARAKAN REGISTERED", "TRACK BUSY"}
    BY DEF Answers, Verbs
<1>2. QED
    BY <1>1 DEF Kinds, Verbs

\* The call of a process is one of its script: a request and a size.
LEMMA CallLemma ==
    ASSUME NEW t \in Teams, pos[t] \in DOMAIN Script[t]
    PROVE  /\ call(t) \in Call
           /\ request(t) \in Message
           /\ request(t).name \in Names /\ request(t).track \in Tracks
           /\ request(t).time \in Times /\ request(t).verb \in Verbs
<1>1. Script[t] \in Seq(Call)
    BY ScriptAssumption
<1>2. call(t) \in Call
    BY <1>1, LenProperties DEF call
<1>3. request(t) \in [verb : Verbs, name : Names, track : Tracks, time : Times]
    BY <1>2 DEF Call, request
<1>4. QED
    BY <1>2, <1>3 DEF Message

\* Two messages in a row are a sequence of messages.
LEMMA PairLemma ==
    ASSUME NEW S, NEW x \in S, NEW y \in S
    PROVE  <<x, y>> \in Seq(S)
OBVIOUS

\* The messages of a call are messages of the protocol.
LEMMA WireLemma ==
    ASSUME NEW t \in Teams, pos[t] \in DOMAIN Script[t], NEW messages \in Wire(call(t))
    PROVE  messages \in Seq(Message)
<1> DEFINE m == request(t)
<1>1. call(t) \in Call /\ m \in Message
    BY CallLemma
<1>2. call(t).request = m
    BY DEF request
<1>3. Stray(m) \in Message
    BY <1>1 DEF Stray, Message
<1>4. \A u \in Times : [m EXCEPT !.time = u] \in Message
    BY <1>1 DEF Message
<1>5. call(t).size \in {"whole", "stray", "cut", "refused"}
    BY <1>1 DEF Call, Sizes
<1>6. \/ messages = <<m>>
      \/ messages = <<m, Stray(m)>>
      \/ \E u \in Times : messages = <<[m EXCEPT !.time = u], Stray(m)>>
      \/ messages = <<Stray(m), Stray(m)>>
      \/ messages = <<>>
    <2>1. CASE call(t).size = "whole"
        BY <1>2, <2>1 DEF Wire
    <2>2. CASE call(t).size = "stray"
        BY <1>2, <2>2 DEF Wire
    <2>3. CASE call(t).size = "cut"
        BY <1>2, <2>3 DEF Wire
    <2>4. CASE call(t).size = "refused"
        BY <1>2, <2>4 DEF Wire
    <2>5. QED
        BY <1>5, <2>1, <2>2, <2>3, <2>4
<1> HIDE DEF m
<1>7. <<>> \in Seq(Message) /\ <<m>> \in Seq(Message)
    BY <1>1
<1>8. <<m, Stray(m)>> \in Seq(Message) /\ <<Stray(m), Stray(m)>> \in Seq(Message)
    BY <1>1, <1>3
<1>9. \A u \in Times : <<[m EXCEPT !.time = u], Stray(m)>> \in Seq(Message)
    BY <1>3, <1>4, PairLemma
<1>10. QED
    BY <1>6, <1>7, <1>8, <1>9, Zenon

-----------------------------------------------------------------------------
(* The initial state. *)

\* The invariant holds before the server or a team has done anything.
LEMMA InitIInv == Init => IInv
<1> SUFFICES ASSUME Init PROVE IInv
    OBVIOUS
<1> USE DEF Init, NetInit, ServerInit, TeamInit
<1>1. NetTypeOK
    BY DEF NetTypeOK
<1>2. ServerTypeOK
    <2>1. group \in Seq(Conn \cup {ServerSocket}) /\ timetable \in Seq(Entry)
        OBVIOUS
    <2>2. running \in BOOLEAN /\ is_listening \in BOOLEAN
        OBVIOUS
    <2>3. QED
        BY <2>1, <2>2 DEF ServerTypeOK
<1>3. TeamTypeOK
    BY MaxSessionsAssumption DEF TeamTypeOK, Steps
<1>4. CallsOK /\ AcceptsOK
    BY DEF CallsOK, AcceptsOK, InCall
<1>5. EntriesDistinct
    BY DEF EntriesDistinct, DistinctSlots
<1>6. \A track \in Tracks, time \in Times : Booked(timetable, track, time) = {}
    BY DEF Booked, Matching
<1>7. QuotaOK
    <2>1. IsFiniteSet({}) /\ Cardinality({}) = 0 /\ 0 <= SlotSize
        BY FS_EmptySet, SlotSizeAssumption
    <2>2. QED
        BY <1>6, <2>1 DEF QuotaOK
<1>8. QED
    BY <1>1, <1>2, <1>3, <1>4, <1>5, <1>7 DEF IInv, TypeOK

-----------------------------------------------------------------------------
(* The steps of the server. *)

\* A step that leaves the timetable alone keeps what is said of it.
LEMMA TimetableUnchanged ==
    ASSUME EntriesDistinct, QuotaOK, timetable' = timetable
    PROVE  EntriesDistinct' /\ QuotaOK'
BY DEF EntriesDistinct, QuotaOK

\* A step that leaves the teams alone keeps what is said of them.
LEMMA TeamsUnchanged ==
    ASSUME TeamTypeOK, CallsOK, UNCHANGED teamVars
    PROVE  TeamTypeOK' /\ CallsOK'
BY DEF TeamTypeOK, CallsOK, InCall, teamVars

\* Opening the listening socket keeps the invariant.
LEMMA StartIInv ==
    ASSUME IInv, Start, UNCHANGED teamVars
    PROVE  IInv'
<1> USE DEF IInv, TypeOK, Start
<1>1. NetTypeOK' /\ AcceptsOK'
    BY DEF NetTypeOK, AcceptsOK, netVars
<1>2. ServerTypeOK'
    BY DEF ServerTypeOK
<1>3. QED
    BY <1>1, <1>2, TimetableUnchanged, TeamsUnchanged

\* select() keeps the invariant: it marks the listening socket only when a
\* connection waits in the backlog.
LEMMA SelectIInv ==
    ASSUME IInv, Select, UNCHANGED teamVars
    PROVE  IInv'
<1> USE DEF IInv, TypeOK, Select
<1>1. NetTypeOK'
    BY DEF NetTypeOK, netVars
<1>2. Sockets \subseteq Conn \cup {ServerSocket}
    BY LenProperties DEF ServerTypeOK, Sockets
<1>3. ServerTypeOK'
    BY <1>2 DEF ServerTypeOK
<1>4. AcceptsOK'
    BY DEF AcceptsOK, Readable, netVars
<1>5. QED
    BY <1>1, <1>3, <1>4, TimetableUnchanged, TeamsUnchanged

\* Accepting keeps the invariant: the backlog it takes from is not empty.
LEMMA OnAcceptIInv ==
    ASSUME IInv, OnAccept, UNCHANGED teamVars
    PROVE  IInv'
<1> USE DEF IInv, TypeOK
<1>1. PICK k \in Due : /\ group[k] = ServerSocket
                       /\ Launch(k)
                       /\ ready'   = ready \ {group[k]}
                       /\ group'   = Append(group, Head(backlog))
                       /\ backlog' = Tail(backlog)
                       /\ UNCHANGED <<is_listening, timetable, teams_names,
                                      toServer, toClient, closed>>
    BY DEF OnAccept, accept
<1>2. backlog # <<>>
    BY <1>1 DEF Due, AcceptsOK
<1>3. Head(backlog) \in Conn /\ Tail(backlog) \in Seq(Conn)
    BY <1>2, HeadTailProperties DEF NetTypeOK
<1>4. NetTypeOK'
    BY <1>1, <1>3 DEF NetTypeOK
<1>5. Append(group, Head(backlog)) \in Seq(Conn \cup {ServerSocket})
    BY <1>3, AppendProperties DEF ServerTypeOK
<1>6. ServerTypeOK'
    BY <1>1, <1>5 DEF ServerTypeOK, Launch
<1>7. AcceptsOK'
    BY <1>1 DEF AcceptsOK
<1>8. QED
    BY <1>1, <1>4, <1>6, <1>7, TimetableUnchanged, TeamsUnchanged

\* SocketGroup::remove leaves a group.
LEMMA WithoutLemma ==
    ASSUME ServerTypeOK, NEW k \in DOMAIN group
    PROVE  Without(k) \in Seq(Conn \cup {ServerSocket})
<1>1. /\ Len(group) \in Nat /\ DOMAIN group = 1 .. Len(group)
      /\ \A l \in 1 .. Len(group) : group[l] \in Conn \cup {ServerSocket}
    BY LenProperties DEF ServerTypeOK
<1>2. Len(group) - 1 \in Nat
    BY <1>1
<1>3. \A l \in 1 .. Len(group) - 1 :
        (IF l < k THEN group[l] ELSE group[l + 1]) \in Conn \cup {ServerSocket}
    BY <1>1
<1>4. QED
    BY <1>2, <1>3 DEF Without

\* Letting a client go keeps the invariant.
LEMMA OnDisconnectIInv ==
    ASSUME IInv, OnDisconnect, UNCHANGED teamVars
    PROVE  IInv'
<1> USE DEF IInv, TypeOK
<1>1. PICK k \in Due :
            /\ Launch(k)
            /\ ready' = ready \ { group[l] : l \in {k, k + 1} \cap DOMAIN group }
            /\ group' = Without(k)
            /\ UNCHANGED <<is_listening, timetable, teams_names, netVars>>
    BY DEF OnDisconnect
<1>2. NetTypeOK' /\ AcceptsOK'
    BY <1>1 DEF NetTypeOK, AcceptsOK, netVars
<1>3. Without(k) \in Seq(Conn \cup {ServerSocket})
    BY WithoutLemma DEF Due
<1>4. ServerTypeOK'
    BY <1>1, <1>3 DEF ServerTypeOK, Launch
<1>5. QED
    BY <1>1, <1>2, <1>4, TimetableUnchanged, TeamsUnchanged

\* A read takes one message of a connection of the group.
LEMMA ReadLemma ==
    ASSUME NetTypeOK, ServerTypeOK, NEW k \in Due, Read(k)
    PROVE  /\ group[k] \in Conn
           /\ Head(toServer[group[k]]) \in Message
           /\ toServer' \in [Conn -> Seq(Message)]
           /\ UNCHANGED <<running, group, backlog, closed>>
           /\ ready' \subseteq ready
<1>1. group[k] \in Conn \cup {ServerSocket}
    BY LenProperties DEF ServerTypeOK, Due
<1>2. group[k] \in Conn
    BY <1>1 DEF Read
<1>3. toServer[group[k]] \in Seq(Message) /\ toServer[group[k]] # <<>>
    BY <1>2 DEF NetTypeOK, Read
<1>4. /\ Head(toServer[group[k]]) \in Message
      /\ Tail(toServer[group[k]]) \in Seq(Message)
    BY <1>3, HeadTailProperties
<1>5. toServer' = [toServer EXCEPT ![group[k]] = Tail(@)]
    BY DEF Read
<1>6. toServer' \in [Conn -> Seq(Message)]
    BY <1>2, <1>4, <1>5 DEF NetTypeOK
<1>7. QED
    BY <1>2, <1>4, <1>6 DEF Read, Launch

\* An answer is a message a client can read.
LEMMA answerLemma ==
    ASSUME NetTypeOK, NEW c \in Conn, NEW kind \in Kinds, NEW body \in Seq(JSONEntry),
           answer(c, kind, body)
    PROVE  toClient' \in [Conn -> Seq(Answer)]
<1>1. [kind |-> kind, body |-> body] \in Answer
    BY DEF Answer
<1>2. Append(toClient[c], [kind |-> kind, body |-> body]) \in Seq(Answer)
    BY <1>1, AppendProperties DEF NetTypeOK
<1>3. QED
    BY <1>2 DEF NetTypeOK, answer

\* Adding a tarakan takes none out of any slot.
LEMMA addTarakanStays ==
    ASSUME timetable \in Seq(Entry), DistinctSlots(timetable),
           NEW name \in Names, NEW strategies \in Nat,
           NEW track \in Tracks, NEW time \in Times,
           timetable' = addTarakan(timetable, name, strategies, track, time),
           NEW tr \in Tracks, NEW ti \in Times
    PROVE  Booked(timetable, tr, ti) \subseteq Booked(timetable', tr, ti)
<1>1. Booked(timetable', tr, ti) =
        IF tr = track /\ ti = time THEN Booked(timetable, tr, ti) \cup {name}
                                   ELSE Booked(timetable, tr, ti)
    BY addTarakanLemma
<1>2. QED
    BY <1>1

\* A tarakan the handler books leaves the slots distinct and within their size.
LEMMA bookingLemma ==
    ASSUME timetable \in Seq(Entry), EntriesDistinct, QuotaOK,
           NEW name \in Names, NEW strategies \in Nat,
           NEW track \in Tracks, NEW time \in Times,
           isFree(timetable, track, time),
           timetable' = addTarakan(timetable, name, strategies, track, time)
    PROVE  timetable' \in Seq(Entry) /\ EntriesDistinct' /\ QuotaOK'
<1>1. DistinctSlots(timetable)
    BY DEF EntriesDistinct
<1>2. Cardinality(Booked(timetable, track, time)) < SlotSize
    BY <1>1, isFreeLemma
<1>3. /\ timetable' \in Seq(Entry)
      /\ DistinctSlots(timetable')
      /\ \A tr \in Tracks, ti \in Times :
            Booked(timetable', tr, ti) =
                IF tr = track /\ ti = time
                THEN Booked(timetable, tr, ti) \cup {name}
                ELSE Booked(timetable, tr, ti)
    <2>1. timetable' \in Seq(Entry)
      BY <1>1, addTarakanLemma
    <2>2. DistinctSlots(timetable')
      BY <1>1, addTarakanLemma
    <2>3. ASSUME NEW tr \in Tracks, NEW ti \in Times
          PROVE  Booked(timetable', tr, ti) =
                IF tr = track /\ ti = time
                THEN Booked(timetable, tr, ti) \cup {name}
                ELSE Booked(timetable, tr, ti)
      BY <1>1, addTarakanLemma
    <2>4. QED
      BY <2>1, <2>2, <2>3
<1>4. ASSUME NEW tr \in Tracks, NEW ti \in Times
      PROVE  /\ IsFiniteSet(Booked(timetable', tr, ti))
             /\ Cardinality(Booked(timetable', tr, ti)) <= SlotSize
    <2> DEFINE B == Booked(timetable, tr, ti)
    <2>1. IsFiniteSet(B) /\ Cardinality(B) <= SlotSize
        BY DEF QuotaOK
    <2>2. CASE tr = track /\ ti = time
        <3>1. Booked(timetable', tr, ti) = B \cup {name}
            BY <1>3, <2>2
        <3>2. /\ IsFiniteSet(B \cup {name})
              /\ Cardinality(B \cup {name}) =
                    IF name \in B THEN Cardinality(B) ELSE Cardinality(B) + 1
            BY <2>1, FS_AddElement
        <3>3. Cardinality(B) \in Nat /\ Cardinality(B) < SlotSize
            BY <1>2, <2>1, <2>2, FS_CardinalityType
        <3>4. Cardinality(B \cup {name}) <= SlotSize
            BY <3>2, <3>3, SlotSizeAssumption
        <3>5. QED
            BY <3>1, <3>2, <3>4
    <2>3. CASE ~(tr = track /\ ti = time)
        BY <1>3, <2>1, <2>3
    <2>4. QED
        BY <2>2, <2>3
<1>5. QED
    BY <1>3, <1>4 DEF EntriesDistinct, QuotaOK

\* Whatever handler runs, its answer, the names and the timetable are well formed
\* and no slot takes more than it may.
LEMMA messageHandlerLemma ==
    ASSUME IInv, NEW c \in Conn, NEW m \in Message, messageHandler(m, c)
    PROVE  /\ toClient' \in [Conn -> Seq(Answer)]
           /\ teams_names' \in SUBSET Names
           /\ timetable' \in Seq(Entry)
           /\ EntriesDistinct' /\ QuotaOK'
<1> USE DEF IInv, TypeOK
<1>1. /\ timetable \in Seq(Entry) /\ DistinctSlots(timetable)
      /\ teams_names \in SUBSET Names
    BY DEF ServerTypeOK, EntriesDistinct
<1>2. /\ m.name \in Names /\ m.track \in Tracks /\ m.time \in Times
      /\ Received[m.name] \in Names
    BY ReceivedAssumption DEF Message
<1>3. <<>> \in Seq(JSONEntry)
    OBVIOUS
<1>4. CASE handleTimetableRequest(c)
    <2>1. serialize(timetable) \in Seq(JSONEntry)
        BY <1>1, RoundTrip
    <2>2. toClient' \in [Conn -> Seq(Answer)]
        BY <1>4, <2>1, answerLemma, KindsLemma DEF handleTimetableRequest
    <2>3. QED
        BY <1>1, <1>4, <2>2, TimetableUnchanged DEF handleTimetableRequest
<1>5. CASE handleTeamRegistration(m, c)
    <2>1. toClient' \in [Conn -> Seq(Answer)]
        BY <1>3, <1>5, answerLemma, KindsLemma DEF handleTeamRegistration
    <2>2. timetable' = timetable /\ teams_names' \in SUBSET Names
        BY <1>1, <1>2, <1>5 DEF handleTeamRegistration
    <2>3. QED
        BY <1>1, <2>1, <2>2, TimetableUnchanged
<1>6. CASE handleTeamDeregistration(m, c)
    <2>1. toClient' \in [Conn -> Seq(Answer)]
        BY <1>3, <1>6, answerLemma, KindsLemma DEF handleTeamDeregistration
    <2>2. timetable' = timetable /\ teams_names' \in SUBSET Names
        BY <1>1, <1>2, <1>6 DEF handleTeamDeregistration
    <2>3. QED
        BY <1>1, <2>1, <2>2, TimetableUnchanged
<1>7. CASE handleTarakanRegistration(m, c)
    <2>1. toClient' \in [Conn -> Seq(Answer)]
        BY <1>3, <1>7, answerLemma, KindsLemma DEF handleTarakanRegistration
    <2>2. teams_names' = teams_names
        BY <1>7 DEF handleTarakanRegistration
    <2>3. CASE ~isFree(timetable, m.track, m.time)
        <3>1. timetable' = timetable
            BY <1>7, <2>3 DEF handleTarakanRegistration
        <3>2. QED
            BY <1>1, <2>1, <2>2, <3>1, TimetableUnchanged
    <2>4. CASE isFree(timetable, m.track, m.time)
        <3>1. timetable' = addTarakan(timetable, Received[m.name], 0, m.track, m.time)
            BY <1>7, <2>4 DEF handleTarakanRegistration
        <3>2. timetable' \in Seq(Entry) /\ EntriesDistinct' /\ QuotaOK'
            <4>1. 0 \in Nat
                OBVIOUS
            <4>2. QED
                BY <1>1, <1>2, <2>4, <3>1, <4>1, bookingLemma, Zenon
        <3>3. QED
            BY <1>1, <2>1, <2>2, <3>2
    <2>5. QED
        BY <2>3, <2>4
<1>8. QED
    BY <1>4, <1>5, <1>6, <1>7 DEF messageHandler

\* Reading a request and answering it keeps the invariant.
LEMMA OnReadIInv ==
    ASSUME IInv, OnRead, UNCHANGED teamVars
    PROVE  IInv'
<1> USE DEF IInv, TypeOK
<1>1. PICK k \in Due : /\ Read(k)
                       /\ messageHandler(Head(toServer[group[k]]), group[k])
                       /\ UNCHANGED is_listening
    BY DEF OnRead
<1>2. /\ group[k] \in Conn
      /\ Head(toServer[group[k]]) \in Message
      /\ toServer' \in [Conn -> Seq(Message)]
      /\ UNCHANGED <<running, group, backlog, closed>>
      /\ ready' \subseteq ready
    BY <1>1, ReadLemma
<1>3. /\ toClient' \in [Conn -> Seq(Answer)]
      /\ teams_names' \in SUBSET Names
      /\ timetable' \in Seq(Entry)
      /\ EntriesDistinct' /\ QuotaOK'
    BY <1>1, <1>2, messageHandlerLemma
<1>4. NetTypeOK'
    BY <1>2, <1>3 DEF NetTypeOK
<1>5. ServerTypeOK'
    BY <1>1, <1>2, <1>3 DEF ServerTypeOK
<1>6. AcceptsOK'
    BY <1>2 DEF AcceptsOK
<1>7. QED
    BY <1>3, <1>4, <1>5, <1>6, TeamsUnchanged

\* A request that ends the listener keeps the invariant.
LEMMA OnReadThrowsIInv ==
    ASSUME IInv, OnReadThrows, UNCHANGED teamVars
    PROVE  IInv'
<1> USE DEF IInv, TypeOK
<1>1. PICK k \in Due : /\ Read(k)
                       /\ is_listening' = FALSE
                       /\ UNCHANGED <<toClient, timetable, teams_names>>
    BY DEF OnReadThrows
<1>2. /\ toServer' \in [Conn -> Seq(Message)]
      /\ UNCHANGED <<running, group, backlog, closed>>
      /\ ready' \subseteq ready
    BY <1>1, ReadLemma
<1>3. NetTypeOK' /\ AcceptsOK'
    BY <1>1, <1>2 DEF NetTypeOK, AcceptsOK
<1>4. ServerTypeOK'
    BY <1>1, <1>2 DEF ServerTypeOK
<1>5. QED
    BY <1>1, <1>3, <1>4, TimetableUnchanged, TeamsUnchanged

-----------------------------------------------------------------------------
(* The steps of a team. *)

\* A step that leaves the server alone keeps what is said of it.
LEMMA ServerUnchanged ==
    ASSUME ServerTypeOK, EntriesDistinct, QuotaOK, UNCHANGED serverVars
    PROVE  ServerTypeOK' /\ EntriesDistinct' /\ QuotaOK'
BY DEF ServerTypeOK, EntriesDistinct, QuotaOK, serverVars

\* A process in the middle of a call has a connection.
LEMMA connLemma ==
    ASSUME TeamTypeOK, CallsOK, NEW t \in Teams, InCall(t)
    PROVE  conn(t) \in Conn /\ pos[t] \in DOMAIN Script[t]
<1>1. session[t] \in 0 .. MaxSessions /\ session[t] # 0 /\ pos[t] \in DOMAIN Script[t]
    BY DEF TeamTypeOK, CallsOK
<1>2. session[t] \in 1 .. MaxSessions
    BY <1>1, MaxSessionsAssumption
<1>3. QED
    BY <1>1, <1>2 DEF conn, Conn

\* A process that goes on to a step outside a call, or stays in its call.
LEMMA GotoLemma ==
    ASSUME TeamTypeOK, CallsOK, NEW t \in Teams, NEW s \in Steps, Goto(t, s),
           s \in {"connected", "waiting", "answered"} =>
                session'[t] # 0 /\ pos'[t] \in DOMAIN Script[t],
           \A u \in Teams \ {t} : session'[u] = session[u] /\ pos'[u] = pos[u]
    PROVE  step' \in [Teams -> Steps] /\ CallsOK'
<1>1. step' = [step EXCEPT ![t] = s] /\ step \in [Teams -> Steps]
    BY DEF Goto, TeamTypeOK
<1>2. ASSUME NEW u \in Teams, InCall(u)'
      PROVE  session'[u] # 0 /\ pos'[u] \in DOMAIN Script[u]
    <2>1. CASE u = t
        BY <1>1, <1>2, <2>1 DEF InCall
    <2>2. CASE u # t
        <3>1. InCall(u)
            BY <1>1, <1>2, <2>2 DEF InCall
        <3>2. QED
            BY <2>2, <3>1 DEF CallsOK
    <2>3. QED
        BY <2>1, <2>2
<1>3. CallsOK'
    BY <1>2 DEF CallsOK
<1>4. QED
    BY <1>1, <1>3

\* A queue that something was added to is a queue and not empty.
LEMMA AppendLemma ==
    ASSUME NEW S, NEW queue \in Seq(S), NEW x \in S
    PROVE  Append(queue, x) \in Seq(S) /\ Append(queue, x) # <<>>
<1>1. Append(queue, x) \in Seq(S) /\ Len(Append(queue, x)) = Len(queue) + 1
    BY AppendProperties
<1>2. Len(queue) \in Nat /\ Len(<<>>) = 0
    BY LenProperties
<1>3. QED
    BY <1>1, <1>2

\* Connecting keeps the invariant: the connection is one of the team's own.
LEMMA connectIInv ==
    ASSUME IInv, NEW t \in Teams, connect(t), UNCHANGED serverVars
    PROVE  IInv'
<1> USE DEF IInv, TypeOK
<1>1. session[t] + 1 \in 1 .. MaxSessions
    BY MaxSessionsAssumption DEF TeamTypeOK, connect
<1>2. PICK c \in Conn : backlog' = Append(backlog, c)
    BY <1>1 DEF Conn, connect
<1>3. backlog' \in Seq(Conn) /\ backlog' # <<>>
    BY <1>2, AppendLemma DEF NetTypeOK
<1>4. NetTypeOK'
    BY <1>3 DEF NetTypeOK, connect
<1>5. AcceptsOK'
    BY <1>3 DEF AcceptsOK
<1>6. session' \in [Teams -> 0 .. MaxSessions] /\ session'[t] # 0
    BY <1>1 DEF TeamTypeOK, connect
<1>7. step' \in [Teams -> Steps] /\ CallsOK'
    <2>1. "connected" \in Steps /\ Goto(t, "connected")
        BY DEF Steps, connect
    <2>2. pos' = pos /\ pos[t] \in DOMAIN Script[t]
        BY DEF connect
    <2>3. \A u \in Teams \ {t} : session'[u] = session[u]
        BY DEF connect, TeamTypeOK
    <2>4. QED
        BY <1>6, <2>1, <2>2, <2>3, GotoLemma
<1>8. TeamTypeOK'
    BY <1>6, <1>7 DEF TeamTypeOK, connect
<1>9. QED
    BY <1>4, <1>5, <1>7, <1>8, ServerUnchanged

\* A refused connection keeps the invariant.
LEMMA connectRefusedIInv ==
    ASSUME IInv, NEW t \in Teams, connectRefused(t), UNCHANGED serverVars
    PROVE  IInv'
<1> USE DEF IInv, TypeOK
<1>1. NetTypeOK' /\ AcceptsOK'
    BY DEF NetTypeOK, AcceptsOK, connectRefused, netVars, serverVars
<1>2. step' \in [Teams -> Steps] /\ CallsOK'
    <2>1. "aborted" \in Steps /\ Goto(t, "aborted") /\ UNCHANGED <<pos, session>>
        BY DEF Steps, connectRefused
    <2>2. QED
        BY <2>1, GotoLemma
<1>3. TeamTypeOK'
    BY <1>2 DEF TeamTypeOK, connectRefused
<1>4. QED
    BY <1>1, <1>2, <1>3, ServerUnchanged

\* Sending a request keeps the invariant, whole, cut or refused.
LEMMA sendMessageIInv ==
    ASSUME IInv, NEW t \in Teams, sendMessage(t), UNCHANGED serverVars
    PROVE  IInv'
<1> USE DEF IInv, TypeOK
<1>1. conn(t) \in Conn /\ pos[t] \in DOMAIN Script[t] /\ session[t] # 0
    BY connLemma DEF sendMessage, InCall, CallsOK
<1>2. PICK messages \in Wire(call(t)) :
            toServer' = [toServer EXCEPT ![conn(t)] = @ \o messages]
    BY DEF sendMessage
<1>3. toServer[conn(t)] \o messages \in Seq(Message)
    BY <1>1, WireLemma, ConcatProperties DEF NetTypeOK
<1>4. NetTypeOK'
    BY <1>2, <1>3 DEF NetTypeOK, sendMessage
<1>5. AcceptsOK'
    BY DEF AcceptsOK, sendMessage, serverVars
<1>6. step' \in [Teams -> Steps] /\ CallsOK'
    <2>1. "waiting" \in Steps /\ Goto(t, "waiting") /\ UNCHANGED <<pos, session>>
        BY DEF Steps, sendMessage
    <2>2. QED
        BY <1>1, <2>1, GotoLemma
<1>7. TeamTypeOK'
    BY <1>6 DEF TeamTypeOK, sendMessage
<1>8. QED
    BY <1>4, <1>5, <1>6, <1>7, ServerUnchanged

\* Taking an answer keeps the invariant.
LEMMA receiveIInv ==
    ASSUME IInv, NEW t \in Teams, receive(t), UNCHANGED serverVars
    PROVE  IInv'
<1> USE DEF IInv, TypeOK
<1>1. conn(t) \in Conn /\ pos[t] \in DOMAIN Script[t] /\ session[t] # 0
    BY connLemma DEF receive, Answered, InCall, CallsOK
<1> DEFINE reply == Head(toClient[conn(t)])
           r     == request(t)
<1>2. /\ toClient' = [toClient EXCEPT ![conn(t)] = Tail(@)]
      /\ registered' = [registered EXCEPT ![t] =
            IF reply.kind = "TEAM REGISTERED" THEN TRUE
            ELSE IF r.verb = "DEREGISTER TEAM" THEN FALSE ELSE @]
      /\ booked' = [booked EXCEPT ![t] =
            IF reply.kind = "TARAKAN REGISTERED"
            THEN @ \cup {<<Received[r.name], r.track, r.time>>} ELSE @]
      /\ seen' = [seen EXCEPT ![t] =
            IF reply.kind = "TIMETABLE" THEN deserialize(reply.body) ELSE @]
    BY DEF receive
<1>3. /\ toClient[conn(t)] \in Seq(Answer) /\ toClient[conn(t)] # <<>>
    BY <1>1 DEF NetTypeOK, receive, Answered
<1>4. reply \in Answer /\ Tail(toClient[conn(t)]) \in Seq(Answer)
    BY <1>3, HeadTailProperties
<1>5. NetTypeOK'
    BY <1>2, <1>4 DEF NetTypeOK, receive
<1>6. AcceptsOK'
    BY DEF AcceptsOK, receive, serverVars
<1>7. registered' \in [Teams -> BOOLEAN]
    BY <1>2 DEF TeamTypeOK
<1>8. booked' \in [Teams -> SUBSET (Names \X Tracks \X Times)]
    <2>1. /\ Received[r.name] \in Names /\ r.track \in Tracks /\ r.time \in Times
        BY <1>1, CallLemma, ReceivedAssumption
    <2>2. <<Received[r.name], r.track, r.time>> \in Names \X Tracks \X Times
        BY <2>1
    <2> HIDE DEF r, reply
    <2>3. QED
        BY <1>2, <2>2 DEF TeamTypeOK
<1>9. seen' \in [Teams -> Seq(Entry)]
    <2>1. deserialize(reply.body) \in Seq(Entry)
        BY <1>4, deserializeLemma DEF Answer
    <2> HIDE DEF reply
    <2>2. QED
        BY <1>2, <2>1 DEF TeamTypeOK
<1>10. leftover' \in [Teams -> BOOLEAN]
    <2>1. Leftovers(reply) \subseteq BOOLEAN
        BY DEF Leftovers
    <2>2. PICK empty \in Leftovers(reply) : leftover' = [leftover EXCEPT ![t] = empty]
        BY DEF receive
    <2> HIDE DEF reply
    <2>3. QED
        BY <2>1, <2>2 DEF TeamTypeOK
<1>11. step' \in [Teams -> Steps] /\ CallsOK'
    <2>1. "answered" \in Steps /\ Goto(t, "answered") /\ UNCHANGED <<pos, session>>
        BY DEF Steps, receive
    <2>2. QED
        BY <1>1, <2>1, GotoLemma
<1>12. TeamTypeOK'
    BY <1>7, <1>8, <1>9, <1>10, <1>11 DEF TeamTypeOK, receive
<1>13. QED
    BY <1>5, <1>6, <1>11, <1>12, ServerUnchanged

\* A message that ends the team keeps the invariant.
LEMMA receiveUnusableIInv ==
    ASSUME IInv, NEW t \in Teams, receiveUnusable(t) \/ receiveEmpty(t), UNCHANGED serverVars
    PROVE  IInv'
<1> USE DEF IInv, TypeOK
<1>1. conn(t) \in Conn
    BY connLemma DEF receiveUnusable, receiveEmpty, Answered, InCall
<1>2. NetTypeOK' /\ AcceptsOK'
    BY <1>1 DEF NetTypeOK, AcceptsOK, receiveUnusable, receiveEmpty, serverVars
<1>3. step' \in [Teams -> Steps] /\ CallsOK'
    <2>1. "aborted" \in Steps /\ Goto(t, "aborted") /\ UNCHANGED <<pos, session>>
        BY DEF Steps, receiveUnusable, receiveEmpty
    <2>2. QED
        BY <2>1, GotoLemma
<1>4. TeamTypeOK'
    BY <1>3 DEF TeamTypeOK, receiveUnusable, receiveEmpty
<1>5. QED
    BY <1>2, <1>3, <1>4, ServerUnchanged

\* The end of a call keeps the invariant.
LEMMA disconnectIInv ==
    ASSUME IInv, NEW t \in Teams, disconnect(t), UNCHANGED serverVars
    PROVE  IInv'
<1> USE DEF IInv, TypeOK
<1>1. conn(t) \in Conn
    BY connLemma DEF disconnect, InCall
<1>2. NetTypeOK' /\ AcceptsOK'
    BY <1>1 DEF NetTypeOK, AcceptsOK, disconnect, serverVars
<1>3. pos' = [pos EXCEPT ![t] = @ + 1] /\ UNCHANGED session
    BY DEF disconnect
<1>4. step' \in [Teams -> Steps] /\ CallsOK'
    <2>1. PICK s \in {"done", "idle"} : Goto(t, s)
        BY DEF disconnect
    <2>2. s \in Steps /\ s \notin {"connected", "waiting", "answered"}
        BY <2>1 DEF Steps
    <2>3. \A u \in Teams \ {t} : session'[u] = session[u] /\ pos'[u] = pos[u]
        BY <1>3 DEF TeamTypeOK
    <2>4. QED
        BY <2>1, <2>2, <2>3, GotoLemma
<1>5. pos' \in [Teams -> Nat \ {0}]
    BY <1>3 DEF TeamTypeOK
<1>6. TeamTypeOK'
    BY <1>4, <1>5 DEF TeamTypeOK, disconnect
<1>7. QED
    BY <1>2, <1>4, <1>6, ServerUnchanged

\* The death of a team process anywhere in its script keeps the invariant.
LEMMA KillIInv ==
    ASSUME IInv, NEW t \in Teams, Kill(t), UNCHANGED serverVars
    PROVE  IInv'
<1> USE DEF IInv, TypeOK
<1>1. step[t] # "idle" => conn(t) \in Conn
    BY connLemma DEF Kill, InCall
<1>2. closed' \in SUBSET Conn
    BY <1>1 DEF NetTypeOK, Kill
<1>3. NetTypeOK' /\ AcceptsOK'
    BY <1>2 DEF NetTypeOK, AcceptsOK, Kill, serverVars
<1>4. step' \in [Teams -> Steps] /\ CallsOK'
    <2>1. "dead" \in Steps /\ Goto(t, "dead") /\ UNCHANGED <<pos, session>>
        BY DEF Steps, Kill
    <2>2. QED
        BY <2>1, GotoLemma
<1>5. TeamTypeOK'
    <2>1. seen' \in [Teams -> Seq(Entry)]
        BY DEF TeamTypeOK, Kill
    <2>2. /\ registered' \in [Teams -> BOOLEAN]
          /\ booked' \in [Teams -> SUBSET (Names \X Tracks \X Times)]
          /\ leftover' \in [Teams -> BOOLEAN]
        BY DEF TeamTypeOK, Kill
    <2>3. pos' \in [Teams -> Nat \ {0}] /\ session' \in [Teams -> 0 .. MaxSessions]
        BY DEF TeamTypeOK, Kill
    <2>4. QED
        BY <1>4, <2>1, <2>2, <2>3 DEF TeamTypeOK
<1>6. QED
    BY <1>3, <1>4, <1>5, ServerUnchanged

\* A new run of a team program keeps the invariant.
LEMMA RestartIInv ==
    ASSUME IInv, NEW t \in Teams, Restart(t), UNCHANGED serverVars
    PROVE  IInv'
<1> USE DEF IInv, TypeOK
<1>1. NetTypeOK' /\ AcceptsOK'
    BY DEF NetTypeOK, AcceptsOK, Restart, netVars, serverVars
<1>2. pos' = [pos EXCEPT ![t] = 1] /\ UNCHANGED session
    BY DEF Restart
<1>3. step' \in [Teams -> Steps] /\ CallsOK'
    <2>1. "idle" \in Steps /\ Goto(t, "idle")
        BY DEF Steps, Restart
    <2>2. \A u \in Teams \ {t} : session'[u] = session[u] /\ pos'[u] = pos[u]
        BY <1>2 DEF TeamTypeOK
    <2>3. QED
        BY <2>1, <2>2, GotoLemma
<1>4. TeamTypeOK'
    <2>1. seen' \in [Teams -> Seq(Entry)]
        BY DEF TeamTypeOK, Restart
    <2>2. /\ registered' \in [Teams -> BOOLEAN]
          /\ booked' \in [Teams -> SUBSET (Names \X Tracks \X Times)]
          /\ leftover' \in [Teams -> BOOLEAN]
        BY DEF TeamTypeOK, Restart
    <2>3. pos' \in [Teams -> Nat \ {0}] /\ session' \in [Teams -> 0 .. MaxSessions]
        BY DEF TeamTypeOK, Restart
    <2>4. QED
        BY <1>2, <1>3, <2>1, <2>2, <2>3 DEF TeamTypeOK
<1>5. QED
    BY <1>1, <1>3, <1>4, ServerUnchanged

-----------------------------------------------------------------------------
(* The invariant. *)

\* Every step of the server and of a team keeps the invariant.
LEMMA NextIInv == IInv /\ [Next]_vars => IInv'
<1> SUFFICES ASSUME IInv, [Next]_vars PROVE IInv'
    OBVIOUS
<1>1. CASE Server /\ UNCHANGED teamVars
    BY <1>1, StartIInv, SelectIInv, OnAcceptIInv, OnDisconnectIInv, OnReadIInv,
       OnReadThrowsIInv DEF Server, listener
<1>2. ASSUME NEW t \in Teams, Process(t), UNCHANGED serverVars
      PROVE  IInv'
    BY <1>2, connectIInv, connectRefusedIInv, sendMessageIInv, receiveIInv,
       receiveUnusableIInv, disconnectIInv DEF Process, callStep
<1>3. ASSUME NEW t \in Teams, Kill(t) \/ Restart(t), UNCHANGED serverVars
      PROVE  IInv'
    BY <1>3, KillIInv, RestartIInv
<1>4. CASE UNCHANGED vars
    <2>1. UNCHANGED netVars /\ UNCHANGED serverVars /\ UNCHANGED teamVars
        BY <1>4 DEF vars
    <2>2. NetTypeOK' /\ AcceptsOK'
        BY <2>1 DEF IInv, TypeOK, NetTypeOK, AcceptsOK, netVars, serverVars
    <2>3. QED
        BY <2>1, <2>2, TeamsUnchanged, ServerUnchanged DEF IInv, TypeOK
<1>5. QED
    BY <1>1, <1>2, <1>3, <1>4 DEF Next

\* The invariant holds for ever.
LEMMA InductiveInvariant == Spec => []IInv
<1>1. QED
    BY InitIInv, NextIInv, PTL DEF Spec

\* In every behaviour of any teams with any scripts, the state of the management,
\* of the teams and of the connections has its type: what the handlers store and
\* send, and what the teams make of the answers, stays within the protocol.
THEOREM TypeCorrect == Spec => []TypeOK
<1>1. IInv => TypeOK
    BY DEF IInv
<1>2. QED
    BY <1>1, InductiveInvariant, PTL

\* Whatever the teams register, no two entries of the timetable are the same slot,
\* so the loops of isFree and addTarakan may stop at the first match.
THEOREM SlotsDistinct == Spec => []EntriesDistinct
<1>1. IInv => EntriesDistinct
    BY DEF IInv
<1>2. QED
    BY <1>1, InductiveInvariant, PTL

\* However many teams race for a slot, isFree and addTarakan never let more than
\* SlotSize tarakans into it.
THEOREM Quota == Spec => []SlotWithinQuota
<1>1. IInv => SlotWithinQuota
    BY DEF IInv, QuotaOK, SlotWithinQuota
<1>2. QED
    BY <1>1, InductiveInvariant, PTL

-----------------------------------------------------------------------------
(* The registrations. *)

\* No handler takes a tarakan out of its slot.
LEMMA messageHandlerStays ==
    ASSUME IInv, NEW c \in Conn, NEW m \in Message, messageHandler(m, c),
           NEW track \in Tracks, NEW time \in Times
    PROVE  Booked(timetable, track, time) \subseteq Booked(timetable', track, time)
<1>1. CASE timetable' = timetable
    BY <1>1
<1>2. CASE timetable' # timetable
    <2>1. timetable' = addTarakan(timetable, Received[m.name], 0, m.track, m.time)
        BY <1>2 DEF messageHandler, handleTimetableRequest, handleTeamRegistration,
                    handleTeamDeregistration, handleTarakanRegistration
    <2>2. /\ Received[m.name] \in Names /\ m.track \in Tracks /\ m.time \in Times
        BY ReceivedAssumption DEF Message
    <2>3. timetable \in Seq(Entry) /\ DistinctSlots(timetable)
        BY DEF IInv, TypeOK, ServerTypeOK, EntriesDistinct
    <2>4. QED
        BY <2>1, <2>2, <2>3, addTarakanStays
<1>3. QED
    BY <1>1, <1>2

\* A tarakan in a slot is there for ever: registrations only add names, and no
\* deregistration, disconnect or exception of the listener changes the timetable.
THEOREM RegistrationsStay == Spec => TarakansStay
<1> DEFINE Stay == \A track \in Tracks, time \in Times :
        Booked(timetable, track, time) \subseteq Booked(timetable', track, time)
<1>1. IInv /\ [Next]_vars => [Stay]_vars
    <2> SUFFICES ASSUME IInv, Next PROVE Stay
        OBVIOUS
    <2>1. CASE OnRead
        <3>1. PICK k \in Due : /\ Read(k)
                               /\ messageHandler(Head(toServer[group[k]]), group[k])
            BY <2>1 DEF OnRead
        <3>2. group[k] \in Conn /\ Head(toServer[group[k]]) \in Message
            BY <3>1, ReadLemma DEF IInv, TypeOK
        <3>3. QED
            BY <3>1, <3>2, messageHandlerStays
    <2>2. CASE ~OnRead
        <3>1. timetable' = timetable
            BY <2>2 DEF Next, Server, listener, Start, Select, OnAccept, OnDisconnect,
                        OnReadThrows, serverVars
        <3>2. QED
            BY <3>1
    <2>3. QED
        BY <2>1, <2>2
<1>2. QED
    BY <1>1, InductiveInvariant, PTL DEF Spec, TarakansStay

=============================================================================
