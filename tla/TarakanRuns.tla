----------------------------- MODULE TarakanRuns -----------------------------
(***************************************************************************)
(* The running system: one management process and the team processes that  *)
(* talk to it (the two entries of src/src/trk/multi_call_main.cpp), with   *)
(* every interleaving of their steps.                                      *)
(***************************************************************************)
EXTENDS Management, Team

vars == <<netVars, serverVars, teamVars>>

Init == NetInit /\ ServerInit /\ TeamInit

\* The listening socket is open: a connection completes or is refused.
Open == ServerSocket \in Sockets

Server == Start \/ listener

Process(t) ==
    \/ Open /\ connect(t)
    \/ ~Open /\ connectRefused(t)
    \/ callStep(t)

Next ==
    \/ Server /\ UNCHANGED teamVars
    \/ \E t \in Teams : (Process(t) \/ Kill(t) \/ Restart(t)) /\ UNCHANGED serverVars

Spec == Init /\ [][Next]_vars

(***************************************************************************)
(* The operating system runs the listener thread and the team processes,   *)
(* and nothing disables a step of theirs but themselves: weak fairness.    *)
(* Nobody has to start a team or the server, to kill or to run one again.  *)
(***************************************************************************)
Fairness ==
    /\ WF_vars(listener /\ UNCHANGED teamVars)
    /\ \A t \in Teams : WF_vars(callStep(t) /\ UNCHANGED serverVars)

FairSpec == Spec /\ Fairness

-----------------------------------------------------------------------------
(* The shape of the state. *)

NetTypeOK ==
    /\ backlog  \in Seq(Conn)
    /\ toServer \in [Conn -> Seq(Message)]
    /\ toClient \in [Conn -> Seq(Answer)]
    /\ closed   \in SUBSET Conn

ServerTypeOK ==
    /\ running      \in BOOLEAN
    /\ is_listening \in BOOLEAN
    /\ group        \in Seq(Conn \cup {ServerSocket})
    /\ ready        \in SUBSET (Conn \cup {ServerSocket})
    /\ timetable    \in Seq(Entry)
    /\ teams_names  \in SUBSET Names

TeamTypeOK ==
    /\ step       \in [Teams -> Steps]
    /\ pos        \in [Teams -> Nat \ {0}]
    /\ session    \in [Teams -> 0 .. MaxSessions]
    /\ registered \in [Teams -> BOOLEAN]
    /\ booked     \in [Teams -> SUBSET (Names \X Tracks \X Times)]
    /\ seen       \in [Teams -> Seq(Entry)]
    /\ leftover   \in [Teams -> BOOLEAN]

\* Every variable of the two kinds of process and of the network between them
\* holds a value of its C++ type.
TypeOK == NetTypeOK /\ ServerTypeOK /\ TeamTypeOK

-----------------------------------------------------------------------------
(* The timetable. *)

\* No two entries of the vector are the same slot: the searches of isFree and
\* addTarakan, which stop at the first match, see the whole slot.
EntriesDistinct == DistinctSlots(timetable)

\* However the registrations of the teams interleave, no slot takes more
\* tarakans than isFree allows, over all the entries that name the slot.
SlotWithinQuota ==
    \A track \in Tracks, time \in Times :
        Cardinality(Booked(timetable, track, time)) <= SlotSize

\* A registration is for ever: no later registration, refusal, deregistration
\* or failure takes a tarakan out of its slot.
TarakansStay ==
    [][ \A track \in Tracks, time \in Times :
            Booked(timetable, track, time) \subseteq Booked(timetable', track, time) ]_vars

\* The registrations of a team that the client sends with more characters than the
\* server reads: it reads another time, and books that.
CutTarakans(t) ==
    { <<Received[Script[t][p].request.name], Script[t][p].request.track,
        Script[t][p].request.time>> : p \in { q \in DOMAIN Script[t] :
            Script[t][q].request.verb = "REGISTER TARAKAN" /\ Script[t][q].size = "cut" } }

\* A tarakan whose registration was acknowledged to a team is in the slot the
\* team asked for, unless the call was cut on its way.
AcknowledgedBooked ==
    \A t \in Teams : \A b \in booked[t] \ CutTarakans(t) :
        b[1] \in Booked(timetable, b[2], b[3])

\* "TRACK BUSY" is never said of a slot that still has room, not even by the
\* time the answer reaches the team, unless the call was cut on its way.
BusyMeansFull ==
    \A t \in Teams :
        (Answered(t) /\ call(t).size # "cut" /\ Head(toClient[conn(t)]).kind = "TRACK BUSY") =>
            Cardinality(Booked(timetable, request(t).track, request(t).time)) = SlotSize

\* The timetable a team gets holds every tarakan it was told is registered, except
\* by a call that was cut, and nothing the server does not know.
TimetableCurrent ==
    \A t \in Teams :
        /\ (step[t] = "answered" /\ request(t).verb = "REQUEST TIMETABLE") =>
                \A b \in booked[t] \ CutTarakans(t) : b[1] \in Booked(seen[t], b[2], b[3])
        /\ \A track \in Tracks, time \in Times :
                Booked(seen[t], track, time) \subseteq Booked(timetable, track, time)

-----------------------------------------------------------------------------
(* The teams. *)

\* The names a process registers and deregisters.
TeamNames(t) ==
    { Script[t][p].request.name : p \in { q \in DOMAIN Script[t] :
        Script[t][q].request.verb \in {"REGISTER TEAM", "DEREGISTER TEAM"} } }

\* A team that was told it is registered stays a member until it asks to leave,
\* whatever the others do and however they are killed, when no other process uses
\* its name and its own process lives: a process that dies while it leaves may have
\* its request handled after the one that joins again.
MembersHold ==
    \A t \in Teams :
        \/ ~registered[t] \/ t \in Mortal \/ step[t] = "aborted"
        \/ step[t] = "waiting" /\ request(t).verb = "DEREGISTER TEAM"
        \/ \E u \in Teams \ {t} : TeamNames(u) \cap TeamNames(t) # {}
        \/ { Received[n] : n \in TeamNames(t) } \subseteq teams_names

-----------------------------------------------------------------------------
(* Requests and answers. *)

InBacklog(c) == \E k \in DOMAIN backlog : backlog[k] = c

\* A process in the middle of a call has a connection and a call to make.
InCall(t) == step[t] \in {"connected", "waiting", "answered"}

NoneTwice ==
    /\ \A k, l \in DOMAIN group : group[k] = group[l] => k = l
    /\ \A k, l \in DOMAIN backlog : backlog[k] = backlog[l] => k = l
    /\ \A k \in DOMAIN backlog : backlog[k] \notin Sockets

NoneLost == \A t \in Teams : InCall(t) => InBacklog(conn(t)) \/ conn(t) \in Sockets

\* The connection of a call waits in the backlog or sits in the group, in one place:
\* accepting, erasing and walking the group by index doubles no connection, and
\* loses none of a client that has not closed it.
ConnectionsOnce == NoneTwice /\ NoneLost

\* Some call is longer than one read of the server.
SomeOverrun ==
    \E t \in Teams : \E p \in DOMAIN Script[t] : Script[t][p].size \in {"stray", "cut"}

\* An exception has ended the listener, which takes a call that no read holds.
Broken == SomeOverrun /\ running /\ ~is_listening

\* While a team polls for an answer, its request is where the listener will find
\* it or its answer is on the way; the only other cases are a client that
\* refused to send the request and a listener that an exception has ended, which
\* takes a call that no read of the server holds.
NoRequestLost ==
    \A t \in Teams : step[t] = "waiting" =>
        \/ toClient[conn(t)] # <<>>
        \/ /\ toServer[conn(t)] # <<>>
           /\ InBacklog(conn(t)) \/ conn(t) \in Sockets
           /\ is_listening
        \/ call(t).size = "refused"
        \/ Broken

\* What comes to a team on the connection of its call is one answer, to the request
\* it made.
AnswerToRequest ==
    \A t \in Teams : step[t] = "waiting" =>
        /\ Len(toClient[conn(t)]) <= 1
        /\ toClient[conn(t)] # <<>> =>
                Head(toClient[conn(t)]).kind \in Answers[request(t).verb]

\* Every team that polls for an answer stops polling, although the polling loops
\* of Team have no timeout: nothing but a listener that a call too long has ended,
\* or a call the client itself refused to send, keeps a team polling for ever.
PollingEnds ==
    \A t \in Teams :
        step[t] = "waiting" ~> (step[t] # "waiting" \/ call(t).size = "refused" \/ Broken)

\* The server lets go of every connection its client has closed, as long as its
\* listener lives.
ClosedConnectionsLeave ==
    \A c \in Conn : (c \in closed) ~> (c \notin Sockets /\ ~InBacklog(c)) \/ Broken

-----------------------------------------------------------------------------
(* What the invariants rest on, for the proofs. *)

\* In the middle of a call a process is at a call of its script.
CallsOK ==
    \A t \in Teams : InCall(t) => session[t] # 0 /\ pos[t] \in DOMAIN Script[t]

\* The pass only accepts when there is a connection to accept: nobody but the
\* listener takes one out of the backlog.
AcceptsOK == ServerSocket \in ready => backlog # <<>>

\* SlotWithinQuota, of sets that are known to be finite.
QuotaOK ==
    \A track \in Tracks, time \in Times :
        /\ IsFiniteSet(Booked(timetable, track, time))
        /\ Cardinality(Booked(timetable, track, time)) <= SlotSize

IInv == TypeOK /\ CallsOK /\ AcceptsOK /\ EntriesDistinct /\ QuotaOK

-----------------------------------------------------------------------------
(* The system keeps the promise of Registry. *)

SlotsOf(entries) == [s \in Tracks \X Times |-> Booked(entries, s[1], s[2])]

R == INSTANCE Registry WITH
    Clients  <- Conn,
    service  <- IF is_listening THEN "open" ELSE IF running THEN "broken" ELSE "closed",
    teams    <- teams_names,
    slots    <- SlotsOf(timetable),
    requests <- toServer,
    answers  <- [c \in Conn |-> [k \in DOMAIN toClient[c] |->
                    [ kind  |-> toClient[c][k].kind,
                      slots |-> SlotsOf(deserialize(toClient[c][k].body)) ]]]

\* Seen from its clients, the management is an atomic object: every request takes
\* effect at one instant between question and answer, the answer says what it did,
\* a timetable is a snapshot, and while the listener lives every request is done.
AtomicRegistry == R!Spec

=============================================================================
