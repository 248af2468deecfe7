--------------------------------- MODULE Team ---------------------------------
(***************************************************************************)
(* The team processes: src/src/trk/Team.cpp, run through a script of calls *)
(* by team_main of src/src/trk/multi_call_main.cpp.                        *)
(*                                                                         *)
(* Every call is the same five steps on a connection of its own: connect,  *)
(* send the request, poll the inbox, take the answer, disconnect.  The     *)
(* module sees the client as its inbox: an answer the kernel holds is one  *)
(* the polling loop finds, unless an earlier call left a message there.    *)
(***************************************************************************)
EXTENDS Network

CONSTANTS
    Script,         \* team -> the calls its process makes, in order
    Mortal,         \* the teams whose process may be killed, and run again
    ReplyCapacity   \* tarakans of a timetable that one read of a client holds

Sizes == {"whole", "stray", "cut", "refused"}

\* A call: its request, and how long it is next to MAX_MESSAGE_SIZE.
Call == [ request : [verb : Verbs, name : Names, track : Tracks, time : Times],
          size    : Sizes ]

ASSUME ScriptAssumption == Script \in [Teams -> Seq(Call)]
ASSUME MortalAssumption == Mortal \subseteq Teams
ASSUME ReplyCapacityAssumption == ReplyCapacity \in Nat

VARIABLES
    step,       \* where the process of a team is in its call
    pos,        \* the call of the script
    session,    \* the number of the connection of the call
    registered, \* the answers said so: the team is registered
    booked,     \* the tarakans, with their slots, that answers said are registered
    seen,       \* the last timetable requestTimetable returned
    leftover    \* an empty message is in the inbox since the last call

teamVars == <<step, pos, session, registered, booked, seen, leftover>>

Steps == {"idle", "connected", "waiting", "answered", "done", "aborted", "dead"}

TeamInit ==
    /\ step       = [t \in Teams |-> "idle"]
    /\ pos        = [t \in Teams |-> 1]
    /\ session    = [t \in Teams |-> 0]
    /\ registered = [t \in Teams |-> FALSE]
    /\ booked     = [t \in Teams |-> {}]
    /\ seen       = [t \in Teams |-> <<>>]
    /\ leftover   = [t \in Teams |-> FALSE]

conn(t)    == <<t, session[t]>>
call(t)    == Script[t][pos[t]]
request(t) == call(t).request

Goto(t, s) == step' = [step EXCEPT ![t] = s]

-----------------------------------------------------------------------------
\* Client::connect on a listening server: the kernel completes the connection.
connect(t) ==
    /\ step[t] = "idle"
    /\ pos[t] \in DOMAIN Script[t]
    /\ session[t] < MaxSessions
    /\ session' = [session EXCEPT ![t] = @ + 1]
    /\ backlog' = Append(backlog, <<t, session[t] + 1>>)
    /\ Goto(t, "connected")
    /\ UNCHANGED <<pos, registered, booked, seen, leftover, toServer, toClient, closed>>

\* Client::connect without a server: an exception nobody catches.
connectRefused(t) ==
    /\ step[t] = "idle"
    /\ pos[t] \in DOMAIN Script[t]
    /\ Goto(t, "aborted")
    /\ UNCHANGED <<pos, session, registered, booked, seen, leftover, netVars>>

\* The messages the reads of the server make of a call.  The client accepts
\* two bytes more than the server reads at once: a call of exactly 32767
\* characters leaves its final NUL for the next read; a longer one loses its
\* last one or two characters to it, which are the closing quote of a name or
\* digits of the time of a tarakan.  When those were all its digits the server
\* uses the time uninitialised.  A call the client refuses sends nothing.
Stray(m) == [m EXCEPT !.verb = "INVALID"]

Wire(c) ==
    CASE c.size = "whole"   -> { <<c.request>> }
      [] c.size = "stray"   -> { <<c.request, Stray(c.request)>> }
      [] c.size = "cut"     -> IF c.request.verb = "REGISTER TARAKAN"
                               THEN { <<[c.request EXCEPT !.time = u], Stray(c.request)>> :
                                        u \in Times }
                               ELSE { <<Stray(c.request), Stray(c.request)>> }
      [] c.size = "refused" -> { <<>> }

\* Client::sendMessage: its result is ignored, the call goes on to poll.
sendMessage(t) ==
    /\ step[t] = "connected"
    /\ \E messages \in Wire(call(t)) :
            toServer' = [toServer EXCEPT ![conn(t)] = @ \o messages]
    /\ Goto(t, "waiting")
    /\ UNCHANGED <<pos, session, registered, booked, seen, leftover, backlog, toClient, closed>>

-----------------------------------------------------------------------------
(* The answer. *)

\* The tarakans a serialized timetable holds: what its length grows with.
Weight(json) ==
    Cardinality({ kn \in (DOMAIN json) \X Names : json[kn[1]].tarakans_info[kn[2]] # NoKey })

\* The answer is not one the call knows, or is a timetable cut short by the
\* read, which json::parse refuses.
Unusable(t, reply) ==
    \/ reply.kind \notin Answers[request(t).verb]
    \/ reply.kind = "TIMETABLE" /\ Weight(reply.body) > ReplyCapacity

Answered(t) == step[t] = "waiting" /\ toClient[conn(t)] # <<>>

\* A timetable that fills one read leaves its final NUL for the next one, which the
\* listener may make between clearInbox and the end of disconnect: "" is then the
\* first message of the next call.  Every other answer is short.
Leftovers(reply) ==
    IF reply.kind = "TIMETABLE" /\ Weight(reply.body) = ReplyCapacity
    THEN BOOLEAN ELSE {FALSE}

\* Mutant: a refused tarakan counts as registered.
receiveCareless(t) ==
    /\ Answered(t) /\ ~leftover[t]
    /\ LET reply == Head(toClient[conn(t)])
           r     == request(t)
       IN  /\ ~Unusable(t, reply)
           /\ \E empty \in Leftovers(reply) : leftover' = [leftover EXCEPT ![t] = empty]
           /\ toClient' = [toClient EXCEPT ![conn(t)] = Tail(@)]
           /\ registered' = [registered EXCEPT ![t] = r.verb = "REGISTER TEAM"]
           /\ booked' = [booked EXCEPT ![t] = IF r.verb = "REGISTER TARAKAN"
                                THEN @ \cup {<<Received[r.name], r.track, r.time>>} ELSE @]
           /\ seen' = [seen EXCEPT ![t] = IF reply.kind = "TIMETABLE"
                                          THEN deserialize(reply.body) ELSE @]
    /\ Goto(t, "answered")
    /\ UNCHANGED <<pos, session, backlog, toServer, closed>>

\* The polling loop ends and the call makes what it does of the answer.
receive(t) ==
    /\ Answered(t) /\ ~leftover[t]
    /\ LET reply == Head(toClient[conn(t)])
           r     == request(t)
       IN  /\ ~Unusable(t, reply)
           /\ \E empty \in Leftovers(reply) : leftover' = [leftover EXCEPT ![t] = empty]
           /\ toClient' = [toClient EXCEPT ![conn(t)] = Tail(@)]
           /\ registered' = [registered EXCEPT ![t] =
                IF reply.kind = "TEAM REGISTERED" THEN TRUE
                ELSE IF r.verb = "DEREGISTER TEAM" THEN FALSE ELSE @]
           /\ booked' = [booked EXCEPT ![t] =
                IF reply.kind = "TARAKAN REGISTERED"
                THEN @ \cup {<<Received[r.name], r.track, r.time>>} ELSE @]
           /\ seen' = [seen EXCEPT ![t] =
                IF reply.kind = "TIMETABLE" THEN deserialize(reply.body) ELSE @]
    /\ Goto(t, "answered")
    /\ UNCHANGED <<pos, session, backlog, toServer, closed>>

\* The call throws: nobody catches, the process ends and its socket closes.
receiveUnusable(t) ==
    /\ Answered(t) /\ ~leftover[t]
    /\ Unusable(t, Head(toClient[conn(t)]))
    /\ closed' = closed \cup {conn(t)}
    /\ Goto(t, "aborted")
    /\ UNCHANGED <<pos, session, registered, booked, seen, leftover, backlog, toServer, toClient>>

\* The polling loop finds the empty message an earlier call left: no call knows it.
receiveEmpty(t) ==
    /\ step[t] = "waiting" /\ leftover[t]
    /\ closed' = closed \cup {conn(t)}
    /\ Goto(t, "aborted")
    /\ UNCHANGED <<pos, session, registered, booked, seen, leftover, backlog, toServer, toClient>>

\* clearInbox and Client::disconnect; the script goes on or ends.
disconnect(t) ==
    /\ step[t] = "answered"
    /\ closed' = closed \cup {conn(t)}
    /\ pos' = [pos EXCEPT ![t] = @ + 1]
    /\ Goto(t, IF pos[t] = Len(Script[t]) THEN "done" ELSE "idle")
    /\ UNCHANGED <<session, registered, booked, seen, leftover, backlog, toServer, toClient>>

-----------------------------------------------------------------------------
(* A team process is killed in the middle of its script, and run again. *)

Kill(t) ==
    /\ t \in Mortal
    /\ step[t] \in {"idle", "connected", "waiting", "answered"}
    /\ closed' = closed \cup IF step[t] = "idle" THEN {} ELSE {conn(t)}
    /\ Goto(t, "dead")
    /\ registered' = [registered EXCEPT ![t] = FALSE]
    /\ booked'     = [booked EXCEPT ![t] = {}]
    /\ seen'       = [seen EXCEPT ![t] = <<>>]
    /\ leftover'   = [leftover EXCEPT ![t] = FALSE]
    /\ UNCHANGED <<pos, session, backlog, toServer, toClient>>

Restart(t) ==
    /\ t \in Mortal
    /\ step[t] \in {"dead", "done", "aborted"}
    /\ session[t] < MaxSessions
    /\ pos'        = [pos EXCEPT ![t] = 1]
    /\ registered' = [registered EXCEPT ![t] = FALSE]
    /\ booked'     = [booked EXCEPT ![t] = {}]
    /\ seen'       = [seen EXCEPT ![t] = <<>>]
    /\ leftover'   = [leftover EXCEPT ![t] = FALSE]
    /\ Goto(t, "idle")
    /\ UNCHANGED <<session, netVars>>

\* A step of the process of a team that is connected or needs no connection.
callStep(t) ==
    \/ sendMessage(t)
    \/ receive(t) \/ receiveUnusable(t) \/ receiveEmpty(t)
    \/ disconnect(t)

=============================================================================
