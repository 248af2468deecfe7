-------------------------------- MODULE Client --------------------------------
(***************************************************************************)
(* One Client of a team: src/src/network/Client.cpp.                       *)
(*                                                                         *)
(* Two threads share the object without a lock that both take: the main    *)
(* thread, which makes the calls of Team one after the other, and the      *)
(* listener thread, which connect() and sendMessage() start anew and which *)
(* fills the inbox the main thread polls.  An action is a piece of one     *)
(* thread that touches the shared state once.  The server is external: it  *)
(* answers every request once, and it may go away and come back.           *)
(***************************************************************************)
EXTENDS Naturals, Sequences, FiniteSets

CONSTANTS
    MaxCalls,       \* bound: calls the main thread makes
    MaxCloses,      \* bound: connections the server closes
    Punctual        \* no thread loses the processor for a whole listen()

ASSUME MaxCallsAssumption  == MaxCalls \in Nat
ASSUME MaxClosesAssumption == MaxCloses \in Nat
ASSUME PunctualAssumption  == Punctual \in BOOLEAN

Main     == 0
Threads  == 1 .. 2 * MaxCalls   \* connect() and sendMessage() start one each
Sessions == 1 .. MaxCalls       \* the socket of a call

VARIABLES
    pc,                 \* where the main thread and every listener thread are
    call,               \* the number of the call, and of its socket
    connected,          \* Client::connected
    depth,              \* how often connection_mutex is locked, always by Main
    is_listening,       \* Client::is_listening
    listening_thread,   \* Client::p_listening_thread
    joined,             \* threads that were joined, whose objects are deleted
    spawned,            \* how many listener threads were started
    group,              \* the sockets in p_socket_group
    disconnected,       \* the sockets that Socket::disconnect() closed
    fdset,              \* the sockets a thread gave to select()
    held,               \* the message a thread has read and not pushed yet
    received_messages,  \* Client::received_messages
    asked,              \* sockets with a request the server has not answered
    inbound,            \* socket -> messages that arrived and were not read
    eof                 \* sockets the server closed

lockVars   == <<connected, depth>>
listenVars == <<is_listening, listening_thread, joined, spawned>>
sockVars   == <<group, disconnected>>
threadVars == <<fdset, held>>
netVars    == <<asked, inbound, eof>>
vars == <<pc, call, lockVars, listenVars, sockVars, threadVars, received_messages, netVars>>

MainSteps   == { "idle", "flag", "spawn", "assign", "connected",
                 "sendMessage", "send", "reflag", "respawn", "reassign", "poll",
                 "clearInbox", "sendStop", "sendLower", "sendJoin", "done", "crashed" }
ThreadSteps == { "none", "test", "fill", "select", "oversleep", "launch", "push",
                 "dying", "ended" }
BothSteps   == { "disconnect", "size", "close", "remove", "stop", "lower", "join", "finish" }

Init ==
    /\ pc                = [a \in {Main} \cup Threads |-> IF a = Main THEN "idle" ELSE "none"]
    /\ call              = 0
    /\ connected         = FALSE
    /\ depth             = 0
    /\ is_listening      = FALSE
    /\ listening_thread  = Main
    /\ joined            = {}
    /\ spawned           = 0
    /\ group             = {}
    /\ disconnected      = {}
    /\ fdset             = [th \in Threads |-> {}]
    /\ held              = [th \in Threads |-> 0]
    /\ received_messages = <<>>
    /\ asked             = {}
    /\ inbound           = [s \in Sessions |-> <<>>]
    /\ eof               = {}

Go(a, from, to) == pc[a] = from /\ pc' = [pc EXCEPT ![a] = to]

\* The process of the team ends with all its threads.
Crash == pc' = [a \in {Main} \cup Threads |-> IF a = Main THEN "crashed" ELSE "ended"]

-----------------------------------------------------------------------------
(* startListening and stopListening, from a label of the caller to its next *)

startListening(flag, spawn, assign, next) ==
    /\ UNCHANGED joined
    /\ \/ /\ ~is_listening
          /\ Go(Main, flag, spawn)
          /\ is_listening' = TRUE
          /\ UNCHANGED <<listening_thread, spawned>>
       \/ /\ is_listening
          /\ Go(Main, flag, next)
          /\ UNCHANGED <<is_listening, listening_thread, spawned>>
       \/ /\ pc[Main] = spawn
          /\ spawned' = spawned + 1
          /\ pc' = [pc EXCEPT ![Main] = assign, ![spawned + 1] = "test"]
          /\ UNCHANGED <<is_listening, listening_thread>>
       \/ /\ Go(Main, assign, next)
          /\ listening_thread' = spawned
          /\ UNCHANGED <<is_listening, spawned>>

\* Mutant: is_listening is left as it is.
LowerKeeping(a, stop, lower, join, next) ==
    /\ Go(a, stop, IF is_listening THEN join ELSE next)
    /\ UNCHANGED is_listening

\* The test of is_listening and its reset, two accesses of two threads.
Lower(a, stop, lower, join, next) ==
    \/ /\ Go(a, stop, IF is_listening THEN lower ELSE next)
       /\ UNCHANGED is_listening
    \/ /\ Go(a, lower, join)
       /\ is_listening' = FALSE

\* Mutant: the thread is deleted and not joined.
JoinDetached(a, join, next) ==
    /\ Go(a, join, next)
    /\ joined' = joined \cup {listening_thread}

Join(a, join, next) ==
    /\ pc[listening_thread] = "ended"
    /\ listening_thread \notin joined
    /\ Go(a, join, next)
    /\ joined' = joined \cup {listening_thread}

stopListening(a, stop, lower, join, next) ==
    \/ Lower(a, stop, lower, join, next) /\ UNCHANGED <<listening_thread, joined, spawned>>
    \/ Join(a, join, next) /\ UNCHANGED <<is_listening, listening_thread, spawned>>

-----------------------------------------------------------------------------
(* Client::connect *)

\* The group that connect clears is empty: whoever made connected FALSE after a
\* request was sent has removed the socket before.
connect ==
    /\ call < MaxCalls
    /\ ~connected
    /\ Go(Main, "idle", "flag")
    /\ depth' = depth + 1
    /\ call'  = call + 1
    /\ group' = {call + 1}
    /\ UNCHANGED <<connected, listenVars, disconnected, threadVars, received_messages, netVars>>

\* No server listens: the mutex is unlocked, connect throws and the team ends.
connectRefused ==
    /\ call < MaxCalls
    /\ eof # {}
    /\ pc[Main] = "idle"
    /\ Crash
    /\ group' = {}
    /\ UNCHANGED <<call, lockVars, listenVars, disconnected, threadVars, received_messages,
                   netVars>>

connectListens ==
    /\ startListening("flag", "spawn", "assign", "connected")
    /\ UNCHANGED <<call, lockVars, sockVars, threadVars, received_messages, netVars>>

connectDone ==
    /\ Go(Main, "connected", "sendMessage")
    /\ connected' = TRUE
    /\ UNCHANGED <<call, depth, listenVars, sockVars, threadVars, received_messages, netVars>>

-----------------------------------------------------------------------------
(* Client::sendMessage, whose result Team ignores *)

sendMessage ==
    /\ Go(Main, "sendMessage", IF connected THEN "sendStop" ELSE "poll")
    /\ UNCHANGED <<call, lockVars, listenVars, sockVars, threadVars, received_messages, netVars>>

\* A thread that another thread joined too: its object is deleted.
sendStops ==
    /\ UNCHANGED <<call, depth, sockVars, threadVars, received_messages, netVars>>
    /\ \/ /\ stopListening(Main, "sendStop", "sendLower", "sendJoin", "send")
          /\ UNCHANGED connected
       \/ /\ pc[Main] = "sendJoin"
          /\ listening_thread \in joined
          /\ \/ Go(Main, "sendJoin", "poll") /\ connected' = FALSE
             \/ Crash /\ UNCHANGED connected
          /\ UNCHANGED listenVars

\* get(0) throws when the group is empty, send() when the socket was disconnected.
send ==
    /\ \/ /\ group \ disconnected # {}
          /\ Go(Main, "send", "reflag")
          /\ asked' = asked \cup group
          /\ UNCHANGED connected
       \/ /\ group \ disconnected = {}
          /\ Go(Main, "send", "poll")
          /\ connected' = FALSE
          /\ UNCHANGED asked
    /\ UNCHANGED <<call, depth, listenVars, sockVars, threadVars, received_messages, inbound, eof>>

\* Mutant: the listener is not started again.
sendListensNot ==
    /\ Go(Main, "reflag", "poll")
    /\ UNCHANGED <<call, lockVars, listenVars, sockVars, threadVars, received_messages, netVars>>

sendListens ==
    /\ startListening("reflag", "respawn", "reassign", "poll")
    /\ UNCHANGED <<call, lockVars, sockVars, threadVars, received_messages, netVars>>

-----------------------------------------------------------------------------
(* The polling loop of Team and clearInbox *)

poll ==
    /\ received_messages # <<>>
    /\ Go(Main, "poll", "clearInbox")
    /\ UNCHANGED <<call, lockVars, listenVars, sockVars, threadVars, received_messages, netVars>>

\* Mutant: the answers of a call stay in the inbox.
clearInboxKeeping ==
    /\ Go(Main, "clearInbox", "disconnect")
    /\ UNCHANGED <<call, lockVars, listenVars, sockVars, threadVars, received_messages, netVars>>

clearInbox ==
    /\ Go(Main, "clearInbox", "disconnect")
    /\ received_messages' = <<>>
    /\ UNCHANGED <<call, lockVars, listenVars, sockVars, threadVars, netVars>>

-----------------------------------------------------------------------------
(* Client::disconnect, by the main thread or, out of OnDisconnect, by a listener *)

Return(a) == IF a # Main THEN "fill" ELSE IF call = MaxCalls THEN "done" ELSE "idle"

disconnectBegins(a) ==
    /\ Go(a, "disconnect", IF connected THEN "size" ELSE Return(a))
    /\ UNCHANGED <<call, lockVars, listenVars, sockVars>>

\* The test of the loop: a client has one socket at most.
disconnectCounts(a) ==
    /\ Go(a, "size", IF group # {} THEN "close" ELSE "stop")
    /\ UNCHANGED <<call, lockVars, listenVars, sockVars>>

\* get(0), and Socket::disconnect: the descriptor is closed, the handler becomes -1.
disconnectCloses(a) ==
    /\ group # {}
    /\ Go(a, "close", "remove")
    /\ disconnected' = disconnected \cup group
    /\ UNCHANGED <<call, lockVars, listenVars, group>>

\* remove(0), after which the loop ends.
disconnectRemoves(a) ==
    /\ group # {}
    /\ Go(a, "remove", "stop")
    /\ group' = {}
    /\ UNCHANGED <<call, lockVars, listenVars, disconnected>>

\* Another thread has emptied the group since this one read its size: get(0) and
\* remove(0) throw OUT_OF_RANGE, which disconnect throws on.  Nobody stops the
\* listener, connected and the mutex stay as they are; the team ends, or the
\* listener whose OnDisconnect this is.
disconnectThrows(a) ==
    /\ pc[a] \in {"close", "remove"}
    /\ group = {}
    /\ IF a = Main THEN Crash ELSE Go(a, pc[a], "dying")
    /\ UNCHANGED <<call, lockVars, listenVars, sockVars>>

\* A listener that joins itself throws.  To join a thread that was joined, because
\* another thread stops it too or because the newest is not assigned yet, throws
\* or ends the process; what the main thread throws ends the team.
disconnectStops(a) ==
    /\ UNCHANGED <<call, lockVars, sockVars>>
    /\ \/ stopListening(a, "stop", "lower", "join", "finish")
       \/ /\ listening_thread \in {a} \cup joined
          /\ a # Main
          /\ Go(a, "join", "dying")
          /\ UNCHANGED listenVars
       \/ /\ pc[a] = "join"
          /\ listening_thread \in joined
          /\ Crash
          /\ UNCHANGED listenVars

\* Mutant: the mutex stays locked.
disconnectEndsLocked(a) ==
    /\ Go(a, "finish", Return(a))
    /\ connected' = FALSE
    /\ UNCHANGED <<call, depth, listenVars, sockVars>>

\* Mutant: the unlock of a thread that does not own the mutex counts.
disconnectEndsForeign(a) ==
    /\ Go(a, "finish", Return(a))
    /\ connected' = FALSE
    /\ depth' = depth - 1
    /\ UNCHANGED <<call, listenVars, sockVars>>

\* The mutex is recursive: unlock() of a thread that does not own it fails.
disconnectEnds(a) ==
    /\ Go(a, "finish", Return(a))
    /\ connected' = FALSE
    /\ depth' = IF a = Main THEN depth - 1 ELSE depth
    /\ UNCHANGED <<call, listenVars, sockVars>>

disconnect(a) ==
    /\ \/ disconnectBegins(a)
       \/ disconnectCounts(a)
       \/ disconnectCloses(a)
       \/ disconnectRemoves(a)
       \/ disconnectThrows(a)
       \/ disconnectStops(a)
       \/ disconnectEnds(a)
    /\ UNCHANGED <<threadVars, received_messages, netVars>>

-----------------------------------------------------------------------------
(* Client::listener and SocketGroup::listen *)

unchangedByListen == UNCHANGED <<call, lockVars, listening_thread, joined, spawned, sockVars,
                                 asked, eof>>

\* The loop of listener: listen for 10 milliseconds while is_listening.
listenerTest(th) ==
    /\ Go(th, "test", IF is_listening THEN "fill" ELSE "ended")
    /\ UNCHANGED <<is_listening, threadVars, received_messages, inbound>>
    /\ unchangedByListen

\* FD_SET of every socket of the group; a handler of -1 selects nothing.  Then
\* milisecLeft = finTime - getTime(): unsigned, so that a thread that comes here
\* after finTime waits for 2^64 milliseconds less the few it is late.
listenFill(th) ==
    /\ \/ Go(th, "fill", "select")
       \/ ~Punctual /\ Go(th, "fill", "oversleep")
    /\ fdset' = [fdset EXCEPT ![th] = group \ disconnected]
    /\ UNCHANGED <<is_listening, held, received_messages, inbound>>
    /\ unchangedByListen

Readable(s) == inbound[s] # <<>> \/ s \in eof

\* select(): something to read, nothing until the time is over, or a descriptor
\* that was closed before select() looked at it.
listenSelect(th) ==
    /\ \/ /\ \E s \in fdset[th] : Readable(s)
          /\ Go(th, "select", "launch") \/ Go(th, "oversleep", "launch")
       \/ /\ \A s \in fdset[th] \ disconnected : ~Readable(s)
          /\ Go(th, "select", "test")
       \/ /\ fdset[th] \cap disconnected # {}
          /\ Go(th, "select", "dying") \/ Go(th, "oversleep", "dying")
    /\ UNCHANGED <<is_listening, threadVars, received_messages, inbound>>
    /\ unchangedByListen

\* The socket is launched: read(), OnDisconnect, or the error of a handler of
\* -1; a socket that was removed or disconnected before is passed over.
listenLaunch(th) ==
    /\ UNCHANGED <<is_listening, fdset, received_messages>>
    /\ unchangedByListen
    /\ \/ \E s \in group \ disconnected :
            \/ /\ inbound[s] # <<>>
               /\ Go(th, "launch", "push")
               /\ held' = [held EXCEPT ![th] = Head(inbound[s])]
               /\ inbound' = [inbound EXCEPT ![s] = Tail(@)]
            \/ /\ inbound[s] = <<>>
               /\ Go(th, "launch", "disconnect")
               /\ UNCHANGED <<held, inbound>>
       \/ /\ group \ disconnected = {}
          /\ \/ Go(th, "launch", "fill") \/ Go(th, "launch", "test")
             \/ group # {} /\ Go(th, "launch", "dying")
          /\ UNCHANGED <<held, inbound>>

\* OnRead: the message goes to the inbox.
listenPush(th) ==
    /\ Go(th, "push", "fill") \/ Go(th, "push", "test")
    /\ received_messages' = Append(received_messages, held[th])
    /\ UNCHANGED <<is_listening, threadVars, inbound>>
    /\ unchangedByListen

\* The listener catches whatever comes out of listen() and ends.
listenerCatch(th) ==
    /\ Go(th, "dying", "ended")
    /\ is_listening' = FALSE
    /\ UNCHANGED <<threadVars, received_messages, inbound>>
    /\ unchangedByListen

listener(th) ==
    \/ listenerTest(th)
    \/ listenFill(th)
    \/ listenSelect(th)
    \/ listenLaunch(th)
    \/ listenPush(th)
    \/ listenerCatch(th)
    \/ disconnect(th)

-----------------------------------------------------------------------------
(* The server, external *)

\* It answers a request over the socket the request came from.
ServerAnswers(s) ==
    /\ s \in asked \ eof
    /\ asked' = asked \ {s}
    /\ inbound' = [inbound EXCEPT ![s] = Append(@, s)]
    /\ UNCHANGED <<pc, call, lockVars, listenVars, sockVars, threadVars, received_messages, eof>>

\* Its process goes away; the next call may find another one or none.
ServerCloses(s) ==
    /\ Cardinality(eof) < MaxCloses
    /\ s = call
    /\ s \notin eof
    /\ eof' = eof \cup {s}
    /\ UNCHANGED <<pc, call, lockVars, listenVars, sockVars, threadVars, received_messages, asked,
                   inbound>>

-----------------------------------------------------------------------------

main ==
    \/ connect \/ connectRefused \/ connectListens \/ connectDone
    \/ sendMessage \/ sendStops \/ send \/ sendListens
    \/ poll \/ clearInbox \/ disconnect(Main)

Next ==
    \/ main
    \/ \E th \in Threads : listener(th)
    \/ \E s \in Sessions : ServerAnswers(s) \/ ServerCloses(s)

Spec == Init /\ [][Next]_vars

(***************************************************************************)
(* The operating system runs every thread that can run, and a server that  *)
(* is there answers (PollingEnds of TarakanRuns).  Nobody has to close a   *)
(* connection.                                                             *)
(***************************************************************************)
FairSpec ==
    /\ Spec
    /\ WF_vars(main)
    /\ \A th \in Threads : WF_vars(listener(th))
    /\ \A s \in Sessions : WF_vars(ServerAnswers(s))

-----------------------------------------------------------------------------
(* Properties *)

Listens(th) == pc[th] \in {"test", "fill", "select", "oversleep", "launch", "push"}

TypeOK ==
    /\ pc \in [{Main} \cup Threads -> MainSteps \cup ThreadSteps \cup BothSteps]
    /\ call \in 0 .. MaxCalls
    /\ connected \in BOOLEAN
    /\ is_listening \in BOOLEAN
    /\ spawned \in 0 .. 2 * MaxCalls
    /\ listening_thread \in 0 .. spawned
    /\ joined \subseteq Threads
    /\ depth \in 0 .. MaxCalls
    /\ group \subseteq Sessions
    /\ disconnected \subseteq Sessions
    /\ fdset \in [Threads -> SUBSET Sessions]
    /\ held \in [Threads -> {0} \cup Sessions]
    /\ received_messages \in Seq(Sessions)
    /\ asked \subseteq Sessions
    /\ inbound \in [Sessions -> Seq(Sessions)]
    /\ eof \subseteq Sessions

\* The message a call finds in the inbox is the answer to its own request, however
\* the listener threads of this and of earlier calls are scheduled.
OwnAnswer ==
    pc[Main] \in {"poll", "clearInbox"} =>
        \A k \in DOMAIN received_messages : received_messages[k] = call

\* There are never two listener threads that use the group: stopListening has
\* ended the one before startListening starts the next.
OneListener ==
    \A th, other \in Threads : Listens(th) /\ Listens(other) => th = other

\* connection_mutex is locked once during a call and free between two calls.
MutexHeldInCall ==
    pc[Main] # "crashed" => depth = IF pc[Main] \in {"idle", "done"} THEN 0 ELSE 1

\* While a call polls the inbox, somebody will fill it: the listener thread runs.
PollingHeard ==
    (pc[Main] = "poll" /\ received_messages = <<>> /\ eof = {}) =>
        is_listening /\ Listens(listening_thread)

(***************************************************************************)
(* The refinement: where the main thread is gives the step of the call; an *)
(* answer is given when it arrives at the socket, whether a listener holds *)
(* it, has pushed it to the inbox, or has not read it yet.                 *)
(***************************************************************************)
StepOfCall ==
    CASE pc[Main] \in {"idle", "done"} -> "idle"
      [] pc[Main] \in {"flag", "spawn", "assign", "connected", "sendMessage",
                       "sendStop", "sendLower", "sendJoin", "send"} -> "connected"
      [] pc[Main] \in {"reflag", "respawn", "reassign", "poll", "clearInbox"} -> "asked"
      [] pc[Main] \in BothSteps -> "answered"
      [] OTHER -> "lost"

Pushing == { th \in Threads : pc[th] = "push" }

Arrived ==
    received_messages
        \o (IF Pushing = {} THEN <<>> ELSE << held[CHOOSE th \in Pushing : TRUE] >>)
        \o (IF call = 0 THEN <<>> ELSE inbound[call])

E == INSTANCE Exchange WITH step <- StepOfCall, requests <- asked, answers <- Arrived

\* The main thread, the listener threads that replace each other and the unlocked
\* inbox do for Team what Exchange says, and every call comes to its end.
Exchanges == E!FairSpec

\* "Listens during milisecs time" (src/lib/netlink/src/socket_group.cc): a thread
\* that waits in select() gets out of it, whether something arrives or not.
SelectReturns ==
    \A th \in Threads :
        pc[th] \in {"select", "oversleep"} ~> pc[th] \notin {"select", "oversleep"}

\* "Closes (disconnects) the socket. After this call the socket can not be used."
\* (src/lib/netlink/src/socket.cc): no thread uses a socket of the group, to select
\* or to launch it, that was disconnected.
NoUseAfterDisconnect ==
    [][ \A th \in Threads :
            (pc[th] \in {"fill", "launch"} /\ pc'[th] # pc[th]) =>
                group \cap disconnected = {} ]_vars

=============================================================================
