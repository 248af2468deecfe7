------------------------------- MODULE Server -------------------------------
(***************************************************************************)
(* The life of one Server object (src/src/network/Server.cpp): its owner   *)
(* starts it, stops it, starts it again and destroys it while its listener *)
(* thread walks the socket group and clients come and go.                  *)
(*                                                                         *)
(* The owner and the listener share the group without a lock.  The group   *)
(* is a std::vector: erase moves the later elements down and leaves the    *)
(* memory behind the end as it was, so a read at an index that was checked *)
(* a moment ago may see another socket, or one that has been erased.  Each *)
(* read of an element by the walk is a step of its own; an erase and a     *)
(* push_back are atomic.  Handlers are external: one returns or throws.    *)
(***************************************************************************)
EXTENDS Naturals, Sequences, FiniteSets

CONSTANTS
    Conn,           \* the clients' connections, each with its accepted socket
    Listening,      \* the listening socket
    Null,           \* the result of an accept() that failed
    MaxMessages     \* bound: messages one client sends

ASSUME SocketsAssumption ==
    /\ Listening \notin Conn
    /\ Null \notin Conn \cup {Listening}
ASSUME MaxMessagesAssumption == MaxMessages \in Nat

VARIABLES
    owner,          \* where the owner is: "out" of any call, or a step of one
    removing,       \* i of the loop in stop()
    leaving,        \* the destructor is the call that stops the listener
    running,        \* Server::running
    is_listening,   \* Server::is_listening
    stopped,        \* stop() has been called
    cells, size,    \* the vector of the group: its memory, and its end
    pc,             \* where the listener thread is
    fdset,          \* the descriptors the pass gave to select()
    ready,          \* the ones select() left
    at, launched,   \* i and launchSockets of the pass
    reading,        \* the socket of a read() that is under way
    bound,          \* the listening descriptor is open
    backlog,        \* connections the kernel completed and nobody accepted
    connected,      \* connections the clients opened
    inbox,          \* connection -> messages the server has not read
    closed,         \* connections whose client is gone
    accepted,       \* connections accept() gave a socket to
    deleted         \* connections whose socket the server deleted

ownerVars    == <<owner, removing, leaving, running, stopped>>
groupVars    == <<cells, size>>
listenerVars == <<pc, fdset, ready, at, launched, reading>>
clientVars   == <<connected, closed>>
kernelVars   == <<bound, backlog, inbox, accepted, deleted>>
vars == <<ownerVars, is_listening, groupVars, listenerVars, clientVars, kernelVars>>

Init ==
    /\ owner = "out" /\ removing = 1 /\ leaving = FALSE
    /\ running = FALSE /\ is_listening = FALSE /\ stopped = FALSE
    /\ cells = <<>> /\ size = 0
    /\ pc = "none" /\ fdset = {} /\ ready = {} /\ at = 1 /\ launched = 0 /\ reading = Null
    /\ bound = FALSE /\ backlog = <<>>
    /\ connected = {} /\ inbox = [c \in Conn |-> 0] /\ closed = {}
    /\ accepted = {} /\ deleted = {}

-----------------------------------------------------------------------------
(* The vector of SocketGroup. *)

Group == { cells[k] : k \in 1 .. size }

\* erase(begin() + k): the memory behind the new end keeps what it held.
Erase(k) ==
    /\ cells' = [l \in DOMAIN cells |-> IF k <= l /\ l < size THEN cells[l + 1] ELSE cells[l]]
    /\ size'  = size - 1

PushBack(s) ==
    /\ cells' = [l \in 1 .. (IF size < Len(cells) THEN Len(cells) ELSE size + 1) |->
                    IF l = size + 1 THEN s ELSE cells[l]]
    /\ size'  = size + 1

-----------------------------------------------------------------------------
(* Server::start, stop and ~Server *)

\* A step that moves the owner through its call and nothing else.
OwnerOnly == UNCHANGED <<is_listening, groupVars, listenerVars, clientVars, kernelVars>>

\* The loop of start(): it advances while remove(i) shrinks the vector, so every
\* other socket is left.  No listener runs beside it.
Survivors == [k \in 1 .. size \div 2 |-> cells[2 * k]]

\* The port is free: the listening socket joins the group, the thread is created.
start ==
    /\ owner = "out" /\ ~running
    /\ ~bound
    /\ cells' = Append(Survivors, Listening)
    /\ size' = size \div 2 + 1
    /\ bound' = TRUE
    /\ is_listening' = TRUE
    /\ pc' = "test"
    /\ running' = TRUE
    /\ UNCHANGED <<owner, removing, leaving, stopped, fdset, ready, at, launched,
                   reading, clientVars, backlog, inbox, accepted, deleted>>

\* The port is in use, by another program or by the socket of an earlier start
\* that stop() took out of the group and did not close: start() throws.
startThrows ==
    /\ owner = "out" /\ ~running
    /\ cells' = Survivors
    /\ size' = size \div 2
    /\ UNCHANGED <<ownerVars, is_listening, listenerVars, clientVars, kernelVars>>

stop ==
    /\ owner = "out" /\ running
    /\ owner' = "stop test"
    /\ removing' = 1
    /\ stopped' = TRUE
    /\ UNCHANGED <<leaving, running>> /\ OwnerOnly

stopTest ==
    /\ owner = "stop test"
    /\ owner' = IF removing <= size THEN "remove" ELSE "stopListening"
    /\ UNCHANGED <<removing, leaving, running, stopped>> /\ OwnerOnly

\* Mutant: the socket that is erased is closed too.
removeClosing ==
    /\ owner = "remove"
    /\ removing <= size
    /\ Erase(removing)
    /\ bound' = (bound /\ cells[removing] # Listening)
    /\ removing' = removing + 1
    /\ owner' = "stop test"
    /\ UNCHANGED <<leaving, running, stopped, is_listening, listenerVars, clientVars,
                   backlog, inbox, accepted, deleted>>

\* SocketGroup::remove(index) erases the socket; nobody deletes it.
remove ==
    /\ owner = "remove"
    /\ removing <= size
    /\ Erase(removing)
    /\ removing' = removing + 1
    /\ owner' = "stop test"
    /\ UNCHANGED <<leaving, running, stopped, is_listening, listenerVars,
                   clientVars, kernelVars>>

\* The listener has shortened the group since the test: OUT_OF_RANGE leaves
\* stop(), and running stays true.
removeThrows ==
    /\ owner = "remove"
    /\ removing > size
    /\ owner' = "out"
    /\ UNCHANGED <<removing, leaving, running, stopped>> /\ OwnerOnly

destroy ==
    /\ owner = "out"
    /\ owner' = "stopListening"
    /\ leaving' = TRUE
    /\ UNCHANGED <<removing, running, stopped>> /\ OwnerOnly

\* The call is over.  The destructor deletes the group and none of the sockets
\* in it: their descriptors stay open.
Finish ==
    /\ owner' = IF leaving THEN "gone" ELSE "out"
    /\ running' = IF leaving THEN running ELSE FALSE
    /\ cells' = IF leaving THEN <<>> ELSE cells
    /\ size' = IF leaving THEN 0 ELSE size
    /\ UNCHANGED <<removing, leaving, stopped>>

\* Mutant: the thread is left to itself.
stopListeningDetached ==
    /\ owner = "stopListening"
    /\ is_listening' = FALSE
    /\ Finish
    /\ UNCHANGED <<listenerVars, clientVars, kernelVars>>

stopListening ==
    /\ owner = "stopListening"
    /\ \/ is_listening /\ owner' = "join" /\ UNCHANGED <<removing, leaving, running,
                                                         stopped, groupVars>>
       \/ ~is_listening /\ Finish
    /\ is_listening' = FALSE
    /\ UNCHANGED <<listenerVars, clientVars, kernelVars>>

join ==
    /\ owner = "join"
    /\ pc = "ended"
    /\ Finish
    /\ UNCHANGED <<is_listening, listenerVars, clientVars, kernelVars>>

-----------------------------------------------------------------------------
(* The listener thread: Server::listener and SocketGroup::listen *)

Goto(p) == pc' = p

\* A step that touches nothing but the variables of the pass.
PassOnly == UNCHANGED <<ownerVars, is_listening, groupVars, clientVars, kernelVars>>

Step(p) == Goto(p) /\ UNCHANGED <<fdset, ready, at, launched, reading>> /\ PassOnly

\* Mutant: the loop does not look at is_listening.
testAlways ==
    /\ pc = "test"
    /\ Step("fill")

test ==
    /\ pc = "test"
    /\ Step(IF is_listening THEN "fill" ELSE "ended")

\* Mutant: the fd_set is filled from the second socket on.
fillFromSecond ==
    /\ pc = "fill"
    /\ fdset' = { cells[k] : k \in 2 .. size }
    /\ Goto(IF Null \in Group THEN "crashed" ELSE "select")
    /\ UNCHANGED <<ready, at, launched, reading>> /\ PassOnly

\* The fd_set is filled from the group; a null pointer in it ends the process.
\* milisecLeft = finTime - getTime() is unsigned: a thread that comes to it after
\* finTime waits for nearly 2^64 milliseconds.
fill ==
    /\ pc = "fill"
    /\ fdset' = Group
    /\ \E wait \in {"select", "oversleep"} : Goto(IF Null \in Group THEN "crashed" ELSE wait)
    /\ UNCHANGED <<ready, at, launched, reading>> /\ PassOnly

Readable(s) == IF s = Listening THEN backlog # <<>> ELSE inbox[s] > 0 \/ s \in closed

\* select() returns with the readable descriptors, or with none when the time is over.
select ==
    /\ pc = "select" \/ (pc = "oversleep" /\ \E s \in fdset : Readable(s))
    /\ ready' = { s \in fdset : Readable(s) }
    /\ at' = 1
    /\ launched' = 0
    /\ Goto("walk")
    /\ UNCHANGED <<fdset, reading>> /\ PassOnly

walk ==
    /\ pc = "walk"
    /\ Step(IF launched < Cardinality(ready) /\ at <= size THEN "isset" ELSE "passed")

isset ==
    /\ pc = "isset"
    /\ LET s == cells[at]
       IN  /\ launched' = IF s \in ready THEN launched + 1 ELSE launched
           /\ at' = IF s \in ready \cup {Null} THEN at ELSE at + 1
           /\ Goto(IF s = Null THEN "crashed" ELSE IF s \in ready THEN "type" ELSE "walk")
    /\ UNCHANGED <<fdset, ready, reading>> /\ PassOnly

type ==
    /\ pc = "type"
    /\ Step(CASE cells[at] = Null      -> "crashed"
              [] cells[at] = Listening -> "accept"
              [] OTHER                 -> "nextReadSize")

\* Mutant: the test for nothing to read is turned round.
nextReadSizeTurned ==
    /\ pc = "nextReadSize"
    /\ Step(CASE cells[at] = Null    -> "crashed"
              [] inbox[cells[at]] > 0 -> "disconnect"
              [] OTHER                -> "read")

nextReadSize ==
    /\ pc = "nextReadSize"
    /\ Step(CASE cells[at] = Null    -> "crashed"
              [] inbox[cells[at]] = 0 -> "disconnect"
              [] OTHER                -> "read")

\* The callback returns to the walk.
Launched == at' = at + 1 /\ Goto("walk") /\ UNCHANGED <<fdset, ready, launched,
                                                        reading>>

\* OnAccept: accept() waits for a connection and takes the oldest, or fails for lack of a
\* descriptor and gives NULL; add() takes either into the group.
accept ==
    /\ pc = "accept"
    /\ cells[at] = Listening
    /\ backlog # <<>>
    /\ \/ /\ PushBack(Head(backlog))
          /\ accepted' = accepted \cup {Head(backlog)}
          /\ backlog'  = Tail(backlog)
       \/ /\ PushBack(Null)
          /\ UNCHANGED <<accepted, backlog>>
    /\ Launched
    /\ UNCHANGED <<ownerVars, is_listening, clientVars, bound, inbox, deleted>>

\* The owner has erased the listening socket: accept() of a client socket throws.
acceptThrows ==
    /\ pc = "accept"
    /\ cells[at] # Listening
    /\ Step(IF cells[at] = Null THEN "crashed" ELSE "dying")

\* Where SocketGroup::remove(Socket*) finds the socket: its first place.
Place(s, k) == k \in 1 .. size /\ cells[k] = s /\ \A l \in 1 .. k - 1 : cells[l] # s

\* Mutant: the socket is removed from the group and not deleted.
disconnectLeaking ==
    /\ pc = "disconnect"
    /\ \E k \in 1 .. size : Place(cells[at], k) /\ Erase(k)
    /\ Launched
    /\ UNCHANGED <<ownerVars, is_listening, clientVars, kernelVars>>

\* Mutant: the socket is deleted and stays in the group.
disconnectDangling ==
    /\ pc = "disconnect"
    /\ deleted' = deleted \cup ({cells[at]} \cap Conn)
    /\ Launched
    /\ UNCHANGED <<ownerVars, is_listening, groupVars, clientVars, bound, backlog,
                   inbox, accepted>>

\* OnDisconnect: remove(socket) erases it unless the owner has; delete closes
\* its descriptor.  The listening socket, first in the group and erased first, is
\* never shifted to here.
disconnect ==
    /\ pc = "disconnect"
    /\ \/ \E k \in 1 .. size : Place(cells[at], k) /\ Erase(k)
       \/ cells[at] \notin Group /\ UNCHANGED groupVars
    /\ deleted' = deleted \cup ({cells[at]} \cap Conn)
    /\ Launched
    /\ UNCHANGED <<ownerVars, is_listening, clientVars, bound, backlog, inbox,
                   accepted>>

\* OnRead: read() of the socket the index finds now.
read ==
    /\ pc = "read"
    /\ reading' = cells[at]
    /\ Goto(IF cells[at] = Null THEN "crashed" ELSE "recv")
    /\ UNCHANGED <<fdset, ready, at, launched>> /\ PassOnly

\* recv() waits for data or the end of the stream; then the handler runs, and
\* returns or throws.
recv ==
    /\ pc = "recv"
    /\ inbox[reading] > 0 \/ reading \in closed
    /\ inbox' = [inbox EXCEPT ![reading] = IF @ > 0 THEN @ - 1 ELSE 0]
    /\ reading' = Null
    /\ \/ Goto("walk") /\ at' = at + 1
       \/ Goto("dying") /\ UNCHANGED at
    /\ UNCHANGED <<ownerVars, is_listening, groupVars, fdset, ready, launched,
                   clientVars, bound, backlog, accepted, deleted>>

\* The clock is before finTime: another pass of listen().
again ==
    /\ pc = "passed"
    /\ Step("fill")

\* listen() returns, the thread sleeps and tests again.
return ==
    /\ pc = "passed"
    /\ Step("test")

\* The catch of listener().
catch ==
    /\ pc = "dying"
    /\ is_listening' = FALSE
    /\ Goto("ended")
    /\ UNCHANGED <<ownerVars, groupVars, fdset, ready, at, launched, reading,
                   clientVars, kernelVars>>

-----------------------------------------------------------------------------
(* The clients. *)

Connect(c) ==
    /\ c \notin connected
    /\ bound
    /\ connected' = connected \cup {c}
    /\ backlog' = Append(backlog, c)
    /\ UNCHANGED <<ownerVars, is_listening, groupVars, listenerVars, closed, bound,
                   inbox, accepted, deleted>>

Send(c) ==
    /\ c \in connected \ (closed \cup deleted)
    /\ inbox[c] < MaxMessages
    /\ inbox' = [inbox EXCEPT ![c] = @ + 1]
    /\ UNCHANGED <<ownerVars, is_listening, groupVars, listenerVars, clientVars,
                   bound, backlog, accepted, deleted>>

Close(c) ==
    /\ c \in connected \ closed
    /\ closed' = closed \cup {c}
    /\ UNCHANGED <<ownerVars, is_listening, groupVars, listenerVars, connected,
                   kernelVars>>

-----------------------------------------------------------------------------

\* The steps of a call that has begun.
callStep ==
    stopTest \/ remove \/ removeThrows \/ stopListening \/ join

\* A crash of the listener thread is the end of the process.
Up == pc # "crashed"

Owner == Up /\ (start \/ startThrows \/ stop \/ destroy \/ callStep)

listener ==
    \/ test \/ fill \/ select \/ walk \/ isset \/ type \/ nextReadSize
    \/ accept \/ acceptThrows \/ disconnect \/ read \/ recv
    \/ again \/ return \/ catch

Client(c) == Up /\ (Connect(c) \/ Send(c) \/ Close(c))

Next ==
    \/ Owner
    \/ listener
    \/ \E c \in Conn : Client(c)

Spec == Init /\ [][Next]_vars

(***************************************************************************)
(* Both threads are scheduled; the owner finishes the calls it begins; and *)
(* time passes, so a pass is in the end the last one of its listen().      *)
(***************************************************************************)
FairSpec ==
    /\ Spec
    /\ WF_vars(Up /\ callStep)
    /\ WF_vars(listener)
    /\ SF_vars(return)

-----------------------------------------------------------------------------
(* Properties. *)

ReadsElement == pc \in {"isset", "type", "nextReadSize", "accept", "disconnect", "read"}

\* When stop() has returned, or the object is destroyed, no thread uses the group:
\* also after the listener has ended by itself, after a stop() that threw, and
\* for a start() that failed.
StoppedIsQuiet ==
    owner = "gone" \/ (owner = "out" /\ ~running) => pc \in {"none", "ended", "crashed"}

\* However stop() shifts the elements under the walk, the listener never touches
\* a socket that was deleted: an element read past the end, or one passed on
\* after a shift, is a socket that still lives.
NoDeletedUsed ==
    /\ ReadsElement => at \in DOMAIN cells /\ cells[at] \notin deleted
    /\ reading \notin deleted
    /\ Group \cap deleted = {}

\* As long as nobody stops the server or destroys it, it has a descriptor open for
\* exactly the clients of its group: none leaks and none is closed twice.  (stop()
\* and the destructor leave open what they take out of the group.)
DescriptorsAccounted ==
    ~stopped /\ owner # "gone" => Group \cap Conn = accepted \ deleted

\* As long as nobody stops the server, it closes only connections whose client
\* has gone and left nothing unread.
OnlyClosedDropped ==
    [][ \A c \in deleted' \ deleted : stopped \/ (c \in closed /\ inbox[c] = 0) ]_vars

\* One object listens in one life: the descriptor stop() leaves open keeps the
\* port, so no later start() makes another thread.
OneLife == [][ pc = "ended" => pc' = "ended" ]_vars

\* The listener waits in recv() of a client that says nothing.
Stuck == pc = "recv" /\ inbox[reading] = 0 /\ reading \notin closed

\* The listener came late to select(), and none of its sockets says anything.
Overslept == pc = "oversleep" /\ \A s \in fdset : ~Readable(s)

\* stop() and the destructor return, unless the listener never comes back to look
\* at is_listening: the shift under the walk has sent it to read from a client that
\* says nothing, or it lost the processor for the 10 ms before a silent select().
StopEnds ==
    owner \notin {"out", "gone"} ~>
        (owner \in {"out", "gone"} \/ pc = "crashed" \/ [](Stuck \/ Overslept))

\* A client that connects is accepted, or the server is stopped or down: an
\* accept() that fails never leaves a server that runs and does not accept.
AcceptedOrDown ==
    \A c \in Conn : c \in connected ~>
        (c \in accepted \/ stopped \/ owner = "gone" \/ pc \in {"ended", "crashed"})

\* What a callback is given is a socket that triggered it.
SocketTriggered == pc \in {"accept", "disconnect", "read"} => cells[at] \in ready

=============================================================================
