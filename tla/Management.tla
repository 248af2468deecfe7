------------------------------ MODULE Management ------------------------------
(***************************************************************************)
(* The management process: src/src/trk/Management.cpp on top of            *)
(* src/src/network/Server.cpp and SocketGroup::listen.                     *)
(*                                                                         *)
(* One thread, the listener, owns the socket group.  A pass of listen()    *)
(* selects the readable sockets and walks the group by index; for each     *)
(* selected socket it runs one callback to its end: accept, disconnect or  *)
(* read, and read runs the handler of the message and sends its answer.    *)
(* Between two callbacks of a pass connections arrive, data arrives and    *)
(* clients go away.  The main thread sleeps for ever after start().        *)
(***************************************************************************)
EXTENDS Network

CONSTANT
    ServerSocket    \* the listening socket in the group

ASSUME ServerSocketAssumption == ServerSocket \notin Conn

VARIABLES
    running,        \* Server::running
    is_listening,   \* Server::is_listening: the listener thread is in its loop
    group,          \* the sockets of the group, in the order of the vector
    ready,          \* the sockets select() left in the fd_set, without the ones
                    \* that the index of the pass has gone past
    timetable,      \* Management::timetable, its vector of entries
    teams_names     \* Management::teams_names

serverVars == <<running, is_listening, group, ready, timetable, teams_names>>

ServerInit ==
    /\ running      = FALSE
    /\ is_listening = FALSE
    /\ group        = <<>>
    /\ ready        = {}
    /\ timetable    = <<>>
    /\ teams_names  = {}

\* Management::start: the listening socket joins the group, the listener starts.
Start ==
    /\ ~running
    /\ group'        = <<ServerSocket>>
    /\ is_listening' = TRUE
    /\ running'      = TRUE
    /\ UNCHANGED <<ready, timetable, teams_names, netVars>>

-----------------------------------------------------------------------------
(* SocketGroup::listen *)

Sockets == { group[k] : k \in DOMAIN group }

Readable(s) ==
    IF s = ServerSocket THEN backlog # <<>>
                        ELSE toServer[s] # <<>> \/ s \in closed

\* The indices the pass still has to launch.
Due == { k \in DOMAIN group : group[k] \in ready }

\* select() returns because some socket of the group is readable.
Select ==
    /\ is_listening
    /\ Due = {}
    /\ \E s \in Sockets : Readable(s)
    /\ ready' = { s \in Sockets : Readable(s) }
    /\ UNCHANGED <<running, is_listening, group, timetable, teams_names, netVars>>

\* The pass reaches the socket at index k, the first one it has to launch.
Launch(k) ==
    /\ is_listening
    /\ \A l \in Due : k <= l
    /\ UNCHANGED running

-----------------------------------------------------------------------------
(* Server::OnAccept, Server::OnDisconnect *)

\* Socket::accept takes the oldest connection; select() said there is one.
accept(c) ==
    /\ c = Head(backlog)
    /\ backlog' = Tail(backlog)

OnAccept ==
    \E k \in Due :
        /\ group[k] = ServerSocket
        /\ Launch(k)
        /\ ready' = ready \ {group[k]}
        /\ \E c \in Conn : accept(c) /\ group' = Append(group, c)
        /\ UNCHANGED <<is_listening, timetable, teams_names, toServer, toClient, closed>>

\* SocketGroup::remove erases the socket: the ones behind it move down.
Without(k) == [l \in 1 .. Len(group) - 1 |-> IF l < k THEN group[l] ELSE group[l + 1]]

\* Mutant: a socket whose client is gone stays in the group.
OnDisconnectKeeping ==
    \E k \in Due :
        /\ group[k] # ServerSocket
        /\ toServer[group[k]] = <<>>
        /\ Launch(k)
        /\ ready' = ready \ {group[k]}
        /\ UNCHANGED <<is_listening, group, timetable, teams_names, netVars>>

\* Mutant: the sockets behind the one that is gone are erased as well.
OnDisconnectTwice ==
    \E k \in Due :
        /\ group[k] # ServerSocket
        /\ toServer[group[k]] = <<>>
        /\ Launch(k)
        /\ ready' = {}
        /\ group' = SubSeq(group, 1, k - 1)
        /\ UNCHANGED <<is_listening, timetable, teams_names, netVars>>

\* nextReadSize() is zero: nothing to read, so the client is gone.  The index
\* of the pass goes on to k + 1, past the socket that moved down to k.
OnDisconnect ==
    \E k \in Due :
        /\ group[k] # ServerSocket
        /\ toServer[group[k]] = <<>>
        /\ Launch(k)
        /\ ready' = ready \ { group[l] : l \in {k, k + 1} \cap DOMAIN group }
        /\ group' = Without(k)
        /\ UNCHANGED <<is_listening, timetable, teams_names, netVars>>

-----------------------------------------------------------------------------
(* The handlers, each with the answer it sends over the client socket. *)

answer(c, kind, body) ==
    toClient' = [toClient EXCEPT ![c] = Append(@, [kind |-> kind, body |-> body])]

handleTimetableRequest(c) ==
    /\ answer(c, "TIMETABLE", serialize(timetable))
    /\ UNCHANGED <<timetable, teams_names>>

handleTeamRegistration(m, c) ==
    /\ \/ /\ Received[m.name] \notin teams_names
          /\ teams_names' = teams_names \cup {Received[m.name]}
          /\ answer(c, "TEAM REGISTERED", <<>>)
       \/ /\ Received[m.name] \in teams_names
          /\ answer(c, "TEAM ALREADY REGISTERED", <<>>)
          /\ UNCHANGED teams_names
    /\ UNCHANGED timetable

\* Mutant: deregistering one team clears the set.
handleTeamDeregistrationClearing(m, c) ==
    /\ \/ /\ Received[m.name] \in teams_names
          /\ teams_names' = {}
          /\ answer(c, "TEAM DEREGISTERED", <<>>)
       \/ /\ Received[m.name] \notin teams_names
          /\ answer(c, "NO SUCH TEAM", <<>>)
          /\ UNCHANGED teams_names
    /\ UNCHANGED timetable

handleTeamDeregistration(m, c) ==
    /\ \/ /\ Received[m.name] \in teams_names
          /\ teams_names' = teams_names \ {Received[m.name]}
          /\ answer(c, "TEAM DEREGISTERED", <<>>)
       \/ /\ Received[m.name] \notin teams_names
          /\ answer(c, "NO SUCH TEAM", <<>>)
          /\ UNCHANGED teams_names
    /\ UNCHANGED timetable

\* The tarakan is made from its name, so it has no strategies.
handleTarakanRegistration(m, c) ==
    /\ \/ /\ isFree(timetable, m.track, m.time)
          /\ timetable' = addTarakan(timetable, Received[m.name], 0, m.track, m.time)
          /\ answer(c, "TARAKAN REGISTERED", <<>>)
       \/ /\ ~isFree(timetable, m.track, m.time)
          /\ answer(c, "TRACK BUSY", <<>>)
          /\ UNCHANGED timetable
    /\ UNCHANGED teams_names

\* Mutant: two handlers change places in the map of handlers.
messageHandlerSwapped(m, c) ==
    \/ m.verb = "REQUEST TIMETABLE" /\ handleTimetableRequest(c)
    \/ m.verb = "DEREGISTER TEAM"   /\ handleTeamRegistration(m, c)
    \/ m.verb = "REGISTER TEAM"     /\ handleTeamDeregistration(m, c)
    \/ m.verb = "REGISTER TARAKAN"  /\ handleTarakanRegistration(m, c)

\* Management::messageHandler picks the handler by the prefix of the message.
messageHandler(m, c) ==
    \/ m.verb = "REQUEST TIMETABLE" /\ handleTimetableRequest(c)
    \/ m.verb = "REGISTER TEAM"     /\ handleTeamRegistration(m, c)
    \/ m.verb = "DEREGISTER TEAM"   /\ handleTeamDeregistration(m, c)
    \/ m.verb = "REGISTER TARAKAN"  /\ handleTarakanRegistration(m, c)

-----------------------------------------------------------------------------
(* Server::OnRead *)

\* The pass reaches a connection with data: read() takes the next message.
Read(k) ==
    /\ group[k] # ServerSocket
    /\ toServer[group[k]] # <<>>
    /\ Launch(k)
    /\ ready' = ready \ {group[k]}
    /\ toServer' = [toServer EXCEPT ![group[k]] = Tail(@)]
    /\ UNCHANGED <<group, backlog, closed>>

OnRead ==
    \E k \in Due :
        /\ Read(k)
        /\ messageHandler(Head(toServer[group[k]]), group[k])
        /\ UNCHANGED is_listening

\* Mutant: the listener goes on after the exception.
OnReadThrowsIgnored ==
    \E k \in Due :
        /\ Read(k)
        /\ Head(toServer[group[k]]).verb = "INVALID"
        /\ UNCHANGED <<is_listening, toClient, timetable, teams_names>>

\* The handler throws: the exception leaves listen() and ends the listener.
OnReadThrows ==
    \E k \in Due :
        /\ Read(k)
        /\ Head(toServer[group[k]]).verb = "INVALID"
        /\ is_listening' = FALSE
        /\ UNCHANGED <<toClient, timetable, teams_names>>

\* A step of the listener thread.
listener == Select \/ OnAccept \/ OnDisconnect \/ OnRead \/ OnReadThrows

=============================================================================
