------------------------------- MODULE Network -------------------------------
(***************************************************************************)
(* What the team processes and the management process share: the messages  *)
(* of the protocol and the TCP connections that carry them, as the socket  *)
(* calls of the program see them.  The kernel completes a connection into  *)
(* the backlog of the listening socket whether or not anybody accepts it,  *)
(* delivers each direction in order, and shows the end of the stream to    *)
(* the other side once an end is closed or its process has died.  A team   *)
(* opens a connection for every request (src/src/trk/Team.cpp), so a       *)
(* connection is a team and a session number.                              *)
(***************************************************************************)
EXTENDS Timetable

CONSTANTS
    Teams,          \* the team processes
    MaxSessions,    \* bound: connections one team opens in a behaviour
    Received        \* name -> the name unescape(escape(name)) gives the server

ASSUME MaxSessionsAssumption == MaxSessions \in Nat

\* A byte outside ASCII comes back as several characters; no two names collide.
ASSUME ReceivedAssumption ==
    /\ Received \in [Names -> Names]
    /\ \A m, n \in Names : Received[m] = Received[n] => m = n

Verbs == {"REQUEST TIMETABLE", "REGISTER TEAM", "DEREGISTER TEAM", "REGISTER TARAKAN"}

\* The answers each request can get.
Answers ==
    [ verb \in Verbs |->
        CASE verb = "REQUEST TIMETABLE" -> {"TIMETABLE"}
          [] verb = "REGISTER TEAM"     -> {"TEAM REGISTERED", "TEAM ALREADY REGISTERED"}
          [] verb = "DEREGISTER TEAM"   -> {"TEAM DEREGISTERED", "NO SUCH TEAM"}
          [] verb = "REGISTER TARAKAN"  -> {"TARAKAN REGISTERED", "TRACK BUSY"} ]

Kinds == UNION { Answers[verb] : verb \in Verbs }

\* What one read() of the server returns: a request, or ("INVALID") bytes
\* that no handler takes without throwing.
Message ==
    [verb : Verbs \cup {"INVALID"}, name : Names, track : Tracks, time : Times]

\* What a client reads: an answer, with the JSON of a timetable in its body.
Answer == [kind : Kinds, body : Seq(JSONEntry)]

-----------------------------------------------------------------------------

VARIABLES
    backlog,    \* connections the kernel completed and nobody accepted yet
    toServer,   \* connection -> messages the server has not read
    toClient,   \* connection -> messages the client has not read
    closed      \* connections whose client end is closed

netVars == <<backlog, toServer, toClient, closed>>

Conn == Teams \X (1 .. MaxSessions)

NetInit ==
    /\ backlog  = <<>>
    /\ toServer = [c \in Conn |-> <<>>]
    /\ toClient = [c \in Conn |-> <<>>]
    /\ closed   = {}

=============================================================================
