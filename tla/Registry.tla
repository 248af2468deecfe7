------------------------------- MODULE Registry -------------------------------
(***************************************************************************)
(* What the management promises to its clients: one atomic object.  A      *)
(* client asks; the object performs the request at one instant between the *)
(* question and the answer, in the order of each client; the client takes  *)
(* the answer.  Slots are sets of names: the vector of entries, the search *)
(* for the first match, the sockets and the passes of the listener are not *)
(* to be seen from here.                                                   *)
(***************************************************************************)
EXTENDS Naturals, Sequences, FiniteSets

CONSTANTS
    Clients,    \* the connections
    Names, Tracks, Times,
    SlotSize,   \* how many tarakans a slot takes
    Received    \* the name a request stands for

VARIABLES
    service,    \* "closed", "open", or "broken" by a request it cannot read
    teams,      \* the names of the registered teams
    slots,      \* slot -> the tarakans that run in it
    requests,   \* client -> requests not performed yet
    answers     \* client -> answers not taken yet

vars == <<service, teams, slots, requests, answers>>

Slot == Tracks \X Times

Init ==
    /\ service  = "closed"
    /\ teams    = {}
    /\ slots    = [s \in Slot |-> {}]
    /\ requests = [c \in Clients |-> <<>>]
    /\ answers  = [c \in Clients |-> <<>>]

OpenService ==
    /\ service = "closed"
    /\ service' = "open"
    /\ UNCHANGED <<teams, slots, requests, answers>>

\* A client that has nothing outstanding sends a request, in one message or cut.
Ask(c) ==
    /\ requests[c] = <<>> /\ answers[c] = <<>>
    /\ \A d \in Clients \ {c} : requests'[d] = requests[d]
    /\ UNCHANGED <<service, teams, slots, answers>>

Answer(c, kind, table) ==
    answers' = [answers EXCEPT ![c] = Append(@, [kind |-> kind, slots |-> table])]

Nothing == [s \in Slot |-> {}]

Enter(c, name) ==
    /\ teams' = teams \cup {name}
    /\ Answer(c, IF name \in teams THEN "TEAM ALREADY REGISTERED"
                                   ELSE "TEAM REGISTERED", Nothing)
    /\ UNCHANGED slots

Leave(c, name) ==
    /\ teams' = teams \ {name}
    /\ Answer(c, IF name \in teams THEN "TEAM DEREGISTERED"
                                   ELSE "NO SUCH TEAM", Nothing)
    /\ UNCHANGED slots

Book(c, name, s) ==
    /\ IF Cardinality(slots[s]) < SlotSize
       THEN /\ slots' = [slots EXCEPT ![s] = @ \cup {name}]
            /\ Answer(c, "TARAKAN REGISTERED", Nothing)
       ELSE /\ UNCHANGED slots
            /\ Answer(c, "TRACK BUSY", Nothing)
    /\ UNCHANGED teams

Show(c) ==
    /\ Answer(c, "TIMETABLE", slots)
    /\ UNCHANGED <<teams, slots>>

\* The oldest request of a client is performed and answered.
Perform(c) ==
    /\ service = "open"
    /\ requests[c] # <<>>
    /\ requests' = [requests EXCEPT ![c] = Tail(@)]
    /\ LET m    == Head(requests[c])
           name == Received[m.name]
       IN  \/ m.verb = "REGISTER TEAM"     /\ Enter(c, name)
           \/ m.verb = "DEREGISTER TEAM"   /\ Leave(c, name)
           \/ m.verb = "REGISTER TARAKAN"  /\ Book(c, name, <<m.track, m.time>>)
           \/ m.verb = "REQUEST TIMETABLE" /\ Show(c)
    /\ UNCHANGED service

\* A request nobody can read ends the service for all.
Break(c) ==
    /\ service = "open"
    /\ requests[c] # <<>>
    /\ Head(requests[c]).verb = "INVALID"
    /\ service' = "broken"
    /\ requests' = [requests EXCEPT ![c] = Tail(@)]
    /\ UNCHANGED <<teams, slots, answers>>

Take(c) ==
    /\ answers[c] # <<>>
    /\ answers' = [answers EXCEPT ![c] = Tail(@)]
    /\ UNCHANGED <<service, teams, slots, requests>>

Next ==
    \/ OpenService
    \/ \E c \in Clients : Ask(c) \/ Perform(c) \/ Break(c) \/ Take(c)

\* As long as the service is open, every request is performed in the end.
Fairness == \A c \in Clients : WF_vars(Perform(c) \/ Break(c))

Spec == Init /\ [][Next]_vars /\ Fairness

=============================================================================
