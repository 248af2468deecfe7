------------------------------ MODULE Exchange ------------------------------
(***************************************************************************)
(* What a Client promises to Team while the server stays: calls come one   *)
(* after the other, each connects, sends one request, takes the one answer *)
(* to it and disconnects.  The modules Team and TarakanRuns see a client   *)
(* this way; Client shows that its threads implement it.                   *)
(***************************************************************************)
EXTENDS Naturals, Sequences

CONSTANT MaxCalls       \* bound: calls of the team

VARIABLES
    call,       \* the number of the call
    step,       \* what the call has done
    requests,   \* the requests that were sent and not answered
    answers     \* the answers that were given and not taken

vars == <<call, step, requests, answers>>

Init ==
    /\ call = 0
    /\ step = "idle"
    /\ requests = {}
    /\ answers = <<>>

Connect ==
    /\ step = "idle"
    /\ call < MaxCalls
    /\ step' = "connected"
    /\ call' = call + 1
    /\ UNCHANGED <<requests, answers>>

Ask ==
    /\ step = "connected"
    /\ step' = "asked"
    /\ requests' = requests \cup {call}
    /\ UNCHANGED <<call, answers>>

\* The server answers a request, whatever the client is doing.
GiveAnswer ==
    /\ \E request \in requests :
            /\ requests' = requests \ {request}
            /\ answers' = Append(answers, request)
    /\ UNCHANGED <<call, step>>

\* What the call takes is its own answer, and nothing is left behind.
TakeAnswer ==
    /\ step = "asked"
    /\ answers = <<call>>
    /\ step' = "answered"
    /\ answers' = <<>>
    /\ UNCHANGED <<call, requests>>

Disconnect ==
    /\ step = "answered"
    /\ step' = "idle"
    /\ UNCHANGED <<call, requests, answers>>

Next == Connect \/ Ask \/ GiveAnswer \/ TakeAnswer \/ Disconnect

\* Every exchange comes to its end and the next one begins.
FairSpec == Init /\ [][Next]_vars /\ WF_vars(Next)

=============================================================================
