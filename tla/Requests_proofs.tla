---------------------------- MODULE Requests_proofs ----------------------------
(***************************************************************************)
(* The connections, the requests and the answers of TarakanRuns, for any   *)
(* teams and scripts: that no connection is in two places, that a request  *)
(* is where the listener finds it, that an answer belongs to its request   *)
(* and is true; and that the whole implements Registry, where each request *)
(* takes one step.                                                         *)
(***************************************************************************)
EXTENDS TarakanRuns_proofs

-----------------------------------------------------------------------------
(* The inductive invariant of the connections and the requests. *)

\* The listener lives from the start to an exception, and before the start nobody
\* connects.
LifeOK ==
    /\ is_listening => running
    /\ ~running => group = <<>> /\ \A t \in Teams : session[t] = 0
    /\ running /\ ~is_listening => SomeOverrun

\* A connection the pass has to launch has a message, or its client is gone.
ReadyOK == \A c \in ready \cap Conn : toServer[c] # <<>> \/ c \in closed

\* A connection that its team has not opened yet is nowhere.
Fresh(c) == c[2] > session[c[1]]

FreshOK ==
    \A c \in Conn : Fresh(c) =>
        /\ c \notin closed /\ ~InBacklog(c) /\ c \notin Sockets
        /\ toServer[c] = <<>> /\ toClient[c] = <<>>

\* The connection of a call is open, and in the backlog or in the group.
PlacedOK ==
    \A t \in Teams : InCall(t) =>
        conn(t) \notin closed /\ (InBacklog(conn(t)) \/ conn(t) \in Sockets)

\* Only a call that is longer than a read leaves bytes that no handler takes.
StrayOK ==
    \A c \in Conn : \A k \in DOMAIN toServer[c] :
        toServer[c][k].verb = "INVALID" => SomeOverrun

\* A message that asks what the call of the team asks, or that cannot be read; a
\* call that was cut has lost its time.
Asks(t, m) ==
    /\ m.verb \in {request(t).verb, "INVALID"}
    /\ m.name = request(t).name /\ m.track = request(t).track
    /\ ~(call(t).size = "cut" /\ request(t).verb = "REGISTER TARAKAN") =>
            m.time = request(t).time

\* From position n on there is nothing that can be read.
StrayFrom(n, messages) ==
    \A k \in DOMAIN messages : k >= n => messages[k].verb = "INVALID"

\* A call that waits is at one of four places.
RequestWaits(t) ==
    /\ toServer[conn(t)] # <<>> /\ toClient[conn(t)] = <<>>
    /\ Asks(t, Head(toServer[conn(t)]))
    /\ StrayFrom(2, toServer[conn(t)])

AnswerWaits(t) ==
    /\ Len(toClient[conn(t)]) = 1
    /\ Head(toClient[conn(t)]).kind \in Answers[request(t).verb]
    /\ StrayFrom(1, toServer[conn(t)])

NotSent(t) ==
    call(t).size = "refused" /\ toServer[conn(t)] = <<>> /\ toClient[conn(t)] = <<>>

Lost(t) == toClient[conn(t)] = <<>> /\ Broken

CallOK(t) ==
    /\ step[t] = "connected" => toServer[conn(t)] = <<>> /\ toClient[conn(t)] = <<>>
    /\ step[t] = "waiting" => RequestWaits(t) \/ AnswerWaits(t) \/ NotSent(t) \/ Lost(t)

PInv ==
    /\ LifeOK /\ NoneTwice /\ ReadyOK /\ FreshOK /\ PlacedOK /\ StrayOK
    /\ \A t \in Teams : CallOK(t)

-----------------------------------------------------------------------------
(* Queues: the backlog and the group. *)

Elements(queue) == { queue[k] : k \in DOMAIN queue }
Distinct(queue) == \A k, l \in DOMAIN queue : queue[k] = queue[l] => k = l

\* Appending adds one element.
LEMMA AppendElements ==
    ASSUME NEW S, NEW queue \in Seq(S), NEW x \in S
    PROVE  /\ Elements(Append(queue, x)) = Elements(queue) \cup {x}
           /\ Distinct(queue) /\ x \notin Elements(queue) => Distinct(Append(queue, x))
<1> DEFINE longer == Append(queue, x)
           n      == Len(queue)
<1>1. /\ n \in Nat /\ DOMAIN queue = 1 .. n
      /\ longer \in Seq(S) /\ Len(longer) = n + 1 /\ DOMAIN longer = 1 .. n + 1
      /\ \A i \in 1 .. n : longer[i] = queue[i]
      /\ longer[n + 1] = x
    BY LenProperties, AppendProperties
<1> HIDE DEF longer, n
<1>2. Elements(longer) = Elements(queue) \cup {x}
    <2>1. 1 .. n + 1 = (1 .. n) \cup {n + 1}
        BY <1>1
    <2>2. QED
        BY <1>1, <2>1 DEF Elements
<1>3. Distinct(queue) /\ x \notin Elements(queue) => Distinct(longer)
    <2> SUFFICES ASSUME Distinct(queue), x \notin Elements(queue),
                        NEW i \in 1 .. n + 1, NEW j \in 1 .. n + 1, longer[i] = longer[j]
                 PROVE  i = j
        BY <1>1 DEF Distinct
    <2>1. \A l \in 1 .. n : queue[l] # x
        BY <1>1 DEF Elements
    <2>2. CASE i \in 1 .. n /\ j \in 1 .. n
        BY <1>1, <2>2 DEF Distinct
    <2>3. CASE i = n + 1 \/ j = n + 1
        <3>1. i \in 1 .. n \/ i = n + 1
            BY <1>1
        <3>2. j \in 1 .. n \/ j = n + 1
            BY <1>1
        <3>3. QED
            BY <1>1, <2>1, <2>3, <3>1, <3>2
    <2>4. QED
        BY <1>1, <2>2, <2>3
<1>4. QED
    BY <1>2, <1>3 DEF longer

\* Taking the head of a queue without repetitions takes it out.
LEMMA TailElements ==
    ASSUME NEW S, NEW queue \in Seq(S), queue # <<>>, Distinct(queue)
    PROVE  /\ Elements(Tail(queue)) = Elements(queue) \ {Head(queue)}
           /\ Head(queue) \in Elements(queue)
           /\ Distinct(Tail(queue))
<1> DEFINE rest == Tail(queue)
           n    == Len(queue)
<1>1. /\ n \in Nat \ {0} /\ DOMAIN queue = 1 .. n
      /\ rest \in Seq(S) /\ Len(rest) = n - 1 /\ DOMAIN rest = 1 .. n - 1
      /\ \A i \in 1 .. n - 1 : rest[i] = queue[i + 1]
    BY LenProperties, EmptySeq, HeadTailProperties
<1>2. Head(queue) = queue[1]
    OBVIOUS
<1> HIDE DEF rest, n
<1>3. Elements(rest) = Elements(queue) \ {queue[1]}
    <2>1. \A i \in 1 .. n - 1 : i + 1 \in 1 .. n /\ i + 1 # 1
        BY <1>1
    <2>2. \A i \in 1 .. n : i # 1 => i - 1 \in 1 .. n - 1 /\ (i - 1) + 1 = i
        BY <1>1
    <2>3. \A i \in 1 .. n : i # 1 => queue[i] # queue[1]
        BY <1>1 DEF Distinct
    <2>4. Elements(rest) \subseteq Elements(queue) \ {queue[1]}
        BY <1>1, <2>1, <2>3 DEF Elements
    <2>5. Elements(queue) \ {queue[1]} \subseteq Elements(rest)
        <3> SUFFICES ASSUME NEW i \in 1 .. n, queue[i] # queue[1]
                     PROVE  queue[i] \in Elements(rest)
            BY <1>1 DEF Elements
        <3>1. i - 1 \in 1 .. n - 1 /\ rest[i - 1] = queue[i]
            BY <1>1, <2>2
        <3>2. QED
            BY <1>1, <3>1 DEF Elements
    <2>6. QED
        BY <2>4, <2>5
<1>4. Distinct(rest)
    <2> SUFFICES ASSUME NEW i \in 1 .. n - 1, NEW j \in 1 .. n - 1, rest[i] = rest[j]
                 PROVE  i = j
        BY <1>1 DEF Distinct
    <2>1. i + 1 \in 1 .. n /\ j + 1 \in 1 .. n /\ queue[i + 1] = queue[j + 1]
        BY <1>1
    <2>2. i + 1 = j + 1
        BY <1>1, <2>1 DEF Distinct
    <2>3. QED
        BY <2>2
<1>5. Head(queue) \in Elements(queue)
    BY <1>1, <1>2 DEF Elements
<1>6. QED
    BY <1>2, <1>3, <1>4, <1>5 DEF rest

\* SocketGroup::remove takes one socket out of a group without repetitions.
LEMMA WithoutElements ==
    ASSUME ServerTypeOK, NEW k \in DOMAIN group, Distinct(group)
    PROVE  /\ Elements(Without(k)) = Elements(group) \ {group[k]}
           /\ Distinct(Without(k))
<1> DEFINE rest == Without(k)
           n    == Len(group)
<1>1. n \in Nat /\ DOMAIN group = 1 .. n /\ k \in 1 .. n
    BY LenProperties DEF ServerTypeOK
<1>2. /\ DOMAIN rest = 1 .. n - 1
      /\ \A l \in 1 .. n - 1 : rest[l] = IF l < k THEN group[l] ELSE group[l + 1]
    BY <1>1 DEF Without
<1> HIDE DEF rest, n
<1>3. Elements(rest) \subseteq Elements(group) \ {group[k]}
    <2> SUFFICES ASSUME NEW l \in 1 .. n - 1
                 PROVE  rest[l] \in Elements(group) \ {group[k]}
        BY <1>2 DEF Elements
    <2>1. PICK m \in {l, l + 1} : m \in 1 .. n /\ m # k /\ rest[l] = group[m]
        BY <1>1, <1>2
    <2>2. QED
        BY <1>1, <2>1 DEF Elements, Distinct
<1>4. Elements(group) \ {group[k]} \subseteq Elements(rest)
    <2> SUFFICES ASSUME NEW l \in 1 .. n, l # k
                 PROVE  group[l] \in Elements(rest)
        BY <1>1 DEF Elements
    <2>1. PICK m \in {l, l - 1} : m \in 1 .. n - 1 /\ rest[m] = group[l]
        BY <1>1, <1>2
    <2>2. QED
        BY <1>2, <2>1 DEF Elements
<1>5. Distinct(rest)
    <2> SUFFICES ASSUME NEW i \in 1 .. n - 1, NEW j \in 1 .. n - 1, rest[i] = rest[j]
                 PROVE  i = j
        BY <1>2 DEF Distinct
    <2> DEFINE at(l) == IF l < k THEN l ELSE l + 1
    <2>1. at(i) \in 1 .. n /\ at(j) \in 1 .. n
        BY <1>1
    <2>2. rest[i] = group[at(i)] /\ rest[j] = group[at(j)]
        BY <1>2
    <2>3. at(i) = at(j)
        BY <1>1, <2>1, <2>2 DEF Distinct
    <2>4. QED
        BY <1>1, <2>3
<1>6. QED
    BY <1>3, <1>4, <1>5 DEF rest

\* NoneTwice, in terms of the two queues.
LEMMA OnceLemma ==
    /\ Sockets = Elements(group)
    /\ \A c : InBacklog(c) <=> c \in Elements(backlog)
    /\ NoneTwice <=> /\ Distinct(group) /\ Distinct(backlog)
                           /\ \A c \in Elements(backlog) : c \notin Elements(group)
BY DEF Sockets, Elements, Distinct, InBacklog, NoneTwice

-----------------------------------------------------------------------------
(* What a step leaves alone. *)

\* The connections of two teams are not the same.
LEMMA ConnOther ==
    ASSUME NEW t \in Teams, NEW u \in Teams, t # u
    PROVE  conn(t) # conn(u)
BY DEF conn

\* A call stays where it is if its process and its connection do.
LEMMA CallKept ==
    ASSUME NEW t \in Teams, CallOK(t),
           step'[t] = step[t], pos'[t] = pos[t], session'[t] = session[t],
           InCall(t) => /\ toServer'[conn(t)] = toServer[conn(t)]
                        /\ toClient'[conn(t)] = toClient[conn(t)],
           Broken => Broken'
    PROVE  CallOK(t)'
<1>1. conn(t)' = conn(t) /\ call(t)' = call(t) /\ request(t)' = request(t)
    BY DEF conn, call, request
<1>2. CASE InCall(t)
    <2>1. /\ RequestWaits(t) => RequestWaits(t)'
          /\ AnswerWaits(t) => AnswerWaits(t)'
          /\ NotSent(t) => NotSent(t)'
          /\ Lost(t) => Lost(t)'
        BY <1>1, <1>2 DEF RequestWaits, AnswerWaits, NotSent, Lost, Asks, StrayFrom
    <2>2. QED
        BY <1>1, <1>2, <2>1 DEF CallOK
<1>3. CASE ~InCall(t)
    BY <1>3 DEF CallOK, InCall
<1>4. QED
    BY <1>2, <1>3

\* A step of one process leaves the calls of the others where they are.
LEMMA OthersKept ==
    ASSUME NEW t \in Teams, NEW u \in Teams \ {t}, CallOK(u),
           step'[u] = step[u], pos'[u] = pos[u], session'[u] = session[u],
           \A c \in Conn : c[1] # t =>
                toServer'[c] = toServer[c] /\ toClient'[c] = toClient[c],
           TeamTypeOK, CallsOK, UNCHANGED serverVars
    PROVE  CallOK(u)'
<1>1. conn(u)[1] = u
    BY DEF conn
<1>2. InCall(u) => conn(u) \in Conn
    BY connLemma
<1>3. Broken => Broken'
    BY DEF Broken, serverVars
<1>4. QED
    BY <1>1, <1>2, <1>3, CallKept

\* A server that stays as it is keeps its sockets.
LEMMA SocketsUnchanged ==
    ASSUME UNCHANGED serverVars
    PROVE  Sockets' = Sockets /\ (Broken <=> Broken')
BY DEF serverVars, Sockets, Broken

-----------------------------------------------------------------------------
(* The initial state. *)

\* Before anything has happened there are no connections and no calls.
LEMMA InitPInv == Init => PInv
<1> SUFFICES ASSUME Init PROVE PInv
    OBVIOUS
<1> USE DEF Init, NetInit, ServerInit, TeamInit
<1>1. LifeOK
    BY DEF LifeOK
<1>2. NoneTwice /\ ReadyOK
    BY DEF NoneTwice, ReadyOK
<1>3. FreshOK
    BY DEF FreshOK, InBacklog, Sockets
<1>4. PlacedOK
    BY DEF PlacedOK, InCall
<1>5. StrayOK
    BY DEF StrayOK
<1>6. \A t \in Teams : CallOK(t)
    BY DEF CallOK
<1>7. QED
    BY <1>1, <1>2, <1>3, <1>4, <1>5, <1>6 DEF PInv

-----------------------------------------------------------------------------
(* The steps of the server. *)

\* A step of the server that reads nothing leaves the calls where they are.
LEMMA CallsKept ==
    ASSUME \A t \in Teams : CallOK(t), UNCHANGED teamVars, UNCHANGED <<toServer, toClient>>,
           Broken => Broken'
    PROVE  \A t \in Teams : CallOK(t)'
<1> TAKE t \in Teams
<1>1. QED
    BY CallKept DEF teamVars

\* Opening the listening socket keeps the invariant: nobody has connected before.
LEMMA StartPInv ==
    ASSUME IInv, PInv, Start, UNCHANGED teamVars
    PROVE  PInv'
<1> USE DEF PInv
<1>1. /\ ~running /\ running' /\ is_listening' /\ group' = <<ServerSocket>>
      /\ UNCHANGED <<ready, netVars, teamVars>>
    BY DEF Start
<1>2. Sockets' = {ServerSocket}
    BY <1>1 DEF Sockets
<1>3. \A t \in Teams : session[t] = 0
    BY <1>1 DEF LifeOK
<1>4. LifeOK'
    BY <1>1 DEF LifeOK
<1>5. NoneTwice'
    <2>1. \A k \in DOMAIN backlog : backlog[k] # ServerSocket
        BY LenProperties, ServerSocketAssumption DEF IInv, TypeOK, NetTypeOK
    <2>2. QED
        BY <1>1, <1>2, <2>1 DEF NoneTwice, netVars
<1>6. ReadyOK' /\ StrayOK'
    BY <1>1 DEF ReadyOK, StrayOK, netVars
<1>7. FreshOK'
    BY <1>1, <1>2, ServerSocketAssumption DEF FreshOK, Fresh, InBacklog, netVars, teamVars
<1>8. PlacedOK'
    BY <1>1, <1>3 DEF PlacedOK, InCall, teamVars, IInv, CallsOK
<1>9. \A t \in Teams : CallOK(t)'
    BY <1>1, CallsKept DEF netVars, Broken
<1>10. QED
    BY <1>4, <1>5, <1>6, <1>7, <1>8, <1>9

\* select() keeps the invariant: it marks what has something to launch.
LEMMA SelectPInv ==
    ASSUME IInv, PInv, Select, UNCHANGED teamVars
    PROVE  PInv'
<1> USE DEF PInv
<1>1. /\ ready' = { s \in Sockets : Readable(s) }
      /\ UNCHANGED <<running, is_listening, group, netVars, teamVars>>
    BY DEF Select
<1>2. LifeOK' /\ NoneTwice' /\ StrayOK'
    BY <1>1 DEF LifeOK, NoneTwice, StrayOK, Sockets, netVars, teamVars
<1>3. ReadyOK'
    BY <1>1, ServerSocketAssumption DEF ReadyOK, Readable, netVars
<1>4. FreshOK' /\ PlacedOK'
    BY <1>1 DEF FreshOK, Fresh, PlacedOK, InCall, conn, InBacklog, Sockets, netVars, teamVars
<1>5. \A t \in Teams : CallOK(t)'
    BY <1>1, CallsKept DEF netVars, Broken
<1>6. QED
    BY <1>2, <1>3, <1>4, <1>5

\* Accepting moves a connection from the backlog to the group.
LEMMA OnAcceptPInv ==
    ASSUME IInv, PInv, OnAccept, UNCHANGED teamVars
    PROVE  PInv'
<1> USE DEF PInv
<1>1. PICK k \in Due : /\ group[k] = ServerSocket
                       /\ Launch(k)
                       /\ ready'   = ready \ {group[k]}
                       /\ group'   = Append(group, Head(backlog))
                       /\ backlog' = Tail(backlog)
                       /\ UNCHANGED <<is_listening, toServer, toClient, closed>>
    BY DEF OnAccept, accept
<1> DEFINE c == Head(backlog)
<1>2. backlog # <<>> /\ backlog \in Seq(Conn) /\ c \in Conn
    BY <1>1, HeadTailProperties DEF Due, IInv, AcceptsOK, TypeOK, NetTypeOK
<1>3. group \in Seq(Conn \cup {ServerSocket})
    BY DEF IInv, TypeOK, ServerTypeOK
<1> HIDE DEF c
<1>4. /\ c \in Elements(backlog) /\ c \notin Elements(group)
      /\ Elements(backlog') = Elements(backlog) \ {c} /\ Distinct(backlog')
    BY <1>1, <1>2, TailElements, OnceLemma DEF c
<1>5. Elements(group') = Elements(group) \cup {c} /\ Distinct(group')
    BY <1>1, <1>2, <1>3, <1>4, AppendElements, OnceLemma DEF c
<1>6. Sockets' = Elements(group') /\ \A d : InBacklog(d)' <=> d \in Elements(backlog')
    BY DEF Sockets, InBacklog, Elements
<1>7. NoneTwice'
    <2>1. \A d \in Elements(backlog') : d \notin Elements(group')
        BY <1>4, <1>5, OnceLemma
    <2>2. QED
        BY <1>4, <1>5, <2>1 DEF NoneTwice, Sockets, Elements, Distinct
<1>8. LifeOK' /\ running
    BY <1>1 DEF LifeOK, Launch, teamVars
<1>9. ReadyOK' /\ StrayOK'
    BY <1>1 DEF ReadyOK, StrayOK
<1>10. FreshOK' /\ PlacedOK'
    BY <1>1, <1>4, <1>5, <1>6, OnceLemma DEF FreshOK, Fresh, PlacedOK, InCall, conn, teamVars
<1>11. \A t \in Teams : CallOK(t)'
    BY <1>1, CallsKept DEF Broken, Launch
<1>12. QED
    BY <1>7, <1>8, <1>9, <1>10, <1>11

\* Letting a client go takes out of the group a connection that is closed: what the
\* pass selects has a message or is closed, and this one has no message.
LEMMA OnDisconnectPInv ==
    ASSUME IInv, PInv, OnDisconnect, UNCHANGED teamVars
    PROVE  PInv'
<1> USE DEF PInv
<1>1. PICK k \in Due :
            /\ group[k] # ServerSocket /\ toServer[group[k]] = <<>>
            /\ Launch(k)
            /\ ready' = ready \ { group[l] : l \in {k, k + 1} \cap DOMAIN group }
            /\ group' = Without(k)
            /\ UNCHANGED <<is_listening, netVars>>
    BY DEF OnDisconnect
<1> DEFINE c == group[k]
<1>2. ServerTypeOK /\ k \in DOMAIN group /\ c \in ready
    BY DEF IInv, TypeOK, Due
<1>3. c \in Conn /\ c \in closed
    <2>1. c \in Conn \cup {ServerSocket}
        BY <1>2, LenProperties DEF ServerTypeOK
    <2>2. QED
        BY <1>1, <1>2, <2>1 DEF ReadyOK
<1> HIDE DEF c
<1>4. Elements(group') = Elements(group) \ {c} /\ Distinct(group')
    BY <1>1, <1>2, WithoutElements, OnceLemma DEF c
<1>5. Sockets' = Elements(group')
    BY DEF Sockets, Elements
<1>6. NoneTwice'
    BY <1>1, <1>4, OnceLemma DEF NoneTwice, Sockets, Elements, Distinct, netVars
<1>7. LifeOK'
    <2>1. running
        BY <1>1 DEF LifeOK, Launch
    <2>2. QED
        BY <1>1, <2>1 DEF LifeOK, Launch
<1>8. ReadyOK' /\ StrayOK'
    BY <1>1 DEF ReadyOK, StrayOK, netVars
<1>9. FreshOK'
    BY <1>1, <1>4, <1>5, OnceLemma DEF FreshOK, Fresh, InBacklog, netVars, teamVars
<1>10. PlacedOK'
    BY <1>1, <1>3, <1>4, <1>5, OnceLemma DEF PlacedOK, InCall, conn, InBacklog, netVars, teamVars
<1>11. \A t \in Teams : CallOK(t)'
    BY <1>1, CallsKept DEF Broken, Launch, netVars
<1>12. QED
    BY <1>6, <1>7, <1>8, <1>9, <1>10, <1>11

\* A read takes the head of one queue and shifts the rest.
LEMMA ReadTakes ==
    ASSUME IInv, PInv, NEW k \in Due, Read(k)
    PROVE  /\ group[k] \in Conn /\ toServer[group[k]] # <<>>
           /\ is_listening /\ running /\ running'
           /\ 1 \in DOMAIN toServer[group[k]]
           /\ Head(toServer[group[k]]) = toServer[group[k]][1]
           /\ Head(toServer[group[k]]) \in Message
           /\ \A i \in DOMAIN toServer'[group[k]] :
                /\ i \in Nat /\ i >= 1 /\ i + 1 \in DOMAIN toServer[group[k]]
                /\ toServer'[group[k]][i] = toServer[group[k]][i + 1]
           /\ \A c \in Conn \ {group[k]} : toServer'[c] = toServer[c]
           /\ ready' = ready \ {group[k]}
           /\ UNCHANGED <<group, backlog, closed>>
<1> DEFINE c == group[k]
           q == toServer[c]
<1>1. /\ c \in Conn /\ Head(q) \in Message /\ UNCHANGED <<running, group, backlog, closed>>
    BY ReadLemma DEF IInv, TypeOK
<1>2. /\ q # <<>> /\ is_listening
      /\ toServer' = [toServer EXCEPT ![c] = Tail(q)]
      /\ ready' = ready \ {c}
    BY DEF Read, Launch
<1>3. toServer \in [Conn -> Seq(Message)] /\ q \in Seq(Message)
    BY <1>1 DEF IInv, TypeOK, NetTypeOK
<1>4. toServer'[c] = Tail(q) /\ \A d \in Conn \ {c} : toServer'[d] = toServer[d]
    BY <1>1, <1>2, <1>3
<1> HIDE DEF q
<1>5. /\ Len(q) \in Nat \ {0} /\ DOMAIN q = 1 .. Len(q)
      /\ DOMAIN Tail(q) = 1 .. Len(q) - 1
      /\ \A i \in 1 .. Len(q) - 1 : Tail(q)[i] = q[i + 1]
      /\ Head(q) = q[1]
    BY <1>2, <1>3, LenProperties, EmptySeq, HeadTailProperties
<1>6. \A i \in 1 .. Len(q) - 1 : i \in Nat /\ i >= 1 /\ i + 1 \in 1 .. Len(q)
    BY <1>5
<1>7. running
    BY <1>2 DEF PInv, LifeOK
<1>8. 1 \in 1 .. Len(q)
    BY <1>5
<1>9. QED
    BY <1>1, <1>2, <1>4, <1>5, <1>6, <1>7, <1>8 DEF q

\* A read keeps what is said of the places of connections and of what is unread.
LEMMA ReadPlaces ==
    ASSUME IInv, PInv, NEW k \in Due, Read(k), UNCHANGED teamVars,
           \A d \in Conn \ {group[k]} : toClient'[d] = toClient[d]
    PROVE  NoneTwice' /\ ReadyOK' /\ FreshOK' /\ PlacedOK' /\ StrayOK'
<1> USE DEF PInv
<1> DEFINE c == group[k]
<1>1. /\ c \in Conn /\ toServer[c] # <<>>
      /\ \A i \in DOMAIN toServer'[c] :
            /\ i + 1 \in DOMAIN toServer[c]
            /\ toServer'[c][i] = toServer[c][i + 1]
      /\ \A d \in Conn \ {c} : toServer'[d] = toServer[d]
      /\ ready' = ready \ {c}
      /\ UNCHANGED <<group, backlog, closed>>
    BY ReadTakes
<1> HIDE DEF c
<1>2. NoneTwice'
    BY <1>1 DEF NoneTwice, Sockets
<1>3. ReadyOK'
    BY <1>1 DEF ReadyOK
<1>4. FreshOK'
    BY <1>1 DEF FreshOK, Fresh, InBacklog, Sockets, teamVars, c
<1>5. PlacedOK'
    BY <1>1 DEF PlacedOK, InCall, conn, InBacklog, Sockets, teamVars
<1>6. StrayOK'
    <2> SUFFICES ASSUME NEW d \in Conn, NEW i \in DOMAIN toServer'[d],
                        toServer'[d][i].verb = "INVALID"
                 PROVE  SomeOverrun
        BY DEF StrayOK, SomeOverrun
    <2>1. CASE d = c
        BY <1>1, <2>1 DEF StrayOK
    <2>2. CASE d # c
        BY <1>1, <2>2 DEF StrayOK
    <2>3. QED
        BY <2>1, <2>2
<1>7. QED
    BY <1>2, <1>3, <1>4, <1>5, <1>6

\* Every handler sends one answer, and it is one the request can get.
LEMMA handlerAnswers ==
    ASSUME NEW m \in Message, NEW c \in Conn, messageHandler(m, c)
    PROVE  /\ m.verb # "INVALID"
           /\ \E kind, body : kind \in Answers[m.verb] /\ answer(c, kind, body)
<1>1. /\ Answers["REQUEST TIMETABLE"] = {"TIMETABLE"}
      /\ Answers["REGISTER TEAM"] = {"TEAM REGISTERED", "TEAM ALREADY REGISTERED"}
      /\ Answers["DEREGISTER TEAM"] = {"TEAM DEREGISTERED", "NO SUCH TEAM"}
      /\ Answers["REGISTER TARAKAN"] = {"TARAKAN REGISTERED", "TRACK BUSY"}
    BY DEF Answers, Verbs
<1>2. CASE m.verb = "REQUEST TIMETABLE" /\ handleTimetableRequest(c)
    BY <1>1, <1>2 DEF handleTimetableRequest
<1>3. CASE m.verb = "REGISTER TEAM" /\ handleTeamRegistration(m, c)
    BY <1>1, <1>3 DEF handleTeamRegistration
<1>4. CASE m.verb = "DEREGISTER TEAM" /\ handleTeamDeregistration(m, c)
    BY <1>1, <1>4 DEF handleTeamDeregistration
<1>5. CASE m.verb = "REGISTER TARAKAN" /\ handleTarakanRegistration(m, c)
    BY <1>1, <1>5 DEF handleTarakanRegistration
<1>6. QED
    BY <1>2, <1>3, <1>4, <1>5 DEF messageHandler

\* What a handler gets to read is the request of the call, if the connection is the
\* one of a call: what is unread behind an answer cannot be read, and once the
\* listener has ended nothing is.
LEMMA ReadsRequest ==
    ASSUME IInv, PInv, NEW k \in Due, Read(k), Head(toServer[group[k]]).verb # "INVALID",
           NEW t \in Teams, conn(t) = group[k], step[t] = "waiting"
    PROVE  RequestWaits(t)
<1>1. /\ toServer[conn(t)] # <<>> /\ is_listening /\ 1 \in DOMAIN toServer[conn(t)]
      /\ toServer[conn(t)][1].verb # "INVALID"
    BY ReadTakes
<1>2. ~AnswerWaits(t)
    BY <1>1 DEF AnswerWaits, StrayFrom
<1>3. ~NotSent(t) /\ ~Lost(t)
    BY <1>1 DEF NotSent, Lost, Broken
<1>4. QED
    BY <1>2, <1>3 DEF PInv, CallOK

\* Answering a request keeps the invariant: the team that asked gets the one answer
\* to its request, and nothing else it sent can be read.
LEMMA OnReadPInv ==
    ASSUME IInv, PInv, OnRead, UNCHANGED teamVars
    PROVE  PInv'
<1> USE DEF PInv
<1>1. PICK k \in Due : /\ Read(k)
                       /\ messageHandler(Head(toServer[group[k]]), group[k])
                       /\ UNCHANGED is_listening
    BY DEF OnRead
<1> DEFINE c == group[k]
           m == Head(toServer[c])
<1>2. /\ c \in Conn /\ m \in Message /\ is_listening /\ running /\ running'
      /\ 1 \in DOMAIN toServer[c] /\ m = toServer[c][1] /\ toServer[c] # <<>>
      /\ \A i \in DOMAIN toServer'[c] :
            /\ i \in Nat /\ i >= 1 /\ i + 1 \in DOMAIN toServer[c]
            /\ toServer'[c][i] = toServer[c][i + 1]
      /\ \A d \in Conn \ {c} : toServer'[d] = toServer[d]
    BY <1>1, ReadTakes
<1>3. PICK kind, body : kind \in Answers[m.verb] /\ answer(c, kind, body)
    BY <1>1, <1>2, handlerAnswers
<1>4. /\ toClient'[c] = Append(toClient[c], [kind |-> kind, body |-> body])
      /\ \A d \in Conn \ {c} : toClient'[d] = toClient[d]
    BY <1>2, <1>3 DEF answer, IInv, TypeOK, NetTypeOK
<1>5. m.verb # "INVALID"
    BY <1>1, <1>2, handlerAnswers
<1> HIDE DEF c, m
<1>6. NoneTwice' /\ ReadyOK' /\ FreshOK' /\ PlacedOK' /\ StrayOK'
    BY <1>1, <1>4, ReadPlaces DEF c
<1>7. LifeOK'
    BY <1>1, <1>2 DEF LifeOK
<1>8. ASSUME NEW t \in Teams
      PROVE  CallOK(t)'
    <2>1. CASE InCall(t) /\ conn(t) = c
        <3>1. UNCHANGED <<conn(t), call(t), request(t), step>>
            BY DEF conn, call, request, teamVars
        <3>2. step[t] = "waiting" => RequestWaits(t)
            BY <1>1, <1>5, <2>1, ReadsRequest DEF c, m
        <3>3. step[t] # "connected"
            BY <1>2, <2>1 DEF CallOK
        <3>4. ASSUME step[t] = "waiting"
              PROVE  AnswerWaits(t)'
            <4>1. m.verb = request(t).verb /\ toClient[c] = <<>> /\ StrayFrom(2, toServer[c])
                BY <1>5, <2>1, <3>2, <3>4 DEF RequestWaits, Asks, m
            <4>2. /\ Len(toClient'[c]) = 1
                  /\ Head(toClient'[c]).kind = kind
                BY <1>4, <4>1
            <4>3. StrayFrom(1, toServer'[c])
                BY <1>2, <4>1 DEF StrayFrom
            <4>4. QED
                BY <1>3, <2>1, <3>1, <4>1, <4>2, <4>3 DEF AnswerWaits
        <3>5. QED
            BY <3>1, <3>3, <3>4 DEF CallOK
    <2>2. CASE ~(InCall(t) /\ conn(t) = c)
        <3>1. InCall(t) => conn(t) \in Conn
            BY connLemma DEF IInv, TypeOK
        <3>2. QED
            BY <1>2, <1>4, <2>2, <3>1, CallKept DEF teamVars, Broken
    <2>3. QED
        BY <2>1, <2>2
<1>9. QED
    BY <1>6, <1>7, <1>8

\* A message no handler takes ends the listener, which only a call that is longer
\* than a read can do.
LEMMA OnReadThrowsPInv ==
    ASSUME IInv, PInv, OnReadThrows, UNCHANGED teamVars
    PROVE  PInv'
<1> USE DEF PInv
<1>1. PICK k \in Due : /\ Read(k)
                       /\ Head(toServer[group[k]]).verb = "INVALID"
                       /\ is_listening' = FALSE
                       /\ UNCHANGED toClient
    BY DEF OnReadThrows
<1> DEFINE c == group[k]
<1>2. /\ c \in Conn /\ is_listening /\ running /\ running'
      /\ 1 \in DOMAIN toServer[c] /\ toServer[c][1].verb = "INVALID" /\ toServer[c] # <<>>
      /\ \A i \in DOMAIN toServer'[c] :
            /\ i \in Nat /\ i >= 1 /\ i + 1 \in DOMAIN toServer[c]
            /\ toServer'[c][i] = toServer[c][i + 1]
      /\ \A d \in Conn \ {c} : toServer'[d] = toServer[d]
    BY <1>1, ReadTakes
<1> HIDE DEF c
<1>3. SomeOverrun
    BY <1>2 DEF StrayOK
<1>4. Broken' /\ ~Broken
    BY <1>1, <1>2, <1>3 DEF Broken, SomeOverrun
<1>5. NoneTwice' /\ ReadyOK' /\ FreshOK' /\ PlacedOK' /\ StrayOK'
    BY <1>1, ReadPlaces DEF c
<1>6. LifeOK'
    BY <1>1, <1>2, <1>3 DEF LifeOK, SomeOverrun
<1>7. ASSUME NEW t \in Teams
      PROVE  CallOK(t)'
    <2>1. CASE InCall(t) /\ conn(t) = c
        <3>1. UNCHANGED <<conn(t), call(t), request(t), step>>
            BY DEF conn, call, request, teamVars
        <3>2. step[t] # "connected" /\ ~NotSent(t) /\ ~Lost(t)
            BY <1>2, <1>4, <2>1 DEF CallOK, NotSent, Lost
        <3>3. RequestWaits(t) => Lost(t)'
            BY <1>1, <1>4, <3>1 DEF RequestWaits, Lost
        <3>4. AnswerWaits(t) => AnswerWaits(t)'
            <4>1. StrayFrom(1, toServer[c]) => StrayFrom(1, toServer'[c])
                BY <1>2 DEF StrayFrom
            <4>2. QED
                BY <1>1, <2>1, <3>1, <4>1 DEF AnswerWaits
        <3>5. QED
            BY <3>1, <3>2, <3>3, <3>4 DEF CallOK
    <2>2. CASE ~(InCall(t) /\ conn(t) = c)
        <3>1. InCall(t) => conn(t) \in Conn
            BY connLemma DEF IInv, TypeOK
        <3>2. QED
            BY <1>1, <1>2, <1>4, <2>2, <3>1, CallKept DEF teamVars
    <2>3. QED
        BY <2>1, <2>2
<1>8. QED
    BY <1>5, <1>6, <1>7

-----------------------------------------------------------------------------
(* The steps of a team. *)

\* What a call sends: nothing when the client refuses it, otherwise a message that
\* asks what the call asks, and after it only what cannot be read.
LEMMA WireShape ==
    ASSUME NEW t \in Teams, pos[t] \in DOMAIN Script[t], NEW messages \in Wire(call(t))
    PROVE  /\ messages = <<>> => call(t).size = "refused"
           /\ messages # <<>> => Asks(t, Head(messages)) /\ StrayFrom(2, messages)
           /\ \A k \in DOMAIN messages : messages[k].verb = "INVALID" => SomeOverrun
<1> DEFINE m == request(t)
           s == Stray(m)
<1>1. call(t) \in Call /\ m \in Message /\ m.verb \in Verbs
    BY CallLemma
<1>2. call(t).request = m
    BY DEF request
<1>3. "INVALID" \notin Verbs
    BY DEF Verbs
<1>4. /\ s.verb = "INVALID" /\ s.name = m.name /\ s.track = m.track /\ s.time = m.time
    BY <1>1 DEF Stray, Message
<1>5. \A u \in Times : LET n == [m EXCEPT !.time = u]
                       IN  n.verb = m.verb /\ n.name = m.name /\ n.track = m.track
    BY <1>1 DEF Message
<1>6. call(t).size \in {"whole", "stray", "cut", "refused"}
    BY <1>1 DEF Call, Sizes
<1>7. call(t).size \in {"stray", "cut"} => SomeOverrun
    BY DEF SomeOverrun, call
<1> HIDE DEF m, s
<1>8. CASE call(t).size = "whole"
    <2>1. messages = <<m>>
        BY <1>2, <1>8 DEF Wire
    <2>2. Asks(t, m)
        BY DEF Asks, m
    <2>3. QED
        BY <1>1, <1>3, <2>1, <2>2 DEF StrayFrom
<1>9. CASE call(t).size = "stray"
    <2>1. messages = <<m, s>>
        BY <1>2, <1>9 DEF Wire, s
    <2>2. Asks(t, m)
        BY DEF Asks, m
    <2>3. QED
        BY <1>4, <1>7, <1>9, <2>1, <2>2 DEF StrayFrom
<1>10. CASE call(t).size = "cut"
    <2>1. \/ /\ m.verb = "REGISTER TARAKAN"
             /\ \E u \in Times : messages = <<[m EXCEPT !.time = u], s>>
          \/ messages = <<s, s>>
        BY <1>2, <1>10 DEF Wire, s
    <2>2. PICK n : messages = <<n, s>> /\ Asks(t, n)
        <3>1. CASE messages = <<s, s>>
            BY <1>4, <1>10, <3>1 DEF Asks, m
        <3>2. ASSUME NEW u \in Times, messages = <<[m EXCEPT !.time = u], s>>,
                     m.verb = "REGISTER TARAKAN"
              PROVE  \E n : messages = <<n, s>> /\ Asks(t, n)
            <4>1. Asks(t, [m EXCEPT !.time = u])
                BY <1>5, <1>10, <3>2 DEF Asks, m
            <4>2. QED
                BY <3>2, <4>1
        <3>3. QED
            BY <2>1, <3>1, <3>2
    <2>3. QED
        BY <1>4, <1>7, <1>10, <2>2 DEF StrayFrom
<1>11. CASE call(t).size = "refused"
    BY <1>11 DEF Wire
<1>12. QED
    BY <1>6, <1>8, <1>9, <1>10, <1>11

\* A step of a process that leaves the server and what was sent to it alone, and
\* closes at most the connection it leaves, keeps what is said of the places.
LEMMA TeamPlaces ==
    ASSUME IInv, PInv, NEW t \in Teams, UNCHANGED serverVars,
           UNCHANGED <<session, backlog, toServer>>,
           \A u \in Teams \ {t} : step'[u] = step[u],
           InCall(t)' => InCall(t) /\ closed' = closed,
           \/ closed' = closed
           \/ closed' = closed \cup {conn(t)} /\ InCall(t),
           \A c \in Conn : c # conn(t) => toClient'[c] = toClient[c],
           ~InCall(t) => toClient' = toClient
    PROVE  LifeOK' /\ NoneTwice' /\ ReadyOK' /\ FreshOK' /\ PlacedOK' /\ StrayOK'
<1> USE DEF PInv
<1>1. Sockets' = Sockets /\ UNCHANGED <<running, is_listening, group, ready>>
    BY SocketsUnchanged DEF serverVars
<1>2. LifeOK' /\ NoneTwice' /\ StrayOK'
    BY <1>1 DEF LifeOK, NoneTwice, StrayOK, SomeOverrun
<1>3. ReadyOK'
    BY <1>1 DEF ReadyOK
<1>4. InCall(t) => ~Fresh(conn(t)) /\ conn(t) \in Conn
    BY connLemma DEF conn, Fresh, IInv, TypeOK, TeamTypeOK
<1>5. FreshOK'
    <2> SUFFICES ASSUME NEW c \in Conn, Fresh(c)
                 PROVE  /\ c \notin closed' /\ ~InBacklog(c)' /\ c \notin Sockets'
                        /\ toServer'[c] = <<>> /\ toClient'[c] = <<>>
        BY DEF FreshOK, Fresh
    <2>1. c \notin closed'
        BY <1>4 DEF FreshOK
    <2>2. ~InBacklog(c)' /\ c \notin Sockets' /\ toServer'[c] = <<>>
        BY <1>1 DEF FreshOK, InBacklog
    <2>3. toClient'[c] = toClient[c]
        BY <1>4
    <2>4. toClient'[c] = <<>>
        BY <2>3 DEF FreshOK
    <2>5. QED
        BY <2>1, <2>2, <2>4
<1>6. PlacedOK'
    <2> SUFFICES ASSUME NEW u \in Teams, InCall(u)'
                 PROVE  conn(u) \notin closed' /\ (InBacklog(conn(u)) \/ conn(u) \in Sockets)
        BY <1>1 DEF PlacedOK, InBacklog, conn
    <2>1. InCall(u) /\ (u = t => closed' = closed)
        BY DEF InCall
    <2>2. u # t => conn(u) # conn(t)
        BY ConnOther
    <2>3. QED
        BY <2>1, <2>2 DEF PlacedOK
<1>7. QED
    BY <1>2, <1>3, <1>5, <1>6

\* Connecting keeps the invariant: the connection is new, so it is nowhere yet.
LEMMA connectPInv ==
    ASSUME IInv, PInv, NEW t \in Teams, Open, connect(t), UNCHANGED serverVars
    PROVE  PInv'
<1> USE DEF PInv
<1> DEFINE c == <<t, session[t] + 1>>
<1>1. /\ step' = [step EXCEPT ![t] = "connected"]
      /\ session' = [session EXCEPT ![t] = @ + 1]
      /\ backlog' = Append(backlog, c)
      /\ UNCHANGED <<pos, toServer, toClient, closed>>
    BY DEF connect, Goto
<1>2. /\ step \in [Teams -> Steps] /\ session \in [Teams -> 0 .. MaxSessions]
      /\ backlog \in Seq(Conn)
    BY DEF IInv, TypeOK, NetTypeOK, TeamTypeOK
<1>3. /\ step'[t] = "connected" /\ session'[t] = session[t] + 1
      /\ \A u \in Teams \ {t} : step'[u] = step[u] /\ session'[u] = session[u]
    BY <1>1, <1>2
<1>4. c \in Conn /\ session[t] \in Nat
    BY <1>2, MaxSessionsAssumption DEF Conn, connect
<1>5. conn(t)' = c /\ Fresh(c)
    BY <1>3, <1>4 DEF conn, Fresh
<1> HIDE DEF c
<1>6. /\ c \notin closed /\ ~InBacklog(c) /\ c \notin Sockets
      /\ toServer[c] = <<>> /\ toClient[c] = <<>>
    BY <1>4, <1>5 DEF FreshOK
<1>7. Elements(backlog') = Elements(backlog) \cup {c} /\ Distinct(backlog')
    BY <1>1, <1>2, <1>4, <1>6, AppendElements, OnceLemma
<1>8. /\ Sockets' = Sockets /\ (Broken <=> Broken') /\ Sockets = Elements(group)
      /\ UNCHANGED <<running, is_listening, group, ready>>
      /\ \A d : InBacklog(d)' <=> d \in Elements(backlog')
    BY SocketsUnchanged, OnceLemma DEF serverVars, InBacklog, Elements
<1>9. NoneTwice'
    <2>1. Distinct(group) /\ \A d \in Elements(backlog') : d \notin Elements(group)
        BY <1>6, <1>7, <1>8, OnceLemma
    <2>2. QED
        BY <1>7, <1>8, <2>1 DEF NoneTwice, Distinct, Elements, Sockets
<1>10. LifeOK'
    <2>1. running
        BY DEF LifeOK, Open, Sockets
    <2>2. QED
        BY <1>8, <2>1 DEF LifeOK, SomeOverrun
<1>11. ReadyOK' /\ StrayOK'
    BY <1>1, <1>8 DEF ReadyOK, StrayOK, SomeOverrun
<1>12. FreshOK'
    <2> SUFFICES ASSUME NEW d \in Conn, Fresh(d)'
                 PROVE  /\ d \notin closed' /\ ~InBacklog(d)' /\ d \notin Sockets'
                        /\ toServer'[d] = <<>> /\ toClient'[d] = <<>>
        BY DEF FreshOK
    <2>1. d[1] \in Teams /\ d[2] \in Nat
        BY MaxSessionsAssumption DEF Conn
    <2>2. Fresh(d) /\ d # c
        BY <1>2, <1>3, <1>4, <2>1, MaxSessionsAssumption DEF Fresh, c
    <2>3. QED
        BY <1>1, <1>7, <1>8, <2>2, OnceLemma DEF FreshOK
<1>13. PlacedOK'
    <2> SUFFICES ASSUME NEW u \in Teams, InCall(u)'
                 PROVE  conn(u)' \notin closed' /\ (InBacklog(conn(u))' \/ conn(u)' \in Sockets')
        BY DEF PlacedOK
    <2>1. CASE u = t
        BY <1>1, <1>5, <1>6, <1>7, <1>8, <2>1 DEF InBacklog, Elements
    <2>2. CASE u # t
        <3>1. InCall(u) /\ conn(u)' = conn(u)
            BY <1>3, <2>2 DEF InCall, conn
        <3>2. conn(u) \notin closed /\ (conn(u) \in Elements(backlog) \/ conn(u) \in Sockets)
            BY <3>1, OnceLemma DEF PlacedOK
        <3>3. QED
            BY <1>1, <1>7, <1>8, <3>1, <3>2 DEF InBacklog, Elements
    <2>3. QED
        BY <2>1, <2>2
<1>14. ASSUME NEW u \in Teams PROVE CallOK(u)'
    <2>1. CASE u = t
        BY <1>1, <1>3, <1>5, <1>6, <2>1 DEF CallOK
    <2>2. CASE u # t
        BY <1>1, <1>3, <2>2, OthersKept DEF IInv, TypeOK
    <2>3. QED
        BY <2>1, <2>2
<1>15. QED
    BY <1>9, <1>10, <1>11, <1>12, <1>13, <1>14

\* Sending a request keeps the invariant: the connection was empty.
LEMMA sendMessagePInv ==
    ASSUME IInv, PInv, NEW t \in Teams, sendMessage(t), UNCHANGED serverVars
    PROVE  PInv'
<1> USE DEF PInv
<1> DEFINE c == conn(t)
<1>1. PICK messages \in Wire(call(t)) :
        /\ toServer' = [toServer EXCEPT ![c] = @ \o messages]
        /\ step[t] = "connected" /\ step' = [step EXCEPT ![t] = "waiting"]
        /\ UNCHANGED <<pos, session, backlog, toClient, closed>>
    BY DEF sendMessage, Goto
<1>2. c \in Conn /\ pos[t] \in DOMAIN Script[t] /\ session[t] # 0
    BY <1>1, connLemma DEF InCall, CallsOK, IInv, TypeOK
<1>3. /\ step \in [Teams -> Steps] /\ session \in [Teams -> 0 .. MaxSessions]
      /\ toServer \in [Conn -> Seq(Message)]
    BY DEF IInv, TypeOK, NetTypeOK, TeamTypeOK
<1>4. toServer[c] = <<>> /\ toClient[c] = <<>>
    BY <1>1 DEF CallOK
<1>5. messages \in Seq(Message)
    BY <1>2, WireLemma
<1>6. /\ toServer'[c] = messages
      /\ \A d \in Conn \ {c} : toServer'[d] = toServer[d]
      /\ step'[t] = "waiting" /\ \A u \in Teams \ {t} : step'[u] = step[u]
    BY <1>1, <1>2, <1>3, <1>4, <1>5, ConcatEmptySeq
<1>7. /\ messages = <<>> => call(t).size = "refused"
      /\ messages # <<>> => Asks(t, Head(messages)) /\ StrayFrom(2, messages)
      /\ \A k \in DOMAIN messages : messages[k].verb = "INVALID" => SomeOverrun
    BY <1>2, WireShape
<1>8. /\ Sockets' = Sockets /\ UNCHANGED <<running, is_listening, group, ready>>
      /\ UNCHANGED <<conn(t), call(t), request(t)>>
    BY <1>1, SocketsUnchanged DEF serverVars, conn, call, request
<1> HIDE DEF c
<1>9. LifeOK' /\ NoneTwice'
    BY <1>1, <1>8 DEF LifeOK, NoneTwice, SomeOverrun
<1>10. ReadyOK'
    BY <1>1, <1>4, <1>6, <1>8 DEF ReadyOK
<1>11. FreshOK'
    <2>1. ~Fresh(c)
        BY <1>3 DEF Fresh, c, conn
    <2>2. QED
        BY <1>1, <1>6, <1>8, <2>1 DEF FreshOK, Fresh, InBacklog
<1>12. PlacedOK'
    <2>1. \A u \in Teams : InCall(u)' => InCall(u)
        BY <1>1, <1>6 DEF InCall
    <2>2. QED
        BY <1>1, <1>8, <2>1 DEF PlacedOK, InBacklog, conn
<1>13. StrayOK'
    <2> SUFFICES ASSUME NEW d \in Conn, NEW k \in DOMAIN toServer'[d],
                        toServer'[d][k].verb = "INVALID"
                 PROVE  SomeOverrun
        BY DEF StrayOK, SomeOverrun
    <2>1. CASE d = c
        BY <1>6, <1>7, <2>1
    <2>2. CASE d # c
        BY <1>6, <2>2 DEF StrayOK
    <2>3. QED
        BY <2>1, <2>2
<1>14. ASSUME NEW u \in Teams PROVE CallOK(u)'
    <2>1. CASE u = t
        <3>1. RequestWaits(t)' \/ NotSent(t)'
            BY <1>1, <1>4, <1>6, <1>7, <1>8 DEF RequestWaits, NotSent, Asks, StrayFrom, c
        <3>2. QED
            BY <1>6, <2>1, <3>1 DEF CallOK
    <2>2. CASE u # t
        <3>1. \A d \in Conn : d[1] # t => toServer'[d] = toServer[d]
            BY <1>6 DEF c, conn
        <3>2. QED
            BY <1>1, <1>6, <2>2, <3>1, OthersKept DEF IInv, TypeOK
    <2>3. QED
        BY <2>1, <2>2
<1>15. QED
    BY <1>9, <1>10, <1>11, <1>12, <1>13, <1>14

\* A step that ends the wait of a process, or that begins or ends its run, keeps
\* the calls where they are.
LEMMA TeamCalls ==
    ASSUME IInv, PInv, NEW t \in Teams, UNCHANGED serverVars, UNCHANGED <<session, toServer>>,
           step'[t] \notin {"connected", "waiting"},
           \A u \in Teams \ {t} : step'[u] = step[u] /\ pos'[u] = pos[u],
           \A c \in Conn : c # conn(t) => toClient'[c] = toClient[c]
    PROVE  \A u \in Teams : CallOK(u)'
<1> TAKE u \in Teams
<1>1. CASE u = t
    BY <1>1 DEF CallOK
<1>2. CASE u # t
    <2>1. \A c \in Conn : c[1] # t => toClient'[c] = toClient[c]
        BY DEF conn
    <2>2. QED
        BY <1>2, <2>1, OthersKept DEF PInv, IInv, TypeOK
<1>3. QED
    BY <1>1, <1>2

\* Taking an answer keeps the invariant.
LEMMA receivePInv ==
    ASSUME IInv, PInv, NEW t \in Teams, receive(t), UNCHANGED serverVars
    PROVE  PInv'
<1>1. /\ toClient' = [toClient EXCEPT ![conn(t)] = Tail(@)]
      /\ step[t] = "waiting" /\ step' = [step EXCEPT ![t] = "answered"]
      /\ UNCHANGED <<pos, session, backlog, toServer, closed>>
    BY DEF receive, Answered, Goto
<1>2. step \in [Teams -> Steps] /\ toClient \in [Conn -> Seq(Answer)]
    BY DEF IInv, TypeOK, NetTypeOK, TeamTypeOK
<1>3. /\ step'[t] = "answered" /\ \A u \in Teams \ {t} : step'[u] = step[u]
      /\ \A c \in Conn : c # conn(t) => toClient'[c] = toClient[c]
      /\ InCall(t)
    BY <1>1, <1>2 DEF InCall
<1>4. LifeOK' /\ NoneTwice' /\ ReadyOK' /\ FreshOK' /\ PlacedOK' /\ StrayOK'
    BY <1>1, <1>3, TeamPlaces
<1>5. \A u \in Teams : CallOK(u)'
    BY <1>1, <1>3, TeamCalls
<1>6. QED
    BY <1>4, <1>5 DEF PInv

\* A process that leaves its call closes its connection, which is then in nobody's
\* call.
LEMMA LeavePInv ==
    ASSUME IInv, PInv, NEW t \in Teams, UNCHANGED serverVars,
           UNCHANGED <<session, backlog, toServer, toClient>>,
           NEW s \in {"idle", "done", "aborted", "dead"}, Goto(t, s),
           \A u \in Teams \ {t} : pos'[u] = pos[u],
           \/ closed' = closed
           \/ closed' = closed \cup {conn(t)} /\ InCall(t)
    PROVE  PInv'
<1>1. step \in [Teams -> Steps]
    BY DEF IInv, TypeOK, TeamTypeOK
<1>2. step'[t] = s /\ \A u \in Teams \ {t} : step'[u] = step[u]
    BY <1>1 DEF Goto
<1>3. ~InCall(t)'
    BY <1>2 DEF InCall
<1>4. LifeOK' /\ NoneTwice' /\ ReadyOK' /\ FreshOK' /\ PlacedOK' /\ StrayOK'
    BY <1>2, <1>3, TeamPlaces
<1>5. \A u \in Teams : CallOK(u)'
    BY <1>2, TeamCalls
<1>6. QED
    BY <1>4, <1>5 DEF PInv

\* The end of a call, an exception, a kill, a refused connection and a new run are
\* such steps.
LEMMA LeavesPInv ==
    ASSUME IInv, PInv, NEW t \in Teams, UNCHANGED serverVars,
           \/ connectRefused(t) \/ receiveUnusable(t) \/ receiveEmpty(t) \/ disconnect(t)
           \/ Kill(t) \/ Restart(t)
    PROVE  PInv'
<1>1. pos \in [Teams -> Nat \ {0}]
    BY DEF IInv, TypeOK, TeamTypeOK
<1>2. CASE connectRefused(t)
    BY <1>2, LeavePInv DEF connectRefused, netVars
<1>3. CASE receiveUnusable(t) \/ receiveEmpty(t)
    BY <1>3, LeavePInv DEF receiveUnusable, receiveEmpty, Answered, InCall
<1>4. CASE disconnect(t)
    <2>1. PICK s \in {"done", "idle"} : Goto(t, s)
        BY <1>4 DEF disconnect
    <2>2. /\ \A u \in Teams \ {t} : pos'[u] = pos[u]
          /\ closed' = closed \cup {conn(t)} /\ InCall(t)
          /\ UNCHANGED <<session, backlog, toServer, toClient>>
        BY <1>1, <1>4 DEF disconnect, InCall
    <2>3. QED
        BY <2>1, <2>2, LeavePInv
<1>5. CASE Kill(t)
    <2>1. /\ UNCHANGED <<pos, session, backlog, toServer, toClient>> /\ Goto(t, "dead")
          /\ \/ closed' = closed
             \/ closed' = closed \cup {conn(t)} /\ InCall(t)
        BY <1>5 DEF Kill, InCall
    <2>2. QED
        BY <2>1, LeavePInv
<1>6. CASE Restart(t)
    <2>1. /\ \A u \in Teams \ {t} : pos'[u] = pos[u]
          /\ UNCHANGED <<session, netVars>> /\ Goto(t, "idle")
        BY <1>1, <1>6 DEF Restart
    <2>2. QED
        BY <2>1, LeavePInv DEF netVars
<1>7. QED
    BY <1>2, <1>3, <1>4, <1>5, <1>6

-----------------------------------------------------------------------------
(* The invariant and what it says. *)

\* Every step of the server and of a team keeps the invariant.
LEMMA NextPInv == IInv /\ PInv /\ [Next]_vars => PInv'
<1> SUFFICES ASSUME IInv, PInv, [Next]_vars PROVE PInv'
    OBVIOUS
<1>1. CASE Server /\ UNCHANGED teamVars
    BY <1>1, StartPInv, SelectPInv, OnAcceptPInv, OnDisconnectPInv, OnReadPInv,
       OnReadThrowsPInv DEF Server, listener
<1>2. ASSUME NEW t \in Teams, Process(t), UNCHANGED serverVars
      PROVE  PInv'
    BY <1>2, connectPInv, sendMessagePInv, receivePInv, LeavesPInv DEF Process, callStep
<1>3. ASSUME NEW t \in Teams, Kill(t) \/ Restart(t), UNCHANGED serverVars
      PROVE  PInv'
    BY <1>3, LeavesPInv
<1>4. CASE UNCHANGED vars
    <2>1. UNCHANGED netVars /\ UNCHANGED serverVars /\ UNCHANGED teamVars
        BY <1>4 DEF vars
    <2>2. Sockets' = Sockets /\ (Broken => Broken')
        BY <2>1, SocketsUnchanged
    <2>3. LifeOK' /\ NoneTwice' /\ ReadyOK' /\ StrayOK'
        BY <2>1, <2>2 DEF PInv, LifeOK, NoneTwice, ReadyOK, StrayOK, SomeOverrun,
                          netVars, serverVars, teamVars
    <2>4. FreshOK' /\ PlacedOK'
        BY <2>1, <2>2 DEF PInv, FreshOK, Fresh, PlacedOK, InCall, InBacklog, conn,
                          netVars, teamVars
    <2>5. \A t \in Teams : CallOK(t)'
        BY <2>1, <2>2, CallsKept DEF PInv, netVars
    <2>6. QED
        BY <2>3, <2>4, <2>5 DEF PInv
<1>5. QED
    BY <1>1, <1>2, <1>3, <1>4 DEF Next

\* The invariant holds for ever.
LEMMA RequestsInvariant == Spec => []PInv
BY InitPInv, NextPInv, InductiveInvariant, PTL DEF Spec

\* However the accepts and the disconnects of a pass move the sockets of the vector
\* under the index of listen(), no connection is ever in the group twice, nor in the
\* group and in the backlog; and the connection of a call is in one of them.
THEOREM ConnectionsKept == Spec => []ConnectionsOnce
<1>1. PInv => ConnectionsOnce
    BY DEF PInv, PlacedOK, NoneLost, ConnectionsOnce
<1>2. QED
    BY <1>1, RequestsInvariant, PTL

\* In every behaviour the polling loop of a team has something to wait for: its
\* request is on a connection the listener has or will accept, or its answer is on
\* the way; only a call longer than a read, or one the client refused, is lost.
THEOREM RequestsKept == Spec => []NoRequestLost
<1>1. IInv /\ PInv => NoRequestLost
    <2> SUFFICES ASSUME IInv, PInv, NEW t \in Teams, step[t] = "waiting"
                 PROVE  \/ toClient[conn(t)] # <<>>
                        \/ /\ toServer[conn(t)] # <<>>
                           /\ InBacklog(conn(t)) \/ conn(t) \in Sockets
                           /\ is_listening
                        \/ call(t).size = "refused"
                        \/ Broken
        BY DEF NoRequestLost
    <2>1. InCall(t)
        BY DEF InCall
    <2>2. conn(t) \in Conn /\ (InBacklog(conn(t)) \/ conn(t) \in Sockets)
        BY <2>1, connLemma DEF PInv, PlacedOK, IInv, TypeOK
    <2>3. running
        BY <2>1 DEF PInv, LifeOK, IInv, CallsOK
    <2>4. is_listening \/ Broken
        BY <2>3 DEF PInv, LifeOK, Broken
    <2>5. RequestWaits(t) \/ AnswerWaits(t) \/ NotSent(t) \/ Lost(t)
        BY DEF PInv, CallOK
    <2>6. AnswerWaits(t) => toClient[conn(t)] # <<>>
        <3>1. Len(<<>>) # 1
            OBVIOUS
        <3>2. QED
            BY <3>1 DEF AnswerWaits
    <2>7. QED
        BY <2>2, <2>4, <2>5, <2>6 DEF RequestWaits, NotSent, Lost
<1>2. QED
    BY <1>1, InductiveInvariant, RequestsInvariant, PTL

\* The answer a polling loop finds is one answer, and one its request can get:
\* no answer to an earlier call, to another team or to the stray end of a message.
THEOREM AnswersFit == Spec => []AnswerToRequest
<1>1. IInv /\ PInv => AnswerToRequest
    <2> SUFFICES ASSUME IInv, PInv, NEW t \in Teams, step[t] = "waiting"
                 PROVE  /\ Len(toClient[conn(t)]) <= 1
                        /\ toClient[conn(t)] # <<>> =>
                                Head(toClient[conn(t)]).kind \in Answers[request(t).verb]
        BY DEF AnswerToRequest
    <2>1. RequestWaits(t) \/ AnswerWaits(t) \/ NotSent(t) \/ Lost(t)
        BY DEF PInv, CallOK
    <2>2. toClient[conn(t)] = <<>> \/ AnswerWaits(t)
        BY <2>1 DEF RequestWaits, NotSent, Lost
    <2>3. Len(<<>>) = 0
        OBVIOUS
    <2>4. CASE toClient[conn(t)] = <<>>
        BY <2>3, <2>4
    <2>5. CASE AnswerWaits(t)
        BY <2>5 DEF AnswerWaits
    <2>6. QED
        BY <2>2, <2>4, <2>5
<1>2. QED
    BY <1>1, InductiveInvariant, RequestsInvariant, PTL

-----------------------------------------------------------------------------
(* What the answers say is true.  A registration that is cut on its way books *)
(* the time the server has read: it is the exception in what follows.         *)

\* What the answer on its way to a team says of the timetable still holds.
AnswerTrue(t) ==
    LET a == Head(toClient[conn(t)])
        r == request(t)
    IN  /\ call(t).size # "cut" =>
                /\ a.kind = "TARAKAN REGISTERED" =>
                        Received[r.name] \in Booked(timetable, r.track, r.time)
                /\ a.kind = "TRACK BUSY" =>
                        SlotSize <= Cardinality(Booked(timetable, r.track, r.time))
        /\ a.kind = "TIMETABLE" =>
                /\ \A b \in booked[t] \ CutTarakans(t) :
                        b[1] \in Booked(deserialize(a.body), b[2], b[3])
                /\ \A track \in Tracks, time \in Times :
                        Booked(deserialize(a.body), track, time)
                            \subseteq Booked(timetable, track, time)

AnswersTrue == \A t \in Teams : Answered(t) => AnswerTrue(t)

TInv == AcknowledgedBooked /\ TimetableCurrent /\ AnswersTrue

\* No step takes a tarakan out of its slot.
Grows ==
    \A track \in Tracks, time \in Times :
        Booked(timetable, track, time) \subseteq Booked(timetable', track, time)

\* Nothing is booked and nothing is said in the beginning.
LEMMA InitTInv == Init => TInv
<1> SUFFICES ASSUME Init PROVE TInv
    OBVIOUS
<1>1. \A track, time : Booked(<<>>, track, time) = {}
    BY DEF Booked, Matching
<1>2. AcknowledgedBooked /\ TimetableCurrent /\ AnswersTrue
    BY <1>1 DEF Init, TeamInit, AcknowledgedBooked, TimetableCurrent, AnswersTrue, Answered
<1>3. QED
    BY <1>2 DEF TInv

\* What was said stays true when the timetable grows.
LEMMA AnswerStays ==
    ASSUME IInv, IInv', NEW t \in Teams, Answered(t) => AnswerTrue(t), Grows,
           step'[t] = step[t], pos'[t] = pos[t], session'[t] = session[t],
           booked'[t] = booked[t], toClient'[conn(t)] = toClient[conn(t)]
    PROVE  (Answered(t) => AnswerTrue(t))'
<1> SUFFICES ASSUME Answered(t)' PROVE AnswerTrue(t)'
    OBVIOUS
<1> DEFINE a == Head(toClient[conn(t)])
           r == request(t)
           B == Booked(timetable, r.track, r.time)
<1>1. UNCHANGED <<conn(t), call(t), request(t), toClient[conn(t)], booked[t]>>
    BY DEF conn, call, request
<1>2. Answered(t) /\ AnswerTrue(t)
    BY <1>1 DEF Answered
<1>3. r.track \in Tracks /\ r.time \in Times
    BY <1>2, CallLemma DEF IInv, CallsOK, Answered, InCall
<1>4. B \subseteq B'
    BY <1>1, <1>3 DEF Grows
<1>5. SlotSize <= Cardinality(B) => SlotSize <= Cardinality(B')
    <2>1. IsFiniteSet(B')
        BY <1>1, <1>3 DEF IInv, QuotaOK
    <2>2. Cardinality(B) <= Cardinality(B') /\ Cardinality(B) \in Nat /\ Cardinality(B') \in Nat
        BY <1>4, <2>1, FS_Subset, FS_CardinalityType
    <2>3. QED
        BY <2>2, SlotSizeAssumption
<1>6. /\ a' = a
      /\ call(t).size # "cut" =>
            /\ a.kind = "TARAKAN REGISTERED" => Received[r.name] \in B
            /\ a.kind = "TRACK BUSY" => SlotSize <= Cardinality(B)
      /\ a.kind = "TIMETABLE" =>
            /\ \A b \in booked[t] \ CutTarakans(t) :
                    b[1] \in Booked(deserialize(a.body), b[2], b[3])
            /\ \A track \in Tracks, time \in Times :
                    Booked(deserialize(a.body), track, time)
                        \subseteq Booked(timetable, track, time)
    BY <1>1, <1>2 DEF AnswerTrue
<1>7. a.kind = "TIMETABLE" =>
            \A track \in Tracks, time \in Times :
                Booked(deserialize(a.body), track, time) \subseteq Booked(timetable', track, time)
    BY <1>6 DEF Grows
<1>8. r' = r
    BY <1>1
<1> HIDE DEF a, r
<1>9. /\ call(t)'.size # "cut" =>
            /\ a'.kind = "TARAKAN REGISTERED" =>
                    Received[r'.name] \in Booked(timetable', r'.track, r'.time)
            /\ a'.kind = "TRACK BUSY" =>
                    SlotSize <= Cardinality(Booked(timetable', r'.track, r'.time))
      /\ a'.kind = "TIMETABLE" =>
            /\ \A b \in booked'[t] \ CutTarakans(t) :
                    b[1] \in Booked(deserialize(a'.body), b[2], b[3])
            /\ \A track \in Tracks, time \in Times :
                    Booked(deserialize(a'.body), track, time)
                        \subseteq Booked(timetable', track, time)
    BY <1>1, <1>4, <1>5, <1>6, <1>7, <1>8
<1>10. QED
    BY <1>9 DEF AnswerTrue, a, r

\* What a team was told and has seen stays true when the timetable grows.
LEMMA ToldStays ==
    ASSUME IInv, AcknowledgedBooked, TimetableCurrent, Grows, NEW t \in Teams,
           UNCHANGED <<booked[t], seen[t]>>,
           step'[t] = "answered" => step[t] = "answered" /\ pos'[t] = pos[t]
    PROVE  /\ \A b \in booked'[t] \ CutTarakans(t) : b[1] \in Booked(timetable', b[2], b[3])
           /\ (step'[t] = "answered" /\ request(t)'.verb = "REQUEST TIMETABLE") =>
                \A b \in booked'[t] \ CutTarakans(t) : b[1] \in Booked(seen'[t], b[2], b[3])
           /\ \A track \in Tracks, time \in Times :
                Booked(seen'[t], track, time) \subseteq Booked(timetable', track, time)
<1>1. \A b \in booked[t] : b[2] \in Tracks /\ b[3] \in Times
    BY DEF IInv, TypeOK, TeamTypeOK
<1>2. \A b \in booked'[t] \ CutTarakans(t) : b[1] \in Booked(timetable', b[2], b[3])
    BY <1>1 DEF AcknowledgedBooked, Grows
<1>3. step'[t] = "answered" => request(t)' = request(t)
    BY DEF request, call
<1>4. QED
    BY <1>2, <1>3 DEF TimetableCurrent, Grows

\* A step that keeps what the teams were told, and that brings no answer.
LEMMA QuietTInv ==
    ASSUME IInv, IInv', TInv, Grows, UNCHANGED <<teamVars, toClient>>
    PROVE  TInv'
<1>1. ASSUME NEW t \in Teams
      PROVE  (Answered(t) => AnswerTrue(t))'
    BY AnswerStays DEF TInv, AnswersTrue, teamVars
<1>2. AcknowledgedBooked' /\ TimetableCurrent'
    BY ToldStays DEF TInv, AcknowledgedBooked, TimetableCurrent, teamVars
<1>3. QED
    BY <1>1, <1>2 DEF TInv, AnswersTrue

\* No step of the system takes a tarakan out of its slot.
LEMMA StepGrows == IInv /\ [Next]_vars => Grows
<1> SUFFICES ASSUME IInv, [Next]_vars PROVE Grows
    OBVIOUS
<1>1. CASE Next /\ OnRead
    <2>1. PICK k \in Due : /\ Read(k)
                           /\ messageHandler(Head(toServer[group[k]]), group[k])
        BY <1>1 DEF OnRead
    <2>2. group[k] \in Conn /\ Head(toServer[group[k]]) \in Message
        BY <2>1, ReadLemma DEF IInv, TypeOK
    <2>3. QED
        BY <2>1, <2>2, messageHandlerStays DEF Grows
<1>2. CASE ~(Next /\ OnRead)
    <2>1. timetable' = timetable
        BY <1>2 DEF Next, Server, listener, Start, Select, OnAccept, OnDisconnect,
                    OnReadThrows, serverVars, vars
    <2>2. QED
        BY <2>1 DEF Grows
<1>3. QED
    BY <1>1, <1>2

\* The tarakan is in the slot afterwards.
LEMMA addTarakanBooks ==
    ASSUME timetable \in Seq(Entry), DistinctSlots(timetable),
           NEW name \in Names, NEW strategies \in Nat,
           NEW track \in Tracks, NEW time \in Times,
           timetable' = addTarakan(timetable, name, strategies, track, time)
    PROVE  name \in Booked(timetable', track, time)
<1>1. ASSUME NEW tr \in Tracks, NEW ti \in Times
      PROVE  Booked(timetable', tr, ti) =
                IF tr = track /\ ti = time THEN Booked(timetable, tr, ti) \cup {name}
                                           ELSE Booked(timetable, tr, ti)
    BY addTarakanLemma
<1>2. QED
    BY <1>1

\* What a handler answers is true of the timetable it leaves.
LEMMA handlerTrue ==
    ASSUME IInv, NEW m \in Message, NEW c \in Conn, messageHandler(m, c)
    PROVE  \E kind, body :
            /\ answer(c, kind, body)
            /\ kind = "TARAKAN REGISTERED" =>
                    Received[m.name] \in Booked(timetable', m.track, m.time)
            /\ kind = "TRACK BUSY" =>
                    SlotSize <= Cardinality(Booked(timetable', m.track, m.time))
            /\ kind = "TIMETABLE" => deserialize(body) = timetable
<1>1. /\ timetable \in Seq(Entry) /\ DistinctSlots(timetable)
      /\ Received[m.name] \in Names /\ m.track \in Tracks
    BY ReceivedAssumption DEF IInv, TypeOK, ServerTypeOK, EntriesDistinct, Message
<1>2. CASE handleTimetableRequest(c)
    BY <1>1, <1>2, RoundTrip DEF handleTimetableRequest
<1>3. CASE handleTeamRegistration(m, c)
    <2>1. PICK kind \in {"TEAM REGISTERED", "TEAM ALREADY REGISTERED"} : answer(c, kind, <<>>)
        BY <1>3 DEF handleTeamRegistration
    <2>2. QED
        BY <2>1
<1>4. CASE handleTeamDeregistration(m, c)
    <2>1. PICK kind \in {"TEAM DEREGISTERED", "NO SUCH TEAM"} : answer(c, kind, <<>>)
        BY <1>4 DEF handleTeamDeregistration
    <2>2. QED
        BY <2>1
<1>5. CASE handleTarakanRegistration(m, c)
    <2>1. m.time \in Times
        BY DEF Message
    <2>2. CASE isFree(timetable, m.track, m.time)
        <3>1. /\ timetable' = addTarakan(timetable, Received[m.name], 0, m.track, m.time)
              /\ answer(c, "TARAKAN REGISTERED", <<>>)
            BY <1>5, <2>2 DEF handleTarakanRegistration
        <3>2. 0 \in Nat
            OBVIOUS
        <3>3. Received[m.name] \in Booked(timetable', m.track, m.time)
            BY <1>1, <2>1, <3>1, <3>2, addTarakanBooks, Zenon
        <3> WITNESS "TARAKAN REGISTERED", <<>>
        <3>4. QED
            BY <3>1, <3>3
    <2>3. CASE ~isFree(timetable, m.track, m.time)
        <3>1. timetable' = timetable /\ answer(c, "TRACK BUSY", <<>>)
            BY <1>5, <2>3 DEF handleTarakanRegistration
        <3>2. ~(Cardinality(Booked(timetable, m.track, m.time)) < SlotSize)
            BY <1>1, <2>3, isFreeLemma
        <3>3. Cardinality(Booked(timetable, m.track, m.time)) \in Nat
            BY <1>1, <2>1, FS_CardinalityType DEF IInv, QuotaOK
        <3> DEFINE taken == Cardinality(Booked(timetable, m.track, m.time))
        <3>4. SlotSize <= taken
            <4> HIDE DEF taken
            <4>1. taken \in Nat /\ ~(taken < SlotSize)
                BY <3>2, <3>3 DEF taken
            <4>2. QED
                BY <4>1, SlotSizeAssumption
        <3>5. SlotSize <= Cardinality(Booked(timetable', m.track, m.time))
            BY <3>1, <3>4
        <3> WITNESS "TRACK BUSY", <<>>
        <3>6. QED
            BY <3>1, <3>5
    <2>4. QED
        BY <2>2, <2>3
<1>6. QED
    BY <1>2, <1>3, <1>4, <1>5 DEF messageHandler

\* Answering a request brings the team that asked a true answer.
LEMMA OnReadTInv ==
    ASSUME IInv, IInv', PInv, TInv, Grows, OnRead, UNCHANGED teamVars
    PROVE  TInv'
<1>1. PICK k \in Due : /\ Read(k)
                       /\ messageHandler(Head(toServer[group[k]]), group[k])
    BY DEF OnRead
<1> DEFINE c == group[k]
           m == Head(toServer[c])
<1>2. c \in Conn /\ m \in Message
    BY <1>1, ReadTakes
<1>3. PICK kind, body :
        /\ answer(c, kind, body)
        /\ kind = "TARAKAN REGISTERED" =>
                Received[m.name] \in Booked(timetable', m.track, m.time)
        /\ kind = "TRACK BUSY" =>
                SlotSize <= Cardinality(Booked(timetable', m.track, m.time))
        /\ kind = "TIMETABLE" => deserialize(body) = timetable
    BY <1>1, <1>2, handlerTrue
<1>4. /\ toClient'[c] = Append(toClient[c], [kind |-> kind, body |-> body])
      /\ \A d \in Conn \ {c} : toClient'[d] = toClient[d]
    BY <1>2, <1>3 DEF answer, IInv, TypeOK, NetTypeOK
<1>5. ASSUME NEW t \in Teams
      PROVE  (Answered(t) => AnswerTrue(t))'
    <2>1. CASE step[t] = "waiting" /\ conn(t) = c
        <3>1. RequestWaits(t)
            BY <1>1, <1>2, <2>1, ReadsRequest, handlerAnswers
        <3>2. m.verb # "INVALID"
            BY <1>1, <1>2, handlerAnswers
        <3>3. UNCHANGED <<conn(t), call(t), request(t), booked>>
            BY DEF conn, call, request, teamVars
        <3>4. toClient[c] = <<>> /\ m.name = request(t).name /\ m.track = request(t).track
            BY <2>1, <3>1 DEF RequestWaits, Asks
        <3>5. call(t).size # "cut" => m.time = request(t).time
            BY <2>1, <3>1 DEF RequestWaits, Asks
        <3>7. Head(toClient'[c]) = [kind |-> kind, body |-> body]
            BY <1>4, <3>4
        <3>8. kind = "TIMETABLE" =>
                /\ \A b \in booked[t] \ CutTarakans(t) :
                        b[1] \in Booked(deserialize(body), b[2], b[3])
                /\ \A track \in Tracks, time \in Times :
                        Booked(deserialize(body), track, time)
                            \subseteq Booked(timetable', track, time)
            BY <1>3 DEF TInv, AcknowledgedBooked, Grows
        <3> DEFINE a == Head(toClient[conn(t)])
                   r == request(t)
        <3>9. a'.kind = kind /\ a'.body = body /\ UNCHANGED <<r, call(t), booked>>
            BY <2>1, <3>3, <3>7
        <3>10. call(t).size # "cut" =>
                /\ kind = "TARAKAN REGISTERED" =>
                        Received[r.name] \in Booked(timetable', r.track, r.time)
                /\ kind = "TRACK BUSY" =>
                        SlotSize <= Cardinality(Booked(timetable', r.track, r.time))
            BY <1>3, <3>4, <3>5
        <3> HIDE DEF c, m, a, r
        <3>11. /\ call(t)'.size # "cut" =>
                    /\ a'.kind = "TARAKAN REGISTERED" =>
                            Received[r'.name] \in Booked(timetable', r'.track, r'.time)
                    /\ a'.kind = "TRACK BUSY" =>
                            SlotSize <= Cardinality(Booked(timetable', r'.track, r'.time))
               /\ a'.kind = "TIMETABLE" =>
                    /\ \A b \in booked'[t] \ CutTarakans(t) :
                            b[1] \in Booked(deserialize(a'.body), b[2], b[3])
                    /\ \A track \in Tracks, time \in Times :
                            Booked(deserialize(a'.body), track, time)
                                \subseteq Booked(timetable', track, time)
            BY <3>8, <3>9, <3>10
        <3>12. AnswerTrue(t)'
            BY <3>11 DEF AnswerTrue, a, r
        <3>13. QED
            BY <3>12
    <2>2. CASE step[t] # "waiting"
        BY <2>2 DEF Answered, teamVars
    <2>3. CASE step[t] = "waiting" /\ conn(t) # c
        <3>1. conn(t) \in Conn
            BY <2>3, connLemma DEF InCall, IInv, TypeOK
        <3>2. QED
            BY <1>4, <2>3, <3>1, AnswerStays DEF TInv, AnswersTrue, teamVars
    <2>4. QED
        BY <2>1, <2>2, <2>3
<1>6. AcknowledgedBooked' /\ TimetableCurrent'
    BY ToldStays DEF TInv, AcknowledgedBooked, TimetableCurrent, teamVars
<1>7. QED
    BY <1>5, <1>6 DEF TInv, AnswersTrue

\* A step of a process that has no answer to take afterwards, with what it knows then.
LEMMA OneTellsTInv ==
    ASSUME IInv, IInv', TInv, Grows, NEW t \in Teams, ~Answered(t)',
           \A u \in Teams \ {t} : UNCHANGED <<step[u], pos[u], session[u], booked[u], seen[u]>>,
           \A c \in Conn : c # conn(t) => toClient'[c] = toClient[c],
           \A b \in booked'[t] \ CutTarakans(t) : b[1] \in Booked(timetable', b[2], b[3]),
           (step'[t] = "answered" /\ request(t)'.verb = "REQUEST TIMETABLE") =>
                \A b \in booked'[t] \ CutTarakans(t) : b[1] \in Booked(seen'[t], b[2], b[3]),
           \A track \in Tracks, time \in Times :
                Booked(seen'[t], track, time) \subseteq Booked(timetable', track, time)
    PROVE  TInv'
<1>1. ASSUME NEW u \in Teams \ {t}
      PROVE  (Answered(u) => AnswerTrue(u))'
    <2>1. CASE step[u] = "waiting"
        <3>1. conn(u) \in Conn /\ conn(u) # conn(t)
            BY <2>1, connLemma, ConnOther DEF InCall, IInv, TypeOK
        <3>2. QED
            BY <3>1, AnswerStays DEF TInv, AnswersTrue
    <2>2. CASE step[u] # "waiting"
        BY <2>2 DEF Answered
    <2>3. QED
        BY <2>1, <2>2
<1>2. ASSUME NEW u \in Teams \ {t}
      PROVE  /\ \A b \in booked'[u] \ CutTarakans(u) : b[1] \in Booked(timetable', b[2], b[3])
             /\ (step'[u] = "answered" /\ request(u)'.verb = "REQUEST TIMETABLE") =>
                  \A b \in booked'[u] \ CutTarakans(u) : b[1] \in Booked(seen'[u], b[2], b[3])
             /\ \A track \in Tracks, time \in Times :
                  Booked(seen'[u], track, time) \subseteq Booked(timetable', track, time)
    BY ToldStays DEF TInv
<1>3. AnswersTrue'
    BY <1>1 DEF AnswersTrue
<1>4. AcknowledgedBooked'
    BY <1>2 DEF AcknowledgedBooked
<1>5. TimetableCurrent'
    BY <1>2 DEF TimetableCurrent
<1>6. QED
    BY <1>3, <1>4, <1>5 DEF TInv

\* A process that sends its request, or leaves or opens a connection without an
\* answer, knows what it knew.
LEMMA OtherStepTInv ==
    ASSUME IInv, IInv', PInv, TInv, Grows, NEW t \in Teams,
           \/ connect(t) \/ connectRefused(t) \/ sendMessage(t)
           \/ receiveUnusable(t) \/ receiveEmpty(t) \/ disconnect(t)
    PROVE  TInv'
<1>1. /\ step \in [Teams -> Steps] /\ pos \in [Teams -> Nat \ {0}]
      /\ session \in [Teams -> 0 .. MaxSessions]
    BY DEF IInv, TypeOK, TeamTypeOK
<1>2. UNCHANGED <<booked, seen, toClient>>
    BY DEF connect, connectRefused, sendMessage, receiveUnusable, receiveEmpty, disconnect, netVars
<1>3. /\ step'[t] # "answered" /\ ~Answered(t)'
      /\ \A u \in Teams \ {t} : UNCHANGED <<step[u], pos[u], session[u]>>
    <2>1. CASE sendMessage(t)
        <3>1. toClient[conn(t)] = <<>> /\ UNCHANGED <<pos, session, conn(t)>>
            BY <2>1 DEF sendMessage, PInv, CallOK, conn
        <3>2. QED
            BY <1>1, <1>2, <2>1, <3>1 DEF sendMessage, Goto, Answered
    <2>2. CASE connect(t)
        BY <1>1, <2>2 DEF connect, Goto, Answered
    <2>3. CASE connectRefused(t) \/ receiveUnusable(t) \/ receiveEmpty(t)
        BY <1>1, <2>3 DEF connectRefused, receiveUnusable, receiveEmpty, Goto, Answered
    <2>4. CASE disconnect(t)
        <3>1. PICK s \in {"done", "idle"} : Goto(t, s)
            BY <2>4 DEF disconnect
        <3>2. QED
            BY <1>1, <2>4, <3>1 DEF disconnect, Goto, Answered
    <2>5. QED
        BY <2>1, <2>2, <2>3, <2>4
<1>4. /\ \A b \in booked'[t] \ CutTarakans(t) : b[1] \in Booked(timetable', b[2], b[3])
      /\ \A track \in Tracks, time \in Times :
            Booked(seen'[t], track, time) \subseteq Booked(timetable', track, time)
    BY <1>2, <1>3, ToldStays DEF TInv
<1>5. QED
    BY <1>2, <1>3, <1>4, OneTellsTInv

\* A process that ends or begins its run has been told nothing.
LEMMA NewRunTInv ==
    ASSUME IInv, IInv', TInv, Grows, NEW t \in Teams, Kill(t) \/ Restart(t)
    PROVE  TInv'
<1>1. /\ step \in [Teams -> Steps] /\ pos \in [Teams -> Nat \ {0}]
      /\ booked \in [Teams -> SUBSET (Names \X Tracks \X Times)]
      /\ seen \in [Teams -> Seq(Entry)]
    BY DEF IInv, TypeOK, TeamTypeOK
<1>2. /\ booked' = [booked EXCEPT ![t] = {}] /\ seen' = [seen EXCEPT ![t] = <<>>]
      /\ UNCHANGED <<session, toClient>>
      /\ \A u \in Teams \ {t} : pos'[u] = pos[u]
    BY <1>1 DEF Kill, Restart, netVars
<1>3. PICK s \in {"dead", "idle"} : step' = [step EXCEPT ![t] = s]
    BY DEF Kill, Restart, Goto
<1>4. /\ booked'[t] = {} /\ seen'[t] = <<>> /\ step'[t] \in {"dead", "idle"}
      /\ \A u \in Teams \ {t} : UNCHANGED <<step[u], booked[u], seen[u]>>
    BY <1>1, <1>2, <1>3
<1>5. \A track, time : Booked(<<>>, track, time) = {}
    BY DEF Booked, Matching
<1>6. ~Answered(t)'
    BY <1>4 DEF Answered
<1>7. QED
    BY <1>2, <1>4, <1>5, <1>6, OneTellsTInv

\* The process that takes an answer knows what the answer says, which is true.
LEMMA receiveTInv ==
    ASSUME IInv, IInv', TInv, Grows, NEW t \in Teams, receive(t), UNCHANGED serverVars
    PROVE  TInv'
<1> DEFINE a == Head(toClient[conn(t)])
           r == request(t)
           b0 == <<Received[r.name], r.track, r.time>>
<1>1. /\ Answered(t) /\ a.kind \in Answers[r.verb]
      /\ toClient' = [toClient EXCEPT ![conn(t)] = Tail(@)]
      /\ booked' = [booked EXCEPT ![t] =
            IF a.kind = "TARAKAN REGISTERED" THEN @ \cup {b0} ELSE @]
      /\ seen' = [seen EXCEPT ![t] =
            IF a.kind = "TIMETABLE" THEN deserialize(a.body) ELSE @]
      /\ step' = [step EXCEPT ![t] = "answered"]
      /\ UNCHANGED <<pos, session>>
    BY DEF receive, Unusable, Goto
<1>2. /\ step \in [Teams -> Steps] /\ toClient \in [Conn -> Seq(Answer)]
      /\ booked \in [Teams -> SUBSET (Names \X Tracks \X Times)]
      /\ seen \in [Teams -> Seq(Entry)]
    BY DEF IInv, TypeOK, NetTypeOK, TeamTypeOK
<1>3. /\ a.kind = "TARAKAN REGISTERED" /\ call(t).size # "cut" =>
            b0[1] \in Booked(timetable, b0[2], b0[3])
      /\ a.kind = "TIMETABLE" =>
            /\ \A b \in booked[t] \ CutTarakans(t) :
                    b[1] \in Booked(deserialize(a.body), b[2], b[3])
            /\ \A track \in Tracks, time \in Times :
                    Booked(deserialize(a.body), track, time)
                        \subseteq Booked(timetable, track, time)
    BY <1>1 DEF TInv, AnswersTrue, AnswerTrue
<1>4. r.verb = "REQUEST TIMETABLE" => a.kind = "TIMETABLE"
    BY <1>1 DEF Answers, Verbs
<1>5. UNCHANGED <<timetable, r>>
    BY <1>1 DEF serverVars, request, call
<1>6. a.kind = "TARAKAN REGISTERED" /\ call(t).size = "cut" => b0 \in CutTarakans(t)
    <2> SUFFICES ASSUME a.kind = "TARAKAN REGISTERED", call(t).size = "cut"
                 PROVE  b0 \in CutTarakans(t)
        OBVIOUS
    <2>1. pos[t] \in DOMAIN Script[t] /\ r.verb \in Verbs
        BY <1>1, CallLemma DEF IInv, CallsOK, Answered, InCall
    <2>2. r.verb = "REGISTER TARAKAN"
        BY <1>1, <2>1 DEF Answers, Verbs
    <2>3. QED
        BY <2>1, <2>2 DEF CutTarakans, call, request
<1> HIDE DEF a, r, b0
<1>7. /\ step'[t] = "answered"
      /\ booked'[t] = IF a.kind = "TARAKAN REGISTERED" THEN booked[t] \cup {b0} ELSE booked[t]
      /\ seen'[t] = IF a.kind = "TIMETABLE" THEN deserialize(a.body) ELSE seen[t]
      /\ \A u \in Teams \ {t} : UNCHANGED <<step[u], booked[u], seen[u]>>
      /\ \A c \in Conn : c # conn(t) => toClient'[c] = toClient[c]
    BY <1>1, <1>2
<1>8. \A b \in booked'[t] \ CutTarakans(t) : b[1] \in Booked(timetable', b[2], b[3])
    BY <1>3, <1>5, <1>7, <1>6 DEF TInv, AcknowledgedBooked
<1>9. r'.verb = "REQUEST TIMETABLE" =>
        \A b \in booked'[t] \ CutTarakans(t) : b[1] \in Booked(seen'[t], b[2], b[3])
    BY <1>3, <1>4, <1>5, <1>7
<1>10. \A track \in Tracks, time \in Times :
        Booked(seen'[t], track, time) \subseteq Booked(timetable', track, time)
    <2>1. CASE a.kind = "TIMETABLE"
        BY <1>3, <1>5, <1>7, <2>1
    <2>2. CASE a.kind # "TIMETABLE"
        BY <1>5, <1>7, <2>2 DEF TInv, TimetableCurrent
    <2>3. QED
        BY <2>1, <2>2
<1>11. ~Answered(t)'
    BY <1>7 DEF Answered
<1>12. QED
    BY <1>1, <1>7, <1>8, <1>9, <1>10, <1>11, OneTellsTInv DEF r

\* Every step keeps what the teams know true.
LEMMA NextTInv == IInv /\ IInv' /\ PInv /\ TInv /\ [Next]_vars => TInv'
<1> SUFFICES ASSUME IInv, IInv', PInv, TInv, [Next]_vars PROVE TInv'
    OBVIOUS
<1>1. Grows
    BY StepGrows
<1>2. CASE OnRead /\ UNCHANGED teamVars
    BY <1>1, <1>2, OnReadTInv
<1>3. CASE (Start \/ Select \/ OnAccept \/ OnDisconnect \/ OnReadThrows) /\ UNCHANGED teamVars
    <2>1. UNCHANGED toClient
        BY <1>3 DEF Start, Select, OnAccept, OnDisconnect, OnReadThrows, netVars
    <2>2. QED
        BY <1>1, <1>3, <2>1, QuietTInv
<1>4. ASSUME NEW t \in Teams, Process(t) \/ Kill(t) \/ Restart(t), UNCHANGED serverVars
      PROVE  TInv'
    BY <1>1, <1>4, OtherStepTInv, receiveTInv, NewRunTInv DEF Process, callStep
<1>5. CASE UNCHANGED vars
    <2>1. UNCHANGED teamVars /\ UNCHANGED toClient
        BY <1>5 DEF vars, netVars
    <2>2. QED
        BY <1>1, <2>1, QuietTInv
<1>6. QED
    BY <1>2, <1>3, <1>4, <1>5 DEF Next, Server, listener

\* It holds for ever then.
LEMMA TruthInvariant == Spec => []TInv
BY NextTInv, InitTInv, InductiveInvariant, RequestsInvariant, PTL DEF Spec

\* A tarakan that a team was told is registered is in the slot the team asked for,
\* whatever the other teams did since the handler answered and do from now on; only a
\* registration that was cut on its way, which Client::sendMessage lets out, is in
\* another slot.
THEOREM AcknowledgedIsBooked == Spec => []AcknowledgedBooked
<1>1. TInv => AcknowledgedBooked
    BY DEF TInv
<1>2. QED
    BY <1>1, TruthInvariant, PTL

\* Not more and not less than a slot takes is what a slot takes.
LEMMA FullLemma == \A n \in Nat : n <= SlotSize /\ SlotSize <= n => n = SlotSize
BY SlotSizeAssumption

\* "TRACK BUSY" is only ever said of a full slot, and the slot is still full, and
\* not more than full, when the answer arrives.  To a call that was cut on its way it
\* is said of the slot the server has read.
THEOREM BusyIsFull == Spec => []BusyMeansFull
<1>1. IInv /\ TInv => BusyMeansFull
    <2> SUFFICES ASSUME IInv, TInv, NEW t \in Teams, Answered(t), call(t).size # "cut",
                        Head(toClient[conn(t)]).kind = "TRACK BUSY"
                 PROVE  Cardinality(Booked(timetable, request(t).track, request(t).time))
                            = SlotSize
        BY DEF BusyMeansFull
    <2> DEFINE B == Booked(timetable, request(t).track, request(t).time)
    <2>1. request(t).track \in Tracks /\ request(t).time \in Times
        BY CallLemma DEF IInv, CallsOK, Answered, InCall
    <2>2. IsFiniteSet(B) /\ Cardinality(B) <= SlotSize
        BY <2>1 DEF IInv, QuotaOK
    <2>3. SlotSize <= Cardinality(B)
        BY DEF TInv, AnswersTrue, AnswerTrue
    <2>4. Cardinality(B) \in Nat
        BY <2>2, FS_CardinalityType
    <2>5. QED
        BY <2>2, <2>3, <2>4, FullLemma
<1>2. QED
    BY <1>1, InductiveInvariant, TruthInvariant, PTL

\* The timetable a team has in its hands shows every tarakan the team was told is
\* registered, except by a call that was cut on its way, and none that the server
\* does not have.
THEOREM TimetableIsCurrent == Spec => []TimetableCurrent
<1>1. TInv => TimetableCurrent
    BY DEF TInv
<1>2. QED
    BY <1>1, TruthInvariant, PTL

-----------------------------------------------------------------------------
(* The members. *)

\* A Team has one name: its process registers and deregisters no other.
OneName == \A t \in Teams : \A m, n \in TeamNames(t) : m = n

\* Nobody else uses the name of the team, and nobody kills its process.
Own(t) == t \notin Mortal /\ \A u \in Teams \ {t} : TeamNames(u) \cap TeamNames(t) = {}

\* The process is not killed, and no exception has ended it.
Lives(t) == t \notin Mortal /\ step[t] # "aborted"

\* What the server has not read and can read is the request of a process that waits.
\* Only a process that ends in its call leaves one behind.
Unread ==
    \A c \in Conn : \A k \in DOMAIN toServer[c] :
        Lives(c[1]) /\ toServer[c][k].verb # "INVALID"
            => c = conn(c[1]) /\ step[c[1]] = "waiting"

\* Who registers or deregisters a name on a connection has that name in its script,
\* whether its process still lives or not.
Asked(c, m) ==
    m.verb \in {"REGISTER TEAM", "DEREGISTER TEAM"} => m.name \in TeamNames(c[1])

AllAsked == \A c \in Conn : \A k \in DOMAIN toServer[c] : Asked(c, toServer[c][k])

\* The process asks to leave, or is gone.
Leaving(t) ==
    \/ step[t] = "waiting" /\ request(t).verb = "DEREGISTER TEAM"
    \/ step[t] = "aborted"

\* A team that knows it is registered is a member, and so is one that is about to know.
Member(t) ==
    /\ registered[t] /\ ~Leaving(t) => { Received[n] : n \in TeamNames(t) } \subseteq teams_names
    /\ Answered(t) /\ Head(toClient[conn(t)]).kind = "TEAM REGISTERED" =>
            Received[request(t).name] \in teams_names

MInv == Unread /\ AllAsked /\ \A t \in Teams : Own(t) => Member(t)

\* Nobody is registered and nothing is sent in the beginning.
LEMMA InitMInv == Init => MInv
<1> SUFFICES ASSUME Init PROVE MInv
    OBVIOUS
<1> USE DEF Init, NetInit, ServerInit, TeamInit
<1>1. Unread /\ AllAsked
    BY DEF Unread, AllAsked
<1>2. \A t \in Teams : Member(t)
    BY DEF Member, Answered
<1>3. QED
    BY <1>1, <1>2 DEF MInv

\* The names of the requests that register or deregister are the names of the team.
LEMMA TeamNamesLemma ==
    ASSUME NEW t \in Teams, pos[t] \in DOMAIN Script[t],
           request(t).verb \in {"REGISTER TEAM", "DEREGISTER TEAM"}
    PROVE  request(t).name \in TeamNames(t)
BY DEF TeamNames, request, call

\* They are names.
LEMMA TeamNamesType ==
    ASSUME NEW t \in Teams
    PROVE  TeamNames(t) \subseteq Names
<1> SUFFICES ASSUME NEW q \in DOMAIN Script[t]
             PROVE  Script[t][q].request.name \in Names
    BY DEF TeamNames
<1>1. Script[t] \in Seq(Call)
    BY ScriptAssumption
<1>2. Script[t][q] \in Call
    BY <1>1, LenProperties
<1>3. QED
    BY <1>2 DEF Call

\* Only its own deregistration takes a name out of the set, and the first registration
\* of a name puts it in.
LEMMA handlerMembers ==
    ASSUME NEW m, NEW c, messageHandler(m, c)
    PROVE  \E kind, body :
            /\ answer(c, kind, body)
            /\ kind = "TEAM REGISTERED" => Received[m.name] \in teams_names'
            /\ \/ teams_names \subseteq teams_names'
               \/ /\ m.verb = "DEREGISTER TEAM" /\ kind # "TEAM REGISTERED"
                  /\ teams_names' = teams_names \ {Received[m.name]}
<1>1. CASE handleTimetableRequest(c)
    <2> WITNESS "TIMETABLE", serialize(timetable)
    <2>1. QED
        BY <1>1 DEF handleTimetableRequest
<1>2. CASE handleTeamRegistration(m, c)
    <2>1. PICK kind \in {"TEAM REGISTERED", "TEAM ALREADY REGISTERED"} :
            answer(c, kind, <<>>) /\ Received[m.name] \in teams_names'
        BY <1>2 DEF handleTeamRegistration
    <2>2. teams_names \subseteq teams_names'
        BY <1>2 DEF handleTeamRegistration
    <2> WITNESS kind, <<>>
    <2>3. QED
        BY <2>1, <2>2
<1>3. CASE m.verb = "DEREGISTER TEAM" /\ handleTeamDeregistration(m, c)
    <2>1. PICK kind \in {"TEAM DEREGISTERED", "NO SUCH TEAM"} : answer(c, kind, <<>>)
        BY <1>3 DEF handleTeamDeregistration
    <2>2. teams_names' \in {teams_names, teams_names \ {Received[m.name]}}
        BY <1>3 DEF handleTeamDeregistration
    <2> WITNESS kind, <<>>
    <2>3. QED
        BY <1>3, <2>1, <2>2
<1>4. CASE handleTarakanRegistration(m, c)
    <2>1. PICK kind \in {"TARAKAN REGISTERED", "TRACK BUSY"} : answer(c, kind, <<>>)
        BY <1>4 DEF handleTarakanRegistration
    <2>2. teams_names' = teams_names
        BY <1>4 DEF handleTarakanRegistration
    <2> WITNESS kind, <<>>
    <2>3. QED
        BY <2>1, <2>2
<1>5. QED
    BY <1>1, <1>2, <1>3, <1>4 DEF messageHandler

\* A team that has an answer has nothing unread that could be read, and the answer
\* is one to its request.
LEMMA AnsweredLemma ==
    ASSUME PInv, NEW t \in Teams, Answered(t)
    PROVE  AnswerWaits(t)
BY DEF PInv, CallOK, Answered, RequestWaits, NotSent, Lost

\* "TEAM REGISTERED" answers a registration.
LEMMA RegisteredLemma ==
    ASSUME IInv, PInv, NEW t \in Teams, Answered(t),
           Head(toClient[conn(t)]).kind = "TEAM REGISTERED"
    PROVE  request(t).verb = "REGISTER TEAM"
<1>1. "TEAM REGISTERED" \in Answers[request(t).verb]
    BY AnsweredLemma DEF AnswerWaits
<1>2. request(t).verb \in Verbs
    BY CallLemma DEF IInv, CallsOK, Answered, InCall
<1>3. QED
    BY <1>1, <1>2 DEF Answers, Verbs

\* What is unread stays as it is when the server takes messages and sends none.
LEMMA UnreadKept ==
    ASSUME MInv, UNCHANGED teamVars,
           \A c \in Conn : \A k \in DOMAIN toServer'[c] :
                \E l \in DOMAIN toServer[c] : toServer'[c][k] = toServer[c][l]
    PROVE  Unread' /\ AllAsked'
<1> SUFFICES ASSUME NEW c \in Conn, NEW k \in DOMAIN toServer'[c]
             PROVE  /\ Lives(c[1]) /\ toServer'[c][k].verb # "INVALID"
                            => c = conn(c[1]) /\ step[c[1]] = "waiting"
                    /\ Asked(c, toServer'[c][k])
    BY DEF Unread, Lives, AllAsked, Asked, conn, teamVars
<1>1. PICK l \in DOMAIN toServer[c] : toServer'[c][k] = toServer[c][l]
    OBVIOUS
<1>2. QED
    BY <1>1 DEF MInv, Unread, AllAsked

\* Reading and answering a request keeps the members: what is read is a request of the
\* process at the other end, so the name that leaves is its own, and the process waits
\* unless it was killed.
LEMMA OnReadMInv ==
    ASSUME IInv, PInv, MInv, OnRead, UNCHANGED teamVars
    PROVE  MInv'
<1>1. PICK k \in Due : /\ Read(k)
                       /\ messageHandler(Head(toServer[group[k]]), group[k])
    BY DEF OnRead
<1> DEFINE c == group[k]
           m == Head(toServer[c])
           u == c[1]
<1>2. /\ c \in Conn /\ m \in Message /\ 1 \in DOMAIN toServer[c] /\ m = toServer[c][1]
      /\ \A i \in DOMAIN toServer'[c] :
            /\ i + 1 \in DOMAIN toServer[c]
            /\ toServer'[c][i] = toServer[c][i + 1]
      /\ \A d \in Conn \ {c} : toServer'[d] = toServer[d]
    BY <1>1, ReadTakes
<1>3. m.verb # "INVALID" /\ u \in Teams
    BY <1>1, <1>2, handlerAnswers DEF Conn
<1>4. /\ m.verb = "DEREGISTER TEAM" => m.name \in TeamNames(u)
      /\ Lives(u) => c = conn(u) /\ step[u] = "waiting"
    BY <1>2, <1>3 DEF MInv, Unread, AllAsked, Asked
<1>5. Lives(u) => RequestWaits(u)
    BY <1>1, <1>3, <1>4, ReadsRequest
<1>6. Lives(u) =>
        toClient[c] = <<>> /\ m.verb = request(u).verb /\ m.name = request(u).name
    BY <1>3, <1>4, <1>5 DEF RequestWaits, Asks
<1>7. PICK kind, body :
        /\ answer(c, kind, body)
        /\ kind = "TEAM REGISTERED" => Received[m.name] \in teams_names'
        /\ \/ teams_names \subseteq teams_names'
           \/ /\ m.verb = "DEREGISTER TEAM" /\ kind # "TEAM REGISTERED"
              /\ teams_names' = teams_names \ {Received[m.name]}
    BY <1>1, handlerMembers
<1>8. /\ toClient'[c] = Append(toClient[c], [kind |-> kind, body |-> body])
      /\ \A d \in Conn \ {c} : toClient'[d] = toClient[d]
    BY <1>2, <1>7 DEF answer, IInv, TypeOK, NetTypeOK
<1>9. Lives(u) => Head(toClient'[c]).kind = kind
    BY <1>6, <1>8
<1>10. \A d \in Conn : \A i \in DOMAIN toServer'[d] :
            \E l \in DOMAIN toServer[d] : toServer'[d][i] = toServer[d][l]
    <2> SUFFICES ASSUME NEW d \in Conn, NEW i \in DOMAIN toServer'[d]
                 PROVE  \E l \in DOMAIN toServer[d] : toServer'[d][i] = toServer[d][l]
        OBVIOUS
    <2>1. CASE d = c
        BY <1>2, <2>1
    <2>2. CASE d # c
        BY <1>2, <2>2
    <2>3. QED
        BY <2>1, <2>2
<1> HIDE DEF c, m, u
<1>11. ASSUME NEW t \in Teams, Own(t)
       PROVE  Member(t)'
    <2>1. UNCHANGED <<step, registered, conn(t), request(t)>> /\ (Leaving(t) <=> Leaving(t)')
        BY DEF teamVars, conn, call, request, Leaving
    <2>2. Member(t) /\ t \notin Mortal
        BY <1>11 DEF MInv, Own
    <2>3. step[t] = "waiting" => pos[t] \in DOMAIN Script[t]
        BY DEF IInv, CallsOK, InCall
    <2>4. CASE t = u /\ Lives(u)
        <3>1. ~Answered(t)
            BY <1>4, <1>6, <2>2, <2>4 DEF Answered
        <3>2. registered[t] /\ ~Leaving(t) => { Received[n] : n \in TeamNames(t) } \subseteq teams_names'
            <4>1. ~Leaving(t) => teams_names \subseteq teams_names'
                BY <1>4, <1>6, <1>7, <2>2, <2>4 DEF Leaving
            <4>2. QED
                BY <2>2, <4>1 DEF Member
        <3>3. kind = "TEAM REGISTERED" => Received[request(t).name] \in teams_names'
            BY <1>6, <1>7, <2>2, <2>4
        <3>4. Head(toClient'[conn(t)]).kind = kind
            BY <1>4, <1>9, <2>2, <2>4
        <3>5. QED
            BY <2>1, <3>2, <3>3, <3>4 DEF Member
    <2>5. CASE step[t] = "aborted"
        BY <2>1, <2>5 DEF Member, Answered, Leaving
    <2>6. CASE t # u
        <3>1. ASSUME NEW n \in TeamNames(t), Received[n] \in teams_names
              PROVE  Received[n] \in teams_names'
            <4>1. CASE teams_names \subseteq teams_names'
                BY <3>1, <4>1
            <4>2. CASE m.verb = "DEREGISTER TEAM" /\ teams_names' = teams_names \ {Received[m.name]}
                <5>1. m.name \in TeamNames(u)
                    BY <1>4, <4>2
                <5>2. m.name # n
                    BY <1>3, <1>11, <2>6, <5>1 DEF Own
                <5>3. m.name \in Names /\ n \in Names
                    BY <1>2, TeamNamesType DEF Message
                <5>4. Received[m.name] # Received[n]
                    BY <5>2, <5>3, ReceivedAssumption
                <5>5. QED
                    BY <3>1, <4>2, <5>4
            <4>3. QED
                BY <1>7, <4>1, <4>2
        <3>2. conn(t) # c
            BY <2>6 DEF conn, u
        <3>3. ASSUME Answered(t)', Head(toClient'[conn(t)]).kind = "TEAM REGISTERED"
              PROVE  Received[request(t).name] \in teams_names'
            <4>1. step[t] = "waiting" /\ conn(t) \in Conn
                BY <2>1, <3>3, connLemma DEF Answered, InCall, IInv, TypeOK
            <4>2. toClient'[conn(t)] = toClient[conn(t)]
                BY <1>8, <3>2, <4>1
            <4>3. Answered(t) /\ Head(toClient[conn(t)]).kind = "TEAM REGISTERED"
                BY <2>1, <3>3, <4>1, <4>2 DEF Answered
            <4>4. request(t).verb = "REGISTER TEAM"
                BY <4>3, RegisteredLemma
            <4>5. request(t).name \in TeamNames(t)
                BY <2>3, <4>1, <4>4, TeamNamesLemma
            <4>6. QED
                BY <2>2, <3>1, <4>3, <4>5 DEF Member
        <3>4. QED
            BY <2>1, <2>2, <3>1, <3>3 DEF Member
    <2>7. QED
        BY <2>2, <2>4, <2>5, <2>6 DEF Lives
<1>12. Unread' /\ AllAsked'
    BY <1>10, UnreadKept
<1>13. QED
    BY <1>11, <1>12 DEF MInv, Own

\* A step of the server that answers nothing keeps the members; an exception takes a
\* message, and what is behind it stays where it is.
LEMMA QuietMInv ==
    ASSUME MInv, UNCHANGED <<teamVars, toClient, teams_names>>,
           \A c \in Conn : \A k \in DOMAIN toServer'[c] :
                \E l \in DOMAIN toServer[c] : toServer'[c][k] = toServer[c][l]
    PROVE  MInv'
<1>1. Unread' /\ AllAsked'
    BY UnreadKept
<1>2. \A t \in Teams : Member(t) => Member(t)'
    BY DEF Member, Leaving, Answered, conn, request, call, teamVars
<1>3. QED
    BY <1>1, <1>2 DEF MInv, Own

\* The exception of the listener is such a step.
LEMMA OnReadThrowsMInv ==
    ASSUME IInv, PInv, MInv, OnReadThrows, UNCHANGED teamVars
    PROVE  MInv'
<1>1. PICK k \in Due : Read(k) /\ UNCHANGED <<toClient, teams_names>>
    BY DEF OnReadThrows
<1>2. ASSUME NEW c \in Conn, NEW i \in DOMAIN toServer'[c]
      PROVE  \E l \in DOMAIN toServer[c] : toServer'[c][i] = toServer[c][l]
    <2>1. CASE c = group[k]
        BY <1>1, <2>1, ReadTakes
    <2>2. CASE c # group[k]
        BY <1>1, <2>2, ReadTakes
    <2>3. QED
        BY <2>1, <2>2
<1>3. QED
    BY <1>1, <1>2, QuietMInv

\* A step of one process keeps what the others know of their membership.
LEMMA OthersMembers ==
    ASSUME IInv, NEW t \in Teams, NEW u \in Teams \ {t}, Member(u), UNCHANGED serverVars,
           UNCHANGED <<step[u], pos[u], session[u], registered[u]>>,
           \A c \in Conn : c # conn(t) => toClient'[c] = toClient[c]
    PROVE  Member(u)'
<1>1. UNCHANGED <<conn(u), request(u), teams_names>> /\ (Leaving(u) <=> Leaving(u)')
    BY DEF conn, request, call, Leaving, serverVars
<1>2. ASSUME Answered(u)' PROVE Answered(u) /\ toClient'[conn(u)] = toClient[conn(u)]
    <2>1. step[u] = "waiting"
        BY <1>2 DEF Answered
    <2>2. conn(u) \in Conn /\ conn(u) # conn(t)
        BY <2>1, connLemma, ConnOther DEF InCall, IInv, TypeOK
    <2>3. toClient'[conn(u)] = toClient[conn(u)]
        BY <2>2
    <2>4. QED
        BY <1>1, <1>2, <2>1, <2>3 DEF Answered
<1>3. QED
    BY <1>1, <1>2 DEF Member

\* A step that leaves a process without an answer to take: what it has sent and can be
\* read is a request it waits for, and what it knows of its membership is so, unless it
\* may be killed.
LEMMA TeamMInv ==
    ASSUME IInv, MInv, NEW t \in Teams, UNCHANGED serverVars,
           \A u \in Teams \ {t} : UNCHANGED <<step[u], pos[u], session[u], registered[u]>>,
           \A c \in Conn : c # conn(t) => toClient'[c] = toClient[c],
           \A c \in Conn : c[1] # t => toServer'[c] = toServer[c],
           \A c \in Conn : \A k \in DOMAIN toServer'[c] : c[1] = t =>
                /\ Asked(c, toServer'[c][k])
                /\ t \notin Mortal /\ step'[t] # "aborted" /\ toServer'[c][k].verb # "INVALID"
                        => c = conn(t)' /\ step'[t] = "waiting",
           Own(t) => ~Answered(t)',
           Own(t) /\ registered'[t] /\ ~Leaving(t)' =>
                { Received[n] : n \in TeamNames(t) } \subseteq teams_names
    PROVE  MInv'
<1>1. Unread' /\ AllAsked'
    <2> SUFFICES ASSUME NEW c \in Conn, NEW k \in DOMAIN toServer'[c]
                 PROVE  /\ Lives(c[1])' /\ toServer'[c][k].verb # "INVALID"
                                => c = conn(c[1])' /\ step'[c[1]] = "waiting"
                        /\ Asked(c, toServer'[c][k])
        BY DEF Unread, AllAsked, Asked
    <2>1. CASE c[1] = t
        BY <2>1 DEF Lives
    <2>2. CASE c[1] # t
        <3>1. c[1] \in Teams \ {t}
            BY <2>2 DEF Conn
        <3>2. /\ Lives(c[1]) /\ toServer'[c][k].verb # "INVALID"
                    => c = conn(c[1]) /\ step[c[1]] = "waiting"
              /\ Asked(c, toServer'[c][k])
            BY <2>2 DEF MInv, Unread, AllAsked
        <3>3. QED
            BY <3>1, <3>2 DEF conn, Lives
    <2>3. QED
        BY <2>1, <2>2
<1>2. ASSUME NEW u \in Teams, Own(u) PROVE Member(u)'
    <2>1. CASE u = t
        BY <1>2, <2>1 DEF Member, serverVars
    <2>2. CASE u # t
        BY <1>2, <2>2, OthersMembers DEF MInv
    <2>3. QED
        BY <2>1, <2>2
<1>3. QED
    BY <1>1, <1>2 DEF MInv, Own

\* A process that lives and does not wait has left nothing that can be read.
LEMMA IdleUnread ==
    ASSUME IInv, PInv, MInv, NEW t \in Teams \ Mortal, step[t] # "waiting" \/ Answered(t),
           step[t] # "aborted",
           NEW c \in Conn, c[1] = t, NEW k \in DOMAIN toServer[c]
    PROVE  toServer[c][k].verb = "INVALID"
<1>1. CASE step[t] # "waiting"
    BY <1>1 DEF MInv, Unread, Lives
<1>2. CASE Answered(t) /\ c = conn(t)
    <2>1. StrayFrom(1, toServer[c])
        BY <1>2, AnsweredLemma DEF AnswerWaits
    <2>2. k >= 1
        <3>1. \A n \in 1 .. Len(toServer[c]) : n >= 1
            OBVIOUS
        <3>2. toServer[c] \in Seq(Message)
            BY DEF IInv, TypeOK, NetTypeOK
        <3>3. k \in 1 .. Len(toServer[c])
            BY <3>2, LenProperties
        <3>4. QED
            BY <3>1, <3>3
    <2>3. QED
        BY <2>1, <2>2 DEF StrayFrom
<1>3. CASE c # conn(t)
    BY <1>3 DEF MInv, Unread, Lives
<1>4. QED
    BY <1>1, <1>2, <1>3

\* The end of a call, a connection that is opened or refused and an answer that ends
\* the process leave the members.
LEMMA LeavesMInv ==
    ASSUME IInv, PInv, MInv, NEW t \in Teams, UNCHANGED serverVars,
           \/ connect(t) \/ connectRefused(t) \/ receiveUnusable(t) \/ disconnect(t)
    PROVE  MInv'
<1>1. /\ step \in [Teams -> Steps] /\ pos \in [Teams -> Nat \ {0}]
      /\ session \in [Teams -> 0 .. MaxSessions]
    BY DEF IInv, TypeOK, TeamTypeOK
<1>2. UNCHANGED <<registered, toServer, toClient>>
    BY DEF connect, connectRefused, receiveUnusable, disconnect, netVars
<1>3. PICK s \in {"connected", "aborted", "done", "idle"} : Goto(t, s)
    BY DEF connect, connectRefused, receiveUnusable, disconnect
<1>4. /\ step'[t] \notin {"waiting", "answered"}
      /\ \A u \in Teams \ {t} : step'[u] = step[u]
    BY <1>1, <1>3 DEF Goto
<1>5. \A u \in Teams \ {t} : pos'[u] = pos[u] /\ session'[u] = session[u]
    BY <1>1 DEF connect, connectRefused, receiveUnusable, disconnect
<1>6. (step[t] # "waiting" \/ Answered(t)) /\ step[t] # "aborted"
    BY DEF connect, connectRefused, receiveUnusable, disconnect, Answered
<1>7. ~Leaving(t)
    <2>1. CASE receiveUnusable(t)
        <3>1. Head(toClient[conn(t)]).kind = "TIMETABLE" /\ Answered(t)
            BY <2>1, AnsweredLemma DEF receiveUnusable, Unusable, AnswerWaits
        <3>2. "TIMETABLE" \in Answers[request(t).verb]
            BY <3>1, AnsweredLemma DEF AnswerWaits
        <3>3. QED
            BY <1>6, <3>2 DEF Answers, Verbs, Leaving
    <2>2. CASE step[t] # "waiting"
        BY <1>6, <2>2 DEF Leaving
    <2>3. QED
        BY <2>1, <2>2 DEF connect, connectRefused, disconnect
<1>8. ~Answered(t)'
    BY <1>4 DEF Answered
<1>9. Own(t) /\ registered'[t] => { Received[n] : n \in TeamNames(t) } \subseteq teams_names
    BY <1>2, <1>7 DEF MInv, Member
<1>10. \A c \in Conn : \A k \in DOMAIN toServer'[c] : c[1] = t =>
            /\ Asked(c, toServer'[c][k])
            /\ t \notin Mortal => toServer'[c][k].verb = "INVALID"
    BY <1>2, <1>6, IdleUnread DEF MInv, AllAsked
<1>11. QED
    BY <1>2, <1>4, <1>5, <1>8, <1>9, <1>10, TeamMInv

\* So does the empty message of an earlier call: the process is gone.
LEMMA receiveEmptyMInv ==
    ASSUME IInv, PInv, MInv, NEW t \in Teams, UNCHANGED serverVars, receiveEmpty(t)
    PROVE  MInv'
<1>1. /\ step' = [step EXCEPT ![t] = "aborted"]
      /\ UNCHANGED <<pos, session, registered, toServer, toClient>>
    BY DEF receiveEmpty, Goto
<1>2. step'[t] = "aborted" /\ \A u \in Teams \ {t} : step'[u] = step[u]
    BY <1>1 DEF IInv, TypeOK, TeamTypeOK
<1>3. ~Answered(t)' /\ Leaving(t)'
    BY <1>2 DEF Answered, Leaving
<1>4. \A c \in Conn : \A k \in DOMAIN toServer'[c] : Asked(c, toServer'[c][k])
    BY <1>1 DEF MInv, AllAsked
<1>5. QED
    BY <1>1, <1>2, <1>3, <1>4, TeamMInv

\* So does a request that is sent: now the process waits.
LEMMA sendMessageMInv ==
    ASSUME IInv, PInv, MInv, NEW t \in Teams, sendMessage(t), UNCHANGED serverVars
    PROVE  MInv'
<1>1. PICK messages \in Wire(call(t)) :
            toServer' = [toServer EXCEPT ![conn(t)] = @ \o messages]
    BY DEF sendMessage
<1>2. /\ step[t] = "connected" /\ step' = [step EXCEPT ![t] = "waiting"]
      /\ UNCHANGED <<pos, session, registered, toClient, conn(t)>>
    BY DEF sendMessage, Goto, conn
<1>3. step \in [Teams -> Steps] /\ toServer \in [Conn -> Seq(Message)]
    BY DEF IInv, TypeOK, NetTypeOK, TeamTypeOK
<1>4. /\ step'[t] = "waiting" /\ \A u \in Teams \ {t} : step'[u] = step[u]
      /\ \A c \in Conn : c # conn(t) => toServer'[c] = toServer[c]
    BY <1>1, <1>2, <1>3
<1>5. ~Answered(t)'
    BY <1>2 DEF Answered, PInv, CallOK
<1>6. \A c \in Conn : \A k \in DOMAIN toServer'[c] :
            t \notin Mortal /\ c[1] = t /\ toServer'[c][k].verb # "INVALID" => c = conn(t)'
    BY <1>2, <1>4, IdleUnread
<1>7. Own(t) /\ registered'[t] => { Received[n] : n \in TeamNames(t) } \subseteq teams_names
    BY <1>2 DEF MInv, Member, Leaving
<1>8. \A c \in Conn : c[1] # t => toServer'[c] = toServer[c]
    BY <1>4 DEF conn
<1>9. \A c \in Conn : \A k \in DOMAIN toServer'[c] : Asked(c, toServer'[c][k])
    <2> SUFFICES ASSUME NEW c \in Conn, NEW k \in DOMAIN toServer'[c]
                 PROVE  Asked(c, toServer'[c][k])
        OBVIOUS
    <2>1. CASE c # conn(t)
        BY <1>4, <2>1 DEF MInv, AllAsked
    <2>2. CASE c = conn(t)
        <3>1. pos[t] \in DOMAIN Script[t]
            BY <1>2 DEF IInv, CallsOK, InCall
        <3>2. toServer[conn(t)] = <<>>
            BY <1>2 DEF PInv, CallOK
        <3>3. messages \in Seq(Message)
            BY <3>1, WireLemma
        <3>4. toServer'[c] = messages
            BY <1>1, <1>3, <2>2, <3>2, <3>3, ConcatEmptySeq
        <3>5. k \in DOMAIN messages /\ messages # <<>> /\ (k = 1 \/ k >= 2)
            BY <3>3, <3>4, LenProperties
        <3>6. Asks(t, Head(messages)) /\ StrayFrom(2, messages)
            BY <3>1, <3>5, WireShape
        <3>7. CASE k = 1
            <4>1. toServer'[c][k] = Head(messages) /\ c[1] = t
                BY <2>2, <3>3, <3>4, <3>5, <3>7 DEF conn
            <4>2. /\ Head(messages).verb \in {request(t).verb, "INVALID"}
                  /\ Head(messages).name = request(t).name
                BY <3>6 DEF Asks
            <4>3. QED
                BY <3>1, <4>1, <4>2, TeamNamesLemma DEF Asked
        <3>8. CASE k >= 2
            BY <3>4, <3>5, <3>6, <3>8 DEF StrayFrom, Asked
        <3>9. QED
            BY <3>5, <3>7, <3>8
    <2>3. QED
        BY <2>1, <2>2
<1>10. QED
    BY <1>2, <1>4, <1>5, <1>6, <1>7, <1>8, <1>9, TeamMInv

\* A process that takes "TEAM REGISTERED" is a member.
LEMMA receiveMInv ==
    ASSUME OneName, IInv, PInv, MInv, NEW t \in Teams, receive(t), UNCHANGED serverVars
    PROVE  MInv'
<1> DEFINE kind == Head(toClient[conn(t)]).kind
<1>1. /\ Answered(t)
      /\ toClient' = [toClient EXCEPT ![conn(t)] = Tail(@)]
      /\ registered' = [registered EXCEPT ![t] =
            IF kind = "TEAM REGISTERED" THEN TRUE
            ELSE IF request(t).verb = "DEREGISTER TEAM" THEN FALSE ELSE @]
      /\ step' = [step EXCEPT ![t] = "answered"]
      /\ UNCHANGED <<pos, session, toServer>>
    BY DEF receive, Goto
<1>2. /\ step \in [Teams -> Steps] /\ toClient \in [Conn -> Seq(Answer)]
      /\ registered \in [Teams -> BOOLEAN]
    BY DEF IInv, TypeOK, NetTypeOK, TeamTypeOK
<1>3. /\ step'[t] = "answered"
      /\ \A u \in Teams \ {t} : step'[u] = step[u]
      /\ \A c \in Conn : c # conn(t) => toClient'[c] = toClient[c]
    BY <1>1, <1>2
<1>4. /\ \A u \in Teams \ {t} : registered'[u] = registered[u]
      /\ registered'[t] => \/ kind = "TEAM REGISTERED"
                           \/ registered[t] /\ request(t).verb # "DEREGISTER TEAM"
    <2> HIDE DEF kind
    <2>1. \A u \in Teams \ {t} : registered'[u] = registered[u]
        BY <1>1, <1>2
    <2>2. registered'[t] = IF kind = "TEAM REGISTERED" THEN TRUE
                           ELSE IF request(t).verb = "DEREGISTER TEAM" THEN FALSE
                           ELSE registered[t]
        BY <1>1, <1>2
    <2>3. QED
        BY <2>1, <2>2
<1>5. ASSUME Own(t), registered'[t]
      PROVE  { Received[n] : n \in TeamNames(t) } \subseteq teams_names
    <2>1. CASE kind = "TEAM REGISTERED"
        <3>1. request(t).verb = "REGISTER TEAM" /\ pos[t] \in DOMAIN Script[t]
            BY <1>1, <2>1, RegisteredLemma DEF IInv, CallsOK, Answered, InCall
        <3>2. request(t).name \in TeamNames(t)
            BY <3>1, TeamNamesLemma
        <3>3. Received[request(t).name] \in teams_names
            BY <1>1, <1>5, <2>1 DEF MInv, Member
        <3>4. QED
            BY <3>2, <3>3 DEF OneName
    <2>2. CASE registered[t] /\ request(t).verb # "DEREGISTER TEAM"
        BY <1>1, <1>5, <2>2 DEF MInv, Member, Leaving, Answered
    <2>3. QED
        BY <1>4, <1>5, <2>1, <2>2
<1>6. ~Answered(t)'
    BY <1>3 DEF Answered
<1>7. \A c \in Conn : \A k \in DOMAIN toServer'[c] : c[1] = t =>
            /\ Asked(c, toServer'[c][k])
            /\ t \notin Mortal => toServer'[c][k].verb = "INVALID"
    BY <1>1, IdleUnread DEF MInv, AllAsked, Answered
<1>8. \A u \in Teams \ {t} : UNCHANGED <<step[u], pos[u], session[u], registered[u]>>
    BY <1>1, <1>3, <1>4
<1>9. /\ toServer' = toServer
      /\ \A c \in Conn : c # conn(t) => toClient'[c] = toClient[c]
    BY <1>1, <1>3
<1> HIDE DEF kind
<1>10. QED
    BY <1>5, <1>6, <1>7, <1>8, <1>9, TeamMInv

\* A process that is killed or run again may leave a request behind; the members that
\* nobody kills stay.
LEMMA KillMInv ==
    ASSUME IInv, MInv, NEW t \in Teams, Kill(t) \/ Restart(t), UNCHANGED serverVars
    PROVE  MInv'
<1>1. t \in Mortal /\ UNCHANGED <<session, toServer, toClient>>
    BY DEF Kill, Restart, netVars
<1>2. \A u \in Teams \ {t} : UNCHANGED <<step[u], pos[u], registered[u]>>
    BY DEF Kill, Restart, Goto, IInv, TypeOK, TeamTypeOK
<1>3. ~Own(t) /\ \A c \in Conn : \A k \in DOMAIN toServer[c] : Asked(c, toServer[c][k])
    BY <1>1 DEF Own, MInv, AllAsked
<1>4. QED
    BY <1>1, <1>2, <1>3, TeamMInv

\* Every step keeps the members.
LEMMA NextMInv ==
    ASSUME OneName
    PROVE  IInv /\ PInv /\ MInv /\ [Next]_vars => MInv'
<1> SUFFICES ASSUME IInv, PInv, MInv, [Next]_vars PROVE MInv'
    OBVIOUS
<1>1. CASE OnRead /\ UNCHANGED teamVars
    BY <1>1, OnReadMInv
<1>2. CASE OnReadThrows /\ UNCHANGED teamVars
    BY <1>2, OnReadThrowsMInv
<1>3. CASE (Start \/ Select \/ OnAccept \/ OnDisconnect) /\ UNCHANGED teamVars
    <2>1. UNCHANGED <<toServer, toClient, teams_names>>
        BY <1>3 DEF Start, Select, OnAccept, OnDisconnect, netVars
    <2>2. QED
        BY <1>3, <2>1, QuietMInv
<1>4. ASSUME NEW t \in Teams, Process(t), UNCHANGED serverVars
      PROVE  MInv'
    BY <1>4, LeavesMInv, receiveEmptyMInv, sendMessageMInv, receiveMInv DEF Process, callStep
<1>5. ASSUME NEW t \in Teams, Kill(t) \/ Restart(t), UNCHANGED serverVars
      PROVE  MInv'
    BY <1>5, KillMInv
<1>6. CASE UNCHANGED vars
    <2>1. UNCHANGED <<teamVars, toServer, toClient, teams_names>>
        BY <1>6 DEF vars, netVars, serverVars
    <2>2. QED
        BY <2>1, QuietMInv
<1>7. QED
    BY <1>1, <1>2, <1>3, <1>4, <1>5, <1>6 DEF Next, Server, listener

\* A team that was told it is registered stays a member until it asks to leave or its
\* process ends, for any scripts in which every team has one name: the requests of the others, what their
\* processes leave behind when they are killed, the order of the passes and the
\* exception of the listener do not matter.
THEOREM MembersStay ==
    ASSUME OneName
    PROVE  Spec => []MembersHold
<1>1. MInv => MembersHold
    <2> SUFFICES ASSUME MInv, NEW t \in Teams, registered[t], ~Leaving(t), Own(t)
                 PROVE  { Received[n] : n \in TeamNames(t) } \subseteq teams_names
        BY DEF MembersHold, Leaving, Own
    <2>1. QED
        BY DEF MInv, Member
<1>2. IInv /\ PInv /\ MInv /\ [Next]_vars => MInv'
    BY NextMInv
<1>3. QED
    BY <1>1, <1>2, InitMInv, InductiveInvariant, RequestsInvariant, PTL DEF Spec
-----------------------------------------------------------------------------
(* The answers, as Registry sees them. *)

Service == IF is_listening THEN "open" ELSE IF running THEN "broken" ELSE "closed"

Seen(a) == [kind |-> a.kind, slots |-> SlotsOf(deserialize(a.body))]

Told(queue) == [k \in DOMAIN queue |-> Seen(queue[k])]

answers == [c \in Conn |-> Told(toClient[c])]

\* An answer that is added is added, and the oldest is the oldest.
LEMMA ToldLemma ==
    ASSUME NEW queue \in Seq(Answer)
    PROVE  /\ \A a \in Answer : Told(Append(queue, a)) = Append(Told(queue), Seen(a))
           /\ queue # <<>> => Told(queue) # <<>> /\ Told(Tail(queue)) = Tail(Told(queue))
           /\ queue = <<>> => Told(queue) = <<>>
<1> DEFINE n == Len(queue)
           S == { Seen(a) : a \in Answer }
           told == Told(queue)
<1>1. /\ n \in Nat /\ DOMAIN queue = 1 .. n
      /\ \A k \in 1 .. n : queue[k] \in Answer
    BY LenProperties
<1>2. told = [k \in 1 .. n |-> Seen(queue[k])]
    BY <1>1 DEF Told
<1>3. told \in Seq(S) /\ Len(told) = n
    BY <1>1, <1>2
<1>4. ASSUME NEW a \in Answer
      PROVE  Told(Append(queue, a)) = Append(told, Seen(a))
    <2> DEFINE longer == Append(queue, a)
    <2>1. /\ longer \in Seq(Answer) /\ DOMAIN longer = 1 .. n + 1
          /\ \A k \in 1 .. n : longer[k] = queue[k]
          /\ longer[n + 1] = a
        BY <1>1, LenProperties, AppendProperties
    <2>2. Seen(a) \in S
        OBVIOUS
    <2>3. /\ Append(told, Seen(a)) \in Seq(S) /\ DOMAIN Append(told, Seen(a)) = 1 .. n + 1
          /\ \A k \in 1 .. n : Append(told, Seen(a))[k] = told[k]
          /\ Append(told, Seen(a))[n + 1] = Seen(a)
        BY <1>1, <1>3, <2>2, LenProperties, AppendProperties
    <2> HIDE DEF told, S, longer
    <2>4. Told(longer) = [k \in 1 .. n + 1 |-> Seen(longer[k])]
        BY <2>1 DEF Told
    <2>5. \A k \in 1 .. n + 1 : k \in 1 .. n \/ k = n + 1
        BY <1>1
    <2>6. \A k \in 1 .. n + 1 : Seen(longer[k]) = Append(told, Seen(a))[k]
        BY <1>2, <2>1, <2>3, <2>5
    <2>7. Append(told, Seen(a)) = [k \in 1 .. n + 1 |-> Append(told, Seen(a))[k]]
        BY <2>3, LenProperties
    <2>8. QED
        BY <2>4, <2>6, <2>7 DEF longer
<1>5. ASSUME queue # <<>>
      PROVE  told # <<>> /\ Told(Tail(queue)) = Tail(told)
    <2>1. n # 0
        BY <1>1, <1>5, EmptySeq
    <2>2. told # <<>>
        BY <1>3, <2>1
    <2>3. /\ DOMAIN Tail(queue) = 1 .. n - 1 /\ \A k \in 1 .. n - 1 : Tail(queue)[k] = queue[k + 1]
          /\ DOMAIN Tail(told) = 1 .. n - 1 /\ \A k \in 1 .. n - 1 : Tail(told)[k] = told[k + 1]
          /\ Tail(told) \in Seq(S)
        BY <1>1, <1>3, <1>5, <2>2, LenProperties, HeadTailProperties
    <2>4. \A k \in 1 .. n - 1 : k + 1 \in 1 .. n
        BY <1>1
    <2> HIDE DEF told, S
    <2>5. Told(Tail(queue)) = [k \in 1 .. n - 1 |-> Tail(told)[k]]
        BY <1>2, <2>3, <2>4 DEF Told
    <2>6. Tail(told) = [k \in 1 .. n - 1 |-> Tail(told)[k]]
        BY <2>3, LenProperties
    <2>7. QED
        BY <2>2, <2>5, <2>6
<1>6. queue = <<>> => told = <<>>
    BY <1>2
<1>7. QED
    BY <1>4, <1>5, <1>6

\* An empty body shows empty slots.
LEMMA NothingLemma == SlotsOf(deserialize(<<>>)) = R!Nothing
<1>1. \A track, time : Booked(deserialize(<<>>), track, time) = {}
    BY DEF deserialize, Booked, Matching
<1>2. QED
    BY <1>1 DEF SlotsOf, R!Nothing, R!Slot

\* The answer of the object, in these terms.
Gives(c, kind, table) ==
    answers' = [answers EXCEPT ![c] = Append(@, [kind |-> kind, slots |-> table])]

\* An answer that a handler sends is an answer of the object.
LEMMA answerMaps ==
    ASSUME IInv, NEW c \in Conn, NEW kind \in Kinds, NEW body \in Seq(JSONEntry),
           answer(c, kind, body)
    PROVE  Gives(c, kind, SlotsOf(deserialize(body)))
<1> DEFINE a == [kind |-> kind, body |-> body]
<1>1. a \in Answer /\ toClient \in [Conn -> Seq(Answer)]
    BY DEF Answer, IInv, TypeOK, NetTypeOK
<1>2. toClient' = [toClient EXCEPT ![c] = Append(toClient[c], a)]
    BY <1>1 DEF answer
<1>3. Seen(a) = [kind |-> kind, slots |-> SlotsOf(deserialize(body))]
    BY DEF Seen
<1> HIDE DEF a
<1>4. Told(Append(toClient[c], a)) = Append(Told(toClient[c]), Seen(a))
    BY <1>1, ToldLemma
<1>5. /\ toClient'[c] = Append(toClient[c], a)
      /\ \A d \in Conn \ {c} : toClient'[d] = toClient[d]
    BY <1>1, <1>2
<1>6. answers' = [answers EXCEPT ![c] = Append(@, Seen(a))]
    <2>1. answers' = [d \in Conn |-> Told(toClient'[d])]
        BY DEF answers, Told, Seen, SlotsOf
    <2>2. \A d \in Conn : Told(toClient'[d]) = [answers EXCEPT ![c] = Append(@, Seen(a))][d]
        BY <1>4, <1>5 DEF answers
    <2>3. DOMAIN answers = Conn
        BY DEF answers
    <2> HIDE DEF answers
    <2>4. QED
        BY <2>1, <2>2, <2>3
<1>7. QED
    BY <1>3, <1>6 DEF Gives

WithBooked(slots, track, time, name) ==
    [slots EXCEPT ![<<track, time>>] = @ \cup {name}]

\* addTarakan adds the name to its slot, and changes no other.
LEMMA addTarakanSlots ==
    ASSUME timetable \in Seq(Entry), DistinctSlots(timetable),
           NEW name \in Names, NEW strategies \in Nat,
           NEW track \in Tracks, NEW time \in Times,
           timetable' = addTarakan(timetable, name, strategies, track, time)
    PROVE  SlotsOf(timetable)' = WithBooked(SlotsOf(timetable), track, time, name)
<1>1. ASSUME NEW tr \in Tracks, NEW ti \in Times
      PROVE  Booked(timetable', tr, ti) =
                IF tr = track /\ ti = time THEN Booked(timetable, tr, ti) \cup {name}
                                           ELSE Booked(timetable, tr, ti)
    BY addTarakanLemma
<1>2. ASSUME NEW s \in Tracks \X Times
      PROVE  SlotsOf(timetable')[s] =
                WithBooked(SlotsOf(timetable), track, time, name)[s]
    <2>1. s[1] \in Tracks /\ s[2] \in Times /\ s = <<s[1], s[2]>>
        OBVIOUS
    <2>2. s = <<track, time>> <=> s[1] = track /\ s[2] = time
        BY <2>1
    <2>3. QED
        BY <1>1, <2>1, <2>2 DEF SlotsOf, WithBooked
<1>3. QED
    BY <1>2 DEF SlotsOf, WithBooked

\* Every handler does at once what the object does with the request.
LEMMA handlerMaps ==
    ASSUME IInv, NEW m \in Message, NEW c \in Conn, messageHandler(m, c)
    PROVE  \/ m.verb = "REGISTER TEAM"     /\ R!Enter(c, Received[m.name])
           \/ m.verb = "DEREGISTER TEAM"   /\ R!Leave(c, Received[m.name])
           \/ m.verb = "REGISTER TARAKAN"  /\ R!Book(c, Received[m.name], <<m.track, m.time>>)
           \/ m.verb = "REQUEST TIMETABLE" /\ R!Show(c)
<1> DEFINE name == Received[m.name]
<1>1. /\ timetable \in Seq(Entry) /\ DistinctSlots(timetable)
      /\ name \in Names /\ m.track \in Tracks /\ m.time \in Times
    BY ReceivedAssumption DEF IInv, TypeOK, ServerTypeOK, EntriesDistinct, Message
<1>2. \A kind \in Kinds : answer(c, kind, <<>>) => Gives(c, kind, R!Nothing)
    <2>1. <<>> \in Seq(JSONEntry)
        OBVIOUS
    <2>2. QED
        BY <2>1, answerMaps, NothingLemma
<1>3. timetable' = timetable => SlotsOf(timetable)' = SlotsOf(timetable)
    BY DEF SlotsOf
<1>4. CASE m.verb = "REQUEST TIMETABLE" /\ handleTimetableRequest(c)
    <2>1. serialize(timetable) \in Seq(JSONEntry) /\ deserialize(serialize(timetable)) = timetable
        BY <1>1, RoundTrip
    <2>2. Gives(c, "TIMETABLE", SlotsOf(timetable))
        BY <1>4, <2>1, answerMaps, KindsLemma DEF handleTimetableRequest
    <2>3. QED
        BY <1>3, <1>4, <2>2 DEF handleTimetableRequest, R!Show, R!Answer, Gives, answers, Told, Seen
<1>5. CASE m.verb = "REGISTER TEAM" /\ handleTeamRegistration(m, c)
    <2>1. CASE name \notin teams_names
        BY <1>2, <1>3, <1>5, <2>1, KindsLemma DEF handleTeamRegistration, R!Enter, R!Answer, Gives, answers, Told, Seen
    <2>2. CASE name \in teams_names
        BY <1>2, <1>3, <1>5, <2>2, KindsLemma DEF handleTeamRegistration, R!Enter, R!Answer, Gives, answers, Told, Seen
    <2>3. QED
        BY <1>5, <2>1, <2>2
<1>6. CASE m.verb = "DEREGISTER TEAM" /\ handleTeamDeregistration(m, c)
    <2>1. CASE name \in teams_names
        BY <1>2, <1>3, <1>6, <2>1, KindsLemma DEF handleTeamDeregistration, R!Leave, R!Answer, Gives, answers, Told, Seen
    <2>2. CASE name \notin teams_names
        BY <1>2, <1>3, <1>6, <2>2, KindsLemma DEF handleTeamDeregistration, R!Leave, R!Answer, Gives, answers, Told, Seen
    <2>3. QED
        BY <1>6, <2>1, <2>2
<1>7. CASE m.verb = "REGISTER TARAKAN" /\ handleTarakanRegistration(m, c)
    <2> DEFINE booked0 == SlotsOf(timetable)[<<m.track, m.time>>]
    <2>1. booked0 = Booked(timetable, m.track, m.time)
        BY <1>1 DEF SlotsOf
    <2>2. isFree(timetable, m.track, m.time) <=> Cardinality(booked0) < SlotSize
        BY <1>1, <2>1, isFreeLemma
    <2>3. CASE isFree(timetable, m.track, m.time)
        <3>1. /\ timetable' = addTarakan(timetable, name, 0, m.track, m.time)
              /\ answer(c, "TARAKAN REGISTERED", <<>>) /\ UNCHANGED teams_names
            BY <1>7, <2>3 DEF handleTarakanRegistration
        <3>2. 0 \in Nat
            OBVIOUS
        <3>3. SlotsOf(timetable)' = WithBooked(SlotsOf(timetable), m.track, m.time, name)
            BY <1>1, <3>1, <3>2, addTarakanSlots, Zenon
        <3>4. Gives(c, "TARAKAN REGISTERED", R!Nothing)
            BY <1>2, <3>1, KindsLemma
        <3>5. R!Book(c, name, <<m.track, m.time>>)
            BY <2>2, <2>3, <3>1, <3>3, <3>4 DEF WithBooked, R!Book, R!Answer,
                R!Cardinality, Cardinality, Gives, answers, Told, Seen
        <3>6. QED
            BY <1>7, <3>5
    <2>4. CASE ~isFree(timetable, m.track, m.time)
        <3>1. timetable' = timetable /\ answer(c, "TRACK BUSY", <<>>) /\ UNCHANGED teams_names
            BY <1>7, <2>4 DEF handleTarakanRegistration
        <3>2. Gives(c, "TRACK BUSY", R!Nothing)
            BY <1>2, <3>1, KindsLemma
        <3>3. R!Book(c, name, <<m.track, m.time>>)
            BY <1>3, <2>2, <2>4, <3>1, <3>2 DEF R!Book, R!Answer,
                R!Cardinality, Cardinality, Gives, answers, Told, Seen
        <3>4. QED
            BY <1>7, <3>3
    <2>5. QED
        BY <2>3, <2>4
<1>8. QED
    BY <1>4, <1>5, <1>6, <1>7 DEF messageHandler

-----------------------------------------------------------------------------
(* The steps. *)

\* The system begins as the object does.
LEMMA InitMaps == Init => R!Init
<1> SUFFICES ASSUME Init PROVE R!Init
    OBVIOUS
<1> USE DEF Init, NetInit, ServerInit, TeamInit
<1>1. Service = "closed" /\ teams_names = {} /\ toServer = [c \in Conn |-> <<>>]
    BY DEF Service
<1>2. SlotsOf(timetable) = [s \in R!Slot |-> {}]
    BY DEF SlotsOf, Booked, Matching, R!Slot
<1>3. answers = [c \in Conn |-> <<>>]
    BY DEF answers, Told
<1>4. QED
    BY <1>1, <1>2, <1>3 DEF R!Init, Service, answers, Told, Seen

\* A step that changes nothing the object has is no step of the object.
LEMMA StutterMaps ==
    ASSUME UNCHANGED <<running, is_listening, teams_names, timetable, toServer, toClient>>
    PROVE  UNCHANGED R!vars
<1>1. UNCHANGED <<Service, answers, SlotsOf(timetable)>>
    BY DEF Service, answers, Told, Seen, SlotsOf
<1>2. QED
    BY <1>1 DEF R!vars, Service, answers, Told, Seen

\* The start of the server opens the service.
LEMMA StartMaps ==
    ASSUME PInv, Start
    PROVE  R!OpenService
<1>1. /\ ~running /\ ~is_listening /\ is_listening'
      /\ UNCHANGED <<teams_names, timetable, toServer, toClient>>
    BY DEF Start, PInv, LifeOK, netVars
<1>2. Service = "closed" /\ Service' = "open"
    BY <1>1 DEF Service
<1>3. UNCHANGED <<answers, SlotsOf(timetable)>>
    BY <1>1 DEF answers, Told, Seen, SlotsOf
<1>4. QED
    BY <1>1, <1>2, <1>3 DEF R!OpenService, Service, answers, Told, Seen

\* A read takes the oldest request of a client, and the handler performs it.
LEMMA OnReadMaps ==
    ASSUME IInv, PInv, OnRead
    PROVE  \E c \in Conn : R!Perform(c)
<1>1. PICK k \in Due : /\ Read(k)
                       /\ messageHandler(Head(toServer[group[k]]), group[k])
                       /\ UNCHANGED is_listening
    BY DEF OnRead
<1>2. /\ group[k] \in Conn /\ Head(toServer[group[k]]) \in Message
      /\ toServer[group[k]] # <<>> /\ is_listening
    BY <1>1, ReadTakes
<1>3. PICK c \in Conn, m \in Message : c = group[k] /\ m = Head(toServer[c])
    BY <1>2
<1>4. toServer' = [toServer EXCEPT ![c] = Tail(@)] /\ toServer[c] # <<>>
    BY <1>1, <1>2, <1>3 DEF Read
<1>5. Service = "open" /\ Service' = "open"
    BY <1>1, <1>2 DEF Service
<1>6. messageHandler(m, c)
    BY <1>1, <1>3
<1>7. \/ m.verb = "REGISTER TEAM"     /\ R!Enter(c, Received[m.name])
      \/ m.verb = "DEREGISTER TEAM"   /\ R!Leave(c, Received[m.name])
      \/ m.verb = "REGISTER TARAKAN"  /\ R!Book(c, Received[m.name], <<m.track, m.time>>)
      \/ m.verb = "REQUEST TIMETABLE" /\ R!Show(c)
    BY <1>6, handlerMaps
<1>8. R!Perform(c)
    BY <1>3, <1>4, <1>5, <1>7
       DEF R!Perform, R!Enter, R!Leave, R!Book, R!Show, R!Answer, Service
<1>9. QED
    BY <1>8

\* An exception of the listener breaks the service.
LEMMA OnReadThrowsMaps ==
    ASSUME IInv, PInv, OnReadThrows
    PROVE  \E c \in Conn : R!Break(c)
<1>1. PICK k \in Due : /\ Read(k)
                       /\ Head(toServer[group[k]]).verb = "INVALID"
                       /\ is_listening' = FALSE
                       /\ UNCHANGED <<toClient, timetable, teams_names>>
    BY DEF OnReadThrows
<1>2. PICK c \in Conn : c = group[k]
    BY <1>1, ReadTakes
<1>3. toServer[c] # <<>> /\ is_listening /\ running'
    BY <1>1, <1>2, ReadTakes
<1>4. toServer' = [toServer EXCEPT ![c] = Tail(@)]
    BY <1>1, <1>2 DEF Read
<1>5. Service = "open" /\ Service' = "broken"
    BY <1>1, <1>3 DEF Service
<1>6. UNCHANGED <<answers, SlotsOf(timetable)>>
    BY <1>1 DEF answers, Told, Seen, SlotsOf
<1>7. R!Break(c)
    BY <1>1, <1>2, <1>3, <1>4, <1>5, <1>6 DEF R!Break, Service, answers, Told, Seen
<1>8. QED
    BY <1>7

\* A process asks on a connection that has nothing outstanding.
LEMMA sendMessageMaps ==
    ASSUME IInv, PInv, NEW t \in Teams, sendMessage(t), UNCHANGED serverVars
    PROVE  \E c \in Conn : R!Ask(c)
<1>1. PICK c \in Conn : c = conn(t)
    BY connLemma DEF sendMessage, InCall, IInv, TypeOK
<1>2. /\ step[t] = "connected" /\ UNCHANGED toClient
      /\ \E messages : toServer' = [toServer EXCEPT ![c] = @ \o messages]
    BY <1>1 DEF sendMessage
<1>3. toServer[c] = <<>> /\ toClient[c] = <<>>
    BY <1>1, <1>2 DEF PInv, CallOK
<1>4. answers[c] = <<>>
    BY <1>3 DEF answers, Told
<1>5. \A d \in Conn \ {c} : toServer'[d] = toServer[d]
    BY <1>2 DEF IInv, TypeOK, NetTypeOK
<1>6. UNCHANGED <<Service, answers, SlotsOf(timetable), teams_names>>
    BY <1>2 DEF serverVars, Service, answers, Told, Seen, SlotsOf
<1>7. R!Ask(c)
    BY <1>3, <1>4, <1>5, <1>6 DEF R!Ask, Service, answers, Told, Seen
<1>8. QED
    BY <1>7

\* The polling loop takes the oldest answer.
LEMMA receiveMaps ==
    ASSUME IInv, NEW t \in Teams, receive(t), UNCHANGED serverVars
    PROVE  \E c \in Conn : R!Take(c)
<1>1. PICK c \in Conn : c = conn(t)
    BY connLemma DEF receive, Answered, InCall, IInv, TypeOK
<1>2. /\ Answered(t) /\ UNCHANGED toServer
      /\ toClient' = [toClient EXCEPT ![c] = Tail(@)]
    BY <1>1 DEF receive
<1>3. toClient \in [Conn -> Seq(Answer)] /\ toClient[c] # <<>>
    BY <1>1, <1>2 DEF IInv, TypeOK, NetTypeOK, Answered
<1>4. Told(toClient[c]) # <<>> /\ Told(Tail(toClient[c])) = Tail(Told(toClient[c]))
    BY <1>3, ToldLemma
<1>5. /\ toClient'[c] = Tail(toClient[c])
      /\ \A d \in Conn \ {c} : toClient'[d] = toClient[d]
    BY <1>2, <1>3
<1>6. answers[c] # <<>>
    BY <1>4 DEF answers
<1>7. answers' = [answers EXCEPT ![c] = Tail(@)]
    <2>1. answers' = [d \in Conn |-> Told(toClient'[d])]
        BY DEF answers, Told, Seen, SlotsOf
    <2>2. \A d \in Conn : Told(toClient'[d]) = [answers EXCEPT ![c] = Tail(@)][d]
        BY <1>4, <1>5 DEF answers
    <2>3. DOMAIN answers = Conn
        BY DEF answers
    <2> HIDE DEF answers
    <2>4. QED
        BY <2>1, <2>2, <2>3
<1>8. UNCHANGED <<Service, SlotsOf(timetable), teams_names>>
    BY DEF serverVars, Service, SlotsOf
<1>9. R!Take(c)
    BY <1>2, <1>6, <1>7, <1>8 DEF R!Take, Service, answers, Told, Seen
<1>10. QED
    BY <1>9

\* Every step of the system is a step of the object or none.
LEMMA NextMaps == IInv /\ PInv /\ [Next]_vars => [R!Next]_R!vars
<1> SUFFICES ASSUME IInv, PInv, [Next]_vars PROVE [R!Next]_R!vars
    OBVIOUS
<1>1. CASE Server /\ UNCHANGED teamVars
    <2>1. CASE Start
        BY <2>1, StartMaps DEF R!Next
    <2>2. CASE OnRead
        BY <2>2, OnReadMaps DEF R!Next
    <2>3. CASE OnReadThrows
        BY <2>3, OnReadThrowsMaps DEF R!Next
    <2>4. CASE Select \/ OnAccept \/ OnDisconnect
        <3>1. UNCHANGED <<running, is_listening, teams_names, timetable, toServer, toClient>>
            BY <2>4 DEF Select, OnAccept, OnDisconnect, Launch, netVars
        <3>2. QED
            BY <3>1, StutterMaps
    <2>5. QED
        BY <1>1, <2>1, <2>2, <2>3, <2>4 DEF Server, listener
<1>2. ASSUME NEW t \in Teams, Process(t) \/ Kill(t) \/ Restart(t), UNCHANGED serverVars
      PROVE  [R!Next]_R!vars
    <2>1. CASE sendMessage(t)
        BY <1>2, <2>1, sendMessageMaps DEF R!Next
    <2>2. CASE receive(t)
        BY <1>2, <2>2, receiveMaps DEF R!Next
    <2>3. CASE \/ connect(t) \/ connectRefused(t) \/ receiveUnusable(t) \/ receiveEmpty(t)
               \/ disconnect(t) \/ Kill(t) \/ Restart(t)
        <3>1. UNCHANGED <<running, is_listening, teams_names, timetable, toServer, toClient>>
            BY <1>2, <2>3 DEF connect, connectRefused, receiveUnusable, receiveEmpty, disconnect,
                              Kill, Restart, netVars, serverVars
        <3>2. QED
            BY <3>1, StutterMaps
    <2>4. QED
        BY <1>2, <2>1, <2>2, <2>3 DEF Process, callStep
<1>3. CASE UNCHANGED vars
    BY <1>3, StutterMaps DEF vars, netVars, serverVars
<1>4. QED
    BY <1>1, <1>2, <1>3 DEF Next

\* Seen from its clients the management is one atomic object, for any teams, scripts,
\* kills and exceptions: a request takes effect once, at one instant between question
\* and answer, and the answer says what it did.
THEOREM AtomicSteps == Spec => R!Init /\ [][R!Next]_R!vars
BY InitMaps, NextMaps, InductiveInvariant, RequestsInvariant, PTL DEF Spec

=============================================================================
