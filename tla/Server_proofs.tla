---------------------------- MODULE Server_proofs ----------------------------
(***************************************************************************)
(* Proofs about the life of a Server object, for any set of clients and    *)
(* any number of messages.                                                 *)
(***************************************************************************)
EXTENDS Server, FiniteSetTheorems, SequenceTheorems, TLAPS

\* There is no listener thread, or it has left its loop.
Quiet == {"none", "ended", "crashed"}

(***************************************************************************)
(* The inductive invariant.  is_listening goes down in two places: in the  *)
(* catch, where the thread ends, and in stopListening, where the owner     *)
(* goes on to join().  So whoever finds it down outside of a join() finds  *)
(* a thread that has ended, and that is all stopListening looks at.  The   *)
(* port is taken with the first thread and never given back.               *)
(***************************************************************************)
DownMeansEnded == ~is_listening /\ owner # "join" => pc \in Quiet
StopsRunning   == owner \in {"stop test", "remove"} => running
PortKept       == pc # "none" => bound

IInv == DownMeansEnded /\ StopsRunning /\ PortKept /\ StoppedIsQuiet

LEMMA InitIInv == Init => IInv
BY DEF Init, IInv, DownMeansEnded, StopsRunning, PortKept, StoppedIsQuiet, Quiet

\* The listener moves and the owner does not.
LEMMA ListenerIInv ==
    ASSUME IInv, listener
    PROVE  IInv'
<1> USE DEF IInv, DownMeansEnded, StopsRunning, PortKept, StoppedIsQuiet, Quiet
<1>1. pc \notin Quiet /\ UNCHANGED <<owner, running, bound>>
    BY DEF listener, test, fill, select, walk, isset, type, nextReadSize, accept, acceptThrows,
           disconnect, read, recv, again, return, catch, Step, PassOnly, Goto, Launched,
           ownerVars, clientVars, kernelVars
<1>2. is_listening' = is_listening \/ pc' = "ended"
    BY DEF listener, test, fill, select, walk, isset, type, nextReadSize, accept, acceptThrows,
           disconnect, read, recv, again, return, catch, Step, PassOnly, Goto, Launched
<1>3. QED
    BY <1>1, <1>2

\* The owner moves; the only thread it makes is the first one.
LEMMA OwnerIInv ==
    ASSUME IInv, Owner
    PROVE  IInv'
<1> USE DEF IInv, DownMeansEnded, StopsRunning, PortKept, StoppedIsQuiet, Quiet
<1>1. CASE start
    BY <1>1 DEF start
<1>2. CASE startThrows
    BY <1>2 DEF startThrows, ownerVars, listenerVars, kernelVars
<1>3. CASE stop
    BY <1>3 DEF stop, OwnerOnly, listenerVars, kernelVars
<1>4. CASE destroy
    BY <1>4 DEF destroy, OwnerOnly, listenerVars, kernelVars
<1>5. CASE stopTest
    BY <1>5 DEF stopTest, OwnerOnly, listenerVars, kernelVars
<1>6. CASE remove
    BY <1>6 DEF remove, listenerVars, kernelVars
<1>7. CASE removeThrows
    BY <1>7 DEF removeThrows, OwnerOnly, listenerVars, kernelVars
<1>8. CASE stopListening
    <2>1. CASE is_listening /\ owner' = "join"
        BY <1>8, <2>1 DEF stopListening, listenerVars, kernelVars
    <2>2. CASE ~is_listening /\ Finish
        BY <1>8, <2>2 DEF stopListening, Finish, listenerVars, kernelVars
    <2>3. QED
        BY <1>8, <2>1, <2>2 DEF stopListening
<1>9. CASE join
    BY <1>9 DEF join, Finish, listenerVars, kernelVars
<1>10. QED
    BY <1>1, <1>2, <1>3, <1>4, <1>5, <1>6, <1>7, <1>8, <1>9 DEF Owner, callStep

LEMMA NextIInv == IInv /\ [Next]_vars => IInv'
<1> SUFFICES ASSUME IInv, [Next]_vars
             PROVE  IInv'
    OBVIOUS
<1>1. CASE Owner
    BY <1>1, OwnerIInv
<1>2. CASE listener
    BY <1>2, ListenerIInv
<1>3. CASE \E c \in Conn : Client(c)
    <2>1. UNCHANGED <<owner, running, is_listening, pc, bound>>
        BY <1>3 DEF Client, Connect, Send, Close, ownerVars, listenerVars, kernelVars
    <2>2. QED
        BY <2>1 DEF IInv, DownMeansEnded, StopsRunning, PortKept, StoppedIsQuiet
<1>4. CASE UNCHANGED vars
    BY <1>4 DEF vars, ownerVars, listenerVars, kernelVars, IInv, DownMeansEnded, StopsRunning,
                PortKept, StoppedIsQuiet
<1>5. QED
    BY <1>1, <1>2, <1>3, <1>4 DEF Next

LEMMA Invariance == Spec => []IInv
BY InitIInv, NextIInv, PTL DEF Spec

\* Whoever has stopped a server, or destroyed it, has no thread of it that still
\* uses the socket group: for every number of clients, however start() and stop()
\* fail.
THEOREM StopLeavesQuiet == Spec => []StoppedIsQuiet
<1>1. IInv => StoppedIsQuiet
    BY DEF IInv
<1>2. QED
    BY <1>1, Invariance, PTL

\* A server that has listened never listens again: after a thread has ended, no
\* start() makes another one.
THEOREM NoSecondLife == Spec => OneLife
<1>1. IInv /\ [Next]_vars => [pc = "ended" => pc' = "ended"]_vars
    <2> SUFFICES ASSUME IInv, [Next]_vars, pc = "ended"
                 PROVE  pc' = "ended"
        OBVIOUS
    <2>1. CASE Owner
        BY <2>1 DEF Owner, callStep, start, startThrows, stop, destroy, stopTest, remove,
                    removeThrows, stopListening, join, OwnerOnly, Finish, listenerVars, IInv,
                    PortKept
    <2>2. ~listener
        BY DEF listener, test, fill, select, walk, isset, type, nextReadSize, accept,
               acceptThrows, disconnect, read, recv, again, return, catch
    <2>3. CASE \E c \in Conn : Client(c)
        BY <2>3 DEF Client, Connect, Send, Close, listenerVars
    <2>4. CASE UNCHANGED vars
        BY <2>4 DEF vars, listenerVars
    <2>5. QED
        BY <2>1, <2>2, <2>3, <2>4 DEF Next
<1>2. QED
    BY <1>1, Invariance, PTL DEF Spec, OneLife

-----------------------------------------------------------------------------
(***************************************************************************)
(* The vector.  What erase and push_back do to the elements, for any index *)
(* that stop() or the walk comes with.                                     *)
(***************************************************************************)

Sockets == Conn \cup {Listening, Null}

\* The group is in the memory of the vector, and a client is in it once.
MemoryOK ==
    /\ cells \in Seq(Sockets)
    /\ size \in 0 .. Len(cells)
    /\ \A k, l \in 1 .. size : cells[k] = cells[l] /\ cells[k] \in Conn => k = l

LEMMA FunctionIsSeq ==
    ASSUME NEW S, NEW n \in Nat, NEW f \in [1 .. n -> S]
    PROVE  f \in Seq(S) /\ Len(f) = n
<1>1. f \in Seq(S)
    BY SeqDef
<1>2. DOMAIN f = 1 .. Len(f) /\ Len(f) \in Nat
    BY <1>1, LenProperties
<1>3. DOMAIN f = 1 .. n
    OBVIOUS
<1>4. QED
    BY <1>1, <1>2, <1>3

\* An erase moves the later elements down; what it uncovers was in the group.
LEMMA EraseLemma ==
    ASSUME MemoryOK, NEW k \in 1 .. size, Erase(k)
    PROVE  /\ MemoryOK'
           /\ DOMAIN cells' = DOMAIN cells
           /\ size' = size - 1
           /\ \A l \in DOMAIN cells :
                  cells'[l] = IF k <= l /\ l < size THEN cells[l + 1] ELSE cells[l]
           /\ Group' \subseteq Group
           /\ \A l \in DOMAIN cells : cells'[l] = cells[l] \/ cells'[l] \in Group
           /\ cells[k] \in Conn => Group' = Group \ {cells[k]}
<1>1. Len(cells) \in Nat /\ DOMAIN cells = 1 .. Len(cells) /\ size \in Nat /\ size <= Len(cells)
    BY LenProperties DEF MemoryOK
<1>2. \A l \in 1 .. Len(cells) : cells[l] \in Sockets
    BY <1>1, ElementOfSeq DEF MemoryOK
<1>3. /\ size' = size - 1 /\ size' \in Nat
      /\ \A l \in 1 .. Len(cells) :
             cells'[l] = IF k <= l /\ l < size THEN cells[l + 1] ELSE cells[l]
    BY <1>1 DEF Erase
<1>4. cells' \in [1 .. Len(cells) -> Sockets]
    <2>1. \A l \in 1 .. Len(cells) : l < size => l + 1 \in 1 .. Len(cells)
        BY <1>1
    <2>2. QED
        BY <1>1, <1>2, <2>1 DEF Erase
<1>5. cells' \in Seq(Sockets) /\ Len(cells') = Len(cells)
    BY <1>1, <1>4, FunctionIsSeq
<1>6. \A l \in 1 .. size' : cells'[l] = cells[IF k <= l THEN l + 1 ELSE l]
    BY <1>1, <1>3
<1>7. \A l, m \in 1 .. size' : cells'[l] = cells'[m] /\ cells'[l] \in Conn => l = m
    <2> SUFFICES ASSUME NEW l \in 1 .. size', NEW m \in 1 .. size',
                        cells'[l] = cells'[m], cells'[l] \in Conn
                 PROVE  l = m
        OBVIOUS
    <2>1. PICK x \in 1 .. size : x = IF k <= l THEN l + 1 ELSE l
        BY <1>1, <1>3
    <2>2. PICK y \in 1 .. size : y = IF k <= m THEN m + 1 ELSE m
        BY <1>1, <1>3
    <2>3. cells[x] = cells[y] /\ cells[x] \in Conn
        BY <1>6, <2>1, <2>2
    <2>4. x = y
        BY <2>3 DEF MemoryOK
    <2>5. QED
        BY <1>1, <1>3, <2>1, <2>2, <2>4
<1>8. MemoryOK'
    BY <1>1, <1>3, <1>5, <1>7 DEF MemoryOK
<1>9. Group' \subseteq Group
    <2> SUFFICES ASSUME NEW l \in 1 .. size' PROVE \E m \in 1 .. size : cells'[l] = cells[m]
        BY DEF Group
    <2>1. (IF k <= l THEN l + 1 ELSE l) \in 1 .. size
        BY <1>1, <1>3
    <2>2. QED
        BY <1>6, <2>1
<1>10. \A l \in DOMAIN cells : cells'[l] = cells[l] \/ cells'[l] \in Group
    <2> SUFFICES ASSUME NEW l \in 1 .. Len(cells), k <= l /\ l < size
                 PROVE  \E m \in 1 .. size : cells'[l] = cells[m]
        BY <1>1, <1>3 DEF Group
    <2>1. l + 1 \in 1 .. size /\ cells'[l] = cells[l + 1]
        BY <1>1, <1>3
    <2>2. QED
        BY <2>1
<1>11. ASSUME cells[k] \in Conn PROVE Group' = Group \ {cells[k]}
    <2>1. cells[k] \notin Group'
        <3> SUFFICES ASSUME NEW l \in 1 .. size', cells'[l] = cells[k] PROVE FALSE
            BY DEF Group
        <3>1. PICK x \in 1 .. size : x = IF k <= l THEN l + 1 ELSE l
            BY <1>1, <1>3
        <3>2. cells[x] = cells[k]
            BY <1>6, <3>1
        <3>3. x = k
            BY <1>11, <3>2 DEF MemoryOK
        <3>4. QED
            BY <1>1, <3>1, <3>3
    <2>2. ASSUME NEW m \in 1 .. size, cells[m] # cells[k] PROVE cells[m] \in Group'
        <3>1. m # k
            BY <2>2
        <3>2. PICK l \in 1 .. size' : m = IF k <= l THEN l + 1 ELSE l
            <4>1. CASE m < k
                BY <1>1, <1>3, <4>1
            <4>2. CASE m > k
                <5>1. m - 1 \in 1 .. size' /\ k <= m - 1 /\ m = (m - 1) + 1
                    BY <1>1, <1>3, <4>2
                <5>2. QED
                    BY <5>1
            <4>3. QED
                BY <3>1, <4>1, <4>2
        <3>3. cells[m] = cells'[l]
            BY <1>6, <3>2
        <3>4. QED
            BY <3>2, <3>3 DEF Group
    <2>3. QED
        BY <1>9, <2>1, <2>2 DEF Group
<1>12. QED
    BY <1>1, <1>3, <1>5, <1>8, <1>9, <1>10, <1>11, <1>4

\* A push_back writes over the first cell behind the end, or adds one.
LEMMA PushBackLemma ==
    ASSUME MemoryOK, NEW s \in Sockets, s \in Conn => s \notin Group, PushBack(s)
    PROVE  /\ MemoryOK'
           /\ size' = size + 1
           /\ \A l \in 1 .. size : cells'[l] = cells[l]
           /\ cells'[size + 1] = s
           /\ \A l \in DOMAIN cells' : cells'[l] = s \/ (l \in DOMAIN cells /\ cells'[l] = cells[l])
           /\ Group' = Group \cup {s}
<1> DEFINE n == IF size < Len(cells) THEN Len(cells) ELSE size + 1
<1>1. /\ Len(cells) \in Nat /\ DOMAIN cells = 1 .. Len(cells) /\ size \in Nat /\ size <= Len(cells)
      /\ n \in Nat /\ size + 1 <= n /\ Len(cells) <= n
    BY LenProperties DEF MemoryOK
<1>2. \A l \in 1 .. Len(cells) : cells[l] \in Sockets
    BY <1>1, ElementOfSeq DEF MemoryOK
<1>3. \A l \in 1 .. n : l # size + 1 => l \in 1 .. Len(cells)
    BY <1>1
<1>4. /\ cells' \in [1 .. n -> Sockets]
      /\ \A l \in 1 .. n : cells'[l] = IF l = size + 1 THEN s ELSE cells[l]
      /\ size' = size + 1
    <2>1. cells' = [l \in 1 .. n |-> IF l = size + 1 THEN s ELSE cells[l]]
        BY DEF PushBack
    <2> HIDE DEF n
    <2>2. QED
        BY <1>2, <1>3, <2>1 DEF PushBack
<1> HIDE DEF n
<1>5. cells' \in Seq(Sockets) /\ Len(cells') = n
    BY <1>1, <1>4, FunctionIsSeq
<1>6. \A l \in 1 .. size : cells'[l] = cells[l]
    BY <1>1, <1>4
<1>7. cells'[size + 1] = s
    BY <1>1, <1>4
<1>8. \A l \in 1 .. size + 1 : l = size + 1 \/ l \in 1 .. size
    BY <1>1
<1>9. Group' = Group \cup {s}
    BY <1>1, <1>4, <1>6, <1>7, <1>8 DEF Group
<1>10. \A l, m \in 1 .. size' : cells'[l] = cells'[m] /\ cells'[l] \in Conn => l = m
    <2> SUFFICES ASSUME NEW l \in 1 .. size + 1, NEW m \in 1 .. size + 1,
                        cells'[l] = cells'[m], cells'[l] \in Conn
                 PROVE  l = m
        BY <1>4
    <2>1. CASE l \in 1 .. size /\ m \in 1 .. size
        BY <1>6, <2>1 DEF MemoryOK
    <2>2. CASE l = size + 1 /\ m \in 1 .. size
        BY <1>6, <1>7, <2>2 DEF Group
    <2>3. CASE m = size + 1 /\ l \in 1 .. size
        BY <1>6, <1>7, <2>3 DEF Group
    <2>4. QED
        BY <1>8, <2>1, <2>2, <2>3
<1>11. MemoryOK'
    BY <1>1, <1>4, <1>5, <1>10 DEF MemoryOK
<1>12. \A l \in DOMAIN cells' : cells'[l] = s \/ (l \in DOMAIN cells /\ cells'[l] = cells[l])
    BY <1>1, <1>3, <1>4
<1>13. QED
    BY <1>4, <1>6, <1>7, <1>9, <1>11, <1>12

\* What the loop of start() leaves was in the group.
LEMMA SurvivorsLemma ==
    ASSUME MemoryOK
    PROVE  /\ Survivors \in Seq(Group)
           /\ Len(Survivors) = size \div 2
           /\ \A k, l \in 1 .. size \div 2 :
                  Survivors[k] = Survivors[l] /\ Survivors[k] \in Conn => k = l
<1>1. size \in Nat /\ size \div 2 \in Nat
    BY LenProperties DEF MemoryOK
<1>2. \A k \in 1 .. size \div 2 : 2 * k \in 1 .. size
    BY <1>1
<1>3. Survivors \in [1 .. size \div 2 -> Group]
    BY <1>2 DEF Survivors, Group
<1>4. ASSUME NEW k \in 1 .. size \div 2, NEW l \in 1 .. size \div 2,
             Survivors[k] = Survivors[l], Survivors[k] \in Conn
      PROVE  k = l
    <2>1. PICK x \in 1 .. size, y \in 1 .. size : x = 2 * k /\ y = 2 * l
        BY <1>2
    <2>2. cells[x] = cells[y] /\ cells[x] \in Conn
        BY <1>4, <2>1 DEF Survivors
    <2>3. x = y
        BY <2>2 DEF MemoryOK
    <2>4. QED
        BY <2>1, <2>3
<1>5. QED
    BY <1>1, <1>3, <1>4, FunctionIsSeq

-----------------------------------------------------------------------------
(* The sockets: what waits, was accepted and was deleted *)

\* The kernel gives a connection to one accept(), and every client whose socket
\* the memory of the vector still holds was accepted.
KernelOK ==
    /\ backlog \in Seq(Conn)
    /\ \A k \in DOMAIN backlog : backlog[k] \in connected \ accepted
    /\ \A k, l \in DOMAIN backlog : backlog[k] = backlog[l] => k = l
    /\ deleted \subseteq accepted
    /\ accepted \subseteq connected
    /\ connected \subseteq Conn
    /\ \A k \in DOMAIN cells : cells[k] \in Conn => cells[k] \in accepted
    /\ inbox \in [Conn -> Nat]
    /\ ~bound => cells = <<>> /\ size = 0 /\ accepted = {}

(***************************************************************************)
(* No deleted socket is in the group, nor in the memory up to where the    *)
(* walk reads: between the check of the index and the read the owner may   *)
(* erase, but what an erase uncovers was in the group.                     *)
(***************************************************************************)
LiveOK ==
    /\ Group \cap deleted = {}
    /\ at \in Nat \ {0}
    /\ ReadsElement => at \in DOMAIN cells /\ \A k \in 1 .. at : cells[k] \notin deleted
    /\ reading \notin deleted
    /\ pc # "recv" => reading = Null

\* Where the owner is in stop() and the destructor, and whether a call has begun.
CallOK ==
    /\ running => bound
    /\ removing \in Nat \ {0}
    /\ leaving => owner \in {"stopListening", "join", "gone"}
    /\ ~stopped =>
        /\ owner \notin {"stop test", "remove"}
        /\ owner \in {"stopListening", "join"} => leaving
        /\ bound => running

(***************************************************************************)
(* As long as nobody stops the server or destroys it, what the pass found  *)
(* out about the socket at its index is true of the element it reads there.*)
(***************************************************************************)
InPass == pc \in {"walk", "recv"} \/ ReadsElement

PassOK ==
    ~stopped /\ owner # "gone" =>
        /\ Group \cap Conn = accepted \ deleted
        /\ pc \in {"select", "oversleep"} \/ InPass => fdset \cap Conn \subseteq accepted
        /\ InPass => ready \subseteq fdset
        /\ InPass => \A k \in at .. size :
                         cells[k] \in ready \cap Conn => inbox[cells[k]] > 0 \/ cells[k] \in closed
        /\ ReadsElement \/ pc = "recv" => at <= size
        /\ pc \in {"type", "nextReadSize", "disconnect", "read", "recv"} => cells[at] \in ready
        /\ pc \in {"nextReadSize", "disconnect", "read", "recv"} => cells[at] \in Conn
        /\ pc = "recv" => reading = cells[at]
        /\ pc = "disconnect" => cells[at] \in closed /\ inbox[cells[at]] = 0

SocketInv == MemoryOK /\ KernelOK /\ LiveOK /\ CallOK /\ PassOK

LEMMA InitSocketInv == Init => SocketInv
<1> SUFFICES ASSUME Init PROVE SocketInv
    OBVIOUS
<1>1. cells = <<>> /\ size = 0 /\ Group = {} /\ accepted = {} /\ deleted = {}
    BY DEF Init, Group
<1>2. MemoryOK
    BY <1>1 DEF MemoryOK
<1>3. KernelOK
    BY <1>1 DEF Init, KernelOK
<1>4. ~ReadsElement /\ ~InPass
    BY DEF Init, ReadsElement, InPass
<1>5. LiveOK
    BY <1>1, <1>4 DEF Init, LiveOK
<1>6. CallOK
    BY DEF Init, CallOK
<1>7. PassOK
    BY <1>1, <1>4 DEF Init, PassOK
<1>8. QED
    BY <1>2, <1>3, <1>5, <1>6, <1>7 DEF SocketInv

\* The types that the proofs below need again and again.
LEMMA SocketTypes ==
    ASSUME SocketInv
    PROVE  /\ size \in Nat /\ Len(cells) \in Nat /\ size <= Len(cells)
           /\ DOMAIN cells = 1 .. Len(cells)
           /\ \A k \in 1 .. size : k \in DOMAIN cells
           /\ \A k \in DOMAIN cells : cells[k] \in Sockets
           /\ Null \notin deleted /\ Listening \notin deleted
           /\ Null \notin Conn /\ Listening \notin Conn
<1>1. Len(cells) \in Nat /\ DOMAIN cells = 1 .. Len(cells)
    BY LenProperties DEF SocketInv, MemoryOK
<1>2. size \in Nat /\ size <= Len(cells)
    BY <1>1 DEF SocketInv, MemoryOK
<1>3. \A k \in DOMAIN cells : cells[k] \in Sockets
    BY <1>1, ElementOfSeq DEF SocketInv, MemoryOK
<1>4. deleted \subseteq Conn
    BY DEF SocketInv, KernelOK
<1>5. QED
    BY <1>1, <1>2, <1>3, <1>4, SocketsAssumption

-----------------------------------------------------------------------------
(* The owner *)

LEMMA OwnerCallOK ==
    ASSUME IInv, SocketInv, Owner
    PROVE  CallOK'
<1>0. removing' \in Nat \ {0}
    <2>1. removing' \in {1, removing, removing + 1}
        BY DEF Owner, callStep, start, startThrows, stop, destroy, stopTest, remove, removeThrows,
               stopListening, join, Finish, ownerVars
    <2>2. removing \in Nat \ {0}
        BY DEF SocketInv, CallOK
    <2>3. \A n \in Nat \ {0} : n + 1 \in Nat \ {0}
        OBVIOUS
    <2>4. 1 \in Nat \ {0}
        OBVIOUS
    <2>5. removing + 1 \in Nat \ {0}
        BY <2>2, <2>3
    <2>6. QED
        BY <2>1, <2>2, <2>4, <2>5
<1> USE DEF SocketInv, CallOK
<1>1. CASE start
    BY <1>0, <1>1 DEF start
<1>2. CASE startThrows
    BY <1>0, <1>2 DEF startThrows, ownerVars, kernelVars
<1>3. CASE stop
    BY <1>0, <1>3 DEF stop, OwnerOnly, kernelVars
<1>4. CASE destroy
    BY <1>0, <1>4 DEF destroy, OwnerOnly, kernelVars
<1>5. CASE stopTest
    BY <1>0, <1>5 DEF stopTest, OwnerOnly, kernelVars
<1>6. CASE remove
    BY <1>0, <1>6 DEF remove, kernelVars
<1>7. CASE removeThrows
    BY <1>0, <1>7 DEF removeThrows, OwnerOnly, kernelVars
<1>8. CASE stopListening
    <2>1. CASE is_listening /\ owner' = "join"
        BY <1>0, <1>8, <2>1 DEF stopListening, kernelVars
    <2>2. CASE ~is_listening /\ Finish
        BY <1>0, <1>8, <2>2 DEF stopListening, Finish, kernelVars
    <2>3. QED
        BY <1>0, <1>8, <2>1, <2>2 DEF stopListening
<1>9. CASE join
    BY <1>0, <1>9 DEF join, Finish, kernelVars
<1>10. QED
    BY <1>1, <1>2, <1>3, <1>4, <1>5, <1>6, <1>7, <1>8, <1>9 DEF Owner, callStep

\* What a step keeps that leaves the sockets and the listener alone.
LEMMA SocketsKept ==
    ASSUME SocketInv, UNCHANGED <<groupVars, listenerVars, clientVars, kernelVars>>,
           ~stopped' /\ owner' # "gone" => ~stopped /\ owner # "gone"
    PROVE  MemoryOK' /\ KernelOK' /\ LiveOK' /\ PassOK'
<1>1. MemoryOK'
    BY DEF SocketInv, MemoryOK, groupVars
<1>2. KernelOK'
    BY DEF SocketInv, KernelOK, groupVars, clientVars, kernelVars
<1>3. Group' = Group /\ ReadsElement' = ReadsElement /\ InPass' = InPass
    BY DEF Group, ReadsElement, InPass, groupVars, listenerVars
<1>4. LiveOK'
    BY <1>3 DEF SocketInv, LiveOK, groupVars, listenerVars, kernelVars
<1>5. PassOK'
    BY <1>3 DEF SocketInv, PassOK, groupVars, listenerVars, clientVars, kernelVars
<1>6. QED
    BY <1>1, <1>2, <1>4, <1>5

\* The end of a call: a destroyed server has no group, and no thread looks for it.
LEMMA FinishSockets ==
    ASSUME SocketInv, Finish, pc \in Quiet, owner # "gone",
           UNCHANGED <<listenerVars, clientVars, kernelVars>>
    PROVE  MemoryOK' /\ KernelOK' /\ LiveOK' /\ PassOK'
<1>1. CASE ~leaving
    <2>1. UNCHANGED groupVars /\ stopped' = stopped
        BY <1>1 DEF Finish, groupVars
    <2>2. QED
        BY <2>1, SocketsKept
<1>2. CASE leaving
    <2>1. cells' = <<>> /\ size' = 0 /\ owner' = "gone"
        BY <1>2 DEF Finish
    <2>2. DOMAIN cells' = {} /\ Group' = {}
        BY <2>1 DEF Group
    <2>3. ~ReadsElement'
        BY DEF ReadsElement, Quiet, listenerVars
    <2>4. MemoryOK'
        BY <2>1 DEF MemoryOK
    <2>5. KernelOK'
        BY <2>1, <2>2 DEF SocketInv, KernelOK, clientVars, kernelVars
    <2>6. LiveOK'
        BY <2>2, <2>3 DEF SocketInv, LiveOK, listenerVars, kernelVars
    <2>7. PassOK'
        BY <2>1 DEF PassOK
    <2>8. QED
        BY <2>4, <2>5, <2>6, <2>7
<1>3. QED
    BY <1>1, <1>2

LEMMA OwnerSocketInv ==
    ASSUME IInv, SocketInv, Owner
    PROVE  SocketInv'
<1>0. CallOK'
    BY OwnerCallOK
<1>1. CASE start
    <2>1. cells = <<>> /\ size = 0 /\ accepted = {} /\ deleted = {} /\ pc = "none"
        BY <1>1 DEF start, SocketInv, KernelOK, IInv, PortKept
    <2>2. Survivors = <<>>
        <3>1. size \div 2 = 0
            BY <2>1
        <3>2. QED
            BY <3>1, SurvivorsLemma, EmptySeq DEF SocketInv
    <2>3. cells' = <<Listening>> /\ size' = 1
        <3>1. size \div 2 = 0
            BY <2>1
        <3>2. QED
            BY <1>1, <2>2, <3>1 DEF start
    <2>4. /\ UNCHANGED <<stopped, connected, closed, backlog, inbox, accepted, deleted, reading, at>>
          /\ pc' = "test" /\ bound'
        BY <1>1 DEF start, clientVars
    <2>5. DOMAIN cells' = {1} /\ cells'[1] = Listening /\ Listening \notin Conn
        BY <2>3, SocketsAssumption
    <2>6. Group' = {Listening}
        BY <2>3, <2>5 DEF Group
    <2>7. MemoryOK'
        BY <2>3 DEF MemoryOK, Sockets
    <2>8. KernelOK'
        BY <2>4, <2>5 DEF SocketInv, KernelOK
    <2>9. ~ReadsElement' /\ ~InPass'
        BY <2>4 DEF ReadsElement, InPass
    <2>10. LiveOK'
        BY <2>1, <2>4, <2>6, <2>9 DEF SocketInv, LiveOK
    <2>11. PassOK'
        BY <2>1, <2>4, <2>5, <2>6, <2>9 DEF SocketInv, PassOK
    <2>12. QED
        BY <1>0, <2>7, <2>8, <2>10, <2>11 DEF SocketInv
<1>2. CASE startThrows
    <2>1. /\ UNCHANGED <<stopped, connected, closed, backlog, inbox, accepted, deleted, reading, at,
                         pc, bound>>
          /\ cells' = Survivors /\ size' = size \div 2
        BY <1>2 DEF startThrows, ownerVars, listenerVars, clientVars, kernelVars
    <2>2. pc \in Quiet
        BY <1>2 DEF startThrows, IInv, StoppedIsQuiet, Quiet
    <2>3. ~ReadsElement' /\ ~InPass'
        BY <2>1, <2>2 DEF ReadsElement, InPass, Quiet
    <2>4. /\ cells' \in Seq(Group) /\ Len(cells') = size'
          /\ \A k, l \in 1 .. size' : cells'[k] = cells'[l] /\ cells'[k] \in Conn => k = l
        BY <2>1, SurvivorsLemma DEF SocketInv
    <2>5. /\ DOMAIN cells' = 1 .. size' /\ size' \in Nat
          /\ \A k \in 1 .. size' : cells'[k] \in Group
        BY <2>4, LenProperties, ElementOfSeq
    <2>6. Group \subseteq Sockets
        BY SocketTypes DEF Group
    <2>7. cells' \in Seq(Sockets)
        BY <2>4, <2>6, SeqMonotonic
    <2>8. Group' \subseteq Group
        BY <2>5 DEF Group
    <2>9. MemoryOK'
        BY <2>4, <2>5, <2>7 DEF MemoryOK
    <2>10. \A k \in DOMAIN cells' : cells'[k] \in Conn => cells'[k] \in accepted
        BY <2>5, SocketTypes DEF Group, SocketInv, KernelOK
    <2>11. ~bound => cells' = <<>> /\ size' = 0
        <3> SUFFICES ASSUME ~bound PROVE cells' = <<>> /\ size' = 0
            OBVIOUS
        <3>1. size = 0
            BY DEF SocketInv, KernelOK
        <3>2. size' = 0
            BY <2>1, <3>1
        <3>3. QED
            BY <2>4, <3>2, EmptySeq
    <2>12. KernelOK'
        BY <2>1, <2>10, <2>11 DEF SocketInv, KernelOK
    <2>13. LiveOK'
        BY <2>1, <2>3, <2>8 DEF SocketInv, LiveOK
    <2>14. PassOK'
        <3> SUFFICES ASSUME ~stopped PROVE Group' \cap Conn = accepted \ deleted
            BY <2>1, <2>2 DEF PassOK, InPass, ReadsElement, Quiet
        <3>1. ~bound
            BY <1>2 DEF startThrows, SocketInv, CallOK
        <3>2. accepted = {} /\ size' = 0
            BY <2>11, <3>1 DEF SocketInv, KernelOK
        <3>3. QED
            BY <3>2 DEF Group
    <2>15. QED
        BY <1>0, <2>9, <2>12, <2>13, <2>14 DEF SocketInv
<1>3. CASE remove
    <2>1. /\ UNCHANGED <<stopped, connected, closed, backlog, inbox, accepted, deleted, reading, at,
                         pc, bound>>
          /\ Erase(removing) /\ owner = "remove" /\ removing <= size
        BY <1>3 DEF remove, listenerVars, clientVars, kernelVars
    <2>2. removing \in 1 .. size
        BY <2>1, SocketTypes DEF SocketInv, CallOK
    <2>3. /\ MemoryOK'
          /\ DOMAIN cells' = DOMAIN cells
          /\ Group' \subseteq Group
          /\ \A l \in DOMAIN cells : cells'[l] = cells[l] \/ cells'[l] \in Group
        BY <2>1, <2>2, EraseLemma DEF SocketInv
    <2>4. stopped /\ bound
        BY <2>1 DEF SocketInv, CallOK, IInv, StopsRunning
    <2>5. \A k \in DOMAIN cells : cells'[k] \in Conn => cells'[k] \in accepted
        BY <2>3, SocketTypes DEF Group, SocketInv, KernelOK
    <2>6. KernelOK'
        BY <2>1, <2>3, <2>4, <2>5 DEF SocketInv, KernelOK
    <2>7. \A k \in DOMAIN cells : cells[k] \notin deleted => cells'[k] \notin deleted
        BY <2>3 DEF SocketInv, LiveOK
    <2>8. ReadsElement' = ReadsElement
        BY <2>1 DEF ReadsElement
    <2>9. ReadsElement => \A k \in 1 .. at : k \in DOMAIN cells
        BY SocketTypes DEF SocketInv, LiveOK
    <2>10. LiveOK'
        BY <2>1, <2>3, <2>7, <2>8, <2>9 DEF SocketInv, LiveOK
    <2>11. PassOK'
        BY <2>1, <2>4 DEF PassOK
    <2>12. QED
        BY <1>0, <2>3, <2>6, <2>10, <2>11 DEF SocketInv
<1>4. CASE stop \/ destroy \/ stopTest \/ removeThrows
    <2>1. UNCHANGED <<groupVars, listenerVars, clientVars, kernelVars>>
        BY <1>4 DEF stop, destroy, stopTest, removeThrows, OwnerOnly
    <2>2. owner # "gone"
        BY <1>4 DEF stop, destroy, stopTest, removeThrows
    <2>3. stopped => stopped'
        BY <1>4, Zenon DEF stop, destroy, stopTest, removeThrows
    <2>4. QED
        BY <1>0, <2>1, <2>2, <2>3, SocketsKept DEF SocketInv
<1>5. CASE stopListening
    <2>1. UNCHANGED <<listenerVars, clientVars, kernelVars>> /\ owner = "stopListening"
        BY <1>5 DEF stopListening
    <2>2. CASE is_listening /\ UNCHANGED <<stopped, groupVars>>
        BY <1>0, <2>1, <2>2, SocketsKept DEF SocketInv
    <2>3. CASE ~is_listening /\ Finish
        <3>1. pc \in Quiet
            BY <2>1, <2>3 DEF IInv, DownMeansEnded
        <3>2. QED
            BY <1>0, <2>1, <2>3, <3>1, FinishSockets DEF SocketInv
    <2>4. QED
        BY <1>5, <2>2, <2>3 DEF stopListening
<1>6. CASE join
    <2>1. UNCHANGED <<listenerVars, clientVars, kernelVars>> /\ owner = "join" /\ Finish /\ pc \in Quiet
        BY <1>6 DEF join, Quiet
    <2>2. QED
        BY <1>0, <2>1, FinishSockets DEF SocketInv
<1>7. QED
    BY <1>1, <1>2, <1>3, <1>4, <1>5, <1>6 DEF Owner, callStep

LEMMA ClientSocketInv ==
    ASSUME IInv, SocketInv, NEW c \in Conn, Client(c)
    PROVE  SocketInv'
<1>1. UNCHANGED <<ownerVars, groupVars, listenerVars, bound, accepted, deleted>>
    BY DEF Client, Connect, Send, Close, kernelVars
<1>2. MemoryOK' /\ CallOK'
    BY <1>1 DEF SocketInv, MemoryOK, CallOK, ownerVars, groupVars
<1>3. Group' = Group /\ ReadsElement' = ReadsElement /\ InPass' = InPass
    BY <1>1 DEF Group, ReadsElement, InPass, groupVars, listenerVars
<1>4. LiveOK'
    BY <1>1, <1>3 DEF SocketInv, LiveOK, groupVars, listenerVars
<1>5. KernelOK'
    <2>1. CASE Connect(c)
        <3>1. /\ c \notin connected /\ bound /\ connected' = connected \cup {c}
              /\ backlog' = Append(backlog, c) /\ UNCHANGED inbox
            BY <2>1 DEF Connect
        <3>2. /\ backlog' \in Seq(Conn)
              /\ \A k \in DOMAIN backlog' :
                     \/ k = Len(backlog) + 1 /\ backlog'[k] = c
                     \/ k \in DOMAIN backlog /\ backlog'[k] = backlog[k]
            BY <3>1 DEF SocketInv, KernelOK
        <3>3. \A k \in DOMAIN backlog : backlog[k] # c
            BY <3>1 DEF SocketInv, KernelOK
        <3>4. \A k, l \in DOMAIN backlog' : backlog'[k] = backlog'[l] => k = l
            BY <3>2, <3>3 DEF SocketInv, KernelOK
        <3>5. \A k \in DOMAIN backlog' : backlog'[k] \in connected' \ accepted
            BY <3>1, <3>2 DEF SocketInv, KernelOK
        <3>6. QED
            BY <1>1, <3>1, <3>2, <3>4, <3>5 DEF SocketInv, KernelOK, groupVars
    <2>2. CASE Send(c)
        <3>1. inbox' \in [Conn -> Nat]
            BY <2>2 DEF Send, SocketInv, KernelOK
        <3>2. UNCHANGED <<connected, backlog>>
            BY <2>2 DEF Send, clientVars
        <3>3. QED
            BY <1>1, <3>1, <3>2 DEF SocketInv, KernelOK, groupVars
    <2>3. CASE Close(c)
        BY <1>1, <2>3 DEF Close, SocketInv, KernelOK, groupVars, kernelVars
    <2>4. QED
        BY <2>1, <2>2, <2>3 DEF Client
<1>6. PassOK'
    <2>1. /\ closed \subseteq closed'
          /\ \A d \in Conn : inbox[d] > 0 => inbox'[d] > 0
          /\ \A d \in Conn : d \in closed => inbox'[d] = inbox[d]
        BY DEF Client, Connect, Send, Close, clientVars, kernelVars, SocketInv, KernelOK
    <2>2. QED
        BY <1>1, <1>3, <2>1 DEF SocketInv, PassOK, ownerVars, groupVars, listenerVars
<1>7. QED
    BY <1>2, <1>4, <1>5, <1>6 DEF SocketInv

-----------------------------------------------------------------------------
(* The listener: what the pass learns about the socket at its index *)

\* A step of the pass alone keeps what is said of the sockets.
LEMMA PassKeeps ==
    ASSUME SocketInv, UNCHANGED <<ownerVars, groupVars, clientVars, kernelVars>>, LiveOK', PassOK'
    PROVE  SocketInv'
<1>1. MemoryOK'
    BY DEF SocketInv, MemoryOK, groupVars
<1>2. KernelOK'
    BY DEF SocketInv, KernelOK, groupVars, clientVars, kernelVars
<1>3. CallOK'
    BY DEF SocketInv, CallOK, ownerVars, kernelVars
<1>4. QED
    BY <1>1, <1>2, <1>3 DEF SocketInv

\* Steps that leave the walk, or have not begun it.
LEMMA outsideSocketInv ==
    ASSUME SocketInv,
           test \/ fill \/ acceptThrows \/ again \/ return \/ catch
    PROVE  SocketInv'
<1>1. /\ UNCHANGED <<ownerVars, groupVars, clientVars, kernelVars, at, reading>>
      /\ pc # "recv"
      /\ pc' \in {"fill", "ended", "crashed", "select", "oversleep", "dying", "test"}
    BY DEF test, fill, acceptThrows, again, return, catch, Step, PassOnly, Goto
<1>2. ~ReadsElement' /\ ~InPass'
    BY <1>1 DEF ReadsElement, InPass
<1>3. Group' = Group
    BY <1>1 DEF Group, groupVars
<1>4. LiveOK'
    BY <1>1, <1>2, <1>3 DEF SocketInv, LiveOK, kernelVars
<1>5. pc' \in {"select", "oversleep"} => fdset' = Group
    BY DEF test, fill, acceptThrows, again, return, catch, Step, PassOnly, Goto
<1>6. Group \cap Conn \subseteq accepted
    BY SocketTypes DEF Group, SocketInv, KernelOK
<1>7. PassOK'
    BY <1>1, <1>2, <1>3, <1>5, <1>6 DEF SocketInv, PassOK, InPass, ReadsElement, ownerVars, kernelVars
<1>8. QED
    BY <1>1, <1>4, <1>7, PassKeeps

LEMMA selectSocketInv ==
    ASSUME SocketInv, select
    PROVE  SocketInv'
<1>1. /\ UNCHANGED <<ownerVars, groupVars, clientVars, kernelVars, reading, fdset>>
      /\ pc \in {"select", "oversleep"} /\ pc' = "walk" /\ at' = 1
      /\ ready' = { s \in fdset : Readable(s) }
    BY DEF select, PassOnly, Goto
<1>2. ~ReadsElement' /\ InPass' /\ Group' = Group
    BY <1>1 DEF ReadsElement, InPass, Group, groupVars
<1>3. LiveOK'
    BY <1>1, <1>2 DEF SocketInv, LiveOK, kernelVars
<1>4. \A c \in ready' \cap Conn : inbox[c] > 0 \/ c \in closed
    BY <1>1, SocketTypes DEF Readable
<1>5. PassOK'
    BY <1>1, <1>2, <1>4 DEF SocketInv, PassOK, ownerVars, groupVars, clientVars, kernelVars
<1>6. QED
    BY <1>1, <1>3, <1>5, PassKeeps

LEMMA walkSocketInv ==
    ASSUME SocketInv, walk
    PROVE  SocketInv'
<1>1. /\ UNCHANGED <<ownerVars, groupVars, clientVars, kernelVars, reading, fdset, ready, at>>
      /\ pc = "walk" /\ pc' \in {"isset", "passed"} /\ (pc' = "isset" => at <= size)
    BY DEF walk, Step, PassOnly, Goto
<1>2. InPass /\ Group' = Group /\ (ReadsElement' => pc' = "isset")
    BY <1>1 DEF ReadsElement, InPass, Group, groupVars
<1>3. ASSUME pc' = "isset"
      PROVE  at \in DOMAIN cells /\ \A k \in 1 .. at : cells[k] \notin deleted
    <2>1. at \in 1 .. size /\ \A k \in 1 .. at : k \in 1 .. size
        BY <1>1, <1>3, SocketTypes DEF SocketInv, LiveOK
    <2>2. \A k \in 1 .. size : cells[k] \notin deleted
        BY DEF SocketInv, LiveOK, Group
    <2>3. QED
        BY <2>1, <2>2, SocketTypes
<1>4. LiveOK'
    BY <1>1, <1>2, <1>3 DEF SocketInv, LiveOK, groupVars, kernelVars
<1>5. PassOK'
    BY <1>1, <1>2 DEF SocketInv, PassOK, InPass, ReadsElement, ownerVars, groupVars, clientVars,
                      kernelVars
<1>6. QED
    BY <1>1, <1>4, <1>5, PassKeeps

LEMMA issetSocketInv ==
    ASSUME SocketInv, isset
    PROVE  SocketInv'
<1>1. /\ UNCHANGED <<ownerVars, groupVars, clientVars, kernelVars, reading, fdset, ready>>
      /\ pc = "isset" /\ pc' \in {"crashed", "type", "walk"}
      /\ at' \in {at, at + 1}
      /\ pc' = "type" => at' = at /\ cells[at] \in ready
    BY DEF isset, PassOnly, Goto
<1>2. ReadsElement /\ InPass /\ Group' = Group /\ (ReadsElement' => pc' = "type")
    BY <1>1 DEF ReadsElement, InPass, Group, groupVars
<1>3. at \in Nat \ {0} /\ at' \in Nat \ {0}
    BY <1>1 DEF SocketInv, LiveOK
<1>4. LiveOK'
    BY <1>1, <1>2, <1>3 DEF SocketInv, LiveOK, groupVars, kernelVars
<1>5. \A k \in at' .. size : k \in at .. size
    BY <1>1, <1>3, SocketTypes
<1>6. PassOK'
    BY <1>1, <1>2, <1>5 DEF SocketInv, PassOK, InPass, ReadsElement, ownerVars, groupVars,
                            clientVars, kernelVars
<1>7. QED
    BY <1>1, <1>4, <1>6, PassKeeps

\* type, nextReadSize and read stay at the element that isset has found ready.
LEMMA elementSocketInv ==
    ASSUME SocketInv, type \/ nextReadSize \/ read
    PROVE  SocketInv'
<1>1. /\ UNCHANGED <<ownerVars, groupVars, clientVars, kernelVars, fdset, ready, at>>
      /\ \/ pc = "type" /\ pc' \in {"crashed", "accept", "nextReadSize"} /\ UNCHANGED reading
         \/ pc = "nextReadSize" /\ pc' \in {"crashed", "disconnect", "read"} /\ UNCHANGED reading
         \/ pc = "read" /\ pc' \in {"crashed", "recv"} /\ reading' = cells[at]
      /\ pc' = "nextReadSize" => cells[at] \notin {Null, Listening}
      /\ pc' = "disconnect" => inbox[cells[at]] = 0
      /\ pc' = "crashed" => cells[at] = Null
    BY DEF type, nextReadSize, read, Step, PassOnly, Goto
<1>2. ReadsElement /\ InPass /\ Group' = Group
    BY <1>1 DEF ReadsElement, InPass, Group, groupVars
<1>3. at \in 1 .. at /\ at \in DOMAIN cells
    BY <1>2 DEF SocketInv, LiveOK
<1>4. cells[at] \notin deleted /\ cells[at] \in Sockets
    BY <1>2, <1>3, SocketTypes DEF SocketInv, LiveOK
<1>5. pc # "recv" /\ reading = Null
    BY <1>1 DEF SocketInv, LiveOK
<1>6. LiveOK'
    BY <1>1, <1>2, <1>4, <1>5 DEF SocketInv, LiveOK, ReadsElement, groupVars, kernelVars
<1>7. PassOK'
    <2> SUFFICES ASSUME ~stopped, owner # "gone" PROVE PassOK'
        BY <1>1 DEF PassOK, ownerVars
    <2>1. /\ Group \cap Conn = accepted \ deleted
          /\ fdset \cap Conn \subseteq accepted /\ ready \subseteq fdset
          /\ \A k \in at .. size :
                 cells[k] \in ready \cap Conn => inbox[cells[k]] > 0 \/ cells[k] \in closed
          /\ at <= size
          /\ cells[at] \in ready
          /\ pc \in {"nextReadSize", "read"} => cells[at] \in Conn
        BY <1>1, <1>2 DEF SocketInv, PassOK
    <2>2. at \in at .. size
        BY <2>1, <1>3, SocketTypes DEF SocketInv, LiveOK
    <2>3. pc' = "nextReadSize" => cells[at] \in Conn
        BY <1>1, <1>4 DEF Sockets
    <2>4. pc' = "disconnect" => cells[at] \in closed
        BY <1>1, <2>1, <2>2
    <2>5. QED
        BY <1>1, <1>2, <2>1, <2>3, <2>4 DEF PassOK, ownerVars, groupVars, clientVars, kernelVars
<1>8. QED
    BY <1>1, <1>6, <1>7, PassKeeps

-----------------------------------------------------------------------------
(* The callbacks of the listener *)

\* accept() gives the oldest connection, which no socket is open for, or NULL.
LEMMA acceptSocketInv ==
    ASSUME IInv, SocketInv, accept
    PROVE  SocketInv'
<1>1. /\ UNCHANGED <<ownerVars, clientVars, bound, inbox, deleted, fdset, ready, reading>>
      /\ pc = "accept" /\ pc' = "walk" /\ at' = at + 1 /\ backlog # <<>>
    BY DEF accept, Launched, Goto
<1>2. bound
    BY <1>1 DEF IInv, PortKept
<1>3. ReadsElement /\ InPass /\ ~ReadsElement' /\ InPass'
    BY <1>1 DEF ReadsElement, InPass
<1>4. CallOK'
    BY <1>1 DEF SocketInv, CallOK, ownerVars
<1>5. at \in Nat \ {0} /\ at' \in Nat \ {0}
    BY <1>1 DEF SocketInv, LiveOK
<1>6. ASSUME NEW s \in Sockets, PushBack(s), s \in Conn => s \notin accepted,
             accepted' = accepted \cup ({s} \cap Conn), accepted' \subseteq connected,
             backlog' \in Seq(Conn),
             \A k \in DOMAIN backlog' : backlog'[k] \in connected \ accepted',
             \A k, l \in DOMAIN backlog' : backlog'[k] = backlog'[l] => k = l
      PROVE  SocketInv'
    <2>1. s \in Conn => s \notin Group
        BY <1>6, SocketTypes DEF Group, SocketInv, KernelOK
    <2>2. /\ MemoryOK'
          /\ size' = size + 1
          /\ \A l \in 1 .. size : cells'[l] = cells[l]
          /\ cells'[size + 1] = s
          /\ \A l \in DOMAIN cells' : cells'[l] = s \/ (l \in DOMAIN cells /\ cells'[l] = cells[l])
          /\ Group' = Group \cup {s}
        BY <1>6, <2>1, PushBackLemma DEF SocketInv
    <2>3. KernelOK'
        BY <1>1, <1>2, <1>6, <2>2 DEF SocketInv, KernelOK, clientVars
    <2>4. s \notin deleted
        BY <1>6, SocketTypes DEF SocketInv, KernelOK, Sockets
    <2>5. LiveOK'
        BY <1>1, <1>3, <1>5, <2>2, <2>4 DEF SocketInv, LiveOK
    <2>6. PassOK'
        <3> SUFFICES ASSUME ~stopped, owner # "gone" PROVE PassOK'
            BY <1>1 DEF PassOK, ownerVars
        <3>1. /\ Group \cap Conn = accepted \ deleted
              /\ fdset \cap Conn \subseteq accepted /\ ready \subseteq fdset
              /\ \A k \in at .. size :
                     cells[k] \in ready \cap Conn => inbox[cells[k]] > 0 \/ cells[k] \in closed
            BY <1>3 DEF SocketInv, PassOK
        <3>2. Group' \cap Conn = accepted' \ deleted
            BY <1>6, <2>2, <2>4, <3>1
        <3>3. s \notin ready \cap Conn
            BY <1>6, <3>1
        <3>4. \A k \in at' .. size' : k = size + 1 \/ (k \in at .. size /\ k \in 1 .. size)
            BY <1>1, <1>5, <2>2, SocketTypes
        <3>5. \A k \in at' .. size' :
                  cells'[k] \in ready \cap Conn => inbox[cells'[k]] > 0 \/ cells'[k] \in closed
            BY <2>2, <3>1, <3>3, <3>4
        <3>6. QED
            BY <1>1, <1>3, <1>6, <3>1, <3>2, <3>5
               DEF PassOK, ReadsElement, InPass, ownerVars, clientVars
    <2>7. QED
        BY <1>4, <2>2, <2>3, <2>5, <2>6 DEF SocketInv
<1>7. CASE PushBack(Head(backlog)) /\ accepted' = accepted \cup {Head(backlog)} /\ backlog' = Tail(backlog)
    <2>1. /\ Head(backlog) = backlog[1] /\ 1 \in DOMAIN backlog
          /\ Tail(backlog) \in Seq(Conn)
          /\ \A k \in DOMAIN Tail(backlog) :
                 k + 1 \in DOMAIN backlog /\ Tail(backlog)[k] = backlog[k + 1] /\ k + 1 # 1
        BY <1>1, HeadTailProperties DEF SocketInv, KernelOK
    <2>2. Head(backlog) \in Conn /\ Head(backlog) \in connected \ accepted
        BY <2>1 DEF SocketInv, KernelOK
    <2>3. \A k \in DOMAIN backlog' : backlog'[k] \in connected \ accepted'
        BY <1>7, <2>1, <2>2 DEF SocketInv, KernelOK
    <2>4. \A k, l \in DOMAIN backlog' : backlog'[k] = backlog'[l] => k = l
        <3> SUFFICES ASSUME NEW k \in DOMAIN Tail(backlog), NEW l \in DOMAIN Tail(backlog),
                            Tail(backlog)[k] = Tail(backlog)[l]
                     PROVE  k = l
            BY <1>7
        <3>1. k + 1 = l + 1
            BY <2>1 DEF SocketInv, KernelOK
        <3>2. k \in Nat /\ l \in Nat
            BY <2>1, LenProperties
        <3>3. QED
            BY <3>1, <3>2
    <2>5. accepted' \subseteq connected /\ accepted' = accepted \cup ({Head(backlog)} \cap Conn)
        BY <1>7, <2>2 DEF SocketInv, KernelOK
    <2>6. Head(backlog) \in Sockets
        BY <2>2 DEF Sockets
    <2>7. QED
        BY <1>6, <1>7, <2>1, <2>2, <2>3, <2>4, <2>5, <2>6
<1>8. CASE PushBack(Null) /\ UNCHANGED <<accepted, backlog>>
    <2>1. Null \in Sockets /\ Null \notin Conn
        BY SocketsAssumption DEF Sockets
    <2>2. QED
        BY <1>6, <1>8, <2>1 DEF SocketInv, KernelOK
<1>9. QED
    BY <1>7, <1>8 DEF accept

\* What OnDisconnect deletes is taken out of the group, unless the owner has.
LEMMA disconnectSocketInv ==
    ASSUME IInv, SocketInv, disconnect
    PROVE  SocketInv'
<1>1. /\ UNCHANGED <<ownerVars, clientVars, bound, backlog, inbox, accepted, fdset, ready, reading>>
      /\ pc = "disconnect" /\ pc' = "walk" /\ at' = at + 1
      /\ deleted' = deleted \cup ({cells[at]} \cap Conn)
    BY DEF disconnect, Launched, Goto
<1>2. bound
    BY <1>1 DEF IInv, PortKept
<1>3. ReadsElement /\ InPass /\ ~ReadsElement' /\ InPass'
    BY <1>1 DEF ReadsElement, InPass
<1>4. CallOK'
    BY <1>1 DEF SocketInv, CallOK, ownerVars
<1>5. at \in Nat \ {0} /\ at' \in Nat \ {0} /\ at \in DOMAIN cells /\ reading = Null
    BY <1>1, <1>3 DEF SocketInv, LiveOK
<1>6. deleted' \subseteq accepted /\ Null \notin deleted'
    BY <1>1, <1>5, SocketTypes DEF SocketInv, KernelOK
<1>7. CASE \E k \in 1 .. size : Place(cells[at], k) /\ Erase(k)
    <2>1. PICK k \in 1 .. size : cells[k] = cells[at] /\ Erase(k)
        BY <1>7 DEF Place
    <2>2. /\ MemoryOK'
          /\ DOMAIN cells' = DOMAIN cells
          /\ size' = size - 1
          /\ \A l \in DOMAIN cells :
                 cells'[l] = IF k <= l /\ l < size THEN cells[l + 1] ELSE cells[l]
          /\ Group' \subseteq Group
          /\ \A l \in DOMAIN cells : cells'[l] = cells[l] \/ cells'[l] \in Group
          /\ cells[at] \in Conn => Group' = Group \ {cells[at]}
        BY <2>1, EraseLemma DEF SocketInv
    <2>3. \A l \in DOMAIN cells : cells'[l] \in Conn => cells'[l] \in accepted
        BY <2>2, SocketTypes DEF Group, SocketInv, KernelOK
    <2>4. KernelOK'
        BY <1>1, <1>2, <1>6, <2>2, <2>3 DEF SocketInv, KernelOK, clientVars
    <2>5. Group' \cap deleted' = {}
        BY <1>1, <2>2 DEF SocketInv, LiveOK
    <2>6. LiveOK'
        BY <1>1, <1>3, <1>5, <1>6, <2>5 DEF SocketInv, LiveOK
    <2>7. PassOK'
        <3> SUFFICES ASSUME ~stopped, owner # "gone" PROVE PassOK'
            BY <1>1 DEF PassOK, ownerVars
        <3>1. /\ Group \cap Conn = accepted \ deleted
              /\ fdset \cap Conn \subseteq accepted /\ ready \subseteq fdset
              /\ \A l \in at .. size :
                     cells[l] \in ready \cap Conn => inbox[cells[l]] > 0 \/ cells[l] \in closed
              /\ at <= size /\ cells[at] \in Conn
            BY <1>1, <1>3 DEF SocketInv, PassOK
        <3>2. Group' \cap Conn = accepted \ deleted'
            BY <1>1, <2>2, <3>1
        <3>3. at \in 1 .. size
            BY <1>5, <3>1, SocketTypes
        <3>4. k = at
            BY <2>1, <3>1, <3>3 DEF SocketInv, MemoryOK
        <3>5. \A l \in at' .. size' :
                  /\ l \in DOMAIN cells /\ l + 1 \in at .. size
                  /\ k <= l /\ l < size
            BY <1>1, <1>5, <2>2, <3>4, SocketTypes
        <3>6. \A l \in at' .. size' : cells'[l] = cells[l + 1]
            BY <2>2, <3>5
        <3>7. \A l \in at' .. size' :
                  cells'[l] \in ready \cap Conn => inbox[cells'[l]] > 0 \/ cells'[l] \in closed
            BY <3>1, <3>5, <3>6
        <3>8. QED
            BY <1>1, <1>3, <3>1, <3>2, <3>7 DEF PassOK, ReadsElement, InPass, ownerVars, clientVars
    <2>8. QED
        BY <1>4, <2>2, <2>4, <2>6, <2>7 DEF SocketInv
<1>8. CASE cells[at] \notin Group /\ UNCHANGED groupVars
    <2>1. MemoryOK' /\ Group' = Group
        BY <1>8 DEF SocketInv, MemoryOK, Group, groupVars
    <2>2. KernelOK'
        BY <1>1, <1>6, <1>8 DEF SocketInv, KernelOK, clientVars, groupVars
    <2>3. LiveOK'
        BY <1>1, <1>3, <1>5, <1>6, <1>8, <2>1 DEF SocketInv, LiveOK
    <2>4. stopped
        <3> SUFFICES ASSUME ~stopped, owner # "gone" PROVE cells[at] \in Group
            BY <1>1, <1>8 DEF IInv, StoppedIsQuiet
        <3>1. at \in 1 .. size
            BY <1>3, <1>5, SocketTypes DEF SocketInv, PassOK
        <3>2. QED
            BY <3>1 DEF Group
    <2>5. PassOK'
        BY <1>1, <2>4 DEF PassOK, ownerVars
    <2>6. QED
        BY <1>4, <2>1, <2>2, <2>3, <2>5 DEF SocketInv
<1>9. QED
    BY <1>7, <1>8 DEF disconnect

LEMMA recvSocketInv ==
    ASSUME IInv, SocketInv, recv
    PROVE  SocketInv'
<1>1. /\ UNCHANGED <<ownerVars, groupVars, clientVars, bound, backlog, accepted, deleted, fdset, ready>>
      /\ pc = "recv" /\ pc' \in {"walk", "dying"} /\ at' \in {at, at + 1}
      /\ pc' = "walk" => at' = at + 1
      /\ inbox' = [inbox EXCEPT ![reading] = IF @ > 0 THEN @ - 1 ELSE 0]
      /\ reading' = Null
    BY DEF recv, Goto
<1>2. InPass /\ ~ReadsElement' /\ (InPass' => pc' = "walk") /\ Group' = Group
    BY <1>1 DEF ReadsElement, InPass, Group, groupVars
<1>3. at \in Nat \ {0} /\ at' \in Nat \ {0}
    BY <1>1 DEF SocketInv, LiveOK
<1>4. MemoryOK' /\ CallOK'
    BY <1>1 DEF SocketInv, MemoryOK, CallOK, ownerVars, groupVars
<1>5. inbox' \in [Conn -> Nat] /\ \A c \in Conn \ {reading} : inbox'[c] = inbox[c]
    <2>1. \A n \in Nat : (IF n > 0 THEN n - 1 ELSE 0) \in Nat
        OBVIOUS
    <2>2. QED
        BY <1>1, <2>1 DEF SocketInv, KernelOK
<1>6. KernelOK'
    BY <1>1, <1>5 DEF SocketInv, KernelOK, groupVars, clientVars
<1>7. LiveOK'
    BY <1>1, <1>2, <1>3, SocketTypes DEF SocketInv, LiveOK
<1>8. PassOK'
    <2> SUFFICES ASSUME ~stopped, owner # "gone" PROVE PassOK'
        BY <1>1 DEF PassOK, ownerVars
    <2>1. /\ Group \cap Conn = accepted \ deleted
          /\ fdset \cap Conn \subseteq accepted /\ ready \subseteq fdset
          /\ \A k \in at .. size :
                 cells[k] \in ready \cap Conn => inbox[cells[k]] > 0 \/ cells[k] \in closed
          /\ at <= size /\ cells[at] \in Conn /\ reading = cells[at]
        BY <1>1, <1>2 DEF SocketInv, PassOK
    <2>2. \A k \in at + 1 .. size : k \in at .. size /\ k \in 1 .. size /\ at \in 1 .. size /\ k # at
        BY <1>3, <2>1, SocketTypes
    <2>3. \A k \in at + 1 .. size : cells[k] \in Conn => cells[k] # reading
        BY <2>1, <2>2 DEF SocketInv, MemoryOK
    <2>4. \A k \in at + 1 .. size :
              cells[k] \in ready \cap Conn => inbox'[cells[k]] > 0 \/ cells[k] \in closed
        BY <1>5, <2>1, <2>2, <2>3
    <2>5. QED
        BY <1>1, <1>2, <2>1, <2>4 DEF PassOK, ReadsElement, InPass, ownerVars, groupVars, clientVars
<1>9. QED
    BY <1>4, <1>6, <1>7, <1>8 DEF SocketInv

LEMMA NextSocketInv == IInv /\ SocketInv /\ [Next]_vars => SocketInv'
<1> SUFFICES ASSUME IInv, SocketInv, [Next]_vars
             PROVE  SocketInv'
    OBVIOUS
<1>1. CASE Owner
    BY <1>1, OwnerSocketInv
<1>2. CASE listener
    BY <1>2, outsideSocketInv, selectSocketInv, walkSocketInv, issetSocketInv, elementSocketInv,
       acceptSocketInv, disconnectSocketInv, recvSocketInv DEF listener
<1>3. CASE \E c \in Conn : Client(c)
    BY <1>3, ClientSocketInv
<1>4. CASE UNCHANGED vars
    <2>1. CallOK'
        BY <1>4 DEF vars, SocketInv, CallOK, ownerVars, kernelVars
    <2>2. QED
        BY <1>4, <2>1, SocketsKept DEF vars, SocketInv, ownerVars
<1>5. QED
    BY <1>1, <1>2, <1>3, <1>4 DEF Next

LEMMA SocketInvariance == Spec => []SocketInv
BY InitSocketInv, NextSocketInv, Invariance, PTL DEF Spec

(***************************************************************************)
(* However the owner erases sockets under the walk of the listener, which  *)
(* no lock prevents, the listener never reads an element outside of the    *)
(* memory of the vector, nor uses a socket that was deleted: for any       *)
(* number of clients.                                                      *)
(***************************************************************************)
THEOREM NoUseAfterDelete == Spec => []NoDeletedUsed
<1>1. SocketInv => NoDeletedUsed
    <2> SUFFICES ASSUME SocketInv PROVE NoDeletedUsed
        OBVIOUS
    <2>1. at \in 1 .. at
        BY DEF SocketInv, LiveOK
    <2>2. QED
        BY <2>1 DEF SocketInv, LiveOK, NoDeletedUsed
<1>2. QED
    BY <1>1, SocketInvariance, PTL

(***************************************************************************)
(* A server that nobody stops or destroys has a descriptor open for        *)
(* exactly the clients in its group: accept() and OnDisconnect leak none   *)
(* and close none twice, however many clients come and go.  (Both stop()   *)
(* and ~Server leave open the descriptors of the group they give up.)      *)
(***************************************************************************)
THEOREM Descriptors == Spec => []DescriptorsAccounted
<1>1. SocketInv => DescriptorsAccounted
    BY DEF SocketInv, PassOK, DescriptorsAccounted
<1>2. QED
    BY <1>1, SocketInvariance, PTL

(***************************************************************************)
(* A server that nobody stops closes only connections whose client has     *)
(* gone and left nothing unread, although the walk decides on what         *)
(* select() said before the callbacks of the same pass.                    *)
(***************************************************************************)
THEOREM DropsOnlyClosed == Spec => OnlyClosedDropped
<1>1. IInv /\ SocketInv /\ [Next]_vars =>
          [\A c \in deleted' \ deleted : stopped \/ (c \in closed /\ inbox[c] = 0)]_vars
    <2> SUFFICES ASSUME IInv, SocketInv, Next, NEW c \in deleted' \ deleted
                 PROVE  stopped \/ (c \in closed /\ inbox[c] = 0)
        OBVIOUS
    <2>1. CASE disconnect
        <3>1. owner # "gone"
            BY <2>1 DEF disconnect, IInv, StoppedIsQuiet
        <3>2. QED
            BY <2>1, <3>1 DEF disconnect, SocketInv, PassOK
    <2>2. CASE Owner
        BY <2>2 DEF Owner, callStep, start, startThrows, stop, destroy, stopTest, remove,
                    removeThrows, stopListening, join, OwnerOnly, kernelVars
    <2>3. CASE listener /\ ~disconnect
        BY <2>3 DEF listener, test, fill, select, walk, isset, type, nextReadSize, accept,
                    acceptThrows, read, recv, again, return, catch, Step, PassOnly, kernelVars
    <2>4. CASE \E d \in Conn : Client(d)
        BY <2>4 DEF Client, Connect, Send, Close, kernelVars
    <2>5. QED
        BY <2>1, <2>2, <2>3, <2>4 DEF Next
<1>2. QED
    BY <1>1, Invariance, SocketInvariance, PTL DEF Spec, OnlyClosedDropped

=============================================================================
