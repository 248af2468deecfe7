---------------------------- MODULE Client_proofs ----------------------------
(***************************************************************************)
(* Proofs about Client, for any number of calls: its types, the answer a   *)
(* call finds in the inbox whatever the server closes and however long a   *)
(* thread sleeps, and, while the server closes nothing, the one listener   *)
(* thread, the mutex and the steps of Exchange.                            *)
(***************************************************************************)
EXTENDS Client, FiniteSetTheorems, TLAPS

Procs == {Main} \cup Threads

InCall == pc[Main] \notin {"idle", "done", "crashed"}

(***************************************************************************)
(* Where the threads are.  The main thread never has a step of a listener, *)
(* so that a join waits for another thread.                                *)
(***************************************************************************)
PcOK ==
    /\ pc \in [Procs -> MainSteps \cup ThreadSteps \cup BothSteps]
    /\ pc[Main] \in MainSteps \cup BothSteps
    /\ \A th \in Threads : pc[th] \in ThreadSteps \cup BothSteps

(***************************************************************************)
(* How often the mutex is locked and how many threads a call has started:  *)
(* a call locks once and starts at most two, where it has got to.          *)
(***************************************************************************)
CountOK ==
    /\ call \in 0 .. MaxCalls
    /\ InCall => call >= 1
    /\ depth \in 0 .. call
    /\ InCall => depth >= 1
    /\ spawned \in 0 .. 2 * call
    /\ pc[Main] \in {"flag", "spawn"} => spawned <= 2 * call - 2
    /\ pc[Main] \in {"assign", "connected", "sendMessage", "sendStop", "sendLower", "sendJoin",
                     "send", "reflag", "respawn"} => spawned <= 2 * call - 1

ListenOK ==
    /\ connected \in BOOLEAN
    /\ is_listening \in BOOLEAN
    /\ listening_thread \in 0 .. spawned
    /\ joined \subseteq Threads

DataOK ==
    /\ group \subseteq Sessions
    /\ disconnected \subseteq Sessions
    /\ fdset \in [Threads -> SUBSET Sessions]
    /\ held \in [Threads -> {0} \cup Sessions]
    /\ \A th \in Threads : pc[th] = "push" => held[th] \in Sessions
    /\ received_messages \in Seq(Sessions)
    /\ asked \subseteq Sessions
    /\ inbound \in [Sessions -> Seq(Sessions)]
    /\ eof \subseteq Sessions

TypeInv == PcOK /\ CountOK /\ ListenOK /\ DataOK

LEMMA InitTypeInv == Init => TypeInv
<1> SUFFICES ASSUME Init PROVE TypeInv
  OBVIOUS
<1> USE MaxCallsAssumption
<1>1. PcOK
  BY DEF Init, PcOK, Procs, Main, Threads, MainSteps, ThreadSteps, BothSteps
<1>2. CountOK
  BY <1>1 DEF Init, CountOK, InCall, Main, Threads
<1>3. ListenOK
  <2>1. listening_thread = 0 /\ spawned = 0 /\ joined = {} /\ ~connected /\ ~is_listening
    BY DEF Init, Main
  <2>2. connected \in BOOLEAN /\ is_listening \in BOOLEAN
    BY DEF Init
  <2> QED BY <2>1, <2>2 DEF ListenOK
<1>4. DataOK
  BY DEF Init, DataOK, Main, Threads, Sessions
<1> QED BY <1>1, <1>2, <1>3, <1>4 DEF TypeInv

-----------------------------------------------------------------------------
(* The steps of connect and sendMessage, which only the main thread takes *)

\* startListening, from its first label to the one after it.
LEMMA startListeningPcOK ==
    ASSUME TypeInv,
           \/ startListening("flag", "spawn", "assign", "connected")
           \/ startListening("reflag", "respawn", "reassign", "poll")
    PROVE  PcOK'
<1> USE MaxCallsAssumption DEF TypeInv, PcOK, Procs, Main, Threads, MainSteps, ThreadSteps, BothSteps
<1>1. spawned \in Nat
  BY DEF CountOK
<1>2. CASE startListening("flag", "spawn", "assign", "connected")
  BY <1>1, <1>2 DEF startListening, Go
<1>3. CASE startListening("reflag", "respawn", "reassign", "poll")
  BY <1>1, <1>3 DEF startListening, Go
<1> QED BY <1>2, <1>3

LEMMA mainPcOK ==
    ASSUME TypeInv,
           \/ connect \/ connectRefused \/ connectListens \/ connectDone
           \/ sendMessage \/ sendStops \/ send \/ sendListens \/ poll \/ clearInbox
    PROVE  PcOK'
<1> USE DEF Go
<1> DEFINE Labels == MainSteps \cup ThreadSteps \cup BothSteps
<1>1. CASE connectListens
  BY <1>1, startListeningPcOK DEF connectListens
<1>2. CASE sendListens
  BY <1>2, startListeningPcOK DEF sendListens
<1> USE MaxCallsAssumption DEF TypeInv, PcOK, Procs, Main, Threads, MainSteps, ThreadSteps, BothSteps
<1>3. CASE connect \/ connectRefused \/ connectDone
  BY <1>3 DEF connect, connectRefused, Crash, connectDone
<1>4. CASE sendMessage
  BY <1>4 DEF sendMessage
<1>5. CASE send \/ poll \/ clearInbox
  BY <1>5 DEF send, poll, clearInbox
<1>6. CASE sendStops
  <2>1. CASE stopListening(Main, "sendStop", "sendLower", "sendJoin", "send")
    BY <2>1 DEF stopListening, Lower, Join
  <2>2. CASE pc[Main] = "sendJoin" /\ Go(Main, "sendJoin", "poll")
    BY <2>2
  <2>3. CASE Crash
    BY <2>3 DEF Crash
  <2> QED BY <1>6, <2>1, <2>2, <2>3 DEF sendStops
<1> QED BY <1>1, <1>2, <1>3, <1>4, <1>5, <1>6

\* disconnect, by the main thread or by a listener.
LEMMA disconnectPcOK ==
    ASSUME TypeInv, NEW a \in Procs, disconnect(a)
    PROVE  PcOK'
<1> USE MaxCallsAssumption DEF Go, TypeInv, PcOK, Procs, Main, Threads, MainSteps, ThreadSteps, BothSteps
<1>1. CASE disconnectBegins(a)
  BY <1>1 DEF disconnectBegins, Return
<1>2. CASE disconnectCounts(a) \/ disconnectCloses(a) \/ disconnectRemoves(a)
  BY <1>2 DEF disconnectCounts, disconnectCloses, disconnectRemoves
<1>3. CASE disconnectStops(a)
  <2>1. CASE stopListening(a, "stop", "lower", "join", "finish")
    BY <2>1 DEF stopListening, Lower, Join
  <2>2. CASE a # Main /\ Go(a, "join", "dying")
    BY <2>2
  <2>3. CASE Crash
    BY <2>3 DEF Crash
  <2> QED BY <1>3, <2>1, <2>2, <2>3 DEF disconnectStops
<1>4. CASE disconnectEnds(a)
  BY <1>4 DEF disconnectEnds, Return
<1>5. CASE disconnectThrows(a)
  BY <1>5 DEF disconnectThrows, Crash
<1> QED BY <1>1, <1>2, <1>3, <1>4, <1>5 DEF disconnect

LEMMA listenerPcOK ==
    ASSUME TypeInv, NEW th \in Threads, listener(th)
    PROVE  PcOK'
<1>1. CASE disconnect(th)
  BY <1>1, disconnectPcOK DEF Procs
<1> USE MaxCallsAssumption DEF Go, TypeInv, PcOK, Procs, Main, Threads, MainSteps, ThreadSteps, BothSteps
<1>2. CASE listenerTest(th) \/ listenFill(th)
  BY <1>2 DEF listenerTest, listenFill
<1>3. CASE listenSelect(th)
  BY <1>3 DEF listenSelect
<1>4. CASE listenLaunch(th)
  BY <1>4 DEF listenLaunch
<1>5. CASE listenPush(th) \/ listenerCatch(th)
  BY <1>5 DEF listenPush, listenerCatch
<1> QED BY <1>1, <1>2, <1>3, <1>4, <1>5 DEF listener

-----------------------------------------------------------------------------
(* The counters *)

\* What does not touch the counters and lets the main thread stay where it is.
LEMMA CountKept ==
    ASSUME CountOK, UNCHANGED <<call, depth, spawned>>, pc'[Main] = pc[Main]
    PROVE  CountOK'
  BY DEF CountOK, InCall

LEMMA startListeningCountOK ==
    ASSUME TypeInv, UNCHANGED <<call, depth>>,
           \/ startListening("flag", "spawn", "assign", "connected")
           \/ startListening("reflag", "respawn", "reassign", "poll")
    PROVE  CountOK'
<1> USE MaxCallsAssumption DEF Go, TypeInv, PcOK, CountOK, InCall, Procs, Main, Threads
<1>1. CASE startListening("flag", "spawn", "assign", "connected")
  BY <1>1 DEF startListening
<1>2. CASE startListening("reflag", "respawn", "reassign", "poll")
  BY <1>2 DEF startListening
<1> QED BY <1>1, <1>2

LEMMA mainCountOK ==
    ASSUME TypeInv,
           \/ connect \/ connectRefused \/ connectListens \/ connectDone
           \/ sendMessage \/ sendStops \/ send \/ sendListens \/ poll \/ clearInbox
    PROVE  CountOK'
<1>1. CASE connectListens
  BY <1>1, startListeningCountOK DEF connectListens, lockVars
<1>2. CASE sendListens
  BY <1>2, startListeningCountOK DEF sendListens, lockVars
<1> USE MaxCallsAssumption DEF Go, TypeInv, PcOK, CountOK, InCall, Procs, Main, Threads
<1>3. CASE connect
  BY <1>3 DEF connect, listenVars
<1>4. CASE connectRefused \/ connectDone
  BY <1>4 DEF connectRefused, Crash, connectDone, listenVars, lockVars
<1>5. CASE sendMessage
  BY <1>5 DEF sendMessage, listenVars, lockVars
<1>6. CASE send \/ poll \/ clearInbox
  BY <1>6 DEF send, poll, clearInbox, listenVars, lockVars
<1>7. CASE sendStops
  <2>1. CASE stopListening(Main, "sendStop", "sendLower", "sendJoin", "send")
    BY <2>1, <1>7 DEF sendStops, stopListening, Lower, Join
  <2>2. CASE pc[Main] = "sendJoin" /\ UNCHANGED listenVars /\ Go(Main, "sendJoin", "poll")
    BY <2>2, <1>7 DEF sendStops, listenVars
  <2>3. CASE pc[Main] = "sendJoin" /\ UNCHANGED listenVars /\ Crash
    BY <2>3, <1>7 DEF sendStops, listenVars, Crash
  <2> QED BY <1>7, <2>1, <2>2, <2>3 DEF sendStops
<1> QED BY <1>1, <1>2, <1>3, <1>4, <1>5, <1>6, <1>7

\* The main thread unlocks what it has locked; a listener does not count.
LEMMA disconnectCountOK ==
    ASSUME TypeInv, NEW a \in Procs, disconnect(a)
    PROVE  CountOK'
<1> USE MaxCallsAssumption DEF Go, TypeInv, PcOK, Procs, Main, Threads
<1>1. CASE disconnectBegins(a)
  BY <1>1 DEF disconnectBegins, Return, CountOK, InCall, listenVars, lockVars
<1>2. CASE disconnectCounts(a) \/ disconnectCloses(a) \/ disconnectRemoves(a)
  BY <1>2 DEF disconnectCounts, disconnectCloses, disconnectRemoves, CountOK, InCall, listenVars,
              lockVars
<1>3. CASE disconnectStops(a)
  <2> USE DEF CountOK, InCall
  <2>1. CASE stopListening(a, "stop", "lower", "join", "finish")
    BY <2>1, <1>3 DEF disconnectStops, stopListening, Lower, Join, lockVars
  <2>2. CASE a # Main /\ Go(a, "join", "dying") /\ UNCHANGED listenVars
    BY <2>2, <1>3 DEF disconnectStops, listenVars, lockVars
  <2>3. CASE Crash /\ UNCHANGED listenVars
    BY <2>3, <1>3 DEF disconnectStops, listenVars, lockVars, Crash
  <2> QED BY <1>3, <2>1, <2>2, <2>3 DEF disconnectStops
<1>4. CASE disconnectEnds(a)
  BY <1>4 DEF disconnectEnds, Return, CountOK, InCall, listenVars
<1>5. CASE disconnectThrows(a)
  BY <1>5 DEF disconnectThrows, Crash, CountOK, InCall, listenVars, lockVars
<1> QED BY <1>1, <1>2, <1>3, <1>4, <1>5 DEF disconnect

LEMMA listenerCountOK ==
    ASSUME TypeInv, NEW th \in Threads, listener(th)
    PROVE  CountOK'
<1>1. CASE disconnect(th)
  BY <1>1, disconnectCountOK DEF Procs
<1>2. ASSUME \/ listenerTest(th) \/ listenFill(th) \/ listenSelect(th)
             \/ listenLaunch(th) \/ listenPush(th) \/ listenerCatch(th)
      PROVE  CountOK'
  <2> USE DEF Go, TypeInv, PcOK, Procs, Main, Threads
  <2>1. pc'[Main] = pc[Main]
    BY <1>2 DEF listenerTest, listenFill, listenSelect, listenLaunch, listenPush, listenerCatch
  <2>2. UNCHANGED <<call, depth, spawned>>
    BY <1>2 DEF listenerTest, listenFill, listenSelect, listenLaunch, listenPush, listenerCatch,
                unchangedByListen, lockVars
  <2> QED BY <2>1, <2>2, CountKept DEF TypeInv
<1> QED BY <1>1, <1>2 DEF listener

-----------------------------------------------------------------------------
(* What the threads share, and the sockets *)

\* The thread that a join deletes has ended: it is a listener.
LEMMA startListeningListenOK ==
    ASSUME TypeInv, UNCHANGED connected,
           \/ startListening("flag", "spawn", "assign", "connected")
           \/ startListening("reflag", "respawn", "reassign", "poll")
    PROVE  ListenOK'
<1>1. is_listening' \in BOOLEAN
  BY DEF startListening, TypeInv, ListenOK
<1>2. listening_thread' \in 0 .. spawned'
  <2>1. listening_thread \in 0 .. spawned /\ spawned \in Nat
    BY MaxCallsAssumption DEF TypeInv, CountOK, ListenOK
  <2>2. \/ UNCHANGED <<listening_thread, spawned>>
        \/ spawned' = spawned + 1 /\ UNCHANGED listening_thread
        \/ listening_thread' = spawned /\ UNCHANGED spawned
    BY DEF startListening
  <2> QED BY <2>1, <2>2
<1>3. joined' = joined
  BY DEF startListening
<1> QED BY <1>1, <1>2, <1>3 DEF TypeInv, ListenOK

LEMMA stopListeningListenOK ==
    ASSUME TypeInv, NEW a \in Procs, NEW stop, NEW lower, NEW join, NEW next,
           stopListening(a, stop, lower, join, next)
    PROVE  /\ is_listening' \in BOOLEAN
           /\ listening_thread' \in 0 .. spawned'
           /\ joined' \subseteq Threads
<1>1. CASE Lower(a, stop, lower, join, next) /\ UNCHANGED <<listening_thread, joined, spawned>>
  BY <1>1 DEF Lower, TypeInv, ListenOK
<1>2. CASE Join(a, join, next) /\ UNCHANGED <<is_listening, listening_thread, spawned>>
  <2>1. listening_thread \in 0 .. 2 * MaxCalls
    BY MaxCallsAssumption DEF TypeInv, CountOK, ListenOK
  <2>2. listening_thread # Main
    BY <1>2 DEF Join, TypeInv, PcOK, MainSteps, BothSteps
  <2>3. listening_thread \in Threads
    BY <2>1, <2>2 DEF Threads, Main
  <2> QED BY <1>2, <2>3 DEF Join, TypeInv, ListenOK
<1> QED BY <1>1, <1>2 DEF stopListening

LEMMA mainListenOK ==
    ASSUME TypeInv,
           \/ connect \/ connectRefused \/ connectListens \/ connectDone
           \/ sendMessage \/ sendStops \/ send \/ sendListens \/ poll \/ clearInbox
    PROVE  ListenOK'
<1>1. CASE connectListens
  BY <1>1, startListeningListenOK DEF connectListens, lockVars
<1>2. CASE sendListens
  BY <1>2, startListeningListenOK DEF sendListens, lockVars
<1>3. CASE connect \/ connectRefused \/ connectDone
  BY <1>3 DEF connect, connectRefused, Crash, connectDone, listenVars, lockVars, TypeInv, ListenOK
<1>4. CASE sendMessage \/ send \/ poll \/ clearInbox
  BY <1>4 DEF sendMessage, send, poll, clearInbox, listenVars, lockVars, TypeInv, ListenOK
<1>5. CASE sendStops
  <2>1. CASE /\ stopListening(Main, "sendStop", "sendLower", "sendJoin", "send")
             /\ UNCHANGED connected
    BY <2>1, stopListeningListenOK DEF Procs, TypeInv, ListenOK
  <2>2. CASE UNCHANGED listenVars /\ (connected' = FALSE \/ UNCHANGED connected)
    BY <2>2 DEF listenVars, TypeInv, ListenOK
  <2> QED BY <1>5, <2>1, <2>2 DEF sendStops
<1> QED BY <1>1, <1>2, <1>3, <1>4, <1>5

LEMMA disconnectListenOK ==
    ASSUME TypeInv, NEW a \in Procs, disconnect(a)
    PROVE  ListenOK'
<1>1. CASE \/ disconnectBegins(a) \/ disconnectCounts(a) \/ disconnectCloses(a) \/ disconnectRemoves(a)
           \/ disconnectThrows(a) \/ disconnectEnds(a)
  BY <1>1 DEF disconnectBegins, disconnectCounts, disconnectCloses, disconnectRemoves,
              disconnectThrows, Crash, disconnectEnds,
              listenVars, lockVars, TypeInv, ListenOK
<1>2. CASE disconnectStops(a)
  <2>1. UNCHANGED connected
    BY <1>2 DEF disconnectStops, lockVars
  <2>2. CASE stopListening(a, "stop", "lower", "join", "finish")
    BY <2>1, <2>2, stopListeningListenOK DEF TypeInv, ListenOK
  <2>3. CASE UNCHANGED listenVars
    BY <2>1, <2>3 DEF listenVars, TypeInv, ListenOK
  <2> QED BY <1>2, <2>2, <2>3 DEF disconnectStops
<1> QED BY <1>1, <1>2 DEF disconnect

LEMMA listenerListenOK ==
    ASSUME TypeInv, NEW th \in Threads, listener(th)
    PROVE  ListenOK'
<1>1. CASE disconnect(th)
  BY <1>1, disconnectListenOK DEF Procs
<1>2. ASSUME \/ listenerTest(th) \/ listenFill(th) \/ listenSelect(th)
             \/ listenLaunch(th) \/ listenPush(th) \/ listenerCatch(th)
      PROVE  ListenOK'
  BY <1>2 DEF listenerTest, listenFill, listenSelect, listenLaunch, listenPush, listenerCatch,
              unchangedByListen, lockVars, TypeInv, ListenOK
<1> QED BY <1>1, <1>2 DEF listener

\* A step that leaves the sockets and the messages alone, and no thread with a
\* message it had not before.
LEMMA DataKept ==
    ASSUME DataOK, UNCHANGED <<sockVars, threadVars, received_messages, netVars>>,
           \A th \in Threads : pc'[th] = "push" => pc[th] = "push"
    PROVE  DataOK'
  BY DEF DataOK, sockVars, threadVars, netVars

LEMMA mainDataOK ==
    ASSUME TypeInv,
           \/ connect \/ connectRefused \/ connectListens \/ connectDone
           \/ sendMessage \/ sendStops \/ send \/ sendListens \/ poll \/ clearInbox
    PROVE  DataOK'
<1>1. \A th \in Threads : pc'[th] = "push" => pc[th] = "push"
  <2> USE MaxCallsAssumption DEF Go, TypeInv, PcOK, CountOK, Procs, Main, Threads
  <2>1. CASE connect \/ connectRefused \/ connectDone \/ sendMessage \/ send \/ poll \/ clearInbox
    BY <2>1 DEF connect, connectRefused, Crash, connectDone, sendMessage, send, poll, clearInbox
  <2>2. CASE connectListens \/ sendListens
    BY <2>2 DEF connectListens, sendListens, startListening
  <2>3. CASE sendStops
    BY <2>3 DEF sendStops, stopListening, Lower, Join, Crash
  <2> QED BY <2>1, <2>2, <2>3
<1>2. CASE connectListens \/ connectDone \/ sendMessage \/ sendStops \/ sendListens \/ poll
  BY <1>1, <1>2, DataKept
     DEF connectListens, connectDone, sendMessage, sendStops, sendListens, poll, TypeInv
<1>3. CASE connect
  <2>1. call + 1 \in Sessions
    BY <1>3, MaxCallsAssumption DEF connect, TypeInv, CountOK, Sessions
  <2> QED BY <1>1, <1>3, <2>1 DEF connect, threadVars, netVars, TypeInv, DataOK
<1>4. CASE connectRefused
  BY <1>1, <1>4 DEF connectRefused, Crash, threadVars, netVars, TypeInv, DataOK
<1>5. CASE send
  <2>1. asked' \subseteq Sessions
    BY <1>5 DEF send, TypeInv, DataOK
  <2> QED BY <1>1, <1>5, <2>1 DEF send, sockVars, threadVars, TypeInv, DataOK
<1>6. CASE clearInbox
  BY <1>1, <1>6 DEF clearInbox, sockVars, threadVars, netVars, TypeInv, DataOK
<1> QED BY <1>2, <1>3, <1>4, <1>5, <1>6

LEMMA disconnectDataOK ==
    ASSUME TypeInv, NEW a \in Procs, disconnect(a)
    PROVE  DataOK'
<1>1. \A th \in Threads : pc'[th] = "push" => pc[th] = "push"
  <2> USE DEF Go, TypeInv, PcOK, Procs
  <2>1. CASE \/ disconnectBegins(a) \/ disconnectCounts(a) \/ disconnectCloses(a) \/ disconnectRemoves(a)
             \/ disconnectThrows(a) \/ disconnectEnds(a)
    BY <2>1 DEF disconnectBegins, disconnectCounts, disconnectCloses, disconnectRemoves,
              disconnectThrows, Crash, disconnectEnds, Return
  <2>2. CASE disconnectStops(a)
    BY <2>2 DEF disconnectStops, stopListening, Lower, Join, Crash
  <2> QED BY <2>1, <2>2 DEF disconnect
<1>2. group' \subseteq Sessions /\ disconnected' \subseteq Sessions
  <2>1. CASE \/ disconnectBegins(a) \/ disconnectCounts(a) \/ disconnectCloses(a) \/ disconnectRemoves(a)
             \/ disconnectThrows(a) \/ disconnectEnds(a)
    BY <2>1 DEF disconnectBegins, disconnectCounts, disconnectCloses, disconnectRemoves,
              disconnectThrows, Crash, disconnectEnds,
                sockVars, TypeInv, DataOK
  <2>2. CASE disconnectStops(a)
    BY <2>2 DEF disconnectStops, sockVars, TypeInv, DataOK
  <2> QED BY <2>1, <2>2 DEF disconnect
<1> QED BY <1>1, <1>2 DEF disconnect, threadVars, netVars, TypeInv, DataOK

LEMMA listenerDataOK ==
    ASSUME TypeInv, NEW th \in Threads, listener(th)
    PROVE  DataOK'
<1>1. CASE disconnect(th)
  BY <1>1, disconnectDataOK DEF Procs
<1>2. \A other \in Threads \ {th} : pc'[other] = "push" => pc[other] = "push"
  <2>1. CASE disconnect(th)
    <3> USE DEF Go, TypeInv, PcOK, Procs
    <3>1. CASE \/ disconnectBegins(th) \/ disconnectCounts(th) \/ disconnectCloses(th) \/ disconnectRemoves(th)
               \/ disconnectThrows(th) \/ disconnectEnds(th)
      BY <3>1 DEF disconnectBegins, disconnectCounts, disconnectCloses, disconnectRemoves,
              disconnectThrows, Crash, disconnectEnds, Return
    <3>2. CASE disconnectStops(th)
      BY <3>2 DEF disconnectStops, stopListening, Lower, Join, Crash
    <3> QED BY <2>1, <3>1, <3>2 DEF disconnect
  <2>2. ASSUME \/ listenerTest(th) \/ listenFill(th) \/ listenSelect(th)
               \/ listenLaunch(th) \/ listenPush(th) \/ listenerCatch(th)
        PROVE  \A other \in Threads \ {th} : pc'[other] = "push" => pc[other] = "push"
    BY <2>2 DEF listenerTest, listenFill, listenSelect, listenLaunch, listenPush, listenerCatch,
                Go, TypeInv, PcOK, Procs
  <2> QED BY <2>1, <2>2 DEF listener
<1>3. CASE listenerTest(th) \/ listenSelect(th) \/ listenerCatch(th)
  <2>1. \A other \in Threads : pc'[other] = "push" => pc[other] = "push"
    BY <1>2, <1>3 DEF listenerTest, listenSelect, listenerCatch, Go, TypeInv, PcOK, Procs
  <2> QED BY <1>3, <2>1, DataKept
          DEF listenerTest, listenSelect, listenerCatch, unchangedByListen, sockVars, netVars,
              threadVars, TypeInv
<1>4. CASE listenFill(th)
  <2>1. \A other \in Threads : pc'[other] = "push" => pc[other] = "push"
    BY <1>2, <1>4 DEF listenFill, Go, TypeInv, PcOK, Procs
  <2>2. fdset' \in [Threads -> SUBSET Sessions]
    BY <1>4 DEF listenFill, TypeInv, DataOK
  <2> QED BY <1>4, <2>1, <2>2 DEF listenFill, unchangedByListen, sockVars, TypeInv, DataOK
<1>5. CASE listenPush(th)
  <2>1. \A other \in Threads : pc'[other] = "push" => pc[other] = "push"
    BY <1>2, <1>5 DEF listenPush, Go, TypeInv, PcOK, Procs
  <2>2. held[th] \in Sessions
    BY <1>5 DEF listenPush, Go, TypeInv, DataOK
  <2>3. received_messages' \in Seq(Sessions)
    BY <1>5, <2>2 DEF listenPush, TypeInv, DataOK
  <2> QED BY <1>5, <2>1, <2>3
          DEF listenPush, unchangedByListen, sockVars, threadVars, TypeInv, DataOK
<1>6. CASE listenLaunch(th)
  <2>1. UNCHANGED <<group, disconnected, fdset, received_messages, asked, eof>>
    BY <1>6 DEF listenLaunch, unchangedByListen, sockVars
  <2>2. CASE UNCHANGED <<held, inbound>> /\ pc'[th] # "push"
    BY <1>2, <2>1, <2>2 DEF TypeInv, DataOK
  <2>3. ASSUME NEW s \in Sessions, inbound[s] # <<>>,
               held' = [held EXCEPT ![th] = Head(inbound[s])],
               inbound' = [inbound EXCEPT ![s] = Tail(@)]
        PROVE  DataOK'
    <3>1. inbound[s] \in Seq(Sessions)
      BY DEF TypeInv, DataOK
    <3>2. Head(inbound[s]) \in Sessions /\ Tail(inbound[s]) \in Seq(Sessions)
      BY <2>3, <3>1
    <3>3. held' \in [Threads -> {0} \cup Sessions] /\ inbound' \in [Sessions -> Seq(Sessions)]
      BY <2>3, <3>2 DEF TypeInv, DataOK
    <3>4. \A other \in Threads : pc'[other] = "push" => held'[other] \in Sessions
      BY <1>2, <2>3, <3>2 DEF TypeInv, DataOK
    <3> QED BY <2>1, <3>3, <3>4 DEF TypeInv, DataOK
  <2> QED BY <1>6, <2>2, <2>3 DEF listenLaunch, Go, TypeInv, PcOK, Procs, DataOK
<1> QED BY <1>1, <1>3, <1>4, <1>5, <1>6 DEF listener

-----------------------------------------------------------------------------

LEMMA ServerTypeInv ==
    ASSUME TypeInv, NEW s \in Sessions, ServerAnswers(s) \/ ServerCloses(s)
    PROVE  TypeInv'
<1>1. UNCHANGED <<pc, call, lockVars, listenVars, sockVars, threadVars, received_messages>>
  BY DEF ServerAnswers, ServerCloses
<1>2. asked' \subseteq Sessions /\ eof' \subseteq Sessions
  BY DEF ServerAnswers, ServerCloses, TypeInv, DataOK
<1>3. inbound' \in [Sessions -> Seq(Sessions)]
  <2>1. CASE ServerAnswers(s)
    <3>1. Append(inbound[s], s) \in Seq(Sessions)
      BY DEF TypeInv, DataOK
    <3> QED BY <2>1, <3>1 DEF ServerAnswers, TypeInv, DataOK
  <2>2. CASE ServerCloses(s)
    BY <2>2 DEF ServerCloses, TypeInv, DataOK
  <2> QED BY <2>1, <2>2
<1>4. PcOK'
  BY <1>1 DEF TypeInv, PcOK
<1>5. CountOK'
  BY <1>1 DEF TypeInv, CountOK, InCall, lockVars, listenVars
<1>6. ListenOK'
  BY <1>1 DEF TypeInv, ListenOK, lockVars, listenVars
<1>7. DataOK'
  BY <1>1, <1>2, <1>3 DEF TypeInv, DataOK, sockVars, threadVars
<1> QED BY <1>4, <1>5, <1>6, <1>7 DEF TypeInv

LEMMA NextTypeInv ==
    ASSUME TypeInv, [Next]_vars
    PROVE  TypeInv'
<1>1. CASE \/ connect \/ connectRefused \/ connectListens \/ connectDone
           \/ sendMessage \/ sendStops \/ send \/ sendListens \/ poll \/ clearInbox
  BY <1>1, mainPcOK, mainCountOK, mainListenOK, mainDataOK DEF TypeInv
<1>2. CASE disconnect(Main)
  BY <1>2, disconnectPcOK, disconnectCountOK, disconnectListenOK, disconnectDataOK
     DEF TypeInv, Procs
<1>3. ASSUME NEW th \in Threads, listener(th) PROVE TypeInv'
  BY <1>3, listenerPcOK, listenerCountOK, listenerListenOK, listenerDataOK DEF TypeInv
<1>4. ASSUME NEW s \in Sessions, ServerAnswers(s) \/ ServerCloses(s) PROVE TypeInv'
  BY <1>4, ServerTypeInv
<1>5. CASE UNCHANGED vars
  <2>1. UNCHANGED <<pc, call, lockVars, listenVars, sockVars, threadVars, received_messages, netVars>>
    BY <1>5 DEF vars
  <2>2. PcOK' /\ CountOK' /\ ListenOK'
    BY <2>1 DEF TypeInv, PcOK, CountOK, InCall, ListenOK, lockVars, listenVars
  <2>3. DataOK'
    BY <2>1, DataKept DEF TypeInv
  <2> QED BY <2>2, <2>3 DEF TypeInv
<1> QED BY <1>1, <1>2, <1>3, <1>4, <1>5 DEF Next, main

LEMMA TypesHold == Spec => []TypeInv
  BY InitTypeInv, NextTypeInv, PTL DEF Spec

LEMMA TypeInvImpliesTypeOK == TypeInv => TypeOK
<1> SUFFICES ASSUME TypeInv PROVE TypeOK
  OBVIOUS
<1>1. /\ call \in 0 .. MaxCalls
      /\ depth \in 0 .. MaxCalls
      /\ spawned \in 0 .. 2 * MaxCalls
  BY MaxCallsAssumption DEF TypeInv, CountOK
<1> QED BY <1>1 DEF TypeInv, PcOK, ListenOK, DataOK, TypeOK, Procs

(***************************************************************************)
(* Every variable of a client keeps to its values, whatever the server     *)
(* closes: a call starts no more than two listeners, locks the mutex no    *)
(* more often than once, and joins listeners only.                         *)
(***************************************************************************)
THEOREM ClientTyped == Spec => []TypeOK
  BY TypesHold, TypeInvImpliesTypeOK, PTL

-----------------------------------------------------------------------------
(***************************************************************************)
(* What a call asks for is in one place at a time: with the server, at the *)
(* socket, with the listener that has read it, or in the inbox; and it is  *)
(* nowhere once the call has cleared the inbox.  Two listeners at work, a  *)
(* server that goes away and a crash can lose it, but never double it.     *)
(***************************************************************************)

\* Where the main thread is while there may be a request or an answer.
Asking == {"reflag", "respawn", "reassign", "poll", "clearInbox", "crashed"}

NothingInbound == \A s \in Sessions : inbound[s] = <<>>

TokenInv ==
    /\ group \subseteq {call}
    /\ asked \subseteq {call}
    /\ \A s \in Sessions : inbound[s] = <<>> \/ (s = call /\ inbound[s] = <<call>>)
    /\ \A th \in Pushing : held[th] = call
    /\ received_messages \in {<<>>, <<call>>}
    /\ asked # {} => NothingInbound
    /\ asked # {} \/ ~NothingInbound => Pushing = {}
    /\ asked # {} \/ ~NothingInbound \/ Pushing # {} => received_messages = <<>>
    /\ \A th, other \in Pushing : th = other
    /\ pc[Main] \notin Asking =>
         asked = {} /\ NothingInbound /\ Pushing = {} /\ received_messages = <<>>
    /\ pc[Main] = "clearInbox" => received_messages # <<>>

LEMMA InitTokenInv == Init => TokenInv
<1> SUFFICES ASSUME Init PROVE TokenInv
  OBVIOUS
<1>1. Pushing = {}
  BY DEF Init, Pushing, Threads, Main
<1>2. NothingInbound
  BY DEF Init, NothingInbound
<1>3. pc[Main] = "idle"
  BY DEF Init
<1> QED BY <1>1, <1>2, <1>3 DEF Init, TokenInv, NothingInbound, Asking

\* A step that moves no message: no thread takes one, and the main thread goes
\* neither out of the calls that have asked nor on to clear an empty inbox.
LEMMA TokenKept ==
    ASSUME TokenInv, UNCHANGED <<call, held, received_messages, asked, inbound>>,
           group' \subseteq group,
           \A th \in Threads : pc'[th] = "push" => pc[th] = "push",
           pc[Main] \in Asking => pc'[Main] \in Asking,
           pc'[Main] = "clearInbox" => received_messages # <<>>
    PROVE  TokenInv'
<1>1. Pushing' \subseteq Pushing
  BY DEF Pushing
<1>2. NothingInbound' = NothingInbound
  BY DEF NothingInbound
<1> HIDE DEF Pushing
<1> QED BY <1>1, <1>2 DEF TokenInv

\* The steps of the main thread and of disconnect hand no message to a listener.
LEMMA mainPushes ==
    ASSUME TypeInv,
           \/ connect \/ connectRefused \/ connectListens \/ connectDone
           \/ sendMessage \/ sendStops \/ send \/ sendListens \/ poll \/ clearInbox
    PROVE  \A th \in Threads : pc'[th] = "push" => pc[th] = "push"
<1> USE MaxCallsAssumption DEF Go, TypeInv, PcOK, CountOK, Procs, Main, Threads
<1>1. CASE connect \/ connectRefused \/ connectDone \/ sendMessage \/ send \/ poll \/ clearInbox
  BY <1>1 DEF connect, connectRefused, Crash, connectDone, sendMessage, send, poll, clearInbox
<1>2. CASE connectListens \/ sendListens
  BY <1>2 DEF connectListens, sendListens, startListening
<1>3. CASE sendStops
  BY <1>3 DEF sendStops, stopListening, Lower, Join, Crash
<1> QED BY <1>1, <1>2, <1>3

LEMMA disconnectPushes ==
    ASSUME TypeInv, NEW a \in Procs, disconnect(a)
    PROVE  \A th \in Threads : pc'[th] = "push" => pc[th] = "push"
<1> USE DEF Go, TypeInv, PcOK, Procs
<1>1. CASE \/ disconnectBegins(a) \/ disconnectCounts(a) \/ disconnectCloses(a) \/ disconnectRemoves(a)
           \/ disconnectThrows(a) \/ disconnectEnds(a)
  BY <1>1 DEF disconnectBegins, disconnectCounts, disconnectCloses, disconnectRemoves,
              disconnectThrows, Crash, disconnectEnds, Return
<1>2. CASE disconnectStops(a)
  BY <1>2 DEF disconnectStops, stopListening, Lower, Join, Crash
<1> QED BY <1>1, <1>2 DEF disconnect

LEMMA mainTokenInv ==
    ASSUME TypeInv, TokenInv,
           \/ connect \/ connectRefused \/ connectListens \/ connectDone
           \/ sendMessage \/ sendStops \/ send \/ sendListens \/ poll \/ clearInbox
    PROVE  TokenInv'
<1>1. \A th \in Threads : pc'[th] = "push" => pc[th] = "push"
  BY mainPushes
<1>2. Pushing' \subseteq Pushing
  BY <1>1 DEF Pushing
<1>3. pc' \in [Procs -> MainSteps \cup ThreadSteps \cup BothSteps] /\ Main \in Procs
  BY mainPcOK DEF PcOK, Procs
<1>4. pc \in [Procs -> MainSteps \cup ThreadSteps \cup BothSteps]
  BY DEF TypeInv, PcOK
<1> USE DEF Go
<1>5. CASE connect
  <2>1. pc[Main] = "idle" /\ pc'[Main] = "flag"
    BY <1>3, <1>4, <1>5 DEF connect
  <2>2. asked = {} /\ NothingInbound /\ Pushing = {} /\ received_messages = <<>>
    BY <2>1 DEF TokenInv, Asking
  <2>3. UNCHANGED <<asked, inbound, received_messages>> /\ group' = {call'}
    BY <1>5 DEF connect, netVars
  <2>4. NothingInbound' /\ Pushing' = {}
    BY <1>2, <2>2, <2>3 DEF NothingInbound
  <2> QED BY <2>1, <2>2, <2>3, <2>4 DEF TokenInv, NothingInbound
<1>6. CASE connectListens \/ sendListens
  <2>1. spawned \in Nat
    BY MaxCallsAssumption DEF TypeInv, CountOK
  <2>2. /\ pc[Main] \in Asking => pc'[Main] \in Asking
        /\ pc'[Main] # "clearInbox"
    BY <1>3, <1>4, <1>6, <2>1 DEF connectListens, sendListens, startListening, Asking, Main
  <2> QED BY <1>1, <1>6, <2>2, TokenKept
          DEF connectListens, sendListens, sockVars, threadVars, netVars
<1>7. CASE connectRefused \/ connectDone \/ sendMessage \/ poll
  <2>1. /\ pc[Main] \in Asking => pc'[Main] \in Asking
        /\ pc'[Main] = "clearInbox" => received_messages # <<>>
    BY <1>3, <1>4, <1>7 DEF connectRefused, Crash, connectDone, sendMessage, poll, Asking
  <2>2. group' \subseteq group
    BY <1>7 DEF connectRefused, Crash, connectDone, sendMessage, poll, sockVars
  <2>3. UNCHANGED <<call, held, received_messages, asked, inbound>>
    BY <1>7 DEF connectRefused, Crash, connectDone, sendMessage, poll, threadVars, netVars
  <2> QED BY <1>1, <2>1, <2>2, <2>3, TokenKept
<1>8. CASE sendStops
  <2>1. CASE stopListening(Main, "sendStop", "sendLower", "sendJoin", "send")
    <3>1. pc[Main] \in Asking => pc'[Main] \in Asking
      BY <1>3, <1>4, <2>1 DEF stopListening, Lower, Join, Asking
    <3>2. pc'[Main] # "clearInbox"
      BY <1>3, <1>4, <2>1 DEF stopListening, Lower, Join
    <3> QED BY <1>1, <1>8, <3>1, <3>2, TokenKept DEF sendStops, sockVars, threadVars, netVars
  <2>2. CASE Go(Main, "sendJoin", "poll") \/ Crash
    <3>1. pc'[Main] \in {"poll", "crashed"}
      BY <1>3, <1>4, <2>2 DEF Crash
    <3> QED BY <1>1, <1>8, <3>1, TokenKept DEF sendStops, sockVars, threadVars, netVars, Asking
  <2> QED BY <1>8, <2>1, <2>2 DEF sendStops
<1>9. CASE send
  <2>1. pc[Main] = "send" /\ pc'[Main] \in {"reflag", "poll"}
    BY <1>3, <1>4, <1>9 DEF send
  <2>2. asked = {} /\ NothingInbound /\ Pushing = {} /\ received_messages = <<>>
    BY <2>1 DEF TokenInv, Asking
  <2>3. UNCHANGED <<call, group, inbound, received_messages>>
    BY <1>9 DEF send, sockVars
  <2>4. asked' \subseteq {call}
    BY <1>9, <2>2 DEF send, TokenInv
  <2>5. NothingInbound' /\ Pushing' = {}
    BY <1>2, <2>2, <2>3 DEF NothingInbound
  <2> QED BY <2>1, <2>2, <2>3, <2>4, <2>5 DEF TokenInv, Asking, NothingInbound
<1>10. CASE clearInbox
  <2>1. pc[Main] = "clearInbox" /\ pc'[Main] = "disconnect"
    BY <1>3, <1>4, <1>10 DEF clearInbox
  <2>2. asked = {} /\ NothingInbound /\ Pushing = {}
    BY <2>1 DEF TokenInv
  <2>3. UNCHANGED <<call, group, asked, inbound>> /\ received_messages' = <<>>
    BY <1>10 DEF clearInbox, sockVars, netVars
  <2>4. NothingInbound' /\ Pushing' = {}
    BY <1>2, <2>2, <2>3 DEF NothingInbound
  <2> QED BY <2>1, <2>2, <2>3, <2>4 DEF TokenInv, NothingInbound
<1> QED BY <1>5, <1>6, <1>7, <1>8, <1>9, <1>10

LEMMA disconnectTokenInv ==
    ASSUME TypeInv, TokenInv, NEW a \in Procs, disconnect(a)
    PROVE  TokenInv'
<1>1. \A th \in Threads : pc'[th] = "push" => pc[th] = "push"
  BY disconnectPushes
<1>2. UNCHANGED <<call, held, received_messages, asked, inbound>>
  BY DEF disconnect, disconnectBegins, disconnectCounts, disconnectCloses, disconnectRemoves,
         disconnectThrows, Crash, disconnectStops, disconnectEnds, threadVars, netVars
<1>3. group' \subseteq group
  BY DEF disconnect, disconnectBegins, disconnectCounts, disconnectCloses, disconnectRemoves,
         disconnectThrows, Crash, disconnectStops, disconnectEnds, sockVars
<1>4. /\ pc[Main] \in Asking => pc'[Main] \in Asking
      /\ pc'[Main] = "clearInbox" => pc[Main] = "clearInbox"
  <2> USE DEF Go, TypeInv, PcOK, Procs, Main, Asking
  <2>1. CASE \/ disconnectBegins(a) \/ disconnectCounts(a) \/ disconnectCloses(a) \/ disconnectRemoves(a)
             \/ disconnectThrows(a) \/ disconnectEnds(a)
    BY <2>1 DEF disconnectBegins, disconnectCounts, disconnectCloses, disconnectRemoves,
              disconnectThrows, Crash, disconnectEnds, Return
  <2>2. CASE disconnectStops(a)
    BY <2>2 DEF disconnectStops, stopListening, Lower, Join, Crash
  <2> QED BY <2>1, <2>2 DEF disconnect
<1> QED BY <1>1, <1>2, <1>3, <1>4, TokenKept DEF TokenInv

LEMMA listenerTokenInv ==
    ASSUME TypeInv, TokenInv, NEW th \in Threads, listener(th)
    PROVE  TokenInv'
<1>1. CASE disconnect(th)
  BY <1>1, disconnectTokenInv DEF Procs
<1>2. ASSUME \/ listenerTest(th) \/ listenFill(th) \/ listenSelect(th) \/ listenerCatch(th)
      PROVE  TokenInv'
  <2>1. /\ pc'[Main] = pc[Main]
        /\ \A other \in Threads : pc'[other] = "push" => pc[other] = "push"
    BY <1>2 DEF listenerTest, listenFill, listenSelect, listenerCatch, Go, TypeInv, PcOK, Procs,
                Main, Threads
  <2>2. UNCHANGED <<call, group, held, received_messages, asked, inbound>>
    BY <1>2 DEF listenerTest, listenFill, listenSelect, listenerCatch, unchangedByListen,
                sockVars, threadVars
  <2> QED BY <2>1, <2>2, TokenKept DEF TokenInv
<1>3. CASE listenLaunch(th)
  <2>1. /\ UNCHANGED <<call, group, received_messages, asked>>
        /\ pc[th] = "launch" /\ pc'[Main] = pc[Main]
        /\ \A other \in Threads \ {th} : pc'[other] = pc[other]
    BY <1>3 DEF listenLaunch, unchangedByListen, sockVars, Go, TypeInv, PcOK, Procs, Main, Threads
  <2>2. CASE UNCHANGED <<held, inbound>> /\ pc'[th] # "push"
    BY <2>1, <2>2, TokenKept DEF TokenInv
  <2>3. ASSUME NEW s \in Sessions, inbound[s] # <<>>, pc'[th] = "push",
               held' = [held EXCEPT ![th] = Head(inbound[s])],
               inbound' = [inbound EXCEPT ![s] = Tail(@)]
        PROVE  TokenInv'
    <3>1. s = call /\ inbound[s] = <<call>>
      BY <2>3 DEF TokenInv
    <3>2. ~NothingInbound
      BY <2>3 DEF NothingInbound
    <3>3. asked = {} /\ Pushing = {} /\ received_messages = <<>> /\ pc[Main] \in Asking
      BY <3>2 DEF TokenInv
    <3>4. Pushing' = {th}
      BY <2>1, <2>3, <3>3 DEF Pushing
    <3>5. held'[th] = call
      BY <2>3, <3>1 DEF TypeInv, DataOK
    <3>6. inbound'[s] = <<>> /\ \A other \in Sessions \ {s} : inbound'[other] = inbound[other]
      BY <2>3, <3>1 DEF TypeInv, DataOK
    <3>7. NothingInbound'
      BY <3>1, <3>6 DEF NothingInbound, TokenInv
    <3>8. pc[Main] # "clearInbox"
      BY <3>3 DEF TokenInv
    <3> QED BY <2>1, <3>3, <3>4, <3>5, <3>7, <3>8 DEF TokenInv, NothingInbound
  <2> QED BY <1>3, <2>2, <2>3 DEF listenLaunch, Go, TypeInv, PcOK, Procs, DataOK
<1>4. CASE listenPush(th)
  <2>1. /\ UNCHANGED <<call, group, held, inbound, asked>>
        /\ pc[th] = "push" /\ pc'[th] # "push" /\ pc'[Main] = pc[Main]
        /\ \A other \in Threads \ {th} : pc'[other] = pc[other]
    BY <1>4 DEF listenPush, unchangedByListen, sockVars, threadVars, Go, TypeInv, PcOK, Procs,
                Main, Threads
  <2>2. th \in Pushing
    BY <2>1 DEF Pushing
  <2>3. /\ asked = {} /\ NothingInbound /\ received_messages = <<>>
        /\ held[th] = call /\ pc[Main] \in Asking
    BY <2>2 DEF TokenInv
  <2>4. Pushing' = {}
    BY <2>1, <2>2 DEF Pushing, TokenInv
  <2>5. received_messages' = <<call>>
    BY <1>4, <2>3 DEF listenPush
  <2>6. NothingInbound'
    BY <2>1, <2>3 DEF NothingInbound
  <2> QED BY <2>1, <2>3, <2>4, <2>5, <2>6 DEF TokenInv, NothingInbound
<1> QED BY <1>1, <1>2, <1>3, <1>4 DEF listener

\* The server answers a request that it has, over the socket of the call.
LEMMA ServerTokenInv ==
    ASSUME TypeInv, TokenInv, NEW s \in Sessions, ServerAnswers(s) \/ ServerCloses(s)
    PROVE  TokenInv'
<1>1. CASE ServerAnswers(s)
  <2>1. /\ UNCHANGED <<pc, call, group, held, received_messages>>
        /\ s \in asked /\ asked' = asked \ {s}
        /\ inbound' = [inbound EXCEPT ![s] = Append(@, s)]
    BY <1>1 DEF ServerAnswers, sockVars, threadVars
  <2>2. s = call /\ NothingInbound /\ Pushing = {} /\ received_messages = <<>> /\ pc[Main] \in Asking
    BY <2>1 DEF TokenInv
  <2>3. asked' = {} /\ Pushing' = {}
    BY <2>1, <2>2 DEF TokenInv, Pushing
  <2>4. inbound'[s] = <<call>> /\ \A other \in Sessions \ {s} : inbound'[other] = <<>>
    <3>1. inbound[s] = <<>> /\ \A other \in Sessions \ {s} : inbound[other] = <<>>
      BY <2>2 DEF NothingInbound
    <3>2. Append(inbound[s], s) = <<call>>
      BY <2>2, <3>1
    <3> QED BY <2>1, <3>1, <3>2 DEF TypeInv, DataOK
  <2>5. pc[Main] # "clearInbox"
    BY <2>2 DEF TokenInv
  <2> QED BY <2>1, <2>2, <2>3, <2>4, <2>5 DEF TokenInv, NothingInbound
<1>2. CASE ServerCloses(s)
  BY <1>2, TokenKept DEF ServerCloses, sockVars, threadVars, TokenInv
<1> QED BY <1>1, <1>2

LEMMA NextTokenInv ==
    ASSUME TypeInv, TokenInv, [Next]_vars
    PROVE  TokenInv'
<1>1. CASE \/ connect \/ connectRefused \/ connectListens \/ connectDone
           \/ sendMessage \/ sendStops \/ send \/ sendListens \/ poll \/ clearInbox
  BY <1>1, mainTokenInv
<1>2. CASE disconnect(Main)
  BY <1>2, disconnectTokenInv DEF Procs
<1>3. ASSUME NEW th \in Threads, listener(th) PROVE TokenInv'
  BY <1>3, listenerTokenInv
<1>4. ASSUME NEW s \in Sessions, ServerAnswers(s) \/ ServerCloses(s) PROVE TokenInv'
  BY <1>4, ServerTokenInv
<1>5. CASE UNCHANGED vars
  BY <1>5, TokenKept DEF vars, sockVars, threadVars, netVars, TokenInv
<1> QED BY <1>1, <1>2, <1>3, <1>4, <1>5 DEF Next, main

LEMMA TokenHolds == Spec => []TokenInv
  BY TypesHold, InitTokenInv, NextTokenInv, PTL DEF Spec

LEMMA TokenInvImpliesOwnAnswer == TokenInv => OwnAnswer
  BY DEF TokenInv, OwnAnswer

(***************************************************************************)
(* What a call finds in the inbox, which no lock protects, is the answer   *)
(* to its own request: for any number of calls, of listeners that work at  *)
(* once after the server has closed connections, and of delays.            *)
(***************************************************************************)
THEOREM OwnAnswers == Spec => []OwnAnswer
  BY TokenHolds, TokenInvImpliesOwnAnswer, PTL

-----------------------------------------------------------------------------
(***************************************************************************)
(* While the server closes nothing, one listener at most is alive, the one *)
(* started last, and where the main thread is says what it can be doing.   *)
(***************************************************************************)

\* No listener is alive.
Quiet == {"idle", "flag", "spawn", "send", "reflag", "respawn", "finish", "done"}

\* The listener is wanted and at work.
Running == {"assign", "reassign", "connected", "sendMessage", "sendStop", "sendLower", "poll",
            "clearInbox", "disconnect", "size", "close"}

\* The object of the listener alive is the one the client holds.
Assigned == {"connected", "sendMessage", "sendStop", "sendLower", "sendJoin", "poll",
             "clearInbox", "disconnect", "size", "close", "remove", "stop", "lower", "join"}

ThreadsOK ==
    \A th \in Threads :
        /\ pc[th] \in ThreadSteps
        /\ th < spawned => pc[th] = "ended"
        /\ th > spawned => pc[th] = "none"
        /\ pc[th] \in {"select", "oversleep"} => fdset[th] \subseteq {call}
        /\ pc[th] = "launch" => ~NothingInbound

PhaseOK ==
    /\ pc[Main] # "crashed"
    /\ joined \subseteq 1 .. spawned
    /\ pc[Main] \in {"spawn", "respawn"} => is_listening
    /\ pc[Main] \in Quiet \ {"spawn", "respawn"} => ~is_listening
    /\ pc[Main] \in Quiet /\ spawned > 0 => pc[spawned] = "ended"
    /\ pc[Main] \notin Quiet => spawned > 0 /\ spawned \notin joined
    /\ pc[Main] \in Running => is_listening /\ Listens(spawned)
    /\ pc[Main] = "sendJoin" => ~is_listening /\ (Listens(spawned) \/ pc[spawned] = "ended")
    /\ pc[Main] \in {"remove", "stop", "lower"} =>
         \/ is_listening /\ (Listens(spawned) \/ pc[spawned] = "dying")
         \/ ~is_listening /\ pc[spawned] = "ended"
    /\ pc[Main] = "join" => ~is_listening /\ (Listens(spawned) \/ pc[spawned] \in {"dying", "ended"})
    /\ pc[Main] \in Assigned => listening_thread = spawned

SocketOK ==
    /\ eof = {}
    /\ disconnected \subseteq 1 .. call
    /\ connected = (pc[Main] \notin {"idle", "done", "flag", "spawn", "assign", "connected"})
    /\ depth = IF pc[Main] \in {"idle", "done"} THEN 0 ELSE 1
    /\ group = IF pc[Main] \in {"idle", "done", "stop", "lower", "join", "finish"} THEN {} ELSE {call}
    /\ call \in disconnected =>
         pc[Main] \in {"idle", "done", "remove", "stop", "lower", "join", "finish"}

Steady == ThreadsOK /\ PhaseOK /\ SocketOK

LEMMA InitSteady == Init => Steady
<1> SUFFICES ASSUME Init PROVE Steady
  OBVIOUS
<1>1. ThreadsOK
  BY MaxCallsAssumption DEF Init, ThreadsOK, Threads, ThreadSteps, Main
<1>2. pc[Main] = "idle" /\ spawned = 0 /\ ~is_listening
  BY DEF Init
<1>3. joined \subseteq 1 .. spawned /\ PhaseOK
  BY <1>2 DEF Init, PhaseOK, Quiet, Running, Assigned
<1>4. SocketOK
  BY <1>2 DEF Init, SocketOK
<1> QED BY <1>1, <1>3, <1>4 DEF Steady

\* A listener alive is the one started last, and the main thread is not quiet.
LEMMA AliveLemma ==
    ASSUME TypeInv, Steady, NEW th \in Threads, pc[th] \notin {"none", "ended"}
    PROVE  th = spawned /\ pc[Main] \notin Quiet
  BY MaxCallsAssumption DEF TypeInv, CountOK, Steady, ThreadsOK, PhaseOK, Threads

LEMMA ThreadsKept ==
    ASSUME ThreadsOK, UNCHANGED <<call, spawned, fdset, inbound>>,
           \A th \in Threads : pc'[th] = pc[th]
    PROVE  ThreadsOK'
  BY DEF ThreadsOK, NothingInbound

\* The number of the listener alive is one of Threads.
LEMMA SpawnedLemma ==
    ASSUME TypeInv
    PROVE  /\ spawned \in Nat
           /\ call \in Nat
           /\ spawned > 0 => spawned \in Threads
           /\ pc[Main] \in {"spawn", "respawn"} => spawned + 1 \in Threads
  BY MaxCallsAssumption DEF TypeInv, CountOK, Threads

LEMMA startListeningSteady ==
    ASSUME TypeInv, Steady, UNCHANGED <<call, lockVars, sockVars, threadVars, netVars>>,
           \/ startListening("flag", "spawn", "assign", "connected")
           \/ startListening("reflag", "respawn", "reassign", "poll")
    PROVE  Steady'
<1> USE SpawnedLemma DEF Go
<1> DEFINE x == pc[Main]
<1>1. pc \in [Procs -> MainSteps \cup ThreadSteps \cup BothSteps] /\ Main \in Procs /\ Main = 0
  BY DEF TypeInv, PcOK, Procs, Main
<1>2. \A th \in Threads : th # Main /\ th \in Procs
  BY DEF Procs, Threads, Main
<1>3. UNCHANGED <<eof, disconnected, connected, depth, group, call, fdset, inbound, joined>>
  BY DEF lockVars, sockVars, threadVars, netVars, startListening
<1>4. CASE /\ x \in {"flag", "reflag"} /\ is_listening' = TRUE /\ UNCHANGED <<spawned, listening_thread>>
           /\ pc' = [pc EXCEPT ![Main] = IF x = "flag" THEN "spawn" ELSE "respawn"]
  <2>1. pc'[Main] = (IF x = "flag" THEN "spawn" ELSE "respawn") /\ \A th \in Threads : pc'[th] = pc[th]
    BY <1>1, <1>2, <1>4
  <2>2. ThreadsOK'
    BY <1>3, <1>4, <2>1, ThreadsKept DEF Steady
  <2>3. PhaseOK'
    BY <1>3, <1>4, <2>1 DEF Steady, PhaseOK, Quiet, Running, Assigned
  <2>4. SocketOK'
    BY <1>3, <1>4, <2>1 DEF Steady, SocketOK
  <2> QED BY <2>2, <2>3, <2>4 DEF Steady
<1>5. CASE /\ x \in {"spawn", "respawn"} /\ spawned' = spawned + 1
           /\ UNCHANGED <<is_listening, listening_thread>>
           /\ pc' = [pc EXCEPT ![Main] = IF x = "spawn" THEN "assign" ELSE "reassign",
                               ![spawned + 1] = "test"]
  <2>1. /\ spawned + 1 \in Threads
        /\ pc'[Main] = IF x = "spawn" THEN "assign" ELSE "reassign"
        /\ pc'[spawned + 1] = "test"
        /\ \A th \in Threads : th # spawned + 1 => pc'[th] = pc[th]
    BY <1>1, <1>2, <1>5
  <2>2. \A th \in Threads : pc[th] \in {"none", "ended"}
    BY <1>5, AliveLemma DEF Quiet
  <2>3. ThreadsOK'
    <3> SUFFICES ASSUME NEW th \in Threads
                 PROVE  /\ pc'[th] \in ThreadSteps
                        /\ th < spawned' => pc'[th] = "ended"
                        /\ th > spawned' => pc'[th] = "none"
                        /\ pc'[th] \notin {"select", "oversleep", "launch"}
      BY DEF ThreadsOK
    <3>1. CASE th = spawned + 1
      BY <1>5, <2>1, <3>1 DEF ThreadSteps
    <3>2. CASE th # spawned + 1
      <4>1. th \in Nat /\ (th < spawned + 1 => th < spawned \/ th = spawned)
        BY <3>2 DEF Threads
      <4>2. pc'[th] = pc[th] /\ pc[th] \in {"none", "ended"}
        BY <2>1, <2>2, <3>2
      <4>3. th < spawned + 1 => pc[th] = "ended"
        BY <1>5, <4>1 DEF Steady, ThreadsOK, PhaseOK, Quiet, Threads
      <4>4. th > spawned + 1 => pc[th] = "none"
        BY <4>1 DEF Steady, ThreadsOK
      <4> QED BY <1>5, <4>2, <4>3, <4>4 DEF ThreadSteps
    <3> QED BY <3>1, <3>2
  <2>4. joined \subseteq 1 .. spawned' /\ spawned' \notin joined /\ spawned' > 0
    BY <1>5 DEF Steady, PhaseOK
  <2>5. Listens(spawned)' /\ is_listening'
    BY <1>5, <2>1 DEF Listens, Steady, PhaseOK
  <2>6. PhaseOK'
    BY <1>3, <2>1, <2>4, <2>5, <1>5 DEF PhaseOK, Quiet, Running, Assigned
  <2>7. SocketOK'
    BY <1>3, <1>5, <2>1 DEF Steady, SocketOK
  <2> QED BY <2>3, <2>6, <2>7 DEF Steady
<1>6. CASE /\ x \in {"assign", "reassign"} /\ listening_thread' = spawned
           /\ UNCHANGED <<is_listening, spawned>>
           /\ pc' = [pc EXCEPT ![Main] = IF x = "assign" THEN "connected" ELSE "poll"]
  <2>1. pc'[Main] = (IF x = "assign" THEN "connected" ELSE "poll") /\ \A th \in Threads : pc'[th] = pc[th]
    BY <1>1, <1>2, <1>6
  <2>2. ThreadsOK'
    BY <1>3, <1>6, <2>1, ThreadsKept DEF Steady
  <2>3. spawned > 0 /\ pc'[spawned] = pc[spawned]
    BY <1>6, <2>1 DEF Steady, PhaseOK, Quiet
  <2>4. PhaseOK'
    BY <1>3, <1>6, <2>1, <2>3 DEF Steady, PhaseOK, Quiet, Running, Assigned, Listens
  <2>5. SocketOK'
    BY <1>3, <1>6, <2>1 DEF Steady, SocketOK
  <2> QED BY <2>2, <2>4, <2>5 DEF Steady
<1>7. x \in {"flag", "reflag"} => ~is_listening
  BY DEF Steady, PhaseOK, Quiet
<1> QED BY <1>4, <1>5, <1>6, <1>7 DEF startListening

\* A step of the main thread that starts no listener: where it may lead.
LEMMA SteadyMoves ==
    ASSUME TypeInv, Steady, NEW from, NEW to, Go(Main, from, to)
    PROVE  /\ pc[Main] = from
           /\ pc'[Main] = to
           /\ \A th \in Threads : pc'[th] = pc[th]
           /\ spawned > 0 => pc'[spawned] = pc[spawned]
<1>1. pc \in [Procs -> MainSteps \cup ThreadSteps \cup BothSteps] /\ Main \in Procs
  BY DEF TypeInv, PcOK, Procs
<1>2. \A th \in Threads : th # Main /\ th \in Procs
  BY DEF Procs, Threads, Main
<1>3. \A th \in Threads : pc'[th] = pc[th]
  BY <1>1, <1>2 DEF Go
<1> QED BY <1>1, <1>3, SpawnedLemma DEF Go

LEMMA connectSteady ==
    ASSUME TypeInv, TokenInv, Steady, connect \/ connectRefused \/ connectDone
    PROVE  Steady'
<1>1. CASE connect
  <2>1. /\ pc[Main] = "idle" /\ pc'[Main] = "flag"
        /\ \A th \in Threads : pc'[th] = pc[th]
        /\ spawned > 0 => pc'[spawned] = pc[spawned]
    BY <1>1, SteadyMoves DEF connect
  <2>2. /\ UNCHANGED <<connected, is_listening, listening_thread, joined, spawned, disconnected,
                       fdset, inbound, eof>>
        /\ depth' = depth + 1 /\ call' = call + 1 /\ group' = {call + 1}
    BY <1>1 DEF connect, listenVars, threadVars, netVars
  <2>3. \A th \in Threads : pc[th] \in {"none", "ended"}
    BY <2>1, AliveLemma DEF Quiet
  <2>4. ThreadsOK'
    BY <2>1, <2>2, <2>3 DEF Steady, ThreadsOK
  <2>5. PhaseOK'
    BY <2>1, <2>2 DEF Steady, PhaseOK, Quiet, Running, Assigned
  <2>6. call \in Nat /\ disconnected \subseteq 1 .. call
    BY SpawnedLemma DEF Steady, SocketOK
  <2>7. call + 1 \notin disconnected /\ disconnected \subseteq 1 .. call + 1
    BY <2>6
  <2>8. SocketOK'
    BY <2>1, <2>2, <2>7 DEF Steady, SocketOK
  <2> QED BY <2>4, <2>5, <2>8 DEF Steady
<1>2. CASE connectRefused
  BY <1>2 DEF connectRefused, Crash, Steady, SocketOK
<1>3. CASE connectDone
  <2>1. /\ pc[Main] = "connected" /\ pc'[Main] = "sendMessage"
        /\ \A th \in Threads : pc'[th] = pc[th]
        /\ spawned > 0 => pc'[spawned] = pc[spawned]
    BY <1>3, SteadyMoves DEF connectDone
  <2>2. /\ UNCHANGED <<is_listening, listening_thread, joined, spawned, disconnected,
                       fdset, inbound, eof, depth, call, group>>
        /\ connected' = TRUE
    BY <1>3 DEF connectDone, listenVars, sockVars, threadVars, netVars
  <2>3. ThreadsOK'
    BY <2>1, <2>2, ThreadsKept DEF Steady
  <2>4. PhaseOK'
    BY <2>1, <2>2 DEF Steady, PhaseOK, Quiet, Running, Assigned, Listens
  <2>5. SocketOK'
    BY <2>1, <2>2 DEF Steady, SocketOK
  <2> QED BY <2>3, <2>4, <2>5 DEF Steady
<1> QED BY <1>1, <1>2, <1>3

\* A step of the main thread in a call that changes none of what is shared.
LEMMA SteadyStep ==
    ASSUME TypeInv, Steady, NEW from, NEW to, Go(Main, from, to),
           UNCHANGED <<call, depth, connected, disconnected, group, fdset, inbound, eof, spawned,
                       listening_thread, joined, is_listening>>,
           \/ from = "sendMessage" /\ to = "sendStop"
           \/ from = "sendStop" /\ to = "sendLower"
           \/ from = "send" /\ to = "reflag"
           \/ from = "poll" /\ to = "clearInbox"
           \/ from = "clearInbox" /\ to = "disconnect"
           \/ from = "disconnect" /\ to = "size"
           \/ from = "size" /\ to = "close"
           \/ from = "stop" /\ to \in {"lower", "finish"} /\ (to = "finish" <=> ~is_listening)
    PROVE  Steady'
<1>1. /\ pc[Main] = from /\ pc'[Main] = to
      /\ \A th \in Threads : pc'[th] = pc[th]
      /\ spawned > 0 => pc'[spawned] = pc[spawned]
  BY SteadyMoves
<1>2. ThreadsOK'
  BY <1>1, ThreadsKept DEF Steady
<1>3. PhaseOK'
  BY <1>1 DEF Steady, PhaseOK, Quiet, Running, Assigned, Listens
<1>4. SocketOK'
  BY <1>1 DEF Steady, SocketOK
<1> QED BY <1>2, <1>3, <1>4 DEF Steady

\* stopListening lowers the flag and joins the listener alive.
LEMMA LowerSteady ==
    ASSUME TypeInv, Steady, NEW lower, NEW join, Go(Main, lower, join), is_listening' = FALSE,
           UNCHANGED <<call, depth, connected, disconnected, group, fdset, inbound, eof, spawned,
                       listening_thread, joined>>,
           \/ lower = "sendLower" /\ join = "sendJoin"
           \/ lower = "lower" /\ join = "join"
    PROVE  Steady'
<1>1. /\ pc[Main] = lower /\ pc'[Main] = join
      /\ \A th \in Threads : pc'[th] = pc[th]
      /\ spawned > 0 => pc'[spawned] = pc[spawned]
  BY SteadyMoves
<1>2. ThreadsOK'
  BY <1>1, ThreadsKept DEF Steady
<1>3. PhaseOK'
  BY <1>1 DEF Steady, PhaseOK, Quiet, Running, Assigned, Listens
<1>4. SocketOK'
  BY <1>1 DEF Steady, SocketOK
<1> QED BY <1>2, <1>3, <1>4 DEF Steady

LEMMA JoinSteady ==
    ASSUME TypeInv, Steady, NEW join, NEW next, Join(Main, join, next),
           UNCHANGED <<call, depth, connected, disconnected, group, fdset, inbound, eof, spawned,
                       listening_thread, is_listening>>,
           \/ join = "sendJoin" /\ next = "send"
           \/ join = "join" /\ next = "finish"
    PROVE  Steady'
<1>1. /\ pc[Main] = join /\ pc'[Main] = next
      /\ \A th \in Threads : pc'[th] = pc[th]
      /\ spawned > 0 => pc'[spawned] = pc[spawned]
  BY SteadyMoves DEF Join
<1>2. listening_thread = spawned /\ spawned > 0 /\ spawned \in Nat
  BY <1>1, SpawnedLemma DEF Steady, PhaseOK, Assigned, Quiet
<1>3. pc[spawned] = "ended" /\ joined' = joined \cup {spawned}
  BY <1>2 DEF Join
<1>4. joined' \subseteq 1 .. spawned
  BY <1>2, <1>3 DEF Steady, PhaseOK
<1>5. ThreadsOK'
  BY <1>1, ThreadsKept DEF Steady
<1>6. PhaseOK'
  BY <1>1, <1>2, <1>3, <1>4 DEF Steady, PhaseOK, Quiet, Running, Assigned, Listens
<1>7. SocketOK'
  BY <1>1 DEF Steady, SocketOK
<1> QED BY <1>5, <1>6, <1>7 DEF Steady

LEMMA mainSteady ==
    ASSUME TypeInv, TokenInv, Steady,
           \/ connect \/ connectRefused \/ connectListens \/ connectDone
           \/ sendMessage \/ sendStops \/ send \/ sendListens \/ poll \/ clearInbox
    PROVE  Steady'
<1>1. CASE connect \/ connectRefused \/ connectDone
  BY <1>1, connectSteady
<1>2. CASE connectListens
  BY <1>2, startListeningSteady DEF connectListens
<1>3. CASE sendListens
  BY <1>3, startListeningSteady DEF sendListens
<1> USE DEF lockVars, listenVars, sockVars, threadVars, netVars
<1>4. CASE sendMessage
  <2>1. Go(Main, "sendMessage", IF connected THEN "sendStop" ELSE "poll")
    BY <1>4 DEF sendMessage
  <2>2. pc[Main] = "sendMessage"
    BY <2>1 DEF Go
  <2>3. connected
    BY <2>2 DEF Steady, SocketOK
  <2>4. Go(Main, "sendMessage", "sendStop")
    BY <2>1, <2>3
  <2> QED BY <1>4, <2>4, SteadyStep DEF sendMessage
<1>5. CASE sendStops
  <2>1. CASE pc[Main] = "sendJoin" /\ listening_thread \in joined
    BY <2>1 DEF Steady, PhaseOK, Assigned, Quiet
  <2>2. CASE Lower(Main, "sendStop", "sendLower", "sendJoin", "send")
    <3>1. CASE Go(Main, "sendLower", "sendJoin") /\ is_listening' = FALSE
      <4>1. UNCHANGED <<call, depth, connected, disconnected, group, fdset, inbound, eof, spawned,
                        listening_thread, joined>>
        <5>1. pc[Main] # "sendJoin"
          BY <3>1 DEF Go
        <5> QED BY <1>5, <2>2, <3>1, <5>1, <2>1 DEF sendStops, stopListening, Join, Go
      <4> QED BY <3>1, <4>1, LowerSteady
    <3>2. CASE /\ Go(Main, "sendStop", IF is_listening THEN "sendLower" ELSE "send")
               /\ UNCHANGED is_listening
      <4>1. is_listening /\ pc[Main] = "sendStop"
        BY <3>2 DEF Go, Steady, PhaseOK, Running
      <4>2. UNCHANGED <<call, depth, connected, disconnected, group, fdset, inbound, eof, spawned,
                        listening_thread, joined, is_listening>>
        BY <1>5, <3>2, <4>1 DEF sendStops, stopListening, Join, Go
      <4>3. Go(Main, "sendStop", "sendLower")
        BY <3>2, <4>1
      <4> QED BY <4>2, <4>3, SteadyStep
    <3> QED BY <2>2, <3>1, <3>2 DEF Lower
  <2>3. CASE /\ Join(Main, "sendJoin", "send")
             /\ UNCHANGED <<is_listening, listening_thread, spawned, connected>>
    BY <1>5, <2>3, JoinSteady DEF sendStops
  <2> QED BY <1>5, <2>1, <2>2, <2>3 DEF sendStops, stopListening
<1>6. CASE send
  <2>1. pc[Main] = "send"
    BY <1>6 DEF send, Go
  <2>2. group \ disconnected # {}
    BY <2>1 DEF Steady, SocketOK
  <2> QED BY <1>6, <2>2, SteadyStep DEF send
<1>7. CASE poll
  BY <1>7, SteadyStep DEF poll
<1>8. CASE clearInbox
  BY <1>8, SteadyStep DEF clearInbox
<1> QED BY <1>1, <1>2, <1>3, <1>4, <1>5, <1>6, <1>7, <1>8

LEMMA disconnectSteady ==
    ASSUME TypeInv, Steady, NEW a \in Procs, disconnect(a)
    PROVE  Steady'
<1> USE DEF lockVars, listenVars, sockVars, threadVars, netVars
<1>1. pc[a] \in {"disconnect", "size", "close", "remove", "stop", "lower", "join", "finish"}
  BY DEF disconnect, disconnectBegins, disconnectCounts, disconnectCloses, disconnectRemoves,
         disconnectThrows, Crash, disconnectStops, disconnectEnds, stopListening, Lower, Join, Go
<1>2. a = Main
  BY <1>1 DEF Steady, ThreadsOK, ThreadSteps, Procs
<1>3. UNCHANGED <<fdset, inbound, eof>>
  BY DEF disconnect
<1>4. CASE disconnectBegins(Main)
  <2>1. pc[Main] = "disconnect"
    BY <1>4 DEF disconnectBegins, Go
  <2>2. connected
    BY <2>1 DEF Steady, SocketOK
  <2>3. Go(Main, "disconnect", "size")
    BY <1>4, <2>2 DEF disconnectBegins
  <2> QED BY <1>3, <1>4, <2>3, SteadyStep DEF disconnectBegins
<1>9. CASE disconnectCounts(Main)
  <2>1. pc[Main] = "size"
    BY <1>9 DEF disconnectCounts, Go
  <2>2. group # {}
    BY <2>1 DEF Steady, SocketOK
  <2>3. Go(Main, "size", "close")
    BY <1>9, <2>2 DEF disconnectCounts
  <2> QED BY <1>3, <1>9, <2>3, SteadyStep DEF disconnectCounts
<1>10. CASE disconnectThrows(Main)
  BY <1>10 DEF disconnectThrows, Steady, SocketOK
<1>5. CASE disconnectCloses(Main)
  <2>1. /\ pc[Main] = "close" /\ pc'[Main] = "remove"
        /\ \A th \in Threads : pc'[th] = pc[th]
        /\ spawned > 0 => pc'[spawned] = pc[spawned]
    BY <1>5, SteadyMoves DEF disconnectCloses
  <2>2. UNCHANGED <<is_listening, listening_thread, joined, spawned, fdset, inbound, eof, depth,
                    call, connected, group>>
    BY <1>3, <1>5 DEF disconnectCloses
  <2>3. call \in Nat /\ group = {call} /\ disconnected' = disconnected \cup {call}
    BY <1>5, <2>1, SpawnedLemma DEF disconnectCloses, Steady, SocketOK
  <2>4. call > 0
    BY <2>1 DEF TypeInv, CountOK, InCall
  <2>5. disconnected' \subseteq 1 .. call
    BY <2>3, <2>4 DEF Steady, SocketOK
  <2>6. ThreadsOK'
    BY <2>1, <2>2, ThreadsKept DEF Steady
  <2>7. PhaseOK'
    BY <2>1, <2>2 DEF Steady, PhaseOK, Quiet, Running, Assigned, Listens
  <2>8. SocketOK'
    BY <2>1, <2>2, <2>5 DEF Steady, SocketOK
  <2> QED BY <2>6, <2>7, <2>8 DEF Steady
<1>6. CASE disconnectRemoves(Main)
  <2>1. /\ pc[Main] = "remove" /\ pc'[Main] = "stop"
        /\ \A th \in Threads : pc'[th] = pc[th]
        /\ spawned > 0 => pc'[spawned] = pc[spawned]
    BY <1>6, SteadyMoves DEF disconnectRemoves
  <2>2. /\ UNCHANGED <<is_listening, listening_thread, joined, spawned, fdset, inbound, eof, depth,
                       call, connected, disconnected>>
        /\ group' = {}
    BY <1>3, <1>6 DEF disconnectRemoves
  <2>3. ThreadsOK'
    BY <2>1, <2>2, ThreadsKept DEF Steady
  <2>4. PhaseOK'
    BY <2>1, <2>2 DEF Steady, PhaseOK, Quiet, Running, Assigned, Listens
  <2>5. SocketOK'
    BY <2>1, <2>2 DEF Steady, SocketOK
  <2> QED BY <2>3, <2>4, <2>5 DEF Steady
<1>7. CASE disconnectStops(Main)
  <2>1. UNCHANGED <<call, depth, connected, disconnected, group>>
    BY <1>7 DEF disconnectStops
  <2>2. ~(pc[Main] = "join" /\ listening_thread \in joined)
    BY DEF Steady, PhaseOK, Assigned, Quiet
  <2>3. stopListening(Main, "stop", "lower", "join", "finish")
    BY <1>7, <2>2 DEF disconnectStops
  <2>4. CASE /\ Go(Main, "stop", IF is_listening THEN "lower" ELSE "finish")
             /\ UNCHANGED <<is_listening, listening_thread, joined, spawned>>
    <3>1. CASE is_listening
      BY <1>3, <2>1, <2>4, <3>1, SteadyStep
    <3>2. CASE ~is_listening
      BY <1>3, <2>1, <2>4, <3>2, SteadyStep
    <3> QED BY <3>1, <3>2
  <2>5. CASE /\ Go(Main, "lower", "join") /\ is_listening' = FALSE
             /\ UNCHANGED <<listening_thread, joined, spawned>>
    BY <1>3, <2>1, <2>5, LowerSteady
  <2>6. CASE Join(Main, "join", "finish") /\ UNCHANGED <<is_listening, listening_thread, spawned>>
    BY <1>3, <2>1, <2>6, JoinSteady
  <2> QED BY <2>3, <2>4, <2>5, <2>6 DEF stopListening, Lower
<1>8. CASE disconnectEnds(Main)
  <2>1. PICK to \in {"done", "idle"} : Go(Main, "finish", to)
    BY <1>8 DEF disconnectEnds, Return
  <2>2. /\ pc[Main] = "finish" /\ pc'[Main] \in {"done", "idle"}
        /\ \A th \in Threads : pc'[th] = pc[th]
        /\ spawned > 0 => pc'[spawned] = pc[spawned]
    BY <2>1, SteadyMoves
  <2>3. /\ UNCHANGED <<is_listening, listening_thread, joined, spawned, fdset, inbound, eof,
                       call, group, disconnected>>
        /\ connected' = FALSE /\ depth' = depth - 1
    BY <1>3, <1>8 DEF disconnectEnds
  <2>4. depth' = 0
    BY <2>2, <2>3 DEF Steady, SocketOK
  <2>5. ThreadsOK'
    BY <2>2, <2>3, ThreadsKept DEF Steady
  <2>6. PhaseOK'
    BY <2>2, <2>3 DEF Steady, PhaseOK, Quiet, Running, Assigned, Listens
  <2>7. SocketOK'
    BY <2>2, <2>3, <2>4 DEF Steady, SocketOK
  <2> QED BY <2>5, <2>6, <2>7 DEF Steady
<1> QED BY <1>2, <1>4, <1>5, <1>6, <1>7, <1>8, <1>9, <1>10 DEF disconnect

\* A step of a listener that moves no message: it is the one alive, and what the
\* phase of the main thread asks of it still holds.
LEMMA ListenerMoves ==
    ASSUME TypeInv, Steady, NEW th \in Threads, NEW from \in ThreadSteps \ {"none", "ended"},
           NEW to, Go(th, from, to)
    PROVE  /\ th = spawned /\ pc[Main] \notin Quiet
           /\ pc[th] = from /\ pc'[th] = to
           /\ pc'[Main] = pc[Main]
           /\ \A other \in Threads \ {th} : pc'[other] = pc[other]
<1>1. pc \in [Procs -> MainSteps \cup ThreadSteps \cup BothSteps] /\ th \in Procs /\ Main \in Procs
  BY DEF TypeInv, PcOK, Procs
<1>2. pc[th] = from
  BY DEF Go
<1>3. th = spawned /\ pc[Main] \notin Quiet
  BY <1>2, AliveLemma
<1>4. th # Main
  BY DEF Threads, Main
<1>5. \A other \in Threads \ {th} : other \in Procs
  BY DEF Procs
<1> QED BY <1>1, <1>2, <1>3, <1>4, <1>5 DEF Go

\* What a step of the listener alive has to keep.
LEMMA ListenerKeeps ==
    ASSUME TypeInv, Steady, NEW th \in Threads, th = spawned, pc[Main] \notin Quiet,
           pc[th] # "ended",
           pc'[Main] = pc[Main], \A other \in Threads \ {th} : pc'[other] = pc[other],
           UNCHANGED <<call, depth, connected, disconnected, group, eof, spawned, listening_thread,
                       joined>>,
           \/ UNCHANGED is_listening /\ pc[th] # "dying" /\ Listens(th)'
           \/ /\ UNCHANGED is_listening /\ pc[th] # "dying" /\ ~is_listening /\ pc'[th] = "ended"
           \/ /\ pc'[th] = "dying" /\ UNCHANGED is_listening /\ pc[th] # "dying"
              /\ call \in disconnected
           \/ pc[th] = "dying" /\ pc'[th] = "ended" /\ is_listening' = FALSE,
           pc'[th] \in {"select", "oversleep"} => fdset'[th] \subseteq {call},
           pc'[th] = "launch" => ~NothingInbound'
    PROVE  Steady'
<1>1. SocketOK'
  BY DEF Steady, SocketOK
<1>2. pc'[th] \in ThreadSteps
  BY DEF Listens, ThreadSteps
<1>3. \A other \in Threads \ {th} : pc'[other] \in {"none", "ended"}
  BY MaxCallsAssumption DEF Steady, ThreadsOK, Threads
<1>4. ThreadsOK'
  BY <1>2, <1>3, SpawnedLemma DEF Steady, ThreadsOK
<1>5. PhaseOK'
  <2>1. pc[Main] # "crashed" /\ joined \subseteq 1 .. spawned
    BY DEF Steady, PhaseOK
  <2>2. CASE pc[Main] \in Running
    <3>1. is_listening /\ Listens(spawned)
      BY <2>2 DEF Steady, PhaseOK
    <3>2. call \notin disconnected
      BY <2>2 DEF Steady, SocketOK, Running
    <3>3. Listens(th)' /\ UNCHANGED is_listening
      BY <3>1, <3>2 DEF Listens
    <3> QED BY <2>1, <2>2, <3>1, <3>3 DEF Steady, PhaseOK, Running, Quiet, Assigned, Listens
  <2>3. CASE pc[Main] \in {"remove", "stop", "lower"}
    BY <2>1, <2>3 DEF Steady, PhaseOK, Running, Quiet, Assigned, Listens
  <2>4. CASE pc[Main] = "join"
    BY <2>1, <2>4 DEF Steady, PhaseOK, Running, Quiet, Assigned, Listens
  <2>5. CASE pc[Main] = "sendJoin"
    <3>1. call \notin disconnected
      BY <2>5 DEF Steady, SocketOK
    <3> QED BY <2>1, <2>5, <3>1 DEF Steady, PhaseOK, Running, Quiet, Assigned, Listens
  <2>6. pc[Main] \in Running \cup {"remove", "stop", "lower", "join", "sendJoin"}
    BY <2>1 DEF TypeInv, PcOK, MainSteps, BothSteps, Quiet, Running
  <2> QED BY <2>2, <2>3, <2>4, <2>5, <2>6
<1> QED BY <1>1, <1>4, <1>5 DEF Steady

LEMMA listenerSteady ==
    ASSUME TypeInv, TokenInv, Steady, NEW th \in Threads, listener(th)
    PROVE  Steady'
<1>1. CASE disconnect(th)
  BY <1>1, disconnectSteady DEF Procs
<1> USE DEF unchangedByListen, lockVars, sockVars, threadVars, ThreadSteps
<1>2. CASE listenerTest(th)
  <2>1. PICK to \in {"fill", "ended"} : Go(th, "test", to) /\ (to = "fill" <=> is_listening)
    BY <1>2 DEF listenerTest
  <2>2. /\ th = spawned /\ pc[Main] \notin Quiet /\ pc[th] = "test" /\ pc'[th] = to
        /\ pc'[Main] = pc[Main] /\ \A other \in Threads \ {th} : pc'[other] = pc[other]
    BY <2>1, ListenerMoves
  <2>3. UNCHANGED <<call, depth, connected, disconnected, group, eof, spawned, listening_thread,
                    joined, is_listening>>
    BY <1>2 DEF listenerTest
  <2> QED BY <2>1, <2>2, <2>3, ListenerKeeps DEF Listens
<1>3. CASE listenFill(th)
  <2>1. PICK to \in {"select", "oversleep"} : Go(th, "fill", to)
    BY <1>3 DEF listenFill
  <2>2. /\ th = spawned /\ pc[Main] \notin Quiet /\ pc[th] = "fill" /\ pc'[th] = to
        /\ pc'[Main] = pc[Main] /\ \A other \in Threads \ {th} : pc'[other] = pc[other]
    BY <2>1, ListenerMoves
  <2>3. UNCHANGED <<call, depth, connected, disconnected, group, eof, spawned, listening_thread,
                    joined, is_listening>>
    BY <1>3 DEF listenFill
  <2>4. fdset'[th] \subseteq {call}
    BY <1>3 DEF listenFill, TypeInv, DataOK, TokenInv
  <2> QED BY <2>2, <2>3, <2>4, ListenerKeeps DEF Listens
<1>4. CASE listenSelect(th)
  <2>1. PICK from \in {"select", "oversleep"}, to \in {"launch", "test", "dying"} :
            /\ Go(th, from, to)
            /\ to = "launch" => \E s \in fdset[th] : Readable(s)
            /\ to = "dying" => fdset[th] \cap disconnected # {}
    BY <1>4 DEF listenSelect
  <2>2. /\ th = spawned /\ pc[Main] \notin Quiet /\ pc[th] = from /\ pc'[th] = to
        /\ pc'[Main] = pc[Main] /\ \A other \in Threads \ {th} : pc'[other] = pc[other]
    BY <2>1, ListenerMoves
  <2>3. UNCHANGED <<call, depth, connected, disconnected, group, eof, spawned, listening_thread,
                    joined, is_listening, inbound>>
    BY <1>4 DEF listenSelect
  <2>4. fdset[th] \subseteq {call} /\ fdset[th] \subseteq Sessions
    BY <2>2 DEF Steady, ThreadsOK, TypeInv, DataOK
  <2>5. to = "dying" => call \in disconnected
    BY <2>1, <2>4
  <2>6. to = "launch" => ~NothingInbound
    BY <2>1, <2>4 DEF Readable, Steady, SocketOK, NothingInbound
  <2>7. to = "launch" => ~NothingInbound'
    BY <2>3, <2>6 DEF NothingInbound
  <2> QED BY <2>1, <2>2, <2>3, <2>5, <2>7, ListenerKeeps DEF Listens
<1>5. CASE listenLaunch(th)
  <2>1. pc[th] = "launch"
    BY <1>5 DEF listenLaunch, Go, TypeInv, DataOK
  <2>2. ~NothingInbound
    BY <2>1 DEF Steady, ThreadsOK
  <2>3. pc[Main] \in Asking \ Quiet
    BY <2>1, <2>2, AliveLemma DEF TokenInv
  <2>4. group = {call} /\ call \notin disconnected
    BY <2>3 DEF Asking, Quiet, Steady, SocketOK
  <2>5. inbound[call] # <<>>
    BY <2>2 DEF NothingInbound, TokenInv
  <2>6. Go(th, "launch", "push")
    BY <1>5, <2>4, <2>5 DEF listenLaunch
  <2>7. /\ th = spawned /\ pc[Main] \notin Quiet /\ pc'[th] = "push"
        /\ pc'[Main] = pc[Main] /\ \A other \in Threads \ {th} : pc'[other] = pc[other]
    BY <2>6, ListenerMoves
  <2>8. UNCHANGED <<call, depth, connected, disconnected, group, eof, spawned, listening_thread,
                    joined, is_listening>>
    BY <1>5 DEF listenLaunch
  <2> QED BY <2>1, <2>7, <2>8, ListenerKeeps DEF Listens
<1>6. CASE listenPush(th)
  <2>1. PICK to \in {"fill", "test"} : Go(th, "push", to)
    BY <1>6 DEF listenPush
  <2>2. /\ th = spawned /\ pc[Main] \notin Quiet /\ pc[th] = "push" /\ pc'[th] = to
        /\ pc'[Main] = pc[Main] /\ \A other \in Threads \ {th} : pc'[other] = pc[other]
    BY <2>1, ListenerMoves
  <2>3. UNCHANGED <<call, depth, connected, disconnected, group, eof, spawned, listening_thread,
                    joined, is_listening>>
    BY <1>6 DEF listenPush
  <2> QED BY <2>2, <2>3, ListenerKeeps DEF Listens
<1>7. CASE listenerCatch(th)
  <2>1. Go(th, "dying", "ended")
    BY <1>7 DEF listenerCatch
  <2>2. /\ th = spawned /\ pc[Main] \notin Quiet /\ pc[th] = "dying" /\ pc'[th] = "ended"
        /\ pc'[Main] = pc[Main] /\ \A other \in Threads \ {th} : pc'[other] = pc[other]
    BY <2>1, ListenerMoves
  <2>3. /\ UNCHANGED <<call, depth, connected, disconnected, group, eof, spawned, listening_thread,
                       joined>>
        /\ is_listening' = FALSE
    BY <1>7 DEF listenerCatch
  <2> QED BY <2>2, <2>3, ListenerKeeps
<1> QED BY <1>1, <1>2, <1>3, <1>4, <1>5, <1>6, <1>7 DEF listener

LEMMA ServerSteady ==
    ASSUME TypeInv, Steady, MaxCloses = 0, NEW s \in Sessions, ServerAnswers(s) \/ ServerCloses(s)
    PROVE  Steady'
<1>1. CASE ServerAnswers(s)
  <2>1. UNCHANGED <<pc, call, lockVars, listenVars, sockVars, threadVars, eof>>
    BY <1>1 DEF ServerAnswers
  <2>2. ~NothingInbound'
    <3>1. inbound'[s] = Append(inbound[s], s) /\ inbound[s] \in Seq(Sessions)
      BY <1>1 DEF ServerAnswers, TypeInv, DataOK
    <3>2. inbound'[s] # <<>>
      BY <3>1
    <3> QED BY <3>2 DEF NothingInbound
  <2>3. ThreadsOK'
    BY <2>1, <2>2 DEF Steady, ThreadsOK, listenVars, threadVars
  <2>4. PhaseOK'
    BY <2>1 DEF Steady, PhaseOK, listenVars, Listens
  <2>5. SocketOK'
    BY <2>1 DEF Steady, SocketOK, lockVars, sockVars
  <2> QED BY <2>3, <2>4, <2>5 DEF Steady
<1>2. CASE ServerCloses(s)
  <2>1. eof = {}
    BY DEF Steady, SocketOK
  <2>2. Cardinality(eof) = 0
    BY <2>1, FS_EmptySet
  <2> QED BY <1>2, <2>2 DEF ServerCloses
<1> QED BY <1>1, <1>2

LEMMA NextSteady ==
    ASSUME TypeInv, TokenInv, Steady, MaxCloses = 0, [Next]_vars
    PROVE  Steady'
<1>1. CASE \/ connect \/ connectRefused \/ connectListens \/ connectDone
           \/ sendMessage \/ sendStops \/ send \/ sendListens \/ poll \/ clearInbox
  BY <1>1, mainSteady
<1>2. CASE disconnect(Main)
  BY <1>2, disconnectSteady DEF Procs
<1>3. ASSUME NEW th \in Threads, listener(th) PROVE Steady'
  BY <1>3, listenerSteady
<1>4. ASSUME NEW s \in Sessions, ServerAnswers(s) \/ ServerCloses(s) PROVE Steady'
  BY <1>4, ServerSteady
<1>5. CASE UNCHANGED vars
  <2>1. UNCHANGED <<pc, call, lockVars, listenVars, sockVars, threadVars, netVars>>
    BY <1>5 DEF vars
  <2>2. ThreadsOK'
    BY <2>1, ThreadsKept DEF Steady, listenVars, threadVars, netVars
  <2>3. PhaseOK' /\ SocketOK'
    BY <2>1 DEF Steady, PhaseOK, SocketOK, Listens, lockVars, listenVars, sockVars, netVars
  <2> QED BY <2>2, <2>3 DEF Steady
<1> QED BY <1>1, <1>2, <1>3, <1>4, <1>5 DEF Next, main

LEMMA SteadyHolds == (MaxCloses = 0) => (Spec => []Steady)
<1> SUFFICES ASSUME MaxCloses = 0 PROVE Spec => []Steady
  OBVIOUS
<1>1. TypeInv /\ TokenInv /\ Steady /\ [Next]_vars => Steady'
  BY NextSteady
<1> QED BY <1>1, TypesHold, TokenHolds, InitSteady, PTL DEF Spec

(***************************************************************************)
(* While the server closes nothing, no two listener threads use the group: *)
(* stopListening has joined the one before startListening starts the next. *)
(***************************************************************************)
THEOREM OneListenerAlive ==
    ASSUME MaxCloses = 0
    PROVE  Spec => []OneListener
<1>1. TypeInv /\ Steady => OneListener
  <2> SUFFICES ASSUME TypeInv, Steady, NEW th \in Threads, NEW other \in Threads,
                      Listens(th), Listens(other)
               PROVE  th = other
    BY DEF OneListener
  <2>1. th = spawned /\ other = spawned
    BY AliveLemma DEF Listens
  <2> QED BY <2>1
<1> QED BY <1>1, SteadyHolds, TypesHold, PTL

(***************************************************************************)
(* While the server closes nothing, connection_mutex is locked once in a   *)
(* call and free between two: no call stays locked, none unlocks it twice. *)
(***************************************************************************)
THEOREM MutexHeld ==
    ASSUME MaxCloses = 0
    PROVE  Spec => []MutexHeldInCall
<1>1. Steady => MutexHeldInCall
  BY DEF Steady, PhaseOK, SocketOK, MutexHeldInCall
<1> QED BY <1>1, SteadyHolds, PTL

(***************************************************************************)
(* While the server closes nothing, a call that polls the inbox is heard:  *)
(* the listener that fills it runs, and is the one the client holds.       *)
(***************************************************************************)
THEOREM PollsAreHeard ==
    ASSUME MaxCloses = 0
    PROVE  Spec => []PollingHeard
<1>1. Steady => PollingHeard
  BY DEF Steady, PhaseOK, Running, Assigned, PollingHeard
<1> QED BY <1>1, SteadyHolds, PTL

-----------------------------------------------------------------------------
(***************************************************************************)
(* The steps of the client are steps of Exchange.  An answer is given when *)
(* it arrives, so that reading it and pushing it are stutters; so are the  *)
(* start and the end of a listener.                                        *)
(***************************************************************************)

\* The answer of the call has arrived and was not taken.
Given == received_messages # <<>> \/ Pushing # {} \/ ~NothingInbound

LEMMA OneArrives ==
    ASSUME NEW x
    PROVE  /\ <<>> \o <<>> \o <<>> = <<>>
           /\ <<x>> \o <<>> \o <<>> = <<x>>
           /\ <<>> \o <<x>> \o <<>> = <<x>>
           /\ <<>> \o <<>> \o <<x>> = <<x>>
<1>1. <<x>> \in Seq({x}) /\ <<>> \in Seq({x})
  OBVIOUS
<1>2. \A s \in Seq({x}) : <<>> \o s = s /\ s \o <<>> = s
  OBVIOUS
<1> QED BY <1>1, <1>2

LEMMA ArrivedLemma ==
    TypeInv /\ TokenInv => Arrived = IF Given THEN <<call>> ELSE <<>>
<1> SUFFICES ASSUME TypeInv, TokenInv
             PROVE  Arrived = IF Given THEN <<call>> ELSE <<>>
  OBVIOUS
<1> DEFINE pushed == IF Pushing = {} THEN <<>> ELSE << held[CHOOSE th \in Pushing : TRUE] >>
           unread == IF call = 0 THEN <<>> ELSE inbound[call]
<1>1. pushed = IF Pushing = {} THEN <<>> ELSE <<call>>
  <2>1. CASE Pushing # {}
    <3>1. (CHOOSE th \in Pushing : TRUE) \in Pushing
      BY <2>1
    <3> QED BY <2>1, <3>1 DEF TokenInv
  <2> QED BY <2>1
<1>2. unread = IF NothingInbound THEN <<>> ELSE <<call>>
  <2>1. call # 0 => call \in Sessions
    BY DEF TypeInv, CountOK, Sessions
  <2>2. CASE NothingInbound
    BY <2>1, <2>2 DEF NothingInbound
  <2>3. CASE ~NothingInbound
    <3>1. PICK s \in Sessions : inbound[s] # <<>>
      BY <2>3 DEF NothingInbound
    <3>2. s = call /\ inbound[s] = <<call>>
      BY <3>1 DEF TokenInv
    <3>3. call # 0
      BY <3>1, <3>2 DEF Sessions
    <3> QED BY <2>3, <3>2, <3>3
  <2> QED BY <2>2, <2>3
<1>3. Arrived = received_messages \o pushed \o unread
  BY DEF Arrived
<1>4. /\ received_messages = <<>> \/ received_messages = <<call>>
      /\ received_messages # <<>> => pushed = <<>> /\ unread = <<>>
      /\ Pushing # {} => unread = <<>>
  BY <1>1, <1>2 DEF TokenInv
<1> HIDE DEF pushed, unread
<1> QED BY <1>1, <1>2, <1>3, <1>4, OneArrives DEF Given

LEMMA ArrivedNext ==
    ASSUME TypeInv, TokenInv, [Next]_vars
    PROVE  /\ Arrived  = IF Given  THEN <<call>>  ELSE <<>>
           /\ Arrived' = IF Given' THEN <<call'>> ELSE <<>>
<1>1. TypeInv' /\ TokenInv'
  BY NextTypeInv, NextTokenInv
<1>2. (TypeInv /\ TokenInv => Arrived = IF Given THEN <<call>> ELSE <<>>)'
  BY ArrivedLemma, PTL
<1> QED BY <1>1, <1>2, ArrivedLemma

LEMMA InitExchange == Init => E!Init
<1> SUFFICES ASSUME Init PROVE E!Init
  OBVIOUS
<1>1. Pushing = {}
  BY DEF Init, Pushing, Threads, Main
<1>2. StepOfCall = "idle"
  <2>1. pc[Main] = "idle"
    BY DEF Init
  <2> QED BY <2>1 DEF StepOfCall, BothSteps
<1>3. Arrived = <<>>
  BY <1>1 DEF Init, Arrived
<1> QED BY <1>2, <1>3 DEF Init, E!Init

\* No step of Exchange: the call, its step, its request and its answer stay.
LEMMA ExchangeStutters ==
    ASSUME TypeInv, TokenInv, [Next]_vars, UNCHANGED <<call, asked>>,
           StepOfCall' = StepOfCall, Given' = Given
    PROVE  UNCHANGED E!vars
  BY ArrivedNext DEF E!vars

\* The step of the call, by where the main thread is.
LEMMA StepLemma ==
    /\ pc[Main] \in {"idle", "done"} => StepOfCall = "idle"
    /\ pc[Main] \in {"flag", "spawn", "assign", "connected", "sendMessage", "sendStop",
                     "sendLower", "sendJoin", "send"} => StepOfCall = "connected"
    /\ pc[Main] \in {"reflag", "respawn", "reassign", "poll", "clearInbox"} => StepOfCall = "asked"
    /\ pc[Main] \in BothSteps => StepOfCall = "answered"
  BY DEF StepOfCall, BothSteps

\* The same of the next state.
LEMMA StepNext ==
    ASSUME TypeInv, Steady, NEW from, NEW to, Go(Main, from, to)
    PROVE  /\ from \in {"idle", "done"} => StepOfCall = "idle"
           /\ from \in {"flag", "spawn", "assign", "connected", "sendMessage", "sendStop",
                        "sendLower", "sendJoin", "send"} => StepOfCall = "connected"
           /\ from \in {"reflag", "respawn", "reassign", "poll", "clearInbox"} => StepOfCall = "asked"
           /\ from \in BothSteps => StepOfCall = "answered"
           /\ to \in {"idle", "done"} => StepOfCall' = "idle"
           /\ to \in {"flag", "spawn", "assign", "connected", "sendMessage", "sendStop",
                      "sendLower", "sendJoin", "send"} => StepOfCall' = "connected"
           /\ to \in {"reflag", "respawn", "reassign", "poll", "clearInbox"} => StepOfCall' = "asked"
           /\ to \in BothSteps => StepOfCall' = "answered"
<1>1. pc[Main] = from /\ pc'[Main] = to
  BY SteadyMoves
<1>2. /\ pc'[Main] \in {"idle", "done"} => StepOfCall' = "idle"
      /\ pc'[Main] \in {"flag", "spawn", "assign", "connected", "sendMessage", "sendStop",
                        "sendLower", "sendJoin", "send"} => StepOfCall' = "connected"
      /\ pc'[Main] \in {"reflag", "respawn", "reassign", "poll", "clearInbox"} =>
           StepOfCall' = "asked"
      /\ pc'[Main] \in BothSteps => StepOfCall' = "answered"
  BY DEF StepOfCall, BothSteps
<1> QED BY <1>1, <1>2, StepLemma

\* No listener has a message more or less than before.
LEMMA GivenKept ==
    ASSUME UNCHANGED <<received_messages, inbound>>,
           \A th \in Threads : pc'[th] = "push" <=> pc[th] = "push"
    PROVE  Given' = Given
<1>1. Pushing' = Pushing
  BY DEF Pushing
<1> QED BY <1>1 DEF Given, NothingInbound

LEMMA startListeningExchange ==
    ASSUME TypeInv, TokenInv, Steady, [Next]_vars,
           UNCHANGED <<call, asked, received_messages, inbound>>,
           \/ startListening("flag", "spawn", "assign", "connected")
           \/ startListening("reflag", "respawn", "reassign", "poll")
    PROVE  UNCHANGED E!vars
<1>1. pc \in [Procs -> MainSteps \cup ThreadSteps \cup BothSteps] /\ Main \in Procs /\ Main = 0
  BY DEF TypeInv, PcOK, Procs, Main
<1>2. \A th \in Threads : th # Main /\ th \in Procs
  BY DEF Procs, Threads, Main
<1>3. /\ spawned \in Nat
      /\ pc[Main] \in {"spawn", "respawn"} => spawned + 1 \in Threads /\ spawned + 1 # spawned
  BY SpawnedLemma
<1>4. pc[Main] \in {"spawn", "respawn"} => pc[spawned + 1] # "push"
  BY <1>3, AliveLemma DEF Quiet
<1>5. \A th \in Threads : pc'[th] = "push" <=> pc[th] = "push"
  BY <1>1, <1>2, <1>3, <1>4 DEF startListening, Go
<1>6. Given' = Given
  BY <1>5, GivenKept
<1>7. /\ pc[Main] \in {"flag", "spawn", "assign"}
           => pc'[Main] \in {"spawn", "assign", "connected"}
      /\ pc[Main] \in {"reflag", "respawn", "reassign"}
           => pc'[Main] \in {"respawn", "reassign", "poll"}
      /\ pc[Main] \in {"flag", "spawn", "assign", "reflag", "respawn", "reassign"}
  BY <1>1, <1>3 DEF startListening, Go
<1>8. StepOfCall' = StepOfCall
  BY <1>7 DEF StepOfCall, BothSteps
<1> QED BY <1>6, <1>8, ExchangeStutters

LEMMA mainExchange ==
    ASSUME TypeInv, TokenInv, Steady, [Next]_vars,
           \/ connect \/ connectRefused \/ connectListens \/ connectDone
           \/ sendMessage \/ sendStops \/ send \/ sendListens \/ poll \/ clearInbox
    PROVE  [E!Next]_E!vars
<1> USE DEF lockVars, listenVars, sockVars, threadVars, netVars
<1>1. CASE connect
  <2>1. Go(Main, "idle", "flag")
    BY <1>1 DEF connect
  <2>2. pc[Main] = "idle" /\ StepOfCall = "idle" /\ StepOfCall' = "connected"
    BY <2>1, StepNext DEF Go
  <2>3. asked = {} /\ ~Given
    BY <2>2 DEF TokenInv, Asking, Given
  <2>4. \A th \in Threads : pc'[th] = pc[th]
    BY <2>1, SteadyMoves
  <2>5. Given' = Given
    BY <1>1, <2>4, GivenKept DEF connect
  <2>6. Arrived = <<>> /\ Arrived' = <<>>
    BY <2>3, <2>5, ArrivedNext
  <2>7. call < MaxCalls /\ call' = call + 1 /\ asked' = asked
    BY <1>1 DEF connect
  <2> QED BY <2>2, <2>6, <2>7 DEF E!Next, E!Connect
<1>2. CASE connectRefused
  BY <1>2 DEF connectRefused, Crash, Steady, SocketOK
<1>3. CASE connectListens
  BY <1>3, startListeningExchange DEF connectListens
<1>4. CASE sendListens
  BY <1>4, startListeningExchange DEF sendListens
<1>5. CASE connectDone
  <2>1. Go(Main, "connected", "sendMessage")
    BY <1>5 DEF connectDone
  <2>2. StepOfCall' = StepOfCall /\ \A th \in Threads : pc'[th] = pc[th]
    BY <2>1, StepNext, SteadyMoves
  <2> QED BY <1>5, <2>2, GivenKept, ExchangeStutters DEF connectDone
<1>6. CASE sendMessage
  <2>1. Go(Main, "sendMessage", IF connected THEN "sendStop" ELSE "poll")
    BY <1>6 DEF sendMessage
  <2>2. pc[Main] = "sendMessage"
    BY <2>1 DEF Go
  <2>3. connected
    BY <2>2 DEF Steady, SocketOK
  <2>4. Go(Main, "sendMessage", "sendStop")
    BY <2>1, <2>3
  <2>5. StepOfCall' = StepOfCall /\ \A th \in Threads : pc'[th] = pc[th]
    BY <2>4, StepNext, SteadyMoves
  <2> QED BY <1>6, <2>5, GivenKept, ExchangeStutters DEF sendMessage
<1>7. CASE sendStops
  <2>1. ~(pc[Main] = "sendJoin" /\ listening_thread \in joined)
    BY DEF Steady, PhaseOK, Assigned, Quiet
  <2>2. PICK from \in {"sendStop", "sendLower", "sendJoin"}, to \in {"sendLower", "sendJoin", "send"} :
            Go(Main, from, to)
    BY <1>7, <2>1 DEF sendStops, stopListening, Lower, Join
  <2>3. StepOfCall' = StepOfCall /\ \A th \in Threads : pc'[th] = pc[th]
    BY <2>2, StepNext, SteadyMoves
  <2> QED BY <1>7, <2>3, GivenKept, ExchangeStutters DEF sendStops
<1>8. CASE send
  <2>1. pc[Main] = "send"
    BY <1>8 DEF send, Go
  <2>2. group = {call} /\ call \notin disconnected
    BY <2>1 DEF Steady, SocketOK
  <2>3. Go(Main, "send", "reflag") /\ asked' = asked \cup {call} /\ call' = call
    BY <1>8, <2>2 DEF send
  <2>4. StepOfCall = "connected" /\ StepOfCall' = "asked" /\ \A th \in Threads : pc'[th] = pc[th]
    BY <2>3, StepNext, SteadyMoves
  <2>5. Given' = Given
    BY <1>8, <2>4, GivenKept DEF send
  <2>6. Arrived' = Arrived
    BY <2>3, <2>5, ArrivedNext
  <2> QED BY <2>3, <2>4, <2>6 DEF E!Next, E!Ask
<1>9. CASE poll
  <2>1. Go(Main, "poll", "clearInbox")
    BY <1>9 DEF poll
  <2>2. StepOfCall' = StepOfCall /\ \A th \in Threads : pc'[th] = pc[th]
    BY <2>1, StepNext, SteadyMoves
  <2> QED BY <1>9, <2>2, GivenKept, ExchangeStutters DEF poll
<1>10. CASE clearInbox
  <2>1. Go(Main, "clearInbox", "disconnect")
    BY <1>10 DEF clearInbox
  <2>2. /\ pc[Main] = "clearInbox"
        /\ StepOfCall = "asked" /\ StepOfCall' = "answered"
        /\ \A th \in Threads : pc'[th] = pc[th]
    BY <2>1, StepNext, SteadyMoves DEF BothSteps
  <2>3. UNCHANGED <<call, asked, inbound>> /\ received_messages' = <<>>
    BY <1>10 DEF clearInbox
  <2>4. received_messages # <<>> /\ Pushing = {} /\ NothingInbound
    BY <2>2 DEF TokenInv
  <2>5. Given /\ ~Given'
    BY <2>2, <2>3, <2>4 DEF Given, Pushing, NothingInbound
  <2>6. Arrived = <<call>> /\ Arrived' = <<>>
    BY <2>5, ArrivedNext
  <2> QED BY <2>2, <2>3, <2>6 DEF E!Next, E!TakeAnswer
<1> QED BY <1>1, <1>2, <1>3, <1>4, <1>5, <1>6, <1>7, <1>8, <1>9, <1>10

LEMMA disconnectExchange ==
    ASSUME TypeInv, TokenInv, Steady, [Next]_vars, NEW a \in Procs, disconnect(a)
    PROVE  [E!Next]_E!vars
<1> USE DEF lockVars, listenVars, sockVars, threadVars, netVars
<1>1. a = Main
  <2>1. pc[a] \in {"disconnect", "size", "close", "remove", "stop", "lower", "join", "finish"}
    BY DEF disconnect, disconnectBegins, disconnectCounts, disconnectCloses, disconnectRemoves,
           disconnectThrows, Crash, disconnectStops, disconnectEnds, stopListening, Lower, Join, Go
  <2> QED BY <2>1 DEF Steady, ThreadsOK, ThreadSteps, Procs
<1>2. UNCHANGED <<call, asked, received_messages, inbound>>
  BY DEF disconnect, disconnectBegins, disconnectCounts, disconnectCloses, disconnectRemoves,
         disconnectThrows, Crash, disconnectStops, disconnectEnds
<1>3. CASE disconnectEnds(Main)
  <2>1. PICK to \in {"done", "idle"} : Go(Main, "finish", to)
    BY <1>3 DEF disconnectEnds, Return
  <2>2. StepOfCall = "answered" /\ StepOfCall' = "idle" /\ \A th \in Threads : pc'[th] = pc[th]
    BY <2>1, StepNext, SteadyMoves DEF BothSteps
  <2>3. Given' = Given
    BY <1>2, <2>2, GivenKept
  <2>4. Arrived' = Arrived
    BY <1>2, <2>3, ArrivedNext
  <2> QED BY <1>2, <2>2, <2>4 DEF E!Next, E!Disconnect
<1>4. CASE \/ disconnectBegins(Main) \/ disconnectCounts(Main) \/ disconnectCloses(Main)
           \/ disconnectRemoves(Main) \/ disconnectThrows(Main) \/ disconnectStops(Main)
  <2>1. pc[Main] = "disconnect" => connected
    BY DEF Steady, SocketOK
  <2>2. ~(pc[Main] = "join" /\ listening_thread \in joined)
    BY DEF Steady, PhaseOK, Assigned, Quiet
  <2>3. PICK from \in {"disconnect", "size", "close", "remove", "stop", "lower", "join"},
             to \in {"size", "close", "remove", "stop", "lower", "join", "finish"} : Go(Main, from, to)
    <3>1. CASE disconnectBegins(Main)
      BY <2>1, <3>1 DEF disconnectBegins, Go
    <3>2. CASE disconnectCounts(Main) \/ disconnectCloses(Main) \/ disconnectRemoves(Main)
      BY <3>2 DEF disconnectCounts, disconnectCloses, disconnectRemoves
    <3>4. CASE disconnectThrows(Main)
      BY <3>4 DEF disconnectThrows, Steady, SocketOK
    <3>3. CASE disconnectStops(Main)
      BY <2>2, <3>3 DEF disconnectStops, stopListening, Lower, Join
    <3> QED BY <1>4, <3>1, <3>2, <3>3, <3>4
  <2>4. StepOfCall' = StepOfCall /\ \A th \in Threads : pc'[th] = pc[th]
    BY <2>3, StepNext, SteadyMoves DEF BothSteps
  <2> QED BY <1>2, <2>4, GivenKept, ExchangeStutters
<1> QED BY <1>1, <1>3, <1>4 DEF disconnect

\* Whatever a listener does with the answer, it has been given and not taken.
LEMMA listenerExchange ==
    ASSUME TypeInv, TokenInv, Steady, [Next]_vars, NEW th \in Threads, listener(th)
    PROVE  [E!Next]_E!vars
<1>1. CASE disconnect(th)
  BY <1>1, disconnectExchange DEF Procs
<1>2. ASSUME \/ listenerTest(th) \/ listenFill(th) \/ listenSelect(th)
             \/ listenLaunch(th) \/ listenPush(th) \/ listenerCatch(th)
      PROVE  UNCHANGED E!vars
  <2>1. UNCHANGED <<call, asked>>
    BY <1>2 DEF listenerTest, listenFill, listenSelect, listenLaunch, listenPush, listenerCatch,
                unchangedByListen
  <2>2. pc'[Main] = pc[Main] /\ \A other \in Threads \ {th} : pc'[other] = pc[other]
    BY <1>2 DEF listenerTest, listenFill, listenSelect, listenLaunch, listenPush, listenerCatch,
                Go, TypeInv, PcOK, Procs, Main, Threads
  <2>3. StepOfCall' = StepOfCall
    BY <2>2 DEF StepOfCall
  <2>4. CASE listenerTest(th) \/ listenFill(th) \/ listenSelect(th) \/ listenerCatch(th)
    <3>1. pc[th] # "push" /\ pc'[th] # "push"
      BY <2>4 DEF listenerTest, listenFill, listenSelect, listenerCatch, Go, TypeInv, PcOK, Procs
    <3>2. UNCHANGED <<received_messages, inbound>>
      BY <2>4 DEF listenerTest, listenFill, listenSelect, listenerCatch
    <3>3. Given' = Given
      BY <2>2, <3>1, <3>2, GivenKept
    <3> QED BY <2>1, <2>3, <3>3, ExchangeStutters
  <2>5. CASE listenLaunch(th)
    <3>1. CASE UNCHANGED inbound /\ pc'[th] # "push"
      <4>1. pc[th] # "push" /\ UNCHANGED received_messages
        BY <2>5 DEF listenLaunch, Go, TypeInv, DataOK
      <4>2. Given' = Given
        BY <2>2, <3>1, <4>1, GivenKept
      <4> QED BY <2>1, <2>3, <4>2, ExchangeStutters
    <3>2. CASE pc'[th] = "push" /\ \E s \in Sessions : inbound[s] # <<>>
      <4>1. Given /\ Given'
        BY <3>2 DEF Given, NothingInbound, Pushing
      <4> QED BY <2>1, <2>3, <4>1, ExchangeStutters
    <3> QED BY <2>5, <3>1, <3>2 DEF listenLaunch, Go, TypeInv, PcOK, Procs, DataOK
  <2>6. CASE listenPush(th)
    <3>1. th \in Pushing
      BY <2>6 DEF listenPush, Go, Pushing
    <3>2. received_messages = <<>>
      BY <3>1 DEF TokenInv
    <3>3. received_messages' # <<>>
      BY <2>6, <3>2 DEF listenPush
    <3>4. Given /\ Given'
      BY <3>1, <3>3 DEF Given
    <3> QED BY <2>1, <2>3, <3>4, ExchangeStutters
  <2> QED BY <1>2, <2>4, <2>5, <2>6
<1> QED BY <1>1, <1>2 DEF listener

LEMMA ServerExchange ==
    ASSUME TypeInv, TokenInv, Steady, MaxCloses = 0, [Next]_vars,
           NEW s \in Sessions, ServerAnswers(s) \/ ServerCloses(s)
    PROVE  [E!Next]_E!vars
<1>1. CASE ServerAnswers(s)
  <2>1. UNCHANGED <<pc, call, received_messages>> /\ s \in asked /\ asked' = asked \ {s}
    BY <1>1 DEF ServerAnswers
  <2>2. s = call /\ ~Given
    BY <2>1 DEF TokenInv, Given
  <2>3. inbound'[s] # <<>>
    <3>1. inbound'[s] = Append(inbound[s], s) /\ inbound[s] \in Seq(Sessions)
      BY <1>1 DEF ServerAnswers, TypeInv, DataOK
    <3> QED BY <3>1
  <2>4. Given'
    BY <2>3 DEF Given, NothingInbound
  <2>5. Arrived = <<>> /\ Arrived' = <<s>>
    BY <2>1, <2>2, <2>4, ArrivedNext
  <2>6. Arrived' = Append(Arrived, s)
    BY <2>5
  <2>7. StepOfCall' = StepOfCall
    BY <2>1 DEF StepOfCall
  <2> QED BY <2>1, <2>6, <2>7 DEF E!Next, E!GiveAnswer
<1>2. CASE ServerCloses(s)
  <2>1. Cardinality(eof) = 0
    BY FS_EmptySet DEF Steady, SocketOK
  <2> QED BY <1>2, <2>1 DEF ServerCloses
<1> QED BY <1>1, <1>2

LEMMA NextExchange ==
    ASSUME TypeInv, TokenInv, Steady, MaxCloses = 0, [Next]_vars
    PROVE  [E!Next]_E!vars
<1>1. CASE \/ connect \/ connectRefused \/ connectListens \/ connectDone
           \/ sendMessage \/ sendStops \/ send \/ sendListens \/ poll \/ clearInbox
  BY <1>1, mainExchange
<1>2. CASE disconnect(Main)
  BY <1>2, disconnectExchange DEF Procs
<1>3. ASSUME NEW th \in Threads, listener(th) PROVE [E!Next]_E!vars
  BY <1>3, listenerExchange
<1>4. ASSUME NEW s \in Sessions, ServerAnswers(s) \/ ServerCloses(s) PROVE [E!Next]_E!vars
  BY <1>4, ServerExchange
<1>5. CASE UNCHANGED vars
  <2>1. UNCHANGED <<pc, call, asked, received_messages, inbound>>
    BY <1>5 DEF vars, netVars
  <2>2. StepOfCall' = StepOfCall
    BY <2>1 DEF StepOfCall
  <2> QED BY <2>1, <2>2, GivenKept, ExchangeStutters
<1> QED BY <1>1, <1>2, <1>3, <1>4, <1>5 DEF Next, main

(***************************************************************************)
(* While the server closes nothing, every step of the main thread, of the  *)
(* listener threads that replace each other and of the server is a step of *)
(* Exchange or none of it: calls come one after the other, and each takes  *)
(* the one answer to its one request.  This is the part of Exchanges that  *)
(* needs no fairness.                                                      *)
(***************************************************************************)
THEOREM ExchangeSteps ==
    ASSUME MaxCloses = 0
    PROVE  Spec => E!Init /\ [][E!Next]_E!vars
<1>1. TypeInv /\ TokenInv /\ Steady /\ [Next]_vars => [E!Next]_E!vars
  BY NextExchange
<1> QED BY <1>1, InitExchange, TypesHold, TokenHolds, SteadyHolds, PTL DEF Spec

=============================================================================
