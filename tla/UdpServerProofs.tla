--------------------------- MODULE UdpServerProofs ---------------------------
(***************************************************************************)
(* The queue between the receiving thread and the workers is correct for   *)
(* any number of processors and of datagrams.                              *)
(***************************************************************************)
EXTENDS UdpServer, TLAPS

\* The mutex: who is inside a critical section, and who sleeps.
Locked ==
    /\ owner = Receiver <=> rpc \in {"link", "unlock"}
    /\ \A w \in Workers : owner = w <=> wpc[w] \in {"test", "take", "unlock"}
    /\ \A w \in Workers : w \in waiters <=> wpc[w] = "wait"
    /\ \A w \in Workers : wpc[w] = "take" => count > 0

\* The list, also inside a critical section: both change it in one piece.
ListShape ==
    /\ linked = (IF rpc \in {"lock", "link"} THEN received - 1 ELSE received)
    /\ count <= linked
    /\ head = (IF count = 0 THEN NULL ELSE linked - count + 1)
    /\ tail = (IF count = 0 THEN NULL ELSE linked)
    /\ \A p \in Packet :
          linked - count < p /\ p <= linked =>
              next[p] = IF p = linked THEN NULL ELSE p + 1
    /\ rpc \in {"lock", "link"} => received > 0 /\ next[received] = NULL

\* The nodes: the queued ones and the one to be linked are allocated; the ones
\* popped and not yet freed are older than the queued ones, and each is held by
\* one worker.
Nodes ==
    /\ \A p \in Packet : linked - count < p /\ p <= received => p \in heap
    /\ \A w \in Workers : wpc[w] \in {"unlock", "free"} =>
          /\ msg[w] \in heap
          /\ msg[w] <= linked - count
    /\ \A v, w \in Workers :
          /\ wpc[v] \in {"unlock", "free"}
          /\ wpc[w] \in {"unlock", "free"}
          /\ msg[v] = msg[w]
          => v = w
    /\ \A w \in Workers : wpc[w] = "handle" => msg[w] \in Packet

\* The history of the pops.
Popped == Len(popped) = linked - count /\ PoppedInOrder

QueueInv == TypeOK /\ Locked /\ ListShape /\ Nodes /\ Popped

\* The mutex's owner tells the threads apart.
LEMMA ThreadsDistinct ==
    /\ Receiver \notin Workers
    /\ Free \notin Workers
    /\ Receiver # Free
    /\ \A w \in Workers : w \in Nat
  BY CpusAssumption DEF Receiver, Free, Workers

\* queue_init leaves an empty, unlocked queue.
LEMMA QueueInit == Init => QueueInv
  BY ThreadsDistinct, PacketsAssumption
  DEF Init, QueueInv, TypeOK, Locked, ListShape, Nodes, Popped, PoppedInOrder,
      Packet, Node, NULL

-----------------------------------------------------------------------------
(* The receiving thread *)

\* A node allocated outside the mutex belongs to nobody else.
LEMMA ReceiveKeeps == QueueInv /\ Receive => QueueInv'
  <1> SUFFICES ASSUME QueueInv, Receive PROVE QueueInv'
    OBVIOUS
  <1> USE PacketsAssumption DEF QueueInv, Receive, Packet, Node
  <1>1. TypeOK'
    BY DEF TypeOK, NULL
  <1>2. Locked'
    BY DEF Locked
  <1>3. ListShape'
    BY DEF ListShape, TypeOK, NULL
  <1>4. Nodes'
    BY DEF Nodes, ListShape, TypeOK
  <1>5. Popped'
    BY DEF Popped, PoppedInOrder
  <1> QED
    BY <1>1, <1>2, <1>3, <1>4, <1>5

\* Linking the node at the tail extends the list by the newest datagram.
LEMMA PushLinkKeeps == QueueInv /\ PushLink => QueueInv'
  <1> SUFFICES ASSUME QueueInv, PushLink PROVE QueueInv'
    OBVIOUS
  <1> USE PacketsAssumption DEF QueueInv, PushLink
  <1>1. /\ received \in 1..MaxPackets
        /\ linked = received - 1
        /\ linked \in Nat
        /\ count \in Nat
        /\ count <= linked
        /\ tail # NULL => tail = linked /\ linked \in Packet
        /\ next[received] = NULL
    BY DEF TypeOK, ListShape, Packet, Node, NULL
  <1>2. TypeOK'
    <2>1. next' \in [Packet -> Node] /\ head' \in Node
      BY <1>1 DEF TypeOK, Packet, Node
    <2> QED
      BY <1>1, <2>1 DEF TypeOK, Packet, Node
  <1>3. Locked'
    BY <1>1 DEF Locked
  <1>4. ListShape'
    <2>1. CASE tail = NULL
      <3>1. count = 0
        BY <2>1, <1>1 DEF ListShape, NULL
      <3> QED
        BY <2>1, <3>1, <1>1 DEF ListShape, TypeOK, Packet, Node, NULL
    <2>2. CASE tail # NULL
      <3>1. count > 0
        BY <2>2, <1>1 DEF ListShape
      <3> QED
        BY <2>2, <3>1, <1>1 DEF ListShape, TypeOK, Packet, Node, NULL
    <2> QED
      BY <2>1, <2>2
  <1>5. Nodes'
    BY <1>1 DEF Nodes
  <1>6. Popped'
    BY <1>1 DEF Popped, PoppedInOrder
  <1> QED
    BY <1>2, <1>3, <1>4, <1>5, <1>6

\* The receiver's other steps move the mutex and wake waiters, nothing else.
LEMMA PushMovesKeep ==
    QueueInv /\ (ReceiveFails \/ PushLock \/ PushUnlock \/ Signal) => QueueInv'
  <1> SUFFICES ASSUME QueueInv, ReceiveFails \/ PushLock \/ PushUnlock \/ Signal
               PROVE QueueInv'
    OBVIOUS
  <1> USE ThreadsDistinct DEF QueueInv, queue
  <1>1. CASE ReceiveFails
    BY <1>1 DEF ReceiveFails, TypeOK, Locked, ListShape, Nodes, Popped, PoppedInOrder
  <1>2. CASE PushLock
    BY <1>2 DEF PushLock, TypeOK, Locked, ListShape, Nodes, Popped, PoppedInOrder
  <1>3. CASE PushUnlock
    BY <1>3 DEF PushUnlock, TypeOK, Locked, ListShape, Nodes, Popped, PoppedInOrder
  <1>4. CASE Signal
    <2>1. TypeOK'
      BY <1>4 DEF Signal, TypeOK
    <2>2. Locked'
      BY <1>4 DEF Signal, TypeOK, Locked
    <2>3. ListShape' /\ Popped'
      BY <1>4 DEF Signal, ListShape, Popped, PoppedInOrder
    <2>4. Nodes'
      BY <1>4 DEF Signal, TypeOK, Locked, Nodes
    <2> QED
      BY <2>1, <2>2, <2>3, <2>4
  <1> QED
    BY <1>1, <1>2, <1>3, <1>4

-----------------------------------------------------------------------------
(* A worker *)

\* Steps of a worker that leave the list, the nodes and the mutex alone.
LEMMA LookKeeps ==
    ASSUME QueueInv, NEW w \in Workers,
           Check(w) \/ Test(w) \/ SpuriousWakeup(w)
    PROVE  QueueInv'
  <1> USE DEF QueueInv, Check, CheckWhen, Test, SpuriousWakeup, queue
  <1>1. TypeOK'
    BY DEF TypeOK
  <1>2. Locked'
    BY DEF TypeOK, Locked
  <1>3. ListShape' /\ Popped'
    BY DEF ListShape, Popped, PoppedInOrder
  <1>4. Nodes'
    BY DEF TypeOK, Locked, Nodes
  <1> QED
    BY <1>1, <1>2, <1>3, <1>4

\* Steps of a worker that take or give up the mutex.
LEMMA MutexKeeps ==
    ASSUME QueueInv, NEW w \in Workers,
           PopLock(w) \/ Wait(w) \/ PopUnlock(w)
    PROVE  QueueInv'
  <1> USE ThreadsDistinct DEF QueueInv, PopLock, Wait, PopUnlock, queue
  <1>1. TypeOK'
    BY DEF TypeOK
  <1>2. Locked'
    BY DEF TypeOK, Locked
  <1>3. ListShape' /\ Popped'
    BY DEF ListShape, Popped, PoppedInOrder
  <1>4. Nodes'
    BY DEF TypeOK, Nodes
  <1> QED
    BY <1>1, <1>2, <1>3, <1>4

\* The worker that takes the head gets the oldest datagram on the list.
LEMMA TakeKeeps ==
    ASSUME QueueInv, NEW w \in Workers, Take(w)
    PROVE  QueueInv'
  <1> USE PacketsAssumption DEF QueueInv, Take, TakeWith
  <1>1. /\ linked \in Nat
        /\ count \in Nat
        /\ 0 < count
        /\ count <= linked
        /\ head = linked - count + 1
        /\ head \in Packet
        /\ tail = linked
        /\ linked <= MaxPackets
        /\ linked <= received
        /\ next[head] = IF head = linked THEN NULL ELSE head + 1
    BY DEF TypeOK, Locked, ListShape, Packet, Node, NULL
  <1>2. TypeOK'
    BY <1>1 DEF TypeOK, Packet, Node, NULL
  <1>3. Locked'
    <2>1. \A v \in Workers : v # w => wpc[v] # "take"
      BY DEF Locked
    <2> QED
      BY <1>1, <2>1 DEF TypeOK, Locked
  <1>4. ListShape'
    BY <1>1 DEF ListShape, TypeOK, Packet, Node, NULL
  <1>5. Nodes'
    <2>1. \A p \in Packet : linked - count < p /\ p <= received => p \in heap
      BY DEF Nodes
    <2>2. head \in heap
      <3>1. linked - count < head /\ head <= received
        BY <1>1 DEF TypeOK, Node
      <3> QED
        BY <1>1, <2>1, <3>1
    <2>3. \A v \in Workers : v # w => wpc'[v] = wpc[v] /\ msg'[v] = msg[v]
      BY DEF TypeOK
    <2>4. wpc'[w] = "unlock" /\ msg'[w] = head
      BY DEF TypeOK
    <2>5. linked - count' = head
      BY <1>1
    <2>6. \A v \in Workers : v # w /\ wpc[v] \in {"unlock", "free"} =>
             msg[v] \in heap /\ msg[v] < head
      BY <1>1 DEF Nodes, TypeOK, Node
    <2> QED
      BY <1>1, <2>1, <2>2, <2>3, <2>4, <2>5, <2>6 DEF Nodes, TypeOK, Packet, Node
  <1>6. Popped'
    BY <1>1 DEF Popped, PoppedInOrder, TypeOK
  <1> QED
    BY <1>2, <1>3, <1>4, <1>5, <1>6

\* A popped node is freed by the one worker that holds it.
LEMMA FreeKeeps ==
    ASSUME QueueInv, NEW w \in Workers, FreeNode(w)
    PROVE  QueueInv'
  <1> USE DEF QueueInv, FreeNode, queue
  <1>1. TypeOK'
    BY DEF TypeOK
  <1>2. Locked'
    BY DEF TypeOK, Locked
  <1>3. ListShape' /\ Popped'
    BY DEF ListShape, Popped, PoppedInOrder
  <1>4. Nodes'
    <2>1. msg[w] \in heap /\ msg[w] \in Nat /\ msg[w] <= linked - count
      BY PacketsAssumption DEF Nodes, TypeOK, Node
    <2>2. linked \in Nat /\ count \in Nat /\ linked - count \in Nat
      BY PacketsAssumption DEF TypeOK, ListShape, Node
    <2>3. \A v \in Workers : v # w => wpc'[v] = wpc[v]
      BY DEF TypeOK
    <2>4. wpc'[w] = "handle" /\ msg[w] \in Packet
      BY <2>1 DEF TypeOK
    <2> QED
      BY <2>1, <2>2, <2>3, <2>4, PacketsAssumption DEF Nodes, Packet
  <1> QED
    BY <1>1, <1>2, <1>3, <1>4

\* Processing a message touches nothing the threads share.
LEMMA HandleKeeps ==
    ASSUME QueueInv, NEW w \in Workers, Handle(w)
    PROVE  QueueInv'
  <1> USE DEF QueueInv, Handle, queue
  <1>1. TypeOK'
    BY PacketsAssumption DEF TypeOK, Nodes, Node, NULL
  <1>2. Locked'
    BY DEF TypeOK, Locked
  <1>3. ListShape' /\ Popped'
    BY DEF ListShape, Popped, PoppedInOrder
  <1>4. Nodes'
    BY DEF TypeOK, Nodes
  <1> QED
    BY <1>1, <1>2, <1>3, <1>4

\* Every step of every thread keeps the queue invariant.
LEMMA QueueStep == QueueInv /\ [Next]_vars => QueueInv'
  <1> SUFFICES ASSUME QueueInv, [Next]_vars PROVE QueueInv'
    OBVIOUS
  <1>1. CASE RecvThread \/ ReceiveFails
    BY <1>1, ReceiveKeeps, PushLinkKeeps, PushMovesKeep DEF RecvThread
  <1>2. CASE \E w \in Workers : Worker(w) \/ SpuriousWakeup(w)
    BY <1>2, LookKeeps, MutexKeeps, TakeKeeps, FreeKeeps, HandleKeeps DEF Worker
  <1>3. CASE UNCHANGED vars
    BY <1>3 DEF vars, queue, QueueInv, TypeOK, Locked, ListShape, Nodes, Popped,
                PoppedInOrder
  <1> QED
    BY <1>1, <1>2, <1>3 DEF Next

-----------------------------------------------------------------------------

\* The queue invariant holds in every reachable state of the server.
THEOREM QueueInvariant == Spec => []QueueInv
  BY QueueInit, QueueStep, PTL DEF Spec

\* The state of queue.c and udp_server.c keeps its types.
THEOREM QueueTypes == Spec => []TypeOK
  BY QueueInvariant, PTL DEF QueueInv

\* The list walked from head is the last `count' datagrams in order of arrival
\* whenever the mutex is free, for any number of workers and datagrams.
THEOREM QueueStaysWellFormed == Spec => []QueueWellFormed
  <1>1. QueueInv => QueueWellFormed
    BY DEF QueueInv, ListShape, QueueWellFormed
  <1> QED
    BY <1>1, QueueInvariant, PTL

\* The workers pop every datagram once and in order of arrival.
THEOREM DatagramsPoppedInOrder == Spec => []PoppedInOrder
  <1>1. QueueInv => PoppedInOrder
    BY DEF QueueInv, Popped
  <1> QED
    BY <1>1, QueueInvariant, PTL

\* Freeing nodes outside the mutex is safe.
THEOREM NodesNotUsedAfterFree == Spec => []NoUseAfterFree
  <1>1. QueueInv => NoUseAfterFree
    BY PacketsAssumption DEF QueueInv, NoUseAfterFree, TypeOK, Locked, ListShape,
       Nodes, Packet, Node, NULL
  <1> QED
    BY <1>1, QueueInvariant, PTL

\* A worker goes to sleep, or loses the last datagram on the list, only while
\* another one that just took a datagram is awake.
THEOREM WorkersNeverAllAsleep == Spec => []SomeWorkerAwake
  <1>1. Init => SomeWorkerAwake
    BY DEF Init, SomeWorkerAwake, Awake
  <1>2. QueueInv /\ SomeWorkerAwake /\ [Next]_vars => SomeWorkerAwake'
    <2> SUFFICES ASSUME QueueInv, SomeWorkerAwake, [Next]_vars, Workers # {}
                 PROVE  \E v \in Workers : Awake(v)'
      BY DEF SomeWorkerAwake
    <2> PICK a \in Workers : Awake(a)
      BY DEF SomeWorkerAwake
    <2> USE DEF Awake, QueueInv, TypeOK, queue
    <2>1. CASE RecvThread \/ ReceiveFails
      <3>1. CASE Signal
        BY <3>1 DEF Signal, Locked
      <3>2. CASE PushLink
        BY <3>2 DEF PushLink
      <3>3. CASE Receive \/ ReceiveFails \/ PushLock \/ PushUnlock
        BY <3>3 DEF Receive, ReceiveFails, PushLock, PushUnlock
      <3> QED
        BY <2>1, <3>1, <3>2, <3>3 DEF RecvThread
    <2>2. ASSUME NEW w \in Workers, Worker(w) \/ SpuriousWakeup(w)
          PROVE  \E v \in Workers : Awake(v)'
      <3>1. CASE Check(w)
        BY <3>1 DEF Check, CheckWhen
      <3>2. CASE PopLock(w) \/ Test(w) \/ SpuriousWakeup(w)
        BY <3>2 DEF PopLock, Test, SpuriousWakeup, Locked
      <3>3. CASE Wait(w)
        BY <3>3 DEF Wait
      <3>4. CASE Take(w)
        BY <3>4 DEF Take, TakeWith
      <3>5. CASE PopUnlock(w) \/ FreeNode(w) \/ Handle(w)
        BY <3>5 DEF PopUnlock, FreeNode, Handle
      <3> QED
        BY <2>2, <3>1, <3>2, <3>3, <3>4, <3>5 DEF Worker
    <2>3. CASE UNCHANGED vars
      BY <2>3 DEF vars
    <2> QED
      BY <2>1, <2>2, <2>3 DEF Next
  <1> QED
    BY <1>1, <1>2, QueueInvariant, QueueInit, QueueStep, PTL DEF Spec
=============================================================================
