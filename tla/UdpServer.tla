------------------------------ MODULE UdpServer ------------------------------
(***************************************************************************)
(* The UDP server of src/server_library/udp: one receiving thread pushes   *)
(* every datagram on a linked-list queue guarded by a mutex and a          *)
(* condition variable; NumCpus - 2 detached workers look at the queue's    *)
(* counter without the mutex and pop.                                      *)
(*                                                                         *)
(* A datagram and the list node malloc'ed for it are the number of the     *)
(* datagram's arrival; 0 is NULL.  The socket is external: the model       *)
(* starts where recvfrom returns.                                          *)
(***************************************************************************)
EXTENDS Naturals, Sequences

CONSTANTS
    NumCpus,    \* what get_num_cpus() returns
    MaxPackets  \* bound: how many datagrams arrive

\* With fewer than two processors start_threads declares arrays of negative
\* length.
ASSUME CpusAssumption == NumCpus \in Nat /\ NumCpus >= 2
ASSUME PacketsAssumption == MaxPackets \in Nat

NULL    == 0
Packet  == 1..MaxPackets
Node    == 0..MaxPackets
\* start_threads: for (int i = 0; i < n-2; i++) pthread_create(...)
Workers == 1..(NumCpus - 2)
Receiver == 0
Free    == NumCpus          \* no thread holds the mutex

VARIABLES
    received,   \* datagrams recvfrom has returned
    linked,     \* how many of them are or were on the list
    head, tail, next, count,    \* queue_t
    heap,       \* the list nodes that are malloc'ed and not freed
    owner,      \* the thread holding q->lock
    waiters,    \* the workers blocked in pthread_cond_wait
    rpc,        \* the receiver's next step
    wpc,        \* each worker's next step
    msg,        \* each worker's old_head, and its message
    popped,     \* history: the messages in the order they were popped
    handled,    \* the messages that were processed and freed
    alive       \* FALSE once recvfrom has failed: exit(1)

queue == <<linked, head, tail, next, count>>
vars  == <<received, queue, heap, owner, waiters, rpc, wpc, msg, popped, handled, alive>>

TypeOK ==
    /\ received \in Node
    /\ linked \in Node
    /\ head \in Node
    /\ tail \in Node
    /\ next \in [Packet -> Node]
    /\ count \in Nat
    /\ heap \in SUBSET Packet
    /\ owner \in {Receiver, Free} \cup Workers
    /\ waiters \in SUBSET Workers
    /\ rpc \in {"recv", "lock", "link", "unlock", "signal"}
    /\ wpc \in [Workers -> {"check", "lock", "test", "wait", "take", "unlock",
                            "free", "handle"}]
    /\ msg \in [Workers -> Node]
    /\ popped \in Seq(Packet)
    /\ handled \in SUBSET Packet
    /\ alive \in BOOLEAN

Init ==
    /\ received = 0
    /\ linked = 0
    /\ head = NULL
    /\ tail = NULL
    /\ next = [p \in Packet |-> NULL]
    /\ count = 0
    /\ heap = {}
    /\ owner = Free
    /\ waiters = {}
    /\ rpc = "recv"
    /\ wpc = [w \in Workers |-> "check"]
    /\ msg = [w \in Workers |-> NULL]
    /\ popped = << >>
    /\ handled = {}
    /\ alive = TRUE

-----------------------------------------------------------------------------
(* The receiving thread: start_udp_server's loop and queue_push *)

\* recvfrom returns a datagram; queue_push allocates its node.
Receive ==
    /\ alive
    /\ rpc = "recv"
    /\ received < MaxPackets
    /\ received' = received + 1
    /\ heap' = heap \cup {received + 1}
    /\ next' = [next EXCEPT ![received + 1] = NULL]
    /\ rpc' = "lock"
    /\ UNCHANGED <<linked, head, tail, count, owner, waiters, wpc, msg, popped,
                   handled, alive>>

\* recvfrom returns -1: the error handler runs and the process exits.
ReceiveFails ==
    /\ alive
    /\ rpc = "recv"
    /\ alive' = FALSE
    /\ UNCHANGED <<received, queue, heap, owner, waiters, rpc, wpc, msg, popped,
                   handled>>

PushLock ==
    /\ alive
    /\ rpc = "lock"
    /\ owner = Free
    /\ owner' = Receiver
    /\ rpc' = "link"
    /\ UNCHANGED <<received, queue, heap, waiters, wpc, msg, popped, handled, alive>>

\* Mutant: the tail is not advanced on a non-empty list.
PushLinkKeepsTail ==
    /\ alive
    /\ rpc = "link"
    /\ IF tail = NULL
       THEN head' = received /\ tail' = received /\ next' = next
       ELSE next' = [next EXCEPT ![tail] = received] /\ tail' = tail /\ head' = head
    /\ count' = count + 1
    /\ linked' = received
    /\ rpc' = "unlock"
    /\ UNCHANGED <<received, heap, owner, waiters, wpc, msg, popped, handled, alive>>

PushLink ==
    /\ alive
    /\ rpc = "link"
    /\ IF tail = NULL
       THEN head' = received /\ next' = next
       ELSE head' = head /\ next' = [next EXCEPT ![tail] = received]
    /\ tail' = received
    /\ count' = count + 1
    /\ linked' = received
    /\ rpc' = "unlock"
    /\ UNCHANGED <<received, heap, owner, waiters, wpc, msg, popped, handled, alive>>

PushUnlock ==
    /\ alive
    /\ rpc = "unlock"
    /\ owner' = Free
    /\ rpc' = "signal"
    /\ UNCHANGED <<received, queue, heap, waiters, wpc, msg, popped, handled, alive>>

\* pthread_cond_signal, after the unlock: wakes one waiter if there is one; a
\* woken worker has to take the mutex again inside pthread_cond_wait.
Signal ==
    /\ alive
    /\ rpc = "signal"
    /\ rpc' = "recv"
    /\ \/ waiters = {} /\ UNCHANGED <<waiters, wpc>>
       \/ \E w \in waiters :
             /\ waiters' = waiters \ {w}
             /\ wpc' = [wpc EXCEPT ![w] = "lock"]
    /\ UNCHANGED <<received, queue, heap, owner, msg, popped, handled, alive>>

-----------------------------------------------------------------------------
(* A worker: thread_function and queue_pop *)

CheckWhen(w, seen) ==
    /\ alive
    /\ wpc[w] = "check"
    /\ seen
    /\ wpc' = [wpc EXCEPT ![w] = "lock"]
    /\ UNCHANGED <<received, queue, heap, owner, waiters, rpc, msg, popped,
                   handled, alive>>

\* Mutants: pop without a look; a queue of one is taken for empty.
CheckNothing(w) == CheckWhen(w, TRUE)
CheckOffByOne(w) == CheckWhen(w, count > 1)

\* if (msgs->count > 0), read without the mutex.
Check(w) == CheckWhen(w, count > 0)

\* pthread_mutex_lock, and the same lock on the way out of pthread_cond_wait.
PopLock(w) ==
    /\ alive
    /\ wpc[w] = "lock"
    /\ owner = Free
    /\ owner' = w
    /\ wpc' = [wpc EXCEPT ![w] = "test"]
    /\ UNCHANGED <<received, queue, heap, waiters, rpc, msg, popped, handled, alive>>

\* while (q->count == 0): wait, which gives the mutex up, or go on.
Wait(w) ==
    /\ alive
    /\ wpc[w] = "test"
    /\ count = 0
    /\ owner' = Free
    /\ waiters' = waiters \cup {w}
    /\ wpc' = [wpc EXCEPT ![w] = "wait"]
    /\ UNCHANGED <<received, queue, heap, rpc, msg, popped, handled, alive>>

Test(w) ==
    /\ alive
    /\ wpc[w] = "test"
    /\ count # 0
    /\ wpc' = [wpc EXCEPT ![w] = "take"]
    /\ UNCHANGED <<received, queue, heap, owner, waiters, rpc, msg, popped,
                   handled, alive>>

\* POSIX lets pthread_cond_wait return without a signal.
SpuriousWakeup(w) ==
    /\ alive
    /\ w \in waiters
    /\ waiters' = waiters \ {w}
    /\ wpc' = [wpc EXCEPT ![w] = "lock"]
    /\ UNCHANGED <<received, queue, heap, owner, rpc, msg, popped, handled, alive>>

TakeWith(w, newTail) ==
    /\ alive
    /\ wpc[w] = "take"
    /\ msg' = [msg EXCEPT ![w] = head]
    /\ head' = IF head = NULL THEN NULL ELSE next[head]
    /\ tail' = newTail
    /\ count' = count - 1
    /\ popped' = Append(popped, head)
    /\ wpc' = [wpc EXCEPT ![w] = "unlock"]
    /\ UNCHANGED <<received, linked, next, heap, owner, waiters, rpc, handled, alive>>

\* Mutant: the tail still points to the last node when the list is empty.
TakeKeepsTail(w) == TakeWith(w, tail)

\* Unlinks the head; the last pop also clears the tail.
Take(w) == TakeWith(w, IF head = NULL \/ next[head] = NULL THEN NULL ELSE tail)

PopUnlock(w) ==
    /\ alive
    /\ wpc[w] = "unlock"
    /\ owner' = Free
    /\ wpc' = [wpc EXCEPT ![w] = "free"]
    /\ UNCHANGED <<received, queue, heap, waiters, rpc, msg, popped, handled, alive>>

\* free(old_head), outside the mutex.
FreeNode(w) ==
    /\ alive
    /\ wpc[w] = "free"
    /\ heap' = heap \ {msg[w]}
    /\ wpc' = [wpc EXCEPT ![w] = "handle"]
    /\ UNCHANGED <<received, queue, owner, waiters, rpc, msg, popped, handled, alive>>

\* strtoull(msg), the clock, free(msg).
Handle(w) ==
    /\ alive
    /\ wpc[w] = "handle"
    /\ handled' = handled \cup {msg[w]}
    /\ msg' = [msg EXCEPT ![w] = NULL]
    /\ wpc' = [wpc EXCEPT ![w] = "check"]
    /\ UNCHANGED <<received, queue, heap, owner, waiters, rpc, popped, alive>>

RecvThread == Receive \/ PushLock \/ PushLink \/ PushUnlock \/ Signal

Worker(w) ==
    \/ Check(w) \/ PopLock(w) \/ Wait(w) \/ Test(w) \/ Take(w)
    \/ PopUnlock(w) \/ FreeNode(w) \/ Handle(w)

Next ==
    \/ RecvThread
    \/ ReceiveFails
    \/ \E w \in Workers : Worker(w) \/ SpuriousWakeup(w)

Spec == Init /\ [][Next]_vars

\* The scheduler runs every thread that can move; nothing forces a datagram to
\* arrive or recvfrom to fail.  Waits may end without a signal, but not for ever:
\* endless spurious wake-ups could keep the mutex from the receiver.
Fairness ==
    /\ WF_vars(PushLock \/ PushLink \/ PushUnlock \/ Signal)
    /\ \A w \in Workers : WF_vars(Worker(w))
    /\ <>[][\A w \in Workers : ~SpuriousWakeup(w)]_vars

FairSpec == Spec /\ Fairness

-----------------------------------------------------------------------------
(* Properties *)

\* Whenever no thread is inside a critical section the list, walked from head,
\* is exactly the last `count' datagrams linked, in order of arrival, ending at
\* tail: head and tail are NULL together and the counter the workers read
\* without the mutex is the list's length.
QueueWellFormed ==
    owner = Free =>
        /\ count <= linked
        /\ head = (IF count = 0 THEN NULL ELSE linked - count + 1)
        /\ tail = (IF count = 0 THEN NULL ELSE linked)
        /\ \A p \in Packet :
              linked - count < p /\ p <= linked =>
                  next[p] = IF p = linked THEN NULL ELSE p + 1

\* Datagrams are popped exactly once and in the order recvfrom returned them,
\* whichever workers pop them.
PoppedInOrder == \A i \in DOMAIN popped : popped[i] = i

\* queue_push never writes through a freed tail and queue_pop never reads a
\* freed or null head, although nodes are freed outside the mutex.
NoUseAfterFree ==
    /\ rpc = "link" /\ tail # NULL => tail \in heap
    /\ \A w \in Workers : wpc[w] = "take" => head \in heap
    /\ \A w \in Workers : wpc[w] = "free" => msg[w] \in heap

\* Some worker is always awake: not blocked on the condition variable, and if
\* it is about to pop, with something to pop.  A worker sleeps only when another
\* one took the datagram it had seen, so they never all wait for a signal, even
\* though the signal is sent after the unlock and may wake the wrong worker.
Awake(w) ==
    \/ wpc[w] \in {"check", "take", "unlock", "free", "handle"}
    \/ wpc[w] \in {"lock", "test"} /\ count > 0

SomeWorkerAwake == Workers # {} => \E w \in Workers : Awake(w)

\* Every datagram received is eventually processed, unless recvfrom fails or
\* the machine has too few processors for a single worker.
EveryPacketHandled ==
    Workers # {} =>
        \A p \in Packet : received >= p ~> (p \in handled \/ ~alive)
=============================================================================
