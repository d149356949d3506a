---------------------------- MODULE ShardPipeline ----------------------------
(***************************************************************************)
(* The path of a transaction from the RPC threads to a block:              *)
(*                                                                         *)
(*   RPC threads --emplaceBack--> TransactionPool --shardFactory-->        *)
(*   shardList --Blockchain::start--> blocks                               *)
(*                                                                         *)
(* Three kinds of threads share the pool and the shard list.  Every method *)
(* of TransactionPool, unit::vector and unit::list locks for the length of *)
(* that one call, so each call is one atomic step and everything between   *)
(* two calls can be interleaved.                                           *)
(*                                                                         *)
(* A transaction is the number of its arrival in the pool: the pool's      *)
(* mutex totally orders the calls of emplaceBack, and nothing in this part *)
(* of the program looks inside a transaction.                              *)
(***************************************************************************)
EXTENDS Naturals, Sequences, SequencesExt

CONSTANTS
    MaxTx,      \* bound: how many transactions the RPC threads accept
    MaxTorn     \* bound: how many elements an undefined range may yield

ASSUME BoundsAreNatural == MaxTx \in Nat /\ MaxTorn \in Nat

Garbage == 0                \* what is read from memory that is no Transaction
Tx      == 1..MaxTx
NoIter  == [gen |-> 0, pos |-> 0]   \* an iterator not taken yet

VARIABLES
    \* TransactionPool
    arrived,    \* number of calls of emplaceBack so far
    pool,       \* transactionPool.storage
    cap,        \* its capacity
    gen,        \* identity of its heap buffer: a reallocation makes a new one
    \* BasicLocalShardInserter::shardFactory, one thread
    fpc,        \* the call it makes next
    first,      \* the iterator getTxPool()->begin() returned
    last,       \* the iterator getTxPool()->end() returned
    copy,       \* the local vector `transactions'
    dropTo,     \* the argument of dropTransactions
    \* the shard list and Blockchain::start, one thread
    shardList,
    bpc,        \* "boot" before the first block, then "front", "pop"
    included,   \* the shards inserted into blocks, in the order of the blocks
    \* the process
    alive,      \* FALSE once undefined behaviour has ended the process
    \* history, read by properties only
    emplaced,   \* every shard ever put on shardList
    late,       \* transactions that arrived between end() and getPoolSize()
    torn,       \* a copy read a buffer that had been reallocated
    onGenesis   \* the genesis block took a shard

poolVars    == <<arrived, pool, cap, gen>>
factoryVars == <<fpc, first, last, copy, dropTo>>
blockVars   == <<bpc, included, onGenesis>>
vars == <<poolVars, factoryVars, shardList, blockVars, alive, emplaced, late, torn>>

Shard == Seq({Garbage} \cup Tx)
Iter  == [gen : Nat, pos : 0..MaxTx]

TypeOK ==
    /\ arrived \in 0..MaxTx
    /\ pool \in Seq(Tx)
    /\ cap \in Nat
    /\ gen \in Nat
    /\ fpc \in {"poll", "iterators", "emplace", "size", "drop"}
    /\ first \in Iter
    /\ last \in Iter
    /\ copy \in Shard
    /\ dropTo \in 0..MaxTx
    /\ shardList \in Seq(Shard)
    /\ bpc \in {"boot", "front", "pop"}
    /\ included \in Seq(Shard)
    /\ alive \in BOOLEAN
    /\ emplaced \in Seq(Shard)
    /\ late \subseteq Tx
    /\ torn \in BOOLEAN
    /\ onGenesis \in BOOLEAN

Init ==
    /\ arrived = 0
    /\ pool = << >>
    /\ cap = 0
    /\ gen = 1
    /\ fpc = "poll"
    /\ first = NoIter
    /\ last = NoIter
    /\ copy = << >>
    /\ dropTo = 0
    /\ shardList = << >>
    /\ bpc = "boot"
    /\ included = << >>
    /\ alive = TRUE
    /\ emplaced = << >>
    /\ late = {}
    /\ torn = FALSE
    /\ onGenesis = FALSE

-----------------------------------------------------------------------------
(* RPC threads *)

\* std::vector doubles its capacity when it is full and moves to a new buffer.
Grow ==
    IF Len(pool) < cap
    THEN UNCHANGED <<cap, gen>>
    ELSE /\ cap' = IF cap = 0 THEN 1 ELSE 2 * cap
         /\ gen' = gen + 1

\* A transaction arriving now would not be copied by the round under way, yet
\* its slot is counted by the getPoolSize() that sizes the drop.
InWindow == (fpc = "iterators" /\ last # NoIter) \/ fpc \in {"emplace", "size"}

\* BasicTransactionRpcFilter::filter hands an accepted transaction to the pool.
EmplaceBack ==
    /\ alive
    /\ arrived < MaxTx
    /\ arrived' = arrived + 1
    /\ pool' = Append(pool, arrived + 1)
    /\ Grow
    /\ late' = IF InWindow THEN late \cup {arrived + 1} ELSE late
    /\ UNCHANGED <<factoryVars, shardList, blockVars, alive, emplaced, torn>>

-----------------------------------------------------------------------------
(* shardFactory *)

\* while (true) { if (getPoolSize() == 0) continue; ... }
PollEmpty ==
    /\ alive
    /\ fpc = "poll"
    /\ pool = << >>
    /\ UNCHANGED vars

\* A round begins.  The reserve that follows only sizes the local vector.
BeginRound ==
    /\ alive
    /\ fpc = "poll"
    /\ fpc' = "iterators"
    /\ UNCHANGED <<poolVars, first, last, copy, dropTo, shardList, blockVars,
                   alive, emplaced, late, torn>>

\* Mutant: a pool of one is taken for empty.
PollPoolOffByOne ==
    \/ Len(pool) > 1 /\ BeginRound
    \/ alive /\ fpc = "poll" /\ Len(pool) = 1 /\ UNCHANGED vars

PollPool == pool # << >> /\ BeginRound

\* begin() and end() are two locked calls; C++ leaves their order open.
TakeBegin ==
    /\ alive
    /\ fpc = "iterators"
    /\ first = NoIter
    /\ first' = [gen |-> gen, pos |-> 0]
    /\ UNCHANGED <<poolVars, fpc, last, copy, dropTo, shardList, blockVars,
                   alive, emplaced, late, torn>>

TakeEnd ==
    /\ alive
    /\ fpc = "iterators"
    /\ last = NoIter
    /\ last' = [gen |-> gen, pos |-> Len(pool)]
    /\ UNCHANGED <<poolVars, fpc, first, copy, dropTo, shardList, blockVars,
                   alive, emplaced, late, torn>>

Assigning ==
    /\ alive
    /\ fpc = "iterators"
    /\ first # NoIter
    /\ last # NoIter

SameBuffer == first.gen = last.gen
More       == Len(copy) < last.pos

\* assign() copies element by element and holds no lock of the pool.
AssignElement ==
    /\ Assigning
    /\ SameBuffer /\ first.gen = gen /\ More
    /\ copy' = Append(copy, pool[Len(copy) + 1])
    /\ UNCHANGED <<poolVars, fpc, first, last, dropTo, shardList, blockVars,
                   alive, emplaced, late, torn>>

\* The buffer was reallocated under the iterators: undefined.  The freed memory
\* still holds the old element, or something else, or is no longer mapped.
AssignStale ==
    /\ Assigning
    /\ SameBuffer /\ first.gen # gen /\ More
    /\ \/ \E e \in {Garbage, pool[Len(copy) + 1]} : copy' = Append(copy, e)
          /\ alive' = alive
       \/ alive' = FALSE /\ copy' = copy
    /\ torn' = TRUE
    /\ UNCHANGED <<poolVars, fpc, first, last, dropTo, shardList, blockVars,
                   emplaced, late>>

\* begin and end belong to different buffers: the distance is meaningless.  It
\* is negative (assign throws, the thread terminates the process) or spans
\* whatever lies between the two buffers.
AssignTorn ==
    /\ Assigning
    /\ ~SameBuffer
    /\ \/ /\ \E n \in 1..MaxTorn : \E s \in [1..n -> {Garbage} \cup ToSet(pool)] :
                 copy' = s
          /\ fpc' = "emplace"
          /\ alive' = alive
       \/ alive' = FALSE /\ UNCHANGED <<copy, fpc>>
    /\ torn' = TRUE
    /\ UNCHANGED <<poolVars, first, last, dropTo, shardList, blockVars,
                   emplaced, late>>

AssignDone ==
    /\ Assigning
    /\ SameBuffer /\ ~More
    /\ fpc' = "emplace"
    /\ UNCHANGED <<poolVars, first, last, copy, dropTo, shardList, blockVars,
                   alive, emplaced, late, torn>>

\* insertList, the signature and shardList->emplace_back.
InsertShard ==
    /\ alive
    /\ fpc = "emplace"
    /\ shardList' = Append(shardList, copy)
    /\ emplaced' = Append(emplaced, copy)
    /\ fpc' = "size"
    /\ UNCHANGED <<poolVars, first, last, copy, dropTo, blockVars, alive, late, torn>>

\* dropTransactions(getPoolSize()): the argument is a locked call of its own.
ReadPoolSize ==
    /\ alive
    /\ fpc = "size"
    /\ dropTo' = Len(pool)
    /\ fpc' = "drop"
    /\ UNCHANGED <<poolVars, first, last, copy, shardList, blockVars, alive,
                   emplaced, late, torn>>

\* Mutants: erase stops one short; clear() instead of erase().
DropAs(rest) ==
    /\ alive
    /\ fpc = "drop"
    /\ pool' = rest
    /\ fpc' = "poll"
    /\ first' = NoIter
    /\ last' = NoIter
    /\ copy' = << >>
    /\ dropTo' = 0
    /\ UNCHANGED <<arrived, cap, gen, shardList, blockVars, alive, emplaced,
                   late, torn>>

DropOneShort == DropAs(SubSeq(pool, dropTo, Len(pool)))
DropEverything == DropAs(<< >>)

\* erase [begin, begin + tillPosition): keeps the buffer; then sleep and again.
DropTransactions ==
    /\ alive
    /\ fpc = "drop"
    /\ pool' = SubSeq(pool, dropTo + 1, Len(pool))
    /\ fpc' = "poll"
    /\ first' = NoIter
    /\ last' = NoIter
    /\ copy' = << >>
    /\ dropTo' = 0
    /\ UNCHANGED <<arrived, cap, gen, shardList, blockVars, alive, emplaced,
                   late, torn>>

Factory ==
    \/ PollEmpty \/ PollPool \/ TakeBegin \/ TakeEnd
    \/ AssignElement \/ AssignStale \/ AssignTorn \/ AssignDone
    \/ InsertShard \/ ReadPoolSize \/ DropTransactions

-----------------------------------------------------------------------------
(* Blockchain::start, as far as it touches shardList *)

Waiting == shardList # << >>

\* No usable block in the block database: the genesis block takes the front of
\* the list, if there is one, and leaves it there.
BootGenesis ==
    /\ alive
    /\ bpc = "boot"
    /\ bpc' = "front"
    /\ included' = IF Waiting THEN Append(included, Head(shardList)) ELSE included
    /\ onGenesis' = Waiting
    /\ UNCHANGED <<poolVars, factoryVars, shardList, alive, emplaced, late, torn>>

\* A stored block is found: the first block after it takes no shard.
BootResume ==
    /\ alive
    /\ bpc = "boot"
    /\ bpc' = "front"
    /\ UNCHANGED <<poolVars, factoryVars, shardList, included, onGenesis, alive,
                   emplaced, late, torn>>

\* Every later block inserts a copy of the front ...
TakeFront ==
    /\ alive
    /\ bpc = "front"
    /\ Waiting
    /\ included' = Append(included, Head(shardList))
    /\ bpc' = "pop"
    /\ UNCHANGED <<poolVars, factoryVars, shardList, onGenesis, alive, emplaced,
                   late, torn>>

\* Mutant: the shard is left on the list.
PopNothing ==
    /\ alive
    /\ bpc = "pop"
    /\ bpc' = "front"
    /\ UNCHANGED <<poolVars, factoryVars, shardList, included, onGenesis, alive,
                   emplaced, late, torn>>

\* ... and then removes the back.
PopBack ==
    /\ alive
    /\ bpc = "pop"
    /\ shardList' = SubSeq(shardList, 1, Len(shardList) - 1)
    /\ bpc' = "front"
    /\ UNCHANGED <<poolVars, factoryVars, included, onGenesis, alive, emplaced,
                   late, torn>>

BlockThread == BootGenesis \/ BootResume \/ TakeFront \/ PopBack

\* The process has ended.
Terminated == ~alive /\ UNCHANGED vars

Next == EmplaceBack \/ Factory \/ BlockThread \/ Terminated

Spec == Init /\ [][Next]_vars

\* Both loops are threads of their own that the operating system schedules and
\* that wait for nothing but the calls' own mutexes.
FairSpec == Spec /\ WF_vars(Factory) /\ WF_vars(BlockThread)
-----------------------------------------------------------------------------
(* What the pipeline guarantees *)

Sharded == UNION {ToSet(emplaced[i]) : i \in DOMAIN emplaced}

\* Unless a reallocation hit the copy, the shards put on shardList, read one
\* after the other, list accepted transactions in the order of their arrival:
\* none is invented, none is in two shards, none overtakes another, although
\* shardFactory copies and drops without holding the pool's mutex in between.
ShardsInArrivalOrder ==
    ~torn =>
        \A i, j \in DOMAIN emplaced :
            \A p \in DOMAIN emplaced[i], q \in DOMAIN emplaced[j] :
                /\ emplaced[i][p] \in 1..arrived
                /\ (i < j \/ (i = j /\ p < q)) => emplaced[i][p] < emplaced[j][q]

\* A transaction leaves the pool without reaching a shard only if it arrived
\* after shardFactory took end() and before it asked for the size to drop.
LostOnlyInWindow ==
    ~torn => \A t \in 1..arrived : t \in ToSet(pool) \cup Sharded \cup late

\* Every shard put on the list pays for exactly one insertion into a block (the
\* genesis block's is extra): a shard that is inserted twice takes the place of
\* one that is never inserted.
InclusionsBalanced ==
    Len(emplaced) + (IF onGenesis THEN 1 ELSE 0) + (IF bpc = "pop" THEN 1 ELSE 0)
        = Len(shardList) + Len(included)

\* Every accepted transaction eventually leaves the pool, unless undefined
\* behaviour ends the process first.
PoolDrains == \A t \in Tx : t \in ToSet(pool) ~> (t \notin ToSet(pool) \/ ~alive)

-----------------------------------------------------------------------------
(* What the documentation says and the code does not keep *)

\* RPC_REQUESTS.md: the transactions of the pool "should be inserted into
\* blocks".  So one that left the pool is at least in a shard.
AcceptedNotLost == ~torn => \A t \in 1..arrived : t \in ToSet(pool) \cup Sharded
=============================================================================
