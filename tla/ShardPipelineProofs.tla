------------------------- MODULE ShardPipelineProofs -------------------------
(***************************************************************************)
(* The pipeline from the pool to the blocks, for any number of accepted    *)
(* transactions and any outcome of a copy that a reallocation hit.         *)
(*                                                                         *)
(* The pool always holds the last transactions that arrived, without a     *)
(* gap.  Everything else is said relative to the number of those that the  *)
(* factory has erased.                                                     *)
(***************************************************************************)
EXTENDS ShardPipeline, SequenceTheorems, TLAPS

\* How many transactions dropTransactions has erased.
Dropped == arrived - Len(pool)

\* The pool is the tail of the transactions in the order of their arrival.
PoolInv ==
    /\ Len(pool) <= arrived
    /\ \A i \in 1..Len(pool) : pool[i] = Dropped + i

\* Where the factory is in its round.  Only the factory erases, so the range
\* it took and the size it read stay within the pool until it erases.
RoundInv ==
    /\ gen >= 1
    /\ fpc = "poll" => first = NoIter /\ last = NoIter /\ copy = << >>
    /\ fpc # "poll" => last.pos <= Len(pool)
    /\ fpc = "iterators" => Len(copy) <= last.pos
    /\ fpc = "drop" => last.pos <= dropTo /\ dropTo <= Len(pool)

BaseInv == TypeOK /\ PoolInv /\ RoundInv

\* Without a reallocation the copy is a prefix of the pool, and in the end the
\* prefix up to end().
CopyInv ==
    ~torn =>
        /\ Len(copy) <= last.pos
        /\ \A i \in 1..Len(copy) : copy[i] = Dropped + i
        /\ fpc \in {"emplace", "size", "drop"} => Len(copy) = last.pos

\* The transactions the factory has dealt with: erased, or copied into the
\* shard that it put on the list in this round.
Cleared == IF fpc \in {"size", "drop"} THEN Dropped + last.pos ELSE Dropped

\* A shard holds transactions the factory has dealt with, and no other.
ShardInv ==
    ~torn =>
        /\ \A i \in DOMAIN emplaced : \A p \in DOMAIN emplaced[i] :
               emplaced[i][p] \in 1..Cleared
        /\ ShardsInArrivalOrder

\* How much of the pool this round would erase now.
Skipped == IF fpc = "drop" THEN dropTo ELSE Len(pool)

\* What the factory has dealt with is in a shard or came late, and what this
\* round would erase without having copied it came late.
LostInv ==
    ~torn =>
        /\ \A t \in 1..Cleared : t \in Sharded \cup late
        /\ InWindow \/ fpc = "drop" =>
               \A i \in (last.pos + 1)..Skipped : Dropped + i \in late

\* The block thread pops only a list that it has found non-empty, and a genesis
\* block is built before every other.
ListInv ==
    /\ InclusionsBalanced
    /\ bpc = "pop" => shardList # << >>
    /\ bpc = "boot" => ~onGenesis

-----------------------------------------------------------------------------
(* Sequences *)

\* What Append does to the elements of a sequence.
LEMMA AppendElements ==
    ASSUME NEW S, NEW s \in Seq(S), NEW e \in S
    PROVE  /\ Append(s, e) \in Seq(S)
           /\ Len(s) \in Nat
           /\ DOMAIN s = 1..Len(s)
           /\ Len(Append(s, e)) = Len(s) + 1
           /\ DOMAIN Append(s, e) = 1..(Len(s) + 1)
           /\ \A i \in 1..Len(s) : Append(s, e)[i] = s[i]
           /\ Append(s, e)[Len(s) + 1] = e
<1> QED BY AppendProperties, LenProperties

\* What erase leaves of the pool: the elements from position n + 1 on.
LEMMA RestElements ==
    ASSUME NEW S, NEW s \in Seq(S), NEW n \in 0..Len(s)
    PROVE  /\ SubSeq(s, n + 1, Len(s)) \in Seq(S)
           /\ Len(SubSeq(s, n + 1, Len(s))) = Len(s) - n
           /\ \A i \in 1..(Len(s) - n) : SubSeq(s, n + 1, Len(s))[i] = s[n + i]
<1>1. Len(s) \in Nat /\ DOMAIN s = 1..Len(s)
  BY LenProperties
<1>2. SubSeq(s, n + 1, Len(s)) = [i \in 1..(Len(s) - n) |-> s[n + i]]
  <2>1. SubSeq(s, n + 1, Len(s)) = [i \in 1..(1 + Len(s) - (n + 1)) |-> s[i + (n + 1) - 1]]
    BY <1>1
  <2> QED BY <1>1, <2>1
<1>3. ASSUME NEW i \in 1..(Len(s) - n) PROVE s[n + i] \in S
  BY <1>1, ElementOfSeq
<1>4. /\ Len(s) - n \in Nat
      /\ [i \in 1..(Len(s) - n) |-> s[n + i]] \in [1..(Len(s) - n) -> S]
  BY <1>1, <1>3
<1> QED BY <1>2, <1>4

\* What pop_back leaves of the shard list.
LEMMA FrontLength ==
    ASSUME NEW S, NEW s \in Seq(S), s # << >>
    PROVE  /\ Len(s) \in Nat \ {0}
           /\ Len(SubSeq(s, 1, Len(s) - 1)) = Len(s) - 1
<1>1. Len(s) \in Nat /\ Len(s) # 0
  BY LenProperties, EmptySeq
<1>2. SubSeq(s, 1, Len(s) - 1) = [i \in 1..(Len(s) - 1) |-> s[i]]
  BY <1>1
<1>3. ASSUME NEW i \in 1..(Len(s) - 1) PROVE s[i] \in S
  BY <1>1, ElementOfSeq
<1>4. /\ Len(s) - 1 \in Nat
      /\ [i \in 1..(Len(s) - 1) |-> s[i]] \in [1..(Len(s) - 1) -> S]
  BY <1>1, <1>3
<1>5. Len([i \in 1..(Len(s) - 1) |-> s[i]]) = Len(s) - 1
  BY <1>4
<1> QED BY <1>1, <1>2, <1>5, Zenon

-----------------------------------------------------------------------------
(* The pool and the factory's round *)

\* The basic invariant holds at the start.
LEMMA BaseInit == ASSUME Init PROVE BaseInv
<1>1. << >> \in Seq(Tx) /\ << >> \in Shard /\ << >> \in Seq(Shard) /\ Len(<< >>) = 0
  BY EmptySeq DEF Shard
<1>2. TypeOK
  <2>1. 0 \in 0..MaxTx /\ NoIter \in Iter
    BY BoundsAreNatural DEF NoIter, Iter
  <2> QED BY <1>1, <2>1 DEF Init, TypeOK
<1>3. PoolInv
  BY <1>1 DEF Init, PoolInv
<1>4. RoundInv
  BY DEF Init, RoundInv
<1> QED BY <1>2, <1>3, <1>4 DEF BaseInv

\* A transaction that arrives is one more at the back of the pool.
LEMMA BaseEmplaceBack == ASSUME BaseInv, EmplaceBack PROVE BaseInv'
<1> USE BoundsAreNatural DEF BaseInv
<1>1. arrived + 1 \in Tx
  BY DEF EmplaceBack, TypeOK, Tx
<1>2. /\ pool' \in Seq(Tx)
      /\ Len(pool) \in Nat
      /\ Len(pool') = Len(pool) + 1
      /\ \A i \in 1..Len(pool) : pool'[i] = pool[i]
      /\ pool'[Len(pool) + 1] = arrived + 1
  BY <1>1, AppendElements DEF EmplaceBack, TypeOK
<1>3. cap' \in Nat /\ gen' \in Nat /\ gen' >= 1
  BY DEF EmplaceBack, Grow, TypeOK, RoundInv
<1>4. TypeOK'
  BY <1>1, <1>2, <1>3 DEF EmplaceBack, TypeOK, factoryVars, blockVars
<1>5. PoolInv'
  <2>1. arrived \in Nat /\ arrived' = arrived + 1 /\ Dropped' = Dropped
    BY <1>2 DEF EmplaceBack, TypeOK, Dropped
  <2>2. ASSUME NEW i \in 1..Len(pool') PROVE pool'[i] = Dropped' + i
    <3>1. CASE i \in 1..Len(pool)
      BY <3>1, <1>2, <2>1 DEF PoolInv
    <3>2. CASE i = Len(pool) + 1
      BY <3>2, <1>2, <2>1 DEF Dropped
    <3> QED BY <3>1, <3>2, <1>2
  <2>3. Len(pool') <= arrived'
    BY <1>2, <2>1 DEF PoolInv
  <2> QED BY <2>2, <2>3 DEF PoolInv
<1>6. RoundInv'
  BY <1>2, <1>3 DEF EmplaceBack, TypeOK, RoundInv, factoryVars, Iter
<1> QED BY <1>4, <1>5, <1>6

\* The factory's steps that leave the pool alone.
LEMMA BaseFactory ==
    ASSUME BaseInv, Factory, ~DropTransactions
    PROVE  BaseInv'
<1> USE BoundsAreNatural DEF BaseInv
<1>a. Len(pool) \in Nat /\ Len(copy) \in Nat /\ last.pos \in 0..MaxTx
  BY LenProperties DEF TypeOK, Shard, Iter
<1>b. Len(pool) \in 0..MaxTx
  BY <1>a DEF TypeOK, PoolInv
<1>1. CASE PollEmpty
  BY <1>1 DEF PollEmpty, TypeOK, PoolInv, RoundInv, Dropped, vars, poolVars,
     factoryVars, blockVars
<1>2. CASE PollPool
  BY <1>2, <1>a, EmptySeq DEF PollPool, BeginRound, TypeOK, PoolInv, RoundInv, Dropped,
     poolVars, blockVars, NoIter
<1>3. CASE TakeBegin
  BY <1>3, <1>a DEF TakeBegin, TypeOK, PoolInv, RoundInv, Dropped, poolVars,
     blockVars, NoIter, Iter
<1>4. CASE TakeEnd
  BY <1>4, <1>a, <1>b DEF TakeEnd, TypeOK, PoolInv, RoundInv, Dropped, poolVars,
     blockVars, NoIter, Iter
<1>5. ASSUME Assigning, More
      PROVE  pool[Len(copy) + 1] \in Tx
  BY <1>5, <1>a, ElementOfSeq DEF Assigning, More, TypeOK, RoundInv
<1>6. ASSUME Assigning, More, NEW e \in {Garbage} \cup Tx, copy' = Append(copy, e)
      PROVE  copy' \in Shard /\ Len(copy') <= last.pos
  <2>1. copy' \in Shard /\ Len(copy') = Len(copy) + 1
    BY <1>6, AppendElements DEF TypeOK, Shard
  <2> QED BY <2>1, <1>6, <1>a DEF More
<1>7. CASE AssignElement
  <2>1. copy' \in Shard /\ Len(copy') <= last.pos
    BY <1>5, <1>6, <1>7 DEF AssignElement
  <2> QED
    BY <2>1, <1>7 DEF AssignElement, Assigning, TypeOK, PoolInv, RoundInv, Dropped,
       poolVars, blockVars
<1>8. CASE AssignStale
  <2>1. copy' \in Shard /\ Len(copy') <= last.pos
    <3>1. CASE copy' = copy
      BY <3>1, <1>8, <1>a DEF AssignStale, Assigning, TypeOK, RoundInv
    <3>2. CASE \E e \in {Garbage, pool[Len(copy) + 1]} : copy' = Append(copy, e)
      <4>1. PICK e \in {Garbage, pool[Len(copy) + 1]} : copy' = Append(copy, e)
        BY <3>2
      <4>2. e \in {Garbage} \cup Tx
        BY <1>5, <1>8 DEF AssignStale
      <4> QED BY <4>1, <4>2, <1>6, <1>8 DEF AssignStale
    <3> QED BY <3>1, <3>2, <1>8 DEF AssignStale
  <2>2. alive' \in BOOLEAN /\ torn' \in BOOLEAN
    BY <1>8 DEF AssignStale, TypeOK
  <2> QED
    BY <2>1, <2>2, <1>8 DEF AssignStale, Assigning, TypeOK, PoolInv, RoundInv, Dropped,
       poolVars, blockVars
<1>9. CASE AssignTorn
  <2>1. copy' \in Shard
    <3>1. CASE copy' = copy
      BY <3>1 DEF TypeOK
    <3>2. CASE \E n \in 1..MaxTorn : \E s \in [1..n -> {Garbage} \cup ToSet(pool)] :
                   copy' = s
      <4>1. PICK n \in 1..MaxTorn : \E s \in [1..n -> {Garbage} \cup ToSet(pool)] :
                copy' = s
        BY <3>2
      <4>2. ToSet(pool) \subseteq Tx
        BY <1>a, LenProperties, ElementOfSeq DEF ToSet, TypeOK
      <4>3. copy' \in [1..n -> {Garbage} \cup Tx]
        BY <4>1, <4>2
      <4> QED BY <4>1, <4>3 DEF Shard
    <3> QED BY <3>1, <3>2, <1>9 DEF AssignTorn
  <2>2. alive' \in BOOLEAN /\ torn' \in BOOLEAN
    BY <1>9 DEF AssignTorn, TypeOK
  <2>3. \/ fpc' = "emplace"
        \/ fpc' = fpc /\ copy' = copy
    BY <1>9 DEF AssignTorn
  <2> QED
    BY <2>1, <2>2, <2>3, <1>9 DEF AssignTorn, Assigning, TypeOK, PoolInv, RoundInv,
       Dropped, poolVars, blockVars
<1>10. CASE AssignDone
  BY <1>10 DEF AssignDone, Assigning, TypeOK, PoolInv, RoundInv, Dropped,
     poolVars, blockVars
<1>11. CASE InsertShard
  <2>1. shardList' \in Seq(Shard) /\ emplaced' \in Seq(Shard)
    BY <1>11, AppendElements DEF InsertShard, TypeOK
  <2> QED
    BY <2>1, <1>11 DEF InsertShard, TypeOK, PoolInv, RoundInv, Dropped,
       poolVars, blockVars
<1>12. CASE ReadPoolSize
  BY <1>12, <1>a, <1>b DEF ReadPoolSize, TypeOK, PoolInv, RoundInv, Dropped,
     poolVars, blockVars
<1> QED
  BY <1>1, <1>2, <1>3, <1>4, <1>7, <1>8, <1>9, <1>10, <1>11, <1>12 DEF Factory

\* What dropTransactions erases and what it leaves.
LEMMA DropEffect ==
    ASSUME BaseInv, DropTransactions
    PROVE  /\ dropTo \in Nat /\ Len(pool) \in Nat /\ dropTo <= Len(pool)
           /\ pool' \in Seq(Tx)
           /\ Len(pool') = Len(pool) - dropTo
           /\ \A i \in 1..Len(pool') : pool'[i] = pool[dropTo + i]
           /\ Dropped' = Dropped + dropTo
<1>1. Len(pool) \in Nat /\ dropTo \in 0..Len(pool)
  BY LenProperties DEF BaseInv, TypeOK, RoundInv, DropTransactions
<1>2. pool \in Seq(Tx) /\ arrived \in Nat /\ arrived' = arrived
  BY DEF BaseInv, TypeOK, DropTransactions
<1>3. pool' = SubSeq(pool, dropTo + 1, Len(pool))
  BY DEF DropTransactions
<1>4. /\ pool' \in Seq(Tx)
      /\ Len(pool') = Len(pool) - dropTo
      /\ \A i \in 1..(Len(pool) - dropTo) : pool'[i] = pool[dropTo + i]
  BY <1>1, <1>2, <1>3, RestElements
<1>5. Dropped' = Dropped + dropTo
  BY <1>1, <1>2, <1>4 DEF Dropped
<1> QED BY <1>1, <1>4, <1>5

\* dropTransactions keeps the basic invariant: it removes no more than the pool has.
LEMMA BaseDrop == ASSUME BaseInv, DropTransactions PROVE BaseInv'
<1> USE BoundsAreNatural DEF BaseInv
<1>1. TypeOK'
  BY DropEffect, EmptySeq DEF DropTransactions, TypeOK, NoIter, Iter, blockVars, Shard
<1>2. PoolInv'
  <2>1. arrived' = arrived /\ arrived \in Nat
    BY DEF DropTransactions, TypeOK
  <2>2. Len(pool') <= arrived
    BY <2>1, DropEffect DEF PoolInv
  <2>3. ASSUME NEW i \in 1..Len(pool') PROVE pool'[i] = Dropped' + i
    <3>1. Dropped \in Int
      BY <2>1, DropEffect DEF Dropped
    <3>2. dropTo + i \in 1..Len(pool)
      BY DropEffect
    <3>3. pool[dropTo + i] = Dropped + (dropTo + i)
      BY <3>2 DEF PoolInv
    <3> QED BY <3>1, <3>3, DropEffect
  <2> QED BY <2>1, <2>2, <2>3 DEF PoolInv
<1>3. RoundInv'
  BY DEF DropTransactions, RoundInv
<1> QED BY <1>1, <1>2, <1>3

\* The block thread and the end of the process touch neither.
LEMMA BaseBlockThread == ASSUME BaseInv, BlockThread PROVE BaseInv'
<1> USE DEF BaseInv, poolVars, factoryVars
<1>1. UNCHANGED <<poolVars, factoryVars, alive, emplaced, late, torn>>
  BY DEF BlockThread, BootGenesis, BootResume, TakeFront, PopBack
<1>2. PoolInv' /\ RoundInv'
  BY <1>1 DEF PoolInv, RoundInv, Dropped
<1>3. shardList # << >> => Head(shardList) \in Shard
  BY HeadTailProperties DEF TypeOK
<1>4. shardList' \in Seq(Shard)
  <2>1. Len(shardList) \in Nat
    BY LenProperties DEF TypeOK
  <2>2. SubSeq(shardList, 1, Len(shardList) - 1) \in Seq(Shard)
    BY <2>1, ElementOfSeq DEF TypeOK
  <2> QED
    BY <2>2 DEF BlockThread, BootGenesis, BootResume, TakeFront, PopBack, TypeOK
<1>5. included' \in Seq(Shard)
  <2>1. Waiting => Append(included, Head(shardList)) \in Seq(Shard)
    BY <1>3, AppendElements DEF TypeOK, Waiting
  <2> QED
    BY <2>1
    DEF BlockThread, BootGenesis, BootResume, TakeFront, PopBack, TypeOK
<1>6. bpc' \in {"boot", "front", "pop"} /\ onGenesis' \in BOOLEAN
  BY DEF BlockThread, BootGenesis, BootResume, TakeFront, PopBack, TypeOK, Waiting
<1>7. TypeOK'
  BY <1>1, <1>4, <1>5, <1>6 DEF TypeOK
<1> QED BY <1>2, <1>7

\* Every step keeps the basic invariant.
LEMMA BaseStep == ASSUME BaseInv, [Next]_vars PROVE BaseInv'
<1>1. CASE UNCHANGED vars
  BY <1>1 DEF BaseInv, TypeOK, PoolInv, RoundInv, Dropped, vars, poolVars,
     factoryVars, blockVars
<1>2. CASE Next
  BY <1>1, <1>2, BaseEmplaceBack, BaseFactory, BaseDrop, BaseBlockThread
  DEF Next, Terminated
<1> QED BY <1>1, <1>2

\* Every step leaves the numbers the other invariants use in place: only an
\* arrival lengthens the pool and only dropTransactions shortens it.
LEMMA Numbers ==
    ASSUME BaseInv
    PROVE  /\ arrived \in Nat /\ Len(pool) \in Nat /\ Dropped \in Nat
           /\ Len(copy) \in Nat /\ last.pos \in Nat /\ dropTo \in Nat
           /\ DOMAIN copy = 1..Len(copy)
           /\ Dropped + Len(pool) = arrived
           /\ Cleared \in Nat /\ Cleared <= arrived
<1>1. /\ arrived \in Nat /\ Len(pool) \in Nat /\ Len(copy) \in Nat
      /\ last.pos \in Nat /\ dropTo \in Nat /\ DOMAIN copy = 1..Len(copy)
  BY BoundsAreNatural, LenProperties DEF BaseInv, TypeOK, Shard, Iter
<1>2. Dropped \in Nat /\ Dropped + Len(pool) = arrived
  BY <1>1 DEF BaseInv, PoolInv, Dropped
<1>3. Cleared \in Nat /\ Cleared <= arrived
  BY <1>1, <1>2 DEF Cleared, BaseInv, RoundInv
<1> QED BY <1>1, <1>2, <1>3

\* What the factory has dealt with has arrived.
ClearedArrived == Cleared \in Nat /\ arrived \in Nat /\ Cleared <= arrived

\* The factory deals with nothing that has not arrived.
LEMMA ClearedHasArrived == BaseInv => ClearedArrived
<1> QED BY Numbers DEF ClearedArrived

\* An arrival makes the pool longer and nothing else.
LEMMA EmplaceBackNumbers ==
    ASSUME BaseInv, EmplaceBack
    PROVE  /\ Len(pool') = Len(pool) + 1
           /\ Dropped' = Dropped
           /\ Cleared' = Cleared
<1>1. arrived + 1 \in Tx
  BY BoundsAreNatural DEF BaseInv, EmplaceBack, TypeOK, Tx
<1>2. Len(pool') = Len(pool) + 1 /\ arrived' = arrived + 1
  BY <1>1, AppendElements DEF BaseInv, EmplaceBack, TypeOK
<1>3. Dropped' = Dropped
  BY <1>2, Numbers DEF Dropped
<1> QED BY <1>2, <1>3 DEF EmplaceBack, Cleared, factoryVars

-----------------------------------------------------------------------------
(* The copy *)

\* Every step keeps the copy the first transactions of the pool, in order.
LEMMA CopyStep ==
    ASSUME BaseInv, CopyInv, [Next]_vars
    PROVE  CopyInv'
<1> SUFFICES ASSUME ~torn'
             PROVE  /\ Len(copy') <= last.pos'
                    /\ \A i \in 1..Len(copy') : copy'[i] = Dropped' + i
                    /\ fpc' \in {"emplace", "size", "drop"} => Len(copy') = last.pos'
  BY DEF CopyInv
<1>1. CASE UNCHANGED <<poolVars, factoryVars, torn>>
  BY <1>1 DEF CopyInv, Dropped, poolVars, factoryVars
<1>2. CASE EmplaceBack
  BY <1>2, EmplaceBackNumbers DEF EmplaceBack, factoryVars, CopyInv
<1>3. CASE PollPool
  BY <1>3 DEF PollPool, BeginRound, poolVars, CopyInv, Dropped
<1>4. CASE TakeBegin
  BY <1>4 DEF TakeBegin, poolVars, CopyInv, Dropped
<1>5. CASE TakeEnd
  BY <1>5, Numbers DEF TakeEnd, poolVars, CopyInv, Dropped, NoIter, BaseInv, RoundInv
<1>6. CASE AssignElement
  <2>1. ~torn /\ UNCHANGED <<fpc, last>> /\ fpc = "iterators" /\ Dropped' = Dropped
    BY <1>6 DEF AssignElement, Assigning, poolVars, Dropped
  <2>2. Len(copy) + 1 <= last.pos /\ last.pos <= Len(pool)
    BY <1>6, <2>1, Numbers DEF AssignElement, More, BaseInv, RoundInv
  <2>3. pool[Len(copy) + 1] = Dropped + (Len(copy) + 1)
    BY <2>2, Numbers DEF BaseInv, PoolInv
  <2>4. pool[Len(copy) + 1] \in {Garbage} \cup Tx
    BY <2>2, Numbers, ElementOfSeq DEF BaseInv, TypeOK
  <2>5. /\ Len(copy') = Len(copy) + 1
        /\ \A i \in 1..Len(copy) : copy'[i] = copy[i]
        /\ copy'[Len(copy) + 1] = Dropped + (Len(copy) + 1)
    BY <1>6, <2>3, <2>4, AppendElements DEF AssignElement, BaseInv, TypeOK, Shard
  <2>6. ASSUME NEW i \in 1..Len(copy') PROVE copy'[i] = Dropped + i
    <3>1. i \in 1..Len(copy) \/ i = Len(copy) + 1
      BY <2>5, Numbers
    <3> QED BY <3>1, <2>1, <2>5 DEF CopyInv
  <2> QED BY <2>1, <2>2, <2>5, <2>6
<1>7. CASE AssignDone
  <2>1. fpc = "iterators" /\ Len(copy) = last.pos
    BY <1>7, Numbers DEF AssignDone, Assigning, More, BaseInv, RoundInv
  <2> QED BY <1>7, <2>1 DEF AssignDone, poolVars, CopyInv, Dropped
<1>8. CASE InsertShard
  BY <1>8 DEF InsertShard, poolVars, CopyInv, Dropped
<1>9. CASE ReadPoolSize
  BY <1>9 DEF ReadPoolSize, poolVars, CopyInv, Dropped
<1>10. CASE DropTransactions
  <2>1. Len(copy') = 0 /\ last'.pos = 0 /\ fpc' = "poll"
    BY <1>10, EmptySeq DEF DropTransactions, NoIter
  <2> QED BY <2>1
<1>11. CASE AssignStale \/ AssignTorn
  BY <1>11 DEF AssignStale, AssignTorn
<1>12. CASE BlockThread
  BY <1>12, <1>1 DEF BlockThread, BootGenesis, BootResume, TakeFront, PopBack
<1>13. CASE PollEmpty \/ Terminated \/ UNCHANGED vars
  BY <1>13, <1>1 DEF PollEmpty, Terminated, vars
<1> QED
  BY <1>2, <1>3, <1>4, <1>5, <1>6, <1>7, <1>8, <1>9, <1>10, <1>11, <1>12, <1>13
  DEF Next, Factory

-----------------------------------------------------------------------------
(* The shards *)

\* What the steps that put no shard on the list do: what the factory has dealt
\* with grows, the shards stay.
LEMMA ClearedGrows ==
    ASSUME BaseInv, [Next]_vars, ~InsertShard
    PROVE  /\ emplaced' = emplaced
           /\ Cleared' >= Cleared
           /\ arrived' >= arrived
<1>1. CASE EmplaceBack
  BY <1>1, EmplaceBackNumbers, Numbers DEF EmplaceBack
<1>2. CASE DropTransactions
  <2>1. Dropped' = Dropped + dropTo /\ last.pos <= dropTo /\ fpc = "drop"
    BY <1>2, DropEffect DEF DropTransactions, BaseInv, RoundInv
  <2> QED BY <1>2, <2>1, Numbers DEF DropTransactions, Cleared
<1>3. CASE Factory /\ ~DropTransactions
  <2>1. /\ UNCHANGED <<arrived, pool, emplaced>>
        /\ fpc' \notin {"size", "drop"} <=> fpc \notin {"size", "drop"}
        /\ fpc \in {"size", "drop"} => last' = last
    BY <1>3 DEF Factory, PollEmpty, PollPool, BeginRound, TakeBegin, TakeEnd,
       AssignElement, AssignStale, AssignTorn, AssignDone, Assigning, ReadPoolSize,
       vars, poolVars, factoryVars
  <2> QED BY <2>1, Numbers DEF Cleared, Dropped
<1>4. CASE BlockThread \/ Terminated \/ UNCHANGED vars
  <2>1. UNCHANGED <<poolVars, factoryVars, emplaced>>
    BY <1>4 DEF BlockThread, BootGenesis, BootResume, TakeFront, PopBack, Terminated, vars
  <2> QED BY <2>1, Numbers DEF Cleared, Dropped, poolVars, factoryVars
<1> QED BY <1>1, <1>2, <1>3, <1>4 DEF Next

\* A reallocation is never forgotten.
LEMMA TornStays == ASSUME [Next]_vars, ~torn' PROVE ~torn
<1> QED
  BY DEF Next, EmplaceBack, Factory, PollEmpty, PollPool, BeginRound, TakeBegin,
     TakeEnd, AssignElement, AssignStale, AssignTorn, AssignDone, InsertShard,
     ReadPoolSize, DropTransactions, BlockThread, BootGenesis, BootResume,
     TakeFront, PopBack, Terminated, vars

\* What InsertShard adds: the transactions next in line, and they are cleared.
LEMMA InsertEffect ==
    ASSUME BaseInv, CopyInv, InsertShard, ~torn
    PROVE  /\ Len(emplaced) \in Nat
           /\ DOMAIN emplaced = 1..Len(emplaced)
           /\ DOMAIN emplaced' = 1..(Len(emplaced) + 1)
           /\ \A i \in DOMAIN emplaced : emplaced'[i] = emplaced[i]
           /\ emplaced'[Len(emplaced) + 1] = copy
           /\ Cleared = Dropped
           /\ Cleared' = Dropped + Len(copy)
           /\ \A p \in DOMAIN copy : copy[p] = Dropped + p
<1>1. /\ emplaced \in Seq(Shard) /\ copy \in Shard
      /\ emplaced' = Append(emplaced, copy)
  BY DEF InsertShard, BaseInv, TypeOK
<1>2. /\ Len(emplaced) \in Nat
      /\ DOMAIN emplaced = 1..Len(emplaced)
      /\ DOMAIN emplaced' = 1..(Len(emplaced) + 1)
      /\ \A i \in DOMAIN emplaced : emplaced'[i] = emplaced[i]
      /\ emplaced'[Len(emplaced) + 1] = copy
  BY <1>1, AppendElements
<1>3. Cleared = Dropped /\ Cleared' = Dropped + Len(copy)
  BY DEF InsertShard, CopyInv, Cleared, Dropped, poolVars
<1>4. \A p \in DOMAIN copy : copy[p] = Dropped + p
  BY Numbers DEF CopyInv
<1> QED BY <1>2, <1>3, <1>4

\* Every step keeps the shards in the order of arrival.
LEMMA ShardStep ==
    ASSUME BaseInv, CopyInv, ShardInv, [Next]_vars
    PROVE  ShardInv'
<1> SUFFICES ASSUME ~torn' PROVE ShardInv'
  BY DEF ShardInv
<1>t. ~torn
  BY TornStays
<1>n. BaseInv'
  BY BaseStep
<1>c. Cleared' \in Nat /\ arrived' \in Nat /\ Cleared' <= arrived'
  <2>1. ClearedArrived'
    BY <1>n, ClearedHasArrived, PTL
  <2> QED BY <2>1 DEF ClearedArrived
<1>1. CASE InsertShard
  <2> DEFINE k == Len(emplaced) + 1
  <2>1. ASSUME NEW i \in DOMAIN emplaced', NEW p \in DOMAIN emplaced'[i]
        PROVE  /\ i \in DOMAIN emplaced =>
                       /\ p \in DOMAIN emplaced[i]
                       /\ emplaced'[i][p] = emplaced[i][p]
                       /\ emplaced'[i][p] \in 1..Dropped
               /\ i \notin DOMAIN emplaced =>
                       /\ i = k
                       /\ p \in 1..Len(copy)
                       /\ emplaced'[i][p] = Dropped + p
    <3>1. CASE i \in DOMAIN emplaced
      BY <3>1, <1>1, <1>t, InsertEffect DEF ShardInv
    <3>2. CASE i \notin DOMAIN emplaced
      <4>1. i = k
        BY <3>2, <1>1, <1>t, InsertEffect
      <4> QED BY <3>2, <4>1, <1>1, <1>t, InsertEffect, Numbers
    <3> QED BY <3>1, <3>2
  <2>2. ASSUME NEW i \in DOMAIN emplaced', NEW p \in DOMAIN emplaced'[i]
        PROVE  emplaced'[i][p] \in 1..Cleared'
    BY <2>1, <1>1, <1>t, InsertEffect, Numbers
  <2>3. ASSUME NEW i \in DOMAIN emplaced', NEW j \in DOMAIN emplaced',
               NEW p \in DOMAIN emplaced'[i], NEW q \in DOMAIN emplaced'[j],
               i < j \/ (i = j /\ p < q)
        PROVE  emplaced'[i][p] < emplaced'[j][q]
    <3>1. /\ DOMAIN emplaced = 1..Len(emplaced) /\ Len(emplaced) \in Nat
          /\ DOMAIN emplaced' = 1..k
          /\ Dropped \in Nat /\ Len(copy) \in Nat
      BY <1>1, <1>t, InsertEffect, Numbers
    <3>2. CASE j \in DOMAIN emplaced
      <4>1. i \in DOMAIN emplaced
        BY <3>1, <3>2, <2>3
      <4>2. /\ p \in DOMAIN emplaced[i] /\ emplaced'[i][p] = emplaced[i][p]
            /\ q \in DOMAIN emplaced[j] /\ emplaced'[j][q] = emplaced[j][q]
        BY <4>1, <3>2, <2>1
      <4> QED
        BY <3>2, <4>1, <4>2, <2>3, <1>t DEF ShardInv, ShardsInArrivalOrder
    <3>3. CASE j \notin DOMAIN emplaced
      <4>1. j = k /\ q \in 1..Len(copy) /\ emplaced'[j][q] = Dropped + q
        BY <3>3, <2>1
      <4>2. CASE i \in DOMAIN emplaced
        <5>1. emplaced'[i][p] \in 1..Dropped
          BY <4>2, <2>1
        <5> QED BY <5>1, <4>1, <3>1
      <4>3. CASE i \notin DOMAIN emplaced
        <5>1. i = k /\ p \in 1..Len(copy) /\ emplaced'[i][p] = Dropped + p
          BY <4>3, <2>1
        <5>2. p < q
          BY <5>1, <4>1, <3>1, <2>3
        <5> QED BY <5>1, <5>2, <4>1, <3>1
      <4> QED BY <4>2, <4>3
    <3> QED BY <3>2, <3>3
  <2>4. ASSUME NEW i \in DOMAIN emplaced', NEW p \in DOMAIN emplaced'[i]
        PROVE  emplaced'[i][p] \in 1..arrived'
    BY <2>2, <1>c
  <2> HIDE DEF k
  <2>5. ShardsInArrivalOrder'
    BY <2>3, <2>4 DEF ShardsInArrivalOrder
  <2> QED BY <2>2, <2>5 DEF ShardInv
<1>2. CASE ~InsertShard
  <2>1. emplaced' = emplaced /\ Cleared' >= Cleared /\ arrived' >= arrived
    BY <1>2, ClearedGrows
  <2>2. ASSUME NEW i \in DOMAIN emplaced', NEW p \in DOMAIN emplaced'[i]
        PROVE  emplaced'[i][p] \in 1..Cleared'
    BY <2>1, <1>t, <1>c, Numbers DEF ShardInv
  <2>3. ASSUME NEW i \in DOMAIN emplaced', NEW p \in DOMAIN emplaced'[i]
        PROVE  emplaced'[i][p] \in 1..arrived'
    BY <2>2, <1>c
  <2>4. ShardsInArrivalOrder'
    BY <2>1, <2>3, <1>t DEF ShardInv, ShardsInArrivalOrder
  <2> QED BY <2>2, <2>4 DEF ShardInv
<1> QED BY <1>1, <1>2

-----------------------------------------------------------------------------
(* The lost transactions *)

\* A transaction is sharded when it is an element of some shard.
LEMMA ShardedElements ==
    ASSUME NEW t
    PROVE  t \in Sharded <=>
               \E i \in DOMAIN emplaced : \E p \in DOMAIN emplaced[i] : t = emplaced[i][p]
<1> QED BY DEF Sharded, ToSet

\* No step takes a transaction out of the shards or of the late ones, and
\* InsertShard adds the copy.
LEMMA ShardedGrows ==
    ASSUME BaseInv, CopyInv, [Next]_vars, ~torn
    PROVE  /\ Sharded \subseteq Sharded'
           /\ late \subseteq late'
           /\ InsertShard => \A p \in 1..Len(copy) : Dropped + p \in Sharded'
<1>1. late \subseteq late'
  BY DEF Next, EmplaceBack, Factory, PollEmpty, PollPool, BeginRound, TakeBegin,
     TakeEnd, AssignElement, AssignStale, AssignTorn, AssignDone, InsertShard,
     ReadPoolSize, DropTransactions, BlockThread, BootGenesis, BootResume,
     TakeFront, PopBack, Terminated, vars
<1>2. CASE ~InsertShard
  BY <1>1, <1>2, ClearedGrows DEF Sharded
<1>3. CASE InsertShard
  <2>1. ASSUME NEW t \in Sharded PROVE t \in Sharded'
    <3>1. PICK i \in DOMAIN emplaced : \E p \in DOMAIN emplaced[i] : t = emplaced[i][p]
      BY <2>1, ShardedElements
    <3>2. i \in DOMAIN emplaced' /\ emplaced'[i] = emplaced[i]
      BY <1>3, InsertEffect
    <3> QED BY <3>1, <3>2 DEF Sharded, ToSet
  <2>2. ASSUME NEW p \in 1..Len(copy) PROVE Dropped + p \in Sharded'
    <3> DEFINE k == Len(emplaced) + 1
    <3>1. k \in DOMAIN emplaced' /\ emplaced'[k] = copy
      BY <1>3, InsertEffect
    <3>2. p \in DOMAIN copy /\ copy[p] = Dropped + p
      BY <1>3, InsertEffect, Numbers
    <3> HIDE DEF k
    <3> QED BY <3>1, <3>2 DEF Sharded, ToSet
  <2> QED BY <2>1, <2>2, <1>1
<1> QED BY <1>2, <1>3

\* Every step keeps what was dropped in a shard or in the window.
LEMMA LostStep ==
    ASSUME BaseInv, CopyInv, LostInv, [Next]_vars
    PROVE  LostInv'
<1> SUFFICES ASSUME ~torn' PROVE LostInv'
  BY DEF LostInv
<1>t. ~torn
  BY TornStays
<1> DEFINE Gone == \A t \in 1..Cleared : t \in Sharded \cup late
           Covered == InWindow \/ fpc = "drop" =>
                          \A i \in (last.pos + 1)..Skipped : Dropped + i \in late
<1>a. Gone /\ Covered
  BY <1>t DEF LostInv
<1>b. Sharded \subseteq Sharded' /\ late \subseteq late'
  BY <1>t, ShardedGrows
<1>q. ASSUME Gone', Covered' PROVE LostInv'
  BY <1>q DEF LostInv
<1>1. ASSUME Cleared' = Cleared, Covered' PROVE LostInv'
  BY <1>1, <1>a, <1>b, <1>q
<1>2. ASSUME UNCHANGED <<poolVars, fpc, last, dropTo>> PROVE LostInv'
  <2>1. Cleared' = Cleared
    BY <1>2 DEF Cleared, Dropped, poolVars
  <2>2. Covered'
    BY <1>2, <1>a, <1>b DEF InWindow, Skipped, Dropped, poolVars
  <2> QED BY <2>1, <2>2, <1>1
<1>3. CASE EmplaceBack
  <2>1. /\ Len(pool') = Len(pool) + 1 /\ Dropped' = Dropped /\ Cleared' = Cleared
        /\ UNCHANGED <<fpc, last, dropTo>>
    BY <1>3, EmplaceBackNumbers DEF EmplaceBack, factoryVars
  <2>2. Covered'
    <3>1. CASE fpc = "drop"
      BY <3>1, <2>1, <1>a, <1>b DEF Skipped
    <3>2. CASE fpc # "drop" /\ InWindow
      <4>1. arrived + 1 \in late' /\ arrived + 1 = Dropped + Len(pool')
        BY <3>2, <1>3, <2>1, Numbers DEF EmplaceBack
      <4>2. ASSUME NEW i \in (last.pos + 1)..Len(pool') PROVE Dropped + i \in late'
        <5>1. i \in (last.pos + 1)..Len(pool) \/ i = Len(pool')
          BY <2>1, Numbers
        <5> QED BY <5>1, <4>1, <3>2, <1>a, <1>b DEF Skipped
      <4> QED BY <4>2, <3>2, <2>1 DEF Skipped
    <3>3. CASE fpc # "drop" /\ ~InWindow
      BY <3>3, <2>1 DEF InWindow
    <3> QED BY <3>1, <3>2, <3>3
  <2> QED BY <2>1, <2>2, <1>1
<1>4. CASE PollPool
  <2>1. Cleared' = Cleared
    BY <1>4 DEF PollPool, BeginRound, Cleared, Dropped, poolVars
  <2>2. ~InWindow' /\ fpc' # "drop"
    BY <1>4 DEF PollPool, BeginRound, InWindow, BaseInv, RoundInv
  <2> QED BY <2>1, <2>2, <1>1
<1>5. CASE TakeEnd
  <2>1. Cleared' = Cleared
    BY <1>5 DEF TakeEnd, Cleared, Dropped, poolVars
  <2>2. last'.pos = Len(pool) /\ Skipped' = Len(pool)
    BY <1>5 DEF TakeEnd, Skipped, poolVars
  <2> QED BY <2>1, <2>2, <1>1, Numbers
<1>6. CASE AssignDone
  <2>1. Cleared' = Cleared /\ InWindow /\ Skipped' = Skipped /\ Dropped' = Dropped
        /\ last' = last
    BY <1>6 DEF AssignDone, Assigning, InWindow, Skipped, Cleared, Dropped, poolVars
  <2> QED BY <2>1, <1>a, <1>b, <1>1
<1>7. CASE InsertShard
  <2>1. /\ Cleared' = Dropped + Len(copy) /\ Cleared = Dropped
        /\ \A p \in 1..Len(copy) : Dropped + p \in Sharded'
    BY <1>7, <1>t, InsertEffect, ShardedGrows
  <2>2. Gone'
    <3>1. ASSUME NEW t \in 1..Cleared' PROVE t \in Sharded' \cup late'
      <4>1. CASE t \in 1..Dropped
        BY <4>1, <2>1, <1>a, <1>b
      <4>2. CASE t > Dropped
        <5>1. t - Dropped \in 1..Len(copy) /\ Dropped + (t - Dropped) = t
          BY <4>2, <2>1, Numbers
        <5> QED BY <5>1, <2>1
      <4> QED BY <4>1, <4>2, <2>1, Numbers
    <3> QED BY <3>1
  <2>3. Covered'
    <3>1. InWindow /\ Skipped' = Skipped /\ Dropped' = Dropped /\ last' = last
      BY <1>7 DEF InsertShard, InWindow, Skipped, Dropped, poolVars
    <3> QED BY <3>1, <1>a, <1>b
  <2> QED BY <2>2, <2>3, <1>q
<1>8. CASE ReadPoolSize
  <2>1. /\ Cleared' = Cleared /\ InWindow /\ Skipped' = Skipped /\ Dropped' = Dropped
        /\ last' = last
    BY <1>8 DEF ReadPoolSize, InWindow, Skipped, Cleared, Dropped, poolVars
  <2> QED BY <2>1, <1>a, <1>b, <1>1
<1>9. CASE DropTransactions
  <2>1. /\ fpc = "drop" /\ fpc' = "poll" /\ Skipped = dropTo
        /\ Cleared = Dropped + last.pos /\ Cleared' = Dropped + dropTo
    BY <1>9, DropEffect DEF DropTransactions, Cleared, Skipped
  <2>2. Gone'
    <3>1. ASSUME NEW t \in 1..Cleared' PROVE t \in Sharded' \cup late'
      <4>1. CASE t \in 1..Cleared
        BY <4>1, <1>a, <1>b
      <4>2. CASE t \notin 1..Cleared
        <5>1. /\ t - Dropped \in (last.pos + 1)..dropTo
              /\ Dropped + (t - Dropped) = t
          <6>1. PICK c, d, l, e : c = Cleared /\ d = Dropped /\ l = last.pos /\ e = dropTo
            OBVIOUS
          <6>2. d \in Nat /\ l \in Nat /\ e \in Nat /\ c = d + l
            BY <6>1, <2>1, Numbers
          <6>3. t \in 1..(d + e) /\ t \notin 1..c
            BY <6>1, <2>1, <4>2
          <6> QED BY <6>1, <6>2, <6>3
        <5> QED BY <5>1, <2>1, <1>a, <1>b
      <4> QED BY <4>1, <4>2
    <3> QED BY <3>1
  <2>3. Covered'
    BY <2>1 DEF InWindow
  <2> QED BY <2>2, <2>3, <1>q
<1>10. CASE TakeBegin \/ AssignElement \/ BlockThread \/ Terminated \/ PollEmpty
            \/ UNCHANGED vars
  BY <1>10, <1>2
  DEF TakeBegin, AssignElement, BlockThread, BootGenesis, BootResume, TakeFront,
      PopBack, Terminated, PollEmpty, vars, factoryVars
<1>11. CASE AssignStale \/ AssignTorn
  BY <1>11 DEF AssignStale, AssignTorn
<1> QED
  BY <1>3, <1>4, <1>5, <1>6, <1>7, <1>8, <1>9, <1>10, <1>11 DEF Next, Factory

-----------------------------------------------------------------------------
(* The shard list *)

\* Every step keeps the balance of the shard list.
LEMMA ListStep ==
    ASSUME BaseInv, ListInv, [Next]_vars
    PROVE  ListInv'
<1>a. /\ shardList \in Seq(Shard) /\ included \in Seq(Shard) /\ emplaced \in Seq(Shard)
      /\ Len(shardList) \in Nat /\ Len(included) \in Nat /\ Len(emplaced) \in Nat
  BY LenProperties DEF BaseInv, TypeOK
<1>b. shardList # << >> =>
          /\ Head(shardList) \in Shard
          /\ Len(shardList) > 0
          /\ Len(SubSeq(shardList, 1, Len(shardList) - 1)) = Len(shardList) - 1
  BY <1>a, HeadTailProperties, FrontLength
<1>1. CASE UNCHANGED <<shardList, emplaced, blockVars>>
  BY <1>1 DEF ListInv, InclusionsBalanced, blockVars
<1>2. CASE InsertShard
  <2>1. /\ Len(shardList') = Len(shardList) + 1 /\ Len(emplaced') = Len(emplaced) + 1
        /\ shardList' # << >>
    <3>1. copy \in Shard
      BY DEF BaseInv, TypeOK
    <3>2. Len(shardList') = Len(shardList) + 1 /\ Len(emplaced') = Len(emplaced) + 1
      BY <1>2, <1>a, <3>1, AppendElements DEF InsertShard
    <3> QED BY <3>2, <1>a, EmptySeq
  <2>2. UNCHANGED <<bpc, included, onGenesis>>
    BY <1>2 DEF InsertShard, blockVars
  <2>3. InclusionsBalanced'
    <3> DEFINE genesis == IF onGenesis THEN 1 ELSE 0
               taken == IF bpc = "pop" THEN 1 ELSE 0
    <3>1. genesis \in Nat /\ taken \in Nat /\ genesis' = genesis /\ taken' = taken
      BY <2>2
    <3>2. Len(emplaced) + genesis + taken = Len(shardList) + Len(included)
      BY DEF ListInv, InclusionsBalanced
    <3>3. Len(emplaced') + genesis + taken = Len(shardList') + Len(included')
      <4>1. included' = included
        BY <2>2
      <4> HIDE DEF genesis, taken
      <4>2. PICK e, s, i, x, y : /\ e = Len(emplaced) /\ s = Len(shardList) /\ i = Len(included)
                                 /\ x = genesis /\ y = taken
        OBVIOUS
      <4>3. e \in Nat /\ s \in Nat /\ i \in Nat /\ x \in Nat /\ y \in Nat
        BY <4>2, <3>1, <1>a
      <4>4. e + x + y = s + i
        BY <4>2, <3>2
      <4>5. (e + 1) + x + y = (s + 1) + i
        BY <4>3, <4>4
      <4> QED BY <4>1, <4>2, <4>5, <2>1
    <3> QED BY <3>1, <3>3 DEF InclusionsBalanced
  <2> QED BY <2>1, <2>2, <2>3 DEF ListInv
<1>3. CASE BootGenesis
  <2>1. /\ Waiting => Len(included') = Len(included) + 1
        /\ ~Waiting => included' = included
    BY <1>3, <1>a, <1>b, AppendElements DEF BootGenesis, Waiting
  <2>2. /\ bpc = "boot" /\ bpc' = "front" /\ onGenesis' = Waiting
        /\ UNCHANGED <<shardList, emplaced>>
    BY <1>3 DEF BootGenesis
  <2>3. InclusionsBalanced'
    <3>1. Len(emplaced) = Len(shardList) + Len(included)
      BY <2>2, <1>a DEF ListInv, InclusionsBalanced
    <3>2. CASE Waiting
      BY <3>1, <3>2, <2>1, <2>2, <1>a DEF InclusionsBalanced
    <3>3. CASE ~Waiting
      BY <3>1, <3>3, <2>1, <2>2, <1>a DEF InclusionsBalanced
    <3> QED BY <3>2, <3>3
  <2> QED BY <2>2, <2>3 DEF ListInv
<1>4. CASE BootResume
  BY <1>4 DEF BootResume, ListInv, InclusionsBalanced
<1>5. CASE TakeFront
  <2>1. Len(included') = Len(included) + 1
    BY <1>5, <1>a, <1>b, AppendElements DEF TakeFront, Waiting
  <2>2. /\ bpc = "front" /\ bpc' = "pop" /\ shardList' # << >>
        /\ UNCHANGED <<shardList, emplaced, onGenesis>>
    BY <1>5 DEF TakeFront, Waiting
  <2>3. InclusionsBalanced'
    BY <2>1, <2>2, <1>a DEF ListInv, InclusionsBalanced
  <2> QED BY <2>2, <2>3 DEF ListInv
<1>6. CASE PopBack
  <2>1. Len(shardList') = Len(shardList) - 1
    BY <1>6, <1>b DEF PopBack, ListInv
  <2> QED BY <2>1, <1>6, <1>a DEF PopBack, ListInv, InclusionsBalanced
<1>7. CASE EmplaceBack \/ (Factory /\ ~InsertShard) \/ Terminated \/ UNCHANGED vars
  <2>1. UNCHANGED <<shardList, emplaced, blockVars>>
    BY <1>7 DEF EmplaceBack, Factory, PollEmpty, PollPool, BeginRound, TakeBegin,
       TakeEnd, AssignElement, AssignStale, AssignTorn, AssignDone, ReadPoolSize,
       DropTransactions, Terminated, vars
  <2> QED BY <2>1, <1>1
<1> QED BY <1>2, <1>3, <1>4, <1>5, <1>6, <1>7 DEF Next, BlockThread

-----------------------------------------------------------------------------
(* The theorems *)

\* Every variable keeps its type: in particular the iterators and the size to
\* drop never exceed the number of accepted transactions, and whatever an
\* undefined range yields, only transactions and garbage reach a shard.
THEOREM TypeCorrect == Spec => []TypeOK
<1>1. Init => BaseInv
  BY BaseInit
<1>2. BaseInv /\ [Next]_vars => BaseInv'
  BY BaseStep
<1>3. BaseInv => TypeOK
  BY DEF BaseInv
<1> QED BY <1>1, <1>2, <1>3, PTL DEF Spec

\* The inductive invariant of the pipeline.
IInv == BaseInv /\ CopyInv /\ ShardInv /\ LostInv /\ ListInv

\* The whole invariant holds at the start.
LEMMA PipelineInit == ASSUME Init PROVE IInv
<1>0. Len(<< >>) = 0 /\ DOMAIN << >> = {}
  BY EmptySeq
<1>1. BaseInv
  BY BaseInit
<1>2. CopyInv
  BY <1>0 DEF Init, CopyInv, NoIter
<1>3. ShardInv
  BY <1>0 DEF Init, ShardInv, ShardsInArrivalOrder
<1>4. LostInv
  BY <1>0 DEF Init, LostInv, Cleared, Dropped, InWindow
<1>5. ListInv
  BY <1>0 DEF Init, ListInv, InclusionsBalanced
<1> QED BY <1>1, <1>2, <1>3, <1>4, <1>5 DEF IInv

\* Every step keeps the whole invariant.
LEMMA PipelineStep == ASSUME IInv, [Next]_vars PROVE IInv'
<1> USE DEF IInv
<1>1. BaseInv'
  BY BaseStep
<1>2. CopyInv'
  BY CopyStep
<1>3. ShardInv'
  BY ShardStep
<1>4. LostInv'
  BY LostStep
<1>5. ListInv'
  BY ListStep
<1> QED BY <1>1, <1>2, <1>3, <1>4, <1>5

\* Unless a reallocation hit a copy, the shards hold accepted transactions in
\* the order of their arrival, each at most once, although shardFactory holds
\* no lock between begin(), end(), the copy, getPoolSize() and the erase.
THEOREM ArrivalOrderKept == Spec => []ShardsInArrivalOrder
<1>1. Init => IInv
  BY PipelineInit
<1>2. IInv /\ [Next]_vars => IInv'
  BY PipelineStep
<1>3. IInv => ShardsInArrivalOrder
  BY DEF IInv, ShardInv, ShardsInArrivalOrder
<1> QED BY <1>1, <1>2, <1>3, PTL DEF Spec

\* A transaction that is neither in the pool nor in a shard arrived between
\* end() and getPoolSize(): the window is the only way to lose one, as long as
\* no reallocation hits a copy.
THEOREM LossesAreInWindow == Spec => []LostOnlyInWindow
<1>1. Init => IInv
  BY PipelineInit
<1>2. IInv /\ [Next]_vars => IInv'
  BY PipelineStep
<1>3. ASSUME IInv PROVE LostOnlyInWindow
  <2> SUFFICES ASSUME ~torn, NEW t \in 1..arrived
               PROVE  t \in ToSet(pool) \cup Sharded \cup late
    BY DEF LostOnlyInWindow
  <2> USE <1>3 DEF IInv
  <2>1. CASE t \in 1..Dropped
    <3>1. t \in 1..Cleared
      BY <2>1, Numbers DEF Cleared
    <3> QED BY <3>1 DEF LostInv
  <2>2. CASE t \notin 1..Dropped
    <3>1. t - Dropped \in 1..Len(pool) /\ Dropped + (t - Dropped) = t
      BY <2>2, Numbers
    <3>2. pool[t - Dropped] = t
      BY <3>1 DEF BaseInv, PoolInv
    <3>3. DOMAIN pool = 1..Len(pool)
      BY LenProperties DEF BaseInv, TypeOK
    <3> QED BY <3>1, <3>2, <3>3 DEF ToSet
  <2> QED BY <2>1, <2>2
<1> QED BY <1>1, <1>2, <1>3, PTL DEF Spec

\* Taking the front of the shard list and popping its back keeps the number of
\* insertions equal to the number of shards, the genesis block's apart; the
\* block thread never pops an empty list.
THEOREM InclusionsAreBalanced == Spec => []InclusionsBalanced
<1>1. Init => IInv
  BY PipelineInit
<1>2. IInv /\ [Next]_vars => IInv'
  BY PipelineStep
<1>3. IInv => InclusionsBalanced
  BY DEF IInv, ListInv
<1> QED BY <1>1, <1>2, <1>3, PTL DEF Spec

=============================================================================
