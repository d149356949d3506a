---------------------------- MODULE BlockchainProofs ----------------------------
(***************************************************************************)
(* The stored chain never forks and has no hole but the blocks whose       *)
(* commit failed: whatever the shards, the bounds, the crashes and the     *)
(* failing commits.  The units in the wallets are those of the genesis     *)
(* block, with those that unpaid transfers made and without those lost     *)
(* with unreadable wallets and overflows.  And what the databases hold     *)
(* (StoredRecords, whose variables are its own) is what the log of the     *)
(* transactions processed says: balances, histories, tokens and texts.     *)
(***************************************************************************)
EXTENDS Blockchain, StoredRecords, SequenceTheorems, FiniteSetTheorems, WellFoundedInduction,
        TLAPS

\* The steps between the construction of a block and the commit that stores it.
UnderWay == {"pop", "process", "tokens", "history", "users", "block"}

IsBlock(b) ==
    /\ b = [hash |-> b.hash, parent |-> b.parent, index |-> b.index,
            shards |-> b.shards]
    /\ b.hash \in Nat
    /\ b.parent \in Nat

\* No stored block is the child of h.
Childless(h) == \A b \in blockDB : b.parent # h

\* Hashes are numbers handed out in order, and a parent is older than its child.
HashesOrdered ==
    /\ hashes \in Nat
    /\ \A b \in blockDB :
          /\ b.hash \in Nat
          /\ b.parent \in Nat
          /\ b.parent < b.hash
          /\ b.hash <= hashes
    /\ IsBlock(currentKey)

\* The block under way is new, and its parent has no child yet; the block just
\* committed, or given up, and the one before the next have none.
BlockInHand ==
    /\ bpc \in Steps
    /\ bpc \in UnderWay =>
          /\ IsBlock(current)
          /\ current.parent < current.hash
          /\ current.hash <= hashes
          /\ \A b \in blockDB : b.hash < current.hash
          /\ current.parent = NoHash \/ Childless(current.parent)
    /\ bpc = "txs" =>
          /\ IsBlock(current)
          /\ current.hash # NoHash
          /\ current.hash <= hashes
          /\ Childless(current.hash)
    /\ bpc = "build" =>
          /\ IsBlock(previous)
          /\ previous.hash # NoHash
          /\ previous.hash <= hashes
          /\ Childless(previous.hash)

ChainInv == HashesOrdered /\ BlockInHand /\ NoFork /\ CurrentIsTip

-----------------------------------------------------------------------------

\* The chain starts empty.
LEMMA ChainInit == Init => ChainInv
  BY DEF Init, ChainInv, HashesOrdered, BlockInHand, NoFork, CurrentIsTip, IsBlock,
         NoBlock, NoHash, Steps, UnderWay

\* Building a block on a childless parent that is not newer than the counter.
LEMMA BuildStep ==
    ASSUME ChainInv, NEW parent \in Nat, NEW index, NEW shards,
           parent <= hashes, parent = NoHash \/ Childless(parent),
           Build(parent, index, shards),
           bpc' \in {"pop", "process"},
           UNCHANGED <<blockDB, currentKey>>
    PROVE  ChainInv'
  BY DEF ChainInv, HashesOrdered, BlockInHand, NoFork, CurrentIsTip, Build, IsBlock,
         Childless, UnderWay, Steps, NoHash, NoBlock

\* A step that leaves the chain alone and moves on with the same block.
LEMMA QuietStep ==
    ASSUME ChainInv, UNCHANGED <<blockDB, currentKey, hashes>>,
           bpc \in UnderWay, bpc' \in UnderWay,
           current'.hash = current.hash, current'.parent = current.parent,
           IsBlock(current) => IsBlock(current')
    PROVE  ChainInv'
  BY DEF ChainInv, HashesOrdered, BlockInHand, NoFork, CurrentIsTip, IsBlock,
         Childless, UnderWay, Steps, NoHash, NoBlock

\* A step after which no block is in hand.
LEMMA IdleStep ==
    ASSUME ChainInv, UNCHANGED <<blockDB, currentKey, hashes>>,
           bpc' \in {"down", "boot"}
    PROVE  ChainInv'
  BY DEF ChainInv, HashesOrdered, BlockInHand, NoFork, CurrentIsTip, IsBlock,
         Childless, UnderWay, Steps, NoHash, NoBlock

\* Every step keeps the chain invariant.
LEMMA ChainStep == ChainInv /\ [Next]_vars => ChainInv'
  <1> SUFFICES ASSUME ChainInv, [Next]_vars PROVE ChainInv'
    OBVIOUS
  <1>1. ASSUME NEW s \in Shards, EmplaceShard(s) PROVE ChainInv'
    BY <1>1 DEF EmplaceShard, disk, failures, ghosts, ChainInv, HashesOrdered,
                BlockInHand, NoFork, CurrentIsTip, IsBlock, Childless
  <1>2. CASE BuildNext
    <2>1. previous.hash \in Nat /\ previous.hash <= hashes /\ Childless(previous.hash)
      BY <1>2 DEF BuildNext, ChainInv, BlockInHand, IsBlock
    <2> QED
      BY <1>2, <2>1, BuildStep DEF BuildNext, disk
  <1>3. CASE PopShard
    BY <1>3, QuietStep DEF PopShard, disk, UnderWay
  <1>4. CASE BuildResume
    <2>1. currentKey \in blockDB /\ currentKey.hash \in Nat /\ Childless(currentKey.hash)
      BY <1>4 DEF BuildResume, ChainInv, CurrentIsTip, HashesOrdered, Childless, IsBlock
    <2>2. currentKey.hash <= hashes
      BY <2>1 DEF ChainInv, HashesOrdered
    <2> QED
      BY <1>4, <2>1, <2>2, BuildStep DEF BuildResume, disk
  <1>5. CASE BuildGenesis
    <2>1. NoHash \in Nat /\ NoHash <= hashes
      BY DEF NoHash, ChainInv, HashesOrdered
    <2> QED
      BY <1>5, <2>1, BuildStep DEF BuildGenesis, disk
  <1>6. CASE ProcessNothing
    BY <1>6, QuietStep DEF ProcessNothing, disk, UnderWay
  <1>7. CASE ProcessFirst
    BY <1>7, QuietStep DEF ProcessFirst, disk, UnderWay
  <1>7a. CASE ProcessBoth
    BY <1>7a, QuietStep DEF ProcessBoth, disk, UnderWay
  <1>8. CASE Process
    <2>1. IsBlock(current)
      BY <1>8 DEF Process, ChainInv, BlockInHand, UnderWay
    <2>2. PICK shards : current' = [current EXCEPT !.shards[1] = shards]
      BY <1>8 DEF Process
    <2>3. /\ current'.hash = current.hash
          /\ current'.parent = current.parent
          /\ IsBlock(current')
      BY <2>1, <2>2 DEF IsBlock
    <2> QED
      BY <1>8, <2>3, QuietStep DEF Process, disk, UnderWay
  <1>9. CASE CommitTokens
    BY <1>9, QuietStep DEF CommitTokens, UnderWay
  <1>10. CASE CommitHistory
    BY <1>10, QuietStep DEF CommitHistory, UnderWay
  <1>11. CASE CommitUsers
    BY <1>11, QuietStep DEF CommitUsers, UnderWay
  <1>12. CASE CommitBlock
    <2>1. /\ current' = current
          /\ hashes' = hashes
          /\ bpc' = "txs"
          /\ \/ blockDB' = blockDB \cup {current} /\ currentKey' = current
             \/ blockDB' = blockDB /\ currentKey' = currentKey
      BY <1>12 DEF CommitBlock
    <2>2. /\ IsBlock(current)
          /\ current.parent < current.hash
          /\ current.hash <= hashes
          /\ \A b \in blockDB : b.hash < current.hash
          /\ current.parent = NoHash \/ Childless(current.parent)
      BY <1>12 DEF CommitBlock, ChainInv, BlockInHand, UnderWay
    <2>3. Childless(current.hash)
      BY <2>2 DEF ChainInv, HashesOrdered, Childless, IsBlock
    <2>4. current.hash # NoHash
      BY <2>2 DEF IsBlock, NoHash
    <2>5. HashesOrdered'
      BY <2>1, <2>2 DEF ChainInv, HashesOrdered, IsBlock
    <2>6. BlockInHand'
      BY <2>1, <2>2, <2>3, <2>4 DEF BlockInHand, IsBlock, Childless, UnderWay, Steps
    <2>7. NoFork'
      BY <2>1, <2>2 DEF ChainInv, NoFork, Childless
    <2>8. CurrentIsTip'
      BY <2>1, <2>2, <2>3 DEF ChainInv, CurrentIsTip, Childless, IsBlock
    <2> QED
      BY <2>5, <2>6, <2>7, <2>8 DEF ChainInv
  <1>13. CASE CommitTxs
    BY <1>13 DEF CommitTxs, ghosts, ChainInv, HashesOrdered, BlockInHand, NoFork,
                 CurrentIsTip, IsBlock, Childless, UnderWay, Steps
  <1>14. CASE Crash
    BY <1>14, IdleStep DEF Crash, Dies, disk
  <1>15. CASE ProcessDies
    BY <1>15, IdleStep DEF ProcessDies, Dies, disk
  <1>16. CASE Restart
    BY <1>16, IdleStep DEF Restart, disk
  <1>17. CASE UNCHANGED vars
    BY <1>17 DEF vars, memory, disk, ChainInv, HashesOrdered, BlockInHand, NoFork,
                 CurrentIsTip, IsBlock, Childless
  <1> QED
    BY <1>1, <1>2, <1>3, <1>4, <1>5, <1>6, <1>7, <1>8, <1>9, <1>10, <1>11, <1>12,
       <1>13, <1>14, <1>15, <1>16, <1>17, <1>7a DEF Next

\* The chain invariant holds in every reachable state.
THEOREM ChainInvariant == Spec => []ChainInv
  BY ChainInit, ChainStep, PTL DEF Spec

\* Two stored blocks never have the same parent, and the block a restart
\* continues from is stored and has no child: for every set of shards and any
\* number of blocks, crashes and failing database operations.
THEOREM ChainNeverForks == Spec => [](NoFork /\ CurrentIsTip)
  <1>1. ChainInv => NoFork /\ CurrentIsTip
    BY DEF ChainInv
  <1> QED
    BY <1>1, ChainInvariant, PTL

-----------------------------------------------------------------------------
(* No hole in the stored chain *)

\* The hash of a block that is stored, or whose commit failed, or of none.
Tried(h) ==
    \/ h \in {NoHash} \cup unsaved
    \/ \E p \in blockDB : p.hash = h

\* The same after the step.
TriedAfter(h) ==
    \/ h \in {NoHash} \cup unsaved'
    \/ \E p \in blockDB' : p.hash = h

\* The thread builds only on a block it has tried to store.
ParentInv ==
    /\ ParentStored
    /\ bpc \in UnderWay => Tried(current.parent)
    /\ bpc = "txs" => Tried(current.hash)
    /\ bpc = "build" => Tried(previous.hash)

\* No step forgets a stored block or a failed commit.
LEMMA TriedStays ==
    ASSUME [Next]_vars
    PROVE  /\ blockDB \subseteq blockDB'
           /\ unsaved \subseteq unsaved'
           /\ \A h : Tried(h) => TriedAfter(h)
  <1>1. blockDB \subseteq blockDB' /\ unsaved \subseteq unsaved'
    BY DEF Next, EmplaceShard, BuildNext, PopShard, BuildResume, BuildGenesis,
           ProcessNothing, ProcessFirst, ProcessBoth, Process, CommitTokens, CommitHistory,
           CommitUsers, CommitBlock, CommitTxs, Crash, ProcessDies, Dies, Restart,
           vars, disk, ghosts
  <1> QED
    BY <1>1 DEF Tried, TriedAfter

\* Except by CommitBlock no block is stored.
LEMMA StoredByCommit ==
    ASSUME [Next]_vars, ~CommitBlock
    PROVE  blockDB' = blockDB
  BY DEF Next, EmplaceShard, BuildNext, PopShard, BuildResume, BuildGenesis,
         ProcessNothing, ProcessFirst, ProcessBoth, Process, CommitTokens, CommitHistory,
         CommitUsers, CommitTxs, Crash, ProcessDies, Dies, Restart, vars, disk

\* A block under way keeps the parent it was built on.
LEMMA SameParent ==
    ASSUME ChainInv, [Next]_vars, bpc \in UnderWay, bpc' \in UnderWay
    PROVE  current'.parent = current.parent
  <1>1. CASE Process
    <2>1. IsBlock(current)
      BY <1>1 DEF ChainInv, BlockInHand
    <2>2. PICK shards : current' = [current EXCEPT !.shards[1] = shards]
      BY <1>1 DEF Process
    <2> QED
      BY <2>1, <2>2 DEF IsBlock
  <1>2. CASE ~Process
    BY <1>2 DEF Next, EmplaceShard, BuildNext, PopShard, BuildResume, BuildGenesis,
           ProcessNothing, ProcessFirst, ProcessBoth, CommitTokens, CommitHistory,
           CommitUsers, CommitBlock, CommitTxs, Crash, ProcessDies, Dies, Restart,
           vars, memory, UnderWay
  <1> QED
    BY <1>1, <1>2

\* How the thread comes by the block in hand: one it builds, the one it has, or
\* the one it has just committed.
LEMMA HandOver ==
    ASSUME ChainInv, [Next]_vars
    PROVE  /\ bpc' \in UnderWay /\ bpc \notin UnderWay =>
                 \/ bpc = "build" /\ current'.parent = previous.hash
                 \/ /\ bpc = "boot"
                    /\ \/ currentKey # NoBlock /\ current'.parent = currentKey.hash
                       \/ current'.parent = NoHash
           /\ bpc' = "txs" => CommitBlock \/ (bpc = "txs" /\ current' = current)
           /\ bpc' = "build" =>
                 \/ bpc = "txs" /\ previous' = current
                 \/ bpc = "build" /\ previous' = previous
  <1>1. ASSUME bpc' \in UnderWay, bpc \notin UnderWay
        PROVE  BuildNext \/ BuildResume \/ BuildGenesis
    BY <1>1 DEF Next, EmplaceShard, PopShard, ProcessNothing, ProcessFirst, ProcessBoth, Process,
           CommitTokens, CommitHistory, CommitUsers, CommitBlock, CommitTxs, Crash,
           ProcessDies, Dies, Restart, vars, memory, UnderWay
  <1>2. ASSUME bpc' = "txs"
        PROVE  CommitBlock \/ (bpc = "txs" /\ current' = current)
    BY <1>2 DEF Next, EmplaceShard, BuildNext, PopShard, BuildResume, BuildGenesis,
           ProcessNothing, ProcessFirst, ProcessBoth, Process, CommitTokens, CommitHistory,
           CommitUsers, CommitTxs, Crash, ProcessDies, Dies, Restart, vars, memory
  <1>3. ASSUME bpc' = "build"
        PROVE  \/ bpc = "txs" /\ previous' = current
               \/ bpc = "build" /\ previous' = previous
    BY <1>3 DEF Next, EmplaceShard, BuildNext, PopShard, BuildResume, BuildGenesis,
           ProcessNothing, ProcessFirst, ProcessBoth, Process, CommitTokens, CommitHistory,
           CommitUsers, CommitBlock, CommitTxs, Crash, ProcessDies, Dies, Restart, vars,
           memory
  <1> QED
    BY <1>1, <1>2, <1>3 DEF BuildNext, BuildResume, BuildGenesis, Build

\* Every step keeps the parents of the stored blocks, of the block in hand and of
\* "current" among the blocks that were stored or given up.
LEMMA ParentStep ==
    ASSUME ChainInv, ParentInv, [Next]_vars
    PROVE  ParentInv'
  <1>1. ASSUME NEW b \in blockDB' PROVE TriedAfter(b.parent)
    <2>1. CASE b \in blockDB
      <3>1. Tried(b.parent)
        BY <2>1 DEF ParentInv, ParentStored, Tried
      <3> QED
        BY <3>1, TriedStays
    <2>2. CASE b \notin blockDB
      <3>1. b = current /\ bpc = "block"
        BY <2>2, StoredByCommit DEF CommitBlock
      <3>2. Tried(current.parent)
        BY <3>1 DEF ParentInv, UnderWay
      <3> QED
        BY <3>1, <3>2, TriedStays
    <2> QED
      BY <2>1, <2>2
  <1>2. ASSUME bpc' \in UnderWay PROVE TriedAfter(current'.parent)
    <2>1. Tried(current'.parent)
      <3>1. CASE bpc \in UnderWay
        BY <1>2, <3>1, SameParent DEF ParentInv
      <3>2. CASE bpc = "build" /\ current'.parent = previous.hash
        BY <3>2 DEF ParentInv
      <3>3. CASE currentKey # NoBlock /\ current'.parent = currentKey.hash
        BY <3>3 DEF ChainInv, CurrentIsTip, Tried
      <3>4. CASE current'.parent = NoHash
        BY <3>4 DEF Tried
      <3> QED
        BY <1>2, <3>1, <3>2, <3>3, <3>4, HandOver
    <2> QED
      BY <2>1, TriedStays
  <1>3. ASSUME bpc' = "txs" PROVE TriedAfter(current'.hash)
    <2>1. CASE CommitBlock
      BY <2>1 DEF CommitBlock, TriedAfter
    <2>2. CASE bpc = "txs" /\ current' = current
      BY <2>2, TriedStays DEF ParentInv
    <2> QED
      BY <1>3, <2>1, <2>2, HandOver
  <1>4. ASSUME bpc' = "build" PROVE TriedAfter(previous'.hash)
    BY <1>4, HandOver, TriedStays DEF ParentInv
  <1>5. ParentStored'
    BY <1>1 DEF ParentStored, TriedAfter
  <1> QED
    BY <1>2, <1>3, <1>4, <1>5 DEF ParentInv, Tried, TriedAfter

\* Every stored block has its parent in the database, or is a genesis block, or
\* the commit of its parent failed: no crash between two commits and no restart
\* makes a hole.
THEOREM ParentsAreStored == Spec => []ParentStored
  <1>1. Init => ParentInv
    BY DEF Init, ParentInv, ParentStored, UnderWay
  <1>2. ChainInv /\ ParentInv /\ [Next]_vars => ParentInv'
    BY ParentStep
  <1>3. ParentInv => ParentStored
    BY DEF ParentInv
  <1> QED
    BY <1>1, <1>2, <1>3, ChainInvariant, PTL DEF Spec

-----------------------------------------------------------------------------
(* Folds, and smallest counterexamples in place of induction *)

\* A set of natural numbers has a smallest member.
LEMMA Smallest ==
    ASSUME NEW T, T \subseteq Nat, T # {}
    PROVE  \E x \in T : \A y \in T : x <= y
<1>1. PICK R : R = {ss \in Nat \X Nat : ss[1] < ss[2]}
  OBVIOUS
<1>2. IsWellFoundedOn(R, Nat)
  BY <1>1, NatLessThanWellFounded DEF OpToRel
<1>3. PICK x \in T : \A y \in T : ~ (<<y, x>> \in R)
  BY <1>2, WFMin
<1>4. ASSUME NEW y \in T PROVE x <= y
  <2>1. ~(y < x)
    BY <1>1, <1>3
  <2> QED BY <2>1
<1> QED BY <1>4

\* The folds of the model: the units in a user database, the work on a shard, and
\* the removal of one transaction, or of several, from a list.  k says which one,
\* and of what.
Base(k) ==
    CASE k.fold = "units" -> 0
      [] k.fold = "shard" -> k.start
      [] k.fold = "front" -> << >>
      [] k.fold = "list"  -> k.shard
Chosen(k, s) == IF k.fold = "units" THEN CHOOSE x \in s : TRUE ELSE Max(s)
OneStep(k, x, acc) ==
    CASE k.fold = "units" -> k.db[x].balance + acc
      [] k.fold = "shard" -> Apply(acc, k.shard[x], k.history, k.unreadable)
      [] k.fold = "front" -> IF k.list[x] = k.tx THEN acc ELSE Append(acc, k.list[x])
      [] k.fold = "list"  -> StdRemove(acc, k.declined[x])

FoldStep(k, S, it) ==
    [s \in S |-> IF s = {} THEN Base(k) ELSE OneStep(k, Chosen(k, s), it[s \ {Chosen(k, s)}])]

\* The fold itself: TLA+ defines a recursive function by CHOOSE.
Fold(k, S) == CHOOSE it : it = FoldStep(k, SUBSET S, it)

\* The subsets with at most n members.
UpTo(S, n) == {u \in SUBSET S : Cardinality(u) <= n}

\* Without one of its members a subset has one member less.
LEMMA RemoveOne ==
    ASSUME NEW S, IsFiniteSet(S), NEW n \in Nat, NEW s \in UpTo(S, n), NEW c \in s
    PROVE  n > 0 /\ s \ {c} \in UpTo(S, n - 1)
<1>1. s \subseteq S /\ Cardinality(s) <= n
  BY DEF UpTo
<1>2. IsFiniteSet(s)
  BY <1>1, FS_Subset
<1>3. IsFiniteSet(s \ {c}) /\ Cardinality(s \ {c}) = Cardinality(s) - 1
  BY <1>2, FS_RemoveElement
<1>4. Cardinality(s) \in Nat /\ Cardinality(s \ {c}) \in Nat
  BY <1>2, <1>3, FS_CardinalityType
<1>5. n > 0 /\ Cardinality(s \ {c}) <= n - 1
  BY <1>1, <1>3, <1>4
<1> QED BY <1>1, <1>5 DEF UpTo

\* The recursion that defines a fold has a solution on the subsets with at most
\* n members.
LEMMA FoldUpTo ==
    ASSUME NEW k, NEW S, IsFiniteSet(S), \A s \in SUBSET S : s # {} => Chosen(k, s) \in s,
           NEW n \in Nat
    PROVE  \E it : it = FoldStep(k, UpTo(S, n), it)
<1>1. PICK T : T = {m \in Nat : ~ \E it : it = FoldStep(k, UpTo(S, m), it)}
  OBVIOUS
<1>2. SUFFICES ASSUME T # {} PROVE FALSE
  BY <1>1
<1>3. PICK m \in T : \A y \in T : m <= y
  BY <1>1, <1>2, Smallest
<1>4. m \in Nat /\ ~ \E it : it = FoldStep(k, UpTo(S, m), it)
  BY <1>1
<1>5. PICK g : m > 0 => g = FoldStep(k, UpTo(S, m - 1), g)
  <2>1. CASE m > 0
    <3>1. m - 1 \in Nat /\ ~(m <= m - 1)
      BY <1>4, <2>1
    <3>2. m - 1 \notin T
      BY <3>1, <1>3
    <3> QED BY <3>1, <3>2, <1>1
  <2> QED BY <2>1
<1>6. PICK h : h = FoldStep(k, UpTo(S, m), g)
  OBVIOUS
<1>7. ASSUME NEW u \in UpTo(S, m - 1), m > 0 PROVE h[u] = g[u]
  <2>1. u \in UpTo(S, m)
    <3>1. u \in SUBSET S /\ Cardinality(u) <= m - 1
      BY <1>7 DEF UpTo
    <3>2. IsFiniteSet(u)
      BY <3>1, FS_Subset
    <3>3. Cardinality(u) \in Nat
      BY <3>2, FS_CardinalityType
    <3>4. Cardinality(u) <= m
      BY <3>1, <3>3, <1>4
    <3> QED BY <3>1, <3>4 DEF UpTo
  <2>2. g = FoldStep(k, UpTo(S, m - 1), g)
    BY <1>5, <1>7
  <2> DEFINE v == IF u = {} THEN Base(k) ELSE OneStep(k, Chosen(k, u), g[u \ {Chosen(k, u)}])
  <2>3. h[u] = v
    BY <1>6, <2>1, Zenon DEF FoldStep
  <2>4. g[u] = v
    BY <1>7, <2>2, Zenon DEF FoldStep
  <2> HIDE DEF v
  <2> QED BY <2>3, <2>4, Zenon
<1>8. ASSUME NEW s \in UpTo(S, m), s # {}
      PROVE  g[s \ {Chosen(k, s)}] = h[s \ {Chosen(k, s)}]
  <2>1. s \in SUBSET S
    BY DEF UpTo
  <2>2. Chosen(k, s) \in s
    BY <1>8, <2>1
  <2>3. m > 0 /\ s \ {Chosen(k, s)} \in UpTo(S, m - 1)
    BY <1>4, <2>2, RemoveOne
  <2> QED BY <1>7, <2>3
<1>9. h = FoldStep(k, UpTo(S, m), h)
  <2>1. FoldStep(k, UpTo(S, m), g) = FoldStep(k, UpTo(S, m), h)
    BY <1>8, Zenon DEF FoldStep
  <2> QED BY <1>6, <2>1, Zenon
<1> QED BY <1>4, <1>9, Zenon

\* A fold over a finite set is what its recursive definition says.
LEMMA FoldUnfolds ==
    ASSUME NEW k, NEW S, IsFiniteSet(S), \A s \in SUBSET S : s # {} => Chosen(k, s) \in s
    PROVE  /\ Fold(k, S)[{}] = Base(k)
           /\ \A s \in SUBSET S : s # {} =>
                Fold(k, S)[s] = OneStep(k, Chosen(k, s), Fold(k, S)[s \ {Chosen(k, s)}])
<1>1. PICK n : n = Cardinality(S)
  OBVIOUS
<1>2. n \in Nat
  BY <1>1, FS_CardinalityType
<1>3. UpTo(S, n) = SUBSET S
  <2>1. \A u \in SUBSET S : Cardinality(u) <= n
    BY <1>1, FS_Subset
  <2> QED BY <2>1 DEF UpTo
<1>4. \E it : it = FoldStep(k, UpTo(S, n), it)
  BY <1>2, FoldUpTo
<1>5. PICK f : f = Fold(k, S)
  OBVIOUS
<1>6. f = FoldStep(k, SUBSET S, f)
  BY <1>3, <1>4, <1>5, Zenon DEF Fold
<1>7. \A s \in SUBSET S :
        f[s] = IF s = {} THEN Base(k) ELSE OneStep(k, Chosen(k, s), f[s \ {Chosen(k, s)}])
  BY <1>6, Zenon DEF FoldStep
<1>8. {} \in SUBSET S
  OBVIOUS
<1> QED BY <1>5, <1>7, <1>8, Zenon

-----------------------------------------------------------------------------
(* Sums *)

\* F adds up v over the subsets of A, in any order.
IsSum(F, A, v) ==
    /\ F \in [SUBSET A -> Int]
    /\ F[{}] = 0
    /\ \A s \in SUBSET A : \A a \in s : F[s] = v[a] + F[s \ {a}]

\* The first of the two folds.
UnitsOf(db) == [fold |-> "units", db |-> db]

\* The units in a user database are the first fold.
LEMMA UnitsIsFold ==
    ASSUME NEW db
    PROVE  Units(db) = Fold(UnitsOf(db), DOMAIN db)[DOMAIN db]
<1> DEFINE D == DOMAIN db
           Step(it) == [s \in SUBSET D |->
                          IF s = {} THEN 0
                          ELSE db[CHOOSE x \in s : TRUE].balance + it[s \ {CHOOSE x \in s : TRUE}]]
<1>1. Units(db) = (CHOOSE it : it = Step(it))[D]
  BY DEF Units, FoldFunction, FoldFunctionOnSet, MapThenFoldSet
<1>2. ASSUME NEW it PROVE FoldStep(UnitsOf(db), SUBSET D, it) = Step(it)
  <2>1. UnitsOf(db).fold = "units" /\ UnitsOf(db).db = db
    BY DEF UnitsOf
  <2> QED BY <2>1 DEF FoldStep, Base, Chosen, OneStep
<1> HIDE DEF Step
<1>3. Fold(UnitsOf(db), D) = CHOOSE it : it = Step(it)
  BY <1>2, Zenon DEF Fold
<1> QED BY <1>1, <1>3, Zenon

\* F is the fold of the balances of db.
IsFold(F, db) ==
    /\ F[{}] = 0
    /\ \A s \in SUBSET DOMAIN db : s # {} =>
         \E c \in s : F[s] = db[c].balance + F[s \ {c}]

\* A balance for every wallet.
HasBalances(db) == \A a \in DOMAIN db : db[a].balance \in Nat

\* They add up the balances, in the order in which the wallets are chosen.
LEMMA UnitsFold ==
    ASSUME NEW db, IsFiniteSet(DOMAIN db)
    PROVE  \E F : F = [s \in SUBSET DOMAIN db |-> F[s]] /\ IsFold(F, db) /\ Units(db) = F[DOMAIN db]
<1>1. PICK k, D : k = UnitsOf(db) /\ D = DOMAIN db
  OBVIOUS
<1>2. k.fold = "units" /\ k.db = db
  BY <1>1 DEF UnitsOf
<1>3. \A s \in SUBSET D : s # {} => Chosen(k, s) \in s
  BY <1>2, Zenon DEF Chosen
<1>4. PICK f : f = Fold(k, D)
  OBVIOUS
<1>5. /\ f[{}] = Base(k)
      /\ \A s \in SUBSET D : s # {} =>
           f[s] = OneStep(k, Chosen(k, s), f[s \ {Chosen(k, s)}])
  BY <1>1, <1>3, <1>4, FoldUnfolds
<1>6. f[{}] = 0
  BY <1>2, <1>5 DEF Base
<1>7. \A s \in SUBSET D : s # {} => \E c \in s : f[s] = db[c].balance + f[s \ {c}]
  BY <1>2, <1>3, <1>5, Zenon DEF OneStep
<1>8. PICK F : F = [s \in SUBSET D |-> f[s]]
  OBVIOUS
<1>9. \A s \in SUBSET D : F[s] = f[s]
  BY <1>8
<1>10. IsFold(F, db)
  <2>1. F[{}] = 0
    BY <1>6, <1>9
  <2>2. ASSUME NEW s \in SUBSET D, s # {}
        PROVE  \E c \in s : F[s] = db[c].balance + F[s \ {c}]
    <3>1. PICK c \in s : f[s] = db[c].balance + f[s \ {c}]
      BY <1>7, <2>2
    <3>2. s \ {c} \in SUBSET D
      OBVIOUS
    <3> QED BY <3>1, <3>2, <1>9
  <2> QED BY <1>1, <2>1, <2>2 DEF IsFold
<1>11. Units(db) = F[D]
  <2>1. D \in SUBSET D
    OBVIOUS
  <2> QED BY <1>1, <1>4, <1>9, <2>1, UnitsIsFold, Zenon
<1>12. F = [s \in SUBSET D |-> F[s]]
  BY <1>8
<1> QED BY <1>1, <1>10, <1>11, <1>12, Zenon

\* The sums are numbers.
LEMMA FoldIsNumber ==
    ASSUME NEW db, IsFiniteSet(DOMAIN db), HasBalances(db), NEW F, IsFold(F, db),
           NEW s \in SUBSET DOMAIN db
    PROVE  F[s] \in Int
<1>1. PICK D : D = DOMAIN db
  OBVIOUS
<1>2. PICK T : T = {n \in Nat : \E u \in SUBSET D : Cardinality(u) = n /\ F[u] \notin Int}
  OBVIOUS
<1>3. \A u \in SUBSET D : IsFiniteSet(u) /\ Cardinality(u) \in Nat
  BY <1>1, FS_Subset, FS_CardinalityType
<1>4. SUFFICES ASSUME T # {} PROVE FALSE
  BY <1>1, <1>2, <1>3
<1>5. PICK n \in T : \A y \in T : n <= y
  BY <1>2, <1>4, Smallest
<1>6. PICK u \in SUBSET D : Cardinality(u) = n /\ F[u] \notin Int
  BY <1>2
<1>7. u # {} /\ n \in Nat
  <2>1. F[{}] \in Int
    BY DEF IsFold
  <2>2. u # {}
    BY <1>6, <2>1, Zenon
  <2>3. n \in Nat
    BY <1>2
  <2> QED BY <2>2, <2>3
<1>8. PICK c \in u : F[u] = db[c].balance + F[u \ {c}]
  BY <1>1, <1>7 DEF IsFold
<1>9. u \ {c} \in SUBSET D /\ Cardinality(u \ {c}) = n - 1
  BY <1>3, <1>6, FS_RemoveElement
<1>10. F[u \ {c}] \in Int
  <2>1. n - 1 \notin T
    BY <1>5, <1>7
  <2>2. n - 1 \in Nat
    BY <1>3, <1>9
  <2> QED BY <1>2, <1>9, <2>1, <2>2
<1>11. db[c].balance \in Nat
  BY <1>1 DEF HasBalances
<1> QED BY <1>6, <1>8, <1>10, <1>11

\* In whichever order the balances are added.
LEMMA FoldAnyOrder ==
    ASSUME NEW db, IsFiniteSet(DOMAIN db), HasBalances(db), NEW F, IsFold(F, db),
           NEW s \in SUBSET DOMAIN db, NEW a \in s
    PROVE  F[s] = db[a].balance + F[s \ {a}]
<1>1. PICK D : D = DOMAIN db
  OBVIOUS
<1> DEFINE Wrong(u, b) == F[u] # db[b].balance + F[u \ {b}]
<1>2. PICK T : T = {n \in Nat : \E u \in SUBSET D : Cardinality(u) = n /\ \E b \in u : Wrong(u, b)}
  OBVIOUS
<1>3. \A u \in SUBSET D : IsFiniteSet(u) /\ Cardinality(u) \in Nat
  BY <1>1, FS_Subset, FS_CardinalityType
<1>4. SUFFICES ASSUME T # {} PROVE FALSE
  BY <1>1, <1>2, <1>3
<1>5. PICK n \in T : \A y \in T : n <= y
  BY <1>2, <1>4, Smallest
<1>6. PICK u \in SUBSET D : Cardinality(u) = n /\ \E b \in u : Wrong(u, b)
  BY <1>2
<1>7. PICK b \in u : Wrong(u, b)
  BY <1>6
<1>8. PICK c \in u : F[u] = db[c].balance + F[u \ {c}]
  <2>1. u # {}
    BY <1>7
  <2> QED BY <1>1, <2>1 DEF IsFold
<1>9. b # c
  BY <1>7, <1>8
<1>10. n \in Nat /\ n - 1 \notin T
  BY <1>2, <1>5
<1>11. ASSUME NEW x \in u PROVE u \ {x} \in SUBSET D /\ Cardinality(u \ {x}) = n - 1 /\ n - 1 \in Nat
  <2>1. u \ {x} \in SUBSET D
    OBVIOUS
  <2>2. Cardinality(u \ {x}) = n - 1
    BY <1>3, <1>6, FS_RemoveElement
  <2>3. n - 1 \in Nat
    BY <1>3, <2>1, <2>2
  <2> QED BY <2>1, <2>2, <2>3
<1>12. ASSUME NEW x \in u, NEW y \in u \ {x} PROVE ~Wrong(u \ {x}, y)
  BY <1>2, <1>10, <1>11
<1>13. F[u \ {c}] = db[b].balance + F[(u \ {c}) \ {b}]
  BY <1>9, <1>12
<1>14. F[u \ {b}] = db[c].balance + F[(u \ {b}) \ {c}]
  BY <1>9, <1>12
<1>15. (u \ {b}) \ {c} = (u \ {c}) \ {b} /\ (u \ {b}) \ {c} \in SUBSET D
  OBVIOUS
<1>16. F[(u \ {b}) \ {c}] \in Int
  BY <1>1, <1>15, FoldIsNumber
<1>17. db[b].balance \in Nat /\ db[c].balance \in Nat
  BY <1>1 DEF HasBalances
<1>18. PICK x, y, z : x = db[b].balance /\ y = db[c].balance /\ z = F[(u \ {b}) \ {c}]
  OBVIOUS
<1>19. y + (x + z) = x + (y + z)
  BY <1>16, <1>17, <1>18
<1>20. F[u] = db[b].balance + F[u \ {b}]
  BY <1>8, <1>13, <1>14, <1>15, <1>18, <1>19
<1> QED BY <1>7, <1>20

\* So the units in a database are a sum.
LEMMA UnitsAreSum ==
    ASSUME NEW db, IsFiniteSet(DOMAIN db), HasBalances(db)
    PROVE  \E F : /\ IsSum(F, DOMAIN db, [a \in DOMAIN db |-> db[a].balance])
                  /\ Units(db) = F[DOMAIN db]
<1>1. PICK F : /\ F = [s \in SUBSET DOMAIN db |-> F[s]] /\ IsFold(F, db)
               /\ Units(db) = F[DOMAIN db]
  BY UnitsFold
<1>2. PICK v, D : D = DOMAIN db /\ v = [a \in DOMAIN db |-> db[a].balance]
  OBVIOUS
<1>3. F \in [SUBSET D -> Int]
  <2>1. \A s \in SUBSET D : F[s] \in Int
    BY <1>1, <1>2, FoldIsNumber
  <2> QED BY <1>1, <1>2, <2>1
<1>4. \A s \in SUBSET D : \A a \in s : F[s] = v[a] + F[s \ {a}]
  <2> TAKE s \in SUBSET D
  <2> TAKE a \in s
  <2>1. F[s] = db[a].balance + F[s \ {a}]
    BY <1>1, <1>2, FoldAnyOrder
  <2>2. v[a] = db[a].balance
    BY <1>2
  <2> QED BY <2>1, <2>2
<1>5. F[{}] = 0
  BY <1>1 DEF IsFold
<1>6. IsSum(F, D, v)
  BY <1>3, <1>4, <1>5 DEF IsSum
<1> QED BY <1>1, <1>2, <1>6, Zenon

\* Sums of the same numbers are the same.
LEMMA SumsAgree ==
    ASSUME NEW A, NEW B, NEW v, NEW w, NEW F, NEW G, IsSum(F, A, v), IsSum(G, B, w),
           NEW S, IsFiniteSet(S), S \subseteq A, S \subseteq B, \A a \in S : v[a] = w[a]
    PROVE  F[S] = G[S]
<1>2. PICK T : T = {n \in Nat : \E u \in SUBSET S : Cardinality(u) = n /\ F[u] # G[u]}
  OBVIOUS
<1>3. \A u \in SUBSET S : IsFiniteSet(u) /\ Cardinality(u) \in Nat
  BY FS_Subset, FS_CardinalityType
<1>4. SUFFICES ASSUME T # {} PROVE FALSE
  BY <1>2, <1>3
<1>5. PICK n \in T : \A y \in T : n <= y
  BY <1>2, <1>4, Smallest
<1>6. PICK u \in SUBSET S : Cardinality(u) = n /\ F[u] # G[u]
  BY <1>2
<1>7. PICK c : c \in u
  <2>1. u # {}
    BY <1>6 DEF IsSum
  <2> QED BY <2>1
<1>8. u \ {c} \in SUBSET S /\ Cardinality(u \ {c}) = n - 1
  BY <1>3, <1>6, <1>7, FS_RemoveElement
<1>9. F[u \ {c}] = G[u \ {c}]
  <2>1. n \in Nat /\ n - 1 \notin T
    BY <1>2, <1>5
  <2>2. n - 1 \in Nat
    BY <1>3, <1>8
  <2> QED BY <1>2, <1>8, <2>1, <2>2
<1>10. F[u] = v[c] + F[u \ {c}]
  <2>1. u \in SUBSET A
    OBVIOUS
  <2> QED BY <2>1, <1>7 DEF IsSum
<1>11. G[u] = w[c] + G[u \ {c}]
  <2>1. u \in SUBSET B
    OBVIOUS
  <2> QED BY <2>1, <1>7 DEF IsSum
<1>12. v[c] = w[c]
  BY <1>7
<1> QED BY <1>6, <1>9, <1>10, <1>11, <1>12, Zenon

\* Zeros do not count.
LEMMA SumSkipsZeros ==
    ASSUME NEW A, IsFiniteSet(A), NEW v, NEW F, IsSum(F, A, v), NEW B \in SUBSET A,
           \A a \in A \ B : v[a] = 0
    PROVE  F[A] = F[B]
<1>2. PICK T : T = {n \in Nat : \E u \in SUBSET A : /\ B \subseteq u /\ Cardinality(u) = n
                                                    /\ F[u] # F[B]}
  OBVIOUS
<1>3. \A u \in SUBSET A : IsFiniteSet(u) /\ Cardinality(u) \in Nat
  BY FS_Subset, FS_CardinalityType
<1>4. SUFFICES ASSUME T # {} PROVE FALSE
  <2>1. ASSUME F[A] # F[B] PROVE Cardinality(A) \in T
    <3>1. A \in SUBSET A /\ B \subseteq A
      OBVIOUS
    <3> QED BY <1>2, <1>3, <2>1, <3>1
  <2> QED BY <2>1
<1>5. PICK n \in T : \A y \in T : n <= y
  BY <1>2, <1>4, Smallest
<1>6. PICK u \in SUBSET A : B \subseteq u /\ Cardinality(u) = n /\ F[u] # F[B]
  BY <1>2
<1>7. PICK c : c \in u \ B
  BY <1>6
<1>8. u \ {c} \in SUBSET A /\ Cardinality(u \ {c}) = n - 1 /\ B \subseteq u \ {c}
  <2>1. Cardinality(u \ {c}) = n - 1
    BY <1>3, <1>6, <1>7, FS_RemoveElement
  <2> QED BY <2>1, <1>6, <1>7
<1>9. F[u \ {c}] = F[B]
  <2>1. n \in Nat /\ n - 1 \notin T
    BY <1>2, <1>5
  <2>2. n - 1 \in Nat
    BY <1>3, <1>8
  <2> QED BY <1>2, <1>8, <2>1, <2>2
<1>10. F[u] = v[c] + F[u \ {c}]
  BY <1>7 DEF IsSum
<1>11. v[c] = 0 /\ F[u \ {c}] \in Int
  BY <1>7, <1>8 DEF IsSum
<1> QED BY <1>6, <1>9, <1>10, <1>11

-----------------------------------------------------------------------------
(* What all accounts hold together *)

\* The accounts hold n units together, a having v[a].
Worth(v, n) == \E G : IsSum(G, Accounts, v) /\ n = G[Accounts]

\* What each account holds; nothing if it has no wallet.
Balances(db) == [a \in Accounts |-> IF a \in DOMAIN db THEN db[a].balance ELSE 0]

\* Balances have a sum.
LEMMA WorthExists ==
    ASSUME NEW v \in [Accounts -> Nat]
    PROVE  \E n : Worth(v, n)
<1>1. PICK db : db = [a \in Accounts |-> [balance |-> v[a]]]
  OBVIOUS
<1>2. DOMAIN db = Accounts /\ \A a \in Accounts : db[a].balance = v[a]
  BY <1>1
<1>3. HasBalances(db)
  BY <1>2 DEF HasBalances
<1>4. IsFiniteSet(DOMAIN db)
  BY <1>2, RootAssumption
<1>5. PICK F : IsSum(F, DOMAIN db, [a \in DOMAIN db |-> db[a].balance])
  BY <1>3, <1>4, UnitsAreSum
<1>6. [a \in DOMAIN db |-> db[a].balance] = v
  BY <1>2
<1>7. IsSum(F, Accounts, v)
  BY <1>2, <1>5, <1>6, Zenon
<1> QED BY <1>7 DEF Worth

\* They have one sum only.
LEMMA WorthUnique ==
    ASSUME NEW v, NEW n, NEW m, Worth(v, n), Worth(v, m)
    PROVE  n = m
<1>1. PICK F, G : /\ IsSum(F, Accounts, v) /\ n = F[Accounts]
                  /\ IsSum(G, Accounts, v) /\ m = G[Accounts]
  BY Zenon DEF Worth
<1>2. F[Accounts] = G[Accounts]
  BY <1>1, RootAssumption, SumsAgree
<1> QED BY <1>1, <1>2

\* The units in a user database are what all accounts hold together.
LEMMA UnitsAreWorth ==
    ASSUME NEW db, DOMAIN db \subseteq Accounts, HasBalances(db)
    PROVE  Balances(db) \in [Accounts -> Nat] /\ Worth(Balances(db), Units(db))
<1>1. PICK v, D : v = Balances(db) /\ D = DOMAIN db
  OBVIOUS
<1>2. v \in [Accounts -> Nat] /\ \A a \in D : v[a] = db[a].balance
  BY <1>1 DEF Balances, HasBalances
<1>3. \A a \in Accounts \ D : v[a] = 0
  BY <1>1 DEF Balances
<1>4. IsFiniteSet(Accounts) /\ IsFiniteSet(D)
  BY <1>1, RootAssumption, FS_Subset
<1>5. PICK n, G : IsSum(G, Accounts, v) /\ n = G[Accounts]
  BY <1>2, WorthExists DEF Worth
<1>6. G[Accounts] = G[D]
  BY <1>1, <1>3, <1>4, <1>5, SumSkipsZeros
<1>7. PICK F : IsSum(F, D, [a \in D |-> db[a].balance]) /\ Units(db) = F[D]
  BY <1>1, <1>4, UnitsAreSum
<1>8. PICK w : w = [a \in D |-> db[a].balance]
  OBVIOUS
<1>9. \A a \in D : v[a] = w[a]
  BY <1>2, <1>8
<1>10. IsSum(F, D, w)
  BY <1>7, <1>8
<1>11. G[D] = F[D]
  <2>1. D \subseteq Accounts /\ D \subseteq D
    BY <1>1
  <2> QED BY <1>4, <1>5, <1>9, <1>10, <2>1, SumsAgree
<1>12. Worth(v, Units(db))
  BY <1>5, <1>6, <1>7, <1>11, Zenon DEF Worth
<1> QED BY <1>1, <1>2, <1>12

\* Together two accounts may hold other amounts than before.
LEMMA WorthOfTwo ==
    ASSUME NEW v \in [Accounts -> Nat], NEW w \in [Accounts -> Nat],
           NEW a \in Accounts, NEW b \in Accounts, a # b,
           \A c \in Accounts \ {a, b} : v[c] = w[c],
           NEW n, Worth(v, n), NEW m, Worth(w, m)
    PROVE  n \in Int /\ m \in Int /\ m + (v[a] + v[b]) = n + (w[a] + w[b])
<1>1. PICK F : IsSum(F, Accounts, v) /\ n = F[Accounts]
  BY DEF Worth
<1>2. PICK G : IsSum(G, Accounts, w) /\ m = G[Accounts]
  BY DEF Worth
<1>3. PICK A, B, C : A = Accounts /\ B = A \ {a} /\ C = B \ {b}
  OBVIOUS
<1>4. A \in SUBSET A /\ B \in SUBSET A /\ C \in SUBSET A /\ a \in A /\ b \in B
  BY <1>3
<1>5. F[A] = v[a] + F[B] /\ F[B] = v[b] + F[C] /\ F[C] \in Int
  BY <1>1, <1>3, <1>4 DEF IsSum
<1>6. G[A] = w[a] + G[B] /\ G[B] = w[b] + G[C] /\ G[C] \in Int
  BY <1>2, <1>3, <1>4 DEF IsSum
<1>7. F[C] = G[C]
  <2>1. IsFiniteSet(C)
    BY <1>3, <1>4, RootAssumption, FS_Subset
  <2>2. C \subseteq Accounts /\ \A c \in C : v[c] = w[c]
    BY <1>3
  <2> QED BY <1>1, <1>2, <2>1, <2>2, SumsAgree
<1>8. v[a] \in Nat /\ v[b] \in Nat /\ w[a] \in Nat /\ w[b] \in Nat
  OBVIOUS
<1>9. n = F[A] /\ m = G[A]
  BY <1>1, <1>2, <1>3
<1> QED BY ONLY <1>5, <1>6, <1>7, <1>8, <1>9

\* So may one.
LEMMA WorthOfChanged ==
    ASSUME NEW v \in [Accounts -> Nat], NEW w \in [Accounts -> Nat],
           NEW a \in Accounts, \A c \in Accounts \ {a} : v[c] = w[c],
           NEW n, Worth(v, n), NEW m, Worth(w, m)
    PROVE  n \in Int /\ m \in Int /\ m + v[a] = n + w[a]
<1>1. PICK F : IsSum(F, Accounts, v) /\ n = F[Accounts]
  BY DEF Worth
<1>2. PICK G : IsSum(G, Accounts, w) /\ m = G[Accounts]
  BY DEF Worth
<1>3. PICK A, B : A = Accounts /\ B = A \ {a}
  OBVIOUS
<1>4. A \in SUBSET A /\ B \in SUBSET A /\ a \in A
  BY <1>3
<1>5. F[A] = v[a] + F[B] /\ F[B] \in Int
  BY <1>1, <1>3, <1>4 DEF IsSum
<1>6. G[A] = w[a] + G[B] /\ G[B] \in Int
  BY <1>2, <1>3, <1>4 DEF IsSum
<1>7. F[B] = G[B]
  <2>1. IsFiniteSet(B)
    BY <1>3, <1>4, RootAssumption, FS_Subset
  <2>2. B \subseteq Accounts /\ \A c \in B : v[c] = w[c]
    BY <1>3
  <2> QED BY <1>1, <1>2, <2>1, <2>2, SumsAgree
<1>8. v[a] \in Nat /\ w[a] \in Nat
  OBVIOUS
<1>9. n = F[A] /\ m = G[A]
  BY <1>1, <1>2, <1>3
<1> QED BY ONLY <1>5, <1>6, <1>7, <1>8, <1>9

\* The sums of the parts of some numbers add up to their sum.
LEMMA SumsAdd ==
    ASSUME NEW A, IsFiniteSet(A), NEW u, NEW v, NEW x,
           NEW F, NEW G, NEW H, IsSum(F, A, u), IsSum(G, A, v), IsSum(H, A, x),
           \A a \in A : u[a] \in Nat /\ v[a] \in Nat /\ x[a] \in Nat /\ u[a] = v[a] + x[a]
    PROVE  F[A] = G[A] + H[A]
<1> DEFINE Wrong(s) == F[s] # G[s] + H[s]
<1>2. PICK T : T = {n \in Nat : \E s \in SUBSET A : Cardinality(s) = n /\ Wrong(s)}
  OBVIOUS
<1>3. \A s \in SUBSET A : IsFiniteSet(s) /\ Cardinality(s) \in Nat
  BY FS_Subset, FS_CardinalityType
<1>4. SUFFICES ASSUME T # {} PROVE FALSE
  <2>1. A \in SUBSET A
    OBVIOUS
  <2> QED BY <1>2, <1>3, <2>1
<1>5. PICK n \in T : \A y \in T : n <= y
  BY <1>2, <1>4, Smallest
<1>6. PICK s \in SUBSET A : Cardinality(s) = n /\ Wrong(s)
  BY <1>2
<1>7. PICK c : c \in s
  <2>1. F[{}] = 0 /\ G[{}] = 0 /\ H[{}] = 0
    BY DEF IsSum
  <2>2. ~Wrong({})
    BY ONLY <2>1
  <2> QED BY <1>6, <2>2
<1>8. PICK r : r = s \ {c}
  OBVIOUS
<1>9. r \in SUBSET A /\ Cardinality(r) = n - 1
  BY <1>3, <1>6, <1>7, <1>8, FS_RemoveElement
<1>10. ~Wrong(r)
  <2>1. n \in Nat /\ n - 1 \notin T
    BY <1>2, <1>5
  <2>2. n - 1 \in Nat
    BY <1>3, <1>9
  <2> QED BY <1>2, <1>9, <2>1, <2>2
<1>11. F[s] = u[c] + F[r] /\ G[s] = v[c] + G[r] /\ H[s] = x[c] + H[r]
  BY <1>7, <1>8 DEF IsSum
<1>12. F[r] \in Int /\ G[r] \in Int /\ H[r] \in Int
  BY <1>9 DEF IsSum
<1>13. u[c] \in Nat /\ v[c] \in Nat /\ x[c] \in Nat /\ u[c] = v[c] + x[c]
  BY <1>7
<1>14. F[s] = G[s] + H[s]
  <2>1. F[r] = G[r] + H[r]
    BY <1>10
  <2> QED BY ONLY <1>11, <1>12, <1>13, <2>1
<1> QED BY <1>6, <1>14

\* If only one account holds anything, it is what that one holds.
LEMMA WorthOfOne ==
    ASSUME NEW v \in [Accounts -> Nat], NEW r \in Accounts, \A a \in Accounts \ {r} : v[a] = 0
    PROVE  Worth(v, v[r])
<1>1. PICK n, G : IsSum(G, Accounts, v) /\ n = G[Accounts]
  BY WorthExists DEF Worth
<1>2. G[Accounts] = G[{r}]
  <2>1. {r} \in SUBSET Accounts
    OBVIOUS
  <2> QED BY <1>1, <2>1, RootAssumption, SumSkipsZeros
<1>3. G[{r}] = v[r] + G[{r} \ {r}]
  BY <1>1 DEF IsSum
<1>4. {r} \ {r} = {} /\ G[{}] = 0
  BY <1>1 DEF IsSum
<1>5. G[{r}] = v[r]
  <2>1. PICK x : x = v[r]
    OBVIOUS
  <2>2. x \in Nat
    BY <2>1
  <2>3. x + 0 = x
    BY <2>2
  <2> QED BY <1>3, <1>4, <2>1, <2>3, Zenon
<1> QED BY <1>1, <1>2, <1>5, Zenon DEF Worth

-----------------------------------------------------------------------------
(* The work on a shard *)

\* A set of positions has a largest one.
LEMMA MaxIsLargest ==
    ASSUME NEW n \in Nat, NEW T, T \subseteq 1..n, T # {}
    PROVE  Max(T) \in T /\ \A y \in T : Max(T) >= y
<1>1. PICK U : U = {n - x : x \in T}
  OBVIOUS
<1>2. U \subseteq Nat /\ U # {}
  <2>1. \A x \in T : n - x \in Nat
    OBVIOUS
  <2> QED BY <1>1, <2>1, Zenon
<1>3. PICK u \in U : \A y \in U : u <= y
  BY <1>2, Smallest
<1>4. PICK x \in T : u = n - x
  BY <1>1
<1>5. ASSUME NEW y \in T PROVE x >= y
  <2>1. n - y \in U
    BY <1>1
  <2>2. n - x <= n - y
    BY <1>3, <1>4, <2>1
  <2>3. x \in Nat /\ y \in Nat
    OBVIOUS
  <2> QED BY <2>2, <2>3
<1>6. \E z \in T : \A y \in T : z >= y
  BY <1>5
<1> QED BY <1>6, Zenon DEF Max

ShardOf(start, shard, history, unreadable) ==
    [fold |-> "shard", start |-> start, shard |-> shard, history |-> history,
     unreadable |-> unreadable]

\* What setTxBatch starts from.
Start(shard, loaded, unread, db) ==
    IF loaded
    THEN [Empty(LoadCache(shard, db, unread)) EXCEPT !.lost = Units([a \in unread |-> db[a]])]
    ELSE Empty(<< >>)

\* FoldLeft over a shard is the second fold.
LEMMA ShardIsFold ==
    ASSUME NEW shard, NEW loaded, NEW unread, NEW db, NEW history, NEW unreadable
    PROVE  ProcessShard(shard, loaded, unread, db, history, unreadable)
             = Fold(ShardOf(Start(shard, loaded, unread, db), shard, history, unreadable),
                    DOMAIN shard)[DOMAIN shard]
<1>1. PICK c : c = Start(shard, loaded, unread, db)
  OBVIOUS
<1> DEFINE D == DOMAIN shard
           Step(it) == [s \in SUBSET D |->
                          IF s = {} THEN c
                          ELSE Apply(it[s \ {Max(s)}], shard[Max(s)], history, unreadable)]
<1>2. ProcessShard(shard, loaded, unread, db, history, unreadable) = (CHOOSE it : it = Step(it))[D]
  BY <1>1 DEF ProcessShard, Start, FoldLeft, MapThenFoldSet
<1>3. PICK k : k = ShardOf(c, shard, history, unreadable)
  OBVIOUS
<1>4. /\ k.fold = "shard" /\ k.start = c /\ k.shard = shard /\ k.history = history
      /\ k.unreadable = unreadable
  BY <1>3 DEF ShardOf
<1>5. ASSUME NEW it PROVE FoldStep(k, SUBSET D, it) = Step(it)
  BY <1>4 DEF FoldStep, Base, Chosen, OneStep
<1> HIDE DEF Step
<1>6. Fold(k, D) = CHOOSE it : it = Step(it)
  BY <1>5, Zenon DEF Fold
<1> QED BY <1>1, <1>2, <1>3, <1>6, Zenon

\* A fold over the positions of a sequence goes through them in order.
LEMMA FoldInOrder ==
    ASSUME NEW k, k.fold # "units", NEW n \in Nat
    PROVE  \E g : /\ g[0] = Base(k)
                  /\ \A i \in 1..n : g[i] = OneStep(k, i, g[i - 1])
                  /\ Fold(k, 1..n)[1..n] = g[n]
<1>1. \A s \in SUBSET (1..n) : s # {} => Chosen(k, s) \in s
  BY MaxIsLargest DEF Chosen
<1>2. PICK f : f = Fold(k, 1..n)
  OBVIOUS
<1>3. /\ f[{}] = Base(k)
      /\ \A s \in SUBSET (1..n) : s # {} =>
           f[s] = OneStep(k, Chosen(k, s), f[s \ {Chosen(k, s)}])
  <2>1. IsFiniteSet(1..n)
    BY FS_Interval
  <2> QED BY <1>1, <1>2, <2>1, FoldUnfolds
<1>4. PICK g : g = [i \in 0..n |-> f[1..i]]
  OBVIOUS
<1>5. g[0] = Base(k)
  <2>1. 1..0 = {} /\ 0 \in 0..n
    OBVIOUS
  <2> QED BY <1>3, <1>4, <2>1
<1>6. ASSUME NEW i \in 1..n PROVE g[i] = OneStep(k, i, g[i - 1])
  <2>1. 1..i \in SUBSET (1..n) /\ 1..i # {} /\ i \in 1..i
    OBVIOUS
  <2>2. Max(1..i) = i
    <3>1. Max(1..i) \in 1..i /\ \A y \in 1..i : Max(1..i) >= y
      BY <2>1, MaxIsLargest
    <3> QED BY <2>1, <3>1
  <2>3. Chosen(k, 1..i) = i
    BY <2>2 DEF Chosen
  <2>4. (1..i) \ {i} = 1..(i - 1)
    OBVIOUS
  <2>5. f[1..i] = OneStep(k, i, f[1..(i - 1)])
    BY <1>3, <2>1, <2>3, <2>4, Zenon
  <2>6. g[i] = f[1..i] /\ g[i - 1] = f[1..(i - 1)]
    BY <1>4
  <2> QED BY <2>5, <2>6, Zenon
<1>7. g[n] = f[1..n]
  BY <1>4
<1> QED BY <1>2, <1>5, <1>6, <1>7, Zenon

\* The transactions of a shard are applied one after another.
LEMMA ShardInOrder ==
    ASSUME NEW T, NEW shard \in Seq(T), NEW loaded, NEW unread, NEW db, NEW history, NEW unreadable
    PROVE  \E g : /\ g[0] = Start(shard, loaded, unread, db)
                  /\ \A i \in 1..Len(shard) :
                       g[i] = Apply(g[i - 1], shard[i], history, unreadable)
                  /\ ProcessShard(shard, loaded, unread, db, history, unreadable) = g[Len(shard)]
<1>1. PICK c, n : c = Start(shard, loaded, unread, db) /\ n = Len(shard)
  OBVIOUS
<1>2. n \in Nat /\ DOMAIN shard = 1..n
  BY <1>1
<1>3. PICK k : k = ShardOf(c, shard, history, unreadable)
  OBVIOUS
<1>4. /\ k.fold = "shard" /\ k.fold # "units" /\ k.start = c /\ k.shard = shard
      /\ k.history = history /\ k.unreadable = unreadable
  BY <1>3 DEF ShardOf
<1>5. PICK g : /\ g[0] = Base(k)
               /\ \A i \in 1..n : g[i] = OneStep(k, i, g[i - 1])
               /\ Fold(k, 1..n)[1..n] = g[n]
  BY <1>2, <1>4, FoldInOrder
<1>6. Base(k) = c /\ \A i, acc : OneStep(k, i, acc) = Apply(acc, shard[i], history, unreadable)
  BY <1>4 DEF Base, OneStep
<1>7. ProcessShard(shard, loaded, unread, db, history, unreadable) = g[n]
  BY <1>1, <1>2, <1>3, <1>5, ShardIsFold, Zenon
<1> QED BY <1>1, <1>5, <1>6, <1>7, Zenon

-----------------------------------------------------------------------------
(* What one transaction does to the cached wallets *)

\* A wallet as setTxBatch works on it.
IsWallet(w) ==
    /\ w = [balance |-> w.balance, tokens |-> w.tokens, history |-> w.history]
    /\ w.balance \in Nat

\* The cached wallets.
IsCache(c) ==
    /\ c = [a \in DOMAIN c |-> c[a]]
    /\ DOMAIN c \subseteq Accounts
    /\ \A a \in DOMAIN c : IsWallet(c[a])

\* d is c but for the wallet of a.
Replaces(d, c, a, w) ==
    /\ DOMAIN d = DOMAIN c
    /\ d[a] = w
    /\ \A b \in DOMAIN c \ {a} : d[b] = c[b]

\* Replacing a wallet by another leaves a cache.
LEMMA ReplaceWallet ==
    ASSUME NEW c, IsCache(c), NEW a \in DOMAIN c, NEW w, IsWallet(w)
    PROVE  IsCache([c EXCEPT ![a] = w]) /\ Replaces([c EXCEPT ![a] = w], c, a, w)
<1>1. PICK d : d = [c EXCEPT ![a] = w]
  OBVIOUS
<1>2. Replaces(d, c, a, w)
  BY <1>1 DEF Replaces
<1>3. d = [b \in DOMAIN d |-> d[b]]
  BY <1>1
<1>4. IsCache(d)
  BY <1>2, <1>3 DEF IsCache, Replaces
<1> QED BY <1>1, <1>2, <1>4

\* A record with the three fields and a balance is a wallet.
LEMMA OfBalance ==
    ASSUME NEW w, NEW x \in Nat, NEW y, NEW z,
           w = [balance |-> x, tokens |-> y, history |-> z]
    PROVE  IsWallet(w) /\ w.balance = x
  BY DEF IsWallet

\* Reading a history into a wallet does not change its balance.
LEMMA NewHistory ==
    ASSUME NEW w, IsWallet(w), NEW h
    PROVE  /\ IsWallet([w EXCEPT !.history = h])
           /\ [w EXCEPT !.history = h].balance = w.balance
  BY DEF IsWallet

\* Neither does a new token.
LEMMA NewTokens ==
    ASSUME NEW w, IsWallet(w), NEW tokens
    PROVE  /\ IsWallet([w EXCEPT !.tokens = tokens])
           /\ [w EXCEPT !.tokens = tokens].balance = w.balance
  BY DEF IsWallet

\* What an overflow takes from a balance that an amount is added to.
Excess(balance, amount) == IF balance + amount < UintSize THEN 0 ELSE UintSize

\* A sum of two numbers of units, overflow or not.
LEMMA PlusIsSum ==
    ASSUME NEW b \in Nat, NEW m \in 0..UintSize - 1
    PROVE  /\ Plus(b, m) \in Nat /\ Excess(b, m) \in {0, UintSize} /\ Excess(b, m) \in Nat
           /\ Plus(b, m) + Excess(b, m) = b + m
           /\ Excess(b, m) = IF Plus(b, m) < b THEN UintSize ELSE 0
  BY UintAssumption DEF Plus, Excess

\* The two ends of a transfer, entered into a history.
NewOut(h, id) == [h EXCEPT !.out = Append(@, id)]
NewIn(h, id) == [h EXCEPT !.in = Append(@, id)]

\* increase(), field by field.
LEMMA WalletIsPaid ==
    ASSUME NEW w, IsWallet(w), NEW amount \in 0..UintSize - 1, NEW id
    PROVE  /\ IsWallet(Increase(w, amount, id))
           /\ Increase(w, amount, id).balance = Plus(w.balance, amount)
           /\ Increase(w, amount, id).tokens = w.tokens
           /\ Increase(w, amount, id).history = NewIn(w.history, id)
<1>1. PICK b, tk, hs : w = [balance |-> b, tokens |-> tk, history |-> hs] /\ b \in Nat
  BY DEF IsWallet
<1>2. PICK x, y : x = NewIn(hs, id) /\ y = Plus(b, amount)
  OBVIOUS
<1>3. w.history = hs /\ w.tokens = tk /\ w.balance = b
  BY <1>1
<1>4. Increase(w, amount, id) = [w EXCEPT !.balance = y, !.history = x]
  BY <1>2, <1>3, Zenon DEF Increase, NewIn
<1>5. Increase(w, amount, id) = [balance |-> y, tokens |-> tk, history |-> x]
  BY <1>1, <1>4
<1>6. y \in Nat
  BY <1>1, <1>2, PlusIsSum
<1>7. /\ IsWallet(Increase(w, amount, id)) /\ Increase(w, amount, id).balance = y
      /\ Increase(w, amount, id).tokens = tk /\ Increase(w, amount, id).history = x
  BY <1>5, <1>6 DEF IsWallet
<1> QED BY <1>2, <1>3, <1>7, Zenon

\* What the sender of a transfer pays, and what its history becomes.
Pays(balance, amount) == IF balance < amount THEN 0 ELSE amount
PaidHistory(balance, amount, h, id) == IF balance < amount THEN h ELSE NewOut(h, id)

\* subtract(), field by field: a balance that is too small is left alone.
LEMMA WalletPays ==
    ASSUME NEW w, IsWallet(w), NEW amount \in Nat, NEW id
    PROVE  /\ IsWallet(Subtract(w, amount, id))
           /\ Subtract(w, amount, id).balance + Pays(w.balance, amount) = w.balance
           /\ Subtract(w, amount, id).tokens = w.tokens
           /\ Subtract(w, amount, id).history = PaidHistory(w.balance, amount, w.history, id)
<1>1. PICK b, tk, hs : w = [balance |-> b, tokens |-> tk, history |-> hs] /\ b \in Nat
  BY DEF IsWallet
<1>2. w.balance = b /\ w.history = hs /\ w.tokens = tk
  BY <1>1
<1>3. CASE b < amount
  <2>1. Subtract(w, amount, id) = w
    BY <1>2, <1>3 DEF Subtract
  <2>2. Pays(b, amount) = 0 /\ PaidHistory(b, amount, hs, id) = hs /\ b + 0 = b
    BY <1>1, <1>3 DEF Pays, PaidHistory
  <2> QED BY <1>2, <2>1, <2>2
<1>4. CASE ~(b < amount)
  <2>1. PICK x : x = NewOut(hs, id)
    OBVIOUS
  <2>2. b - amount \in Nat /\ (b - amount) + amount = b
    BY <1>1, <1>4
  <2>3. Subtract(w, amount, id) = [w EXCEPT !.balance = @ - amount, !.history = x]
    BY <1>2, <1>4, <2>1, Zenon DEF Subtract, NewOut
  <2>4. Subtract(w, amount, id) = [balance |-> b - amount, tokens |-> tk, history |-> x]
    BY <1>1, <2>3
  <2>5. /\ IsWallet(Subtract(w, amount, id)) /\ Subtract(w, amount, id).balance = b - amount
        /\ Subtract(w, amount, id).tokens = tk /\ Subtract(w, amount, id).history = x
    BY <2>2, <2>4 DEF IsWallet
  <2>6. Pays(b, amount) = amount /\ PaidHistory(b, amount, hs, id) = x
    BY <1>4, <2>1 DEF Pays, PaidHistory
  <2> QED BY <1>2, <2>2, <2>5, <2>6
<1> QED BY <1>3, <1>4

\* Reading a history into a wallet leaves the rest.
LEMMA HistoryFields ==
    ASSUME NEW w, IsWallet(w), NEW h
    PROVE  [w EXCEPT !.history = h].tokens = w.tokens /\ [w EXCEPT !.history = h].history = h
  BY DEF IsWallet

\* The record setTxBatch works on.
IsState(st) ==
    st = [cache |-> st.cache, history |-> st.history, txs |-> st.txs, tokens |-> st.tokens,
          declined |-> st.declined, thrown |-> st.thrown, fates |-> st.fates,
          minted |-> st.minted, lost |-> st.lost]

\* Its fields.
Consists(s, c, h, x, k, d, th, f, m, l) ==
    s = [cache |-> c, history |-> h, txs |-> x, tokens |-> k, declined |-> d,
         thrown |-> th, fates |-> f, minted |-> m, lost |-> l]

\* A record made of these fields has them.
LEMMA FieldsOfState ==
    ASSUME NEW c, NEW h, NEW x, NEW k, NEW d, NEW th, NEW f, NEW m, NEW l, NEW s,
           Consists(s, c, h, x, k, d, th, f, m, l)
    PROVE  /\ IsState(s) /\ s.cache = c /\ s.history = h /\ s.txs = x /\ s.tokens = k
           /\ s.declined = d /\ s.thrown = th /\ s.fates = f /\ s.minted = m /\ s.lost = l
  BY DEF IsState, Consists

\* d is c after f has paid p and m has come to o, x of which an overflow took.
Shifts(d, c, f, o, p, m, x) ==
    /\ DOMAIN d = DOMAIN c
    /\ \A a \in DOMAIN c \ {f, o} : d[a].balance = c[a].balance
    /\ f = o => d[f].balance + (p + x) = c[f].balance + m
    /\ f # o => d[f].balance + p = c[f].balance /\ d[o].balance + x = c[o].balance + m

-----------------------------------------------------------------------------
(* What a transaction of a shard does to the batches *)

\* The history a wallet has before a transfer is entered.
HistoryRead(st, a, t, hs, unreadable) ==
    IF Known(st, t, hs, unreadable) THEN hs[t.from] ELSE st.cache[a].history

\* Whether the sender can pay.
Short(st, t) == st.cache[t.from].balance < t.amount

\* The wallets d and the histories hb that the transfer t leaves.
Entered(d, hb, st, t, hs, unreadable, x) ==
    LET f == t.from
        o == t.to
        c == st.cache
        b == c[f].balance
        out == PaidHistory(b, t.amount, HistoryRead(st, f, t, hs, unreadable), t.id)
    IN  /\ IsCache(d) /\ Shifts(d, c, f, o, Pays(b, t.amount), t.amount, x)
        /\ \A a \in DOMAIN c : d[a].tokens = c[a].tokens
        /\ \A a \in DOMAIN c \ {f, o} : d[a] = c[a]
        /\ DOMAIN hb = DOMAIN st.history \cup {f, o}
        /\ \A a \in DOMAIN st.history \ {f, o} : hb[a] = st.history[a]
        /\ hb[f] = d[f].history /\ hb[o] = d[o].history
        /\ f # o => /\ d[f].history = out
                    /\ d[o].history = NewIn(HistoryRead(st, o, t, hs, unreadable), t.id)
        /\ f = o => d[f].history = NewIn(out, t.id)

\* Transfers that are made: a sender of another type than "OTHER" can pay.
MayTransfer(st, t) == t.type = "OTHER" \/ ~Short(st, t)

\* What the record s says of the transfer t.
Recorded(s, st, t, x) ==
    /\ IsState(s)
    /\ s.txs = st.txs \cup {t.id} /\ s.thrown = st.thrown /\ s.declined = st.declined
    /\ s.fates = Append(st.fates, IF Short(st, t) THEN "unpaid" ELSE "done")
    /\ s.minted = IF Short(st, t) THEN st.minted + t.amount ELSE st.minted
    /\ s.lost = IF x = UintSize THEN st.lost + UintSize ELSE st.lost

\* s is st after the transfer t.
Enters(s, st, t, hs, unreadable) ==
    \E x \in {0, UintSize} :
        Recorded(s, st, t, x) /\ Entered(s.cache, s.history, st, t, hs, unreadable, x)

\* How a transfer sets the record, and the units that an overflow takes.
Records(s, st, t, paid, done, hb) ==
    s = [Tally(st, t, paid, done) EXCEPT !.cache = done, !.history = hb, !.txs = @ \cup {t.id}]
Taken(x, before, after) == x = IF after < before THEN UintSize ELSE 0

\* The effect on the record.
LEMMA TransferRecord ==
    ASSUME NEW st, IsState(st), NEW t, MayTransfer(st, t),
           NEW paid, NEW done, NEW x, NEW hb,
           Taken(x, paid[t.to].balance, done[t.to].balance),
           NEW s, Records(s, st, t, paid, done, hb)
    PROVE  s.cache = done /\ s.history = hb /\ Recorded(s, st, t, x)
<1>1. PICK fs, mi, lo, tx :
        /\ fs = Append(st.fates, IF Short(st, t) THEN "unpaid" ELSE "done")
        /\ mi = (IF Short(st, t) THEN st.minted + t.amount ELSE st.minted)
        /\ lo = (IF x = UintSize THEN st.lost + UintSize ELSE st.lost)
        /\ tx = st.txs \cup {t.id}
  OBVIOUS
<1> DEFINE sh == t.type = "OTHER" /\ st.cache[t.from].balance < t.amount
<1>3. sh <=> Short(st, t)
  BY Zenon DEF Short, MayTransfer
<1>4. (x = UintSize) = (done[t.to].balance < paid[t.to].balance)
  <2>1. UintSize # 0
    BY UintAssumption
  <2> QED BY <2>1 DEF Taken
<1> HIDE DEF sh
<1>5. Tally(st, t, paid, done) = [st EXCEPT !.fates = fs, !.minted = mi, !.lost = lo]
  <2>1. Tally(st, t, paid, done)
          = [st EXCEPT !.fates = Append(@, IF sh THEN "unpaid" ELSE "done"),
                       !.minted = IF sh THEN @ + t.amount ELSE @,
                       !.lost = IF done[t.to].balance < paid[t.to].balance
                                THEN @ + UintSize ELSE @]
    BY Zenon DEF Tally, sh
  <2>2. fs = Append(st.fates, IF sh THEN "unpaid" ELSE "done")
    BY <1>1, <1>3, Zenon
  <2>3. mi = (IF sh THEN st.minted + t.amount ELSE st.minted)
    BY <1>1, <1>3, Zenon
  <2>4. lo = (IF done[t.to].balance < paid[t.to].balance THEN st.lost + UintSize ELSE st.lost)
    BY <1>1, <1>4, Zenon
  <2> QED BY <2>1, <2>2, <2>3, <2>4, Zenon
<1>6. Tally(st, t, paid, done).txs = st.txs
  BY <1>5 DEF IsState
<1>7. s = [Tally(st, t, paid, done) EXCEPT !.cache = done, !.history = hb, !.txs = tx]
  BY <1>1, <1>6, Zenon DEF Records
<1>8. Consists(s, done, hb, tx, st.tokens, st.declined, st.thrown, fs, mi, lo)
  <2>1. PICK u : u = Tally(st, t, paid, done)
    OBVIOUS
  <2>2. u = [cache |-> st.cache, history |-> st.history, txs |-> st.txs, tokens |-> st.tokens,
             declined |-> st.declined, thrown |-> st.thrown, fates |-> fs, minted |-> mi,
             lost |-> lo]
    BY <1>5, <2>1 DEF IsState
  <2>3. s = [u EXCEPT !.cache = done, !.history = hb, !.txs = tx]
    BY <1>7, <2>1, Zenon
  <2> QED BY <2>2, <2>3 DEF Consists
<1>9. /\ IsState(s) /\ s.cache = done /\ s.history = hb /\ s.txs = tx
      /\ s.declined = st.declined /\ s.thrown = st.thrown
      /\ s.fates = fs /\ s.minted = mi /\ s.lost = lo
  BY ONLY <1>8, FieldsOfState
<1> QED BY <1>1, <1>9, Zenon DEF Recorded

\* Label transfer, as a whole: nobody but the sender of a transfer of an unknown
\* type may be short of units.
LEMMA TransferEnters ==
    ASSUME NEW st, IsState(st), IsCache(st.cache), NEW t, t.amount \in 0..UintSize - 1,
           t.from \in DOMAIN st.cache, t.to \in DOMAIN st.cache,
           MayTransfer(st, t), NEW hs, NEW unreadable
    PROVE  Enters(Transfer(st, t, hs, unreadable), st, t, hs, unreadable)
<1>1. PICK c, f, o, m, id, h : /\ c = st.cache /\ f = t.from /\ o = t.to /\ m = t.amount
                               /\ id = t.id /\ h = hs[t.from]
  OBVIOUS
<1> DEFINE known == Known(st, t, hs, unreadable)
           read  == IF known
                    THEN [c EXCEPT ![f].history = h, ![o].history = h]
                    ELSE c
           paid  == [read EXCEPT ![f] = Subtract(@, m, id)]
           done  == [paid EXCEPT ![o] = Increase(@, m, id)]
           R(x)  == HistoryRead(st, x, t, hs, unreadable)
<1>2. Transfer(st, t, hs, unreadable)
        = [Tally(st, t, paid, done) EXCEPT
              !.cache = done,
              !.history = Put(Entry(o, done[o].history), Put(Entry(f, paid[f].history), @)),
              !.txs = @ \cup {id}]
  BY <1>1, Zenon DEF Transfer
<1>0. \A x : R(x) = IF known THEN h ELSE c[x].history
  BY <1>1, Zenon DEF HistoryRead
<1> HIDE DEF known, R
<1>3. IsCache(c) /\ f \in DOMAIN c /\ o \in DOMAIN c /\ m \in Nat /\ m \in 0..UintSize - 1
  BY <1>1, UintAssumption
<1>4. IsWallet(c[f]) /\ IsWallet(c[o])
  BY <1>3 DEF IsCache
\* the histories are read
<1>5. /\ IsCache(read) /\ DOMAIN read = DOMAIN c
      /\ \A x \in DOMAIN c : read[x].balance = c[x].balance /\ read[x].tokens = c[x].tokens
      /\ \A x \in DOMAIN c \ {f, o} : read[x] = c[x]
      /\ read[f].history = R(f) /\ read[o].history = R(o)
  <2>1. CASE known
    <3>1. PICK w, r1 : w = [c[f] EXCEPT !.history = h] /\ r1 = [c EXCEPT ![f] = w]
      OBVIOUS
    <3>2. IsWallet(w) /\ w.balance = c[f].balance /\ w.tokens = c[f].tokens /\ w.history = h
      BY <1>4, <3>1, NewHistory, HistoryFields
    <3>3. IsCache(r1) /\ Replaces(r1, c, f, w)
      BY <1>3, <3>1, <3>2, ReplaceWallet
    <3>4. /\ o \in DOMAIN r1 /\ IsWallet(r1[o]) /\ r1[o].balance = c[o].balance
          /\ r1[o].tokens = c[o].tokens
      BY <1>3, <1>4, <3>2, <3>3 DEF Replaces
    <3>5. PICK v, r2 : v = [r1[o] EXCEPT !.history = h] /\ r2 = [r1 EXCEPT ![o] = v]
      OBVIOUS
    <3>6. IsWallet(v) /\ v.balance = r1[o].balance /\ v.tokens = r1[o].tokens /\ v.history = h
      BY <3>4, <3>5, NewHistory, HistoryFields
    <3>7. IsCache(r2) /\ Replaces(r2, r1, o, v)
      BY <3>3, <3>4, <3>5, <3>6, ReplaceWallet
    <3>8. read = r2
      BY <2>1, <3>1, <3>5
    <3>9. /\ DOMAIN r2 = DOMAIN c
          /\ \A x \in DOMAIN c : r2[x].balance = c[x].balance /\ r2[x].tokens = c[x].tokens
      BY <3>2, <3>3, <3>4, <3>6, <3>7 DEF Replaces
    <3>10. \A x \in DOMAIN c \ {f, o} : r2[x] = c[x]
      BY <3>3, <3>7 DEF Replaces
    <3>11. r2[f].history = h /\ r2[o].history = h
      BY <1>3, <3>2, <3>3, <3>6, <3>7 DEF Replaces
    <3>12. R(f) = h /\ R(o) = h
      BY <1>0, <2>1
    <3> QED BY <3>7, <3>8, <3>9, <3>10, <3>11, <3>12
  <2>2. CASE ~known
    BY <1>0, <1>3, <2>2
  <2> QED BY <2>1, <2>2
<1> HIDE DEF read
\* the sender pays, if it can
<1>6. PICK w, b : w = Subtract(read[f], m, id) /\ b = c[f].balance
  OBVIOUS
<1> DEFINE out == PaidHistory(b, m, R(f), id)
<1>7. /\ IsWallet(w) /\ w.tokens = c[f].tokens /\ w.history = out
      /\ w.balance + Pays(b, m) = b
  <2>1. IsWallet(read[f]) /\ read[f].balance = b /\ read[f].tokens = c[f].tokens
    BY <1>3, <1>5, <1>6 DEF IsCache
  <2>2. read[f].history = R(f)
    BY <1>5
  <2>3. /\ IsWallet(w) /\ w.tokens = read[f].tokens
        /\ w.history = PaidHistory(read[f].balance, m, read[f].history, id)
        /\ w.balance + Pays(read[f].balance, m) = read[f].balance
    BY <1>3, <1>6, <2>1, WalletPays
  <2> QED BY <2>1, <2>2, <2>3, Zenon
<1> HIDE DEF out
<1>8. IsCache(paid) /\ Replaces(paid, read, f, w)
  <2>1. paid = [read EXCEPT ![f] = w]
    BY <1>6
  <2> QED BY <1>3, <1>5, <1>7, <2>1, ReplaceWallet
<1> HIDE DEF paid
\* the recipient is paid
<1>9. PICK v, x : v = Increase(paid[o], m, id) /\ x = Excess(paid[o].balance, m)
  OBVIOUS
<1>10. IsWallet(paid[o]) /\ o \in DOMAIN paid
  BY <1>3, <1>5, <1>8 DEF IsCache, Replaces
<1>11. /\ IsWallet(v) /\ v.tokens = paid[o].tokens /\ v.history = NewIn(paid[o].history, id)
       /\ v.balance = Plus(paid[o].balance, m)
  BY <1>3, <1>9, <1>10, WalletIsPaid
<1>12. IsCache(done) /\ Replaces(done, paid, o, v)
  <2>1. done = [paid EXCEPT ![o] = v]
    BY <1>9
  <2> QED BY <1>8, <1>10, <1>11, <2>1, ReplaceWallet
<1> HIDE DEF done
<1>13. /\ x \in {0, UintSize} /\ x \in Nat /\ v.balance + x = paid[o].balance + m
       /\ x = IF v.balance < paid[o].balance THEN UintSize ELSE 0
  <2>1. paid[o].balance \in Nat
    BY <1>10 DEF IsWallet
  <2> QED BY <1>3, <1>9, <1>11, <2>1, PlusIsSum
<1>14. x = IF done[o].balance < paid[o].balance THEN UintSize ELSE 0
  BY <1>12, <1>13, Zenon DEF Replaces
<1>15. \A y \in DOMAIN c : done[y].tokens = c[y].tokens
  <2>1. \A y \in DOMAIN c : paid[y].tokens = c[y].tokens
    BY <1>5, <1>7, <1>8 DEF Replaces
  <2> QED BY <2>1, <1>3, <1>5, <1>8, <1>11, <1>12 DEF Replaces
<1>16. /\ DOMAIN done = DOMAIN c
       /\ \A y \in DOMAIN c \ {f, o} : done[y] = c[y]
  BY <1>5, <1>8, <1>12 DEF Replaces
<1>17. ASSUME f = o
       PROVE  /\ done[f].history = NewIn(out, id)
              /\ done[f].balance + (Pays(b, m) + x) = c[f].balance + m
  <2>1. paid[o] = w /\ done[f] = v
    BY <1>8, <1>12, <1>17 DEF Replaces
  <2>2. done[f].history = NewIn(out, id)
    BY <2>1, <1>7, <1>11
  <2>3. PICK p : p = Pays(b, m)
    OBVIOUS
  <2>4. /\ w.balance + p = b /\ v.balance + x = w.balance + m
        /\ w.balance \in Nat /\ v.balance \in Nat /\ b \in Nat /\ p \in Nat /\ m \in Nat /\ x \in Nat
    <3>1. w.balance \in Nat /\ v.balance \in Nat /\ b \in Nat
      BY <1>4, <1>6, <1>7, <1>11 DEF IsWallet
    <3>2. p \in Nat
      BY <1>3, <2>3 DEF Pays
    <3> QED BY <1>3, <1>7, <1>13, <2>1, <2>3, <3>1, <3>2
  <2>5. v.balance + (p + x) = b + m
    <3>1. PICK i, j : i = v.balance /\ j = w.balance
      OBVIOUS
    <3>2. /\ j + p = b /\ i + x = j + m
          /\ i \in Nat /\ j \in Nat /\ b \in Nat /\ p \in Nat /\ m \in Nat /\ x \in Nat
      BY <2>4, <3>1
    <3>3. i + (p + x) = b + m
      BY ONLY <3>2
    <3> QED BY <3>1, <3>3
  <2>6. done[f].balance = v.balance /\ c[f].balance = b
    BY <1>6, <2>1
  <2>7. done[f].balance + (Pays(b, m) + x) = c[f].balance + m
    BY ONLY <2>3, <2>5, <2>6
  <2> QED BY <2>2, <2>7
<1>18. ASSUME f # o
       PROVE  /\ done[f].history = out /\ paid[f].history = done[f].history
              /\ done[o].history = NewIn(R(o), id)
              /\ done[f].balance + Pays(b, m) = c[f].balance
              /\ done[o].balance + x = c[o].balance + m
  <2>1. done[f] = w /\ paid[f] = w
    BY <1>3, <1>5, <1>8, <1>12, <1>18 DEF Replaces
  <2>2. done[o] = v /\ paid[o] = read[o]
    BY <1>3, <1>5, <1>8, <1>12, <1>18 DEF Replaces
  <2>3. paid[o].balance = c[o].balance
    BY <1>3, <1>5, <2>2
  <2> QED BY <2>1, <2>2, <2>3, <1>5, <1>6, <1>7, <1>11, <1>13
<1>19. Shifts(done, c, f, o, Pays(b, m), m, x)
  BY <1>16, <1>17, <1>18 DEF Shifts
\* the record
<1>20. PICK k : k = Put(Entry(o, done[o].history), Put(Entry(f, paid[f].history), st.history))
  OBVIOUS
<1>21. /\ DOMAIN k = DOMAIN st.history \cup {f, o}
       /\ \A z \in DOMAIN st.history \ {f, o} : k[z] = st.history[z]
       /\ k[f] = done[f].history /\ k[o] = done[o].history
  <2>1. /\ DOMAIN k = DOMAIN st.history \cup {f, o}
        /\ \A z \in DOMAIN st.history \ {f, o} : k[z] = st.history[z]
        /\ k[o] = done[o].history /\ (f # o => k[f] = paid[f].history)
    BY <1>20 DEF Put, Entry
  <2> QED BY <1>18, <2>1
<1>22. PICK s : s = Transfer(st, t, hs, unreadable)
  OBVIOUS
<1>23. Records(s, st, t, paid, done, k)
  <2>1. Tally(st, t, paid, done).history = st.history
    BY DEF Tally, IsState
  <2> QED BY <1>1, <1>2, <1>20, <1>22, <2>1, Zenon DEF Records
<1>24. s.cache = done /\ s.history = k /\ Recorded(s, st, t, x)
  <2>1. Taken(x, paid[t.to].balance, done[t.to].balance)
    BY <1>1, <1>14, Zenon DEF Taken
  <2> QED BY <1>23, <2>1, TransferRecord, Zenon
<1>25. Entered(s.cache, s.history, st, t, hs, unreadable, x)
  <2>1. Entered(done, k, st, t, hs, unreadable, x)
    <3> USE DEF Entered, R, out
    <3> QED BY <1>1, <1>6, <1>12, <1>15, <1>16, <1>17, <1>18, <1>19, <1>21, Zenon
  <2> QED BY <1>24, <2>1, Zenon
<1>26. x \in {0, UintSize}
  BY <1>13
<1>27. Enters(s, st, t, hs, unreadable)
  BY <1>24, <1>25, <1>26, Zenon DEF Enters
<1> QED BY <1>22, <1>27

\* A transaction of a shard.
IsTx(t) == {t.from, t.to} \subseteq Accounts /\ t.amount \in 0..UintSize - 1 /\ t.type \in Types

\* s is st after t was declined.
Skips(s, st, t) ==
    /\ IsState(s) /\ s.cache = st.cache /\ s.history = st.history
    /\ s.txs = st.txs /\ s.thrown = st.thrown /\ s.declined = Append(st.declined, t)
    /\ s.fates = Append(st.fates, "declined") /\ s.minted = st.minted /\ s.lost = st.lost

\* s is st after an exception.
Throws(s, st) ==
    /\ IsState(s) /\ s.cache = st.cache /\ s.txs = st.txs /\ s.thrown
    /\ s.minted = st.minted /\ s.lost = st.lost

\* What is held of a token before more of it is issued.
HeldOf(held, token) == IF token \in DOMAIN held THEN ReadBack[held[token]] ELSE 0

\* s is st after t issued tokens.
Mints(s, st, t) ==
    LET f == t.from
        c == st.cache
        d == s.cache
        held == c[f].tokens
    IN  /\ IsState(s) /\ IsCache(d) /\ DOMAIN d = DOMAIN c
        /\ s.txs = st.txs \cup {t.id} /\ s.thrown = st.thrown /\ s.history = st.history
        /\ s.declined = st.declined /\ s.fates = Append(st.fates, "done")
        /\ s.minted = st.minted /\ s.lost = st.lost
        /\ \A x \in DOMAIN c : d[x].balance = c[x].balance /\ d[x].history = c[x].history
        /\ \A x \in DOMAIN c \ {f} : d[x].tokens = c[x].tokens
        /\ d[f].tokens
             = Put(Entry(t.token, (HeldOf(held, t.token) + t.amount) % UintSize), held)

\* Declining a transaction and giving up do not touch the wallets.
LEMMA DeclineSkips ==
    ASSUME NEW st, IsState(st), NEW t
    PROVE  Skips(Decline(st, t), st, t)
<1>1. PICK dl, fs : dl = Append(st.declined, t) /\ fs = Append(st.fates, "declined")
  OBVIOUS
<1>2. PICK s : s = Decline(st, t)
  OBVIOUS
<1>3. s = [st EXCEPT !.declined = dl, !.fates = fs]
  BY <1>1, <1>2 DEF Decline
<1>4. Consists(s, st.cache, st.history, st.txs, st.tokens, dl, st.thrown, fs, st.minted, st.lost)
  BY <1>3 DEF Consists, IsState
<1>5. /\ IsState(s) /\ s.cache = st.cache /\ s.history = st.history /\ s.txs = st.txs
      /\ s.declined = dl /\ s.thrown = st.thrown /\ s.fates = fs
      /\ s.minted = st.minted /\ s.lost = st.lost
  BY ONLY <1>4, FieldsOfState
<1> QED BY <1>1, <1>2, <1>5, Zenon DEF Skips

\* An exception changes nothing but that it has been thrown.
LEMMA ThrowThrows ==
    ASSUME NEW st, IsState(st), NEW s, s = [st EXCEPT !.thrown = TRUE]
    PROVE  Throws(s, st)
<1>1. ASSUME NEW x, NEW u, u = [st EXCEPT !.thrown = x]
      PROVE  Consists(u, st.cache, st.history, st.txs, st.tokens, st.declined, x, st.fates,
                      st.minted, st.lost)
  BY <1>1 DEF Consists, IsState
<1>2. Consists(s, st.cache, st.history, st.txs, st.tokens, st.declined, TRUE, st.fates,
               st.minted, st.lost)
  BY <1>1, Zenon
<1>3. \A x : Consists(s, st.cache, st.history, st.txs, st.tokens, st.declined, x, st.fates,
                      st.minted, st.lost)
        => /\ IsState(s) /\ s.cache = st.cache /\ s.txs = st.txs /\ s.thrown = x
           /\ s.minted = st.minted /\ s.lost = st.lost
  BY ONLY FieldsOfState
<1>4. /\ IsState(s) /\ s.cache = st.cache /\ s.txs = st.txs /\ s.thrown = TRUE
      /\ s.minted = st.minted /\ s.lost = st.lost
  BY <1>2, <1>3, Zenon
<1> QED BY <1>4, Zenon DEF Throws

\* What setTxBatch has before the first transaction.
IsEmpty(e, c, k) == e = [Empty(c) EXCEPT !.lost = k] \/ (e = Empty(c) /\ k = 0)

\* The fields before the first transaction.
LEMMA EmptyFields ==
    ASSUME NEW c, NEW k, NEW e, IsEmpty(e, c, k)
    PROVE  /\ IsState(e) /\ e.cache = c /\ e.history = << >> /\ e.txs = {} /\ e.declined = << >>
           /\ ~e.thrown /\ e.fates = << >> /\ e.minted = 0 /\ e.lost = k
<1>1. Consists(e, c, << >>, {}, {}, << >>, FALSE, << >>, 0, k)
  BY DEF Consists, Empty, IsEmpty
<1>2. PICK h, x, z : h = << >> /\ x = {} /\ z = 0
  OBVIOUS
<1>3. \E th : ~th /\ Consists(e, c, h, x, x, h, th, h, z, k)
  BY <1>1, <1>2, Zenon
<1>4. PICK th : ~th /\ Consists(e, c, h, x, x, h, th, h, z, k)
  BY <1>3
<1>5. /\ IsState(e) /\ e.cache = c /\ e.history = h /\ e.txs = x /\ e.declined = h
      /\ e.thrown = th /\ e.fates = h /\ e.minted = z /\ e.lost = k
  BY ONLY <1>4, FieldsOfState
<1> QED BY <1>2, <1>4, <1>5, Zenon

\* Label create_token, as a whole.
LEMMA CreateTokenMints ==
    ASSUME NEW st, IsState(st), IsCache(st.cache), NEW t, t.from \in DOMAIN st.cache
    PROVE  \/ CreateToken(st, t) = Decline(st, t)
           \/ CreateToken(st, t) = [st EXCEPT !.thrown = TRUE]
           \/ Mints(CreateToken(st, t), st, t)
<1>1. PICK c, f, s : c = st.cache /\ f = t.from /\ s = CreateToken(st, t)
  OBVIOUS
<1>2. PICK tk : tk = Put(Entry(t.token, (HeldOf(c[f].tokens, t.token) + t.amount) % UintSize),
                         c[f].tokens)
  OBVIOUS
<1>3. \/ s = Decline(st, t)
      \/ s = [st EXCEPT !.thrown = TRUE]
      \/ s = [st EXCEPT !.cache[f].tokens = tk,
                        !.tokens = @ \cup {t.token},
                        !.txs = @ \cup {t.id},
                        !.fates = Append(@, "done")]
  BY <1>1, <1>2, Zenon DEF CreateToken, HeldOf
<1>4. PICK x, y, fs : /\ x = st.tokens \cup {t.token} /\ y = st.txs \cup {t.id}
                      /\ fs = Append(st.fates, "done")
  OBVIOUS
<1>5. PICK w, d : w = [c[f] EXCEPT !.tokens = tk] /\ d = [c EXCEPT ![f] = w]
  OBVIOUS
<1>6. CASE s = [st EXCEPT !.cache[f].tokens = tk, !.tokens = @ \cup {t.token},
                          !.txs = @ \cup {t.id}, !.fates = Append(@, "done")]
  <2>1. IsCache(c) /\ f \in DOMAIN c /\ IsWallet(c[f])
    BY <1>1 DEF IsCache
  <2>2. IsWallet(w) /\ w.balance = c[f].balance /\ w.tokens = tk /\ w.history = c[f].history
    <3>1. w.tokens = tk /\ w.history = c[f].history
      BY <1>5, <2>1 DEF IsWallet
    <3> QED BY <1>5, <2>1, <3>1, NewTokens
  <2>3. IsCache(d) /\ Replaces(d, c, f, w)
    BY <1>5, <2>1, <2>2, ReplaceWallet
  <2>4. /\ DOMAIN d = DOMAIN c
        /\ \A z \in DOMAIN c : d[z].balance = c[z].balance /\ d[z].history = c[z].history
        /\ \A z \in DOMAIN c \ {f} : d[z].tokens = c[z].tokens
        /\ d[f].tokens = tk
    BY <2>2, <2>3 DEF Replaces
  <2>5. s = [st EXCEPT !.cache = d, !.tokens = x, !.txs = y, !.fates = fs]
    BY <1>1, <1>4, <1>5, <1>6
  <2>6. Consists(s, d, st.history, y, x, st.declined, st.thrown, fs, st.minted, st.lost)
    BY <2>5 DEF Consists, IsState
  <2>7. /\ IsState(s) /\ s.cache = d /\ s.txs = y /\ s.history = st.history
        /\ s.declined = st.declined /\ s.thrown = st.thrown /\ s.fates = fs
        /\ s.minted = st.minted /\ s.lost = st.lost
    BY ONLY <2>6, FieldsOfState
  <2>8. Mints(s, st, t)
    BY <1>1, <1>2, <1>4, <2>3, <2>4, <2>7, Zenon DEF Mints
  <2> QED BY <1>1, <2>8
<1> QED BY <1>1, <1>3, <1>6, Zenon

\* s is st after t, which did not throw.
Follows(s, st, t, hs, unreadable) ==
    \/ Skips(s, st, t)
    \/ /\ t.type \in {"TRANSFER", "OTHER"} /\ MayTransfer(st, t)
       /\ t.from \in DOMAIN st.cache /\ t.to \in DOMAIN st.cache
       /\ Enters(s, st, t, hs, unreadable)
    \/ /\ t.type = "CREATE_TOKENS" /\ t.from \in DOMAIN st.cache
       /\ Mints(s, st, t)

\* One pass of the loop.
LEMMA ApplyFollows ==
    ASSUME NEW st, IsState(st), IsCache(st.cache), NEW t, IsTx(t), NEW hs, NEW unreadable
    PROVE  LET s == Apply(st, t, hs, unreadable)
           IN  \/ Throws(s, st)
               \/ ~st.thrown /\ Follows(s, st, t, hs, unreadable)
<1>1. PICK s : s = Apply(st, t, hs, unreadable)
  OBVIOUS
<1>2. PICK u, v : u = [st EXCEPT !.thrown = TRUE] /\ v = Decline(st, t)
  OBVIOUS
<1>3. Throws(u, st) /\ Skips(v, st, t)
  BY <1>2, ThrowThrows, DeclineSkips
<1>4. CASE st.thrown
  <2>1. s = st
    BY <1>1, <1>4, Zenon DEF Apply
  <2>2. Throws(s, st)
    BY <1>4, <2>1, Zenon DEF Throws
  <2> QED BY <1>1, <2>2, Zenon
<1>5. CASE ~st.thrown /\ {t.from, t.to} \ DOMAIN st.cache # {}
  <2>1. s = v
    BY <1>1, <1>2, <1>5, Zenon DEF Apply
  <2> QED BY <1>1, <1>3, <1>5, <2>1, Zenon DEF Follows
<1>6. CASE ~st.thrown /\ {t.from, t.to} \ DOMAIN st.cache = {}
  <2>0. t.from \in DOMAIN st.cache /\ t.to \in DOMAIN st.cache
    BY <1>6
  <2>5. \/ t.type = "CREATE_TOKENS" /\ s = CreateToken(st, t)
        \/ /\ t.type \in {"TRANSFER", "OTHER"} /\ s = Transfer(st, t, hs, unreadable)
           /\ MayTransfer(st, t)
        \/ s = v
        \/ s = u
    <3>1. t.type \in {"TRANSFER", "TRANSFER_TOKENS", "CREATE_TOKENS", "OTHER"}
      BY DEF IsTx, Types
    <3>2. CASE t.type = "TRANSFER"
      BY <1>1, <1>2, <1>6, <3>2 DEF Apply, MayTransfer, Short
    <3>3. CASE t.type = "TRANSFER_TOKENS"
      BY <1>1, <1>2, <1>6, <3>3 DEF Apply
    <3>4. CASE t.type = "CREATE_TOKENS"
      BY <1>1, <1>2, <1>6, <3>4 DEF Apply
    <3>5. CASE t.type = "OTHER"
      BY <1>1, <1>2, <1>6, <3>5 DEF Apply, MayTransfer
    <3> QED BY <3>1, <3>2, <3>3, <3>4, <3>5
  <2>6. CASE t.type = "CREATE_TOKENS" /\ s = CreateToken(st, t)
    <3>1. s = v \/ s = u \/ Mints(s, st, t)
      BY <1>2, <2>0, <2>6, CreateTokenMints
    <3> QED BY <1>1, <1>3, <1>6, <2>0, <2>6, <3>1, Zenon DEF Follows
  <2>7. CASE /\ t.type \in {"TRANSFER", "OTHER"} /\ s = Transfer(st, t, hs, unreadable)
             /\ MayTransfer(st, t)
    <3>1. t.amount \in 0..UintSize - 1
      BY DEF IsTx
    <3>2. Enters(s, st, t, hs, unreadable)
      BY <2>0, <2>7, <3>1, TransferEnters, Zenon
    <3> QED BY <1>1, <1>6, <2>0, <2>7, <3>2, Zenon DEF Follows
  <2> QED BY <1>1, <1>3, <1>6, <2>5, <2>6, <2>7, Zenon DEF Follows
<1> QED BY <1>4, <1>5, <1>6, Zenon

\* Accounts together hold a natural number of units.
LEMMA WorthIsNat ==
    ASSUME NEW v \in [Accounts -> Nat], NEW n, Worth(v, n)
    PROVE  n \in Nat
<1>1. PICK G : IsSum(G, Accounts, v) /\ n = G[Accounts]
  BY DEF Worth
<1>2. PICK T : T = {i \in Nat : \E u \in SUBSET Accounts : Cardinality(u) = i /\ G[u] \notin Nat}
  OBVIOUS
<1>3. \A u \in SUBSET Accounts : IsFiniteSet(u) /\ Cardinality(u) \in Nat
  BY RootAssumption, FS_Subset, FS_CardinalityType
<1>4. SUFFICES ASSUME T # {} PROVE FALSE
  <2>1. Accounts \in SUBSET Accounts
    OBVIOUS
  <2> QED BY <1>1, <1>2, <1>3, <2>1
<1>5. PICK i \in T : \A y \in T : i <= y
  BY <1>2, <1>4, Smallest
<1>6. PICK u \in SUBSET Accounts : Cardinality(u) = i /\ G[u] \notin Nat
  BY <1>2
<1>7. PICK c : c \in u
  <2>1. G[{}] = 0
    BY <1>1 DEF IsSum
  <2> QED BY <1>6, <2>1
<1>8. u \ {c} \in SUBSET Accounts /\ Cardinality(u \ {c}) = i - 1
  BY <1>3, <1>6, <1>7, FS_RemoveElement
<1>9. G[u \ {c}] \in Nat
  <2>1. i \in Nat /\ i - 1 \notin T
    BY <1>2, <1>5
  <2>2. i - 1 \in Nat
    BY <1>3, <1>8
  <2> QED BY <1>2, <1>8, <2>1, <2>2
<1>10. G[u] = v[c] + G[u \ {c}] /\ v[c] \in Nat
  BY <1>1, <1>7 DEF IsSum
<1> QED BY <1>6, <1>9, <1>10

-----------------------------------------------------------------------------
(* What a shard does to the sum of the balances *)

\* A user database.
HasWallets(db) == DOMAIN db \subseteq Accounts /\ HasBalances(db)

\* What all accounts hold once the cached wallets are written back.
Merged(c, db) == [a \in Accounts |-> IF a \in DOMAIN c THEN c[a].balance ELSE Balances(db)[a]]

\* Accounts hold natural numbers of units.
LEMMA MergedIsNat ==
    ASSUME NEW c, IsCache(c), NEW db, HasBalances(db)
    PROVE  Merged(c, db) \in [Accounts -> Nat]
<1>1. \A a \in DOMAIN c : c[a].balance \in Nat
  BY DEF IsCache, IsWallet
<1>2. \A a \in Accounts : Balances(db)[a] \in Nat
  BY DEF Balances, HasBalances
<1> QED BY <1>1, <1>2 DEF Merged

\* A transfer changes what all accounts hold together by what comes to the
\* recipient, less what an overflow takes, less what the sender pays.
LEMMA ShiftsWorth ==
    ASSUME NEW c, IsCache(c), NEW d, IsCache(d), NEW db, HasBalances(db),
           NEW f \in DOMAIN c, NEW o \in DOMAIN c, NEW p \in Nat, NEW m \in Nat, NEW x \in Nat,
           Shifts(d, c, f, o, p, m, x),
           NEW n, Worth(Merged(c, db), n), NEW k, Worth(Merged(d, db), k)
    PROVE  n \in Int /\ k \in Int /\ k + (p + x) = n + m
<1>1. PICK v, w : v = Merged(c, db) /\ w = Merged(d, db)
  OBVIOUS
<1>2. v \in [Accounts -> Nat] /\ w \in [Accounts -> Nat]
  BY <1>1, MergedIsNat
<1>3. DOMAIN c \subseteq Accounts /\ f \in Accounts /\ o \in Accounts /\ DOMAIN d = DOMAIN c
  BY DEF IsCache, Shifts
<1>4. \A a \in DOMAIN c : v[a] = c[a].balance /\ w[a] = d[a].balance
  BY <1>1, <1>3 DEF Merged
<1>5. \A a \in Accounts \ DOMAIN c : v[a] = w[a]
  BY <1>1, <1>3 DEF Merged
<1>6. \A a \in Accounts \ {f, o} : v[a] = w[a]
  BY <1>4, <1>5 DEF Shifts
<1>7. CASE f = o
  <2>1. \A a \in Accounts \ {f} : v[a] = w[a]
    BY <1>6, <1>7
  <2>2. n \in Int /\ k \in Int /\ k + v[f] = n + w[f]
    BY <1>1, <1>2, <1>3, <2>1, WorthOfChanged
  <2>3. w[f] + (p + x) = v[f] + m
    BY <1>4, <1>7 DEF Shifts
  <2>4. v[f] \in Nat /\ w[f] \in Nat
    BY <1>2, <1>3
  <2> QED BY ONLY <2>2, <2>3, <2>4, p \in Nat, m \in Nat, x \in Nat
<1>8. CASE f # o
  <2>2. n \in Int /\ k \in Int /\ k + (v[f] + v[o]) = n + (w[f] + w[o])
    BY <1>1, <1>2, <1>3, <1>6, <1>8, WorthOfTwo
  <2>3. w[f] + p = v[f] /\ w[o] + x = v[o] + m
    BY <1>4, <1>8 DEF Shifts
  <2>4. v[f] \in Nat /\ w[f] \in Nat /\ v[o] \in Nat /\ w[o] \in Nat
    BY <1>2, <1>3
  <2> QED BY ONLY <2>2, <2>3, <2>4, p \in Nat, m \in Nat, x \in Nat
<1> QED BY <1>7, <1>8

\* What all accounts hold is the n units of before with those that were minted,
\* less those that were lost.
Accounted(st, db, n) ==
    \E w \in Int : Worth(Merged(st.cache, db), w) /\ w + st.lost = n + st.minted
Keeps(st, db, n) ==
    /\ IsState(st) /\ IsCache(st.cache)
    /\ st.minted \in Nat /\ st.lost \in Nat
    /\ Accounted(st, db, n)

\* A pass that touches no balance keeps that.
LEMMA BalancesKept ==
    ASSUME NEW st, NEW db, NEW n, Keeps(st, db, n),
           NEW s, IsState(s), IsCache(s.cache), DOMAIN s.cache = DOMAIN st.cache,
           \A a \in DOMAIN st.cache : s.cache[a].balance = st.cache[a].balance,
           s.minted = st.minted, s.lost = st.lost
    PROVE  Keeps(s, db, n)
<1>1. Merged(s.cache, db) = Merged(st.cache, db)
  BY DEF Merged
<1> QED BY <1>1, Zenon DEF Keeps, Accounted

\* So does a transfer.
LEMMA EntersKeeps ==
    ASSUME NEW st, NEW db, HasBalances(db), NEW n \in Int, Keeps(st, db, n),
           NEW t, t.amount \in Nat, t.from \in DOMAIN st.cache, t.to \in DOMAIN st.cache,
           NEW hs, NEW unreadable, NEW s, Enters(s, st, t, hs, unreadable)
    PROVE  Keeps(s, db, n)
<1>1. PICK x \in {0, UintSize} :
         Recorded(s, st, t, x) /\ Entered(s.cache, s.history, st, t, hs, unreadable, x)
  BY DEF Enters
<1>2. PICK c, d, f, o, m, p : /\ c = st.cache /\ d = s.cache /\ f = t.from /\ o = t.to
                              /\ m = t.amount /\ p = Pays(c[f].balance, m)
  OBVIOUS
<1>3. IsCache(d) /\ Shifts(d, c, f, o, p, m, x)
  BY <1>1, <1>2, Zenon DEF Entered
<1>4. /\ IsCache(c) /\ IsState(s) /\ f \in DOMAIN c /\ o \in DOMAIN c
      /\ m \in Nat /\ x \in Nat /\ p \in Nat
  BY <1>1, <1>2, UintAssumption DEF Keeps, Recorded, Pays
<1>5. PICK w \in Int : Worth(Merged(c, db), w) /\ w + st.lost = n + st.minted
  BY <1>2 DEF Keeps, Accounted
<1>6. PICK k : Worth(Merged(d, db), k)
  BY <1>3, MergedIsNat, WorthExists
<1>7. k \in Int /\ k + (p + x) = w + m
  BY <1>3, <1>4, <1>5, <1>6, ShiftsWorth
<1>8. PICK i, j, u, v : i = st.minted /\ j = st.lost /\ u = s.minted /\ v = s.lost
  OBVIOUS
<1>9. i \in Nat /\ j \in Nat
  BY <1>8 DEF Keeps
<1>10. v = j + x
  <2>1. v = IF x = UintSize THEN j + UintSize ELSE j
    BY <1>1, <1>8 DEF Recorded
  <2> QED BY <1>1, <1>9, <2>1
<1>11. u + p = i + m /\ u \in Nat
  <2>1. u = IF Short(st, t) THEN i + m ELSE i
    BY <1>1, <1>2, <1>8 DEF Recorded
  <2>2. p = IF Short(st, t) THEN 0 ELSE m
    BY <1>2 DEF Short, Pays
  <2>3. CASE Short(st, t)
    <3>1. u = i + m /\ p = 0
      BY <2>1, <2>2, <2>3
    <3> QED BY ONLY <3>1, <1>4, <1>9
  <2>4. CASE ~Short(st, t)
    <3>1. u = i /\ p = m
      BY <2>1, <2>2, <2>4
    <3> QED BY ONLY <3>1, <1>4, <1>9
  <2> QED BY <2>3, <2>4
<1>12. k + v = n + u
  <2>1. w + j = n + i
    BY <1>5, <1>8
  <2> QED BY ONLY <1>4, <1>7, <1>9, <1>10, <1>11, <2>1, n \in Int, w \in Int
<1>13. Accounted(s, db, n)
  BY <1>2, <1>6, <1>7, <1>8, <1>12 DEF Accounted
<1>14. s.minted \in Nat /\ s.lost \in Nat
  BY <1>4, <1>8, <1>9, <1>10, <1>11
<1> QED BY <1>2, <1>3, <1>4, <1>13, <1>14 DEF Keeps

\* One pass of the loop keeps what all accounts hold, whichever way it ends.
LEMMA ApplyKeeps ==
    ASSUME NEW st, NEW db, HasBalances(db), NEW n \in Int, Keeps(st, db, n), NEW t, IsTx(t),
           NEW history, NEW unreadable
    PROVE  Keeps(Apply(st, t, history, unreadable), db, n)
<1>1. PICK s : s = Apply(st, t, history, unreadable)
  OBVIOUS
<1>2. IsState(st) /\ IsCache(st.cache) /\ t.amount \in Nat
  BY UintAssumption DEF Keeps, IsTx
<1>3. Throws(s, st) \/ Follows(s, st, t, history, unreadable)
  BY <1>1, <1>2, ApplyFollows, Zenon
<1>4. CASE Throws(s, st) \/ Skips(s, st, t)
  <2>1. /\ IsState(s) /\ s.cache = st.cache /\ s.minted = st.minted /\ s.lost = st.lost
    BY <1>4 DEF Throws, Skips
  <2> QED BY <1>1, <1>2, <2>1, Zenon DEF Keeps, Accounted
<1>5. CASE Mints(s, st, t)
  <2>1. /\ IsState(s) /\ IsCache(s.cache) /\ DOMAIN s.cache = DOMAIN st.cache
        /\ \A a \in DOMAIN st.cache : s.cache[a].balance = st.cache[a].balance
        /\ s.minted = st.minted /\ s.lost = st.lost
    BY <1>5 DEF Mints
  <2> QED BY <1>1, <2>1, BalancesKept
<1>6. CASE /\ t.from \in DOMAIN st.cache /\ t.to \in DOMAIN st.cache
           /\ Enters(s, st, t, history, unreadable)
  BY <1>1, <1>2, <1>6, EntersKeeps
<1> QED BY <1>3, <1>4, <1>5, <1>6, Zenon DEF Follows

\* The wallets a shard starts from are stored ones, but those that could not be
\* read hold nothing.
LEMMA LoadedWallets ==
    ASSUME NEW s, Parties(s) \subseteq Accounts, NEW db, HasWallets(db), NEW unread,
           NEW c, c = LoadCache(s, db, unread)
    PROVE  /\ IsCache(c) /\ DOMAIN c = Parties(s)
           /\ \A a \in Parties(s) :
                 c[a].balance = IF a \in unread THEN 0 ELSE Balances(db)[a]
<1>1. c = [a \in Parties(s) |->
             IF a \in DOMAIN db \ unread THEN CreatePtrWallet(db[a]) ELSE EmptyWallet]
  BY DEF LoadCache
<1>2. ASSUME NEW a \in Parties(s)
      PROVE  IsWallet(c[a]) /\ c[a].balance = IF a \in unread THEN 0 ELSE Balances(db)[a]
  <2>0. a \in Accounts
    OBVIOUS
  <2>1. CASE a \in DOMAIN db \ unread
    <3>1. PICK b : b = db[a].balance
      OBVIOUS
    <3>2. b \in Nat /\ Balances(db)[a] = b
      BY <2>0, <2>1, <3>1 DEF HasWallets, HasBalances, Balances
    <3>3. c[a] = [balance |-> b, tokens |-> << >>, history |-> NoHistory]
      BY <1>1, <2>1, <3>1 DEF CreatePtrWallet, EmptyWallet
    <3> QED BY <2>1, <3>2, <3>3, OfBalance
  <2>2. CASE a \notin DOMAIN db \ unread
    <3>1. c[a] = [balance |-> 0, tokens |-> << >>, history |-> NoHistory]
      BY <1>1, <2>2 DEF EmptyWallet
    <3>2. a \notin unread => Balances(db)[a] = 0
      BY <2>0, <2>2 DEF Balances
    <3>3. 0 \in Nat
      OBVIOUS
    <3>4. IsWallet(c[a]) /\ c[a].balance = 0
      BY <3>1, <3>3, OfBalance
    <3> QED BY <3>2, <3>4
  <2> QED BY <2>1, <2>2
<1>3. DOMAIN c = Parties(s) /\ c = [a \in DOMAIN c |-> c[a]]
  BY <1>1
<1>4. IsCache(c)
  BY <1>2, <1>3 DEF IsCache
<1> QED BY <1>2, <1>3, <1>4

\* The units of wallets that could not be read are the others' complement.
LEMMA StartAccounts ==
    ASSUME NEW s, Parties(s) \subseteq Accounts, NEW db, HasWallets(db),
           NEW unread, unread \subseteq Parties(s) \cap DOMAIN db,
           NEW c, c = LoadCache(s, db, unread), NEW part, part = [a \in unread |-> db[a]]
    PROVE  /\ IsCache(c) /\ Units(part) \in Nat /\ Units(db) \in Int
           /\ \E w \in Int : Worth(Merged(c, db), w) /\ w + Units(part) = Units(db)
<1>1. /\ IsCache(c) /\ DOMAIN c = Parties(s)
      /\ \A a \in Parties(s) : c[a].balance = IF a \in unread THEN 0 ELSE Balances(db)[a]
  BY LoadedWallets
<1>2. HasBalances(db) /\ DOMAIN db \subseteq Accounts
  BY DEF HasWallets
<1>3. DOMAIN part = unread /\ \A a \in unread : part[a].balance = db[a].balance
  OBVIOUS
<1>4. DOMAIN part \subseteq Accounts /\ HasBalances(part)
  BY <1>2, <1>3 DEF HasBalances
<1>5. PICK u, v, x : u = Balances(db) /\ v = Merged(c, db) /\ x = Balances(part)
  OBVIOUS
<1>6. /\ u \in [Accounts -> Nat] /\ Worth(u, Units(db))
      /\ x \in [Accounts -> Nat] /\ Worth(x, Units(part))
      /\ v \in [Accounts -> Nat]
  BY <1>1, <1>2, <1>4, <1>5, UnitsAreWorth, MergedIsNat
<1>7. PICK w : Worth(v, w)
  BY <1>6, WorthExists
<1>8. PICK F, G, H : /\ IsSum(F, Accounts, u) /\ Units(db) = F[Accounts]
                     /\ IsSum(G, Accounts, v) /\ w = G[Accounts]
                     /\ IsSum(H, Accounts, x) /\ Units(part) = H[Accounts]
  BY <1>6, <1>7, Zenon DEF Worth
<1>9. ASSUME NEW a \in Accounts
      PROVE  u[a] \in Nat /\ v[a] \in Nat /\ x[a] \in Nat /\ u[a] = v[a] + x[a]
  <2>1. u[a] \in Nat /\ v[a] \in Nat /\ x[a] \in Nat
    BY <1>6
  <2>2. u[a] = IF a \in DOMAIN db THEN db[a].balance ELSE 0
    BY <1>5 DEF Balances
  <2>3. v[a] = IF a \in Parties(s) THEN c[a].balance ELSE u[a]
    BY <1>1, <1>5 DEF Merged
  <2>4. x[a] = IF a \in unread THEN db[a].balance ELSE 0
    BY <1>3, <1>5 DEF Balances
  <2>5. CASE a \in unread
    <3>1. a \in Parties(s) /\ a \in DOMAIN db
      BY <2>5
    <3>2. v[a] = 0 /\ x[a] = u[a]
      BY <1>1, <2>2, <2>3, <2>4, <2>5, <3>1
    <3> QED BY <2>1, <3>2
  <2>6. CASE a \notin unread
    <3>1. x[a] = 0
      BY <2>4, <2>6
    <3>2. v[a] = u[a]
      BY <1>1, <1>5, <2>3, <2>6
    <3> QED BY <2>1, <3>1, <3>2
  <2> QED BY <2>5, <2>6
<1>10. F[Accounts] = G[Accounts] + H[Accounts]
  BY <1>8, <1>9, RootAssumption, SumsAdd
<1>11. F[Accounts] \in Int /\ G[Accounts] \in Int
  BY <1>8 DEF IsSum
<1>12. Units(part) \in Nat
  <2>1. Worth(x, Units(part)) /\ x \in [Accounts -> Nat]
    BY <1>6
  <2> QED BY <2>1, WorthIsNat
<1> QED BY <1>1, <1>5, <1>7, <1>8, <1>10, <1>11, <1>12

\* A shard starts from what is stored, less what could not be read.
LEMMA StartKeeps ==
    ASSUME NEW s, Parties(s) \subseteq Accounts, NEW loaded, NEW db, HasWallets(db),
           NEW unread, unread \subseteq Parties(s) \cap DOMAIN db
    PROVE  Keeps(Start(s, loaded, unread, db), db, Units(db)) /\ Units(db) \in Int
<1>1. PICK st, c, part, n : /\ st = Start(s, loaded, unread, db) /\ c = LoadCache(s, db, unread)
                            /\ part = [a \in unread |-> db[a]] /\ n = Units(db)
  OBVIOUS
<1>2. /\ IsCache(c) /\ Units(part) \in Nat /\ n \in Int
      /\ \E w \in Int : Worth(Merged(c, db), w) /\ w + Units(part) = n
  BY <1>1, StartAccounts
<1>3. CASE loaded
  <2>1. PICK k : k = Units(part)
    OBVIOUS
  <2>2. st = [Empty(c) EXCEPT !.lost = k]
    BY <1>1, <1>3, <2>1, Zenon DEF Start
  <2>4. IsState(st) /\ st.cache = c /\ st.minted = 0 /\ st.lost = k
    <3>1. IsEmpty(st, c, k)
      BY <2>2, Zenon DEF IsEmpty
    <3> QED BY <3>1, EmptyFields
  <2>5. Accounted(st, db, n)
    <3>1. PICK w \in Int : Worth(Merged(c, db), w) /\ w + k = n
      BY <1>2, <2>1
    <3>2. w + k = n + 0
      BY <1>2, <3>1
    <3> QED BY <2>4, <3>1, <3>2, Zenon DEF Accounted
  <2> QED BY <1>1, <1>2, <2>1, <2>4, <2>5 DEF Keeps
<1>4. CASE ~loaded
  <2>1. st = Empty(<< >>)
    BY <1>1, <1>4, Zenon DEF Start
  <2>3. IsState(st) /\ st.cache = << >> /\ st.minted = 0 /\ st.lost = 0
    <3>1. IsEmpty(st, << >>, 0)
      BY <2>1, Zenon DEF IsEmpty
    <3> QED BY <3>1, EmptyFields
  <2>4. PICK e : e = st.cache
    OBVIOUS
  <2>5. DOMAIN e = {} /\ e = [a \in DOMAIN e |-> e[a]]
    BY <2>3, <2>4
  <2>6. IsCache(e) /\ Merged(e, db) = Balances(db)
    BY <2>5 DEF IsCache, Merged, Balances
  <2>7. Worth(Balances(db), n)
    BY <1>1, UnitsAreWorth DEF HasWallets
  <2>8. n + 0 = n + 0
    OBVIOUS
  <2>9. Accounted(st, db, n)
    BY <1>2, <2>3, <2>4, <2>6, <2>7 DEF Accounted
  <2> QED BY <1>1, <1>2, <2>3, <2>4, <2>6, <2>9 DEF Keeps
<1> QED BY <1>3, <1>4

\* The work on a shard keeps what all accounts hold.
LEMMA ShardKeeps ==
    ASSUME NEW s \in Shards, NEW loaded, NEW db, HasWallets(db),
           NEW unread, unread \subseteq Parties(s) \cap DOMAIN db, NEW history, NEW unreadable
    PROVE  /\ Keeps(ProcessShard(s, loaded, unread, db, history, unreadable), db, Units(db))
           /\ Units(db) \in Int
<1>1. PICK n, p : /\ n = Units(db)
                  /\ p = ProcessShard(s, loaded, unread, db, history, unreadable)
  OBVIOUS
<1>2. s \in Seq(ToSet(s)) /\ \A t \in ToSet(s) : IsTx(t)
  BY ShardsAssumption DEF IsTx
<1>3. PICK g : /\ g[0] = Start(s, loaded, unread, db)
               /\ \A i \in 1..Len(s) : g[i] = Apply(g[i - 1], s[i], history, unreadable)
               /\ p = g[Len(s)]
  BY <1>1, <1>2, ShardInOrder
<1>4. HasBalances(db)
  BY DEF HasWallets
<1>5. Keeps(g[0], db, n) /\ n \in Int
  <2>1. Parties(s) \subseteq Accounts
    BY ShardsAssumption DEF Parties
  <2> QED BY <1>1, <1>3, <2>1, StartKeeps
<1>6. ASSUME NEW i \in 1..Len(s), Keeps(g[i - 1], db, n) PROVE Keeps(g[i], db, n)
  <2>1. IsTx(s[i])
    <3>1. s[i] \in ToSet(s)
      BY <1>2
    <3> QED BY <1>2, <3>1
  <2>2. PICK u, t : u = g[i - 1] /\ t = s[i]
    OBVIOUS
  <2>3. Keeps(Apply(u, t, history, unreadable), db, n)
    BY <1>4, <1>5, <1>6, <2>1, <2>2, ApplyKeeps
  <2> QED BY <1>3, <2>2, <2>3
<1>7. PICK T : T = {i \in Nat : i <= Len(s) /\ ~Keeps(g[i], db, n)}
  OBVIOUS
<1>8. Len(s) \in Nat
  BY <1>2
<1>9. T = {}
  <2> SUFFICES ASSUME T # {} PROVE FALSE
    OBVIOUS
  <2>1. PICK i \in T : \A y \in T : i <= y
    BY <1>7, Smallest
  <2>2. i \in Nat /\ i <= Len(s) /\ ~Keeps(g[i], db, n)
    BY <1>7
  <2>3. i # 0
    BY <1>5, <2>2
  <2>4. i \in 1..Len(s) /\ i - 1 \in Nat /\ i - 1 <= Len(s) /\ ~(i <= i - 1)
    BY <1>8, <2>2, <2>3
  <2>5. Keeps(g[i - 1], db, n)
    BY <1>7, <2>1, <2>4
  <2> QED BY <1>6, <2>2, <2>4, <2>5
<1> QED BY <1>1, <1>3, <1>5, <1>7, <1>8, <1>9

\* What the user database holds once the wallets of a cache are written back.
LEMMA WrittenBack ==
    ASSUME NEW db, HasWallets(db), NEW st, IsCache(st.cache)
    PROVE  /\ HasWallets(Put(UserBatch(st), db))
           /\ Balances(Put(UserBatch(st), db)) = Merged(st.cache, db)
<1>1. PICK c, u, d : c = st.cache /\ u = UserBatch(st) /\ d = Put(u, db)
  OBVIOUS
<1>2. u = [a \in DOMAIN c |-> Serialize(c[a])]
  BY <1>1 DEF UserBatch
<1>3. DOMAIN u = DOMAIN c /\ \A a \in DOMAIN c : u[a].balance = c[a].balance
  BY <1>2 DEF Serialize
<1>4. DOMAIN d = DOMAIN c \cup DOMAIN db
  BY <1>1, <1>3 DEF Put
<1>5. \A a \in DOMAIN d : d[a].balance = IF a \in DOMAIN c THEN c[a].balance ELSE db[a].balance
  BY <1>1, <1>3, <1>4 DEF Put
<1>6. HasWallets(d)
  BY <1>1, <1>4, <1>5 DEF HasWallets, HasBalances, IsCache, IsWallet
<1>7. Balances(d) = Merged(c, db)
  <2>1. \A a \in Accounts : (IF a \in DOMAIN d THEN d[a].balance ELSE 0)
          = IF a \in DOMAIN c THEN c[a].balance ELSE Balances(db)[a]
    BY <1>4, <1>5 DEF Balances
  <2> QED BY <2>1 DEF Balances, Merged
<1> QED BY <1>1, <1>6, <1>7

\* The units in it are what all accounts hold.
LEMMA UnitsWritten ==
    ASSUME NEW db, HasWallets(db), NEW st, IsCache(st.cache), NEW n,
           Worth(Merged(st.cache, db), n)
    PROVE  Units(Put(UserBatch(st), db)) = n
<1>1. PICK d : d = Put(UserBatch(st), db)
  OBVIOUS
<1>2. DOMAIN d \subseteq Accounts /\ HasBalances(d) /\ Balances(d) = Merged(st.cache, db)
  BY <1>1, WrittenBack DEF HasWallets
<1>3. Worth(Balances(d), Units(d))
  BY <1>2, UnitsAreWorth
<1>4. Worth(Balances(d), n)
  BY <1>2
<1> QED BY <1>1, <1>3, <1>4, WorthUnique

\* An empty database holds nothing.
LEMMA NoUnits == HasWallets(<< >>) /\ Units(<< >>) = 0
<1>1. PICK db : db = << >>
  OBVIOUS
<1>2. DOMAIN db = {}
  BY <1>1
<1>3. HasWallets(db)
  BY <1>2 DEF HasWallets, HasBalances
<1>4. IsFiniteSet(DOMAIN db)
  BY <1>2, FS_EmptySet
<1>5. PICK F : IsFold(F, db) /\ Units(db) = F[DOMAIN db]
  BY <1>4, UnitsFold
<1>6. Units(db) = 0
  BY <1>2, <1>5 DEF IsFold
<1> QED BY <1>1, <1>3, <1>6

\* The genesis shard makes the supply, and nothing else.
LEMMA GenesisMakesSupply ==
    ASSUME NEW st, st = ProcessGenesis(GenesisTx)
    PROVE  /\ IsCache(st.cache) /\ st.minted = 0 /\ st.lost = 0
           /\ \A db : HasWallets(db) /\ DOMAIN db \subseteq {Root} =>
                Units(Put(UserBatch(st), db)) = Supply
<1>1. PICK w, c, d : /\ w = Increase(EmptyWallet, Supply, GenesisId)
                     /\ c = Entry(Root, EmptyWallet) /\ d = Entry(Root, w)
  OBVIOUS
<1>2. IsWallet(w) /\ w.balance = Supply
  <2>1. IsWallet(EmptyWallet) /\ EmptyWallet.balance = 0
    BY DEF EmptyWallet, IsWallet
  <2>2. Supply \in 0..UintSize - 1 /\ Plus(0, Supply) = Supply
    BY SupplyAssumption, UintAssumption DEF Plus
  <2>3. IsWallet(w) /\ w.balance = Plus(EmptyWallet.balance, Supply)
    BY <1>1, <2>1, <2>2, WalletIsPaid
  <2> QED BY <2>1, <2>2, <2>3, Zenon
<1>3. st.cache = d /\ st.minted = 0 /\ st.lost = 0
  <2>1. GenesisTx.to = Root /\ GenesisTx.amount = Supply /\ GenesisTx.id = GenesisId
    BY DEF GenesisTx
  <2>2. PICK e : e = Empty(c)
    OBVIOUS
  <2>4. IsState(e) /\ e.cache = c /\ e.minted = 0 /\ e.lost = 0
    <3>1. IsEmpty(e, c, 0)
      BY <2>2, Zenon DEF IsEmpty
    <3> QED BY <3>1, EmptyFields
  <2>5. st = Credit(e, GenesisTx)
    BY <1>1, <2>1, <2>2, Zenon DEF ProcessGenesis
  <2>6. [c EXCEPT ![Root] = Increase(@, Supply, GenesisId)] = d
    BY <1>1 DEF Entry
  <2>7. PICK x, y, z : st = [e EXCEPT !.cache = d, !.history = x, !.txs = y, !.fates = z]
    <3>1. [e.cache EXCEPT ![GenesisTx.to] = Increase(@, GenesisTx.amount, GenesisTx.id)] = d
      BY <2>1, <2>4, <2>6, Zenon
    <3>2. st = [e EXCEPT !.cache = d,
                         !.history = Put(Entry(GenesisTx.to, d[GenesisTx.to].history), @),
                         !.txs = @ \cup {GenesisTx.id},
                         !.fates = Append(@, "done")]
      BY <2>5, <3>1, Zenon DEF Credit
    <3> QED BY <3>2, Zenon
  <2>8. Consists(st, d, x, y, e.tokens, e.declined, e.thrown, z, e.minted, e.lost)
    BY <2>4, <2>7 DEF Consists, IsState
  <2>9. st.cache = d /\ st.minted = e.minted /\ st.lost = e.lost
    BY ONLY <2>8, FieldsOfState
  <2> QED BY <2>4, <2>9
<1>4. DOMAIN st.cache = {Root} /\ st.cache[Root] = w
  BY <1>1, <1>3 DEF Entry
<1>5. IsCache(st.cache)
  <2>1. st.cache = [a \in DOMAIN st.cache |-> st.cache[a]]
    BY <1>1, <1>3 DEF Entry
  <2> QED BY <1>2, <1>4, <2>1, RootAssumption DEF IsCache
<1>6. ASSUME NEW db, HasWallets(db), DOMAIN db \subseteq {Root}
      PROVE  Units(Put(UserBatch(st), db)) = Supply
  <2>1. PICK v : v = Merged(st.cache, db)
    OBVIOUS
  <2>2. v \in [Accounts -> Nat]
    BY <1>5, <1>6, <2>1, MergedIsNat DEF HasWallets
  <2>3. v[Root] = Supply
    BY <1>2, <1>4, <2>1, RootAssumption DEF Merged
  <2>4. \A a \in Accounts \ {Root} : v[a] = 0
    BY <1>4, <1>6, <2>1 DEF Merged, Balances
  <2>5. Worth(v, Supply)
    BY <2>2, <2>3, <2>4, RootAssumption, WorthOfOne
  <2> QED BY <1>5, <1>6, <2>1, <2>5, UnitsWritten
<1> QED BY <1>3, <1>5, <1>6

-----------------------------------------------------------------------------
(* The supply *)

\* The index of a block is a number.
Numbered == previous.index \in Nat /\ current.index \in Nat /\ currentKey.index \in Nat

\* At most the genesis wallet is stored, and nothing was minted or lost.
OnlyGenesis == DOMAIN userDB \subseteq {Root} /\ minted = 0 /\ lost = 0

\* Where the shard of the block under way comes from.  Index 0 and one shard is
\* the genesis block: unless it is a second one over a chain that had moved on,
\* no more is stored than the first one left.
ShardInHand ==
    bpc \in {"pop", "process"} =>
        /\ Len(current.shards) = 1 =>
              IF current.index = 0
              THEN ~reborn => OnlyGenesis
              ELSE current.shards[1] \in Shards
        /\ Len(current.shards) = 2 => reborn

\* What writing the wallets of the block under way will leave in the database.
WillAccount ==
    Units(Put(UserBatch(batch), userDB)) + (lost + batch.lost)
        \in {minted + batch.minted, Supply + (minted + batch.minted)}
BatchInHand ==
    bpc \in {"tokens", "history", "users"} /\ ~reborn =>
        /\ IsCache(batch.cache)
        /\ batch.minted \in Nat /\ batch.lost \in Nat
        /\ WillAccount

\* The wallets stored, and what was minted and lost.
IsStored == HasWallets(userDB) /\ minted \in Nat /\ lost \in Nat

\* The inductive invariant.
SupplyInv ==
    /\ shardList \in Seq(Shards)
    /\ ~reborn => IsStored
    /\ Numbered
    /\ ShardInHand
    /\ BatchInHand
    /\ SupplyAccounted

stored == <<userDB, minted, lost, reborn>>

\* The databases start empty.
LEMMA SupplyInit == Init => SupplyInv
<1> SUFFICES ASSUME Init PROVE SupplyInv
  OBVIOUS
<1>1. HasWallets(userDB) /\ Units(userDB) = 0 /\ minted = 0 /\ lost = 0
  BY NoUnits DEF Init
<1>2. shardList \in Seq(Shards)
  BY DEF Init
<1>3. Numbered
  BY DEF Init, Numbered, NoBlock
<1>4. bpc = "boot"
  BY DEF Init
<1>5. SupplyAccounted /\ IsStored
  BY <1>1 DEF SupplyAccounted, IsStored
<1> QED BY <1>2, <1>3, <1>4, <1>5 DEF SupplyInv, ShardInHand, BatchInHand

\* Of a step that writes no wallet, the parts of the invariant about the block
\* and the batch in hand remain to be shown.
LEMMA WalletsUntouched ==
    ASSUME SupplyInv, stored' = stored, shardList' \in Seq(Shards), Numbered',
           ShardInHand', BatchInHand'
    PROVE  SupplyInv'
  BY DEF SupplyInv, SupplyAccounted, IsStored, HasWallets, HasBalances, stored

\* Steps that keep the batch, and steps with no block in hand.
LEMMA BatchKept ==
    ASSUME SupplyInv, stored' = stored, batch' = batch, shardList' = shardList,
           bpc \in {"tokens", "history", "users"} \/ bpc' \notin {"tokens", "history", "users"},
           bpc' \notin {"pop", "process"}, Numbered'
    PROVE  SupplyInv'
<1>1. ShardInHand'
  BY DEF ShardInHand
<1>2. BatchInHand'
  BY DEF BatchInHand, WillAccount, SupplyInv, stored
<1>3. shardList' \in Seq(Shards)
  BY DEF SupplyInv
<1> QED BY <1>1, <1>2, <1>3, WalletsUntouched

\* Steps without a batch.
LEMMA NoBatchInHand ==
    ASSUME bpc' \notin {"tokens", "history", "users"}
    PROVE  BatchInHand'
  BY DEF BatchInHand

\* The genesis shard accounts for the supply.
LEMMA FirstAccounts ==
    ASSUME SupplyInv, ProcessFirst
    PROVE  BatchInHand'
<1>1. /\ stored' = stored /\ bpc = "process" /\ Len(current.shards) = 1 /\ current.index = 0
      /\ batch' = ProcessGenesis(GenesisTx)
  BY DEF ProcessFirst, disk, ghosts, stored
<1> SUFFICES ASSUME ~reborn PROVE IsCache(batch'.cache) /\ batch'.minted \in Nat
                                  /\ batch'.lost \in Nat /\ WillAccount'
  BY <1>1 DEF BatchInHand, stored
<1>2. OnlyGenesis /\ IsStored
  BY <1>1 DEF SupplyInv, ShardInHand
<1>3. /\ IsCache(batch'.cache) /\ batch'.minted = 0 /\ batch'.lost = 0
      /\ Units(Put(UserBatch(batch'), userDB)) = Supply
  BY <1>1, <1>2, GenesisMakesSupply DEF OnlyGenesis, IsStored
<1>4. minted = 0 /\ lost = 0
  BY <1>2 DEF OnlyGenesis
<1>5. Supply + (0 + 0) = Supply + (0 + 0)
  OBVIOUS
<1>6. WillAccount'
  BY <1>1, <1>3, <1>4 DEF WillAccount, stored
<1> QED BY <1>3, <1>6

\* Any other shard keeps the accounts.
LEMMA ShardAccounts ==
    ASSUME SupplyInv, Process
    PROVE  BatchInHand'
<1>1. stored' = stored /\ bpc = "process" /\ Len(current.shards) = 1 /\ current.index # 0
  BY DEF Process, disk, ghosts, stored
<1>2. PICK shard, loaded, unreadable, unread :
        /\ shard = current.shards[1] /\ unread \in SUBSET (Parties(shard) \cap DOMAIN userDB)
        /\ batch' = ProcessShard(shard, loaded, unread, userDB, historyDB, unreadable)
  BY Zenon DEF Process
<1> SUFFICES ASSUME ~reborn PROVE IsCache(batch'.cache) /\ batch'.minted \in Nat
                                  /\ batch'.lost \in Nat /\ WillAccount'
  BY <1>1 DEF BatchInHand, stored
<1>3. shard \in Shards
  BY <1>1, <1>2 DEF SupplyInv, ShardInHand
<1>4. HasWallets(userDB) /\ minted \in Nat /\ lost \in Nat
  BY DEF SupplyInv, IsStored
<1>5. PICK st : st = batch'
  OBVIOUS
<1>6. Keeps(st, userDB, Units(userDB)) /\ Units(userDB) \in Int
  BY <1>2, <1>3, <1>4, <1>5, ShardKeeps
<1>7. PICK w \in Int : /\ Worth(Merged(st.cache, userDB), w)
                       /\ w + st.lost = Units(userDB) + st.minted
  BY <1>6 DEF Keeps, Accounted
<1>8. IsCache(st.cache) /\ st.minted \in Nat /\ st.lost \in Nat
  BY <1>6 DEF Keeps
<1>9. Units(Put(UserBatch(st), userDB)) = w
  BY <1>4, <1>7, <1>8, UnitsWritten
<1>10. PICK i, j, n : i = st.minted /\ j = st.lost /\ n = Units(userDB)
  OBVIOUS
<1>11. n + lost = minted \/ n + lost = Supply + minted
  BY <1>10 DEF SupplyInv, SupplyAccounted
<1>12. w + (lost + j) = minted + i \/ w + (lost + j) = Supply + (minted + i)
  <2>1. /\ w + j = n + i /\ w \in Int /\ n \in Int /\ i \in Nat /\ j \in Nat
        /\ minted \in Nat /\ lost \in Nat /\ Supply \in Nat
    BY <1>4, <1>6, <1>7, <1>8, <1>10, SupplyAssumption
  <2> QED BY ONLY <1>11, <2>1
<1>13. Units(Put(UserBatch(st), userDB)) + (lost + st.lost)
         \in {minted + st.minted, Supply + (minted + st.minted)}
  BY <1>9, <1>10, <1>12
<1>14. WillAccount'
  BY <1>1, <1>5, <1>13 DEF WillAccount, stored
<1> QED BY <1>5, <1>8, <1>14

\* Every step keeps the supply invariant.
LEMMA SupplyStep == ChainInv /\ SupplyInv /\ [Next]_vars => SupplyInv'
<1> SUFFICES ASSUME ChainInv, SupplyInv, [Next]_vars PROVE SupplyInv'
  OBVIOUS
<1>0. /\ shardList \in Seq(Shards) /\ (~reborn => IsStored) /\ Numbered
      /\ ShardInHand /\ BatchInHand /\ SupplyAccounted
  BY DEF SupplyInv
<1>1. ASSUME NEW s \in Shards, EmplaceShard(s) PROVE SupplyInv'
  <2>1. shardList' \in Seq(Shards)
    BY <1>0, <1>1, AppendProperties DEF EmplaceShard
  <2>2. UNCHANGED <<bpc, previous, current, batch, stored, currentKey>>
    BY <1>1 DEF EmplaceShard, disk, ghosts, stored
  <2>3. Numbered' /\ ShardInHand' /\ BatchInHand'
    BY <1>0, <2>2 DEF Numbered, ShardInHand, BatchInHand, OnlyGenesis, WillAccount, stored
  <2> QED BY <2>1, <2>2, <2>3, WalletsUntouched
<1>2. CASE BuildNext
  <2>1. /\ UNCHANGED <<shardList, previous, stored, currentKey>>
        /\ bpc' \in {"pop", "process"}
        /\ current' = [hash |-> hashes + 1, parent |-> previous.hash,
                       index |-> previous.index + 1, shards |-> FrontShard]
    BY <1>2 DEF BuildNext, Build, disk, ghosts, stored
  <2>2. previous.index + 1 \in Nat /\ previous.index + 1 # 0
    BY <1>0 DEF Numbered
  <2>3. Numbered'
    BY <1>0, <2>1, <2>2 DEF Numbered
  <2>4. Len(FrontShard) # 2
    BY DEF FrontShard
  <2>5. Len(FrontShard) = 1 => FrontShard[1] \in Shards
    <3> SUFFICES ASSUME Len(FrontShard) = 1 PROVE FrontShard[1] \in Shards
      OBVIOUS
    <3>1. shardList # << >>
      BY DEF FrontShard
    <3>2. Head(shardList) \in Shards
      BY <1>0, <3>1, HeadTailProperties
    <3> QED BY <3>1, <3>2 DEF FrontShard
  <2>6. ShardInHand'
    BY <2>1, <2>2, <2>4, <2>5 DEF ShardInHand
  <2>7. BatchInHand' /\ shardList' \in Seq(Shards)
    BY <1>0, <2>1, NoBatchInHand
  <2> QED BY <2>1, <2>3, <2>6, <2>7, WalletsUntouched
<1>3. CASE PopShard
  <2>1. /\ UNCHANGED <<previous, current, stored, currentKey>>
        /\ bpc = "pop" /\ bpc' = "process"
        /\ shardList' = SubSeq(shardList, 1, Len(shardList) - 1)
    BY <1>3 DEF PopShard, disk, ghosts, stored
  <2>2. shardList' \in Seq(Shards)
    <3>1. PICK n : n = Len(shardList) - 1
      OBVIOUS
    <3>2. n \in Int /\ 1 \in Int /\ \A i \in 1..n : shardList[i] \in Shards
      BY <1>0, <3>1
    <3>3. SubSeq(shardList, 1, n) \in Seq(Shards)
      BY <3>2, SubSeqProperties
    <3> QED BY <2>1, <3>1, <3>3
  <2>3. Numbered' /\ ShardInHand'
    BY <1>0, <2>1 DEF Numbered, ShardInHand, OnlyGenesis, stored
  <2> QED BY <2>1, <2>2, <2>3, NoBatchInHand, WalletsUntouched
<1>4. CASE BuildResume
  <2>1. /\ UNCHANGED <<shardList, previous, stored, currentKey>>
        /\ bpc' = "process"
        /\ current' = [hash |-> hashes + 1, parent |-> currentKey.hash,
                       index |-> currentKey.index, shards |-> << >>]
    BY <1>4 DEF BuildResume, Build, disk, ghosts, stored
  <2>2. Numbered'
    BY <1>0, <2>1 DEF Numbered
  <2>3. ShardInHand' /\ shardList' \in Seq(Shards)
    BY <1>0, <2>1 DEF ShardInHand
  <2> QED BY <2>1, <2>2, <2>3, NoBatchInHand, WalletsUntouched
<1>5. CASE BuildGenesis
  <2>1. /\ UNCHANGED <<shardList, previous, userDB, minted, lost, currentKey>>
        /\ bpc' = "process"
        /\ reborn' = (reborn \/ MovedOn \/ shardList # << >>)
        /\ current' = [hash |-> hashes + 1, parent |-> NoHash,
                       index |-> 0, shards |-> <<  <<GenesisTx>>  >> \o FrontShard]
    BY <1>5, Zenon DEF BuildGenesis, Build, disk
  <2>2. ~reborn' => ~reborn /\ OnlyGenesis /\ shardList = << >>
    <3>1. ~MovedOn => OnlyGenesis
      BY Zenon DEF MovedOn, OnlyGenesis
    <3> QED BY <2>1, <3>1, Zenon
  <2>3. Numbered'
    BY <1>0, <2>1 DEF Numbered
  <2>4. ~reborn' => Len(<<  <<GenesisTx>>  >> \o FrontShard) # 2
    <3> SUFFICES ASSUME ~reborn' PROVE Len(<<  <<GenesisTx>>  >> \o FrontShard) # 2
      OBVIOUS
    <3>1. PICK q : q = << >>
      OBVIOUS
    <3>2. FrontShard = q
      BY <2>2, <3>1 DEF FrontShard
    <3>3. Len(<<  <<GenesisTx>>  >> \o q) = 1
      BY <3>1
    <3> QED BY <3>2, <3>3
  <2>5. ~reborn' => OnlyGenesis'
    BY <2>1, <2>2 DEF OnlyGenesis
  <2>6. ShardInHand'
    <3>1. current'.index = 0 /\ current'.shards = <<  <<GenesisTx>>  >> \o FrontShard
      BY <2>1
    <3>2. Len(current'.shards) = 2 => reborn'
      BY <2>4, <3>1, Zenon
    <3> QED BY <2>5, <3>1, <3>2, Zenon DEF ShardInHand
  <2>7. ~reborn' => IsStored'
    BY <1>0, <2>1, <2>2 DEF IsStored, HasWallets, HasBalances
  <2>8. SupplyAccounted'
    BY <1>0, <2>1, <2>2 DEF SupplyAccounted
  <2>9. BatchInHand' /\ shardList' \in Seq(Shards)
    BY <1>0, <2>1, NoBatchInHand
  <2> QED BY <2>3, <2>6, <2>7, <2>8, <2>9 DEF SupplyInv
<1>6. CASE ProcessNothing
  <2>1. /\ UNCHANGED <<shardList, previous, current, stored, currentKey>>
        /\ bpc' = "block"
    BY <1>6 DEF ProcessNothing, disk, ghosts, stored
  <2>2. Numbered' /\ ShardInHand' /\ shardList' \in Seq(Shards)
    BY <1>0, <2>1 DEF Numbered, ShardInHand
  <2> QED BY <2>1, <2>2, NoBatchInHand, WalletsUntouched
\* the shards
<1>7. CASE ProcessFirst
  <2>1. /\ UNCHANGED <<shardList, previous, current, stored, currentKey>>
        /\ bpc' = "history"
    BY <1>7 DEF ProcessFirst, disk, ghosts, stored
  <2>2. Numbered' /\ ShardInHand' /\ shardList' \in Seq(Shards)
    BY <1>0, <2>1 DEF Numbered, ShardInHand
  <2> QED BY <1>7, <2>1, <2>2, FirstAccounts, WalletsUntouched
<1>7a. CASE ProcessBoth
  <2>1. /\ UNCHANGED <<shardList, previous, current, stored, currentKey>>
        /\ bpc = "process" /\ bpc' = "history" /\ Len(current.shards) = 2
    BY <1>7a DEF ProcessBoth, disk, ghosts, stored
  <2>2. Numbered' /\ ShardInHand' /\ shardList' \in Seq(Shards)
    BY <1>0, <2>1 DEF Numbered, ShardInHand
  <2>3. reborn'
    BY <1>0, <2>1 DEF ShardInHand, stored
  <2>4. BatchInHand'
    BY <2>3, Zenon DEF BatchInHand
  <2> QED BY <2>1, <2>2, <2>4, WalletsUntouched
<1>8. CASE Process
  <2>1. /\ UNCHANGED <<shardList, previous, stored, currentKey>>
        /\ bpc = "process" /\ Len(current.shards) = 1 /\ current.index # 0
        /\ bpc' \in {"tokens", "history"}
    BY <1>8 DEF Process, disk, ghosts, stored
  <2>2. PICK listed : current' = [current EXCEPT !.shards[1] = listed]
    BY <1>8, Zenon DEF Process
  <2>3. current'.index = current.index
    <3>1. IsBlock(current)
      BY <2>1 DEF ChainInv, BlockInHand, UnderWay
    <3> QED BY <2>2, <3>1 DEF IsBlock
  <2>4. Numbered' /\ ShardInHand' /\ shardList' \in Seq(Shards)
    BY <1>0, <2>1, <2>3 DEF Numbered, ShardInHand
  <2> QED BY <1>8, <2>1, <2>4, ShardAccounts, WalletsUntouched
<1>9. CASE CommitTokens
  <2>1. UNCHANGED <<shardList, previous, current, batch, stored, currentKey>>
        /\ bpc = "tokens" /\ bpc' = "history"
    BY <1>9 DEF CommitTokens, ghosts, stored
  <2>2. Numbered'
    BY <1>0, <2>1 DEF Numbered
  <2> QED BY <2>1, <2>2, BatchKept
<1>10. CASE CommitHistory
  <2>1. UNCHANGED <<shardList, previous, current, batch, stored, currentKey>>
        /\ bpc = "history" /\ bpc' = "users"
    BY <1>10 DEF CommitHistory, ghosts, stored
  <2>2. Numbered'
    BY <1>0, <2>1 DEF Numbered
  <2> QED BY <2>1, <2>2, BatchKept
\* the one step that writes wallets
<1>11. CASE CommitUsers
  <2>1. UNCHANGED <<shardList, previous, current, batch, currentKey, reborn>>
        /\ bpc = "users" /\ bpc' = "block"
    BY <1>11 DEF CommitUsers
  <2>2. \/ userDB' = userDB /\ minted' = minted /\ lost' = lost
        \/ /\ userDB' = Put(UserBatch(batch), userDB)
           /\ minted' = minted + batch.minted /\ lost' = lost + batch.lost
    BY <1>11 DEF CommitUsers
  <2>3. ASSUME ~reborn, userDB' = Put(UserBatch(batch), userDB),
               minted' = minted + batch.minted, lost' = lost + batch.lost
        PROVE  IsStored' /\ SupplyAccounted'
    <3>1. /\ IsCache(batch.cache) /\ batch.minted \in Nat /\ batch.lost \in Nat /\ WillAccount
          /\ IsStored
      BY <1>0, <2>1, <2>3 DEF BatchInHand
    <3>2. HasWallets(Put(UserBatch(batch), userDB))
      BY <3>1, WrittenBack DEF IsStored
    <3>3. IsStored'
      BY <2>3, <3>1, <3>2 DEF IsStored
    <3>4. SupplyAccounted'
      BY <2>3, <3>1, Zenon DEF SupplyAccounted, WillAccount
    <3> QED BY <3>3, <3>4
  <2>4. (~reborn' => IsStored') /\ SupplyAccounted'
    <3>1. CASE userDB' = userDB /\ minted' = minted /\ lost' = lost
      BY <1>0, <2>1, <3>1 DEF IsStored, SupplyAccounted, HasWallets, HasBalances
    <3>2. CASE reborn
      BY <2>1, <3>2, Zenon DEF SupplyAccounted
    <3> QED BY <2>1, <2>2, <2>3, <3>1, <3>2, Zenon
  <2>5. Numbered' /\ ShardInHand' /\ shardList' \in Seq(Shards)
    BY <1>0, <2>1 DEF Numbered, ShardInHand
  <2> QED BY <2>1, <2>4, <2>5, NoBatchInHand DEF SupplyInv
<1>12. CASE CommitBlock
  <2>1. /\ UNCHANGED <<shardList, previous, current, batch, stored>>
        /\ bpc' = "txs" /\ currentKey' \in {current, currentKey}
    BY <1>12 DEF CommitBlock, stored
  <2>2. Numbered'
    BY <1>0, <2>1 DEF Numbered
  <2> QED BY <2>1, <2>2, BatchKept
<1>13. CASE CommitTxs
  <2>1. /\ UNCHANGED <<shardList, stored, currentKey>>
        /\ bpc' = "build" /\ previous' = current /\ current' = NoBlock
    BY <1>13 DEF CommitTxs, ghosts, stored
  <2>2. Numbered'
    BY <1>0, <2>1 DEF Numbered, NoBlock
  <2>3. ShardInHand' /\ shardList' \in Seq(Shards)
    BY <1>0, <2>1 DEF ShardInHand
  <2> QED BY <2>1, <2>2, <2>3, NoBatchInHand, WalletsUntouched
<1>14. ASSUME Dies PROVE SupplyInv'
  <2>1. /\ UNCHANGED <<stored, currentKey>> /\ shardList' = << >>
        /\ bpc' = "down" /\ previous' = NoBlock /\ current' = NoBlock
    BY <1>14 DEF Dies, disk, ghosts, stored
  <2>2. Numbered'
    BY <1>0, <2>1 DEF Numbered, NoBlock
  <2>3. ShardInHand' /\ shardList' \in Seq(Shards)
    BY <1>0, <2>1 DEF ShardInHand
  <2> QED BY <2>1, <2>2, <2>3, NoBatchInHand, WalletsUntouched
<1>15. CASE Restart
  <2>1. UNCHANGED <<shardList, previous, current, batch, stored, currentKey>>
        /\ bpc' = "boot"
    BY <1>15 DEF Restart, disk, ghosts, stored
  <2>2. Numbered'
    BY <1>0, <2>1 DEF Numbered
  <2> QED BY <2>1, <2>2, BatchKept
<1>16. CASE UNCHANGED vars
  <2>1. UNCHANGED <<shardList, previous, current, batch, stored, currentKey, bpc>>
    BY <1>16 DEF vars, memory, disk, ghosts, stored
  <2>2. Numbered' /\ ShardInHand' /\ BatchInHand' /\ shardList' \in Seq(Shards)
    BY <1>0, <2>1 DEF Numbered, ShardInHand, BatchInHand, OnlyGenesis, WillAccount, stored
  <2> QED BY <2>1, <2>2, WalletsUntouched
<1> QED
  BY <1>1, <1>2, <1>3, <1>4, <1>5, <1>6, <1>7, <1>7a, <1>8, <1>9, <1>10, <1>11, <1>12, <1>13,
     <1>14, <1>15, <1>16 DEF Next, Crash, ProcessDies

\* The units in the user database are accounted for (TransactionProcessor.h,
\* setTxBatch and the commits of Blockchain.h): whatever the shards, with
\* transfers from a wallet to itself, transfers that cannot be paid, types the
\* code does not know and transactions processed twice, and whichever reads and
\* commits fail or crashes come between them, the supply is changed by the
\* unpaid transfers, the unread wallets and the overflows alone, and by exactly
\* their amounts, until a genesis block is built over a chain that had moved on
\* or with a second shard.
THEOREM SupplyIsAccounted == Spec => []SupplyAccounted
<1>1. Init => SupplyInv
  BY SupplyInit
<1>2. ChainInv /\ SupplyInv /\ [Next]_vars => SupplyInv'
  BY SupplyStep
<1>3. SupplyInv => SupplyAccounted
  BY DEF SupplyInv
<1> QED BY <1>1, <1>2, <1>3, ChainInvariant, PTL DEF Spec

-----------------------------------------------------------------------------
(* The stored records: sums of amounts *)

\* The amounts at some positions of a log N, as balances, and in all.
AmountsOf(N, S) == [i \in S |-> [balance |-> N[i].tx.amount]]
TotalOf(N, S) == FoldSet(LAMBDA i, sum : N[i].tx.amount + sum, 0, S)

\* Amounts are numbers.
HasAmounts(N, S) == \A i \in S : N[i].tx.amount \in Nat

\* The two sums of the models are the same fold.
LEMMA TotalIsUnits ==
    ASSUME NEW N, NEW S
    PROVE  TotalOf(N, S) = Units(AmountsOf(N, S))
<1>1. PICK db : db = AmountsOf(N, S)
  OBVIOUS
<1>2. DOMAIN db = S /\ \A e \in S : db[e].balance = N[e].tx.amount
  BY <1>1 DEF AmountsOf
<1> DEFINE Step(it) == [s \in SUBSET S |->
                          IF s = {} THEN 0
                          ELSE N[CHOOSE x \in s : TRUE].tx.amount + it[s \ {CHOOSE x \in s : TRUE}]]
           Step2(it) == [s \in SUBSET S |->
                          IF s = {} THEN 0
                          ELSE db[CHOOSE x \in s : TRUE].balance + it[s \ {CHOOSE x \in s : TRUE}]]
<1>3. TotalOf(N, S) = (CHOOSE it : it = Step(it))[S]
  BY DEF TotalOf, FoldSet, MapThenFoldSet
<1>4. Units(db) = (CHOOSE it : it = Step2(it))[S]
  BY <1>2 DEF Units, FoldFunction, FoldFunctionOnSet, MapThenFoldSet
<1>5. ASSUME NEW it PROVE Step(it) = Step2(it)
  <2>1. ASSUME NEW s \in SUBSET S, s # {}
        PROVE  db[CHOOSE x \in s : TRUE].balance = N[CHOOSE x \in s : TRUE].tx.amount
    <3>1. (CHOOSE x \in s : TRUE) \in s
      BY <2>1, Zenon
    <3> QED BY <1>2, <3>1
  <2> QED BY <2>1
<1> HIDE DEF Step, Step2
<1>6. (CHOOSE it : it = Step(it)) = (CHOOSE it : it = Step2(it))
  BY <1>5, Zenon
<1> QED BY <1>1, <1>3, <1>4, <1>6, Zenon

\* A total is a sum.
LEMMA TotalIsSum ==
    ASSUME NEW N, NEW S, IsFiniteSet(S), HasAmounts(N, S)
    PROVE  \E F, v : /\ IsSum(F, S, v) /\ \A e \in S : v[e] = N[e].tx.amount
                     /\ TotalOf(N, S) = F[S]
<1>1. PICK db, v : db = AmountsOf(N, S) /\ v = [a \in DOMAIN db |-> db[a].balance]
  OBVIOUS
<1>2. DOMAIN db = S /\ \A e \in S : db[e].balance = N[e].tx.amount
  BY <1>1 DEF AmountsOf
<1>3. HasBalances(db)
  BY <1>2 DEF HasBalances, HasAmounts
<1>4. PICK F : IsSum(F, S, v) /\ Units(db) = F[S]
  BY <1>1, <1>2, <1>3, UnitsAreSum
<1>5. \A e \in S : v[e] = N[e].tx.amount
  BY <1>1, <1>2
<1> QED BY <1>1, <1>4, <1>5, TotalIsUnits, Zenon

\* No entries, no amount.
LEMMA TotalOfNone ==
    ASSUME NEW N
    PROVE  TotalOf(N, {}) = 0
<1>1. IsFiniteSet({}) /\ HasAmounts(N, {})
  BY FS_EmptySet DEF HasAmounts
<1>2. PICK F, v : IsSum(F, {}, v) /\ TotalOf(N, {}) = F[{}]
  BY <1>1, TotalIsSum
<1> QED BY <1>2 DEF IsSum

\* The same amounts, the same total.
LEMMA TotalSame ==
    ASSUME NEW N, NEW O, NEW S, IsFiniteSet(S), HasAmounts(N, S), \A i \in S : O[i] = N[i]
    PROVE  TotalOf(O, S) = TotalOf(N, S)
<1>1. AmountsOf(O, S) = AmountsOf(N, S)
  BY DEF AmountsOf
<1> QED BY <1>1, TotalIsUnits, Zenon

\* One entry more adds its amount.
LEMMA TotalAdds ==
    ASSUME NEW N, NEW S, IsFiniteSet(S), HasAmounts(N, S), NEW e, e \notin S, N[e].tx.amount \in Nat
    PROVE  TotalOf(N, S \cup {e}) = N[e].tx.amount + TotalOf(N, S)
<1>1. PICK U : U = S \cup {e}
  OBVIOUS
<1>2. IsFiniteSet(U) /\ HasAmounts(N, U)
  BY <1>1, FS_AddElement DEF HasAmounts
<1>3. PICK F, v : /\ IsSum(F, U, v) /\ \A x \in U : v[x] = N[x].tx.amount
                  /\ TotalOf(N, U) = F[U]
  BY <1>2, TotalIsSum
<1>4. PICK G, w : /\ IsSum(G, S, w) /\ \A x \in S : w[x] = N[x].tx.amount
                  /\ TotalOf(N, S) = G[S]
  BY TotalIsSum
<1>5. F[U] = v[e] + F[U \ {e}]
  <2>1. U \in SUBSET U /\ e \in U
    BY <1>1
  <2> QED BY <1>3, <2>1 DEF IsSum
<1>6. U \ {e} = S /\ e \in U
  BY <1>1
<1>7. F[S] = G[S]
  <2>1. S \subseteq U /\ S \subseteq S /\ \A x \in S : v[x] = w[x]
    BY <1>1, <1>3, <1>4
  <2> QED BY <1>3, <1>4, <2>1, SumsAgree
<1> QED BY <1>1, <1>3, <1>4, <1>5, <1>6, <1>7, Zenon

\* Amounts add up to natural numbers.
LEMMA TotalIsNat ==
    ASSUME NEW N, NEW S, IsFiniteSet(S), HasAmounts(N, S)
    PROVE  TotalOf(N, S) \in Nat
<1>1. PICK T : T = {n \in Nat : \E u \in SUBSET S : Cardinality(u) = n /\ TotalOf(N, u) \notin Nat}
  OBVIOUS
<1>2. \A u \in SUBSET S : IsFiniteSet(u) /\ Cardinality(u) \in Nat /\ HasAmounts(N, u)
  BY FS_Subset, FS_CardinalityType DEF HasAmounts
<1>3. SUFFICES ASSUME T # {} PROVE FALSE
  BY <1>1, <1>2
<1>4. PICK n \in T : \A y \in T : n <= y
  BY <1>1, <1>3, Smallest
<1>5. PICK u \in SUBSET S : Cardinality(u) = n /\ TotalOf(N, u) \notin Nat
  BY <1>1
<1>6. PICK c : c \in u
  BY <1>5, TotalOfNone
<1>7. PICK s : s = u \ {c}
  OBVIOUS
<1>8. s \in SUBSET S /\ Cardinality(s) = n - 1 /\ c \notin s /\ u = s \cup {c}
  BY <1>2, <1>5, <1>6, <1>7, FS_RemoveElement
<1>9. TotalOf(N, s) \in Nat
  <2>1. n \in Nat /\ n - 1 \notin T
    BY <1>1, <1>4
  <2>2. n - 1 \in Nat
    BY <1>2, <1>8
  <2> QED BY <1>1, <1>8, <2>1, <2>2
<1>10. N[c].tx.amount \in Nat
  BY <1>6 DEF HasAmounts
<1>11. TotalOf(N, u) = N[c].tx.amount + TotalOf(N, s)
  BY <1>2, <1>8, <1>10, TotalAdds
<1>12. PICK x, y : x = N[c].tx.amount /\ y = TotalOf(N, s)
  OBVIOUS
<1>13. x + y \in Nat
  BY <1>9, <1>10, <1>12
<1> QED BY <1>5, <1>11, <1>12, <1>13

-----------------------------------------------------------------------------
(* The first m entries of a log *)

\* Amounts are those of a uint256_t.
IsLog(N, m) == \A i \in 1..m : N[i].tx.amount \in 0..UintSize - 1

\* The transfers made, those of a wallet, those it got and those it paid (the
\* genesis transaction, which nobody pays, left out).
IsMove(e) == e.fate # "declined" /\ e.tx.type \in {"TRANSFER", "OTHER"}
OwnTo(N, m, a) == {i \in 1..m : IsMove(N[i]) /\ a \in {N[i].tx.from, N[i].tx.to}}
GainedTo(N, m, a) == {i \in 1..m : IsMove(N[i]) /\ N[i].tx.to = a}
Pays1(e, a) == IsMove(e) /\ e.tx.from = a /\ e.fate = "done" /\ e.tx # GenesisTx
PaidTo(N, m, a) == {i \in 1..m : Pays1(N[i], a)}

\* What a log says of a balance, counting the positions in S: the transfers that
\* brought units are worth it and those that took some, but for w overflows.
Owes(N, m, a, S, balance, w) ==
    balance + (w * UintSize + TotalOf(N, PaidTo(N, m, a) \cap S)) = TotalOf(N, GainedTo(N, m, a) \cap S)
Owed(N, m, a, S, balance) == \E w \in 0..m : Owes(N, m, a, S, balance, w)

\* The positions are finitely many, with amounts.
LEMMA MovesHaveAmounts ==
    ASSUME NEW N, NEW m \in Nat, IsLog(N, m), NEW S, S \subseteq 1..m
    PROVE  IsFiniteSet(S) /\ HasAmounts(N, S) /\ TotalOf(N, S) \in Nat
<1>1. IsFiniteSet(S)
  <2>1. IsFiniteSet(1..m)
    BY FS_Interval
  <2> QED BY <2>1, FS_Subset
<1>2. HasAmounts(N, S)
  <2>1. \A i \in 1..m : N[i].tx.amount \in Nat
    BY UintAssumption DEF IsLog
  <2> QED BY <2>1 DEF HasAmounts
<1> QED BY <1>1, <1>2, TotalIsNat

\* What the entry at k adds to a sum over the positions in A.
Added(N, k, A) == IF k \in A THEN N[k].tx.amount ELSE 0

\* The next entry adds to the total, or does not.
LEMMA TotalGrows ==
    ASSUME NEW N, NEW m \in Nat, IsLog(N, m + 1), NEW A, A \subseteq 1..(m + 1), NEW B,
           B = A \ {m + 1}
    PROVE  /\ TotalOf(N, A) = TotalOf(N, B) + Added(N, m + 1, A)
           /\ TotalOf(N, B) \in Nat /\ Added(N, m + 1, A) \in Nat
<1>1. IsFiniteSet(B) /\ HasAmounts(N, B) /\ TotalOf(N, B) \in Nat
  <2>1. B \subseteq 1..(m + 1) /\ m + 1 \in Nat
    OBVIOUS
  <2> QED BY <2>1, MovesHaveAmounts
<1>2. PICK k, v : k = m + 1 /\ v = N[k].tx.amount
  OBVIOUS
<1>3. v \in Nat
  <2>1. k \in 1..(m + 1)
    BY <1>2
  <2> QED BY <1>2, <2>1, UintAssumption DEF IsLog
<1>4. CASE k \in A
  <2>1. A = B \cup {k} /\ k \notin B
    BY <1>2, <1>4
  <2>2. TotalOf(N, A) = v + TotalOf(N, B)
    BY <1>1, <1>2, <1>3, <2>1, TotalAdds
  <2>3. Added(N, k, A) = v
    BY <1>2, <1>4 DEF Added
  <2>4. PICK x : x = TotalOf(N, B)
    OBVIOUS
  <2>5. v + x = x + v
    BY <1>1, <1>3, <2>4
  <2> QED BY <1>1, <1>2, <1>3, <2>2, <2>3, <2>4, <2>5
<1>5. CASE k \notin A
  <2>1. A = B
    BY <1>2, <1>5
  <2>2. Added(N, k, A) = 0
    BY <1>2, <1>5 DEF Added
  <2>3. PICK x : x = TotalOf(N, B)
    OBVIOUS
  <2>4. x = x + 0
    BY <1>1, <2>3
  <2> QED BY <1>1, <1>2, <2>1, <2>2, <2>3, <2>4
<1> QED BY <1>4, <1>5

\* The balance follows the next entry of the log.
LEMMA OwedGrows ==
    ASSUME NEW N, NEW m \in Nat, IsLog(N, m + 1), NEW S, m + 1 \in S, NEW a,
           NEW b \in Nat, NEW c \in Nat, Owed(N, m, a, S, b), NEW p, NEW q, NEW x \in {0, UintSize},
           p = Added(N, m + 1, PaidTo(N, m + 1, a)), q = Added(N, m + 1, GainedTo(N, m + 1, a)),
           c + (p + x) = b + q
    PROVE  Owed(N, m + 1, a, S, c)
<1>1. PICK A, B, C, D : /\ A = PaidTo(N, m + 1, a) \cap S /\ B = GainedTo(N, m + 1, a) \cap S
                        /\ C = PaidTo(N, m, a) \cap S /\ D = GainedTo(N, m, a) \cap S
  OBVIOUS
<1>2. 1..m = (1..(m + 1)) \ {m + 1}
  OBVIOUS
<1>3. A \subseteq 1..(m + 1) /\ B \subseteq 1..(m + 1) /\ C = A \ {m + 1} /\ D = B \ {m + 1}
  BY <1>1, <1>2 DEF PaidTo, GainedTo
<1>4. Added(N, m + 1, A) = p /\ Added(N, m + 1, B) = q
  BY <1>1 DEF Added
<1>5. /\ TotalOf(N, A) = TotalOf(N, C) + p /\ TotalOf(N, C) \in Nat /\ p \in Nat
      /\ TotalOf(N, B) = TotalOf(N, D) + q /\ TotalOf(N, D) \in Nat /\ q \in Nat
  <2>1. /\ TotalOf(N, A) = TotalOf(N, C) + Added(N, m + 1, A)
        /\ TotalOf(N, C) \in Nat /\ Added(N, m + 1, A) \in Nat
    BY <1>3, TotalGrows
  <2>2. /\ TotalOf(N, B) = TotalOf(N, D) + Added(N, m + 1, B)
        /\ TotalOf(N, D) \in Nat /\ Added(N, m + 1, B) \in Nat
    BY <1>3, TotalGrows
  <2> QED BY <1>4, <2>1, <2>2, Zenon
<1>6. PICK w \in 0..m : Owes(N, m, a, S, b, w)
  BY DEF Owed
<1>7. PICK v \in 0..(m + 1) : v * UintSize = w * UintSize + x
  <2>1. w \in Nat /\ UintSize \in Nat
    BY UintAssumption
  <2>2. (w + 1) * UintSize = w * UintSize + UintSize /\ w * UintSize = w * UintSize + 0
    BY <2>1
  <2>3. w \in 0..(m + 1) /\ w + 1 \in 0..(m + 1)
    OBVIOUS
  <2> QED BY <2>2, <2>3
<1>8. PICK y, z : y = w * UintSize /\ z = v * UintSize
  OBVIOUS
<1>9. y \in Nat /\ z = y + x /\ x \in Nat
  <2>1. w \in Nat /\ UintSize \in Nat
    BY UintAssumption
  <2> QED BY <1>7, <1>8, <2>1
<1>10. PICK i, j : i = TotalOf(N, C) /\ j = TotalOf(N, D)
  OBVIOUS
<1>11. b + (y + i) = j
  BY <1>1, <1>6, <1>8, <1>10, Zenon DEF Owes
<1>12. i \in Nat /\ j \in Nat /\ p \in Nat /\ q \in Nat
  BY <1>5, <1>10
<1>14. c + (p + x) = b + q /\ b \in Nat /\ c \in Nat
  OBVIOUS
<1>13. c + (z + (i + p)) = j + q
  BY ONLY <1>9, <1>11, <1>12, <1>14
<1>15. Owes(N, m + 1, a, S, c, v)
  BY <1>1, <1>5, <1>8, <1>10, <1>13, Zenon DEF Owes
<1> QED BY <1>7, <1>15 DEF Owed

\* What became of a transaction.
Fates == {"declined", "done", "unpaid"}

\* A sequence with one member more.
LEMMA LastOf ==
    ASSUME NEW T, NEW f \in Seq(T), NEW x \in T
    PROVE  /\ Append(f, x) \in Seq(T) /\ Len(Append(f, x)) = Len(f) + 1
           /\ Append(f, x)[Len(f) + 1] = x /\ \A i \in 1..Len(f) : Append(f, x)[i] = f[i]
  OBVIOUS

\* The work on a shard with the wallets of P, after k transactions.
Cached(st, P, k) ==
    /\ IsState(st) /\ IsCache(st.cache) /\ DOMAIN st.cache = P
    /\ st.fates \in Seq(Fates) /\ Len(st.fates) = k

\* What one transaction adds to it.
LEMMA FollowsShape ==
    ASSUME NEW P, NEW k \in Nat, NEW st, Cached(st, P, k), NEW t, NEW hs, NEW unreadable, NEW s,
           Follows(s, st, t, hs, unreadable)
    PROVE  /\ Cached(s, P, k + 1)
           /\ \A i \in 1..k : s.fates[i] = st.fates[i]
           /\ s.fates = Append(st.fates, s.fates[k + 1])
<1>1. PICK f : f \in Fates /\ s.fates = Append(st.fates, f)
  <2>1. CASE Skips(s, st, t)
    BY <2>1 DEF Skips, Fates
  <2>2. CASE Mints(s, st, t)
    BY <2>2, Zenon DEF Mints, Fates
  <2>3. CASE Enters(s, st, t, hs, unreadable)
    <3>1. PICK x \in {0, UintSize} : Recorded(s, st, t, x)
      BY <2>3, Zenon DEF Enters
    <3> QED BY <3>1 DEF Recorded, Fates
  <2> QED BY <2>1, <2>2, <2>3, Zenon DEF Follows
<1>2. IsState(s) /\ IsCache(s.cache) /\ DOMAIN s.cache = P
  <2>1. CASE Skips(s, st, t)
    BY <2>1 DEF Skips, Cached
  <2>2. CASE Mints(s, st, t)
    BY <2>2, Zenon DEF Mints, Cached
  <2>3. CASE Enters(s, st, t, hs, unreadable)
    <3>1. PICK x \in {0, UintSize} :
            Recorded(s, st, t, x) /\ Entered(s.cache, s.history, st, t, hs, unreadable, x)
      BY <2>3, Zenon DEF Enters
    <3>2. IsState(s)
      BY <3>1 DEF Recorded
    <3>3. IsCache(s.cache) /\ DOMAIN s.cache = DOMAIN st.cache
      BY <3>1, Zenon DEF Entered, Shifts
    <3> QED BY <3>2, <3>3 DEF Cached
  <2> QED BY <2>1, <2>2, <2>3, Zenon DEF Follows
<1>3. st.fates \in Seq(Fates) /\ Len(st.fates) = k
  BY DEF Cached
<1>4. /\ s.fates \in Seq(Fates) /\ Len(s.fates) = k + 1 /\ s.fates[k + 1] = f
      /\ \A i \in 1..k : s.fates[i] = st.fates[i]
  <2>1. PICK fs, gs : fs = st.fates /\ gs = Append(fs, f)
    OBVIOUS
  <2>2. fs \in Seq(Fates) /\ Len(fs) = k /\ f \in Fates
    BY <1>1, <1>3, <2>1
  <2>3. /\ gs \in Seq(Fates) /\ Len(gs) = k + 1 /\ gs[k + 1] = f
        /\ \A i \in 1..k : gs[i] = fs[i]
    BY <2>1, <2>2, LastOf
  <2>4. s.fates = gs
    BY <1>1, <2>1
  <2> QED BY <2>1, <2>3, <2>4
<1> QED BY <1>1, <1>2, <1>4 DEF Cached

\* The k-th entry, of block b, is about t, whose processing gave s.
Appends(N, k, b, t, st, s, unreadable) ==
    /\ N[k].tx = t /\ N[k].block = b
    /\ N[k].fate = s.fates[Len(st.fates) + 1]
    /\ N[k].read <=> Len(st.fates) + 1 \notin unreadable

\* What it says became of it.
LEMMA FateIs ==
    ASSUME NEW N, NEW e, NEW b, NEW t, NEW st, st.fates \in Seq(Fates), NEW s, NEW unreadable,
           Appends(N, e, b, t, st, s, unreadable), NEW f \in Fates, s.fates = Append(st.fates, f)
    PROVE  N[e].fate = f
<1>1. PICK fs, n : fs = st.fates /\ n = Len(fs) + 1
  OBVIOUS
<1>2. Append(fs, f)[n] = f
  BY <1>1, LastOf
<1>3. N[e].fate = s.fates[n]
  BY <1>1 DEF Appends
<1> QED BY <1>1, <1>2, <1>3

\* The balances of the wallets c are what the log says, each from a position on.
LedgerAt(N, m, c, S) == \A a \in DOMAIN c : Owed(N, m, a, S[a], c[a].balance)

\* One transfer.
LEMMA LedgerMoves ==
    ASSUME NEW N, NEW m \in Nat, IsLog(N, m + 1), NEW S, NEW P, NEW k, NEW st, Cached(st, P, k),
           \A a \in P : m + 1 \in S[a],
           LedgerAt(N, m, st.cache, S), NEW b, NEW t, t # GenesisTx, NEW hs, NEW unreadable, NEW s,
           Appends(N, m + 1, b, t, st, s, unreadable), Cached(s, P, k + 1),
           t.type \in {"TRANSFER", "OTHER"}, Enters(s, st, t, hs, unreadable)
    PROVE  LedgerAt(N, m + 1, s.cache, S)
<1>1. PICK x \in {0, UintSize} :
        Recorded(s, st, t, x) /\ Entered(s.cache, s.history, st, t, hs, unreadable, x)
  BY Zenon DEF Enters
<1>2. PICK c, d, f, o, v : c = st.cache /\ d = s.cache /\ f = t.from /\ o = t.to /\ v = t.amount
  OBVIOUS
<1>3. PICK p : p = Pays(c[f].balance, v)
  OBVIOUS
<1>4. Shifts(d, c, f, o, p, v, x)
  BY <1>1, <1>2, <1>3, Zenon DEF Entered
<1>5. PICK e : e = m + 1
  OBVIOUS
<1>6. e \in 1..e /\ N[e].tx = t /\ N[e].tx.amount \in Nat
  <2>1. e \in 1..e
    BY <1>5
  <2>2. N[e].tx = t
    BY <1>5 DEF Appends
  <2> QED BY <1>5, <2>1, <2>2, UintAssumption DEF IsLog
<1>7. N[e].fate = IF Short(st, t) THEN "unpaid" ELSE "done"
  <2>1. s.fates = Append(st.fates, IF Short(st, t) THEN "unpaid" ELSE "done")
    BY <1>1 DEF Recorded
  <2>2. (IF Short(st, t) THEN "unpaid" ELSE "done") \in Fates
    BY DEF Fates
  <2> QED BY <1>5, <2>1, <2>2, FateIs DEF Cached
<1>8. IsMove(N[e])
  BY <1>6, <1>7 DEF IsMove
<1>9. p = (IF Short(st, t) THEN 0 ELSE v) /\ p \in Nat /\ v \in Nat
  BY <1>2, <1>3, <1>6 DEF Pays, Short
<1>10. ASSUME NEW a PROVE /\ Added(N, e, PaidTo(N, e, a)) = IF a = f THEN p ELSE 0
                          /\ Added(N, e, GainedTo(N, e, a)) = IF a = o THEN v ELSE 0
  <2>1. e \in GainedTo(N, e, a) <=> a = o
    BY <1>2, <1>6, <1>8 DEF GainedTo
  <2>2. e \in PaidTo(N, e, a) <=> a = f /\ ~Short(st, t)
    BY <1>2, <1>6, <1>7, <1>8 DEF PaidTo, Pays1
  <2> QED BY <1>2, <1>6, <1>9, <2>1, <2>2 DEF Added
<1>11. ASSUME NEW a \in DOMAIN d PROVE Owed(N, e, a, S[a], d[a].balance)
  <2>1. a \in DOMAIN c /\ d[a].balance \in Nat /\ c[a].balance \in Nat
    BY <1>2 DEF Cached, IsCache, IsWallet
  <2>2. PICK i, j : i = c[a].balance /\ j = d[a].balance
    OBVIOUS
  <2>3. Owed(N, m, a, S[a], i) /\ e \in S[a]
    BY <1>2, <1>5, <2>1, <2>2 DEF LedgerAt, Cached
  <2>4. PICK y, q, r : /\ y \in {0, UintSize} /\ j + (q + y) = i + r
                       /\ q = Added(N, e, PaidTo(N, e, a)) /\ r = Added(N, e, GainedTo(N, e, a))
    <3>0. x \in Nat /\ 0 \in {0, UintSize} /\ i \in Nat /\ j \in Nat
      BY <2>1, <2>2, UintAssumption
    <3>1. CASE a \notin {f, o}
      <4>1. j = i
        BY <1>4, <2>1, <2>2, <3>1 DEF Shifts
      <4>2. j + (0 + 0) = i + 0
        BY <3>0, <4>1
      <4> QED BY <1>10, <3>0, <3>1, <4>2, Zenon
    <3>2. CASE a = f /\ a = o
      <4>1. j + (p + x) = i + v
        BY <1>4, <2>2, <3>2 DEF Shifts
      <4> QED BY <1>10, <3>2, <4>1, Zenon
    <3>3. CASE a = f /\ a # o
      <4>1. j + p = i
        BY <1>4, <2>2, <3>3 DEF Shifts
      <4>2. j + (p + 0) = i + 0
        BY <1>9, <3>0, <4>1
      <4> QED BY <1>10, <3>0, <3>3, <4>2, Zenon
    <3>4. CASE a # f /\ a = o
      <4>1. j + x = i + v
        BY <1>4, <2>2, <3>4 DEF Shifts
      <4>2. j + (0 + x) = i + v
        BY <3>0, <4>1
      <4> QED BY <1>10, <3>4, <4>2, Zenon
    <3> QED BY <3>1, <3>2, <3>3, <3>4
  <2>5. i \in Nat /\ j \in Nat
    BY <2>1, <2>2
  <2>6. Owed(N, m + 1, a, S[a], j)
    BY <1>5, <2>3, <2>4, <2>5, OwedGrows
  <2> QED BY <1>5, <2>2, <2>6
<1> QED BY <1>2, <1>5, <1>11 DEF LedgerAt

\* A transaction that moves no units.
LEMMA LedgerStays ==
    ASSUME NEW N, NEW m \in Nat, IsLog(N, m + 1), NEW S, NEW c, IsCache(c),
           \A a \in DOMAIN c : m + 1 \in S[a],
           LedgerAt(N, m, c, S), ~IsMove(N[m + 1]), NEW d, DOMAIN d = DOMAIN c,
           \A a \in DOMAIN c : d[a].balance = c[a].balance
    PROVE  LedgerAt(N, m + 1, d, S)
<1>1. ASSUME NEW a \in DOMAIN c PROVE Owed(N, m + 1, a, S[a], c[a].balance)
  <2>1. PICK p, q : p = Added(N, m + 1, PaidTo(N, m + 1, a)) /\ q = Added(N, m + 1, GainedTo(N, m + 1, a))
    OBVIOUS
  <2>2. p = 0 /\ q = 0
    BY <2>1 DEF Added, PaidTo, GainedTo, Pays1
  <2>3. PICK i : i = c[a].balance
    OBVIOUS
  <2>4. i \in Nat
    BY <2>3 DEF IsCache, IsWallet
  <2>5. i + (p + 0) = i + q /\ 0 \in {0, UintSize}
    BY <2>2, <2>4
  <2>6. Owed(N, m, a, S[a], i) /\ m + 1 \in S[a]
    BY <2>3 DEF LedgerAt
  <2>7. Owed(N, m + 1, a, S[a], i)
    BY <2>1, <2>4, <2>5, <2>6, OwedGrows
  <2> QED BY <2>3, <2>7
<1> QED BY <1>1 DEF LedgerAt

\* Any transaction.
LEMMA LedgerStep ==
    ASSUME NEW N, NEW m \in Nat, IsLog(N, m + 1), NEW S, NEW P, NEW k \in Nat, NEW st,
           Cached(st, P, k), \A a \in P : m + 1 \in S[a],
           LedgerAt(N, m, st.cache, S), NEW b, NEW t, t # GenesisTx, NEW hs, NEW unreadable, NEW s,
           Appends(N, m + 1, b, t, st, s, unreadable), Follows(s, st, t, hs, unreadable)
    PROVE  LedgerAt(N, m + 1, s.cache, S)
<1>1. st.fates \in Seq(Fates) /\ N[m + 1].tx = t /\ IsCache(st.cache) /\ DOMAIN st.cache = P
  BY DEF Appends, Cached
<1>2. CASE Skips(s, st, t)
  <2>1. N[m + 1].fate = "declined"
    BY <1>1, <1>2, FateIs DEF Skips, Fates
  <2>2. ~IsMove(N[m + 1]) /\ s.cache = st.cache
    BY <1>2, <2>1 DEF IsMove, Skips
  <2> QED BY <1>1, <2>2, LedgerStays
<1>3. CASE t.type = "CREATE_TOKENS" /\ Mints(s, st, t)
  <2>1. ~IsMove(N[m + 1])
    BY <1>1, <1>3 DEF IsMove
  <2>2. DOMAIN s.cache = DOMAIN st.cache /\ \A a \in DOMAIN st.cache : s.cache[a].balance = st.cache[a].balance
    BY <1>3, Zenon DEF Mints
  <2> QED BY <1>1, <2>1, <2>2, LedgerStays
<1>4. CASE t.type \in {"TRANSFER", "OTHER"} /\ Enters(s, st, t, hs, unreadable)
  <2>1. Cached(s, P, k + 1)
    BY FollowsShape
  <2> QED BY <1>4, <2>1, LedgerMoves
<1> QED BY <1>2, <1>3, <1>4, Zenon DEF Follows

-----------------------------------------------------------------------------
(* Histories *)

\* The transactions a history names.
EntriesOf(h) == ToSet(h.out) \cup ToSet(h.in)

\* A history is two lists.
IsHistory(h) ==
    \E x, y : h = [out |-> x, in |-> y] /\ x \in Seq(ToSet(x)) /\ y \in Seq(ToSet(y))

\* An entry more at the end of a list.
LEMMA OneMore ==
    ASSUME NEW x, x \in Seq(ToSet(x)), NEW id
    PROVE  /\ ToSet(Append(x, id)) = ToSet(x) \cup {id}
           /\ Append(x, id) \in Seq(ToSet(Append(x, id)))
<1>1. PICK y : y = Append(x, id)
  OBVIOUS
<1>2. Len(x) \in Nat /\ DOMAIN x = 1..Len(x) /\ x \in Seq(ToSet(x) \cup {id})
  OBVIOUS
<1>3. DOMAIN y = 1..(Len(x) + 1) /\ Len(y) = Len(x) + 1
  BY <1>1, <1>2
<1>4. \A i \in 1..Len(x) : y[i] = x[i]
  BY <1>1, <1>2
<1>5. y[Len(x) + 1] = id
  BY <1>1, <1>2
<1>6. 1..(Len(x) + 1) = (1..Len(x)) \cup {Len(x) + 1}
  BY <1>2
<1>7. ToSet(y) = ToSet(x) \cup {id}
  BY <1>2, <1>3, <1>4, <1>5, <1>6 DEF ToSet
<1>8. y \in Seq(ToSet(x) \cup {id})
  BY <1>1, <1>2
<1> QED BY <1>1, <1>7, <1>8

\* Entering the ends of a transfer.
LEMMA HistoryGrows ==
    ASSUME NEW h, IsHistory(h), NEW id
    PROVE  /\ IsHistory(NewOut(h, id)) /\ EntriesOf(NewOut(h, id)) = EntriesOf(h) \cup {id}
           /\ IsHistory(NewIn(h, id)) /\ EntriesOf(NewIn(h, id)) = EntriesOf(h) \cup {id}
<1>1. PICK x, y : h = [out |-> x, in |-> y] /\ x \in Seq(ToSet(x)) /\ y \in Seq(ToSet(y))
  BY DEF IsHistory
<1>2. PICK v, w : v = Append(x, id) /\ w = Append(y, id)
  OBVIOUS
<1>3. /\ ToSet(v) = ToSet(x) \cup {id} /\ v \in Seq(ToSet(v))
      /\ ToSet(w) = ToSet(y) \cup {id} /\ w \in Seq(ToSet(w))
  BY <1>1, <1>2, OneMore
<1>4. \A p, q : [out |-> p, in |-> q].out = p /\ [out |-> p, in |-> q].in = q
  OBVIOUS
<1>0. h.out = x /\ h.in = y
  BY <1>1, <1>4, Zenon
<1>5. NewOut(h, id) = [out |-> v, in |-> y] /\ NewIn(h, id) = [out |-> x, in |-> w]
  <2>1. NewOut(h, id) = [h EXCEPT !.out = v] /\ NewIn(h, id) = [h EXCEPT !.in = w]
    BY <1>0, <1>2, Zenon DEF NewOut, NewIn
  <2>2. \A z : /\ [[out |-> x, in |-> y] EXCEPT !.out = z] = [out |-> z, in |-> y]
               /\ [[out |-> x, in |-> y] EXCEPT !.in = z] = [out |-> x, in |-> z]
    OBVIOUS
  <2> QED BY <1>1, <2>1, <2>2, Zenon
<1>7. IsHistory(NewOut(h, id)) /\ IsHistory(NewIn(h, id))
  BY <1>1, <1>3, <1>5, Zenon DEF IsHistory
<1>8. /\ EntriesOf(h) = ToSet(x) \cup ToSet(y)
      /\ EntriesOf(NewOut(h, id)) = ToSet(v) \cup ToSet(y)
      /\ EntriesOf(NewIn(h, id)) = ToSet(x) \cup ToSet(w)
  BY <1>0, <1>4, <1>5, Zenon DEF EntriesOf
<1>9. EntriesOf(NewOut(h, id)) = EntriesOf(h) \cup {id}
  BY <1>3, <1>8
<1>10. EntriesOf(NewIn(h, id)) = EntriesOf(h) \cup {id}
  BY <1>3, <1>8
<1> QED BY <1>7, <1>9, <1>10

\* A wallet without a history starts from two empty lists.
LEMMA EmptyHistory == IsHistory(NoHistory) /\ EntriesOf(NoHistory) = {}
<1>1. PICK x : x = << >>
  OBVIOUS
<1>2. x \in Seq(ToSet(x)) /\ ToSet(x) = {}
  BY <1>1 DEF ToSet
<1>3. NoHistory = [out |-> x, in |-> x]
  BY <1>1 DEF NoHistory
<1>4. \A p, q : [out |-> p, in |-> q].out = p /\ [out |-> p, in |-> q].in = q
  OBVIOUS
<1>5. EntriesOf(NoHistory) = ToSet(x) \cup ToSet(x)
  BY <1>3, <1>4, Zenon DEF EntriesOf
<1> QED BY <1>2, <1>3, <1>5, Zenon DEF IsHistory

ReceivedAt(N, a, i) == N[i].tx.to = a /\ N[i].tx.from # a

\* The transfers of a wallet that its history should name.
MadeTo(N, m, a) == GainedTo(N, m, a) \cup PaidTo(N, m, a)

\* Why an earlier transfer i may be missing once j is entered.
Hides(N, a, j, i) == ReceivedAt(N, a, j) \/ N[j].block = N[i].block \/ ~N[j].read

\* Nothing that a history h lacks or has needs another explanation.
Lacks(N, m, a, h) ==
    \A i \in MadeTo(N, m, a) :
       \/ N[i].tx.id \in EntriesOf(h)
       \/ \E j \in OwnTo(N, m, a) : j > i /\ Hides(N, a, j, i)
Has(N, m, a, h) ==
    \A id \in EntriesOf(h) :
       \/ \E i \in OwnTo(N, m, a) : N[i].tx.id = id
       \/ \E i \in OwnTo(N, m, a) : ReceivedAt(N, a, i)

\* h is a history that HistoryExplained allows.
Explained(N, m, a, h) == Lacks(N, m, a, h) /\ Has(N, m, a, h)

\* The transfers of a wallet after one more entry.
LEMMA OwnGrows ==
    ASSUME NEW N, NEW m \in Nat, NEW a
    PROVE  /\ IsMove(N[m + 1]) /\ a \in {N[m + 1].tx.from, N[m + 1].tx.to} =>
                 OwnTo(N, m + 1, a) = OwnTo(N, m, a) \cup {m + 1}
           /\ ~(IsMove(N[m + 1]) /\ a \in {N[m + 1].tx.from, N[m + 1].tx.to}) =>
                 OwnTo(N, m + 1, a) = OwnTo(N, m, a) /\ MadeTo(N, m + 1, a) = MadeTo(N, m, a)
           /\ \A i \in OwnTo(N, m, a) : i < m + 1
           /\ MadeTo(N, m + 1, a) \subseteq MadeTo(N, m, a) \cup {m + 1}
           /\ MadeTo(N, m, a) \subseteq OwnTo(N, m, a)
<1>1. 1..(m + 1) = (1..m) \cup {m + 1} /\ \A i \in 1..m : i < m + 1
  OBVIOUS
<1> QED BY <1>1 DEF OwnTo, MadeTo, GainedTo, PaidTo, Pays1

\* A transfer received explains whatever else is missing or there.
LEMMA ReceivedExplains ==
    ASSUME NEW N, NEW m \in Nat, NEW a, IsMove(N[m + 1]), ReceivedAt(N, a, m + 1),
           NEW h, N[m + 1].tx.id \in EntriesOf(h)
    PROVE  Explained(N, m + 1, a, h)
<1>1. PICK k : k = m + 1
  OBVIOUS
<1>2. /\ OwnTo(N, k, a) = OwnTo(N, m, a) \cup {k} /\ \A i \in OwnTo(N, m, a) : k > i
      /\ MadeTo(N, k, a) \subseteq OwnTo(N, m, a) \cup {k}
  <2>1. a \in {N[m + 1].tx.from, N[m + 1].tx.to}
    BY DEF ReceivedAt
  <2>2. \A i \in OwnTo(N, m, a) : i < m + 1 => m + 1 > i
    BY DEF OwnTo
  <2> QED BY <1>1, <2>1, <2>2, OwnGrows
<1>3. \A i : Hides(N, a, k, i)
  BY <1>1 DEF Hides
<1>4. Lacks(N, k, a, h)
  BY <1>1, <1>2, <1>3 DEF Lacks
<1>5. Has(N, k, a, h)
  BY <1>1, <1>2 DEF Has
<1> QED BY <1>1, <1>4, <1>5 DEF Explained

\* h is what a transfer of a, the entry after the m-th one, may find.
Found(N, m, a, h) ==
    /\ IsHistory(h)
    /\ \A i \in MadeTo(N, m, a) :
          \/ N[i].tx.id \in EntriesOf(h)
          \/ \E j \in OwnTo(N, m, a) : j > i /\ Hides(N, a, j, i)
          \/ Hides(N, a, m + 1, i)
    /\ Has(N, m, a, h)

\* A transfer entered into a history that is explained but for transfers this
\* one may hide; one that is not paid need not be entered.
LEMMA SentExplains ==
    ASSUME NEW N, NEW m \in Nat, NEW a, IsMove(N[m + 1]),
           a \in {N[m + 1].tx.from, N[m + 1].tx.to},
           NEW h, Found(N, m, a, h), NEW g, EntriesOf(h) \subseteq EntriesOf(g),
           EntriesOf(g) \subseteq EntriesOf(h) \cup {N[m + 1].tx.id},
           m + 1 \in MadeTo(N, m + 1, a) => N[m + 1].tx.id \in EntriesOf(g)
    PROVE  Explained(N, m + 1, a, g)
<1>1. PICK k : k = m + 1
  OBVIOUS
<1>2. /\ OwnTo(N, k, a) = OwnTo(N, m, a) \cup {k} /\ \A i \in MadeTo(N, m, a) : k > i
      /\ MadeTo(N, k, a) \subseteq MadeTo(N, m, a) \cup {k}
  <2>2. \A i \in OwnTo(N, m, a) : i < m + 1 => m + 1 > i
    BY DEF OwnTo
  <2> QED BY <1>1, <2>2, OwnGrows
<1>3. ASSUME NEW i \in MadeTo(N, k, a)
      PROVE  \/ N[i].tx.id \in EntriesOf(g)
             \/ \E j \in OwnTo(N, k, a) : j > i /\ Hides(N, a, j, i)
  BY <1>1, <1>2, <1>3 DEF Found
<1>4. ASSUME NEW id \in EntriesOf(g)
      PROVE  \/ \E i \in OwnTo(N, k, a) : N[i].tx.id = id
             \/ \E i \in OwnTo(N, k, a) : ReceivedAt(N, a, i)
  BY <1>1, <1>2, <1>4 DEF Found, Has
<1> QED BY <1>1, <1>3, <1>4 DEF Explained, Lacks, Has

\* The histories stored are explained by the first m entries.
HistoriesAt(N, m, hs) ==
    /\ \A a \in DOMAIN hs : IsHistory(hs[a]) /\ Explained(N, m, a, hs[a])
    /\ \A a : OwnTo(N, m, a) # {} => a \in DOMAIN hs \/ a = GenesisTx.from

\* So are those of the batch, and the cache agrees with it.
HistAt(N, m, st, hs) ==
    /\ \A a \in DOMAIN st.history :
          /\ a \in DOMAIN st.cache /\ st.cache[a].history = st.history[a]
          /\ IsHistory(st.history[a]) /\ Explained(N, m, a, st.history[a])
    /\ \A a \in DOMAIN st.cache \ DOMAIN st.history : st.cache[a].history = NoHistory
    /\ \A a \in DOMAIN hs \ DOMAIN st.history : Explained(N, m, a, hs[a])
    /\ \A a : OwnTo(N, m, a) # {} =>
          a \in DOMAIN hs \/ a \in DOMAIN st.history \/ a = GenesisTx.from

\* What is no transfer leaves the histories as they are.
LEMMA HistStays ==
    ASSUME NEW N, NEW m \in Nat, ~IsMove(N[m + 1]), NEW st, NEW s,
           DOMAIN s.cache = DOMAIN st.cache, s.history = st.history,
           \A a \in DOMAIN st.cache : s.cache[a].history = st.cache[a].history,
           NEW hs, HistAt(N, m, st, hs)
    PROVE  HistAt(N, m + 1, s, hs)
<1>1. \A a : OwnTo(N, m + 1, a) = OwnTo(N, m, a) /\ MadeTo(N, m + 1, a) = MadeTo(N, m, a)
  BY OwnGrows
<1>2. \A a, h : Explained(N, m, a, h) => Explained(N, m + 1, a, h)
  BY <1>1 DEF Explained, Lacks, Has
<1> QED BY <1>1, <1>2 DEF HistAt

\* The entries after the m-th one are of one block.
SameBlock(N, m, n, b) == \A i \in 1..n : i > m => N[i].block = b

\* What a transfer finds before it enters its ends.
LEMMA ReadHistory ==
    ASSUME NEW N, NEW m \in Nat, NEW n \in Nat, n <= m, NEW b, SameBlock(N, n, m + 1, b),
           NEW t, N[m + 1].tx = t, NEW unreadable, NEW st,
           N[m + 1].read <=> Len(st.fates) + 1 \notin unreadable,
           t.from # GenesisTx.from, t.from \in DOMAIN st.cache,
           NEW hs, HistoriesAt(N, n, hs), HistAt(N, m, st, hs)
    PROVE  Found(N, m, t.from, HistoryRead(st, t.from, t, hs, unreadable))
<1>1. PICK f, k, own, old, made, mold, h :
        /\ f = t.from /\ k = m + 1 /\ own = OwnTo(N, m, f) /\ old = OwnTo(N, n, f)
        /\ made = MadeTo(N, m, f) /\ mold = MadeTo(N, n, f)
        /\ h = HistoryRead(st, f, t, hs, unreadable)
  OBVIOUS
<1>2. /\ old \subseteq own /\ mold \subseteq old
      /\ \A i \in made : i \in mold \/ Hides(N, f, k, i)
  <2>1. \A i \in 1..m : i \in 1..n \/ N[i].block = N[k].block
    <3>1. m + 1 \in 1..(m + 1) /\ m + 1 > n
      OBVIOUS
    <3>2. N[k].block = b
      BY <1>1, <3>1 DEF SameBlock
    <3>3. \A i \in 1..m : i \in 1..(m + 1) /\ (i \in 1..n \/ i > n)
      OBVIOUS
    <3> QED BY <3>2, <3>3 DEF SameBlock
  <2>2. \A i \in 1..n : i \in 1..m
    OBVIOUS
  <2>3. old \subseteq own
    BY <1>1, <2>2 DEF OwnTo
  <2>4. \A i \in made : i \in mold \/ N[k].block = N[i].block
    BY <1>1, <2>1 DEF MadeTo, GainedTo, PaidTo
  <2>5. mold \subseteq old
    BY <1>1, OwnGrows
  <2> QED BY <2>3, <2>4, <2>5 DEF Hides
<1>3. f \in DOMAIN hs => IsHistory(hs[f]) /\ Explained(N, n, f, hs[f])
  BY DEF HistoriesAt
<1>4. f \notin DOMAIN hs => old = {}
  BY <1>1 DEF HistoriesAt
<1>5. \/ st.cache[f].history = NoHistory
      \/ IsHistory(st.cache[f].history) /\ Explained(N, m, f, st.cache[f].history)
  BY <1>1 DEF HistAt
<1>6. IsHistory(NoHistory) /\ EntriesOf(NoHistory) = {}
  BY EmptyHistory
<1>0. Known(st, t, hs, unreadable) <=> f \in DOMAIN hs /\ N[k].read
  BY <1>1 DEF Known
<1>7. CASE f \in DOMAIN hs /\ N[k].read
  <2>1. h = hs[f]
    BY <1>0, <1>1, <1>7, Zenon DEF HistoryRead
  <2>2. Explained(N, n, f, h) /\ IsHistory(h)
    BY <1>3, <1>7, <2>1
  <2>3. /\ \A i \in mold :
              \/ N[i].tx.id \in EntriesOf(h)
              \/ \E j \in old : j > i /\ Hides(N, f, j, i)
        /\ \A id \in EntriesOf(h) :
              \/ \E i \in old : N[i].tx.id = id
              \/ \E i \in old : ReceivedAt(N, f, i)
    BY <1>1, <2>2 DEF Explained, Lacks, Has
  <2>4. ASSUME NEW i \in made
        PROVE  \/ N[i].tx.id \in EntriesOf(h)
               \/ \E j \in own : j > i /\ Hides(N, f, j, i)
               \/ Hides(N, f, k, i)
    BY <1>2, <2>3, <2>4, Zenon
  <2>5. ASSUME NEW id \in EntriesOf(h)
        PROVE  (\E i \in own : N[i].tx.id = id) \/ \E i \in own : ReceivedAt(N, f, i)
    BY <1>2, <2>3, <2>5, Zenon
  <2> QED BY <1>1, <2>2, <2>4, <2>5, Zenon DEF Found, Has
<1>8. CASE ~(f \in DOMAIN hs /\ N[k].read)
  <2>1. h = st.cache[f].history
    BY <1>0, <1>1, <1>8, Zenon DEF HistoryRead
  <2>2. IsHistory(h)
    BY <1>5, <1>6, <2>1
  <2>3. \A i \in made : Hides(N, f, k, i)
    <3>1. CASE f \notin DOMAIN hs
      BY <1>2, <1>4, <3>1
    <3>2. CASE ~N[k].read
      BY <1>1, <3>2 DEF Hides
    <3> QED BY <1>8, <3>1, <3>2
  <2>4. ASSUME NEW id \in EntriesOf(h)
        PROVE  (\E i \in own : N[i].tx.id = id) \/ \E i \in own : ReceivedAt(N, f, i)
    <3>1. h # NoHistory
      BY <1>6, <2>4
    <3>2. Explained(N, m, f, h)
      BY <1>5, <2>1, <3>1
    <3> QED BY <1>1, <2>4, <3>2, Zenon DEF Explained, Has
  <2> QED BY <1>1, <2>2, <2>3, <2>4, Zenon DEF Found, Has
<1> QED BY <1>7, <1>8

\* What the sender's and the recipient's history become.
LEMMA EndsEntered ==
    ASSUME NEW h, IsHistory(h), NEW id, NEW b, NEW v
    PROVE  LET out == PaidHistory(b, v, h, id)
           IN  /\ IsHistory(out) /\ EntriesOf(h) \subseteq EntriesOf(out)
               /\ EntriesOf(out) \subseteq EntriesOf(h) \cup {id}
               /\ ~(b < v) => id \in EntriesOf(out)
               /\ IsHistory(NewIn(out, id)) /\ EntriesOf(NewIn(out, id)) = EntriesOf(h) \cup {id}
<1>1. PICK out : out = PaidHistory(b, v, h, id)
  OBVIOUS
<1>2. /\ IsHistory(out) /\ EntriesOf(h) \subseteq EntriesOf(out)
      /\ EntriesOf(out) \subseteq EntriesOf(h) \cup {id}
      /\ ~(b < v) => id \in EntriesOf(out)
  <2>1. CASE b < v
    <3>1. out = h
      BY <1>1, <2>1, Zenon DEF PaidHistory
    <3> QED BY <2>1, <3>1
  <2>2. CASE ~(b < v)
    <3>1. out = NewOut(h, id)
      BY <1>1, <2>2, Zenon DEF PaidHistory
    <3>2. IsHistory(NewOut(h, id)) /\ EntriesOf(NewOut(h, id)) = EntriesOf(h) \cup {id}
      BY HistoryGrows
    <3> QED BY <3>1, <3>2
  <2> QED BY <2>1, <2>2
<1>3. IsHistory(NewIn(out, id)) /\ EntriesOf(NewIn(out, id)) = EntriesOf(out) \cup {id}
  BY <1>2, HistoryGrows
<1>4. EntriesOf(NewIn(out, id)) = EntriesOf(h) \cup {id}
  BY <1>2, <1>3
<1> QED BY <1>1, <1>2, <1>3, <1>4

\* A transfer keeps the histories explained.
LEMMA HistMoves ==
    ASSUME NEW N, NEW m \in Nat, NEW n \in Nat, n <= m, NEW b, SameBlock(N, n, m + 1, b),
           NEW t, N[m + 1].tx = t, NEW unreadable, NEW st,
           N[m + 1].read <=> Len(st.fates) + 1 \notin unreadable,
           IsMove(N[m + 1]), N[m + 1].fate = IF Short(st, t) THEN "unpaid" ELSE "done",
           t.from # GenesisTx.from, t.from \in DOMAIN st.cache, t.to \in DOMAIN st.cache,
           NEW hs, HistoriesAt(N, n, hs), HistAt(N, m, st, hs),
           NEW s, Enters(s, st, t, hs, unreadable)
    PROVE  HistAt(N, m + 1, s, hs)
<1>1. PICK f, o, k, id, c, d : /\ f = t.from /\ o = t.to /\ k = m + 1 /\ id = t.id
                               /\ c = st.cache /\ d = s.cache
  OBVIOUS
<1>2. PICK h, g, bal, v, out :
        /\ h = HistoryRead(st, f, t, hs, unreadable)
        /\ g = HistoryRead(st, o, t, hs, unreadable)
        /\ bal = c[f].balance /\ v = t.amount
        /\ out = PaidHistory(c[f].balance, t.amount, HistoryRead(st, f, t, hs, unreadable), id)
  OBVIOUS
<1>0. PICK xx \in {0, UintSize} : Entered(d, s.history, st, t, hs, unreadable, xx)
  BY <1>1, Zenon DEF Enters
<1>3. /\ DOMAIN d = DOMAIN c
      /\ \A x \in DOMAIN c \ {f, o} : d[x] = c[x]
      /\ DOMAIN s.history = DOMAIN st.history \cup {f, o}
      /\ \A x \in DOMAIN st.history \ {f, o} : s.history[x] = st.history[x]
      /\ s.history[f] = d[f].history /\ s.history[o] = d[o].history
      /\ f # o => d[f].history = out /\ d[o].history = NewIn(g, id)
      /\ f = o => d[f].history = NewIn(out, id)
  BY <1>0, <1>1, <1>2, Zenon DEF Entered, Shifts
<1>4. Found(N, m, f, h) /\ IsHistory(h)
  <2>1. Found(N, m, t.from, HistoryRead(st, t.from, t, hs, unreadable))
    BY ReadHistory
  <2>2. Found(N, m, f, h)
    BY <1>1, <1>2, <2>1, Zenon
  <2> QED BY <2>2, Zenon DEF Found
<1>5. IsHistory(g)
  <2>1. CASE Known(st, t, hs, unreadable)
    <3>1. g = hs[f]
      BY <1>1, <1>2, <2>1, Zenon DEF HistoryRead
    <3> QED BY <1>1, <2>1, <3>1 DEF HistoriesAt, Known
  <2>2. CASE ~Known(st, t, hs, unreadable)
    <3>1. g = c[o].history
      BY <1>1, <1>2, <2>2, Zenon DEF HistoryRead
    <3>2. o \in DOMAIN st.cache
      BY <1>1
    <3> QED BY <1>1, <3>1, <3>2, EmptyHistory DEF HistAt
  <2> QED BY <2>1, <2>2
<1>16. /\ IsHistory(out) /\ EntriesOf(h) \subseteq EntriesOf(out)
       /\ EntriesOf(out) \subseteq EntriesOf(h) \cup {id}
       /\ ~Short(st, t) => id \in EntriesOf(out)
       /\ IsHistory(NewIn(out, id)) /\ EntriesOf(NewIn(out, id)) = EntriesOf(h) \cup {id}
  <2>1. out = PaidHistory(bal, v, h, id)
    BY <1>2, Zenon
  <2>2. ~Short(st, t) => ~(bal < v)
    BY <1>1, <1>2, Zenon DEF Short
  <2> QED BY <1>4, <2>1, <2>2, EndsEntered
<1>17. k \in MadeTo(N, k, f) => f = o \/ ~Short(st, t)
  <2>1. CASE Short(st, t)
    <3>1. N[k].fate # "done" /\ N[k].tx = t
      BY <1>1, <2>1
    <3> QED BY <1>1, <3>1 DEF MadeTo, GainedTo, PaidTo, Pays1
  <2> QED BY <2>1
<1>6. /\ IsHistory(d[f].history) /\ EntriesOf(h) \subseteq EntriesOf(d[f].history)
      /\ EntriesOf(d[f].history) \subseteq EntriesOf(h) \cup {id}
      /\ k \in MadeTo(N, k, f) => id \in EntriesOf(d[f].history)
  <2>1. CASE f = o
    BY <1>3, <1>16, <2>1
  <2>2. CASE f # o
    BY <1>3, <1>16, <1>17, <2>2
  <2> QED BY <2>1, <2>2
<1>7. f # o => IsHistory(d[o].history) /\ id \in EntriesOf(d[o].history)
  <2>1. IsHistory(NewIn(g, id)) /\ EntriesOf(NewIn(g, id)) = EntriesOf(g) \cup {id}
    BY <1>5, HistoryGrows
  <2> QED BY <1>3, <2>1
<1>8. Explained(N, k, f, d[f].history)
  <2>1. f \in {N[m + 1].tx.from, N[m + 1].tx.to} /\ N[m + 1].tx.id = id
    BY <1>1
  <2>2. PICK gg : gg = d[f].history
    OBVIOUS
  <2>3. /\ EntriesOf(h) \subseteq EntriesOf(gg)
        /\ EntriesOf(gg) \subseteq EntriesOf(h) \cup {N[m + 1].tx.id}
        /\ m + 1 \in MadeTo(N, m + 1, f) => N[m + 1].tx.id \in EntriesOf(gg)
    BY <1>1, <1>6, <2>1, <2>2
  <2>4. Explained(N, m + 1, f, gg)
    BY <1>4, <2>1, <2>3, SentExplains
  <2> QED BY <1>1, <2>2, <2>4
<1>9. f # o => Explained(N, k, o, d[o].history)
  <2>1. ASSUME f # o PROVE ReceivedAt(N, o, m + 1) /\ N[m + 1].tx.id = id
    BY <1>1, <2>1 DEF ReceivedAt
  <2> QED BY <1>1, <1>7, <2>1, ReceivedExplains
<1>10. \A a : a \notin {f, o} => OwnTo(N, k, a) = OwnTo(N, m, a) /\ MadeTo(N, k, a) = MadeTo(N, m, a)
  BY <1>1, OwnGrows
<1>11. \A a, x : a \notin {f, o} /\ Explained(N, m, a, x) => Explained(N, k, a, x)
  BY <1>10, Zenon DEF Explained, Lacks, Has
<1>12. ASSUME NEW a \in DOMAIN s.history
       PROVE  /\ a \in DOMAIN d /\ d[a].history = s.history[a]
              /\ IsHistory(s.history[a]) /\ Explained(N, k, a, s.history[a])
  <2>1. CASE a \in {f, o}
    <3>1. s.history[a] = d[a].history /\ a \in DOMAIN d
      BY <1>1, <1>3, <2>1
    <3>2. IsHistory(d[a].history) /\ Explained(N, k, a, d[a].history)
      BY <1>6, <1>7, <1>8, <1>9, <2>1
    <3> QED BY <3>1, <3>2
  <2>2. CASE a \notin {f, o}
    <3>1. a \in DOMAIN st.history
      BY <1>3, <1>12, <2>2
    <3>2. /\ a \in DOMAIN st.cache /\ st.cache[a].history = st.history[a]
          /\ IsHistory(st.history[a]) /\ Explained(N, m, a, st.history[a])
      BY <3>1 DEF HistAt
    <3>3. s.history[a] = st.history[a] /\ d[a] = c[a] /\ a \in DOMAIN d
      BY <1>1, <1>3, <2>2, <3>1, <3>2
    <3> QED BY <1>1, <1>11, <2>2, <3>2, <3>3
  <2> QED BY <2>1, <2>2
<1>13. ASSUME NEW a \in DOMAIN d \ DOMAIN s.history PROVE d[a].history = NoHistory
  <2>1. a \in DOMAIN c \ DOMAIN st.history /\ d[a] = c[a]
    BY <1>3, <1>13
  <2> QED BY <1>1, <2>1 DEF HistAt
<1>14. ASSUME NEW a \in DOMAIN hs \ DOMAIN s.history PROVE Explained(N, k, a, hs[a])
  <2>1. a \in DOMAIN hs \ DOMAIN st.history /\ a \notin {f, o}
    BY <1>3, <1>14
  <2>2. Explained(N, m, a, hs[a])
    BY <2>1 DEF HistAt
  <2> QED BY <1>11, <2>1, <2>2
<1>15. ASSUME NEW a, OwnTo(N, k, a) # {}
       PROVE  a \in DOMAIN hs \/ a \in DOMAIN s.history \/ a = GenesisTx.from
  <2>1. CASE a \in {f, o}
    BY <1>3, <2>1
  <2>2. CASE a \notin {f, o}
    BY <1>3, <1>10, <1>15, <2>2 DEF HistAt
  <2> QED BY <2>1, <2>2
<1> QED BY <1>1, <1>12, <1>13, <1>14, <1>15, Zenon DEF HistAt

\* One pass of the loop keeps the histories explained.
LEMMA HistStep ==
    ASSUME NEW N, NEW m \in Nat, NEW n \in Nat, n <= m, NEW b, SameBlock(N, n, m + 1, b),
           NEW t, t.from # GenesisTx.from, NEW P, NEW k \in Nat, NEW st, Cached(st, P, k),
           NEW s, NEW unreadable, Appends(N, m + 1, b, t, st, s, unreadable),
           NEW hs, Follows(s, st, t, hs, unreadable),
           HistoriesAt(N, n, hs), HistAt(N, m, st, hs)
    PROVE  HistAt(N, m + 1, s, hs)
<1>1. /\ st.fates \in Seq(Fates) /\ N[m + 1].tx = t
      /\ N[m + 1].read <=> Len(st.fates) + 1 \notin unreadable
  BY DEF Appends, Cached
<1>2. CASE Skips(s, st, t)
  <2>1. N[m + 1].fate = "declined"
    BY <1>1, <1>2, FateIs DEF Skips, Fates
  <2>2. ~IsMove(N[m + 1]) /\ s.cache = st.cache /\ s.history = st.history
    BY <1>2, <2>1 DEF IsMove, Skips
  <2> QED BY <2>2, HistStays
<1>3. CASE t.type = "CREATE_TOKENS" /\ Mints(s, st, t)
  <2>1. /\ DOMAIN s.cache = DOMAIN st.cache /\ s.history = st.history
        /\ \A a \in DOMAIN st.cache : s.cache[a].history = st.cache[a].history
    BY <1>3, Zenon DEF Mints
  <2>2. ~IsMove(N[m + 1])
    BY <1>1, <1>3 DEF IsMove
  <2> QED BY <2>1, <2>2, HistStays
<1>4. CASE /\ t.type \in {"TRANSFER", "OTHER"} /\ Enters(s, st, t, hs, unreadable)
           /\ t.from \in DOMAIN st.cache /\ t.to \in DOMAIN st.cache
  <2>1. N[m + 1].fate = IF Short(st, t) THEN "unpaid" ELSE "done"
    <3>1. PICK x : Recorded(s, st, t, x)
      BY <1>4, Zenon DEF Enters
    <3>2. s.fates = Append(st.fates, IF Short(st, t) THEN "unpaid" ELSE "done")
      BY <3>1 DEF Recorded
    <3>3. (IF Short(st, t) THEN "unpaid" ELSE "done") \in Fates
      BY DEF Fates
    <3> QED BY <1>1, <3>2, <3>3, FateIs
  <2>2. IsMove(N[m + 1])
    BY <1>1, <1>4, <2>1 DEF IsMove
  <2> QED BY <1>1, <1>4, <2>1, <2>2, HistMoves
<1> QED BY <1>2, <1>3, <1>4, Zenon DEF Follows

\* The batch written.
LEMMA HistWritten ==
    ASSUME NEW N, NEW m, NEW n, NEW st, NEW hs, HistoriesAt(N, n, hs), HistAt(N, m, st, hs)
    PROVE  HistoriesAt(N, m, Put(st.history, hs))
<1>1. PICK x, y : x = st.history /\ y = Put(x, hs)
  OBVIOUS
<1>2. DOMAIN y = DOMAIN x \cup DOMAIN hs
  BY <1>1 DEF Put
<1>3. \A a \in DOMAIN y : y[a] = IF a \in DOMAIN x THEN x[a] ELSE hs[a]
  BY <1>1, <1>2 DEF Put
<1>4. ASSUME NEW a \in DOMAIN y PROVE IsHistory(y[a]) /\ Explained(N, m, a, y[a])
  <2>1. CASE a \in DOMAIN x
    BY <1>1, <1>3, <1>4, <2>1 DEF HistAt
  <2>2. CASE a \notin DOMAIN x
    <3>1. a \in DOMAIN hs \ DOMAIN st.history /\ y[a] = hs[a]
      BY <1>1, <1>2, <1>3, <2>2
    <3> QED BY <3>1 DEF HistAt, HistoriesAt
  <2> QED BY <2>1, <2>2
<1>5. \A a : OwnTo(N, m, a) # {} => a \in DOMAIN y \/ a = GenesisTx.from
  BY <1>1, <1>2 DEF HistAt
<1> QED BY <1>1, <1>4, <1>5 DEF HistoriesAt

-----------------------------------------------------------------------------
(* Token amounts *)

\* f is ReadBack below k.
ReadsBelow(f, k) ==
    \A n \in Nat : n < k => f[n] = IF n < 16 THEN n ELSE 10 * f[n \div 16] + (n % 16)

\* Below every k there is one: the smallest k without one is impossible.
LEMMA ReadsSome ==
    ASSUME NEW k \in Nat
    PROVE  \E f \in [Nat -> Nat] : ReadsBelow(f, k)
<1>1. PICK T : T = {n \in Nat : ~\E f \in [Nat -> Nat] : ReadsBelow(f, n)}
  OBVIOUS
<1>2. SUFFICES ASSUME T # {} PROVE FALSE
  BY <1>1
<1>3. PICK n \in T : \A y \in T : n <= y
  BY <1>1, <1>2, Smallest
<1>4. n \in Nat /\ ~\E f \in [Nat -> Nat] : ReadsBelow(f, n)
  BY <1>1
<1>5. n # 0
  <2>1. [x \in Nat |-> x] \in [Nat -> Nat] /\ ReadsBelow([x \in Nat |-> x], 0)
    BY DEF ReadsBelow
  <2> QED BY <1>4, <2>1
<1>6. PICK p : p \in Nat /\ n = p + 1 /\ ~(n <= p)
  <2>1. n - 1 \in Nat /\ n = (n - 1) + 1 /\ ~(n <= n - 1)
    BY <1>4, <1>5
  <2> QED BY <2>1
<1>7. PICK f \in [Nat -> Nat] : ReadsBelow(f, p)
  BY <1>1, <1>3, <1>6
<1>8. PICK v : v = IF p < 16 THEN p ELSE 10 * f[p \div 16] + (p % 16)
  OBVIOUS
<1>9. v \in Nat
  <2>1. p \div 16 \in Nat /\ p % 16 \in Nat
    BY <1>6
  <2>2. PICK y, z : y = f[p \div 16] /\ z = p % 16
    OBVIOUS
  <2>3. y \in Nat /\ z \in Nat
    BY <2>1, <2>2
  <2>4. 10 * y + z \in Nat
    BY <2>3
  <2> QED BY <1>6, <1>8, <2>2, <2>4
<1>10. PICK g : g = [f EXCEPT ![p] = v]
  OBVIOUS
<1>11. g \in [Nat -> Nat] /\ g[p] = v /\ \A x \in Nat \ {p} : g[x] = f[x]
  BY <1>6, <1>9, <1>10
<1>12. ASSUME NEW x \in Nat, x < n
       PROVE  g[x] = IF x < 16 THEN x ELSE 10 * g[x \div 16] + (x % 16)
  <2>1. PICK q : q = x \div 16
    OBVIOUS
  <2>2. x >= 16 => q \in Nat /\ q # p
    BY <1>6, <1>12, <2>1
  <2>3. x >= 16 => g[q] = f[q]
    BY <1>11, <2>2
  <2>4. CASE x = p
    BY <1>8, <1>11, <2>1, <2>3, <2>4
  <2>5. CASE x # p
    <3>1. x < p
      BY <1>6, <1>12, <2>5
    <3>2. f[x] = IF x < 16 THEN x ELSE 10 * f[q] + (x % 16)
      BY <1>7, <2>1, <3>1 DEF ReadsBelow
    <3>3. g[x] = f[x]
      BY <1>11, <2>5
    <3> QED BY <2>1, <2>3, <3>2, <3>3
  <2> QED BY <2>4, <2>5
<1>13. ReadsBelow(g, n)
  BY <1>12 DEF ReadsBelow
<1> QED BY <1>4, <1>11, <1>13

\* Two of them agree where both are defined.
LEMMA ReadsSame ==
    ASSUME NEW k \in Nat, NEW l \in Nat, NEW f, NEW g, ReadsBelow(f, k), ReadsBelow(g, l),
           NEW n \in Nat, n < k, n < l
    PROVE  f[n] = g[n]
<1>1. PICK T : T = {x \in Nat : x < k /\ x < l /\ f[x] # g[x]}
  OBVIOUS
<1>2. SUFFICES ASSUME T # {} PROVE FALSE
  BY <1>1
<1>3. PICK x \in T : \A y \in T : x <= y
  BY <1>1, <1>2, Smallest
<1>4. x \in Nat /\ x < k /\ x < l /\ f[x] # g[x]
  BY <1>1
<1>5. PICK q : q = x \div 16
  OBVIOUS
<1>6. /\ f[x] = IF x < 16 THEN x ELSE 10 * f[q] + (x % 16)
      /\ g[x] = IF x < 16 THEN x ELSE 10 * g[q] + (x % 16)
  BY <1>4, <1>5 DEF ReadsBelow
<1>7. x >= 16 => q \in Nat /\ q < k /\ q < l /\ ~(x <= q)
  BY <1>4, <1>5
<1>8. x >= 16 => f[q] = g[q]
  BY <1>1, <1>3, <1>7
<1> QED BY <1>4, <1>6, <1>8

\* ReadBack is what its definition says.
LEMMA ReadBackIs == \A n \in Nat : n < 16 => ReadBack[n] = n
<1> DEFINE Step(f) == [n \in Nat |-> IF n < 16 THEN n ELSE 10 * f[n \div 16] + (n % 16)]
           Nth(n) == CHOOSE f : f \in [Nat -> Nat] /\ ReadsBelow(f, n + 1)
<1>1. \A n \in Nat : ReadsBelow(Nth(n), n + 1)
  <2>1. ASSUME NEW n \in Nat PROVE ReadsBelow(Nth(n), n + 1)
    <3>1. n + 1 \in Nat
      OBVIOUS
    <3>2. \E f : f \in [Nat -> Nat] /\ ReadsBelow(f, n + 1)
      BY <3>1, ReadsSome
    <3> QED BY <3>2, Zenon
  <2> QED BY <2>1
<1> HIDE DEF Nth
<1>2. PICK F : F = [n \in Nat |-> Nth(n)[n]]
  OBVIOUS
<1>3. ASSUME NEW n \in Nat
      PROVE  F[n] = IF n < 16 THEN n ELSE 10 * F[n \div 16] + (n % 16)
  <2>1. PICK q, f : q = n \div 16 /\ f = Nth(n)
    OBVIOUS
  <2>2. q \in Nat /\ n < n + 1 /\ q < n + 1 /\ q < q + 1 /\ n + 1 \in Nat /\ q + 1 \in Nat
    BY <2>1
  <2>3. ReadsBelow(f, n + 1) /\ F[n] = f[n] /\ F[q] = Nth(q)[q]
    BY <1>1, <1>2, <2>1, <2>2
  <2>4. f[n] = IF n < 16 THEN n ELSE 10 * f[q] + (n % 16)
    BY <2>1, <2>2, <2>3 DEF ReadsBelow
  <2>5. f[q] = Nth(q)[q]
    <3>1. ReadsBelow(Nth(q), q + 1)
      BY <1>1, <2>2
    <3> QED BY <2>2, <2>3, <3>1, ReadsSame
  <2> QED BY <2>1, <2>3, <2>4, <2>5
<1>4. F = Step(F)
  BY <1>2, <1>3
<1>5. ReadBack = CHOOSE f : f = Step(f)
  BY DEF ReadBack
<1> HIDE DEF Step
<1>6. ReadBack = Step(ReadBack)
  BY <1>4, <1>5, Zenon
<1> USE DEF Step
<1>7. ASSUME NEW n \in Nat, n < 16 PROVE ReadBack[n] = n
  <2>1. PICK f : f = ReadBack
    OBVIOUS
  <2>2. f = Step(f)
    BY <1>6, <2>1
  <2>3. Step(f)[n] = n
    BY <1>7
  <2> QED BY <2>1, <2>2, <2>3
<1> QED BY <1>7

\* The entries of block b, among the first m, in which a issues a token, and the

\* Small numbers are their own remainder.
LEMMA SmallRest ==
    ASSUME NEW z \in Nat, z < 16
    PROVE  z % UintSize = z
<1>1. PICK u \in Nat : u = UintSize /\ z < u /\ u > 0
  BY UintAssumption
<1>2. z % u = z
  BY <1>1
<1> QED BY <1>1, <1>2

\* The entries of block b, among the first m, in which a issues a token, and the
\* sum of the entries of I up to i.
IsIssue(e, a, token, b) ==
    /\ e.block = b /\ e.fate = "done"
    /\ e.tx.type = "CREATE_TOKENS" /\ e.tx.from = a /\ e.tx.token = token
IssuesTo(N, m, a, token, b) == {i \in 1..m : IsIssue(N[i], a, token, b)}
SumTo(N, I, i) == TotalOf(N, {k \in I : k <= i})

\* tk holds of a token what I issued, or a sum before the last needs two digits.
TokenAs(N, I, tk, token) ==
    /\ token \in DOMAIN tk <=> I # {}
    /\ I # {} => \/ tk[token] = SumTo(N, I, Max(I)) % UintSize
                 \/ \E i \in I : i < Max(I) /\ SumTo(N, I, i) > 9

\* The cached wallets hold what the block has issued.
TokensAt(N, m, b, c) ==
    \A a \in DOMAIN c : \A token :
        TokenAs(N, IssuesTo(N, m, a, token, b), c[a].tokens, token)

\* The issues after one more entry.
LEMMA IssuesGrow ==
    ASSUME NEW N, NEW m \in Nat, NEW a, NEW token, NEW b
    PROVE  /\ IsIssue(N[m + 1], a, token, b) =>
                 IssuesTo(N, m + 1, a, token, b) = IssuesTo(N, m, a, token, b) \cup {m + 1}
           /\ ~IsIssue(N[m + 1], a, token, b) =>
                 IssuesTo(N, m + 1, a, token, b) = IssuesTo(N, m, a, token, b)
<1>1. 1..(m + 1) = (1..m) \cup {m + 1}
  OBVIOUS
<1> QED BY <1>1 DEF IssuesTo

\* The sums after one more entry.
LEMMA SumsGrow ==
    ASSUME NEW N, NEW m \in Nat, IsLog(N, m + 1), NEW I, I \subseteq 1..m
    PROVE  /\ Max(I \cup {m + 1}) = m + 1
           /\ \A i \in I : SumTo(N, I \cup {m + 1}, i) = SumTo(N, I, i)
           /\ I = {} => SumTo(N, I \cup {m + 1}, m + 1) = N[m + 1].tx.amount
           /\ I # {} => /\ Max(I) \in I /\ SumTo(N, I, Max(I)) \in Nat
                        /\ SumTo(N, I \cup {m + 1}, m + 1)
                             = N[m + 1].tx.amount + SumTo(N, I, Max(I))
<1>1. PICK k, J : k = m + 1 /\ J = I \cup {k}
  OBVIOUS
<1>2. k \in Nat /\ J \subseteq 1..k /\ J # {} /\ (\A i \in I : i < k /\ ~(k <= i)) /\ k \notin I
  BY <1>1
<1>3. Max(J) = k
  <2>1. Max(J) \in J /\ \A y \in J : Max(J) >= y
    BY <1>2, MaxIsLargest
  <2>2. Max(J) >= k /\ Max(J) \in 1..k
    BY <1>1, <1>2, <2>1
  <2> QED BY <1>2, <2>2
<1>4. \A i \in I : {j \in J : j <= i} = {j \in I : j <= i}
  BY <1>1, <1>2
<1>5. \A i \in I : SumTo(N, J, i) = SumTo(N, I, i)
  BY <1>4 DEF SumTo
<1>7. {j \in J : j <= k} = I \cup {k}
  <2>1. \A j \in J : j <= k
    BY <1>2
  <2> QED BY <1>1, <2>1
<1>9. IsFiniteSet(I) /\ HasAmounts(N, I) /\ TotalOf(N, I) \in Nat /\ N[k].tx.amount \in Nat
  <2>1. I \subseteq 1..(m + 1) /\ m + 1 \in Nat /\ m + 1 \in 1..(m + 1)
    OBVIOUS
  <2>2. IsFiniteSet(I) /\ HasAmounts(N, I) /\ TotalOf(N, I) \in Nat
    BY <2>1, MovesHaveAmounts
  <2> QED BY <1>1, <2>1, <2>2, UintAssumption DEF IsLog
<1>10. SumTo(N, J, k) = N[k].tx.amount + TotalOf(N, I)
  <2>1. SumTo(N, J, k) = TotalOf(N, I \cup {k})
    BY <1>7 DEF SumTo
  <2>3. TotalOf(N, I \cup {k}) = N[k].tx.amount + TotalOf(N, I)
    BY <1>2, <1>9, TotalAdds
  <2> QED BY <2>1, <2>3
<1>11. ASSUME I = {} PROVE SumTo(N, J, k) = N[k].tx.amount
  <2>2. TotalOf(N, I) = 0
    BY <1>11, TotalOfNone
  <2>3. PICK x : x = N[k].tx.amount /\ x \in Nat
    BY <1>9
  <2>4. x + 0 = x
    BY <2>3
  <2> QED BY <1>10, <2>2, <2>3, <2>4
<1>12. ASSUME I # {}
       PROVE  /\ Max(I) \in I /\ SumTo(N, I, Max(I)) \in Nat
              /\ SumTo(N, J, k) = N[k].tx.amount + SumTo(N, I, Max(I))
  <2>1. Max(I) \in I /\ \A y \in I : Max(I) >= y
    BY <1>12, MaxIsLargest
  <2>2. PICK x : x = Max(I)
    OBVIOUS
  <2>3. {j \in I : j <= x} = I
    BY <2>1, <2>2
  <2>4. SumTo(N, I, x) = TotalOf(N, I)
    BY <2>3 DEF SumTo
  <2> QED BY <1>9, <1>10, <2>1, <2>2, <2>4
<1> QED BY <1>1, <1>3, <1>5, <1>11, <1>12

\* Issuing more of a token.
LEMMA TokenGrows ==
    ASSUME NEW N, NEW m \in Nat, IsLog(N, m + 1), NEW I, I \subseteq 1..m,
           NEW held, NEW token, TokenAs(N, I, held, token), NEW tk,
           tk = Put(Entry(token, (HeldOf(held, token) + N[m + 1].tx.amount) % UintSize), held)
    PROVE  TokenAs(N, I \cup {m + 1}, tk, token)
<1>1. PICK k, J, x, n : /\ k = m + 1 /\ J = I \cup {k} /\ n = N[k].tx.amount
                        /\ x = HeldOf(held, token)
  OBVIOUS
<1>2. token \in DOMAIN tk /\ tk[token] = (x + n) % UintSize
  BY <1>1 DEF Put, Entry
<1>3. /\ Max(J) = k
      /\ \A i \in I : SumTo(N, J, i) = SumTo(N, I, i)
      /\ I = {} => SumTo(N, J, k) = n
      /\ I # {} => /\ Max(I) \in I /\ SumTo(N, I, Max(I)) \in Nat
                   /\ SumTo(N, J, k) = n + SumTo(N, I, Max(I))
  BY <1>1, SumsGrow
<1>4. n \in Nat /\ \A i \in I : i < k
  <2>1. k \in 1..k /\ \A i \in I : i < k
    BY <1>1
  <2> QED BY <1>1, <2>1, UintAssumption DEF IsLog
<1>5. CASE I = {}
  <2>1. x = 0
    BY <1>1, <1>5 DEF TokenAs, HeldOf
  <2>2. x + n = n
    BY <1>4, <2>1
  <2>3. tk[token] = SumTo(N, J, Max(J)) % UintSize
    BY <1>2, <1>3, <1>5, <2>2, Zenon
  <2> QED BY <1>1, <1>2, <2>3 DEF TokenAs
<1>6. CASE I # {}
  <2>1. PICK z, M : M = Max(I) /\ z = SumTo(N, I, M)
    OBVIOUS
  <2>2. M \in I /\ z \in Nat /\ SumTo(N, J, k) = n + z
    BY <1>3, <1>6, <2>1
  <2>3. token \in DOMAIN held /\ x = ReadBack[held[token]]
    BY <1>1, <1>6 DEF TokenAs, HeldOf
  <2>4. CASE held[token] = z % UintSize /\ z < 16
    <3>1. x = z
      BY <2>2, <2>3, <2>4, SmallRest, ReadBackIs
    <3>2. x + n = n + z
      BY <1>4, <2>2, <3>1
    <3>3. tk[token] = SumTo(N, J, Max(J)) % UintSize
      BY <1>2, <1>3, <2>2, <3>2, Zenon
    <3> QED BY <1>1, <1>2, <3>3 DEF TokenAs
  <2>5. CASE \E i \in I : SumTo(N, I, i) > 9
    <3>1. PICK i \in I : SumTo(N, I, i) > 9
      BY <2>5
    <3>2. i \in J /\ i < Max(J) /\ SumTo(N, J, i) > 9
      BY <1>1, <1>3, <1>4, <3>1
    <3> QED BY <1>1, <1>2, <3>2 DEF TokenAs
  <2>6. \/ held[token] = z % UintSize /\ z < 16
        \/ \E i \in I : SumTo(N, I, i) > 9
    <3>1. held[token] = z % UintSize \/ \E i \in I : SumTo(N, I, i) > 9
      BY <1>6, <2>1 DEF TokenAs
    <3>2. z < 16 \/ z > 9
      BY <2>2
    <3> QED BY <2>1, <2>2, <3>1, <3>2
  <2> QED BY <2>4, <2>5, <2>6
<1> QED BY <1>5, <1>6

\* One pass of the loop keeps the tokens accounted for.
LEMMA TokensStep ==
    ASSUME NEW N, NEW m \in Nat, IsLog(N, m + 1), NEW t,
           NEW P, NEW k \in Nat, NEW st, Cached(st, P, k),
           NEW s, NEW b, NEW unreadable, Appends(N, m + 1, b, t, st, s, unreadable),
           NEW hs, Follows(s, st, t, hs, unreadable), TokensAt(N, m, b, st.cache)
    PROVE  TokensAt(N, m + 1, b, s.cache)
<1>1. PICK e, c, d, f : e = N[m + 1] /\ c = st.cache /\ d = s.cache /\ f = t.from
  OBVIOUS
<1>2. e.tx = t /\ e.block = b /\ st.fates \in Seq(Fates)
  BY <1>1 DEF Appends, Cached
<1>3. ASSUME \A a, token : ~IsIssue(e, a, token, b),
             DOMAIN d = DOMAIN c, \A a \in DOMAIN c : d[a].tokens = c[a].tokens
      PROVE  TokensAt(N, m + 1, b, d)
  <2>1. \A a, token : IssuesTo(N, m + 1, a, token, b) = IssuesTo(N, m, a, token, b)
    BY <1>1, <1>3, IssuesGrow
  <2> QED BY <1>1, <1>3, <2>1 DEF TokensAt
<1>4. CASE Skips(s, st, t)
  <2>1. e.fate = "declined"
    BY <1>1, <1>2, <1>4, FateIs DEF Skips, Fates
  <2>2. d = c /\ \A a, token : ~IsIssue(e, a, token, b)
    BY <1>1, <1>4, <2>1 DEF Skips, IsIssue
  <2> QED BY <1>1, <1>3, <2>2
<1>5. CASE t.type \in {"TRANSFER", "OTHER"} /\ Enters(s, st, t, hs, unreadable)
  <2>1. DOMAIN d = DOMAIN c /\ \A a \in DOMAIN c : d[a].tokens = c[a].tokens
    BY <1>1, <1>5, Zenon DEF Enters, Entered, Shifts
  <2>2. \A a, token : ~IsIssue(e, a, token, b)
    BY <1>2, <1>5 DEF IsIssue
  <2> QED BY <1>1, <1>3, <2>1, <2>2
<1>6. CASE t.type = "CREATE_TOKENS" /\ Mints(s, st, t)
  <2>1. PICK held, v : held = c[f].tokens /\ v = (HeldOf(c[f].tokens, t.token) + t.amount) % UintSize
    OBVIOUS
  <2>2. /\ DOMAIN d = DOMAIN c
        /\ \A x \in DOMAIN c \ {f} : d[x].tokens = c[x].tokens
        /\ d[f].tokens = Put(Entry(t.token, v), held)
    BY <1>1, <1>6, <2>1, Zenon DEF Mints
  <2>0. e.fate = "done"
    <3>1. s.fates = Append(st.fates, "done")
      BY <1>6, Zenon DEF Mints
    <3>2. "done" \in Fates
      BY DEF Fates
    <3> QED BY <1>1, <1>2, <3>1, <3>2, FateIs
  <2>3. \A a, token : IsIssue(e, a, token, b) <=> a = f /\ token = t.token
    BY <1>1, <1>2, <1>6, <2>0 DEF IsIssue
  <2>4. ASSUME NEW a \in DOMAIN d, NEW token
        PROVE  TokenAs(N, IssuesTo(N, m + 1, a, token, b), d[a].tokens, token)
    <3>1. PICK I : I = IssuesTo(N, m, a, token, b)
      OBVIOUS
    <3>2. TokenAs(N, I, c[a].tokens, token) /\ I \subseteq 1..m
      BY <1>1, <2>2, <2>4, <3>1 DEF TokensAt, IssuesTo
    <3>3. CASE a = f /\ token = t.token
      <4>0. IsIssue(N[m + 1], a, token, b)
        BY <1>1, <2>3, <3>3
      <4>1. IssuesTo(N, m + 1, a, token, b) = I \cup {m + 1}
        BY <3>1, <4>0, IssuesGrow
      <4>2. PICK tk : tk = d[a].tokens
        OBVIOUS
      <4>3. tk = Put(Entry(token, (HeldOf(held, token) + N[m + 1].tx.amount) % UintSize), held)
        BY <1>1, <1>2, <2>1, <2>2, <3>3, <4>2
      <4>4. TokenAs(N, I, held, token)
        BY <2>1, <3>2, <3>3
      <4>5. TokenAs(N, I \cup {m + 1}, tk, token)
        BY <3>2, <4>3, <4>4, TokenGrows
      <4> QED BY <4>1, <4>2, <4>5
    <3>4. CASE ~(a = f /\ token = t.token)
      <4>1. IssuesTo(N, m + 1, a, token, b) = I
        BY <1>1, <2>3, <3>1, <3>4, IssuesGrow
      <4>2. PICK tk, tc : tk = d[a].tokens /\ tc = c[a].tokens
        OBVIOUS
      <4>3. /\ token \in DOMAIN tk <=> token \in DOMAIN tc
            /\ token \in DOMAIN tc => tk[token] = tc[token]
        <5>1. CASE a # f
          BY <2>2, <2>4, <4>2, <5>1
        <5>2. CASE a = f
          <6>1. token # t.token /\ tk = Put(Entry(t.token, v), held) /\ tc = held
            BY <2>1, <2>2, <3>4, <4>2, <5>2
          <6> QED BY <6>1 DEF Put, Entry
        <5> QED BY <5>1, <5>2
      <4>4. TokenAs(N, I, tk, token)
        BY <3>2, <4>2, <4>3 DEF TokenAs
      <4> QED BY <4>1, <4>2, <4>4
    <3> QED BY <3>3, <3>4
  <2> QED BY <1>1, <2>4 DEF TokensAt
<1> QED BY <1>4, <1>5, <1>6 DEF Follows

-----------------------------------------------------------------------------
(* The loop over a shard *)

\* What was sent.
IsShard(shard) == shard \in Seq(Txs) /\ Len(shard) >= 1

\* What setTxBatch starts from and ends with when the user database can be opened.
Begins(st, shard, unread, db) == st = Start(shard, TRUE, unread, db)
Ends(st, shard, unread, db, hs, unreadable) ==
    st = ProcessShard(shard, TRUE, unread, db, hs, unreadable)

\* g lists what setTxBatch has accumulated after each transaction.
Runs(g, shard, unread, db, hs, unreadable) ==
    /\ Begins(g[0], shard, unread, db)
    /\ \A i \in 1..Len(shard) : g[i] = Apply(g[i - 1], shard[i], hs, unreadable)

\* The parties of a transaction are loaded.
LEMMA PartiesLoaded ==
    ASSUME NEW shard, IsShard(shard)
    PROVE  /\ Len(shard) \in Nat /\ Len(shard) >= 1 /\ Parties(shard) \subseteq Accounts
           /\ \A i \in 1..Len(shard) :
                /\ shard[i] \in Txs /\ IsTx(shard[i])
                /\ shard[i].from \in Parties(shard) /\ shard[i].to \in Parties(shard)
                /\ shard[i].from # GenesisTx.from /\ shard[i] # GenesisTx
<1>1. shard \in Seq(Txs) /\ Len(shard) \in Nat /\ Len(shard) >= 1 /\ DOMAIN shard = 1..Len(shard)
  BY DEF IsShard
<1>2. \A i \in 1..Len(shard) : shard[i] \in Txs /\ shard[i] \in ToSet(shard)
  BY <1>1 DEF ToSet
<1>3. ToSet(shard) \subseteq Txs
  BY <1>1 DEF ToSet
<1>4. \A t \in Txs : IsTx(t) /\ t.from # GenesisTx.from /\ t # GenesisTx
  BY TxsAssumption DEF IsTx
<1>5. Parties(shard) \subseteq Accounts
  BY <1>3, <1>4 DEF Parties, IsTx
<1>6. \A t \in ToSet(shard) : t.from \in Parties(shard) /\ t.to \in Parties(shard)
  BY DEF Parties
<1> QED BY <1>1, <1>2, <1>4, <1>5, <1>6

\* Loaded wallets, as stored or empty.
Fresh(c, shard, unread, db) ==
    \A a \in Parties(shard) :
        /\ c[a].balance = IF a \in unread THEN 0 ELSE Balances(db)[a]
        /\ c[a].tokens = << >> /\ c[a].history = NoHistory

\* What the loop starts from: wallets with neither tokens nor a history.
LEMMA LoadedIsFresh ==
    ASSUME NEW shard, Parties(shard) \subseteq Accounts, NEW unread, NEW db, HasWallets(db),
           NEW st, Begins(st, shard, unread, db)
    PROVE  /\ Cached(st, Parties(shard), 0) /\ ~st.thrown /\ DOMAIN st.history = {}
           /\ Fresh(st.cache, shard, unread, db)
<1>1. PICK c, k : c = LoadCache(shard, db, unread) /\ k = Units([a \in unread |-> db[a]])
  OBVIOUS
<1>2. IsEmpty(st, c, k)
  BY <1>1 DEF Begins, Start, IsEmpty
<1>3. PICK x : x = << >>
  OBVIOUS
<1>4. IsState(st) /\ st.cache = c /\ st.history = x /\ ~st.thrown /\ st.fates = x
  <2>1. IsState(st) /\ st.cache = c /\ st.history = << >> /\ ~st.thrown /\ st.fates = << >>
    <3>1. IsState(st) /\ st.cache = c
      BY ONLY <1>2, EmptyFields
    <3>2. st.history = << >>
      BY ONLY <1>2, EmptyFields
    <3>3. st.fates = << >>
      BY ONLY <1>2, EmptyFields
    <3>4. ~st.thrown
      BY ONLY <1>2, EmptyFields
    <3> QED BY <3>1, <3>2, <3>3, <3>4, Zenon
  <2> QED BY <1>3, <2>1, Zenon
<1>5. DOMAIN x = {} /\ x \in Seq(Fates) /\ Len(x) = 0
  BY <1>3
<1>6. /\ IsCache(c) /\ DOMAIN c = Parties(shard)
      /\ \A a \in Parties(shard) : c[a].balance = IF a \in unread THEN 0 ELSE Balances(db)[a]
  BY <1>1, LoadedWallets
<1>7. \A a \in Parties(shard) : c[a].tokens = << >> /\ c[a].history = NoHistory
  <2>1. c = [a \in Parties(shard) |->
               IF a \in DOMAIN db \ unread THEN CreatePtrWallet(db[a]) ELSE EmptyWallet]
    BY <1>1 DEF LoadCache
  <2>2. /\ EmptyWallet.tokens = << >> /\ EmptyWallet.history = NoHistory
        /\ \A y : CreatePtrWallet(y).tokens = << >> /\ CreatePtrWallet(y).history = NoHistory
    BY DEF EmptyWallet, CreatePtrWallet
  <2> QED BY <2>1, <2>2
<1>8. Cached(st, Parties(shard), 0)
  BY <1>4, <1>5, <1>6 DEF Cached
<1>9. Fresh(c, shard, unread, db)
  BY <1>6, <1>7 DEF Fresh
<1> QED BY <1>4, <1>5, <1>8, <1>9

\* The transactions of a shard are processed one after another.
LEMMA ShardRuns ==
    ASSUME NEW shard, IsShard(shard), NEW unread, NEW db, NEW hs, NEW unreadable,
           NEW st, Ends(st, shard, unread, db, hs, unreadable)
    PROVE  \E g : Runs(g, shard, unread, db, hs, unreadable) /\ st = g[Len(shard)]
<1>1. PICK loaded : loaded = TRUE
  OBVIOUS
<1>2. shard \in Seq(Txs)
  BY DEF IsShard
<1>3. \E g : /\ g[0] = Start(shard, loaded, unread, db)
             /\ \A i \in 1..Len(shard) : g[i] = Apply(g[i - 1], shard[i], hs, unreadable)
             /\ ProcessShard(shard, loaded, unread, db, hs, unreadable) = g[Len(shard)]
  BY <1>2, ShardInOrder
<1> QED BY <1>1, <1>3, Zenon DEF Runs, Begins, Ends

\* What holds of the first pass and passes on holds of all.
LEMMA EveryPass ==
    ASSUME NEW n \in Nat, NEW S, 0 \in S, \A i \in 1..n : i - 1 \in S => i \in S
    PROVE  \A i \in 0..n : i \in S
<1>1. PICK T : T = {i \in Nat : i <= n /\ i \notin S}
  OBVIOUS
<1>2. SUFFICES ASSUME T # {} PROVE FALSE
  BY <1>1
<1>3. PICK i \in T : \A y \in T : i <= y
  BY <1>1, <1>2, Smallest
<1>4. i \in Nat /\ i <= n /\ i \notin S /\ i # 0
  BY <1>1
<1>5. i \in 1..n /\ i - 1 \in Nat /\ i - 1 <= n /\ ~(i <= i - 1)
  BY <1>4
<1>6. i - 1 \in S
  BY <1>1, <1>3, <1>5
<1> QED BY <1>4, <1>5, <1>6

\* The i-th pass kept what the passes before it left, if none has thrown.
Unbroken(g, P, i) ==
    g[i].thrown \/ \A j \in 0..i : /\ Cached(g[j], P, j) /\ ~g[j].thrown
                                   /\ \A p \in 1..j : g[i].fates[p] = g[j].fates[p]

\* One pass.
LEMMA UnbrokenStep ==
    ASSUME NEW g, NEW P, NEW i \in Nat, NEW p \in Nat, i = p + 1, Unbroken(g, P, p),
           NEW t, IsTx(t), NEW hs, NEW unreadable, Cached(g[p], P, p) \/ g[p].thrown,
           IsState(g[p]) /\ IsCache(g[p].cache),
           g[i] = Apply(g[p], t, hs, unreadable)
    PROVE  /\ Unbroken(g, P, i) /\ IsState(g[i]) /\ IsCache(g[i].cache)
           /\ g[i].thrown \/ (~g[p].thrown /\ Follows(g[i], g[p], t, hs, unreadable))
<1>1. PICK st, s : st = g[p] /\ s = g[i]
  OBVIOUS
<1>2. Throws(s, st) \/ (~st.thrown /\ Follows(s, st, t, hs, unreadable))
  <2>1. s = Apply(st, t, hs, unreadable) /\ IsState(st) /\ IsCache(st.cache)
    BY <1>1
  <2> QED BY <2>1, ApplyFollows, Zenon
<1>3. CASE Throws(s, st)
  <2>1. s.thrown /\ IsState(s) /\ IsCache(s.cache)
    BY <1>1, <1>3, Zenon DEF Throws
  <2> QED BY <1>1, <2>1, Zenon DEF Unbroken
<1>4. CASE ~st.thrown /\ Follows(s, st, t, hs, unreadable)
  <2>1. Follows(s, st, t, hs, unreadable) /\ Cached(st, P, p)
    BY <1>1, <1>4, Zenon
  <2>2. Cached(s, P, p + 1) /\ \A q \in 1..p : s.fates[q] = st.fates[q]
    <3>1. Cached(s, P, p + 1)
      BY <2>1, FollowsShape
    <3>2. \A q \in 1..p : s.fates[q] = st.fates[q]
      BY <2>1, FollowsShape
    <3> QED BY <3>1, <3>2
  <2>3. Cached(s, P, i)
    BY <2>2
  <2>4. \A j \in 0..p : /\ Cached(g[j], P, j) /\ ~g[j].thrown
                        /\ \A q \in 1..j : st.fates[q] = g[j].fates[q]
    BY <1>1, <1>4, Zenon DEF Unbroken
  <2>5. ASSUME ~s.thrown, NEW j \in 0..i
        PROVE  /\ Cached(g[j], P, j) /\ ~g[j].thrown
               /\ \A q \in 1..j : s.fates[q] = g[j].fates[q]
    <3>1. CASE j = i
      BY <1>1, <2>3, <2>5, <3>1, Zenon
    <3>2. CASE j # i
      <4>1. j \in 0..p /\ \A q \in 1..j : q \in 1..p
        BY <3>2
      <4> QED BY <2>2, <2>4, <4>1
    <3> QED BY <3>1, <3>2
  <2>6. Unbroken(g, P, i)
    BY <1>1, <2>5, Zenon DEF Unbroken
  <2>7. IsState(s) /\ IsCache(s.cache)
    BY <2>3 DEF Cached
  <2> QED BY <1>1, <1>4, <2>6, <2>7, Zenon
<1> QED BY <1>2, <1>3, <1>4, Zenon

\* A shard that does not throw goes through a cached state after each transaction,
\* and what became of a transaction stays.
LEMMA FatesKept ==
    ASSUME NEW shard, IsShard(shard), NEW db, HasWallets(db), NEW unread, NEW hs, NEW unreadable,
           NEW g, Runs(g, shard, unread, db, hs, unreadable), ~g[Len(shard)].thrown
    PROVE  /\ \A i \in 0..Len(shard) : Cached(g[i], Parties(shard), i)
           /\ \A i \in 1..Len(shard) :
                /\ Follows(g[i], g[i - 1], shard[i], hs, unreadable)
                /\ g[Len(shard)].fates[i] = g[i].fates[i]
<1>1. PICK n, P : n = Len(shard) /\ P = Parties(shard)
  OBVIOUS
<1>2. n \in Nat /\ P \subseteq Accounts /\ \A i \in 1..n : IsTx(shard[i])
  BY <1>1, PartiesLoaded
<1> DEFINE Good(i) == /\ Unbroken(g, P, i) /\ IsState(g[i]) /\ IsCache(g[i].cache)
                      /\ \A j \in 1..i : g[i].thrown \/ Follows(g[j], g[j - 1], shard[j], hs, unreadable)
<1>3. Good(0)
  <2>1. Cached(g[0], P, 0) /\ ~g[0].thrown
    <3>1. PICK st : st = g[0]
      OBVIOUS
    <3>2. Begins(st, shard, unread, db) /\ Parties(shard) \subseteq Accounts
      BY <1>1, <1>2, <3>1 DEF Runs
    <3>3. Cached(st, Parties(shard), 0) /\ ~st.thrown
      BY <3>2, LoadedIsFresh, Zenon
    <3> QED BY <1>1, <3>1, <3>3, Zenon
  <2>2. \A j \in 0..0 : j = 0
    OBVIOUS
  <2>3. Unbroken(g, P, 0)
    BY <2>1, <2>2, Zenon DEF Unbroken
  <2>4. ~\E j \in 1..0 : TRUE
    OBVIOUS
  <2> QED BY <2>1, <2>3, <2>4 DEF Cached
<1>4. ASSUME NEW i \in 1..n, Good(i - 1) PROVE Good(i)
  <2>1. PICK p, t : p = i - 1 /\ t = shard[i]
    OBVIOUS
  <2>2. p \in Nat /\ i \in Nat /\ i = p + 1 /\ IsTx(t)
    BY <1>2, <2>1
  <2>3. g[i] = Apply(g[p], t, hs, unreadable)
    BY <1>1, <2>1 DEF Runs
  <2>4. Unbroken(g, P, p) /\ IsState(g[p]) /\ IsCache(g[p].cache)
    BY <1>4, <2>1
  <2>5. Cached(g[p], P, p) \/ g[p].thrown
    <3>1. p \in 0..p
      BY <2>2
    <3> QED BY <2>4, <3>1, Zenon DEF Unbroken
  <2>6. /\ Unbroken(g, P, i) /\ IsState(g[i]) /\ IsCache(g[i].cache)
        /\ g[i].thrown \/ (~g[p].thrown /\ Follows(g[i], g[p], t, hs, unreadable))
    BY <2>2, <2>3, <2>4, <2>5, UnbrokenStep, Zenon
  <2>7. ASSUME NEW j \in 1..i, ~g[i].thrown
        PROVE  Follows(g[j], g[j - 1], shard[j], hs, unreadable)
    <3>1. CASE j = i
      BY <2>1, <2>6, <2>7, <3>1, Zenon
    <3>2. CASE j # i
      <4>1. j \in 1..p
        BY <2>2, <3>2
      <4>2. g[p].thrown \/ Follows(g[j], g[j - 1], shard[j], hs, unreadable)
        BY <1>4, <2>1, <4>1
      <4> QED BY <2>6, <2>7, <4>2, Zenon
    <3> QED BY <3>1, <3>2
  <2> QED BY <2>6, <2>7
<1>5. PICK S : S = {i \in 0..n : Good(i)}
  OBVIOUS
<1> HIDE DEF Good
<1>6. 0 \in S /\ \A i \in 1..n : i - 1 \in S => i \in S
  <2>1. 0 \in 0..n /\ \A i \in 1..n : i \in 0..n
    BY <1>2
  <2> QED BY <1>3, <1>4, <1>5, <2>1
<1>7. n \in 0..n /\ \A i \in 0..n : i \in S
  <2>1. \A i \in 0..n : i \in S
    BY <1>2, <1>6, EveryPass
  <2>2. n \in 0..n
    BY <1>2
  <2> QED BY <2>1, <2>2
<1>8. Good(n) /\ ~g[n].thrown
  BY <1>1, <1>5, <1>7
<1>9. \A j \in 1..n : Follows(g[j], g[j - 1], shard[j], hs, unreadable)
  BY <1>8, Zenon DEF Good
<1>10. \A j \in 0..n : Cached(g[j], P, j) /\ \A p \in 1..j : g[n].fates[p] = g[j].fates[p]
  BY <1>8, Zenon DEF Good, Unbroken
<1>11. \A j \in 1..n : j \in 0..n /\ j \in 1..j
  BY <1>2
<1> QED BY <1>1, <1>9, <1>10, <1>11

-----------------------------------------------------------------------------
(* The accounts in the middle of a block *)

\* The entries since the last block that could not read the wallet of a.
SinceTo(N, m, a) ==
    {i \in 1..m : \A j \in 1..m : a \in N[j].unread => N[j].block <= N[i].block}

\* The balances stored are what the log says since then, and no transfer made
\* is about an account without a wallet.
LedgerOf(N, m, db) ==
    /\ \A a \in DOMAIN db : Owed(N, m, a, SinceTo(N, m, a), db[a].balance)
    /\ \A a : a \notin DOMAIN db => GainedTo(N, m, a) = {} /\ PaidTo(N, m, a) = {}

\* Entry k, of block b, is about the i-th transaction of a shard.
Tells(N, k, b, i, shard, st, unreadable, unread) ==
    /\ N[k].tx = shard[i] /\ N[k].block = b /\ N[k].fate = st.fates[i]
    /\ N[k].read <=> i \notin unreadable
    /\ N[k].unread = unread

\* The entries after the n-th one are those of a shard whose processing gave st,
\* and the only ones of block b.
Logged(N, n, b, shard, st, unreadable, unread) ==
    /\ \A i \in 1..Len(shard) : Tells(N, n + i, b, i, shard, st, unreadable, unread)
    /\ IsLog(N, n + Len(shard)) /\ SameBlock(N, n, n + Len(shard), b)
    /\ b \in Nat /\ \A i \in 1..n : N[i].block \in Nat /\ N[i].block < b

\* The ledger, the histories and the tokens in the middle of a block.
AccountedAt(N, m, b, st, hs, S) ==
    /\ LedgerAt(N, m, st.cache, S)
    /\ HistAt(N, m, st, hs)
    /\ TokensAt(N, m, b, st.cache)

\* A prefix of a log.
LEMMA ShorterLog ==
    ASSUME NEW N, NEW m \in Nat, NEW n \in Nat, n <= m, NEW k \in Nat, NEW b
    PROVE  /\ IsLog(N, m) => IsLog(N, n)
           /\ SameBlock(N, k, m, b) => SameBlock(N, k, n, b)
<1>1. \A i \in 1..n : i \in 1..m
  OBVIOUS
<1> QED BY <1>1 DEF IsLog, SameBlock

\* One pass of the loop.
LEMMA AccountedStep ==
    ASSUME NEW N, NEW m \in Nat, IsLog(N, m + 1), NEW n \in Nat, n <= m,
           NEW b, SameBlock(N, n, m + 1, b),
           NEW t, t # GenesisTx, t.from # GenesisTx.from,
           NEW P, NEW k \in Nat, NEW st, Cached(st, P, k),
           NEW s, NEW unreadable, Appends(N, m + 1, b, t, st, s, unreadable),
           NEW hs, Follows(s, st, t, hs, unreadable), HistoriesAt(N, n, hs),
           NEW S, \A a \in P : m + 1 \in S[a], AccountedAt(N, m, b, st, hs, S)
    PROVE  AccountedAt(N, m + 1, b, s, hs, S)
<1>1. LedgerAt(N, m, st.cache, S) /\ HistAt(N, m, st, hs) /\ TokensAt(N, m, b, st.cache)
  BY DEF AccountedAt
<1>2. LedgerAt(N, m + 1, s.cache, S)
  BY <1>1, LedgerStep, Zenon
<1>3. HistAt(N, m + 1, s, hs)
  BY <1>1, HistStep, Zenon
<1>4. TokensAt(N, m + 1, b, s.cache)
  BY <1>1, TokensStep, Zenon
<1> QED BY <1>2, <1>3, <1>4 DEF AccountedAt

\* The entries of the log that count once a block is stored: the block's own,
\* those before it as before it, or none if the wallet could not be read.
LEMMA SinceGrows ==
    ASSUME NEW N, NEW n \in Nat, NEW b, NEW shard, Len(shard) \in Nat, Len(shard) >= 1, NEW st,
           NEW unreadable, NEW unread, Logged(N, n, b, shard, st, unreadable, unread), NEW a
    PROVE  /\ \A i \in 1..Len(shard) : n + i \in SinceTo(N, n + Len(shard), a)
           /\ a \in unread => SinceTo(N, n + Len(shard), a) \cap 1..n = {}
           /\ a \notin unread =>
                 SinceTo(N, n + Len(shard), a) \cap 1..n = SinceTo(N, n, a)
<1>1. PICK k, m : k = Len(shard) /\ m = n + k
  OBVIOUS
<1>2. k \in Nat /\ k >= 1 /\ m \in Nat
  BY <1>1
<1>3. \A j \in 1..m : j \in 1..n \/ (j > n /\ \E i \in 1..k : j = n + i)
  <2>1. \A j \in 1..m : j \in 1..n \/ (j > n /\ j - n \in 1..k /\ j = n + (j - n))
    BY <1>1, <1>2
  <2> QED BY <2>1
<1>4. \A i \in 1..k : n + i \in 1..m /\ N[n + i].block = b /\ N[n + i].unread = unread
  <2>1. \A i \in 1..k : n + i \in 1..m
    BY <1>1, <1>2
  <2> QED BY <1>1, <2>1 DEF Logged, Tells
<1>5. b \in Nat /\ \A i \in 1..n : N[i].block \in Nat /\ N[i].block < b
  BY DEF Logged
<1>6. \A j \in 1..m : N[j].block \in Nat /\ N[j].block <= b
  BY <1>3, <1>4, <1>5
<1>7. \A i \in 1..k : n + i \in SinceTo(N, m, a)
  BY <1>4, <1>6 DEF SinceTo
<1>8. ASSUME a \in unread, NEW i \in 1..n PROVE i \notin SinceTo(N, m, a)
  <2>1. n + 1 \in 1..m /\ N[n + 1].block = b /\ a \in N[n + 1].unread
    BY <1>2, <1>4, <1>8
  <2>2. ~(N[n + 1].block <= N[i].block)
    BY <1>5, <2>1
  <2> QED BY <2>1, <2>2 DEF SinceTo
<1>9. ASSUME a \notin unread, NEW i \in 1..n PROVE i \in SinceTo(N, m, a) <=> i \in SinceTo(N, n, a)
  <2>1. \A j \in 1..m : a \in N[j].unread => j \in 1..n
    BY <1>3, <1>4, <1>9
  <2>2. \A j \in 1..n : j \in 1..m
    BY <1>1, <1>2
  <2> QED BY <2>1, <2>2 DEF SinceTo
<1>10. SinceTo(N, n, a) \subseteq 1..n
  BY DEF SinceTo
<1> QED BY <1>1, <1>7, <1>8, <1>9, <1>10

\* The entries that count up to a position.
LEMMA OwedIn ==
    ASSUME NEW N, NEW m \in Nat, NEW a, NEW S, NEW T, S \cap 1..m = T \cap 1..m, NEW balance,
           Owed(N, m, a, S, balance)
    PROVE  Owed(N, m, a, T, balance)
<1>1. PaidTo(N, m, a) \cap S = PaidTo(N, m, a) \cap T /\ GainedTo(N, m, a) \cap S = GainedTo(N, m, a) \cap T
  BY DEF PaidTo, GainedTo
<1> QED BY <1>1, Zenon DEF Owed, Owes

\* Of an empty wallet nothing need be said.
LEMMA OwedNothing ==
    ASSUME NEW N, NEW m \in Nat, NEW a, NEW S,
           PaidTo(N, m, a) \cap S = {}, GainedTo(N, m, a) \cap S = {}
    PROVE  Owed(N, m, a, S, 0)
<1>1. TotalOf(N, {}) = 0 /\ UintSize \in Nat
  BY TotalOfNone, UintAssumption
<1>2. 0 \in 0..m /\ 0 + (0 * UintSize + 0) = 0
  BY <1>1
<1>3. Owes(N, m, a, S, 0, 0)
  BY <1>1, <1>2 DEF Owes
<1> QED BY <1>2, <1>3, Zenon DEF Owed

\* Before the first transaction.
LEMMA AccountedFirst ==
    ASSUME NEW N, NEW n \in Nat, NEW b, \A i \in 1..n : N[i].block # b,
           NEW shard, Parties(shard) \subseteq Accounts, NEW unread,
           NEW db, HasWallets(db), LedgerOf(N, n, db), NEW hs, HistoriesAt(N, n, hs),
           NEW S, \A a \in Parties(shard) :
                     S[a] \cap 1..n = IF a \in unread THEN {} ELSE SinceTo(N, n, a),
           NEW st, Begins(st, shard, unread, db)
    PROVE  AccountedAt(N, n, b, st, hs, S)
<1>1. PICK c, P : c = st.cache /\ P = Parties(shard)
  OBVIOUS
<1>2. /\ DOMAIN c = P /\ DOMAIN st.history = {}
      /\ \A a \in P : /\ c[a].balance = IF a \in unread THEN 0 ELSE Balances(db)[a]
                      /\ c[a].tokens = << >> /\ c[a].history = NoHistory
  <2>1. Cached(st, P, 0) /\ DOMAIN st.history = {} /\ Fresh(c, shard, unread, db)
    BY <1>1, LoadedIsFresh
  <2>2. DOMAIN c = P
    BY <1>1, <2>1 DEF Cached
  <2> QED BY <1>1, <2>1, <2>2, Zenon DEF Fresh
<1>3. ASSUME NEW a \in P PROVE Owed(N, n, a, S[a], c[a].balance)
  <2>1. PaidTo(N, n, a) \subseteq 1..n /\ GainedTo(N, n, a) \subseteq 1..n
    BY DEF PaidTo, GainedTo
  <2>2. S[a] \cap 1..n = IF a \in unread THEN {} ELSE SinceTo(N, n, a)
    BY <1>1
  <2>3. CASE a \in unread
    BY <1>2, <2>1, <2>2, <2>3, OwedNothing
  <2>4. CASE a \notin unread /\ a \in DOMAIN db
    <3>1. c[a].balance = db[a].balance
      BY <1>1, <1>2, <2>4 DEF Balances
    <3>2. Owed(N, n, a, SinceTo(N, n, a), db[a].balance)
      BY <2>4 DEF LedgerOf
    <3>3. SinceTo(N, n, a) \cap 1..n = S[a] \cap 1..n
      BY <2>2, <2>4 DEF SinceTo
    <3> QED BY <3>1, <3>2, <3>3, OwedIn
  <2>5. CASE a \notin unread /\ a \notin DOMAIN db
    <3>1. c[a].balance = 0
      BY <1>1, <1>2, <2>5 DEF Balances
    <3>2. GainedTo(N, n, a) \cap S[a] = {} /\ PaidTo(N, n, a) \cap S[a] = {}
      BY <2>5 DEF LedgerOf
    <3> QED BY <3>1, <3>2, OwedNothing
  <2> QED BY <2>3, <2>4, <2>5
<1>4. LedgerAt(N, n, c, S)
  BY <1>2, <1>3 DEF LedgerAt
<1>5. HistAt(N, n, st, hs)
  BY <1>1, <1>2 DEF HistAt, HistoriesAt
<1>6. ASSUME NEW a \in DOMAIN c, NEW token
      PROVE  TokenAs(N, IssuesTo(N, n, a, token, b), c[a].tokens, token)
  <2>1. IssuesTo(N, n, a, token, b) = {}
    BY DEF IssuesTo, IsIssue
  <2>2. PICK tk : tk = c[a].tokens
    OBVIOUS
  <2>3. DOMAIN tk = {}
    BY <1>2, <2>2
  <2> QED BY <2>1, <2>2, <2>3 DEF TokenAs
<1>7. TokensAt(N, n, b, c)
  BY <1>6 DEF TokensAt
<1> QED BY <1>1, <1>4, <1>5, <1>7 DEF AccountedAt

\* The accounts after the i-th transaction, or earlier ones when it is skipped.
LEMMA PassAccounted ==
    ASSUME NEW N, NEW n \in Nat, NEW b, NEW shard, IsShard(shard), NEW hs, HistoriesAt(N, n, hs),
           NEW unreadable, NEW unread, NEW st,
           Logged(N, n, b, shard, st, unreadable, unread),
           NEW P, NEW S, \A a \in P : \A j \in 1..Len(shard) : n + j \in S[a],
           NEW i \in 1..Len(shard), NEW p \in Nat, i = p + 1, NEW u, NEW s,
           Cached(u, P, p), Cached(s, P, i), st.fates[i] = s.fates[i],
           Follows(s, u, shard[i], hs, unreadable), AccountedAt(N, n + p, b, u, hs, S)
    PROVE  AccountedAt(N, n + i, b, s, hs, S)
<1>1. PICK t, m, k : t = shard[i] /\ m = n + p /\ k = Len(shard)
  OBVIOUS
<1>2. k \in Nat /\ t.from # GenesisTx.from /\ t # GenesisTx
  BY <1>1, PartiesLoaded
<1>3. m \in Nat /\ n <= m /\ n + i = m + 1 /\ m + 1 <= n + k /\ m + 1 \in Nat /\ n + k \in Nat
  BY <1>1, <1>2
<1>4. IsLog(N, m + 1) /\ SameBlock(N, n, m + 1, b)
  <2>1. IsLog(N, n + k) /\ SameBlock(N, n, n + k, b)
    BY <1>1 DEF Logged
  <2> QED BY <1>3, <2>1, ShorterLog
<1>5. Appends(N, m + 1, b, t, u, s, unreadable)
  <2>1. Tells(N, m + 1, b, i, shard, st, unreadable, unread)
    BY <1>3 DEF Logged
  <2>2. Len(u.fates) + 1 = i
    BY DEF Cached
  <2>3. /\ N[m + 1].tx = t /\ N[m + 1].block = b /\ N[m + 1].fate = s.fates[i]
        /\ N[m + 1].read <=> i \notin unreadable
    BY <1>1, <2>1, Zenon DEF Tells
  <2> QED BY <2>2, <2>3, Zenon DEF Appends
<1>6. \A a \in P : m + 1 \in S[a]
  BY <1>3
<1>7. AccountedAt(N, m, b, u, hs, S) /\ Follows(s, u, t, hs, unreadable)
  BY <1>1
<1>8. AccountedAt(N, m + 1, b, s, hs, S)
  BY <1>2, <1>3, <1>4, <1>5, <1>6, <1>7, AccountedStep, Zenon
<1> QED BY <1>3, <1>8

\* The accounts in the middle of a block, its last unread wallets counted.
Explains(N, m, b, P, st, hs) ==
    \E S : AccountedAt(N, m, b, st, hs, S) /\ \A a \in P : S[a] = SinceTo(N, m, a)

\* The whole shard.
LEMMA ShardAccounted ==
    ASSUME NEW N, NEW n \in Nat, NEW b, NEW shard, IsShard(shard), NEW unread,
           NEW db, HasWallets(db), LedgerOf(N, n, db), NEW hs, HistoriesAt(N, n, hs),
           NEW unreadable, NEW st, Ends(st, shard, unread, db, hs, unreadable),
           ~st.thrown, Logged(N, n, b, shard, st, unreadable, unread)
    PROVE  /\ Cached(st, Parties(shard), Len(shard))
           /\ Explains(N, n + Len(shard), b, Parties(shard), st, hs)
<1>1. PICK k, P : k = Len(shard) /\ P = Parties(shard)
  OBVIOUS
<1>2. k \in Nat /\ k >= 1 /\ P \subseteq Accounts
  BY <1>1, PartiesLoaded, Zenon
<1>3. PICK g : Runs(g, shard, unread, db, hs, unreadable) /\ st = g[k]
  <2>1. PICK g : Runs(g, shard, unread, db, hs, unreadable) /\ st = g[Len(shard)]
    BY ShardRuns
  <2> QED BY <1>1, <2>1, Zenon
<1>4. /\ \A i \in 0..k : Cached(g[i], P, i)
      /\ \A i \in 1..k : /\ Follows(g[i], g[i - 1], shard[i], hs, unreadable)
                         /\ st.fates[i] = g[i].fates[i]
  <2>1. ~g[Len(shard)].thrown
    BY <1>1, <1>3, Zenon
  <2>2. /\ \A i \in 0..Len(shard) : Cached(g[i], Parties(shard), i)
        /\ \A i \in 1..Len(shard) : /\ Follows(g[i], g[i - 1], shard[i], hs, unreadable)
                                    /\ g[Len(shard)].fates[i] = g[i].fates[i]
    BY <1>3, <2>1, FatesKept
  <2> QED BY <1>1, <1>3, <2>2, Zenon
<1>5. PICK S : S = [a \in P |-> SinceTo(N, n + k, a)]
  OBVIOUS
<1>6. \A a \in P : /\ S[a] = SinceTo(N, n + k, a)
                   /\ \A j \in 1..k : n + j \in S[a]
                   /\ S[a] \cap 1..n = IF a \in unread THEN {} ELSE SinceTo(N, n, a)
  <2>1. ASSUME NEW a
        PROVE  /\ \A i \in 1..k : n + i \in SinceTo(N, n + k, a)
               /\ a \in unread => SinceTo(N, n + k, a) \cap 1..n = {}
               /\ a \notin unread => SinceTo(N, n + k, a) \cap 1..n = SinceTo(N, n, a)
    BY <1>1, <1>2, SinceGrows, Zenon
  <2>2. \A a \in P : S[a] = SinceTo(N, n + k, a)
    BY <1>5, Zenon
  <2> QED BY <2>1, <2>2, Zenon
<1> DEFINE Good(i) == AccountedAt(N, n + i, b, g[i], hs, S)
<1>7. Good(0)
  <2>1. Begins(g[0], shard, unread, db)
    BY <1>3, Zenon DEF Runs
  <2>2. (\A i \in 1..n : N[i].block # b) /\ n + 0 = n
    <3>1. b \in Nat /\ \A i \in 1..n : N[i].block \in Nat /\ N[i].block < b
      BY Zenon DEF Logged
    <3>2. n \in Nat
      OBVIOUS
    <3> QED BY ONLY <3>1, <3>2
  <2>3. AccountedAt(N, n, b, g[0], hs, S)
    BY <1>1, <1>2, <1>6, <2>1, <2>2, AccountedFirst, Zenon
  <2> QED BY <2>2, <2>3, Zenon
<1>8. ASSUME NEW i \in 1..k, Good(i - 1) PROVE Good(i)
  <2>1. PICK p, u, s : p = i - 1 /\ u = g[p] /\ s = g[i]
    OBVIOUS
  <2>2. p \in Nat /\ p \in 0..k /\ i \in 0..k /\ i = p + 1
    BY ONLY <1>2, <2>1, i \in 1..k
  <2>3. Cached(u, P, p) /\ Cached(s, P, i) /\ Follows(s, u, shard[i], hs, unreadable)
    BY <1>4, <2>1, <2>2, Zenon
  <2>4. AccountedAt(N, n + p, b, u, hs, S)
    BY <1>8, <2>1, Zenon
  <2>5. \A a \in P : \A j \in 1..Len(shard) : n + j \in S[a]
    BY <1>1, <1>6, Zenon
  <2>6. i \in 1..Len(shard) /\ st.fates[i] = s.fates[i]
    BY <1>1, <1>4, <2>1, Zenon
  <2>7. AccountedAt(N, n + i, b, s, hs, S)
    BY <2>2, <2>3, <2>4, <2>5, <2>6, PassAccounted, Zenon
  <2> QED BY <2>1, <2>7, Zenon
<1>9. PICK T : T = {i \in 0..k : Good(i)}
  OBVIOUS
<1> HIDE DEF Good
<1>10. 0 \in T /\ \A i \in 1..k : i - 1 \in T => i \in T
  <2>1. 0 \in 0..k /\ \A i \in 1..k : i \in 0..k
    BY ONLY <1>2
  <2> QED BY <1>7, <1>8, <1>9, <2>1, Zenon
<1>11. Good(k) /\ Cached(g[k], P, k)
  <2>1. \A i \in 0..k : i \in T
    BY <1>2, <1>10, EveryPass, Zenon
  <2>2. k \in 0..k
    BY ONLY <1>2
  <2> QED BY <1>4, <1>9, <2>1, <2>2, Zenon
<1>12. AccountedAt(N, n + k, b, st, hs, S)
  BY <1>3, <1>11, Zenon DEF Good
<1>13. Explains(N, n + k, b, P, st, hs)
  BY <1>6, <1>12, Zenon DEF Explains
<1> QED BY <1>1, <1>3, <1>11, <1>13, Zenon

-----------------------------------------------------------------------------
(* From one log to the next *)

\* The entries about a, and the tokens of the wallets as the last block about
\* each left them.
TouchingTo(N, m, a) == {i \in 1..m : a \in {N[i].tx.from, N[i].tx.to}}
LastBlock(N, m, a) == N[Max(TouchingTo(N, m, a))].block
TokensOf(N, m, us) ==
    \A a \in DOMAIN us :
        /\ TouchingTo(N, m, a) # {}
        /\ \A token : TokenAs(N, IssuesTo(N, m, a, token, LastBlock(N, m, a)),
                              us[a].tokens, token)

\* Two logs with the same first entries.
Agree(N, L, m) == \A i \in 1..m : N[i] = L[i]

\* They say the same of balances.
LEMMA SameLedger ==
    ASSUME NEW N, NEW L, NEW m \in Nat, Agree(N, L, m), IsLog(L, m),
           NEW db, LedgerOf(L, m, db)
    PROVE  LedgerOf(N, m, db)
<1>1. \A a : /\ PaidTo(N, m, a) = PaidTo(L, m, a) /\ PaidTo(L, m, a) \subseteq 1..m
             /\ GainedTo(N, m, a) = GainedTo(L, m, a) /\ GainedTo(L, m, a) \subseteq 1..m
  BY DEF PaidTo, GainedTo, Pays1, IsMove, Agree
<1>2. \A a : SinceTo(N, m, a) = SinceTo(L, m, a)
  BY DEF SinceTo, Agree
<1>3. ASSUME NEW S, S \subseteq 1..m PROVE TotalOf(N, S) = TotalOf(L, S)
  <2>1. IsFiniteSet(S) /\ HasAmounts(L, S)
    BY <1>3, MovesHaveAmounts
  <2>2. \A i \in S : N[i] = L[i]
    BY <1>3 DEF Agree
  <2> QED BY <2>1, <2>2, TotalSame
<1>4. ASSUME NEW a, NEW balance, Owed(L, m, a, SinceTo(L, m, a), balance)
      PROVE  Owed(N, m, a, SinceTo(N, m, a), balance)
  <2>1. PICK A, B : /\ A = PaidTo(L, m, a) \cap SinceTo(L, m, a)
                    /\ B = GainedTo(L, m, a) \cap SinceTo(L, m, a)
    OBVIOUS
  <2>2. /\ A = PaidTo(N, m, a) \cap SinceTo(N, m, a) /\ A \subseteq 1..m
        /\ B = GainedTo(N, m, a) \cap SinceTo(N, m, a) /\ B \subseteq 1..m
    BY <1>1, <1>2, <2>1
  <2>3. TotalOf(N, A) = TotalOf(L, A) /\ TotalOf(N, B) = TotalOf(L, B)
    BY <1>3, <2>2, Zenon
  <2>4. PICK w \in 0..m : Owes(L, m, a, SinceTo(L, m, a), balance, w)
    BY <1>4 DEF Owed
  <2>5. Owes(N, m, a, SinceTo(N, m, a), balance, w)
    BY <2>1, <2>2, <2>3, <2>4, Zenon DEF Owes
  <2> QED BY <2>5, Zenon DEF Owed
<1> QED BY <1>1, <1>4, Zenon DEF LedgerOf

\* They say the same of histories.
LEMMA SameHistories ==
    ASSUME NEW N, NEW L, NEW m \in Nat, Agree(N, L, m), NEW hs, HistoriesAt(L, m, hs)
    PROVE  HistoriesAt(N, m, hs)
<1>1. \A a : /\ OwnTo(N, m, a) = OwnTo(L, m, a) /\ OwnTo(L, m, a) \subseteq 1..m
             /\ MadeTo(N, m, a) = MadeTo(L, m, a) /\ MadeTo(L, m, a) \subseteq 1..m
  BY DEF OwnTo, MadeTo, PaidTo, GainedTo, Pays1, IsMove, Agree
<1>2. \A a : \A i, j \in 1..m : /\ ReceivedAt(N, a, j) <=> ReceivedAt(L, a, j)
                                /\ Hides(N, a, j, i) <=> Hides(L, a, j, i)
                                /\ N[i].tx.id = L[i].tx.id
  BY DEF ReceivedAt, Hides, Agree
<1>3. ASSUME NEW a, NEW h, Explained(L, m, a, h) PROVE Explained(N, m, a, h)
  <2>1. PICK own, made : /\ own = OwnTo(L, m, a) /\ own = OwnTo(N, m, a) /\ own \subseteq 1..m
                         /\ made = MadeTo(L, m, a) /\ made = MadeTo(N, m, a) /\ made \subseteq 1..m
    BY <1>1
  <2>2. \A i \in made : \/ L[i].tx.id \in EntriesOf(h)
                        \/ \E j \in own : j > i /\ Hides(L, a, j, i)
    BY <1>3, <2>1 DEF Explained, Lacks
  <2>3. \A id \in EntriesOf(h) : \/ \E i \in own : L[i].tx.id = id
                                 \/ \E i \in own : ReceivedAt(L, a, i)
    BY <1>3, <2>1 DEF Explained, Has
  <2>4. \A i \in made : \/ N[i].tx.id \in EntriesOf(h)
                        \/ \E j \in own : j > i /\ Hides(N, a, j, i)
    BY <1>2, <2>1, <2>2
  <2>5. \A id \in EntriesOf(h) : \/ \E i \in own : N[i].tx.id = id
                                 \/ \E i \in own : ReceivedAt(N, a, i)
    BY <1>2, <2>1, <2>3
  <2> QED BY <2>1, <2>4, <2>5 DEF Explained, Lacks, Has
<1> QED BY <1>1, <1>3 DEF HistoriesAt

\* They say the same of tokens.
LEMMA SameTokens ==
    ASSUME NEW N, NEW L, NEW m \in Nat, Agree(N, L, m), IsLog(L, m), NEW us, TokensOf(L, m, us)
    PROVE  TokensOf(N, m, us)
<1>1. \A a, token, b : /\ IssuesTo(N, m, a, token, b) = IssuesTo(L, m, a, token, b)
                       /\ IssuesTo(L, m, a, token, b) \subseteq 1..m
  BY DEF IssuesTo, IsIssue, Agree
<1>2. ASSUME NEW I, I \subseteq 1..m, NEW i PROVE SumTo(N, I, i) = SumTo(L, I, i)
  <2>1. PICK S : S = {k \in I : k <= i}
    OBVIOUS
  <2>2. S \subseteq 1..m
    BY <1>2, <2>1
  <2>3. IsFiniteSet(S) /\ HasAmounts(L, S)
    BY <2>2, MovesHaveAmounts
  <2>4. \A k \in S : N[k] = L[k]
    BY <2>2 DEF Agree
  <2>5. TotalOf(N, S) = TotalOf(L, S)
    BY <2>3, <2>4, TotalSame
  <2> QED BY <2>1, <2>5, Zenon DEF SumTo
<1>3. ASSUME NEW I, I \subseteq 1..m, NEW tk, NEW token, TokenAs(L, I, tk, token)
      PROVE  TokenAs(N, I, tk, token)
  BY <1>2, <1>3 DEF TokenAs
<1>4. \A a : TouchingTo(N, m, a) = TouchingTo(L, m, a)
  BY DEF TouchingTo, Agree
<1>5. ASSUME NEW a, TouchingTo(L, m, a) # {} PROVE LastBlock(N, m, a) = LastBlock(L, m, a)
  <2>1. PICK T : T = TouchingTo(L, m, a)
    OBVIOUS
  <2>2. T \subseteq 1..m
    BY <2>1 DEF TouchingTo
  <2>3. Max(T) \in T
    BY <1>5, <2>1, <2>2, MaxIsLargest
  <2> QED BY <1>4, <2>1, <2>2, <2>3 DEF LastBlock, Agree
<1>6. ASSUME NEW a \in DOMAIN us, NEW token
      PROVE  TokenAs(N, IssuesTo(N, m, a, token, LastBlock(N, m, a)), us[a].tokens, token)
  <2>1. PICK b, I, tk : /\ b = LastBlock(L, m, a) /\ I = IssuesTo(L, m, a, token, b)
                        /\ tk = us[a].tokens
    OBVIOUS
  <2>2. TokenAs(L, I, tk, token) /\ b = LastBlock(N, m, a)
    BY <1>5, <2>1 DEF TokensOf
  <2>3. I \subseteq 1..m /\ I = IssuesTo(N, m, a, token, b)
    BY <1>1, <2>1
  <2> QED BY <1>3, <2>1, <2>2, <2>3
<1>7. \A a \in DOMAIN us : TouchingTo(N, m, a) # {}
  BY <1>4 DEF TokensOf
<1> QED BY <1>6, <1>7 DEF TokensOf

\* The entries of a block are about the parties of its shard.
LEMMA PartiesTold ==
    ASSUME NEW N, NEW n \in Nat, NEW b, NEW shard, IsShard(shard), NEW st, NEW unreadable,
           NEW unread, Logged(N, n, b, shard, st, unreadable, unread)
    PROVE  /\ \A i \in 1..(n + Len(shard)) : i \notin 1..n =>
                 N[i].tx.from \in Parties(shard) /\ N[i].tx.to \in Parties(shard)
           /\ \A a \in Parties(shard) : \E i \in 1..(n + Len(shard)) :
                 i > n /\ a \in {N[i].tx.from, N[i].tx.to}
<1>1. PICK k, m : k = Len(shard) /\ m = n + k
  OBVIOUS
<1>2. k \in Nat /\ m \in Nat /\ \A i \in 1..k : n + i \in 1..m /\ n + i > n
  BY <1>1, PartiesLoaded
<1>3. \A i \in 1..k : N[n + i].tx = shard[i]
  BY <1>1 DEF Logged, Tells
<1>4. ASSUME NEW i \in 1..m, i \notin 1..n
      PROVE  N[i].tx.from \in Parties(shard) /\ N[i].tx.to \in Parties(shard)
  <2>1. PICK j : j \in 1..k /\ i = n + j
    <3>1. i - n \in 1..k /\ i = n + (i - n)
      BY <1>1, <1>2, <1>4
    <3> QED BY <3>1
  <2>2. shard[j].from \in Parties(shard) /\ shard[j].to \in Parties(shard)
    BY <1>1, <2>1, PartiesLoaded
  <2> QED BY <1>3, <2>1, <2>2
<1>5. ASSUME NEW a \in Parties(shard)
      PROVE  \E i \in 1..m : i > n /\ a \in {N[i].tx.from, N[i].tx.to}
  <2>1. PICK t \in ToSet(shard) : a \in {t.from, t.to}
    BY DEF Parties
  <2>2. PICK i \in 1..k : t = shard[i]
    BY <1>1 DEF ToSet, IsShard
  <2> QED BY <1>2, <1>3, <2>1, <2>2
<1> QED BY <1>1, <1>4, <1>5

\* The wallets of a block written back: their balances,
LEMMA LedgerWritten ==
    ASSUME NEW N, NEW n \in Nat, NEW b, NEW shard, IsShard(shard), NEW st, NEW unreadable,
           NEW unread, unread \subseteq Parties(shard),
           Logged(N, n, b, shard, st, unreadable, unread), DOMAIN st.cache = Parties(shard),
           NEW S, \A a \in Parties(shard) : S[a] = SinceTo(N, n + Len(shard), a),
           LedgerAt(N, n + Len(shard), st.cache, S), NEW us, LedgerOf(N, n, us)
    PROVE  LedgerOf(N, n + Len(shard), Put(UserBatch(st), us))
<1>1. PICK k, m, c, x, y : /\ k = Len(shard) /\ m = n + k /\ c = st.cache
                           /\ x = UserBatch(st) /\ y = Put(x, us)
  OBVIOUS
<1>2. k \in Nat /\ k >= 1 /\ m \in Nat /\ DOMAIN c = Parties(shard)
  BY <1>1, PartiesLoaded
<1>3. DOMAIN x = DOMAIN c /\ \A a \in DOMAIN c : x[a].balance = c[a].balance
  BY <1>1 DEF UserBatch, Serialize
<1>4. /\ DOMAIN y = DOMAIN c \cup DOMAIN us
      /\ \A a \in DOMAIN c : y[a].balance = c[a].balance
      /\ \A a \in DOMAIN us \ DOMAIN c : y[a] = us[a]
  BY <1>1, <1>3 DEF Put
<1>5. ASSUME NEW a, a \notin DOMAIN c
      PROVE  PaidTo(N, m, a) = PaidTo(N, n, a) /\ GainedTo(N, m, a) = GainedTo(N, n, a)
  <2>1. \A i \in 1..m : i \notin 1..n => N[i].tx.from # a /\ N[i].tx.to # a
    BY <1>1, <1>2, <1>5, PartiesTold
  <2>2. \A i \in 1..n : i \in 1..m
    BY <1>1, <1>2
  <2> QED BY <2>1, <2>2 DEF PaidTo, GainedTo, Pays1
<1>6. ASSUME NEW a \in DOMAIN y PROVE Owed(N, m, a, SinceTo(N, m, a), y[a].balance)
  <2>1. CASE a \in DOMAIN c
    BY <1>1, <1>2, <1>4, <2>1 DEF LedgerAt
  <2>2. CASE a \notin DOMAIN c
    <3>1. a \in DOMAIN us /\ y[a] = us[a] /\ a \notin unread
      BY <1>2, <1>4, <1>6, <2>2
    <3>2. PICK z : z = us[a].balance
      OBVIOUS
    <3>3. Owed(N, n, a, SinceTo(N, n, a), z)
      BY <3>1, <3>2 DEF LedgerOf
    <3>4. PICK w \in 0..n : Owes(N, n, a, SinceTo(N, n, a), z, w)
      BY <3>3 DEF Owed
    <3>5. SinceTo(N, m, a) \cap 1..n = SinceTo(N, n, a)
      BY <1>1, <1>2, <3>1, SinceGrows
    <3>6. /\ PaidTo(N, m, a) \cap SinceTo(N, m, a) = PaidTo(N, n, a) \cap SinceTo(N, n, a)
          /\ GainedTo(N, m, a) \cap SinceTo(N, m, a) = GainedTo(N, n, a) \cap SinceTo(N, n, a)
      <4>1. PaidTo(N, n, a) \subseteq 1..n /\ GainedTo(N, n, a) \subseteq 1..n
        BY DEF PaidTo, GainedTo
      <4> QED BY <1>5, <2>2, <3>5, <4>1
    <3>7. Owes(N, m, a, SinceTo(N, m, a), z, w)
      BY <3>4, <3>6, Zenon DEF Owes
    <3>8. w \in 0..m
      BY <1>1, <1>2
    <3> QED BY <3>1, <3>2, <3>7, <3>8, Zenon DEF Owed
  <2> QED BY <2>1, <2>2
<1>7. ASSUME NEW a, a \notin DOMAIN y PROVE GainedTo(N, m, a) = {} /\ PaidTo(N, m, a) = {}
  BY <1>4, <1>5, <1>7 DEF LedgerOf
<1>8. LedgerOf(N, m, y)
  BY <1>6, <1>7 DEF LedgerOf
<1> QED BY <1>1, <1>8

\* and their tokens.
LEMMA TokensWritten ==
    ASSUME NEW N, NEW n \in Nat, NEW b, NEW shard, IsShard(shard), NEW st, NEW unreadable,
           NEW unread, Logged(N, n, b, shard, st, unreadable, unread),
           DOMAIN st.cache = Parties(shard),
           TokensAt(N, n + Len(shard), b, st.cache), NEW us, TokensOf(N, n, us)
    PROVE  TokensOf(N, n + Len(shard), Put(UserBatch(st), us))
<1>1. PICK k, m, c, x, y : /\ k = Len(shard) /\ m = n + k /\ c = st.cache
                           /\ x = UserBatch(st) /\ y = Put(x, us)
  OBVIOUS
<1>2. k \in Nat /\ m \in Nat /\ DOMAIN c = Parties(shard)
  BY <1>1, PartiesLoaded
<1>3. DOMAIN x = DOMAIN c /\ \A a \in DOMAIN c : x[a].tokens = c[a].tokens
  BY <1>1 DEF UserBatch, Serialize
<1>4. /\ DOMAIN y = DOMAIN c \cup DOMAIN us
      /\ \A a \in DOMAIN c : y[a].tokens = c[a].tokens
      /\ \A a \in DOMAIN us \ DOMAIN c : y[a] = us[a]
  BY <1>1, <1>3 DEF Put
<1>5. ASSUME NEW a \in DOMAIN c
      PROVE  TouchingTo(N, m, a) # {} /\ LastBlock(N, m, a) = b
  <2>1. PICK j \in 1..m : j > n /\ a \in {N[j].tx.from, N[j].tx.to}
    BY <1>1, <1>2, PartiesTold
  <2>2. PICK T : T = TouchingTo(N, m, a)
    OBVIOUS
  <2>3. j \in T /\ T \subseteq 1..m
    BY <2>1, <2>2 DEF TouchingTo
  <2>4. Max(T) \in T /\ Max(T) >= j
    BY <1>2, <2>3, MaxIsLargest
  <2>5. Max(T) \in 1..m /\ Max(T) > n
    <3>1. PICK q : q = Max(T)
      OBVIOUS
    <3>2. q \in 1..m /\ q >= j /\ j > n /\ j \in 1..m
      BY <2>1, <2>3, <2>4, <3>1
    <3>3. q > n
      BY <1>2, <3>2
    <3> QED BY <3>1, <3>2, <3>3
  <2>6. N[Max(T)].block = b
    BY <1>1, <2>5 DEF Logged, SameBlock
  <2> QED BY <2>2, <2>3, <2>6 DEF LastBlock
<1>6. ASSUME NEW a, a \notin DOMAIN c
      PROVE  /\ TouchingTo(N, m, a) = TouchingTo(N, n, a)
             /\ \A token, z : IssuesTo(N, m, a, token, z) = IssuesTo(N, n, a, token, z)
  <2>1. \A i \in 1..m : i \notin 1..n => N[i].tx.from # a /\ N[i].tx.to # a
    BY <1>1, <1>2, <1>6, PartiesTold
  <2>2. \A i \in 1..n : i \in 1..m
    BY <1>1, <1>2
  <2>3. TouchingTo(N, m, a) = TouchingTo(N, n, a)
    BY <2>1, <2>2 DEF TouchingTo
  <2>4. \A token, z : IssuesTo(N, m, a, token, z) = IssuesTo(N, n, a, token, z)
    BY <2>1, <2>2 DEF IssuesTo, IsIssue
  <2> QED BY <2>3, <2>4
<1>7. ASSUME NEW a \in DOMAIN y
      PROVE  /\ TouchingTo(N, m, a) # {}
             /\ \A token : TokenAs(N, IssuesTo(N, m, a, token, LastBlock(N, m, a)),
                                   y[a].tokens, token)
  <2>1. CASE a \in DOMAIN c
    BY <1>1, <1>4, <1>5, <2>1 DEF TokensAt
  <2>2. CASE a \notin DOMAIN c
    <3>1. a \in DOMAIN us /\ y[a] = us[a]
      BY <1>4, <1>7, <2>2
    <3>2. /\ TouchingTo(N, n, a) # {}
          /\ \A token : TokenAs(N, IssuesTo(N, n, a, token, LastBlock(N, n, a)),
                                us[a].tokens, token)
      BY <3>1 DEF TokensOf
    <3>3. LastBlock(N, m, a) = LastBlock(N, n, a)
      BY <1>6, <2>2 DEF LastBlock
    <3> QED BY <1>6, <2>2, <3>1, <3>2, <3>3
  <2> QED BY <2>1, <2>2
<1> QED BY <1>1, <1>7 DEF TokensOf

-----------------------------------------------------------------------------
(* A block as the builder leaves it *)

\* A block's fields.
AsBlock(hash, previousHash, root, time, index, size, sign, shards) ==
    [hash |-> hash, previousHash |-> previousHash, merkleRoot |-> root, time |-> time,
     index |-> index, size |-> size, signP |-> sign, shardList |-> shards]

\* The root generateMerkleRoot writes depends on the shards only.
RootOf(shards) ==
    IF shards = << >>
    THEN DoubleSha3(Zeros)
    ELSE get_root([i \in DOMAIN shards |-> NoText]
                     \o [i \in DOMAIN shards |-> shards[i].transactionMerkleRoot])

\* Reading and writing a block's fields.
LEMMA BlockFields ==
    ASSUME NEW h, NEW p, NEW r, NEW t, NEW i, NEW z, NEW g, NEW s,
           NEW b, b = AsBlock(h, p, r, t, i, z, g, s)
    PROVE  /\ b.hash = h /\ b.previousHash = p /\ b.merkleRoot = r /\ b.time = t
           /\ b.index = i /\ b.size = z /\ b.signP = g /\ b.shardList = s
           /\ \A x : [b EXCEPT !.size = x] = AsBlock(h, p, r, t, i, x, g, s)
           /\ \A x : [b EXCEPT !.time = x] = AsBlock(h, p, r, x, i, z, g, s)
           /\ \A x : [b EXCEPT !.index = x] = AsBlock(h, p, r, t, x, z, g, s)
           /\ \A x : [b EXCEPT !.shardList = x] = AsBlock(h, p, r, t, i, z, g, x)
  BY DEF AsBlock

\* The fields a built block has.
LEMMA BuiltFields ==
    ASSUME NEW p, NEW t, NEW i, NEW s
    PROVE  \E h, r, g : /\ Built(p, t, i, s) = AsBlock(h, p, r, t, i, 0, g, s)
                        /\ h = DoubleSha3(serializeBlock(AsBlock(NoText, p, NoText, t, i, 0, NoText, s)))
                        /\ r = RootOf(s)
                        /\ g = Signature(serializeForSigning(AsBlock(h, p, r, t, i, 0, NoText, s)))
<1>1. PICK x, y, z, b : /\ x = AsBlock(NoText, p, NoText, t, i, 0, NoText, s)
                        /\ y = generateHash(x) /\ z = generateMerkleRoot(y)
                        /\ b = setProverSign(z)
  OBVIOUS
<1>2. x = [NothingStored EXCEPT !.previousHash = p, !.time = t, !.index = i, !.shardList = s]
  <2>1. PICK e, o, x0 : e = NoText /\ o = 0 /\ x0 = NothingStored
    OBVIOUS
  <2>2. x0 = AsBlock(e, e, e, o, o, o, e, e)
    BY <2>1, Zenon DEF AsBlock, NothingStored, NoText
  <2>3. PICK x1 : x1 = [x0 EXCEPT !.previousHash = p]
    OBVIOUS
  <2>4. x1 = AsBlock(e, p, e, o, o, o, e, e)
    BY <2>2, <2>3 DEF AsBlock
  <2>5. PICK x2 : x2 = [x1 EXCEPT !.time = t]
    OBVIOUS
  <2>6. x2 = AsBlock(e, p, e, t, o, o, e, e)
    BY <2>4, <2>5, BlockFields
  <2>7. PICK x3 : x3 = [x2 EXCEPT !.index = i]
    OBVIOUS
  <2>8. x3 = AsBlock(e, p, e, t, i, o, e, e)
    BY <2>6, <2>7, BlockFields
  <2>9. [x3 EXCEPT !.shardList = s] = AsBlock(e, p, e, t, i, o, e, s)
    BY <2>8, BlockFields
  <2> QED BY <1>1, <2>1, <2>3, <2>5, <2>7, <2>9
<1>3. Built(p, t, i, s) = b
  BY <1>1, <1>2, Zenon DEF Built
<1>4. PICK h : h = DoubleSha3(serializeBlock(x))
  OBVIOUS
<1>5. y = [x EXCEPT !.hash = h]
  BY <1>1, <1>4, Zenon DEF generateHash
<1>6. y = AsBlock(h, p, NoText, t, i, 0, NoText, s)
  BY <1>1, <1>5 DEF AsBlock
<1>7. PICK r : r = RootOf(s)
  OBVIOUS
<1>8. y.shardList = s
  BY <1>6 DEF AsBlock
<1>9. z = [y EXCEPT !.merkleRoot = r]
  BY <1>1, <1>7, <1>8, Zenon DEF generateMerkleRoot, RootOf
<1>10. z = AsBlock(h, p, r, t, i, 0, NoText, s)
  BY <1>6, <1>9 DEF AsBlock
<1>11. PICK g : g = Signature(serializeForSigning(z))
  OBVIOUS
<1>12. b = [z EXCEPT !.signP = g]
  BY <1>1, <1>11, Zenon DEF setProverSign
<1>13. b = AsBlock(h, p, r, t, i, 0, g, s)
  BY <1>10, <1>12 DEF AsBlock
<1> QED BY <1>1, <1>3, <1>4, <1>7, <1>10, <1>11, <1>13, Zenon

-----------------------------------------------------------------------------
(* What the commits of a block leave *)

\* An entry of the log.
AsEntry(b, t, f, r, u) == [block |-> b, tx |-> t, fate |-> f, read |-> r, unread |-> u]

\* Reading its fields.
LEMMA EntryFields ==
    ASSUME NEW b, NEW t, NEW f, NEW r, NEW u, NEW e, e = AsEntry(b, t, f, r, u)
    PROVE  /\ e.block = b /\ e.tx = t /\ e.fate = f /\ e.unread = u /\ e.read = r
  BY DEF AsEntry

\* The log after a block.
LEMMA StoreLogs ==
    ASSUME log \in Seq(ToSet(log)), NEW shard, shard \in Seq(ToSet(shard)),
           NEW b, NEW st, NEW unread, NEW unreadable, Store(b, shard, st, unread, unreadable)
    PROVE  /\ log' \in Seq(ToSet(log')) /\ Len(log') = Len(log) + Len(shard)
           /\ Agree(log', log, Len(log))
           /\ \A i \in 1..Len(shard) :
                Tells(log', Len(log) + i, b.time, i, shard, st, unreadable, unread)
<1>1. PICK n, k, t : n = Len(log) /\ k = Len(shard) /\ t = b.time
  OBVIOUS
<1>2. n \in Nat /\ k \in Nat /\ DOMAIN shard = 1..k
  BY <1>1
<1>3. PICK w : w = [i \in DOMAIN shard |->
                      AsEntry(t, shard[i], st.fates[i], i \notin unreadable, unread)]
  OBVIOUS
<1>4. log' = log \o w
  BY <1>1, <1>3, Zenon DEF Store, AsEntry
<1>5. DOMAIN w = 1..k
  BY <1>2, <1>3, Zenon
<1>6. ASSUME NEW i \in 1..k
      PROVE  /\ w[i].tx = shard[i] /\ w[i].block = t /\ w[i].fate = st.fates[i]
             /\ w[i].read <=> i \notin unreadable
             /\ w[i].unread = unread
  <2>1. PICK y, f : y = (i \notin unreadable) /\ f = st.fates[i]
    OBVIOUS
  <2>2. w[i] = AsEntry(t, shard[i], f, y, unread)
    BY <1>2, <1>3, <2>1, Zenon
  <2>3. PICK z, v : z = w[i] /\ v = shard[i]
    OBVIOUS
  <2>4. z = AsEntry(t, v, f, y, unread)
    BY <2>2, <2>3, Zenon
  <2>5. z.block = t /\ z.tx = v /\ z.fate = f /\ z.unread = unread /\ z.read = y
    BY ONLY <2>4 DEF AsEntry
  <2> QED BY <2>1, <2>3, <2>5, Zenon
<1>7. w \in Seq(ToSet(w)) /\ Len(w) = k
  <2>1. PICK f : f = w
    OBVIOUS
  <2>2. f = [i \in 1..k |-> f[i]]
    BY <1>2, <1>3, <1>5, <2>1, Zenon
  <2>3. f \in [1..k -> ToSet(f)]
    BY <2>2 DEF ToSet
  <2>4. f \in Seq(ToSet(f)) /\ Len(f) = k
    BY <1>2, <2>3
  <2> QED BY <2>1, <2>4
<1>8. PICK S : S = ToSet(log) \cup ToSet(w)
  OBVIOUS
<1>9. log \in Seq(S) /\ w \in Seq(S)
  BY <1>7, <1>8
<1>10. PICK N : N = log \o w
  OBVIOUS
<1>11. /\ N \in Seq(S) /\ Len(N) = n + k
       /\ \A i \in 1..n : N[i] = log[i]
       /\ \A i \in 1..k : N[n + i] = w[i]
  <2>1. /\ N \in Seq(S) /\ Len(N) = Len(log) + Len(w)
        /\ \A i \in 1..(Len(log) + Len(w)) :
              N[i] = IF i <= Len(log) THEN log[i] ELSE w[i - Len(log)]
    BY <1>9, <1>10, ConcatProperties
  <2>2. \A i \in 1..n : i \in 1..(n + k) /\ i <= n
    BY <1>2
  <2>3. \A i \in 1..k : n + i \in 1..(n + k) /\ ~(n + i <= n) /\ (n + i) - n = i
    BY <1>2
  <2> QED BY <1>1, <1>7, <2>1, <2>2, <2>3
<1>12. N \in Seq(ToSet(N))
  <2>1. n + k \in Nat /\ N \in [1..(n + k) -> S]
    BY <1>2, <1>11
  <2>2. N \in [1..(n + k) -> ToSet(N)]
    BY <2>1 DEF ToSet
  <2> QED BY <2>1, <2>2
<1>13. ASSUME NEW i \in 1..k PROVE Tells(N, n + i, t, i, shard, st, unreadable, unread)
  <2>1. PICK q : q = n + i
    OBVIOUS
  <2>2. N[q] = w[i]
    BY <1>11, <2>1
  <2>3. /\ w[i].tx = shard[i] /\ w[i].block = t /\ w[i].fate = st.fates[i]
        /\ w[i].read <=> i \notin unreadable
        /\ w[i].unread = unread
    BY <1>6
  <2>4. Tells(N, q, t, i, shard, st, unreadable, unread)
    BY <2>2, <2>3, Zenon DEF Tells
  <2> QED BY <2>1, <2>4, Zenon
<1>14. Agree(N, log, n)
  BY <1>11 DEF Agree
<1> QED BY <1>1, <1>4, <1>10, <1>11, <1>12, <1>13, <1>14

-----------------------------------------------------------------------------
(* The invariant of the stored records *)

\* The log is a sequence of transactions, each in a block not after the last;
\* before the genesis block nothing is stored.
LogInv ==
    /\ log \in Seq(ToSet(log)) /\ IsLog(log, Len(log))
    /\ block.time \in Nat
    /\ \A i \in 1..Len(log) : log[i].block \in Nat /\ log[i].block <= block.time
    /\ accepted \subseteq Txs
    /\ block = NothingStored => users = << >> /\ histories = << >> /\ log = << >>

\* Every transfer made has its text in the transaction database.
TextsOf(N, m, texts) == \A i \in 1..m : IsMove(N[i]) => \E x \in texts : x.tx = N[i].tx

\* The databases agree with the log: the balances with the transfers, the
\* histories with the entries, the tokens with the last block about each wallet.
BooksInv ==
    /\ HasWallets(users) /\ LedgerOf(log, Len(log), users)
    /\ HistoriesAt(log, Len(log), histories)
    /\ TokensOf(log, Len(log), users)
    /\ TextsOf(log, Len(log), storedTxs)

\* The properties' sets are those of the whole log.
LEMMA WholeLog ==
    ASSUME log \in Seq(ToSet(log)), NEW m, m = Len(log)
    PROVE  /\ m \in Nat /\ DOMAIN log = 1..m
           /\ \A a : /\ Own(a) = OwnTo(log, m, a) /\ Gained(a) = GainedTo(log, m, a)
                     /\ Paid(a) = PaidTo(log, m, a) /\ Since(a) = SinceTo(log, m, a)
                     /\ Touching(a) = TouchingTo(log, m, a)
           /\ \A S : Total(S) = TotalOf(log, S)
           /\ \A a, i : Received(a, i) <=> ReceivedAt(log, a, i)
           /\ \A a : Entries(a) = EntriesOf(histories[a])
           /\ \A a, token, b : Issues(a, token, b) = IssuesTo(log, m, a, token, b)
<1>1. m \in Nat /\ DOMAIN log = 1..m
  OBVIOUS
<1>2. Moved = {i \in 1..m : IsMove(log[i])}
  BY <1>1 DEF Moved, IsMove
<1>3. \A a : /\ Own(a) = OwnTo(log, m, a) /\ Gained(a) = GainedTo(log, m, a)
             /\ Paid(a) = PaidTo(log, m, a)
  BY <1>2 DEF Own, OwnTo, Gained, GainedTo, Paid, PaidTo, Pays1
<1>4. \A a : Since(a) = SinceTo(log, m, a) /\ Touching(a) = TouchingTo(log, m, a)
  BY <1>1 DEF Since, SinceTo, Touching, TouchingTo
<1>5. ASSUME NEW S PROVE Total(S) = TotalOf(log, S)
  BY DEF Total, TotalOf
<1>6. \A a, i : Received(a, i) <=> ReceivedAt(log, a, i)
  BY DEF Received, ReceivedAt
<1>7. \A a : Entries(a) = EntriesOf(histories[a])
  BY DEF Entries, EntriesOf
<1>8. \A a, token, b : Issues(a, token, b) = IssuesTo(log, m, a, token, b)
  BY <1>1 DEF Issues, IssuesTo, IsIssue
<1> QED BY <1>1, <1>3, <1>4, <1>5, <1>6, <1>7, <1>8, Zenon

\* The invariant implies what is said of balances,
LEMMA BooksShowLedger ==
    ASSUME LogInv, BooksInv
    PROVE  BalanceIsLedger
<1>1. PICK m : m = Len(log)
  OBVIOUS
<1>2. /\ m \in Nat /\ IsLog(log, m)
      /\ \A a : /\ Own(a) = OwnTo(log, m, a) /\ Gained(a) = GainedTo(log, m, a)
                /\ Paid(a) = PaidTo(log, m, a) /\ Since(a) = SinceTo(log, m, a)
      /\ \A S : Total(S) = TotalOf(log, S)
  BY <1>1, WholeLog, Zenon DEF LogInv
<1>3. ASSUME NEW a \in DOMAIN users
      PROVE  \E wraps \in 0..m :
                users[a].balance + wraps * UintSize + Total(Paid(a) \cap Since(a))
                    = Total(Gained(a) \cap Since(a))
  <2>1. PICK n, S : n = users[a].balance /\ S = SinceTo(log, m, a)
    OBVIOUS
  <2>2. n \in Nat /\ Owed(log, m, a, S, n)
    BY <1>1, <2>1 DEF BooksInv, LedgerOf, HasWallets, HasBalances
  <2>3. PICK w \in 0..m : Owes(log, m, a, S, n, w)
    BY <2>2 DEF Owed
  <2>4. PICK p, q, r : /\ p = w * UintSize /\ q = TotalOf(log, PaidTo(log, m, a) \cap S)
                       /\ r = TotalOf(log, GainedTo(log, m, a) \cap S)
    OBVIOUS
  <2>5. p \in Nat /\ q \in Nat /\ r \in Nat
    <3>1. PaidTo(log, m, a) \cap S \subseteq 1..m /\ GainedTo(log, m, a) \cap S \subseteq 1..m
      BY DEF PaidTo, GainedTo
    <3>2. q \in Nat /\ r \in Nat
      BY <1>2, <2>4, <3>1, MovesHaveAmounts
    <3>3. p \in Nat
      BY <1>2, <2>4, UintAssumption
    <3> QED BY <3>2, <3>3
  <2>6. n + (p + q) = r
    BY <2>3, <2>4, Zenon DEF Owes
  <2>7. n + p + q = r
    BY ONLY <2>2, <2>5, <2>6
  <2> QED BY <1>2, <2>1, <2>4, <2>7, Zenon
<1>4. ASSUME NEW a, NEW i \in Own(a) PROVE \E x \in storedTxs : x.tx = log[i].tx
  BY <1>1, <1>2, <1>4 DEF BooksInv, TextsOf, OwnTo
<1> QED BY <1>1, <1>3, <1>4, Zenon DEF BalanceIsLedger

\* of histories,
LEMMA BooksShowHistories ==
    ASSUME LogInv, BooksInv
    PROVE  HistoryExplained
<1>1. PICK m : m = Len(log)
  OBVIOUS
<1>2. /\ \A a : /\ Own(a) = OwnTo(log, m, a) /\ Gained(a) = GainedTo(log, m, a)
                /\ Paid(a) = PaidTo(log, m, a) /\ Entries(a) = EntriesOf(histories[a])
      /\ \A a, i : Received(a, i) <=> ReceivedAt(log, a, i)
  BY <1>1, WholeLog, Zenon DEF LogInv
<1>3. ASSUME NEW a \in DOMAIN histories
      PROVE  /\ \A i \in Gained(a) \cup Paid(a) :
                   \/ log[i].tx.id \in Entries(a)
                   \/ \E j \in Own(a) :
                         /\ j > i
                         /\ Received(a, j) \/ log[j].block = log[i].block \/ ~log[j].read
             /\ \A id \in Entries(a) :
                   \/ \E i \in Own(a) : log[i].tx.id = id
                   \/ \E i \in Own(a) : Received(a, i)
  <2>1. Explained(log, m, a, histories[a])
    BY <1>1 DEF BooksInv, HistoriesAt
  <2> QED BY <1>2, <2>1, Zenon DEF Explained, Lacks, Has, Hides, MadeTo
<1> QED BY <1>3, Zenon DEF HistoryExplained

\* and of tokens.
LEMMA BooksShowTokens ==
    ASSUME LogInv, BooksInv
    PROVE  TokensOfLastBlock
<1>1. PICK m : m = Len(log)
  OBVIOUS
<1>2. /\ \A a : Touching(a) = TouchingTo(log, m, a)
      /\ \A a, token, b : Issues(a, token, b) = IssuesTo(log, m, a, token, b)
      /\ \A a, token, b, i :
            Issued(a, token, b, i) = SumTo(log, IssuesTo(log, m, a, token, b), i)
  <2>1. log \in Seq(ToSet(log))
    BY DEF LogInv
  <2>2. \A a : Touching(a) = TouchingTo(log, m, a)
    BY <1>1, <2>1, WholeLog, Zenon
  <2>3. \A a, token, b : Issues(a, token, b) = IssuesTo(log, m, a, token, b)
    BY <1>1, <2>1, WholeLog, Zenon
  <2>4. \A a, token, b, i :
           Issued(a, token, b, i) = SumTo(log, IssuesTo(log, m, a, token, b), i)
    <3>1. \A S : Total(S) = TotalOf(log, S)
      BY <1>1, <2>1, WholeLog, Zenon
    <3> QED BY <2>3, <3>1 DEF Issued, SumTo
  <2> QED BY <2>2, <2>3, <2>4
<1>3. ASSUME NEW a \in DOMAIN users, NEW token
      PROVE  LET last == log[Max(Touching(a))].block
                 issues == Issues(a, token, last)
             IN  /\ token \in DOMAIN users[a].tokens <=> issues # {}
                 /\ issues # {} =>
                       \/ users[a].tokens[token]
                             = Issued(a, token, last, Max(issues)) % UintSize
                       \/ \E i \in issues :
                             i < Max(issues) /\ Issued(a, token, last, i) > 9
  <2>1. PICK last : last = log[Max(Touching(a))].block
    OBVIOUS
  <2>2. last = LastBlock(log, m, a)
    BY <1>2, <2>1 DEF LastBlock
  <2>3. PICK I, tk : I = IssuesTo(log, m, a, token, last) /\ tk = users[a].tokens
    OBVIOUS
  <2>4. TokenAs(log, I, tk, token)
    BY <1>1, <2>2, <2>3 DEF BooksInv, TokensOf
  <2>5. I = Issues(a, token, last) /\ \A i : Issued(a, token, last, i) = SumTo(log, I, i)
    BY <1>2, <2>3
  <2> QED BY <2>1, <2>3, <2>4, <2>5, Zenon DEF TokenAs
<1> QED BY <1>3, Zenon DEF TokensOfLastBlock

\* The shards of the factory.
LEMMA NextShard ==
    ASSUME LogInv, NEW shard \in NextShards
    PROVE  IsShard(shard)
<1>1. PICK n \in 1..MaxShard : shard \in [1..n -> accepted]
  BY DEF NextShards
<1>2. n \in Nat /\ n >= 1
  BY <1>1, StoredRecordsAssumption
<1>3. shard \in [1..n -> Txs]
  BY <1>1 DEF LogInv
<1> QED BY <1>2, <1>3 DEF IsShard

\* The text of a transaction that is not declined is stored with its block.
LEMMA TextStored ==
    ASSUME NEW shard, NEW st, NEW b, NEW unread, NEW unreadable,
           Store(b, shard, st, unread, unreadable),
           NEW i \in DOMAIN shard, st.fates[i] # "declined"
    PROVE  \E x \in storedTxs' : x.tx = shard[i]
<1>1. PICK kept, texts : /\ kept = {j \in DOMAIN shard : st.fates[j] # "declined"}
                         /\ texts = {[key |-> TxHash(shard[j]),
                                      text |-> serializeToJsonTransaction(shard[j]),
                                      tx |-> shard[j]] : j \in kept}
  OBVIOUS
<1>2. storedTxs' = storedTxs \cup texts
  BY <1>1, Zenon DEF Store
<1>3. PICK x : x = [key |-> TxHash(shard[i]), text |-> serializeToJsonTransaction(shard[i]),
                    tx |-> shard[i]]
  OBVIOUS
<1>4. x \in texts
  BY <1>1, <1>3, Zenon
<1>5. x.tx = shard[i]
  BY <1>3
<1> QED BY <1>2, <1>4, <1>5

\* The texts of a block's transfers are stored with it.
LEMMA TextsStored ==
    ASSUME NEW N, NEW n \in Nat, NEW b, NEW shard, IsShard(shard), NEW st, NEW unreadable,
           NEW unread, Logged(N, n, b, shard, st, unreadable, unread),
           NEW c, Store(c, shard, st, unread, unreadable), TextsOf(N, n, storedTxs)
    PROVE  TextsOf(N, n + Len(shard), storedTxs')
<1>1. PICK k, m : k = Len(shard) /\ m = n + k
  OBVIOUS
<1>2. k \in Nat /\ m \in Nat /\ DOMAIN shard = 1..k
  BY <1>1, PartiesLoaded DEF IsShard
<1>3. storedTxs \subseteq storedTxs'
  BY DEF Store
<1>4. ASSUME NEW i \in 1..m, IsMove(N[i]) PROVE \E x \in storedTxs' : x.tx = N[i].tx
  <2>1. CASE i \in 1..n
    BY <1>3, <1>4, <2>1 DEF TextsOf
  <2>2. CASE i \notin 1..n
    <3>1. PICK j : j \in 1..k /\ i = n + j
      <4>1. i - n \in 1..k /\ i = n + (i - n)
        BY <1>1, <1>2, <1>4, <2>2
      <4> QED BY <4>1
    <3>2. Tells(N, n + j, b, j, shard, st, unreadable, unread)
      BY <1>1, <3>1 DEF Logged
    <3>3. N[i].tx = shard[j] /\ st.fates[j] # "declined"
      BY <1>4, <3>1, <3>2 DEF Tells, IsMove
    <3>4. \E x \in storedTxs' : x.tx = shard[j]
      BY <1>2, <3>1, <3>3, TextStored
    <3> QED BY <3>3, <3>4
  <2> QED BY <2>1, <2>2
<1> QED BY <1>1, <1>4 DEF TextsOf

\* A block written keeps the books.
LEMMA BooksStored ==
    ASSUME LogInv, BooksInv, NEW shard, IsShard(shard),
           NEW b, b.time = block.time + 1, NEW unread, unread \subseteq Parties(shard),
           NEW unreadable, NEW st, Ends(st, shard, unread, users, histories, unreadable),
           ~st.thrown, Store(b, shard, st, unread, unreadable)
    PROVE  /\ log' \in Seq(ToSet(log')) /\ IsLog(log', Len(log')) /\ BooksInv'
           /\ \A i \in 1..Len(log') : log'[i].block \in Nat /\ log'[i].block <= b.time
<1>1. PICK N, n, k, m, t : /\ N = log' /\ n = Len(log) /\ k = Len(shard) /\ m = n + k
                           /\ t = b.time
  OBVIOUS
<1>2. n \in Nat /\ k \in Nat /\ m \in Nat /\ t \in Nat /\ block.time \in Nat /\ block.time < t
  <2>1. n \in Nat /\ block.time \in Nat
    BY <1>1 DEF LogInv
  <2>2. k \in Nat
    BY <1>1, PartiesLoaded
  <2> QED BY <1>1, <2>1, <2>2
<1>3. /\ N \in Seq(ToSet(N)) /\ Len(N) = m /\ Agree(N, log, n)
      /\ \A i \in 1..k : Tells(N, n + i, t, i, shard, st, unreadable, unread)
  <2>1. shard \in Seq(ToSet(shard)) /\ log \in Seq(ToSet(log))
    BY DEF IsShard, LogInv, ToSet
  <2>2. /\ log' \in Seq(ToSet(log')) /\ Len(log') = Len(log) + Len(shard)
        /\ Agree(log', log, Len(log))
        /\ \A i \in 1..Len(shard) :
             Tells(log', Len(log) + i, b.time, i, shard, st, unreadable, unread)
    BY <2>1, StoreLogs, Zenon
  <2> QED BY <1>1, <2>2, Zenon
<1>4. \A i \in 1..m : i \in 1..n \/ \E j \in 1..k : i = n + j
  <2>1. \A i \in 1..m : i \in 1..n \/ (i - n \in 1..k /\ i = n + (i - n))
    BY <1>1, <1>2
  <2> QED BY <2>1
<1>5. \A j \in 1..k : N[n + j].tx = shard[j] /\ N[n + j].block = t
  BY <1>3 DEF Tells
<1>6. IsLog(log, n) /\ \A i \in 1..n : log[i].block \in Nat /\ log[i].block <= block.time
  BY <1>1 DEF LogInv
<1>7. \A i \in 1..n : N[i] = log[i] /\ N[i].block \in Nat /\ N[i].block <= block.time
  BY <1>3, <1>6 DEF Agree
<1>8. \A i \in 1..n : N[i].block \in Nat /\ N[i].block < t
  BY <1>2, <1>7
<1>9. IsLog(N, m)
  <2>1. \A j \in 1..k : shard[j].amount \in 0..UintSize - 1
    BY <1>1, PartiesLoaded DEF IsTx
  <2>2. \A i \in 1..m : N[i].tx.amount \in 0..UintSize - 1
    BY <1>4, <1>5, <1>6, <1>7, <2>1 DEF IsLog
  <2> QED BY <2>2 DEF IsLog
<1>10. SameBlock(N, n, m, t)
  <2>1. ASSUME NEW i \in 1..m, i > n PROVE N[i].block = t
    <3>1. i \notin 1..n
      BY <1>2, <2>1
    <3> QED BY <1>4, <1>5, <3>1
  <2> QED BY <2>1 DEF SameBlock
<1>11. Logged(N, n, t, shard, st, unreadable, unread)
  <2>1. IsLog(N, n + Len(shard)) /\ SameBlock(N, n, n + Len(shard), t)
    BY <1>1, <1>9, <1>10, Zenon
  <2>2. \A i \in 1..Len(shard) : Tells(N, n + i, t, i, shard, st, unreadable, unread)
    BY <1>1, <1>3, Zenon
  <2> QED BY <1>2, <1>8, <2>1, <2>2, Zenon DEF Logged
<1>12. /\ LedgerOf(N, n, users) /\ HistoriesAt(N, n, histories) /\ TokensOf(N, n, users)
       /\ TextsOf(N, n, storedTxs)
  <2>1. /\ LedgerOf(log, n, users) /\ HistoriesAt(log, n, histories) /\ TokensOf(log, n, users)
        /\ TextsOf(log, n, storedTxs)
    BY <1>1 DEF BooksInv
  <2>2. LedgerOf(N, n, users)
    BY <1>2, <1>3, <1>6, <2>1, SameLedger, Zenon
  <2>3. HistoriesAt(N, n, histories)
    BY <1>2, <1>3, <2>1, SameHistories, Zenon
  <2>4. TokensOf(N, n, users)
    BY <1>2, <1>3, <1>6, <2>1, SameTokens, Zenon
  <2>5. TextsOf(N, n, storedTxs)
    BY <1>7, <2>1 DEF TextsOf
  <2> QED BY <2>2, <2>3, <2>4, <2>5
<1>13. HasWallets(users)
  BY DEF BooksInv
<1>14. Cached(st, Parties(shard), Len(shard)) /\ Explains(N, n + Len(shard), t, Parties(shard), st, histories)
  BY <1>2, <1>11, <1>12, <1>13, ShardAccounted, Zenon
<1>15. PICK S : /\ AccountedAt(N, n + Len(shard), t, st, histories, S)
                /\ \A a \in Parties(shard) : S[a] = SinceTo(N, n + Len(shard), a)
  BY <1>14, Zenon DEF Explains
<1>16. /\ LedgerAt(N, n + Len(shard), st.cache, S) /\ HistAt(N, n + Len(shard), st, histories)
       /\ TokensAt(N, n + Len(shard), t, st.cache) /\ DOMAIN st.cache = Parties(shard)
  BY <1>14, <1>15, Zenon DEF AccountedAt, Cached
<1>17. users' = Put(UserBatch(st), users) /\ histories' = Put(st.history, histories)
  BY Zenon DEF Store
<1>18. HasWallets(users')
  <2>1. IsCache(st.cache)
    BY <1>14, Zenon DEF Cached
  <2>2. HasWallets(Put(UserBatch(st), users))
    BY <1>13, <2>1, WrittenBack, Zenon
  <2> QED BY <1>17, <2>2, Zenon
<1>19. LedgerOf(N, m, users')
  <2>1. LedgerOf(N, n + Len(shard), Put(UserBatch(st), users))
    BY <1>2, <1>11, <1>12, <1>15, <1>16, LedgerWritten, Zenon
  <2> QED BY <1>1, <1>17, <2>1, Zenon
<1>20. HistoriesAt(N, m, histories')
  <2>1. HistoriesAt(N, n + Len(shard), Put(st.history, histories))
    BY <1>12, <1>16, HistWritten, Zenon
  <2> QED BY <1>1, <1>17, <2>1, Zenon
<1>21. TokensOf(N, m, users')
  <2>1. TokensOf(N, n + Len(shard), Put(UserBatch(st), users))
    BY <1>2, <1>11, <1>12, <1>16, TokensWritten, Zenon
  <2> QED BY <1>1, <1>17, <2>1, Zenon
<1>22. TextsOf(N, m, storedTxs')
  <2>1. TextsOf(N, n + Len(shard), storedTxs')
    BY <1>2, <1>11, <1>12, TextsStored, Zenon
  <2> QED BY <1>1, <2>1, Zenon
<1>23. BooksInv'
  <2>1. Len(log') = m
    BY <1>1, <1>3, Zenon
  <2> QED BY <1>1, <2>1, <1>18, <1>19, <1>20, <1>21, <1>22, Zenon DEF BooksInv
<1>24. ASSUME NEW i \in 1..m PROVE N[i].block \in Nat /\ N[i].block <= t
  <2>1. CASE i \in 1..n
    BY <1>2, <1>7, <2>1
  <2>2. CASE i \notin 1..n
    <3>1. N[i].block = t
      BY <1>4, <1>5, <2>2
    <3> QED BY <1>2, <3>1
  <2> QED BY <2>1, <2>2
<1> QED BY <1>1, <1>3, <1>9, <1>23, <1>24, Zenon

\* The genesis shard.
LEMMA GenesisState ==
    ASSUME NEW st, st = ProcessGenesis(GenesisTx), NEW h, h = NewIn(NoHistory, GenesisId)
    PROVE  /\ IsCache(st.cache) /\ DOMAIN st.cache = {Root}
           /\ st.cache[Root].balance = Supply /\ st.cache[Root].tokens = << >>
           /\ DOMAIN st.history = {Root} /\ st.history[Root] = h
           /\ Len(st.fates) = 1 /\ st.fates[1] = "done"
<1>1. PICK w, c, d, tk : /\ w = Increase(EmptyWallet, Supply, GenesisId)
                         /\ c = Entry(Root, EmptyWallet) /\ d = Entry(Root, w) /\ tk = << >>
  OBVIOUS
<1>2. /\ IsWallet(EmptyWallet) /\ EmptyWallet.balance = 0 /\ EmptyWallet.tokens = tk
      /\ EmptyWallet.history = NoHistory
  BY <1>1 DEF EmptyWallet, IsWallet
<1>3. IsWallet(w) /\ w.balance = Supply /\ w.tokens = tk /\ w.history = h
  <2>1. Supply \in 0..UintSize - 1 /\ Plus(0, Supply) = Supply
    BY SupplyAssumption, UintAssumption DEF Plus
  <2>2. /\ w.balance = Plus(EmptyWallet.balance, Supply) /\ w.tokens = EmptyWallet.tokens
        /\ w.history = NewIn(EmptyWallet.history, GenesisId) /\ IsWallet(w)
    BY <1>1, <1>2, <2>1, WalletIsPaid
  <2> QED BY <1>2, <2>1, <2>2, Zenon
<1>4. GenesisTx.to = Root /\ GenesisTx.amount = Supply /\ GenesisTx.id = GenesisId
  BY DEF GenesisTx
<1>5. PICK e, o : e = Empty(c) /\ o = << >>
  OBVIOUS
<1>6. IsState(e) /\ e.cache = c /\ e.history = o /\ e.fates = o
  <2>1. IsEmpty(e, c, 0)
    BY <1>5, Zenon DEF IsEmpty
  <2>2. IsState(e) /\ e.cache = c
    BY ONLY <2>1, EmptyFields
  <2>3. e.history = << >>
    BY ONLY <2>1, EmptyFields
  <2>4. e.fates = << >>
    BY ONLY <2>1, EmptyFields
  <2> QED BY <1>5, <2>2, <2>3, <2>4, Zenon
<1>7. st = Credit(e, GenesisTx)
  BY <1>1, <1>4, <1>5, Zenon DEF ProcessGenesis
<1>8. [c EXCEPT ![Root] = Increase(@, Supply, GenesisId)] = d /\ d[Root] = w /\ DOMAIN d = {Root}
  BY <1>1 DEF Entry
<1>9. PICK x, z : x = Put(Entry(Root, h), o) /\ z = Append(o, "done")
  OBVIOUS
<1>10. PICK y : st = [e EXCEPT !.cache = d, !.history = x, !.txs = y, !.fates = z]
  <2>1. [e.cache EXCEPT ![GenesisTx.to] = Increase(@, GenesisTx.amount, GenesisTx.id)] = d
    BY <1>4, <1>6, <1>8, Zenon
  <2>2. st = [e EXCEPT !.cache = d,
                       !.history = Put(Entry(GenesisTx.to, d[GenesisTx.to].history), @),
                       !.txs = @ \cup {GenesisTx.id},
                       !.fates = Append(@, "done")]
    BY <1>7, <2>1, Zenon DEF Credit
  <2>3. Put(Entry(GenesisTx.to, d[GenesisTx.to].history), e.history) = x
    BY <1>3, <1>4, <1>6, <1>8, <1>9, Zenon
  <2>4. Append(e.fates, "done") = z
    BY <1>6, <1>9, Zenon
  <2>5. PICK u : u = e.txs \cup {GenesisTx.id}
    OBVIOUS
  <2>6. st = [e EXCEPT !.cache = d, !.history = x, !.txs = u, !.fates = z]
    BY <2>2, <2>3, <2>4, <2>5, Zenon
  <2> QED BY <2>6, Zenon
<1>11. st.cache = d /\ st.history = x /\ st.fates = z
  <2>1. Consists(st, d, x, y, e.tokens, e.declined, e.thrown, z, e.minted, e.lost)
    BY <1>6, <1>10 DEF Consists, IsState
  <2> QED BY ONLY <2>1, FieldsOfState
<1>12. DOMAIN x = {Root} /\ x[Root] = h
  BY <1>5, <1>9 DEF Put, Entry
<1>13. Len(z) = 1 /\ z[1] = "done"
  BY <1>5, <1>9
<1>14. IsCache(st.cache)
  BY GenesisMakesSupply
<1>15. d[Root].balance = Supply /\ d[Root].tokens = << >>
  BY <1>1, <1>3, <1>8, Zenon
<1> QED BY <1>8, <1>11, <1>12, <1>13, <1>14, <1>15, Zenon

\* The genesis block opens the books.
LEMMA GenesisBooks ==
    ASSUME LogInv, BooksInv, block = NothingStored, NEW b, b.time = 1,
           NEW shard, shard = <<GenesisTx>>, NEW st, st = ProcessGenesis(GenesisTx),
           NEW none, none = {}, Store(b, shard, st, none, none)
    PROVE  /\ log' \in Seq(ToSet(log')) /\ IsLog(log', Len(log')) /\ BooksInv'
           /\ \A i \in 1..Len(log') : log'[i].block = 1
<1>1. PICK N, t, h : N = log' /\ t = GenesisTx /\ h = NewIn(NoHistory, GenesisId)
  OBVIOUS
<1>2. log = << >> /\ users = << >> /\ histories = << >>
  BY DEF LogInv
<1>3. /\ IsCache(st.cache) /\ DOMAIN st.cache = {Root}
      /\ st.cache[Root].balance = Supply /\ st.cache[Root].tokens = << >>
      /\ DOMAIN st.history = {Root} /\ st.history[Root] = h
      /\ st.fates[1] = "done"
  BY <1>1, GenesisState, Zenon
<1>4. /\ t.id = GenesisId /\ t.from = "UNTCoinbase" /\ t.to = Root /\ t.type = "TRANSFER"
      /\ t.amount = Supply /\ Supply \in 0..UintSize - 1 /\ Root \in Accounts
  BY <1>1, SupplyAssumption, UintAssumption, RootAssumption DEF GenesisTx
<1>5. shard \in Seq(ToSet(shard)) /\ Len(shard) = 1 /\ shard[1] = t /\ DOMAIN shard = {1}
  <2>1. Len(shard) = 1 /\ shard[1] = t /\ shard \in Seq({t}) /\ DOMAIN shard = {1}
    BY <1>1
  <2>2. ToSet(shard) = {t}
    BY <2>1 DEF ToSet
  <2> QED BY <2>1, <2>2
<1>6. /\ N \in Seq(ToSet(N)) /\ Len(N) = 1
      /\ N[1].tx = t /\ N[1].block = 1 /\ N[1].fate = "done" /\ N[1].unread = {}
  <2>1. log \in Seq(ToSet(log)) /\ Len(log) = 0
    BY <1>2 DEF LogInv
  <2>2. /\ N \in Seq(ToSet(N)) /\ Len(N) = Len(log) + Len(shard)
        /\ \A i \in 1..Len(shard) : Tells(N, Len(log) + i, b.time, i, shard, st, none, none)
    BY <1>1, <1>5, <2>1, StoreLogs, Zenon
  <2>3. Len(N) = 1 /\ Tells(N, 1, b.time, 1, shard, st, none, none)
    <3>1. 1 \in 1..Len(shard) /\ Len(log) + 1 = 1 /\ Len(log) + Len(shard) = 1
      BY ONLY <1>5, <2>1
    <3>2. Tells(N, Len(log) + 1, b.time, 1, shard, st, none, none)
      BY <2>2, <3>1, Zenon
    <3> QED BY <2>2, <3>1, <3>2, Zenon
  <2>4. N[1].tx = shard[1] /\ N[1].block = b.time /\ N[1].fate = st.fates[1] /\ N[1].unread = none
    BY <2>3, Zenon DEF Tells
  <2> QED BY <1>3, <1>5, <2>2, <2>3, <2>4, Zenon
<1>7. PICK e : e = N[1]
  OBVIOUS
<1>8. e.tx = t /\ e.block = 1 /\ e.fate = "done" /\ e.unread = {} /\ IsMove(e)
  BY <1>4, <1>6, <1>7 DEF IsMove
<1>9. IsLog(N, 1)
  BY <1>4, <1>7, <1>8 DEF IsLog
<1>10. PICK o : o = << >>
  OBVIOUS
<1>11. DOMAIN o = {} /\ o = users /\ o = histories
  BY <1>2, <1>10
<1>12. users' = Put(UserBatch(st), o) /\ histories' = Put(st.history, o)
  BY <1>11, Zenon DEF Store
<1>13. HasWallets(users')
  <2>1. HasWallets(o)
    BY <1>10, NoUnits
  <2> QED BY <1>3, <1>12, <2>1, WrittenBack, Zenon
<1>14. DOMAIN users' = {Root} /\ users'[Root].balance = Supply /\ users'[Root].tokens = << >>
  BY <1>3, <1>11, <1>12 DEF Put, UserBatch, Serialize
<1>15. LedgerOf(N, 1, users')
  <2>1. \A a : PaidTo(N, 1, a) = {}
    BY <1>1, <1>7, <1>8 DEF PaidTo, Pays1
  <2>2. \A a : GainedTo(N, 1, a) = IF a = Root THEN {1} ELSE {}
    BY <1>4, <1>7, <1>8 DEF GainedTo
  <2>3. \A a : SinceTo(N, 1, a) = {1}
    BY <1>7, <1>8 DEF SinceTo
  <2>4. TotalOf(N, {}) = 0
    BY TotalOfNone
  <2>5. TotalOf(N, {} \cup {1}) = N[1].tx.amount + TotalOf(N, {})
    <3>1. IsFiniteSet({}) /\ HasAmounts(N, {}) /\ 1 \notin {} /\ N[1].tx.amount \in Nat
      BY <1>4, <1>6, SupplyAssumption, FS_EmptySet DEF HasAmounts
    <3> QED BY <3>1, TotalAdds
  <2>6. {} \cup {1} = {1} /\ {} \cap {1} = {} /\ {1} \cap {1} = {1}
    OBVIOUS
  <2>7. TotalOf(N, {1}) = Supply
    <3>1. Supply + 0 = Supply
      BY SupplyAssumption
    <3> QED BY <1>4, <1>6, <2>4, <2>5, <2>6, <3>1
  <2>8. TotalOf(N, PaidTo(N, 1, Root) \cap SinceTo(N, 1, Root)) = 0
    BY <2>1, <2>3, <2>4, <2>6, Zenon
  <2>9. TotalOf(N, GainedTo(N, 1, Root) \cap SinceTo(N, 1, Root)) = Supply
    BY <2>2, <2>3, <2>6, <2>7, Zenon
  <2>10. Supply + (0 * UintSize + 0) = Supply /\ 0 \in 0..1
    BY SupplyAssumption, UintAssumption
  <2>11. Owes(N, 1, Root, SinceTo(N, 1, Root), Supply, 0)
    BY <2>8, <2>9, <2>10, Zenon DEF Owes
  <2>12. Owed(N, 1, Root, SinceTo(N, 1, Root), Supply)
    BY <2>10, <2>11, Zenon DEF Owed
  <2>13. \A a : a \notin DOMAIN users' => GainedTo(N, 1, a) = {} /\ PaidTo(N, 1, a) = {}
    BY <1>14, <2>1, <2>2
  <2>14. \A a \in DOMAIN users' : Owed(N, 1, a, SinceTo(N, 1, a), users'[a].balance)
    BY <1>14, <2>12
  <2> QED BY <2>13, <2>14 DEF LedgerOf
<1>16. \A a : OwnTo(N, 1, a) = IF a \in {t.from, t.to} THEN {1} ELSE {}
  BY <1>7, <1>8 DEF OwnTo
<1>17. HistoriesAt(N, 1, histories')
  <2>1. DOMAIN histories' = {Root} /\ histories'[Root] = h
    BY <1>3, <1>11, <1>12 DEF Put
  <2>2. IsHistory(h) /\ EntriesOf(h) = {GenesisId}
    <3>1. IsHistory(NoHistory) /\ EntriesOf(NoHistory) = {}
      BY EmptyHistory
    <3>2. IsHistory(h) /\ EntriesOf(h) = EntriesOf(NoHistory) \cup {GenesisId}
      BY <1>1, <3>1, HistoryGrows
    <3> QED BY <3>1, <3>2
  <2>3. OwnTo(N, 1, Root) = {1} /\ N[1].tx.id = GenesisId /\ MadeTo(N, 1, Root) \subseteq {1}
    BY <1>4, <1>6, <1>16 DEF MadeTo, PaidTo, GainedTo
  <2>4. Explained(N, 1, Root, h)
    BY <2>2, <2>3 DEF Explained, Lacks, Has
  <2>5. \A a : OwnTo(N, 1, a) # {} => a \in DOMAIN histories' \/ a = GenesisTx.from
    BY <1>1, <1>4, <1>16, <2>1
  <2> QED BY <2>1, <2>2, <2>4, <2>5 DEF HistoriesAt
<1>18. TokensOf(N, 1, users')
  <2>1. TouchingTo(N, 1, Root) # {}
    BY <1>4, <1>7, <1>8 DEF TouchingTo
  <2>2. PICK tk : tk = users'[Root].tokens
    OBVIOUS
  <2>3. DOMAIN tk = {}
    BY <1>14, <2>2
  <2>4. \A token, z : IssuesTo(N, 1, Root, token, z) = {}
    BY <1>4, <1>7, <1>8 DEF IssuesTo, IsIssue
  <2>5. \A token : TokenAs(N, {}, tk, token)
    BY <2>3 DEF TokenAs
  <2> QED BY <1>14, <2>1, <2>2, <2>4, <2>5 DEF TokensOf
<1>19. TextsOf(N, 1, storedTxs')
  <2>1. 1 \in DOMAIN shard /\ st.fates[1] # "declined"
    BY <1>3, <1>5
  <2>2. \E x \in storedTxs' : x.tx = shard[1]
    BY <2>1, TextStored
  <2> QED BY <1>5, <1>6, <2>2 DEF TextsOf
<1>20. BooksInv'
  <2>1. Len(log') = 1
    BY <1>1, <1>6
  <2> QED BY <1>1, <2>1, <1>13, <1>15, <1>17, <1>18, <1>19, Zenon DEF BooksInv
<1>21. \A i \in 1..Len(N) : N[i].block = 1
  BY <1>6
<1> QED BY <1>1, <1>6, <1>9, <1>20, <1>21, Zenon

\* The inductive invariant.
RecordsInv == LogInv /\ BooksInv

\* Nothing is stored at first.
LEMMA RecordsFirst == RecordsInit => RecordsInv
<1> SUFFICES ASSUME RecordsInit PROVE RecordsInv
  OBVIOUS
<1>1. PICK o : o = << >>
  OBVIOUS
<1>2. /\ users = o /\ histories = o /\ storedTxs = {} /\ block = NothingStored /\ log = o
      /\ accepted = {}
  BY <1>1 DEF RecordsInit
<1>3. DOMAIN o = {} /\ Len(o) = 0 /\ o \in Seq(ToSet(o))
  BY <1>1
<1>4. 1..0 = {}
  OBVIOUS
<1>5. block.time = 0
  BY <1>2 DEF NothingStored
<1>6. LogInv
  BY <1>1, <1>2, <1>3, <1>4, <1>5 DEF LogInv, IsLog
<1>7. HasWallets(o)
  BY <1>1, NoUnits
<1>8. \A a : PaidTo(o, 0, a) = {} /\ GainedTo(o, 0, a) = {} /\ OwnTo(o, 0, a) = {}
  BY <1>4 DEF PaidTo, GainedTo, OwnTo
<1>9. LedgerOf(o, 0, o)
  BY <1>3, <1>8 DEF LedgerOf
<1>10. HistoriesAt(o, 0, o) /\ TokensOf(o, 0, o) /\ TextsOf(o, 0, {})
  BY <1>3, <1>4, <1>8 DEF HistoriesAt, TokensOf, TextsOf
<1>11. BooksInv
  BY <1>2, <1>3, <1>7, <1>9, <1>10 DEF BooksInv
<1> QED BY <1>6, <1>11 DEF RecordsInv

\* The times of the blocks.
LEMMA BuiltTime ==
    ASSUME NEW p, NEW t, NEW i, NEW s
    PROVE  Built(p, t, i, s).time = t
<1>1. PICK b, h, r, g : b = Built(p, t, i, s) /\ b = AsBlock(h, p, r, t, i, 0, g, s)
  BY BuiltFields
<1> QED BY <1>1, BlockFields

\* What Store leaves of a block's time.
LEMMA StoredTime ==
    ASSUME NEW b, NEW h, NEW p, NEW r, NEW t, NEW i, NEW z, NEW g, NEW s,
           b = AsBlock(h, p, r, t, i, z, g, s),
           NEW shard, NEW st, NEW unread, NEW unreadable,
           Store(b, shard, st, unread, unreadable)
    PROVE  b.time = t /\ \E x : block' = AsBlock(h, p, r, t, i, x, g, s)
<1>1. PICK x : block' = [b EXCEPT !.size = x]
  BY Zenon DEF Store
<1>2. b.time = t /\ [b EXCEPT !.size = x] = AsBlock(h, p, r, t, i, x, g, s)
  BY BlockFields
<1> QED BY <1>1, <1>2, Zenon

\* The block NextBlock stores.
LEMMA ShortenedBlock ==
    ASSUME NEW p, NEW t, NEW i, NEW s, NEW x
    PROVE  \E h, r, g : /\ [Built(p, t, i, <<s>>) EXCEPT !.shardList[1].transactionList = x]
                              = AsBlock(h, p, r, t, i, 0, g, <<[s EXCEPT !.transactionList = x]>>)
                        /\ h = DoubleSha3(serializeBlock(AsBlock(NoText, p, NoText, t, i, 0, NoText, <<s>>)))
                        /\ r = RootOf(<<s>>)
                        /\ g = Signature(serializeForSigning(AsBlock(h, p, r, t, i, 0, NoText, <<s>>)))
<1>1. PICK ss : ss = <<s>>
  OBVIOUS
<1>2. PICK h, r, g :
         /\ Built(p, t, i, ss) = AsBlock(h, p, r, t, i, 0, g, ss)
         /\ h = DoubleSha3(serializeBlock(AsBlock(NoText, p, NoText, t, i, 0, NoText, ss)))
         /\ r = RootOf(ss)
         /\ g = Signature(serializeForSigning(AsBlock(h, p, r, t, i, 0, NoText, ss)))
  BY BuiltFields, Zenon
<1>3. PICK b, y, z : /\ b = Built(p, t, i, ss) /\ y = [s EXCEPT !.transactionList = x]
                     /\ z = [ss EXCEPT ![1] = y]
  OBVIOUS
<1>4. z = <<y>> /\ ss[1] = s
  BY <1>1, <1>3
<1>5. b.shardList = ss /\ [b EXCEPT !.shardList = z] = AsBlock(h, p, r, t, i, 0, g, z)
  <2>1. PICK o : o = 0 /\ b = AsBlock(h, p, r, t, i, o, g, ss)
    BY <1>2, <1>3
  <2>2. b.shardList = ss /\ [b EXCEPT !.shardList = z] = AsBlock(h, p, r, t, i, o, g, z)
    BY <2>1, BlockFields
  <2> QED BY <2>1, <2>2
<1>6. [b EXCEPT !.shardList[1].transactionList = x] = [b EXCEPT !.shardList = z]
  BY <1>3, <1>4, <1>5
<1>7. [Built(p, t, i, ss) EXCEPT !.shardList[1].transactionList = x]
        = AsBlock(h, p, r, t, i, 0, g, <<y>>)
  BY <1>3, <1>4, <1>5, <1>6, Zenon
<1> QED BY <1>1, <1>2, <1>3, <1>7, Zenon

\* A block that is stored has a time.
LEMMA StoredIsSome ==
    ASSUME NEW b, b.time # 0
    PROVE  b # NothingStored
  BY DEF NothingStored

\* What NextBlock lets in are transactions of clients.
LEMMA StoredIn ==
    ASSUME accepted \subseteq Txs, NEW b, NEW shard, NEW st, NEW unread, NEW unreadable,
           Store(b, shard, st, unread, unreadable)
    PROVE  accepted' \subseteq Txs
  BY DEF Store

\* A block with a shard, stored or not: its processing may have thrown.
Writes(b, shard, st, unread, unreadable) ==
    /\ unread \subseteq Parties(shard)
    /\ Ends(st, shard, unread, users, histories, unreadable)
    /\ \E p, i :
          /\ p = block.hash
          /\ b = [Built(p, block.time + 1, i, <<SignedShard(shard)>>)
                     EXCEPT !.shardList[1].transactionList = Listed(shard, st.declined)]
    /\ ~st.thrown /\ Store(b, shard, st, unread, unreadable)

\* A block with a shard writes its batches, or an exception ends the process and
\* nothing is written.
LEMMA NextBlockWrites ==
    ASSUME NEW shard \in NextShards, NextBlock(shard)
    PROVE  \/ /\ UNCHANGED <<users, histories, storedTxs, block, log>>
              /\ accepted' \subseteq Txs
           \/ \E b, st, unread, unreadable : Writes(b, shard, st, unread, unreadable)
<1>1. PICK unread, unreadable :
         /\ unread \in SUBSET (Parties(shard) \cap DOMAIN users)
         /\ LET st == ProcessShard(shard, TRUE, unread, users, histories, unreadable)
                b  == Built(block.hash, block.time + 1, block.index + 1, <<SignedShard(shard)>>)
            IN  IF st.thrown
                THEN /\ booting' = TRUE
                     /\ accepted' = {t \in Txs : Sendable(t, users)}
                     /\ UNCHANGED <<users, histories, storedTxs, block, log>>
                ELSE /\ Store([b EXCEPT !.shardList[1].transactionList =
                                   Listed(shard, st.declined)],
                              shard, st, unread, unreadable)
                     /\ UNCHANGED booting
  BY Zenon DEF NextBlock
<1>2. PICK st, p, t, i, b :
         /\ st = ProcessShard(shard, TRUE, unread, users, histories, unreadable)
         /\ p = block.hash /\ t = block.time + 1 /\ i = block.index + 1
         /\ b = [Built(p, t, i, <<SignedShard(shard)>>)
                    EXCEPT !.shardList[1].transactionList = Listed(shard, st.declined)]
  OBVIOUS
<1>3. \/ /\ accepted' = {u \in Txs : Sendable(u, users)}
         /\ UNCHANGED <<users, histories, storedTxs, block, log>>
      \/ ~st.thrown /\ Store(b, shard, st, unread, unreadable)
  BY <1>1, <1>2, Zenon
<1>4. {u \in Txs : Sendable(u, users)} \subseteq Txs /\ unread \subseteq Parties(shard)
  BY <1>1
<1>5. Ends(st, shard, unread, users, histories, unreadable)
  BY <1>2, Zenon DEF Ends
<1>6. CASE ~st.thrown /\ Store(b, shard, st, unread, unreadable)
  <2>1. \E q, j :
           /\ q = block.hash
           /\ b = [Built(q, block.time + 1, j, <<SignedShard(shard)>>)
                      EXCEPT !.shardList[1].transactionList = Listed(shard, st.declined)]
    BY <1>2, Zenon
  <2>2. Writes(b, shard, st, unread, unreadable)
    BY <1>4, <1>5, <1>6, <2>1, Zenon DEF Writes
  <2> QED BY <2>2, Zenon
<1> QED BY <1>3, <1>4, <1>6, Zenon

\* A block with a shard keeps the invariant.
LEMMA ShardStep ==
    ASSUME RecordsInv, NEW shard \in NextShards, NextBlock(shard)
    PROVE  RecordsInv'
<1>1. LogInv /\ BooksInv /\ block.time \in Nat /\ IsShard(shard)
  BY NextShard DEF RecordsInv, LogInv
<1>2. CASE UNCHANGED <<users, histories, storedTxs, block, log>> /\ accepted' \subseteq Txs
  <2>1. LogInv'
    BY <1>1, <1>2 DEF LogInv
  <2>2. BooksInv'
    BY <1>1, <1>2 DEF BooksInv
  <2> QED BY <2>1, <2>2 DEF RecordsInv
<1>3. CASE \E b, st, unread, unreadable : Writes(b, shard, st, unread, unreadable)
  <2>1. PICK b, st, unread, unreadable : Writes(b, shard, st, unread, unreadable)
    BY <1>3
  <2>2. /\ unread \subseteq Parties(shard)
        /\ Ends(st, shard, unread, users, histories, unreadable)
        /\ ~st.thrown /\ Store(b, shard, st, unread, unreadable)
    BY <2>1, Zenon DEF Writes
  <2>3. PICK t, x : t = block.time + 1 /\ x = Listed(shard, st.declined)
    OBVIOUS
  <2>4. PICK h, p, r, g, s, i, o : b = AsBlock(h, p, r, t, i, o, g, s)
    <3>1. PICK p, i : b = [Built(p, t, i, <<SignedShard(shard)>>)
                              EXCEPT !.shardList[1].transactionList = x]
      BY <2>1, <2>3, Zenon DEF Writes
    <3>0. PICK s : s = SignedShard(shard)
      OBVIOUS
    <3>2. \E h, r, g : [Built(p, t, i, <<s>>) EXCEPT !.shardList[1].transactionList = x]
                          = AsBlock(h, p, r, t, i, 0, g, <<[s EXCEPT !.transactionList = x]>>)
      BY ShortenedBlock
    <3> QED BY <3>0, <3>1, <3>2
  <2>5. b.time = t /\ \E z : block' = AsBlock(h, p, r, t, i, z, g, s)
    BY <2>2, <2>4, StoredTime, Zenon
  <2>6. block'.time = t /\ t \in Nat /\ t # 0 /\ b.time = block.time + 1
    BY <1>1, <2>3, <2>5 DEF AsBlock
  <2>7. /\ log' \in Seq(ToSet(log')) /\ IsLog(log', Len(log')) /\ BooksInv'
        /\ \A k \in 1..Len(log') : log'[k].block \in Nat /\ log'[k].block <= b.time
    BY <1>1, <2>2, <2>6, BooksStored, Zenon
  <2>8. block' # NothingStored
    BY <2>6, StoredIsSome
  <2>9. accepted' \subseteq Txs
    BY <1>1, <2>2, StoredIn, Zenon DEF LogInv
  <2>10. LogInv'
    BY <2>5, <2>6, <2>7, <2>8, <2>9 DEF LogInv
  <2> QED BY <2>7, <2>10 DEF RecordsInv
<1> QED BY <1>2, <1>3, NextBlockWrites

\* Every block keeps the invariant: the genesis block, a block with a shard
\* (whose processing may throw) and an empty block.
LEMMA RecordsStep == RecordsInv /\ [RecordsNext]_records => RecordsInv'
<1> SUFFICES ASSUME RecordsInv, [RecordsNext]_records PROVE RecordsInv'
  OBVIOUS
<1>0. LogInv /\ BooksInv /\ block.time \in Nat
  BY DEF RecordsInv, LogInv
<1>1. CASE Genesis
  <2>1. PICK b, shard, st, none :
           /\ b = Built(<<"genesis">>, 1, 0, <<UnsignedShard(<<GenesisTx>>)>>)
           /\ block = NothingStored /\ shard = <<GenesisTx>>
           /\ st = ProcessGenesis(GenesisTx) /\ none = {}
           /\ Store(b, shard, st, none, none)
    BY <1>1, Zenon DEF Genesis
  <2>2. PICK h, p, r, g, s : b = AsBlock(h, p, r, 1, 0, 0, g, s)
    BY <2>1, BuiltFields
  <2>3. b.time = 1 /\ \E x : block' = AsBlock(h, p, r, 1, 0, x, g, s)
    <3>1. PICK one, o : one = 1 /\ o = 0
      OBVIOUS
    <3>2. b = AsBlock(h, p, r, one, o, o, g, s) /\ Store(b, shard, st, none, none)
      BY <2>1, <2>2, <3>1
    <3>3. b.time = one /\ \E x : block' = AsBlock(h, p, r, one, o, x, g, s)
      BY <3>2, StoredTime, Zenon
    <3> QED BY <3>1, <3>3
  <2>4. block'.time = 1
    BY <2>3 DEF AsBlock
  <2>5. /\ log' \in Seq(ToSet(log')) /\ IsLog(log', Len(log')) /\ BooksInv'
        /\ \A i \in 1..Len(log') : log'[i].block = 1
    BY <1>0, <2>1, <2>3, GenesisBooks, Zenon
  <2>6. block' # NothingStored
    BY <2>4, StoredIsSome
  <2>7. accepted' \subseteq Txs
    BY <1>0, <2>1, StoredIn, Zenon DEF LogInv
  <2>8. LogInv'
    BY <2>4, <2>5, <2>6, <2>7 DEF LogInv
  <2> QED BY <2>5, <2>8 DEF RecordsInv
<1>2. ASSUME NEW shard \in NextShards, NextBlock(shard) PROVE RecordsInv'
  BY <1>2, ShardStep
<1>3. CASE EmptyBlock
  <2>1. /\ UNCHANGED <<users, histories, storedTxs, accepted, log>>
        /\ \E i : block' = Built(block.hash, block.time + 1, i, << >>)
    BY <1>3, Zenon DEF EmptyBlock
  <2>2. block'.time = block.time + 1
    BY <2>1, BuiltTime
  <2>3. block'.time \in Nat /\ block'.time # 0 /\ \A x \in Nat : x <= block.time => x <= block'.time
    BY <1>0, <2>2
  <2>4. block' # NothingStored
    BY <2>3, StoredIsSome
  <2>5. LogInv'
    BY <1>0, <2>1, <2>3, <2>4 DEF LogInv
  <2>6. BooksInv'
    BY <1>0, <2>1 DEF BooksInv
  <2> QED BY <2>5, <2>6 DEF RecordsInv
<1>4. CASE UNCHANGED records
  BY <1>0, <1>4 DEF RecordsInv, LogInv, BooksInv, records
<1> QED BY <1>1, <1>2, <1>3, <1>4 DEF RecordsNext

\* The log and the books of the stored records (RecordsInv) are kept by every
\* block: the genesis block, the blocks with a shard, whatever wallets and
\* histories cannot be read, and the empty ones.
THEOREM RecordsInvariant == RecordsSpec => []RecordsInv
<1>1. RecordsInit => RecordsInv
  BY RecordsFirst
<1>2. RecordsInv /\ [RecordsNext]_records => RecordsInv'
  BY RecordsStep
<1> QED BY <1>1, <1>2, PTL DEF RecordsSpec

\* Every balance in the user database is accounted for by transfers since the
\* wallet could last not be read, and the transaction database holds their texts
\* (BalanceIsLedger).
THEOREM BalancesAreLedger == RecordsSpec => []BalanceIsLedger
<1>1. RecordsInv => BalanceIsLedger
  BY BooksShowLedger DEF RecordsInv
<1> QED BY <1>1, RecordsInvariant, PTL

\* A history lacks a transaction of its account only where a later write of it
\* explains that, and names none that is foreign to it (HistoryExplained).
THEOREM HistoriesAreExplained == RecordsSpec => []HistoryExplained
<1>1. RecordsInv => HistoryExplained
  BY BooksShowHistories DEF RecordsInv
<1> QED BY <1>1, RecordsInvariant, PTL

\* The tokens of a wallet are those issued to it in the last block that touched
\* it, whatever it held before (TokensOfLastBlock).
THEOREM TokensAreOfLastBlock == RecordsSpec => []TokensOfLastBlock
<1>1. RecordsInv => TokensOfLastBlock
  BY BooksShowTokens DEF RecordsInv
<1> QED BY <1>1, RecordsInvariant, PTL

-----------------------------------------------------------------------------
(* Lists from which transactions were removed *)

\* The loop of std::remove, as a fold.
LEMMA FrontIsFold ==
    ASSUME NEW s, NEW t, NEW k, k = [fold |-> "front", list |-> s, tx |-> t]
    PROVE  FoldLeft(LAMBDA front, x : IF x = t THEN front ELSE Append(front, x), << >>, s)
             = Fold(k, DOMAIN s)[DOMAIN s]
<1> DEFINE D == DOMAIN s
           Step(it) == [u \in SUBSET D |->
                          IF u = {} THEN << >>
                          ELSE IF s[Max(u)] = t THEN it[u \ {Max(u)}]
                               ELSE Append(it[u \ {Max(u)}], s[Max(u)])]
<1>1. FoldLeft(LAMBDA front, x : IF x = t THEN front ELSE Append(front, x), << >>, s)
        = (CHOOSE it : it = Step(it))[D]
  BY DEF FoldLeft, MapThenFoldSet
<1>2. k.fold = "front" /\ k.list = s /\ k.tx = t
  OBVIOUS
<1>3. ASSUME NEW it PROVE FoldStep(k, SUBSET D, it) = Step(it)
  BY <1>2 DEF FoldStep, Base, Chosen, OneStep
<1> HIDE DEF Step
<1>4. Fold(k, D) = CHOOSE it : it = Step(it)
  BY <1>3, Zenon DEF Fold
<1> QED BY <1>1, <1>4, Zenon

\* std::remove without erase leaves a list of the same length and elements.
LEMMA RemoveKeeps ==
    ASSUME NEW S, NEW s \in Seq(S), NEW t
    PROVE  StdRemove(s, t) \in Seq(S) /\ Len(StdRemove(s, t)) = Len(s)
<1>1. PICK n, k : n = Len(s) /\ k = [fold |-> "front", list |-> s, tx |-> t]
  OBVIOUS
<1>2. n \in Nat /\ DOMAIN s = 1..n /\ \A i \in 1..n : s[i] \in S
  BY <1>1
<1>3. k.fold = "front" /\ k.fold # "units" /\ k.list = s /\ k.tx = t
  BY <1>1
<1>4. PICK g : /\ g[0] = Base(k)
               /\ \A i \in 1..n : g[i] = OneStep(k, i, g[i - 1])
               /\ Fold(k, 1..n)[1..n] = g[n]
  BY <1>2, <1>3, FoldInOrder
<1>5. /\ Base(k) = << >>
      /\ \A i, acc : OneStep(k, i, acc) = IF s[i] = t THEN acc ELSE Append(acc, s[i])
  BY <1>3 DEF Base, OneStep
<1>6. PICK G : G = {i \in 0..n : g[i] \in Seq(S) /\ Len(g[i]) <= i}
  OBVIOUS
<1>7. 0 \in G
  <2>1. PICK e, z : e = << >> /\ z = 0
    OBVIOUS
  <2>2. e \in Seq(S) /\ Len(e) <= z /\ z \in 0..n
    BY <1>2, <2>1
  <2>3. g[z] = e
    BY <1>4, <1>5, <2>1, Zenon
  <2>4. z \in G
    BY <1>6, <2>2, <2>3
  <2> QED BY <2>1, <2>4
<1>8. ASSUME NEW i \in 1..n, i - 1 \in G PROVE i \in G
  <2>1. PICK acc, p : acc = g[i - 1] /\ p = i - 1
    OBVIOUS
  <2>2. acc \in Seq(S) /\ Len(acc) <= p /\ Len(acc) \in Nat /\ p \in Nat /\ i = p + 1
    BY <1>2, <1>6, <1>8, <2>1
  <2>3. g[i] = acc \/ g[i] = Append(acc, s[i])
    <3>1. g[i] = OneStep(k, i, acc)
      BY <1>4, <2>1, Zenon
    <3>2. OneStep(k, i, acc) = IF s[i] = t THEN acc ELSE Append(acc, s[i])
      BY <1>5, Zenon
    <3> QED BY <3>1, <3>2, Zenon
  <2>4. Append(acc, s[i]) \in Seq(S) /\ Len(Append(acc, s[i])) = Len(acc) + 1
    BY <1>2, <2>2
  <2>5. i \in 0..n /\ Len(acc) <= i /\ Len(acc) + 1 <= i
    BY <1>2, <2>2
  <2>6. g[i] \in Seq(S) /\ Len(g[i]) <= i
    BY <2>2, <2>3, <2>4, <2>5
  <2> QED BY <1>6, <2>5, <2>6
<1>9. n \in G
  <2>1. \A i \in 0..n : i \in G
    BY <1>2, <1>7, <1>8, EveryPass
  <2> QED BY <1>2, <2>1
<1>10. PICK kept, m : kept = g[n] /\ m = Len(kept)
  OBVIOUS
<1>11. kept \in Seq(S) /\ m \in Nat /\ m <= n
  BY <1>6, <1>9, <1>10
<1>12. StdRemove(s, t) = kept \o SubSeq(s, m + 1, n)
  <2>1. FoldLeft(LAMBDA front, x : IF x = t THEN front ELSE Append(front, x), << >>, s) = kept
    BY <1>1, <1>2, <1>4, <1>10, FrontIsFold, Zenon
  <2> QED BY <1>1, <1>10, <2>1, Zenon DEF StdRemove
<1>13. PICK rest : rest = SubSeq(s, m + 1, n)
  OBVIOUS
<1>14. rest \in Seq(S) /\ Len(rest) = n - m
  <2>1. m + 1 \in 1..(n + 1) /\ n \in (m + 1 - 1)..n
    BY <1>2, <1>11
  <2>2. rest = [i \in 1..(n - m) |-> s[i + m]]
    BY <1>2, <1>11, <1>13
  <2>3. \A i \in 1..(n - m) : i + m \in 1..n
    BY <1>2, <1>11
  <2>4. n - m \in Nat /\ rest \in [1..(n - m) -> S]
    BY <1>2, <1>11, <2>2, <2>3
  <2> QED BY <2>4
<1>15. kept \o rest \in Seq(S) /\ Len(kept \o rest) = m + (n - m)
  <2>1. kept \o rest \in Seq(S) /\ Len(kept \o rest) = Len(kept) + Len(rest)
    BY <1>11, <1>14, ConcatProperties
  <2> QED BY <1>10, <1>14, <2>1
<1>16. m + (n - m) = n
  BY <1>2, <1>11
<1> QED BY <1>1, <1>12, <1>13, <1>15, <1>16

\* So does the removal of the declined transactions.
LEMMA ListIsFold ==
    ASSUME NEW s, NEW d, NEW k, k = [fold |-> "list", shard |-> s, declined |-> d]
    PROVE  Listed(s, d) = Fold(k, DOMAIN d)[DOMAIN d]
<1> DEFINE D == DOMAIN d
           Step(it) == [u \in SUBSET D |->
                          IF u = {} THEN s ELSE StdRemove(it[u \ {Max(u)}], d[Max(u)])]
<1>1. Listed(s, d) = (CHOOSE it : it = Step(it))[D]
  BY DEF Listed, FoldLeft, MapThenFoldSet
<1>2. k.fold = "list" /\ k.shard = s /\ k.declined = d
  OBVIOUS
<1>3. ASSUME NEW it PROVE FoldStep(k, SUBSET D, it) = Step(it)
  BY <1>2 DEF FoldStep, Base, Chosen, OneStep
<1> HIDE DEF Step
<1>4. Fold(k, D) = CHOOSE it : it = Step(it)
  BY <1>3, Zenon DEF Fold
<1> QED BY <1>1, <1>4, Zenon

\* Listed leaves a list of the same length and elements.
LEMMA ListedKeeps ==
    ASSUME NEW S, NEW s \in Seq(S), NEW T, NEW d \in Seq(T)
    PROVE  Listed(s, d) \in Seq(S) /\ Len(Listed(s, d)) = Len(s)
<1>1. PICK n, k : n = Len(d) /\ k = [fold |-> "list", shard |-> s, declined |-> d]
  OBVIOUS
<1>2. n \in Nat /\ DOMAIN d = 1..n
  BY <1>1
<1>3. k.fold = "list" /\ k.fold # "units" /\ k.shard = s /\ k.declined = d
  BY <1>1
<1>4. PICK g : /\ g[0] = Base(k)
               /\ \A i \in 1..n : g[i] = OneStep(k, i, g[i - 1])
               /\ Fold(k, 1..n)[1..n] = g[n]
  BY <1>2, <1>3, FoldInOrder
<1>5. Base(k) = s /\ \A i, acc : OneStep(k, i, acc) = StdRemove(acc, d[i])
  BY <1>3 DEF Base, OneStep
<1>6. PICK G : G = {i \in 0..n : g[i] \in Seq(S) /\ Len(g[i]) = Len(s)}
  OBVIOUS
<1>7. 0 \in G
  <2>1. PICK z : z = 0
    OBVIOUS
  <2>2. g[z] = s /\ z \in 0..n
    BY <1>2, <1>4, <1>5, <2>1
  <2>3. z \in G
    BY <1>6, <2>2
  <2> QED BY <2>1, <2>3
<1>8. ASSUME NEW i \in 1..n, i - 1 \in G PROVE i \in G
  <2>1. PICK acc : acc = g[i - 1]
    OBVIOUS
  <2>2. acc \in Seq(S) /\ Len(acc) = Len(s)
    BY <1>6, <1>8, <2>1
  <2>3. g[i] = StdRemove(acc, d[i])
    BY <1>4, <1>5, <2>1, Zenon
  <2>4. g[i] \in Seq(S) /\ Len(g[i]) = Len(s)
    BY <2>2, <2>3, RemoveKeeps
  <2>5. i \in 0..n
    BY <1>2
  <2> QED BY <1>6, <2>4, <2>5
<1>9. n \in G
  <2>1. \A i \in 0..n : i \in G
    BY <1>2, <1>7, <1>8, EveryPass
  <2> QED BY <1>2, <2>1
<1>10. Listed(s, d) = g[n]
  <2>1. Listed(s, d) = Fold(k, DOMAIN d)[DOMAIN d]
    BY <1>1, ListIsFold
  <2> QED BY <1>2, <1>4, <2>1, Zenon
<1> QED BY <1>6, <1>9, <1>10

-----------------------------------------------------------------------------
(* Texts *)

\* A text is a sequence of tokens of any kind.
IsText(x) == x \in Seq(ToSet(x))

\* Any sequence is one.
LEMMA TextIs ==
    ASSUME NEW S, NEW x \in Seq(S)
    PROVE  IsText(x) /\ Len(x) \in Nat
<1>1. PICK n : n = Len(x)
  OBVIOUS
<1>2. n \in Nat /\ x \in [1..n -> S]
  BY <1>1
<1>3. x \in [1..n -> ToSet(x)]
  BY <1>2 DEF ToSet
<1> QED BY <1>1, <1>2, <1>3 DEF IsText

\* The smallest texts.
LEMMA OneToken ==
    ASSUME NEW a
    PROVE  IsText(<<a>>) /\ Len(<<a>>) = 1 /\ <<a>>[1] = a
<1>1. PICK x : x = <<a>>
  OBVIOUS
<1>2. x \in Seq({a}) /\ Len(x) = 1 /\ x[1] = a
  BY <1>1
<1>3. IsText(x)
  BY <1>2, TextIs
<1> QED BY <1>1, <1>2, <1>3

\* z is x and then y.
Joins(z, x, y) ==
    /\ Len(x) \in Nat /\ Len(y) \in Nat /\ Len(z) = Len(x) + Len(y)
    /\ \A i \in 1..Len(x) : z[i] = x[i]
    /\ \A i \in 1..Len(y) : z[Len(x) + i] = y[i]

\* Two texts joined.
LEMMA TextsJoin ==
    ASSUME NEW x, IsText(x), NEW y, IsText(y)
    PROVE  IsText(x \o y) /\ Joins(x \o y, x, y)
<1>1. PICK S, m, n, z : S = ToSet(x) \cup ToSet(y) /\ m = Len(x) /\ n = Len(y) /\ z = x \o y
  OBVIOUS
<1>2. x \in Seq(S) /\ y \in Seq(S) /\ m \in Nat /\ n \in Nat
  BY <1>1 DEF IsText
<1>3. /\ z \in Seq(S) /\ Len(z) = m + n
      /\ \A i \in 1..(m + n) : z[i] = IF i <= m THEN x[i] ELSE y[i - m]
  BY <1>1, <1>2, ConcatProperties
<1>4. IsText(z)
  BY <1>3, TextIs
<1>5. \A i \in 1..m : z[i] = x[i]
  BY <1>2, <1>3
<1>6. ASSUME NEW i \in 1..n PROVE z[m + i] = y[i]
  <2>1. m + i \in 1..(m + n) /\ ~(m + i <= m) /\ (m + i) - m = i
    BY <1>2
  <2> QED BY <1>3, <2>1
<1>7. Joins(z, x, y)
  BY <1>1, <1>2, <1>3, <1>5, <1>6 DEF Joins
<1> QED BY <1>1, <1>4, <1>7

\* Texts are equal when they agree everywhere.
LEMMA SameText ==
    ASSUME NEW x, IsText(x), NEW y, IsText(y), Len(x) = Len(y),
           \A i \in 1..Len(x) : x[i] = y[i]
    PROVE  x = y
<1>1. PICK n : n = Len(x)
  OBVIOUS
<1>2. n \in Nat /\ x = [i \in 1..n |-> x[i]] /\ y = [i \in 1..n |-> y[i]]
  BY <1>1 DEF IsText
<1>3. \A i \in 1..n : x[i] = y[i]
  BY <1>1
<1> QED BY <1>2, <1>3, Zenon

\* Two ways to cut one text at the same place.
Cut(x, y, u, v) ==
    /\ IsText(x) /\ IsText(y) /\ IsText(u) /\ IsText(v)
    /\ x \o y = u \o v
    /\ Len(x) = Len(u) \/ Len(y) = Len(v)

\* Joined texts are equal only if their parts are.
LEMMA JoinSame ==
    ASSUME NEW x, NEW y, NEW u, NEW v, Cut(x, y, u, v)
    PROVE  x = u /\ y = v
<1>0. /\ IsText(x) /\ IsText(y) /\ IsText(u) /\ IsText(v)
      /\ Len(x) = Len(u) \/ Len(y) = Len(v)
  BY Zenon DEF Cut
<1>1. PICK z, m, n : z = x \o y /\ m = Len(x) /\ n = Len(y)
  OBVIOUS
<1>2. /\ m \in Nat /\ n \in Nat /\ Len(z) = m + n
      /\ \A i \in 1..m : z[i] = x[i]
      /\ \A i \in 1..n : z[m + i] = y[i]
  <2>1. Joins(z, x, y)
    BY <1>0, <1>1, TextsJoin
  <2> QED BY <1>1, <2>1 DEF Joins
<1>3. PICK p, q : p = Len(u) /\ q = Len(v)
  OBVIOUS
<1>4. /\ p \in Nat /\ q \in Nat /\ Len(z) = p + q
      /\ \A i \in 1..p : z[i] = u[i]
      /\ \A i \in 1..q : z[p + i] = v[i]
  <2>1. z = u \o v
    BY <1>1, Zenon DEF Cut
  <2>2. Joins(z, u, v)
    BY <1>0, <2>1, TextsJoin
  <2> QED BY <1>3, <2>2 DEF Joins
<1>5. p = m /\ q = n
  BY <1>0, <1>1, <1>2, <1>3, <1>4
<1>6. x = u
  <2>1. \A i \in 1..Len(x) : x[i] = u[i]
    BY <1>1, <1>2, <1>4, <1>5
  <2> QED BY <1>0, <1>1, <1>3, <1>5, <2>1, SameText
<1>7. y = v
  <2>1. \A i \in 1..Len(y) : y[i] = v[i]
    BY <1>1, <1>2, <1>4, <1>5
  <2> QED BY <1>0, <1>1, <1>3, <1>5, <2>1, SameText
<1> QED BY <1>6, <1>7

\* A text between two tokens.
LEMMA WrapIs ==
    ASSUME NEW a, NEW b, NEW x, IsText(x)
    PROVE  IsText(<<a>> \o x \o <<b>>) /\ Len(<<a>> \o x \o <<b>>) = Len(x) + 2
<1>1. PICK l, r : l = <<a>> /\ r = <<b>>
  OBVIOUS
<1>2. IsText(l) /\ IsText(r) /\ Len(l) = 1 /\ Len(r) = 1
  BY <1>1, OneToken
<1>3. PICK y : y = l \o x
  OBVIOUS
<1>4. IsText(y) /\ Len(y) = 1 + Len(x) /\ Len(x) \in Nat
  <2>1. IsText(y) /\ Joins(y, l, x)
    BY <1>2, <1>3, TextsJoin
  <2> QED BY <1>2, <2>1 DEF Joins
<1>5. IsText(y \o r) /\ Len(y \o r) = Len(y) + 1
  <2>1. PICK z : z = y \o r
    OBVIOUS
  <2>2. IsText(z) /\ Joins(z, y, r)
    BY <1>2, <1>4, <2>1, TextsJoin
  <2> QED BY <1>2, <2>1, <2>2 DEF Joins
<1>6. Len(y) + 1 = Len(x) + 2
  BY <1>4
<1> QED BY <1>1, <1>3, <1>5, <1>6

\* It is what it was before.
LEMMA WrapSame ==
    ASSUME NEW a, NEW b, NEW x, IsText(x), NEW y, IsText(y),
           <<a>> \o x \o <<b>> = <<a>> \o y \o <<b>>
    PROVE  x = y
<1>1. PICK l, r : l = <<a>> /\ r = <<b>>
  OBVIOUS
<1>2. IsText(l) /\ IsText(r) /\ Len(l) = 1 /\ Len(r) = 1
  BY <1>1, OneToken
<1>3. PICK u, v : u = l \o x /\ v = l \o y
  OBVIOUS
<1>4. IsText(u) /\ IsText(v)
  BY <1>2, <1>3, TextsJoin
<1>5. u \o r = v \o r
  BY <1>1, <1>3
<1>6. Cut(u, r, v, r)
  BY <1>2, <1>4, <1>5, Zenon DEF Cut
<1>7. u = v
  BY <1>6, JoinSame
<1>8. Cut(l, x, l, y)
  BY <1>2, <1>3, <1>7, Zenon DEF Cut
<1> QED BY <1>8, JoinSame

\* f joins the first m pieces, one after another.
FlatTo(f, m, s) == f = [i \in 1..m |-> IF i = 1 THEN s[i] ELSE f[i - 1] \o s[i]]

\* One more piece can be joined.
LEMMA FlatMore ==
    ASSUME NEW s, NEW p \in Nat, NEW f, FlatTo(f, p, s)
    PROVE  \E g : FlatTo(g, p + 1, s)
<1>1. PICK m, last : /\ m = p + 1
                     /\ last = IF m = 1 THEN s[m] ELSE f[m - 1] \o s[m]
  OBVIOUS
<1>2. PICK g : g = [i \in 1..m |-> IF i <= p THEN f[i] ELSE last]
  OBVIOUS
<1>3. m \in Nat /\ m \in 1..m /\ ~(m <= p) /\ m - 1 = p
  BY <1>1
<1>4. \A i \in 1..p : g[i] = f[i]
  BY <1>1, <1>2
<1>5. g[m] = last
  BY <1>2, <1>3, Zenon
<1>6. ASSUME NEW i \in 1..m PROVE g[i] = IF i = 1 THEN s[i] ELSE g[i - 1] \o s[i]
  <2>1. CASE i = m
    <3>1. CASE m = 1
      BY <1>1, <1>5, <2>1, <3>1, Zenon
    <3>2. CASE m # 1
      <4>1. g[m - 1] = f[m - 1]
        <5>1. m - 1 \in 1..p
          BY <1>3, <3>2
        <5> QED BY <1>4, <5>1
      <4> QED BY <1>1, <1>5, <2>1, <3>2, <4>1, Zenon
    <3> QED BY <3>1, <3>2
  <2>2. CASE i # m
    <3>1. i \in 1..p
      BY <1>1, <2>2
    <3>2. f[i] = IF i = 1 THEN s[i] ELSE f[i - 1] \o s[i]
      BY <3>1, Zenon DEF FlatTo
    <3>3. CASE i = 1
      BY <1>4, <3>1, <3>2, <3>3, Zenon
    <3>4. CASE i # 1
      <4>1. g[i - 1] = f[i - 1]
        <5>1. i - 1 \in 1..p
          BY <3>1, <3>4
        <5> QED BY <1>4, <5>1
      <4> QED BY <1>4, <3>1, <3>2, <3>4, <4>1, Zenon
    <3> QED BY <3>3, <3>4
  <2> QED BY <2>1, <2>2
<1>7. g = [i \in 1..m |-> g[i]]
  BY <1>2, Zenon
<1>8. FlatTo(g, m, s)
  <2>1. PICK e : e = [i \in 1..m |-> IF i = 1 THEN s[i] ELSE g[i - 1] \o s[i]]
    OBVIOUS
  <2>2. e = [i \in 1..m |-> e[i]]
    BY <2>1, Zenon
  <2>3. \A i \in 1..m : e[i] = g[i]
    BY <1>6, <2>1, Zenon
  <2>4. e = g
    BY <1>7, <2>2, <2>3, Zenon
  <2> QED BY <2>1, <2>4, Zenon DEF FlatTo
<1> QED BY <1>1, <1>8

\* FlattenSeq joins the pieces: the recursion in it has a solution.
LEMMA FlattenJoins ==
    ASSUME NEW s, NEW n \in Nat, n >= 1, Len(s) = n
    PROVE  \E f : FlatTo(f, n, s) /\ FlattenSeq(s) = f[n]
<1>1. PICK G : G = {m \in 0..n : \E f : FlatTo(f, m, s)}
  OBVIOUS
<1>2. 0 \in G
  <2>1. PICK e : e = << >>
    OBVIOUS
  <2>2. 1..0 = {}
    OBVIOUS
  <2>3. e = [i \in 1..0 |-> IF i = 1 THEN s[i] ELSE e[i - 1] \o s[i]]
    BY <2>1, <2>2
  <2>4. \E f : FlatTo(f, 0, s)
    BY <2>3, Zenon DEF FlatTo
  <2>5. 0 \in 0..n
    OBVIOUS
  <2> QED BY <1>1, <2>4, <2>5
<1>3. ASSUME NEW i \in 1..n, i - 1 \in G PROVE i \in G
  <2>1. PICK p : p = i - 1
    OBVIOUS
  <2>2. p \in Nat /\ i = p + 1 /\ i \in 0..n
    BY <2>1
  <2>3. \E f : FlatTo(f, p, s)
    BY <1>1, <1>3, <2>1
  <2>4. \E g : FlatTo(g, p + 1, s)
    BY <2>2, <2>3, FlatMore
  <2> QED BY <1>1, <2>2, <2>4
<1>4. n \in G
  <2>1. \A i \in 0..n : i \in G
    BY <1>2, <1>3, EveryPass
  <2> QED BY <2>1
<1>5. PICK f : f = CHOOSE g : FlatTo(g, n, s)
  OBVIOUS
<1>6. FlatTo(f, n, s)
  BY <1>1, <1>4, <1>5, Zenon
<1>7. FlattenSeq(s) = f[n]
  BY <1>5 DEF FlattenSeq, FlatTo
<1> QED BY <1>6, <1>7

\* s is a sequence of n texts.
Pieces(s, n) == n \in Nat /\ n >= 1 /\ Len(s) = n /\ \A i \in 1..n : IsText(s[i])

\* Pieces of equal lengths joined make the same text only if they are the same.
LEMMA FlattenSame ==
    ASSUME NEW n, NEW s, Pieces(s, n), NEW t, Pieces(t, n),
           \A i \in 1..n : Len(s[i]) = Len(t[i])
    PROVE  /\ IsText(FlattenSeq(s)) /\ IsText(FlattenSeq(t))
           /\ Len(FlattenSeq(s)) = Len(FlattenSeq(t))
           /\ FlattenSeq(s) = FlattenSeq(t) => \A i \in 1..n : s[i] = t[i]
<1>1. /\ n \in Nat /\ n >= 1 /\ Len(s) = n /\ Len(t) = n
      /\ \A i \in 1..n : IsText(s[i]) /\ IsText(t[i])
  BY DEF Pieces
<1>2. PICK f : FlatTo(f, n, s) /\ FlattenSeq(s) = f[n]
  BY <1>1, FlattenJoins
<1>3. PICK g : FlatTo(g, n, t) /\ FlattenSeq(t) = g[n]
  BY <1>1, FlattenJoins
<1> DEFINE Good(i) == /\ IsText(f[i]) /\ IsText(g[i]) /\ Len(f[i]) = Len(g[i])
                      /\ f[i] = g[i] => \A j \in 1..i : s[j] = t[j]
<1>4. PICK G : G = {i \in 0..n : i >= 1 => Good(i)}
  OBVIOUS
<1>5. 0 \in G
  BY <1>1, <1>4
<1>6. ASSUME NEW i \in 1..n, i - 1 \in G PROVE i \in G
  <2>1. PICK p : p = i - 1
    OBVIOUS
  <2>2. p \in Nat /\ i = p + 1 /\ i \in 0..n
    BY <1>1, <2>1
  <2>3. IsText(s[i]) /\ IsText(t[i]) /\ Len(s[i]) = Len(t[i])
    BY <1>1
  <2>4. CASE i = 1
    <3>1. f[i] = s[i] /\ g[i] = t[i]
      BY <1>2, <1>3, <2>4, Zenon DEF FlatTo
    <3>2. \A j \in 1..i : j = i
      BY <2>4
    <3>3. Good(i)
      BY <2>3, <3>1, <3>2
    <3> QED BY <1>4, <2>2, <3>3
  <2>5. CASE i # 1
    <3>1. f[i] = f[p] \o s[i] /\ g[i] = g[p] \o t[i]
      BY <1>2, <1>3, <2>1, <2>5, Zenon DEF FlatTo
    <3>2. Good(p)
      <4>1. p >= 1
        BY <2>2, <2>5
      <4> QED BY <1>4, <1>6, <2>1, <4>1
    <3>3. PICK x, u : x = f[p] /\ u = g[p]
      OBVIOUS
    <3>4. IsText(x) /\ IsText(u) /\ Len(x) = Len(u) /\ (x = u => \A j \in 1..p : s[j] = t[j])
      BY <3>2, <3>3
    <3>5. PICK y, v : y = f[i] /\ v = g[i]
      OBVIOUS
    <3>6. IsText(y) /\ Joins(y, x, s[i]) /\ IsText(v) /\ Joins(v, u, t[i])
      BY <2>3, <3>1, <3>3, <3>4, <3>5, TextsJoin
    <3>7. Len(y) = Len(v)
      BY <2>3, <3>4, <3>6 DEF Joins
    <3>8. ASSUME y = v PROVE \A j \in 1..i : s[j] = t[j]
      <4>1. x \o s[i] = u \o t[i]
        BY <3>1, <3>3, <3>5, <3>8
      <4>2. x = u /\ s[i] = t[i]
        <5>1. PICK a, b : a = s[i] /\ b = t[i]
          OBVIOUS
        <5>2. IsText(a) /\ IsText(b)
          BY <2>3, <5>1
        <5>3. IsText(x) /\ IsText(u) /\ Len(x) = Len(u)
          BY <3>4, Zenon
        <5>4. x \o a = u \o b
          BY <4>1, <5>1, Zenon
        <5>5. Cut(x, a, u, b)
          BY <5>2, <5>3, <5>4, Zenon DEF Cut
        <5>6. x = u /\ a = b
          BY <5>5, JoinSame
        <5> QED BY <5>1, <5>6
      <4>3. \A j \in 1..i : j \in 1..p \/ j = i
        BY <2>2
      <4> QED BY <3>4, <4>2, <4>3
    <3>9. Good(i)
      BY <3>5, <3>6, <3>7, <3>8
    <3> QED BY <1>4, <2>2, <3>9
  <2> QED BY <2>4, <2>5
<1>7. n \in G
  <2>1. \A i \in 0..n : i \in G
    BY <1>1, <1>5, <1>6, EveryPass
  <2> QED BY <1>1, <2>1
<1>8. Good(n)
  BY <1>1, <1>4, <1>7
<1> QED BY <1>2, <1>3, <1>8

\* Digests, signatures and quoted texts are texts again.
LEMMA DigestIs ==
    ASSUME NEW x, IsText(x)
    PROVE  /\ Len(x) \in Nat
           /\ IsText(Quoted(x)) /\ Len(Quoted(x)) = Len(x) + 2
           /\ IsText(Sha3(x)) /\ Len(Sha3(x)) = Len(x) + 2
           /\ IsText(DoubleSha3(x)) /\ Len(DoubleSha3(x)) = Len(x) + 4
           /\ IsText(Signature(x))
<1>1. Len(x) \in Nat
  BY DEF IsText
<1>2. IsText(Quoted(x)) /\ Len(Quoted(x)) = Len(x) + 2
  BY WrapIs DEF Quoted
<1>3. \A y : IsText(y) => IsText(Sha3(y)) /\ Len(Sha3(y)) = Len(y) + 2
  BY WrapIs DEF Sha3
<1>4. IsText(Signature(x))
  BY WrapIs DEF Signature
<1>5. PICK y : y = Sha3(x)
  OBVIOUS
<1>6. IsText(y) /\ Len(y) = Len(x) + 2 /\ IsText(Sha3(y)) /\ Len(Sha3(y)) = Len(y) + 2
  BY <1>3, <1>5
<1>7. Len(y) + 2 = Len(x) + 4
  BY <1>1, <1>6
<1>8. DoubleSha3(x) = Sha3(y)
  BY <1>5, Zenon DEF DoubleSha3
<1> QED BY <1>1, <1>2, <1>3, <1>4, <1>6, <1>7, <1>8

\* They are equal only for the same text.
LEMMA DigestSame ==
    ASSUME NEW x, IsText(x), NEW y, IsText(y)
    PROVE  /\ Quoted(x) = Quoted(y) => x = y
           /\ DoubleSha3(x) = DoubleSha3(y) => x = y
           /\ Signature(x) = Signature(y) => x = y
<1>1. Quoted(x) = Quoted(y) => x = y
  BY WrapSame DEF Quoted
<1>2. \A u, v : IsText(u) /\ IsText(v) /\ Sha3(u) = Sha3(v) => u = v
  BY WrapSame DEF Sha3
<1>3. Signature(x) = Signature(y) => x = y
  BY WrapSame DEF Signature
<1>4. ASSUME DoubleSha3(x) = DoubleSha3(y) PROVE x = y
  <2>1. IsText(Sha3(x)) /\ IsText(Sha3(y))
    BY DigestIs
  <2>2. Sha3(Sha3(x)) = Sha3(Sha3(y))
    BY <1>4, Zenon DEF DoubleSha3
  <2>3. Sha3(x) = Sha3(y)
    BY <1>2, <2>1, <2>2, Zenon
  <2> QED BY <1>2, <2>3, Zenon
<1> QED BY <1>1, <1>3, <1>4

\* A raw transaction has five tokens, of which the id is the first.
LEMMA RawIs ==
    ASSUME NEW t, NEW x, x = serializeToRawTransaction(t)
    PROVE  IsText(x) /\ Len(x) = 5 /\ x[1] = t.id
<1>1. PICK a, b, c, d : /\ a = <<t.id>> /\ b = <<ToString(t.amount)>>
                        /\ c = Quoted(b) /\ d = <<t.type>>
  OBVIOUS
<1>2. /\ IsText(a) /\ Len(a) = 1 /\ a[1] = t.id /\ IsText(b) /\ Len(b) = 1
      /\ IsText(d) /\ Len(d) = 1
  BY <1>1, OneToken
<1>3. IsText(c) /\ Len(c) = 3
  <2>1. IsText(c) /\ Len(c) = Len(b) + 2
    BY <1>1, <1>2, DigestIs
  <2> QED BY <1>2, <2>1
<1>4. x = a \o c \o d
  BY <1>1, Zenon DEF serializeToRawTransaction
<1>5. PICK y : y = a \o c
  OBVIOUS
<1>6. IsText(y) /\ Joins(y, a, c)
  BY <1>2, <1>3, <1>5, TextsJoin
<1>7. Len(y) = 4 /\ y[1] = t.id
  BY <1>2, <1>3, <1>6 DEF Joins
<1>8. IsText(x) /\ Joins(x, y, d)
  BY <1>2, <1>4, <1>5, <1>6, TextsJoin
<1>9. Len(x) = 5 /\ x[1] = t.id
  BY <1>2, <1>7, <1>8 DEF Joins
<1> QED BY <1>8, <1>9

\* The stored text of a transaction has its digest if and only if it is a TRANSFER.
LEMMA TransferText ==
    ASSUME NEW t
    PROVE  TxHash(t) = DoubleSha3(serializeToJsonTransaction(t)) <=> t.type = "TRANSFER"
<1>1. PICK x, y : x = serializeToRawTransaction(t) /\ y = serializeToJsonTransaction(t)
  OBVIOUS
<1>2. IsText(x) /\ Len(x) = 5
  BY <1>1, RawIs
<1>3. TxHash(t) = DoubleSha3(x)
  BY <1>1, Zenon DEF TxHash
<1>4. CASE t.type = "TRANSFER"
  <2>1. y = x
    BY <1>1, <1>4, Zenon DEF serializeToJsonTransaction
  <2> QED BY <1>1, <1>3, <1>4, <2>1, Zenon
<1>5. CASE t.type # "TRANSFER"
  <2>1. PICK a, b, c, d : /\ a = t.id /\ b = "'" /\ c = ToString(t.amount) /\ d = t.type
    OBVIOUS
  <2>2. y = <<a, b, c, d>>
    BY <1>1, <1>5, <2>1, Zenon DEF serializeToJsonTransaction
  <2>3. y \in Seq({a, b, c, d}) /\ Len(y) = 4
    <3>1. PICK S : S = {a, b, c, d}
      OBVIOUS
    <3>2. a \in S /\ b \in S /\ c \in S /\ d \in S
      BY <3>1
    <3>3. <<a, b, c, d>> \in Seq(S) /\ Len(<<a, b, c, d>>) = 4
      BY <3>2
    <3> QED BY <2>2, <3>1, <3>3
  <2>4. IsText(y)
    BY <2>3, TextIs
  <2>5. x # y
    <3>1. PICK p, q : p = Len(x) /\ q = Len(y)
      OBVIOUS
    <3>2. p = 5 /\ q = 4
      BY <1>2, <2>3, <3>1, Zenon
    <3>3. p # q
      BY <3>2
    <3> QED BY <3>1, <3>3, Zenon
  <2>6. DoubleSha3(x) # DoubleSha3(y)
    BY <1>2, <2>4, <2>5, DigestSame
  <2> QED BY <1>1, <1>3, <1>5, <2>6, Zenon
<1> QED BY <1>4, <1>5

\* The texts that make a list of transactions.
Chunks(list) == [i \in DOMAIN list |-> Quoted(TxHash(list[i]))]

\* All have the same length, and each tells the id.
LEMMA ChunkIs ==
    ASSUME NEW t
    PROVE  IsText(Quoted(TxHash(t))) /\ Len(Quoted(TxHash(t))) = 11
<1>1. PICK x, y : x = serializeToRawTransaction(t) /\ y = TxHash(t)
  OBVIOUS
<1>2. IsText(x) /\ Len(x) = 5
  BY <1>1, RawIs
<1>3. y = DoubleSha3(x)
  BY <1>1, Zenon DEF TxHash
<1>4. IsText(y) /\ Len(y) = 9
  <2>1. IsText(y) /\ Len(y) = Len(x) + 4
    BY <1>2, <1>3, DigestIs
  <2> QED BY <1>2, <2>1
<1>5. PICK z : z = Quoted(y)
  OBVIOUS
<1>6. IsText(z) /\ Len(z) = Len(y) + 2
  BY <1>4, <1>5, DigestIs
<1>7. Len(z) = 11
  BY <1>4, <1>6
<1> QED BY <1>1, <1>5, <1>6, <1>7

\* So equal chunks are of transactions with the same id.
LEMMA ChunkSame ==
    ASSUME NEW t, NEW u, Quoted(TxHash(t)) = Quoted(TxHash(u))
    PROVE  t.id = u.id
<1>1. PICK x, y : x = serializeToRawTransaction(t) /\ y = serializeToRawTransaction(u)
  OBVIOUS
<1>2. IsText(x) /\ IsText(y) /\ x[1] = t.id /\ y[1] = u.id
  BY <1>1, RawIs
<1>3. TxHash(t) = DoubleSha3(x) /\ TxHash(u) = DoubleSha3(y)
  BY <1>1, Zenon DEF TxHash
<1>4. IsText(DoubleSha3(x)) /\ IsText(DoubleSha3(y))
  BY <1>2, DigestIs
<1>5. DoubleSha3(x) = DoubleSha3(y)
  <2>1. Quoted(DoubleSha3(x)) = Quoted(DoubleSha3(y))
    BY <1>3
  <2> QED BY <1>4, <2>1, DigestSame
<1>6. x = y
  BY <1>2, <1>5, DigestSame
<1> QED BY <1>2, <1>6

\* The transactions a block may list.
AllTxs == Txs \cup {GenesisTx}

\* Lists of the same length have the same text only if they are the same.
LEMMA ListText ==
    ASSUME NEW list \in Seq(AllTxs), NEW other \in Seq(AllTxs), Len(list) = Len(other),
           Len(list) >= 1
    PROVE  /\ IsText(FlattenSeq(Chunks(list))) /\ IsText(FlattenSeq(Chunks(other)))
           /\ FlattenSeq(Chunks(list)) = FlattenSeq(Chunks(other)) => list = other
<1>1. PICK n, s, t : n = Len(list) /\ s = Chunks(list) /\ t = Chunks(other)
  OBVIOUS
<1>2. /\ n \in Nat /\ n >= 1 /\ DOMAIN list = 1..n /\ DOMAIN other = 1..n
      /\ \A i \in 1..n : list[i] \in AllTxs /\ other[i] \in AllTxs
  BY <1>1
<1>3. \A l : DOMAIN l = 1..n =>
               /\ DOMAIN Chunks(l) = 1..n
               /\ \A i \in 1..n : Chunks(l)[i] = Quoted(TxHash(l[i]))
  BY DEF Chunks
<1>4. \A c : DOMAIN c = 1..n /\ c = [i \in 1..n |-> c[i]] => Len(c) = n
  BY <1>2
<1>5. s = [i \in 1..n |-> s[i]] /\ t = [i \in 1..n |-> t[i]]
  BY <1>1, <1>2 DEF Chunks
<1>6. Len(s) = n /\ Len(t) = n
  BY <1>1, <1>2, <1>3, <1>4, <1>5
<1>7. \A i \in 1..n : s[i] = Quoted(TxHash(list[i])) /\ t[i] = Quoted(TxHash(other[i]))
  BY <1>1, <1>2, <1>3
<1>8. \A i \in 1..n : /\ IsText(s[i]) /\ Len(s[i]) = 11
                      /\ IsText(t[i]) /\ Len(t[i]) = 11
  BY <1>7, ChunkIs
<1>9. Pieces(s, n) /\ Pieces(t, n) /\ \A i \in 1..n : Len(s[i]) = Len(t[i])
  BY <1>2, <1>6, <1>8 DEF Pieces
<1>10. /\ IsText(FlattenSeq(s)) /\ IsText(FlattenSeq(t))
       /\ FlattenSeq(s) = FlattenSeq(t) => \A i \in 1..n : s[i] = t[i]
  BY <1>9, FlattenSame
<1>11. ASSUME \A i \in 1..n : s[i] = t[i] PROVE list = other
  <2>1. \A i \in 1..n : list[i].id = other[i].id
    BY <1>7, <1>11, ChunkSame
  <2>2. GenesisTx.id = GenesisId
    BY DEF GenesisTx
  <2>3. \A x, y \in AllTxs : x.id = y.id => x = y
    BY <2>2, TxsAssumption DEF AllTxs
  <2>4. \A i \in 1..n : list[i] = other[i]
    BY <1>2, <2>1, <2>3
  <2>5. list = [i \in 1..n |-> list[i]] /\ other = [i \in 1..n |-> other[i]]
    BY <1>1, <1>2
  <2> QED BY <2>4, <2>5, Zenon
<1> QED BY <1>1, <1>10, <1>11

-----------------------------------------------------------------------------
(* Texts of shards and blocks *)

\* A shard of the factory, or of the genesis block.
AsShard(id, list, sign) ==
    [shardID |-> id, transactionMerkleRoot |-> NoText, transactionList |-> list,
     signature |-> sign]

\* Its fields.
LEMMA ShardFields ==
    ASSUME NEW id, NEW list, NEW sign, NEW s, s = AsShard(id, list, sign)
    PROVE  /\ s.shardID = id /\ s.transactionMerkleRoot = NoText
           /\ s.transactionList = list /\ s.signature = sign
           /\ \A x : [s EXCEPT !.transactionList = x] = AsShard(id, x, sign)
  BY DEF AsShard

\* No token at all is a text.
LEMMA NoTextIs == IsText(NoText) /\ Len(NoText) = 0
<1>1. PICK x : x = NoText
  OBVIOUS
<1>2. x \in Seq({}) /\ Len(x) = 0
  BY <1>1 DEF NoText
<1>3. IsText(x)
  BY <1>2, TextIs
<1> QED BY <1>1, <1>2, <1>3

\* The text of a shard tells its list from another of that length.
LEMMA ShardText ==
    ASSUME NEW id, IsText(id), NEW sign, IsText(sign),
           NEW list \in Seq(AllTxs), NEW other \in Seq(AllTxs), Len(list) = Len(other),
           Len(list) >= 1,
           NEW s, s = AsShard(id, list, sign), NEW u, u = AsShard(id, other, sign)
    PROVE  /\ IsText(serializeWithoutSignatures(s)) /\ IsText(serializeWithoutSignatures(u))
           /\ serializeWithoutSignatures(s) = serializeWithoutSignatures(u) => list = other
           /\ IsText(serializeShard(s)) /\ IsText(serializeShard(u))
           /\ serializeShard(s) = serializeShard(u) => list = other
<1>1. PICK q, e, r, a, x, y : /\ q = Quoted(id) /\ e = Quoted(NoText) /\ r = Quoted(sign) /\ a = q \o e
                              /\ x = FlattenSeq(Chunks(list)) /\ y = FlattenSeq(Chunks(other))
  OBVIOUS
<1>2. IsText(q) /\ IsText(e) /\ IsText(r)
  BY <1>1, DigestIs, NoTextIs
<1>3. IsText(a)
  BY <1>1, <1>2, TextsJoin
<1>4. IsText(x) /\ IsText(y) /\ (x = y => list = other)
  BY <1>1, ListText
<1>5. PICK v, w : v = a \o x /\ w = a \o y
  OBVIOUS
<1>6. IsText(v) /\ IsText(w)
  BY <1>3, <1>4, <1>5, TextsJoin
<1>7. v = w => x = y
  <2>1. v = w => Cut(a, x, a, y)
    BY <1>3, <1>4, <1>5, Zenon DEF Cut
  <2> QED BY <2>1, JoinSame
<1>8. IsText(v \o r) /\ IsText(w \o r)
  BY <1>2, <1>6, TextsJoin
<1>9. v \o r = w \o r => v = w
  <2>1. v \o r = w \o r => Cut(v, r, w, r)
    BY <1>2, <1>6, Zenon DEF Cut
  <2> QED BY <2>1, JoinSame
<1>10. serializeTransactions(s) = x /\ serializeTransactions(u) = y
  <2>1. s.transactionList = list /\ u.transactionList = other
    BY ShardFields
  <2> QED BY <1>1, <2>1, Zenon DEF serializeTransactions, Chunks
<1>11. serializeWithoutSignatures(s) = v /\ serializeWithoutSignatures(u) = w
  <2>1. /\ s.shardID = id /\ s.transactionMerkleRoot = NoText
        /\ u.shardID = id /\ u.transactionMerkleRoot = NoText
    BY ShardFields
  <2> QED BY <1>1, <1>5, <1>10, <2>1, Zenon DEF serializeWithoutSignatures
<1>12. serializeShard(s) = v \o r /\ serializeShard(u) = w \o r
  <2>1. s.signature = sign /\ u.signature = sign
    BY ShardFields
  <2> QED BY <1>1, <1>11, <2>1, Zenon DEF serializeShard
<1> QED BY <1>4, <1>6, <1>7, <1>8, <1>9, <1>11, <1>12, Zenon

\* One piece, or none, joined.
LEMMA FlattenOne ==
    ASSUME NEW x
    PROVE  FlattenSeq(<<x>>) = x
<1>1. PICK s : s = <<x>>
  OBVIOUS
<1>2. Len(s) = 1 /\ s[1] = x
  BY <1>1
<1>3. PICK f : FlatTo(f, 1, s) /\ FlattenSeq(s) = f[1]
  <2>1. PICK n : n = 1
    OBVIOUS
  <2>2. n \in Nat /\ n >= 1 /\ Len(s) = n
    BY <1>2, <2>1
  <2>3. \E f : FlatTo(f, n, s) /\ FlattenSeq(s) = f[n]
    BY <2>2, FlattenJoins
  <2> QED BY <2>1, <2>3
<1>4. f[1] = s[1]
  <2>1. 1 \in 1..1
    OBVIOUS
  <2> QED BY <1>3, <2>1, Zenon DEF FlatTo
<1> QED BY <1>1, <1>2, <1>3, <1>4

\* The text of a block's shards.
LEMMA ShardsText ==
    ASSUME NEW s
    PROVE  /\ FlattenSeq([i \in DOMAIN <<s>> |-> serializeShard(<<s>>[i])]) = serializeShard(s)
           /\ FlattenSeq([i \in DOMAIN << >> |-> serializeShard(<< >>[i])]) = NoText
<1>1. PICK x, y, t : x = serializeShard(s) /\ y = <<x>> /\ t = <<s>>
  OBVIOUS
<1>2. [i \in DOMAIN t |-> serializeShard(t[i])] = y
  <2>1. DOMAIN t = 1..1 /\ t[1] = s /\ \A i \in 1..1 : i = 1
    BY <1>1
  <2>2. y = [i \in 1..1 |-> x]
    BY <1>1
  <2>3. [i \in 1..1 |-> serializeShard(t[i])] = [i \in 1..1 |-> x]
    BY <1>1, <2>1, Zenon
  <2> QED BY <2>1, <2>2, <2>3, Zenon
<1>3. FlattenSeq(y) = x
  BY <1>1, FlattenOne
<1>4. PICK e, z : e = << >> /\ z = [i \in DOMAIN e |-> serializeShard(e[i])]
  OBVIOUS
<1>5. z = e
  <2>1. DOMAIN e = {}
    BY <1>4
  <2> QED BY <1>4, <2>1
<1>6. FlattenSeq(z) = NoText
  <2>1. Len(z) = 0
    BY <1>4, <1>5
  <2> QED BY <1>4, <1>5, <2>1, Zenon DEF FlattenSeq, NoText
<1> QED BY <1>1, <1>2, <1>3, <1>4, <1>6, Zenon

\* The text of a block that is hashed.
Hashed(p, t, i, s) == serializeBlock(AsBlock(NoText, p, NoText, t, i, 0, NoText, s))

\* Its head, which the shards do not touch.
HeadOf(head, p, t, i) ==
    /\ IsText(head)
    /\ \A s : Hashed(p, t, i, s) = head \o FlattenSeq([j \in DOMAIN s |-> serializeShard(s[j])])

\* The text has such a head.
LEMMA BlockText ==
    ASSUME NEW p, IsText(p), NEW t, NEW i
    PROVE  \E head : HeadOf(head, p, t, i)
<1>0. PICK o : o = 0
  OBVIOUS
<1>1. PICK e, q : e = NoText /\ q = Quoted(e)
  OBVIOUS
<1>2. IsText(e) /\ IsText(q)
  BY <1>1, DigestIs, NoTextIs
<1>3. PICK a, b, c, w : a = ToString(t) /\ b = ToString(i) /\ c = ToString(o) /\ w = <<a, b, c>>
  OBVIOUS
<1>4. IsText(w)
  <2>1. PICK S : S = {a, b, c}
    OBVIOUS
  <2>2. a \in S /\ b \in S /\ c \in S
    BY <2>1
  <2>3. <<a, b, c>> \in Seq(S)
    BY <2>2
  <2> QED BY <1>3, <2>3, TextIs
<1>5. PICK m, x : m = "'" /\ x = <<m>>
  OBVIOUS
<1>6. IsText(x)
  BY <1>5, OneToken
<1>7. PICK u, tail, v, h, head : /\ u = p \o q /\ tail = u \o w /\ v = q \o x
                                 /\ h = v \o tail /\ head = h \o q
  OBVIOUS
<1>8. IsText(u) /\ IsText(v)
  BY <1>2, <1>6, <1>7, TextsJoin
<1>9. IsText(tail)
  BY <1>4, <1>7, <1>8, TextsJoin
<1>10. IsText(h)
  BY <1>7, <1>8, <1>9, TextsJoin
<1>11. IsText(head)
  BY <1>2, <1>7, <1>10, TextsJoin
<1>12. ASSUME NEW s
       PROVE  Hashed(p, t, i, s) = head \o FlattenSeq([j \in DOMAIN s |-> serializeShard(s[j])])
  <2>1. PICK k : k = AsBlock(e, p, e, t, i, o, e, s)
    OBVIOUS
  <2>2. /\ k.hash = e /\ k.previousHash = p /\ k.merkleRoot = e /\ k.time = t
        /\ k.index = i /\ k.size = o /\ k.signP = e /\ k.shardList = s
    BY <2>1, BlockFields
  <2>3. HeaderTail(k) = tail
    BY <1>1, <1>3, <1>7, <2>2, Zenon DEF HeaderTail
  <2>4. serializeBlockHeader(k) = h
    BY <1>1, <1>5, <1>7, <2>2, <2>3, Zenon DEF serializeBlockHeader
  <2>5. serializeBlock(k) = head \o FlattenSeq([j \in DOMAIN s |-> serializeShard(s[j])])
    BY <1>1, <1>7, <2>2, <2>4, Zenon DEF serializeBlock
  <2> QED BY <1>0, <1>1, <2>1, <2>5, Zenon DEF Hashed
<1> QED BY <1>11, <1>12, Zenon DEF HeadOf

\* What the builder computes for a block with the shards s.
Sealed(h, p, r, t, i, g, s) ==
    /\ h = DoubleSha3(Hashed(p, t, i, s))
    /\ r = RootOf(s)
    /\ g = Signature(serializeForSigning(AsBlock(h, p, r, t, i, 0, NoText, s)))

\* b was built without a shard.
EmptyMade(b) ==
    \E h, p, r, t, i, g : /\ IsText(p) /\ Sealed(h, p, r, t, i, g, << >>)
                          /\ b = AsBlock(h, p, r, t, i, 0, g, << >>)

\* b was built with a shard and now has another list.
ShardMade(b, shard, list) ==
    \E h, p, r, t, i, z, g, id, sign :
        /\ IsText(p) /\ IsText(id) /\ IsText(sign)
        /\ Sealed(h, p, r, t, i, g, <<AsShard(id, shard, sign)>>)
        /\ b = AsBlock(h, p, r, t, i, z, g, <<AsShard(id, list, sign)>>)
        /\ i = 0 \/ sign = Signature(serializeWithoutSignatures(UnsignedShard(shard)))

\* Two lists of transactions of the same length.
Alike(shard, list) ==
    /\ shard \in Seq(AllTxs) /\ list \in Seq(AllTxs)
    /\ Len(list) = Len(shard) /\ Len(shard) >= 1

\* Behind the same head the same text is left.
LEMMA HeadSame ==
    ASSUME NEW x, IsText(x), NEW a, IsText(a), NEW b, IsText(b), x \o a = x \o b
    PROVE  a = b
<1>1. Cut(x, a, x, b)
  BY Zenon DEF Cut
<1> QED BY <1>1, JoinSame

\* The hash tells the lists apart.
LEMMA HashTells ==
    ASSUME NEW p, IsText(p), NEW id, IsText(id), NEW sign, IsText(sign),
           NEW shard, NEW list, Alike(shard, list), NEW t, NEW i,
           NEW x, x = Hashed(p, t, i, <<AsShard(id, shard, sign)>>),
           NEW y, y = Hashed(p, t, i, <<AsShard(id, list, sign)>>)
    PROVE  /\ IsText(x) /\ IsText(DoubleSha3(x))
           /\ DoubleSha3(x) = DoubleSha3(y) <=> list = shard
<1>0. PICK head : HeadOf(head, p, t, i)
  BY BlockText
<1>1. IsText(head) /\ HeadOf(head, p, t, i)
  BY <1>0 DEF HeadOf
<1>2. PICK s, u : s = AsShard(id, shard, sign) /\ u = AsShard(id, list, sign)
  OBVIOUS
<1>3. x = head \o serializeShard(s) /\ y = head \o serializeShard(u)
  <2>1. \A v : Hashed(p, t, i, <<v>>) = head \o serializeShard(v)
    <3> TAKE v
    <3>1. PICK vv : vv = <<v>>
      OBVIOUS
    <3>2. Hashed(p, t, i, vv) = head \o FlattenSeq([j \in DOMAIN vv |-> serializeShard(vv[j])])
      BY <1>1, Zenon DEF HeadOf
    <3>3. FlattenSeq([j \in DOMAIN <<v>> |-> serializeShard(<<v>>[j])]) = serializeShard(v)
      BY ShardsText, Zenon
    <3> QED BY <3>1, <3>2, <3>3, Zenon
  <2> QED BY <1>2, <2>1, Zenon
<1>4. /\ IsText(serializeShard(s)) /\ IsText(serializeShard(u))
      /\ serializeShard(s) = serializeShard(u) => shard = list
  <2>1. /\ shard \in Seq(AllTxs) /\ list \in Seq(AllTxs) /\ Len(shard) = Len(list)
        /\ Len(shard) >= 1
    BY DEF Alike
  <2> QED BY <1>2, <2>1, ShardText
<1>5. PICK a, b : a = serializeShard(s) /\ b = serializeShard(u)
  OBVIOUS
<1>6. IsText(a) /\ IsText(b) /\ (a = b => shard = list) /\ x = head \o a /\ y = head \o b
  BY <1>3, <1>4, <1>5
<1>7. IsText(x) /\ IsText(y)
  BY <1>1, <1>6, TextsJoin
<1>8. IsText(DoubleSha3(x))
  BY <1>7, DigestIs
<1>9. ASSUME DoubleSha3(x) = DoubleSha3(y) PROVE list = shard
  <2>1. x = y
    BY <1>7, <1>9, DigestSame
  <2>2. head \o a = head \o b
    BY <1>6, <2>1
  <2>3. a = b
    BY <1>1, <1>6, <2>2, HeadSame
  <2> QED BY <1>6, <2>3
<1>10. ASSUME list = shard PROVE DoubleSha3(x) = DoubleSha3(y)
  BY <1>2, <1>3, <1>10, Zenon
<1> QED BY <1>7, <1>8, <1>9, <1>10

\* The prover signs neither the hash nor the shards.
LEMMA SignSame ==
    ASSUME NEW p, NEW r, NEW t, NEW i, NEW o, NEW h, NEW g, NEW s, NEW k, NEW f, NEW u
    PROVE  serializeForSigning(AsBlock(h, p, r, t, i, o, g, s))
             = serializeForSigning(AsBlock(k, p, r, t, i, o, f, u))
<1>1. PICK a, b : a = AsBlock(h, p, r, t, i, o, g, s) /\ b = AsBlock(k, p, r, t, i, o, f, u)
  OBVIOUS
<1>2. /\ a.previousHash = p /\ a.merkleRoot = r /\ a.time = t /\ a.index = i /\ a.size = o
      /\ b.previousHash = p /\ b.merkleRoot = r /\ b.time = t /\ b.index = i /\ b.size = o
  BY <1>1, BlockFields
<1>3. HeaderTail(a) = HeaderTail(b)
  BY <1>2, Zenon DEF HeaderTail
<1>4. serializeForSigning(a) = serializeForSigning(b)
  BY <1>3, Zenon DEF serializeForSigning
<1> QED BY <1>1, <1>4, Zenon

\* The Merkle root does not depend on the transactions.
LEMMA RootSame ==
    ASSUME NEW id, NEW sign, NEW shard, NEW list
    PROVE  RootOf(<<AsShard(id, shard, sign)>>) = RootOf(<<AsShard(id, list, sign)>>)
<1>1. PICK s, u, ss, uu : /\ s = AsShard(id, shard, sign) /\ u = AsShard(id, list, sign)
                          /\ ss = <<s>> /\ uu = <<u>>
  OBVIOUS
<1>2. s.transactionMerkleRoot = NoText /\ u.transactionMerkleRoot = NoText
  BY <1>1, ShardFields
<1>3. /\ DOMAIN ss = 1..1 /\ DOMAIN uu = 1..1 /\ ss # << >> /\ uu # << >>
      /\ \A i \in 1..1 : ss[i] = s /\ uu[i] = u
  BY <1>1
<1>4. PICK e, a, b : /\ e = [i \in 1..1 |-> NoText]
                     /\ a = [i \in 1..1 |-> ss[i].transactionMerkleRoot]
                     /\ b = [i \in 1..1 |-> uu[i].transactionMerkleRoot]
  OBVIOUS
<1>5. a = e /\ b = e
  BY <1>2, <1>3, <1>4, Zenon
<1>6. RootOf(ss) = get_root(e \o e) /\ RootOf(uu) = get_root(e \o e)
  BY <1>3, <1>4, <1>5, Zenon DEF RootOf
<1> QED BY <1>1, <1>6, Zenon

\* What generateMerkleRoot writes.
LEMMA RootWritten ==
    ASSUME NEW h, NEW p, NEW r, NEW t, NEW i, NEW z, NEW g, NEW s
    PROVE  generateMerkleRoot(AsBlock(h, p, r, t, i, z, g, s)).merkleRoot = RootOf(s)
<1>1. PICK b, x : b = AsBlock(h, p, r, t, i, z, g, s) /\ x = RootOf(s)
  OBVIOUS
<1>2. b.shardList = s
  BY <1>1, BlockFields
<1>3. generateMerkleRoot(b) = [b EXCEPT !.merkleRoot = x]
  BY <1>1, <1>2, Zenon DEF generateMerkleRoot, RootOf
<1>4. [b EXCEPT !.merkleRoot = x].merkleRoot = x
  BY <1>1 DEF AsBlock
<1> QED BY <1>1, <1>3, <1>4, Zenon

\* The declined transactions are those of the shard.
LEMMA DeclinedIsList ==
    ASSUME NEW shard, IsShard(shard), NEW db, HasWallets(db), NEW unread, NEW hs, NEW unreadable,
           NEW st, Ends(st, shard, unread, db, hs, unreadable), ~st.thrown
    PROVE  st.declined \in Seq(Txs)
<1>1. PICK g : Runs(g, shard, unread, db, hs, unreadable) /\ st = g[Len(shard)]
  BY ShardRuns
<1>2. PICK n : n = Len(shard)
  OBVIOUS
<1>3. /\ n \in Nat /\ Parties(shard) \subseteq Accounts
      /\ \A i \in 1..n : shard[i] \in Txs
  BY <1>2, PartiesLoaded
<1>4. \A i \in 1..n : Follows(g[i], g[i - 1], shard[i], hs, unreadable)
  <2>1. ~g[Len(shard)].thrown
    BY <1>1
  <2> QED BY <1>1, <1>2, <2>1, FatesKept
<1>5. PICK G : G = {i \in 0..n : g[i].declined \in Seq(Txs)}
  OBVIOUS
<1>6. 0 \in G
  <2>1. PICK s, c, k, z : /\ z = 0 /\ s = g[z] /\ c = LoadCache(shard, db, unread)
                          /\ k = Units([a \in unread |-> db[a]])
    OBVIOUS
  <2>2. IsEmpty(s, c, k)
    BY <1>1, <2>1 DEF Runs, Begins, Start, IsEmpty
  <2>3. s.declined = << >>
    BY ONLY <2>2, EmptyFields
  <2>4. s.declined \in Seq(Txs)
    BY <2>3
  <2> QED BY <1>3, <1>5, <2>1, <2>4
<1>7. ASSUME NEW i \in 1..n, i - 1 \in G PROVE i \in G
  <2>1. PICK s, v, t : s = g[i] /\ v = g[i - 1] /\ t = shard[i]
    OBVIOUS
  <2>2. Follows(s, v, t, hs, unreadable) /\ v.declined \in Seq(Txs) /\ t \in Txs /\ i \in 0..n
    BY <1>3, <1>4, <1>5, <1>7, <2>1
  <2>3. s.declined = v.declined \/ s.declined = Append(v.declined, t)
    BY <2>2, Zenon DEF Follows, Skips, Enters, Recorded, Mints
  <2>4. s.declined \in Seq(Txs)
    BY <2>2, <2>3
  <2> QED BY <1>5, <2>1, <2>2, <2>4
<1>8. n \in 0..n /\ \A i \in 0..n : i \in G
  <2>1. \A i \in 0..n : i \in G
    BY <1>3, <1>6, <1>7, EveryPass
  <2> QED BY <1>3, <2>1
<1> QED BY <1>1, <1>2, <1>5, <1>8

\* The last entries of a log are about the transactions of a shard.
EndsWith(N, shard) ==
    /\ Len(N) \in Nat /\ Len(shard) <= Len(N)
    /\ \A j \in 1..Len(shard) : N[Len(N) - Len(shard) + j].tx = shard[j]

\* The block stored last is as it was built, but for the list of its shard, and
\* every transaction is stored as its text under its hash.
TextInv ==
    /\ \/ block = NothingStored
       \/ EmptyMade(block)
       \/ \E shard, list : Alike(shard, list) /\ EndsWith(log, shard) /\ ShardMade(block, shard, list)
    /\ \A x \in storedTxs : x.key = TxHash(x.tx) /\ x.text = serializeToJsonTransaction(x.tx)

\* What RecomputedFromStored says of a block b whose list is as it was made, or not.
Reads(b, asMade) ==
    LET unsized == [b EXCEPT !.size = 0]
        bare    == [unsized EXCEPT !.hash = NoText, !.merkleRoot = NoText, !.signP = NoText]
    IN  /\ b.hash = DoubleSha3(serializeBlock(bare)) <=> asMade
        /\ b.signP = Signature(serializeForSigning(unsized))
        /\ b.merkleRoot = generateMerkleRoot(bare).merkleRoot

\* The same with the block's fields.
LEMMA ReadsAs ==
    ASSUME NEW h, NEW p, NEW r, NEW t, NEW i, NEW z, NEW g, NEW s, NEW u,
           Sealed(h, p, r, t, i, g, u), RootOf(u) = RootOf(s),
           NEW b, b = AsBlock(h, p, r, t, i, z, g, s), NEW asMade,
           h = DoubleSha3(Hashed(p, t, i, s)) <=> asMade
    PROVE  Reads(b, asMade)
<1>1. PICK o, e, c, d : /\ o = 0 /\ e = NoText /\ c = [b EXCEPT !.size = o]
                        /\ d = [c EXCEPT !.hash = e, !.merkleRoot = e, !.signP = e]
  OBVIOUS
<1>2. c = AsBlock(h, p, r, t, i, o, g, s) /\ d = AsBlock(e, p, e, t, i, o, e, s)
  <2>1. c = AsBlock(h, p, r, t, i, o, g, s)
    BY <1>1, BlockFields
  <2>2. PICK f : f = [c EXCEPT !.hash = e]
    OBVIOUS
  <2>3. f = AsBlock(e, p, r, t, i, o, g, s)
    BY <2>1, <2>2 DEF AsBlock
  <2>4. PICK k : k = [f EXCEPT !.merkleRoot = e]
    OBVIOUS
  <2>5. k = AsBlock(e, p, e, t, i, o, g, s)
    BY <2>3, <2>4 DEF AsBlock
  <2>6. [k EXCEPT !.signP = e] = AsBlock(e, p, e, t, i, o, e, s)
    BY <2>5 DEF AsBlock
  <2>7. d = [k EXCEPT !.signP = e]
    BY <1>1, <2>2, <2>4
  <2> QED BY <2>1, <2>6, <2>7
<1>3. b.hash = h /\ b.signP = g /\ b.merkleRoot = r
  BY BlockFields
<1>4. DoubleSha3(serializeBlock(d)) = DoubleSha3(Hashed(p, t, i, s))
  BY <1>1, <1>2, Zenon DEF Hashed
<1>5. g = Signature(serializeForSigning(c))
  <2>1. g = Signature(serializeForSigning(AsBlock(h, p, r, t, i, o, e, u)))
    BY <1>1, Zenon DEF Sealed
  <2>2. serializeForSigning(AsBlock(h, p, r, t, i, o, e, u))
          = serializeForSigning(AsBlock(h, p, r, t, i, o, g, s))
    BY SignSame
  <2> QED BY <1>2, <2>1, <2>2, Zenon
<1>6. r = generateMerkleRoot(d).merkleRoot
  <2>1. generateMerkleRoot(d).merkleRoot = RootOf(s)
    BY <1>2, RootWritten
  <2>2. r = RootOf(u)
    BY Zenon DEF Sealed
  <2> QED BY <2>1, <2>2, Zenon
<1> QED BY <1>1, <1>3, <1>4, <1>5, <1>6, Zenon DEF Reads

\* The list is the one that was made.
AsMade ==
    \A i \in DOMAIN block.shardList :
        LET list == block.shardList[i].transactionList
        IN  \A j \in DOMAIN list : list[j] = log[Len(log) - Len(list) + j].tx

\* The factory's signature fits.
Fits(i) ==
    LET unsigned == UnsignedShard(block.shardList[i].transactionList)
    IN  block.shardList[i].signature
           = Signature(serializeWithoutSignatures(unsigned)) <=> AsMade

\* The three parts of the property.
LEMMA RecomputedParts ==
    ASSUME block # NothingStored => Reads(block, AsMade),
           block.index > 0 => \A i \in DOMAIN block.shardList : Fits(i),
           \A x \in storedTxs : x.key = DoubleSha3(x.text) <=> x.tx.type = "TRANSFER"
    PROVE  RecomputedFromStored
  BY Zenon DEF RecomputedFromStored, Reads, Fits, AsMade

\* A shard as the factory signs it.
LEMMA SignTells ==
    ASSUME NEW shard, NEW list, Alike(shard, list)
    PROVE  Signature(serializeWithoutSignatures(UnsignedShard(shard)))
             = Signature(serializeWithoutSignatures(UnsignedShard(list))) <=> list = shard
<1>1. PICK e, s, u : e = NoText /\ s = AsShard(e, shard, e) /\ u = AsShard(e, list, e)
  OBVIOUS
<1>2. s = UnsignedShard(shard) /\ u = UnsignedShard(list)
  BY <1>1, Zenon DEF UnsignedShard, AsShard
<1>3. IsText(e)
  BY <1>1, NoTextIs
<1>4. /\ shard \in Seq(AllTxs) /\ list \in Seq(AllTxs) /\ Len(shard) = Len(list)
      /\ Len(shard) >= 1
  BY DEF Alike
<1>5. PICK x, y : x = serializeWithoutSignatures(s) /\ y = serializeWithoutSignatures(u)
  OBVIOUS
<1>6. IsText(x) /\ IsText(y) /\ (x = y => shard = list)
  BY <1>1, <1>3, <1>4, <1>5, ShardText
<1>7. Signature(x) = Signature(y) => x = y
  BY <1>6, DigestSame
<1>8. list = shard => x = y
  BY <1>1, <1>5, Zenon
<1> QED BY <1>2, <1>5, <1>6, <1>7, <1>8, Zenon

\* The invariant implies the property.
LEMMA TextShows ==
    ASSUME TextInv
    PROVE  RecomputedFromStored
<1>1. \A x \in storedTxs : x.key = DoubleSha3(x.text) <=> x.tx.type = "TRANSFER"
  <2> TAKE x \in storedTxs
  <2>1. x.key = TxHash(x.tx) /\ x.text = serializeToJsonTransaction(x.tx)
    BY DEF TextInv
  <2>2. TxHash(x.tx) = DoubleSha3(serializeToJsonTransaction(x.tx)) <=> x.tx.type = "TRANSFER"
    BY TransferText
  <2> QED BY <2>1, <2>2, Zenon
<1>2. CASE block = NothingStored
  <2>1. ~(block.index > 0)
    BY <1>2 DEF NothingStored
  <2> QED BY <1>1, <1>2, <2>1, RecomputedParts
<1>3. CASE EmptyMade(block)
  <2>1. PICK h, p, r, t, i, g, e, o : /\ e = << >> /\ o = 0 /\ Sealed(h, p, r, t, i, g, e)
                                      /\ block = AsBlock(h, p, r, t, i, o, g, e)
    BY <1>3, Zenon DEF EmptyMade
  <2>2. block.shardList = e /\ DOMAIN e = {}
    BY <2>1, BlockFields
  <2>3. AsMade
    BY <2>2, Zenon DEF AsMade
  <2>4. h = DoubleSha3(Hashed(p, t, i, e))
    BY <2>1, Zenon DEF Sealed
  <2>5. Reads(block, AsMade)
    <3>1. PICK m : m <=> AsMade
      OBVIOUS
    <3>2. Reads(block, m)
      BY <2>1, <2>3, <2>4, <3>1, ReadsAs
    <3> QED BY <3>1, <3>2, Zenon DEF Reads
  <2>6. \A k \in DOMAIN block.shardList : Fits(k)
    BY <2>2, Zenon
  <2> QED BY <1>1, <2>5, <2>6, RecomputedParts
<1>4. ASSUME NEW shard, NEW list, Alike(shard, list), EndsWith(log, shard),
             ShardMade(block, shard, list)
      PROVE  RecomputedFromStored
  <2>0. PICK h, p, r, t, i, z, g, id, sign :
           /\ IsText(p) /\ IsText(id) /\ IsText(sign)
           /\ Sealed(h, p, r, t, i, g, <<AsShard(id, shard, sign)>>)
           /\ block = AsBlock(h, p, r, t, i, z, g, <<AsShard(id, list, sign)>>)
           /\ i = 0 \/ sign = Signature(serializeWithoutSignatures(UnsignedShard(shard)))
    BY <1>4, Zenon DEF ShardMade
  <2>1. PICK s, u :
           /\ IsText(p) /\ IsText(id) /\ IsText(sign)
           /\ s = <<AsShard(id, list, sign)>> /\ u = <<AsShard(id, shard, sign)>>
           /\ Sealed(h, p, r, t, i, g, u)
           /\ block = AsBlock(h, p, r, t, i, z, g, s)
           /\ i = 0 \/ sign = Signature(serializeWithoutSignatures(UnsignedShard(shard)))
    BY <2>0, Zenon
  <2>2. PICK x : x = AsShard(id, list, sign)
    OBVIOUS
  <2>3. block.shardList = s /\ block.index = i
    BY <2>1, BlockFields
  <2>4. DOMAIN s = {1} /\ s[1] = x
    BY <2>1, <2>2
  <2>5. x.transactionList = list /\ x.signature = sign
    BY <2>2, ShardFields
  <2>6. AsMade <=> list = shard
    <3>1. AsMade <=> \A j \in DOMAIN list : list[j] = log[Len(log) - Len(list) + j].tx
      <4>1. DOMAIN block.shardList = {1} /\ block.shardList[1].transactionList = list
        BY <2>3, <2>4, <2>5
      <4>2. PICK k : k = 1
        OBVIOUS
      <4>3. /\ k \in DOMAIN block.shardList /\ block.shardList[k].transactionList = list
            /\ \A j \in DOMAIN block.shardList : j = k
        BY <4>1, <4>2
      <4> QED BY <4>3, Zenon DEF AsMade
    <3>2. PICK n, m : n = Len(list) /\ m = Len(log)
      OBVIOUS
    <3>3. /\ n = Len(shard) /\ n \in Nat /\ DOMAIN list = 1..n /\ DOMAIN shard = 1..n
          /\ list = [j \in 1..n |-> list[j]] /\ shard = [j \in 1..n |-> shard[j]]
      BY <1>4, <3>2 DEF Alike
    <3>4. \A j \in 1..n : log[m - n + j].tx = shard[j]
      BY <1>4, <3>2, <3>3 DEF EndsWith
    <3>5. AsMade <=> \A j \in 1..n : list[j] = shard[j]
      BY <3>1, <3>2, <3>3, <3>4, Zenon
    <3>6. (\A j \in 1..n : list[j] = shard[j]) <=> list = shard
      BY <3>3, Zenon
    <3> QED BY <3>5, <3>6
  <2>7. h = DoubleSha3(Hashed(p, t, i, s)) <=> list = shard
    <3>1. h = DoubleSha3(Hashed(p, t, i, u))
      BY <2>1, Zenon DEF Sealed
    <3>2. PICK a, b : a = Hashed(p, t, i, u) /\ b = Hashed(p, t, i, s)
      OBVIOUS
    <3>3. DoubleSha3(a) = DoubleSha3(b) <=> list = shard
      <4>1. a = Hashed(p, t, i, <<AsShard(id, shard, sign)>>)
        BY <2>1, <3>2, Zenon
      <4>2. b = Hashed(p, t, i, <<AsShard(id, list, sign)>>)
        BY <2>1, <3>2, Zenon
      <4> QED BY <1>4, <2>1, <4>1, <4>2, HashTells
    <3> QED BY <3>1, <3>2, <3>3, Zenon
  <2>8. RootOf(u) = RootOf(s)
    BY <2>1, RootSame, Zenon
  <2>9. Reads(block, AsMade)
    <3>1. PICK m : m <=> AsMade
      OBVIOUS
    <3>2. h = DoubleSha3(Hashed(p, t, i, s)) <=> m
      BY <2>6, <2>7, <3>1, Zenon
    <3>3. Reads(block, m)
      BY <2>1, <2>8, <3>2, ReadsAs
    <3> QED BY <3>1, <3>3, Zenon DEF Reads
  <2>10. ASSUME block.index > 0, NEW k \in DOMAIN block.shardList PROVE Fits(k)
    <3>1. k = 1 /\ block.shardList[k] = x
      BY <2>3, <2>4
    <3>2. sign = Signature(serializeWithoutSignatures(UnsignedShard(shard)))
      <4>1. i # 0
        BY <2>3, <2>10
      <4> QED BY <2>1, <4>1, Zenon
    <3>3. Signature(serializeWithoutSignatures(UnsignedShard(shard)))
             = Signature(serializeWithoutSignatures(UnsignedShard(list))) <=> list = shard
      BY <1>4, SignTells
    <3> QED BY <2>5, <2>6, <3>1, <3>2, <3>3, Zenon DEF Fits
  <2> QED BY <1>1, <2>9, <2>10, RecomputedParts
<1> QED BY <1>2, <1>3, <1>4, Zenon DEF TextInv

\* The hash of a stored block is a text.
LEMMA HashIsText ==
    ASSUME TextInv, block # NothingStored
    PROVE  IsText(block.hash)
<1>1. CASE EmptyMade(block)
  <2>1. PICK h, p, r, t, i, g, e, o : /\ e = << >> /\ o = 0 /\ IsText(p) /\ Sealed(h, p, r, t, i, g, e)
                                      /\ block = AsBlock(h, p, r, t, i, o, g, e)
    BY <1>1, Zenon DEF EmptyMade
  <2>2. block.hash = h
    BY <2>1, BlockFields
  <2>3. PICK head : HeadOf(head, p, t, i)
    BY <2>1, BlockText
  <2>4. Hashed(p, t, i, e) = head \o NoText
    <3>1. Hashed(p, t, i, e) = head \o FlattenSeq([j \in DOMAIN e |-> serializeShard(e[j])])
      BY <2>3, Zenon DEF HeadOf
    <3>2. \A s : FlattenSeq([j \in DOMAIN << >> |-> serializeShard(<< >>[j])]) = NoText
      BY ShardsText, Zenon
    <3> QED BY <2>1, <3>1, <3>2, Zenon
  <2>5. IsText(Hashed(p, t, i, e))
    <3>1. IsText(head) /\ IsText(NoText)
      BY <2>3, NoTextIs DEF HeadOf
    <3> QED BY <2>4, <3>1, TextsJoin
  <2>6. h = DoubleSha3(Hashed(p, t, i, e))
    BY <2>1, Zenon DEF Sealed
  <2> QED BY <2>2, <2>5, <2>6, DigestIs
<1>2. ASSUME NEW shard, NEW list, Alike(shard, list), ShardMade(block, shard, list)
      PROVE  IsText(block.hash)
  <2>1. PICK h, p, r, t, i, z, g, id, sign :
           /\ IsText(p) /\ IsText(id) /\ IsText(sign)
           /\ Sealed(h, p, r, t, i, g, <<AsShard(id, shard, sign)>>)
           /\ block = AsBlock(h, p, r, t, i, z, g, <<AsShard(id, list, sign)>>)
           /\ i = 0 \/ sign = Signature(serializeWithoutSignatures(UnsignedShard(shard)))
    BY <1>2, Zenon DEF ShardMade
  <2>2. block.hash = h
    BY <2>1, BlockFields
  <2>3. PICK x, y : /\ x = Hashed(p, t, i, <<AsShard(id, shard, sign)>>)
                    /\ y = Hashed(p, t, i, <<AsShard(id, list, sign)>>)
    OBVIOUS
  <2>4. IsText(DoubleSha3(x))
    BY <1>2, <2>1, <2>3, HashTells
  <2>5. h = DoubleSha3(x)
    BY <2>1, <2>3, Zenon DEF Sealed
  <2> QED BY <2>2, <2>4, <2>5
<1> QED BY <1>1, <1>2, Zenon DEF TextInv

\* Every stored transaction is stored as its text, under its hash.
AllAsText(texts) ==
    \A x \in texts : x.key = TxHash(x.tx) /\ x.text = serializeToJsonTransaction(x.tx)

\* What the commits of a block leave of texts.
LEMMA StoreTexts ==
    ASSUME LogInv, NEW shard, shard \in Seq(ToSet(shard)), NEW b, NEW st, NEW unread,
           NEW unreadable, Store(b, shard, st, unread, unreadable)
    PROVE  /\ EndsWith(log', shard)
           /\ AllAsText(storedTxs) => AllAsText(storedTxs')
           /\ \E z : block' = [b EXCEPT !.size = z]
<1>1. PICK N, n, k : N = log' /\ n = Len(log) /\ k = Len(shard)
  OBVIOUS
<1>2. n \in Nat /\ k \in Nat /\ log \in Seq(ToSet(log))
  BY <1>1 DEF LogInv
<1>3. /\ Len(N) = n + k
      /\ \A i \in 1..k : Tells(N, n + i, b.time, i, shard, st, unreadable, unread)
  BY <1>1, <1>2, StoreLogs
<1>4. EndsWith(N, shard)
  <2>1. Len(N) \in Nat /\ k <= Len(N) /\ Len(N) - k = n
    BY <1>2, <1>3
  <2>2. \A j \in 1..k : N[n + j].tx = shard[j]
    BY <1>3, Zenon DEF Tells
  <2> QED BY <1>1, <2>1, <2>2 DEF EndsWith
<1>5. PICK kept, texts :
         /\ texts = {[key |-> TxHash(shard[i]), text |-> serializeToJsonTransaction(shard[i]),
                      tx |-> shard[i]] : i \in kept}
         /\ storedTxs' = storedTxs \cup texts
  BY Zenon DEF Store
<1>6. AllAsText(texts)
  <2>1. ASSUME NEW x \in texts
        PROVE  x.key = TxHash(x.tx) /\ x.text = serializeToJsonTransaction(x.tx)
    <3>1. PICK i \in kept : x = [key |-> TxHash(shard[i]), tx |-> shard[i],
                                 text |-> serializeToJsonTransaction(shard[i])]
      BY <1>5, <2>1
    <3>2. PICK t : t = shard[i]
      OBVIOUS
    <3>3. x.key = TxHash(t) /\ x.text = serializeToJsonTransaction(t) /\ x.tx = t
      BY <3>1, <3>2
    <3> QED BY <3>3, Zenon
  <2> QED BY <2>1 DEF AllAsText
<1>7. AllAsText(storedTxs) => AllAsText(storedTxs')
  BY <1>5, <1>6 DEF AllAsText
<1>8. \E z : block' = [b EXCEPT !.size = z]
  BY Zenon DEF Store
<1> QED BY <1>1, <1>4, <1>7, <1>8, Zenon

\* The factory's shard.
LEMMA SignedIs ==
    ASSUME NEW shard, Alike(shard, shard)
    PROVE  \E id, sign : /\ IsText(id) /\ IsText(sign)
                         /\ SignedShard(shard) = AsShard(id, shard, sign)
                         /\ sign = Signature(serializeWithoutSignatures(UnsignedShard(shard)))
<1>1. PICK e, u, w : e = NoText /\ u = AsShard(e, shard, e) /\ w = <<"prover">>
  OBVIOUS
<1>2. u = UnsignedShard(shard)
  BY <1>1, Zenon DEF UnsignedShard, AsShard
<1>3. PICK id, x, sign : /\ id = DoubleSha3(w) /\ x = serializeWithoutSignatures(u)
                         /\ sign = Signature(x)
  OBVIOUS
<1>4. IsText(id)
  BY <1>1, <1>3, OneToken, DigestIs
<1>5. IsText(sign)
  <2>1. shard \in Seq(AllTxs) /\ Len(shard) >= 1
    BY DEF Alike
  <2>2. IsText(e)
    BY <1>1, NoTextIs
  <2>3. IsText(x)
    BY <1>1, <1>3, <2>1, <2>2, ShardText
  <2> QED BY <1>3, <2>3, DigestIs
<1>6. SignedShard(shard) = [u EXCEPT !.shardID = id, !.signature = sign]
  <2>1. SignedShard(shard)
          = [UnsignedShard(shard) EXCEPT !.shardID = DoubleSha3(<<"prover">>),
                !.signature = Signature(serializeWithoutSignatures(UnsignedShard(shard)))]
    BY Zenon DEF SignedShard
  <2> QED BY <1>1, <1>2, <1>3, <2>1, Zenon
<1>7. PICK v : v = [u EXCEPT !.shardID = id]
  OBVIOUS
<1>8. v = AsShard(id, shard, e)
  BY <1>1, <1>7 DEF AsShard
<1>9. [v EXCEPT !.signature = sign] = AsShard(id, shard, sign)
  BY <1>8 DEF AsShard
<1>10. SignedShard(shard) = [v EXCEPT !.signature = sign]
  BY <1>6, <1>7
<1> QED BY <1>2, <1>3, <1>4, <1>5, <1>9, <1>10, Zenon

\* A block without a shard.
LEMMA EmptyIsMade ==
    ASSUME NEW p, IsText(p), NEW t, NEW i
    PROVE  EmptyMade(Built(p, t, i, << >>))
<1>1. PICK e : e = << >>
  OBVIOUS
<1>2. PICK h, r, g :
         /\ Built(p, t, i, e) = AsBlock(h, p, r, t, i, 0, g, e)
         /\ h = DoubleSha3(serializeBlock(AsBlock(NoText, p, NoText, t, i, 0, NoText, e)))
         /\ r = RootOf(e)
         /\ g = Signature(serializeForSigning(AsBlock(h, p, r, t, i, 0, NoText, e)))
  BY BuiltFields, Zenon
<1>3. Sealed(h, p, r, t, i, g, e)
  BY <1>2, Zenon DEF Sealed, Hashed
<1> QED BY <1>1, <1>2, <1>3, Zenon DEF EmptyMade

\* A block with a shard, once its list was shortened and its size set.
LEMMA ShardIsMade ==
    ASSUME NEW p, IsText(p), NEW t, NEW i, NEW id, IsText(id), NEW sign, IsText(sign),
           NEW shard, NEW list,
           i = 0 \/ sign = Signature(serializeWithoutSignatures(UnsignedShard(shard))),
           NEW s, s = AsShard(id, shard, sign), NEW b, b = Built(p, t, i, <<s>>),
           NEW c, c = [b EXCEPT !.shardList[1].transactionList = list],
           NEW z, NEW d, d = [c EXCEPT !.size = z]
    PROVE  ShardMade(d, shard, list)
<1>1. PICK o, ss, y, u : /\ o = 0 /\ ss = <<s>> /\ y = AsShard(id, list, sign) /\ u = <<y>>
  OBVIOUS
<1>2. PICK h, r, g :
         /\ Built(p, t, i, ss) = AsBlock(h, p, r, t, i, 0, g, ss)
         /\ h = DoubleSha3(serializeBlock(AsBlock(NoText, p, NoText, t, i, 0, NoText, ss)))
         /\ r = RootOf(ss)
         /\ g = Signature(serializeForSigning(AsBlock(h, p, r, t, i, 0, NoText, ss)))
  BY BuiltFields, Zenon
<1>3. Sealed(h, p, r, t, i, g, ss)
  BY <1>2, Zenon DEF Sealed, Hashed
<1>4. b = AsBlock(h, p, r, t, i, o, g, ss)
  BY <1>1, <1>2, Zenon
<1>5. b.shardList = ss
  BY <1>4, BlockFields
<1>6. [s EXCEPT !.transactionList = list] = y
  BY <1>1 DEF AsShard
<1>7. [ss EXCEPT ![1] = y] = u /\ ss[1] = s
  BY <1>1
<1>8. c = [b EXCEPT !.shardList = u]
  <2>1. PICK w : w = [ss EXCEPT ![1] = y]
    OBVIOUS
  <2>2. c = [b EXCEPT !.shardList = w]
    BY <1>5, <1>6, <1>7, <2>1
  <2> QED BY <1>7, <2>1, <2>2
<1>9. c = AsBlock(h, p, r, t, i, o, g, u)
  <2>1. [b EXCEPT !.shardList = u] = AsBlock(h, p, r, t, i, o, g, u)
    BY <1>4 DEF AsBlock
  <2> QED BY <1>8, <2>1
<1>10. d = AsBlock(h, p, r, t, i, z, g, u)
  <2>1. \A x, k : x = AsBlock(h, p, r, t, i, o, g, u) => [x EXCEPT !.size = k] = AsBlock(h, p, r, t, i, k, g, u)
    BY BlockFields
  <2>2. PICK k : k = [c EXCEPT !.size = z]
    OBVIOUS
  <2>3. k = AsBlock(h, p, r, t, i, z, g, u)
    BY <1>9, <2>1, <2>2
  <2>4. d = k
    BY <2>2
  <2> QED BY <2>3, <2>4
<1>11. /\ Sealed(h, p, r, t, i, g, <<AsShard(id, shard, sign)>>)
       /\ d = AsBlock(h, p, r, t, i, z, g, <<AsShard(id, list, sign)>>)
  BY <1>1, <1>3, <1>10, Zenon
<1> QED BY <1>11, Zenon DEF ShardMade

\* The genesis block, whose shard has neither id nor signature, once its size is set.
LEMMA GenesisIsMade ==
    ASSUME NEW shard, NEW b, b = Built(<<"genesis">>, 1, 0, <<UnsignedShard(shard)>>),
           NEW z, NEW d, d = [b EXCEPT !.size = z]
    PROVE  ShardMade(d, shard, shard)
<1>1. PICK o, e, p, t, u, ss : /\ o = 0 /\ e = NoText /\ p = <<"genesis">> /\ t = 1
                               /\ u = AsShard(e, shard, e) /\ ss = <<u>>
  OBVIOUS
<1>2. u = UnsignedShard(shard)
  BY <1>1, Zenon DEF UnsignedShard, AsShard
<1>3. PICK h, r, g :
         /\ Built(p, t, o, ss) = AsBlock(h, p, r, t, o, 0, g, ss)
         /\ h = DoubleSha3(serializeBlock(AsBlock(NoText, p, NoText, t, o, 0, NoText, ss)))
         /\ r = RootOf(ss)
         /\ g = Signature(serializeForSigning(AsBlock(h, p, r, t, o, 0, NoText, ss)))
  BY BuiltFields, Zenon
<1>4. Sealed(h, p, r, t, o, g, ss)
  BY <1>3, Zenon DEF Sealed, Hashed
<1>5. b = AsBlock(h, p, r, t, o, o, g, ss)
  BY <1>1, <1>2, <1>3, Zenon
<1>6. d = AsBlock(h, p, r, t, o, z, g, ss)
  <2>1. \A x, k : x = AsBlock(h, p, r, t, o, o, g, ss)
                     => [x EXCEPT !.size = k] = AsBlock(h, p, r, t, o, k, g, ss)
    BY BlockFields
  <2>2. PICK k : k = [b EXCEPT !.size = z]
    OBVIOUS
  <2>3. k = AsBlock(h, p, r, t, o, z, g, ss)
    BY <1>5, <2>1, <2>2
  <2> QED BY <2>2, <2>3
<1>7. IsText(e) /\ IsText(p)
  BY <1>1, NoTextIs, OneToken
<1>8. /\ Sealed(h, p, r, t, o, g, <<AsShard(e, shard, e)>>)
      /\ d = AsBlock(h, p, r, t, o, z, g, <<AsShard(e, shard, e)>>)
  BY <1>1, <1>4, <1>6, Zenon
<1> QED BY <1>1, <1>7, <1>8, Zenon DEF ShardMade

\* A block stored with its shard keeps the texts.
LEMMA ShardTextsStored ==
    ASSUME LogInv, TextInv, NEW shard, shard \in Seq(ToSet(shard)), NEW list, Alike(shard, list),
           NEW b, NEW st, NEW unread, NEW unreadable, Store(b, shard, st, unread, unreadable),
           \A z, d : d = [b EXCEPT !.size = z] => ShardMade(d, shard, list)
    PROVE  TextInv'
<1>1. EndsWith(log', shard) /\ (AllAsText(storedTxs) => AllAsText(storedTxs'))
  BY StoreTexts
<1>2. PICK z : block' = [b EXCEPT !.size = z]
  BY StoreTexts
<1>3. ShardMade(block', shard, list)
  BY <1>2
<1>4. AllAsText(storedTxs')
  BY <1>1, Zenon DEF TextInv, AllAsText
<1> QED BY <1>1, <1>3, <1>4, Zenon DEF TextInv, AllAsText

\* A block with a shard keeps the texts.
LEMMA ShardTextStep ==
    ASSUME RecordsInv, TextInv, NEW shard \in NextShards, NextBlock(shard)
    PROVE  TextInv'
<1>1. LogInv /\ HasWallets(users) /\ IsShard(shard)
  BY NextShard DEF RecordsInv, BooksInv
<1>2. CASE UNCHANGED <<users, histories, storedTxs, block, log>>
  BY <1>2 DEF TextInv
<1>3. ASSUME NEW b, NEW st, NEW unread, NEW unreadable,
             Writes(b, shard, st, unread, unreadable)
      PROVE  TextInv'
  <2>1. /\ Ends(st, shard, unread, users, histories, unreadable)
        /\ ~st.thrown /\ Store(b, shard, st, unread, unreadable)
    BY <1>3, Zenon DEF Writes
  <2>2. PICK list, t, s : /\ list = Listed(shard, st.declined) /\ t = block.time + 1
                          /\ s = SignedShard(shard)
    OBVIOUS
  <2>3. PICK p, i : /\ p = block.hash
                    /\ b = [Built(p, t, i, <<s>>) EXCEPT !.shardList[1].transactionList = list]
    BY <1>3, <2>2, Zenon DEF Writes
  <2>4. PICK v : v = Built(p, t, i, <<s>>)
    OBVIOUS
  <2>5. st.declined \in Seq(Txs)
    BY <1>1, <2>1, DeclinedIsList
  <2>6. /\ shard \in Seq(ToSet(shard)) /\ shard \in Seq(AllTxs) /\ Len(shard) >= 1
    <3>1. shard \in Seq(Txs) /\ Len(shard) >= 1
      BY <1>1 DEF IsShard
    <3> QED BY <3>1 DEF ToSet, AllTxs
  <2>7. list \in Seq(AllTxs) /\ Len(list) = Len(shard)
    BY <2>2, <2>5, <2>6, ListedKeeps
  <2>8. Alike(shard, list) /\ Alike(shard, shard)
    BY <2>6, <2>7 DEF Alike
  <2>9. IsText(p)
    <3>1. block # NothingStored
      BY DEF NextBlock
    <3> QED BY <2>3, <3>1, HashIsText
  <2>10. PICK id, sign : /\ IsText(id) /\ IsText(sign)
                         /\ SignedShard(shard) = AsShard(id, shard, sign)
                         /\ sign = Signature(serializeWithoutSignatures(UnsignedShard(shard)))
    BY <2>8, SignedIs
  <2>11. s = AsShard(id, shard, sign)
    BY <2>2, <2>10, Zenon
  <2>12. ASSUME NEW z, NEW d, d = [b EXCEPT !.size = z] PROVE ShardMade(d, shard, list)
    <3>1. b = [v EXCEPT !.shardList[1].transactionList = list]
      BY <2>3, <2>4, Zenon
    <3>2. i = 0 \/ sign = Signature(serializeWithoutSignatures(UnsignedShard(shard)))
      BY <2>10, Zenon
    <3>3. IsText(id) /\ IsText(sign)
      BY <2>10, Zenon
    <3> QED BY <2>4, <2>9, <2>11, <2>12, <3>1, <3>2, <3>3, ShardIsMade
  <2> QED BY <1>1, <2>1, <2>6, <2>8, <2>12, ShardTextsStored
<1> QED BY <1>2, <1>3, NextBlockWrites

\* Every block keeps the texts.
LEMMA TextStep == RecordsInv /\ TextInv /\ [RecordsNext]_records => TextInv'
<1> SUFFICES ASSUME RecordsInv, TextInv, [RecordsNext]_records PROVE TextInv'
  OBVIOUS
<1>0. LogInv
  BY DEF RecordsInv
<1>1. CASE Genesis
  <2>1. PICK shard, b, st, none :
           /\ shard = <<GenesisTx>> /\ none = {} /\ st = ProcessGenesis(GenesisTx)
           /\ b = Built(<<"genesis">>, 1, 0, <<UnsignedShard(shard)>>)
           /\ Store(b, shard, st, none, none)
    BY <1>1, Zenon DEF Genesis
  <2>2. shard \in Seq(ToSet(shard)) /\ shard \in Seq(AllTxs) /\ Len(shard) >= 1
    <3>1. PICK x : x = GenesisTx
      OBVIOUS
    <3>2. x \in AllTxs
      BY <3>1, Zenon DEF AllTxs
    <3>3. shard = <<x>>
      BY <2>1, <3>1, Zenon
    <3> QED BY <3>2, <3>3 DEF ToSet
  <2>3. Alike(shard, shard)
    BY <2>2 DEF Alike
  <2>4. \A z, d : d = [b EXCEPT !.size = z] => ShardMade(d, shard, shard)
    BY <2>1, GenesisIsMade
  <2>5. Store(b, shard, st, none, none)
    BY <2>1, Zenon
  <2> QED BY <1>0, <2>2, <2>3, <2>4, <2>5, ShardTextsStored
<1>2. ASSUME NEW shard \in NextShards, NextBlock(shard) PROVE TextInv'
  BY <1>2, ShardTextStep
<1>3. CASE EmptyBlock
  <2>1. /\ block # NothingStored /\ UNCHANGED <<users, histories, storedTxs, accepted, log>>
        /\ \E i : block' = Built(block.hash, block.time + 1, i, << >>)
    BY <1>3, Zenon DEF EmptyBlock
  <2>2. PICK p, t, i : p = block.hash /\ t = block.time + 1 /\ block' = Built(p, t, i, << >>)
    BY <2>1, Zenon
  <2>3. IsText(p)
    BY <2>1, <2>2, HashIsText
  <2>4. EmptyMade(block')
    <3>1. EmptyMade(Built(p, t, i, << >>))
      BY <2>3, EmptyIsMade
    <3> QED BY <2>2, <3>1, Zenon
  <2>5. storedTxs' = storedTxs
    BY <2>1
  <2> QED BY <2>4, <2>5, Zenon DEF TextInv
<1>4. CASE UNCHANGED records
  BY <1>4 DEF TextInv, records
<1> QED BY <1>1, <1>2, <1>3, <1>4 DEF RecordsNext

\* Whoever reads the stored block computes its hash and the factory's signature
\* again unless the declined transactions changed its list, and its root and the
\* prover's signature always; a stored transaction's text has the digest it is
\* stored under if and only if it is a TRANSFER (RecomputedFromStored).
THEOREM ProofsAreRecomputed == RecordsSpec => []RecomputedFromStored
<1>1. RecordsInit => TextInv
  BY DEF RecordsInit, TextInv
<1>2. RecordsInv /\ TextInv /\ [RecordsNext]_records => TextInv'
  BY TextStep
<1>3. TextInv => RecomputedFromStored
  BY TextShows
<1> QED BY <1>1, <1>2, <1>3, RecordsInvariant, PTL DEF RecordsSpec
=============================================================================
