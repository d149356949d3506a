----------------------------- MODULE Blockchain -----------------------------
(***************************************************************************)
(* Blockchain::start: the thread that builds one block after another from  *)
(* the shards of shardList and writes its results to five databases with   *)
(* five separate commits.  The process can die between any two of them and *)
(* is then started again; a commit or a read can fail, and the thread      *)
(* ignores what commit returns.                                            *)
(*                                                                         *)
(* The hash of a block is the number of its creation: it covers the time   *)
(* in nanoseconds and the parent's hash.                                   *)
(***************************************************************************)
EXTENDS TransactionProcessor, Functions

CONSTANTS
    Shards,     \* the shards shardFactory may put on the list
    Residues,   \* balances that memory used after its deletion may hold
    MaxWaiting, \* bound: shards on shardList
    MaxBlocks,  \* bound: blocks built
    MaxCrashes, \* bound: times the process dies
    MaxFaults   \* bound: reads and commits that fail

ASSUME BoundsAssumption ==
    /\ MaxWaiting \in Nat
    /\ MaxBlocks \in Nat
    /\ MaxCrashes \in Nat
    /\ MaxFaults \in Nat

ASSUME ShardsAssumption ==
    \A s \in Shards :
        /\ s \in Seq(ToSet(s))
        /\ \A t \in ToSet(s) :
              /\ {t.from, t.to} \subseteq Accounts
              /\ t.amount \in 0..UintSize - 1
              /\ t.type \in Types

ASSUME ResiduesAssumption == Residues \subseteq 0..UintSize - 1

NoHash  == 0    \* the previousHash "genesis"
NoBlock == [hash |-> NoHash, parent |-> NoHash, index |-> 0, shards |-> << >>]

VARIABLES
    shardList,  \* shared with shardFactory
    \* the block thread
    bpc,        \* its next step; "down" while the process does not run
    previous,   \* *previousBlock, NoBlock for the null pointer
    current,    \* *currentBlock
    batch,      \* the batches of the block under way
    hashes,     \* number of blocks hashed so far
    \* the databases
    userDB, historyDB, tokenDB, txDB,
    blockDB,    \* the blocks stored under their hash
    currentKey, \* the block stored under the key "current"
    \* failures
    crashes, faults,
    \* history, read by properties only
    unsaved,    \* hashes of the blocks whose commit failed
    reborn,     \* a genesis block was built over wallets that had moved on, or
                \* with a second shard
    minted,     \* units made by transfers that nobody paid
    lost        \* units lost with wallets that could not be read, or in overflows

memory   == <<shardList, bpc, previous, current, batch>>
disk     == <<userDB, historyDB, tokenDB, txDB, blockDB, currentKey>>
failures == <<crashes, faults>>
ghosts   == <<unsaved, reborn, minted, lost>>
vars == <<memory, hashes, disk, failures, ghosts>>

Steps == {"boot", "build", "pop", "process", "tokens", "history", "users",
          "block", "txs", "down"}

NoBatch == Empty(<< >>)

Init ==
    /\ shardList = << >>
    /\ bpc = "boot"
    /\ previous = NoBlock
    /\ current = NoBlock
    /\ batch = NoBatch
    /\ hashes = 0
    /\ userDB = << >>
    /\ historyDB = << >>
    /\ tokenDB = {}
    /\ txDB = {}
    /\ blockDB = {}
    /\ currentKey = NoBlock
    /\ crashes = 0
    /\ faults = 0
    /\ unsaved = {}
    /\ reborn = FALSE
    /\ minted = 0
    /\ lost = 0

\* Whether an operation on a database succeeds.
Works(ok) ==
    \/ ok /\ faults' = faults
    \/ ~ok /\ faults < MaxFaults /\ faults' = faults + 1

-----------------------------------------------------------------------------
(* The other threads *)

\* The RPC filter lets a transaction in when its sender has a wallet, which for
\* a transfer can pay for it alone, and no transfer of tokens; of an unknown
\* type it asks no more (see RpcServer).  It does not notice a transaction it has
\* let in before.  shardFactory puts it on the list with others.
Acceptable(t) ==
    /\ t.from \in DOMAIN userDB
    /\ t.type # "TRANSFER_TOKENS"
    /\ t.type = "TRANSFER" => t.amount <= userDB[t.from].balance

EmplaceShard(s) ==
    /\ bpc # "down"
    /\ Len(shardList) < MaxWaiting
    /\ \A t \in ToSet(s) : Acceptable(t)
    /\ shardList' = Append(shardList, s)
    /\ UNCHANGED <<bpc, previous, current, batch, hashes, disk, failures, ghosts>>

-----------------------------------------------------------------------------
(* Building a block *)

FrontShard == IF shardList = << >> THEN << >> ELSE <<Head(shardList)>>

\* BlockBuilder, from setBlock to build.
Build(parent, index, shards) ==
    /\ hashes < MaxBlocks
    /\ hashes' = hashes + 1
    /\ current' = [hash |-> hashes + 1, parent |-> parent, index |-> index,
                   shards |-> shards]

\* previousBlock is set: the block takes the front shard and the next index.
BuildNext ==
    /\ bpc = "build"
    /\ Build(previous.hash, previous.index + 1, FrontShard)
    /\ bpc' = IF shardList = << >> THEN "process" ELSE "pop"
    /\ UNCHANGED <<shardList, previous, batch, disk, failures, ghosts>>

PopShard ==
    /\ bpc = "pop"
    /\ shardList' = SubSeq(shardList, 1, Len(shardList) - 1)
    /\ bpc' = "process"
    /\ UNCHANGED <<previous, current, batch, hashes, disk,
                   failures, ghosts>>

\* First block of this process, and the block stored as "current" can be read:
\* the new block is its child, has the same index and takes no shard.
BuildResume ==
    /\ bpc = "boot"
    /\ currentKey # NoBlock
    /\ Build(currentKey.hash, currentKey.index, << >>)
    /\ bpc' = "process"
    /\ UNCHANGED <<shardList, previous, batch, disk, failures, ghosts>>

\* More is stored of the wallets than a genesis block leaves.
MovedOn == (\E a \in DOMAIN userDB : a # Root) \/ minted # 0 \/ lost # 0

\* First block of this process, and reading "current" throws, because there is
\* none or because the database cannot be read: a genesis block.
BuildGenesis ==
    /\ bpc = "boot"
    /\ Works(currentKey = NoBlock)
    /\ Build(NoHash, 0, <<  <<GenesisTx>>  >> \o FrontShard)
    /\ bpc' = "process"
    /\ reborn' = (reborn \/ MovedOn \/ shardList # << >>)
    /\ UNCHANGED <<shardList, previous, batch, disk, crashes,
                   unsaved, minted, lost>>

-----------------------------------------------------------------------------
(* txThread: setTxBatch, which the block thread joins *)

CreatesTokens(block) ==
    \E i \in DOMAIN block.shards :
        \E t \in ToSet(block.shards[i]) : t.type = "CREATE_TOKENS"

\* No shard: setTxBatch returns at once.
ProcessNothing ==
    /\ bpc = "process"
    /\ current.shards = << >>
    /\ batch' = NoBatch
    /\ bpc' = "block"
    /\ UNCHANGED <<shardList, previous, current, hashes, disk,
                   failures, ghosts>>

\* The genesis shard alone, at index 0.
ProcessFirst ==
    /\ bpc = "process"
    /\ Len(current.shards) = 1 /\ current.index = 0
    /\ batch' = ProcessGenesis(GenesisTx)
    /\ bpc' = "history"
    /\ UNCHANGED <<shardList, previous, current, hashes, disk,
                   failures, ghosts>>

\* A genesis block with a second shard, whose wallets are used and deleted after
\* the first one deleted them, and the process survives.
ProcessBoth ==
    /\ bpc = "process"
    /\ Len(current.shards) = 2
    /\ \A t \in ToSet(current.shards[2]) : t.type \in {"TRANSFER", "OTHER"}
    /\ \E residue \in Residues : batch' = ProcessSecond(current.shards[2], residue)
    /\ bpc' = "history"
    /\ UNCHANGED <<shardList, previous, current, hashes, disk, failures,
                   ghosts>>

\* One shard.  The read of all the wallets may fail, or of some, and so may the
\* read of the history for some of its transfers.
Process ==
    /\ bpc = "process"
    /\ Len(current.shards) = 1 /\ current.index # 0
    /\ LET shard == current.shards[1]
       IN  \E loaded \in BOOLEAN, unreadable \in SUBSET DOMAIN shard,
              unread \in SUBSET (Parties(shard) \cap DOMAIN userDB) :
              LET st == ProcessShard(shard, loaded, unread, userDB, historyDB, unreadable)
                  failed == Cardinality(unreadable) + Cardinality(unread)
                                + (IF loaded THEN 0 ELSE 1)
              IN  /\ ~st.thrown
                  /\ faults + failed <= MaxFaults
                  /\ faults' = faults + failed
                  /\ batch' = st
                  /\ current' = [current EXCEPT !.shards[1] = Listed(shard, st.declined)]
    /\ bpc' = IF CreatesTokens(current) THEN "tokens" ELSE "history"
    /\ UNCHANGED <<shardList, previous, hashes, disk, crashes, ghosts>>

-----------------------------------------------------------------------------
(* The commits, in their order; what commit returns is ignored *)

CommitTokens ==
    /\ bpc = "tokens"
    /\ \E ok \in BOOLEAN :
          /\ Works(ok)
          /\ tokenDB' = IF ok THEN tokenDB \cup batch.tokens ELSE tokenDB
    /\ bpc' = "history"
    /\ UNCHANGED <<shardList, previous, current, batch, hashes,
                   userDB, historyDB, txDB, blockDB, currentKey, crashes, ghosts>>

CommitHistory ==
    /\ bpc = "history"
    /\ \E ok \in BOOLEAN :
          /\ Works(ok)
          /\ historyDB' = IF ok THEN Put(batch.history, historyDB) ELSE historyDB
    /\ bpc' = "users"
    /\ UNCHANGED <<shardList, previous, current, batch, hashes,
                   userDB, tokenDB, txDB, blockDB, currentKey, crashes, ghosts>>

CommitUsers ==
    /\ bpc = "users"
    /\ \E ok \in BOOLEAN :
          /\ Works(ok)
          /\ userDB' = IF ok THEN Put(UserBatch(batch), userDB) ELSE userDB
          /\ minted' = IF ok THEN minted + batch.minted ELSE minted
          /\ lost' = IF ok THEN lost + batch.lost ELSE lost
    /\ bpc' = "block"
    /\ UNCHANGED <<shardList, previous, current, batch, hashes,
                   historyDB, tokenDB, txDB, blockDB, currentKey, crashes, unsaved,
                   reborn>>

CommitBlockAs(stored, key) ==
    /\ bpc = "block"
    /\ blockDB' = stored
    /\ currentKey' = key
    /\ bpc' = "txs"
    /\ UNCHANGED <<shardList, previous, current, batch, hashes, userDB,
                   historyDB, tokenDB, txDB, failures, ghosts>>

\* Mutants: "current" lags one block behind; empty blocks are not stored.
CommitBlockStaleKey == CommitBlockAs(blockDB \cup {current}, previous)
CommitBlockSkipsEmpty ==
    CommitBlockAs(IF current.shards = << >> THEN blockDB ELSE blockDB \cup {current},
                  current)

\* The block under its hash and under "current" in one batch; then the block is
\* queued for the explorers (see ExplorerFeed).
CommitBlock ==
    /\ bpc = "block"
    /\ \E ok \in BOOLEAN :
          /\ Works(ok)
          /\ blockDB' = IF ok THEN blockDB \cup {current} ELSE blockDB
          /\ currentKey' = IF ok THEN current ELSE currentKey
          /\ unsaved' = IF ok THEN unsaved ELSE unsaved \cup {current.hash}
    /\ bpc' = "txs"
    /\ UNCHANGED <<shardList, previous, current, batch, hashes, userDB,
                   historyDB, tokenDB, txDB, crashes, reborn, minted, lost>>

\* if (txBatch->HasPut()) commit; then the block becomes the previous one.
CommitTxs ==
    /\ bpc = "txs"
    /\ \E ok \in BOOLEAN :
          /\ IF batch.txs = {} THEN ok /\ faults' = faults ELSE Works(ok)
          /\ txDB' = IF ok THEN txDB \cup batch.txs ELSE txDB
    /\ previous' = current
    /\ current' = NoBlock
    /\ batch' = NoBatch
    /\ bpc' = "build"
    /\ UNCHANGED <<shardList, hashes, userDB, historyDB, tokenDB,
                   blockDB, currentKey, crashes, ghosts>>

-----------------------------------------------------------------------------
(* The process dies and is started again: the memory is gone *)

Dies ==
    /\ bpc' = "down"
    /\ shardList' = << >>
    /\ previous' = NoBlock
    /\ current' = NoBlock
    /\ batch' = NoBatch
    /\ UNCHANGED <<hashes, disk, ghosts>>

\* For any reason, at any moment.  A start whose uninitialized previousBlock or
\* currentBlock is not null dies at the first use of the pointer.
Crash ==
    /\ bpc # "down"
    /\ crashes < MaxCrashes
    /\ crashes' = crashes + 1
    /\ faults' = faults
    /\ Dies

\* setTxBatch itself ends the process: an exception leaves txThread; or the
\* user database is corrupt (exit(2)); or the genesis block has a second shard,
\* whose wallets are used and deleted after the first one deleted them, or whose
\* tokens need the sender's wallet, a null pointer.
ProcessDies ==
    /\ bpc = "process"
    /\ current.shards # << >>
    /\ \/ Len(current.shards) = 2 /\ faults' = faults
       \/ faults < MaxFaults /\ faults' = faults + 1
       \/ /\ current.index # 0
          /\ ProcessShard(current.shards[1], TRUE, {}, userDB, historyDB, {}).thrown
          /\ faults' = faults
    /\ crashes' = crashes
    /\ Dies

Restart ==
    /\ bpc = "down"
    /\ bpc' = "boot"
    /\ UNCHANGED <<shardList, previous, current, batch, hashes,
                   disk, failures, ghosts>>

Next ==
    \/ \E s \in Shards : EmplaceShard(s)
    \/ BuildNext \/ PopShard \/ BuildResume \/ BuildGenesis
    \/ ProcessNothing \/ ProcessFirst \/ ProcessBoth \/ Process
    \/ CommitTokens \/ CommitHistory \/ CommitUsers \/ CommitBlock \/ CommitTxs
    \/ Crash \/ ProcessDies \/ Restart

Spec == Init /\ [][Next]_vars
-----------------------------------------------------------------------------
(* Properties *)

Block == [hash : 0..MaxBlocks, parent : 0..MaxBlocks, index : Nat,
          shards : Seq(Seq(UNION {ToSet(s) : s \in Shards} \cup {GenesisTx}))]

TxIds == {GenesisId} \cup UNION {{t.id : t \in ToSet(s)} : s \in Shards}
History == [out : Seq(TxIds), in : Seq(TxIds)]

TypeOK ==
    /\ shardList \in Seq(Shards)
    /\ bpc \in Steps
    /\ previous \in Block
    /\ current \in Block
    /\ hashes \in 0..MaxBlocks
    /\ blockDB \in SUBSET Block
    /\ currentKey \in Block
    /\ DOMAIN userDB \subseteq Accounts
    /\ \A a \in DOMAIN userDB : userDB[a].balance \in Nat
    /\ DOMAIN historyDB \subseteq Accounts
    /\ \A a \in DOMAIN historyDB : historyDB[a] \in History
    /\ txDB \subseteq TxIds
    /\ crashes \in 0..MaxCrashes
    /\ faults \in 0..MaxFaults

\* The units in the wallets of the user database are accounted for: they are
\* those the genesis block made (none before it), and those minted by transfers
\* of an unknown type, which take nothing from a sender that cannot pay, less
\* those lost with wallets that could not be read and in the overflow of a
\* balance.  No other transfer, decline, token, repeated shard, crash between two
\* commits or failed commit makes or destroys a unit.  Nothing is said once a
\* genesis block was built over a chain that had moved on, which start() does
\* when it cannot read, or never stored, the current block, or with a second
\* shard, whose processing uses deleted wallets.
SupplyAccounted ==
    ~reborn => Units(userDB) + lost \in {minted, Supply + minted}

\* No two stored blocks have the same parent, whatever crashes and failed
\* commits happened in between; only genesis blocks share their (missing) one.
NoFork ==
    \A b, c \in blockDB : b.parent = c.parent => b = c \/ b.parent = NoHash

\* The block stored under "current" is a tip: it is stored under its hash and no
\* stored block is its child, so a restart always continues the chain.
CurrentIsTip ==
    /\ currentKey # NoBlock => currentKey \in blockDB
    /\ \A b \in blockDB : b.parent = currentKey.hash => currentKey = NoBlock

\* The parent of a stored block is stored, unless its own commit failed.
ParentStored ==
    \A b \in blockDB :
        \/ b.parent \in {NoHash} \cup unsaved
        \/ \E p \in blockDB : p.hash = b.parent
=============================================================================
