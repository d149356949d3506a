# A TLA+ model of the Unit node

Unit is a small blockchain node in C++ (`src/unit`) with an experimental UDP
server in C beside it (`src/src/server_library/udp`).  One process runs several
threads that hand transactions from RPC clients to blocks and blocks to five
RocksDB databases.  Almost everything that can go wrong lies between the
threads, or between two database commits, and none of it has a test.  This
directory models those parts, checks them with TLC and proves the most
important results with TLAPS.

## 1. The system

| component | state it keeps | operations | talks to |
|---|---|---|---|
| RPC server (`server/Server.h`, `RpcFilterChain.h`) | one `http_connection` per client: request, response, 60 s deadline | read, dispatch on `method`, filter, respond | reads the databases; `TransactionPool::emplaceBack`; explorer queue |
| Transaction pool (`pools/TransactionPool.h`) | a locked vector | `emplaceBack`, `getPoolSize`, `begin`/`end`, `dropTransactions` | RPC threads, shard factory |
| Shard factory (`blockHandler/ShardInserter.h`) | a local copy of the pool | `shardFactory`, an endless loop | pool, `shardList` |
| Block thread (`blockHandler/Blockchain.h`) | `previousBlock`, `currentBlock` | `start`, an endless loop | `shardList`, transaction processor, databases, explorer queue |
| Transaction processor (`blockHandler/TransactionProcessor.h`) | cached wallets, write batches | `setTxBatch` | user, history and token databases |
| Databases (`libdevcore/db/DB.h`) | files and RocksDB's lock file | `get`, `getWithIO`, `multiGet`, `commit`, each opening the database anew | everyone |
| Explorer feed (`server/explorer_handler.h`, `listener`, `shared_state`, `websocket_session`) | explorer queue, set of sessions, a write queue each | `writer`, `join`, `leave`, `send`, `on_send`, `on_write` | block thread, RPC threads, websocket clients |
| UDP server (`udp/udp_server.c`, `queue.c`) | linked list, counter, mutex, condition variable | `queue_push`, `queue_pop`, `thread_function` | the socket |
| Start-up (`UnitInitiator.h`) | flags | `init` | starts the threads |
| Wallets, tokens, blocks, shards, transactions, Merkle tree | records and their texts | build, hash, sign, parse, serialize, `subtract`, `increase` | used by the above |
| Hash functions (`bip44/SHA256.cpp`, `crypto/`) | state of the hash, partly filled buffer, length | `add`, `update`, `getHash`, `final`, `reset`, `get_hmac` | used by blocks, keys, addresses |
| Keys and mnemonics (`bip44/`) | none; results carry a phrase, a seed and six nodes | `generateWallet`, `generateAddress`, `phraseToSeed`, `pub2addr`, `ecdsa_sign_message`, `ecdsa_verify_signature` | start-up, RPC filter, shard factory, block builder |
| Lazy pointer, pending pool, DB writer, thread pool | | | unused |

What makes each part correct, and what makes that hard:

* **Pipeline** (pool, shard factory, shard list, block thread).  Accepted
  transactions should reach blocks, once, in order.  Every container call locks,
  but a round of the shard factory is many calls, and it holds iterators across
  them; the block thread copies the *front* of the list and removes the *back*.
* **Block thread and transaction processor.**  The chain must not fork, every
  unit must be accounted for and the stored records must agree, although a block is
  five separate commits whose results are ignored, the process may die between any
  two, a wallet that cannot be read is taken for an empty one, and a transaction
  may be of any type and come any number of times.
* **UDP server.**  Each datagram is processed once, in order, and no worker uses
  freed memory or sleeps through a datagram, although workers read the counter
  without the mutex, nodes are freed outside it and the signal follows the unlock.
* **RPC server.**  A client's answer should tell what happened to its
  transaction, although the checks, the explorer queue, the pool and the answer
  are separate steps on several threads and a deadline may end the connection at
  any of them.
* **Explorer feed.**  What is sent to a session should reach its client once and
  in order, although two threads send, sessions come and go, and the writer
  reads the back of a queue that others append to.
* **Database access.**  A commit that reports an error must not have stored
  anything, reads must be current, and a failure must not block the database for
  good, although every call opens the database anew and few close it.

* **Stored records.**  A block, its shards and its transactions are stored as
  text with hashes, a Merkle root and signatures that are computed at different
  moments of the building, before and after other fields change; wallets,
  histories and tokens are rewritten block by block from what was read before.
  What is stored should explain itself.
* **Hash functions.**  A message arrives in pieces, the padding is written over a
  buffer in use, and the boundaries differ from class to class.
* **Keys.**  Other programs must accept a phrase and derive the same keys, the same
  phrase must give the same keys again, and a signature must verify for its
  signer and no one else, through several conversions that shorten a number with
  leading zeros or leave bytes uninitialised.

`PROJECT.json` lists every component with its status and every hazard with the
line where it bites.

## 2. The modules

| module | models | extends |
|---|---|---|
| `ShardPipeline` | pool, shard factory, shard list, the block thread's calls on that list | |
| `ShardPipelineProofs` | proofs: order, losses and balance of the pipeline | `ShardPipeline`, `TLAPS` |
| `TransactionProcessor` | `setTxBatch`, wallets, histories, token text; operators only | |
| `Blockchain` | `Blockchain::start`, the five commits, crash and restart | `TransactionProcessor` |
| `MCBlockchain` | accounts and shards for TLC | `Blockchain` |
| `BlockchainProofs` | proofs: the chain never forks and has no unexplained hole, the units are accounted for; balances, histories and tokens are what the log of the stored records says, hashes and signatures can be computed again | `Blockchain`, `StoredRecords`, `TLAPS` |
| `AtomicStore` | what the node may rely on when it uses a database | |
| `BasicDB` | `commit`, `get`, `getWithIO`, `multiGet`, `newDB`: opening, lock, retries, handles; implements `AtomicStore` | |
| `BasicDBProofs` | proofs: the refinement, and what wedges a database | `BasicDB`, `TLAPS` |
| `RpcServer` | connections, deadlines, `process_instruction`, the filters | |
| `MCRpcServer` | the requests for TLC | `RpcServer` |
| `RpcServerProofs` | proofs: answers, announcements and pool agree | `RpcServer`, `TLAPS` |
| `ExplorerFeed` | writer thread, listener, `shared_state`, websocket sessions | |
| `MCExplorerFeed` | symmetry for TLC | `ExplorerFeed` |
| `ExplorerFeedProofs` | proofs: the queue and the sessions | `ExplorerFeed`, `TLAPS` |
| `StoredRecords` | texts, hashes, signatures and Merkle root of blocks, shards and transactions, and the wallets, histories and tokens a chain of blocks leaves | `TransactionProcessor` |
| `MCStoredRecords` | accounts and transactions for TLC | `StoredRecords` |
| `HashStream` | SHA256, SHA3, SHA512, Keccak and HMAC: buffering and padding | |
| `HashStreamProofs` | proofs: every message of any length, split in any way | `HashStream`, `TLAPS` |
| `KeyEncodings` | hexadecimal text, words of a phrase, Base58; operators only | |
| `WalletKeys` | mnemonics, seeds, derivation, addresses, signatures, the keys of a node | `KeyEncodings` |
| `MCWalletKeys` | a group of seven points and the calls for TLC | `WalletKeys` |
| `WalletKeysProofs` | proofs: keys, their origin and verdicts, in any group of prime order; phrases and Base58 texts of any size | `WalletKeys`, `TLAPS` |
| `UdpServer` | receiving thread, workers, `queue.c` | |
| `UdpServerProofs` | proofs: the queue is correct for any number of threads | `UdpServer`, `TLAPS` |

### ShardPipeline

A transaction is the number of its arrival: nothing in this part looks inside
one, and the pool's mutex orders the arrivals.  `pool`, `cap` and `gen` are the
vector, its capacity and the identity of its heap buffer; `Grow` doubles the
capacity and makes a new buffer, which is what invalidates the iterators
`first` and `last`.  One action is one locked call of `shardFactory`
(`PollPool`, `TakeBegin`, `TakeEnd`, `AssignElement`, `InsertShard`,
`ReadPoolSize`, `DropTransactions`); `begin()` and `end()` may come in either
order, which C++ leaves open.  Two actions are undefined behaviour and choose
over its outcomes: `AssignStale` reads a freed buffer (old element, garbage, or
the process dies), `AssignTorn` copies a range whose ends lie in different
buffers.  `BootGenesis`, `BootResume`, `TakeFront` and `PopBack` are the block
thread's calls; `BootGenesis` takes the front and leaves it on the list, as the
code does.  `emplaced`, `late`, `torn` and `onGenesis` are history variables.

### TransactionProcessor and Blockchain

`TransactionProcessor` translates `setTxBatch` into functions of the shard and
the databases: `LoadCache` (the `multiGet`), `Apply` (the loop body with its
three labels), `UserBatch` (the write-back of *every* cached wallet) and
`Listed` (the removal of declined transactions by `std::remove` without
`erase`).  It keeps what the code does and a reader would not expect:

* a type that is none of the three, `"OTHER"` here, falls into the label
  `transfer`: no balance is tested, `subtract` refuses and is ignored, and the
  recipient is credited, modulo `UintSize`, which stands for 2^256 (`Apply`,
  `Transfer`, `Plus`);
* any status but OK of a wallet's read gives an empty wallet, which is written back
  over the stored one (`LoadCache` with `unread`);
* a genesis block with a second shard uses wallets that were deleted after the
  first one: the process dies (`ProcessDies`) or goes on with a balance from freed
  memory (`ProcessSecond`, `Residues`);
* `CreatePtrWallet` drops the tokens, `Transfer` gives the recipient the sender's
  history, a token transfer by a holder throws, amounts are written in
  hexadecimal and read as decimal.

`Put` is what a write batch does to a database: it overwrites its keys and leaves
the others.  Three fields of what the loop accumulates are history, `fates`, `minted`
and `lost`: what became of each transaction, and the units that appeared and
disappeared.

`Blockchain` is the thread, with `bpc` as its program counter: build
(`BuildNext`, `BuildResume`, `BuildGenesis`), `PopShard`, process
(`ProcessNothing`, `ProcessFirst`, `ProcessBoth`, `Process`), then
`CommitTokens`, `CommitHistory`, `CommitUsers`, `CommitBlock`, `CommitTxs`.
Every commit may fail and the thread goes on, since the code ignores the result;
a read of the wallets may fail as a whole, which empties the cache, or for some of
them; any failure to read `"current"` leads to a genesis block.  `Crash` ends the
process between any two steps and `ProcessDies` is the ways `setTxBatch` itself
ends it; `Restart` starts with empty memory and the databases as they are.  A
block's hash is its creation number.  `EmplaceShard` stands for the pipeline above:
it delivers shards whose transactions the RPC filter accepts against the stored
wallets, of any type but a token transfer, and the same ones any number of times.
What the explorers are sent of the blocks is `ExplorerFeed`'s.

### StoredRecords

A step is a whole pass of the block thread: the builder's calls in their order
(`Built`: hash, then Merkle root, then signature), `setTxBatch` (the same
operators as in `Blockchain`), and the texts that are put in the databases
(`Store`).  Crashes between commits, failed commits and a second genesis block are
`Blockchain`'s business; here commits succeed, but reads of wallets and histories
may fail and an exception of `setTxBatch` ends the process, whose next block repeats
the index.  A shard is any sequence of transactions that were accepted at some time
(`accepted`, `NextShards`): one that was in a block before may be in the next, since
a shard can be taken twice from the front of the list and nothing keeps a
transaction from being sent again.  A text is a sequence of tokens and a digest its
argument in brackets, so digests are equal exactly when the texts are.  The texts
keep what the code does to them: the amount of a transaction that is no `TRANSFER`
lacks its closing quote when stored but not when hashed; `serializeForSigning` writes
over the first characters of the header because a `stringstream` made from a string
writes at its start; the leaves of the Merkle tree are one empty string per shard in
front of roots that nothing ever sets.  `log` is the history the properties compare
the databases with.

### HashStream

One object of one class, used through any calls.  A byte of the message is its
position, a byte of the padding its value with a minus sign: what is fed to the
compression function is then a sequence that shows every misplaced, lost,
repeated or stale byte, and compression itself is left as an ideal function.
`Add` is `SHA256_Legacy::add` and `SHA3::add`, `Update` is `SHA512::update` with its
32-bit length (`Wrap` stands for 2^32), `PadSHA256`, `PadSHA3` and `PadSHA512` the
three ways to finish; `AfterHash` keeps the padding in the buffer and the saved
state, as the code does, and `AfterFinal` leaves a `SHA512` that has to be
initialised again.

### KeyEncodings and WalletKeys

Points of the curve are their discrete logarithms in a group of prime order `N`,
`p` and `N - p` having the same x-coordinate, a number below `Field` that
`Coordinate` gives; some are `N` or more, as on the real curve.  HMAC-SHA512 is an
ideal function: the first time it is asked a question its left half is any of
`Lefts`, some of them 0 or not below `N`, and `hmac` remembers the answer.  A right
half, a chain code, is the question it answers.  `Pbkdf2` gives every phrase and
password a seed of their own.  `phraseToSeed` takes the password as it is; `Nfkd`, the
normal form BIP39 asks for, occurs only in the property.  Each `Derive` is one node of
the path, with the errors of `BIP44.hpp` where it ends early; `xpub` is the key inside
a node's extended public key, all else in the extended keys being fields of the node.
Conversions do what they do: the words and the checksum of a phrase, Base58 and
hexadecimal text are computed, `ShortX` and `ShortSeeds` say which numbers have a
leading zero byte that `BN_bn2hex` drops (`XText`), and `pub2addr` chooses over
`Tails`, what may lie in the bytes `BN_bn2bin` does not write, which includes the one
byte hashed for the point at infinity.

`ecdsa_sign_message` returns a signature or, when OpenSSL fails, none.
`ecdsa_verify_signature` is given any `r` and `s`, those of the last signature or
integers nobody signed (`Forged`).  It looks at neither, nor at what OpenSSL answers:
`PointsAt` is what `EC_POINT_set_compressed_coordinates` leaves, the point at infinity
when no point has that coordinate, and `Inverted` what `BN_mod_inverse` leaves, 0 for a
number without an inverse.  `StartNode` is how `UnitInitiator::init` comes to its keys,
without the walk over its flags.  `by` and `made` in a result are history: who asked,
and what the keys should be made of.  `strcpy` in `phraseToSeed` writes its closing 0 one
byte behind `slt`; a behaviour in which that stops the process ends at this call.

### BasicDB and AtomicStore

A value is the number of the batch that wrote it and 0 a missing key, so that
`stored` is the whole database and a read returns a number.  The block thread
commits (`wpc`): `Open`, `Reopen` (the body of the loop, which returns an error
whether or not it could open the database), `Write`, `Close`, and the failures of
each.  RocksDB's lock of the path is `free`, `held` by the commit or `leaked`.  A
read (`rpc`) opens the database without the lock, sees it as it was then
(`view`), and keeps trying in the two loops the code has; a retry that fails
changes nothing and is no step.  `leaks` counts the databases that were opened
and that nobody will close; a process can have `MaxHandles` open.  `newDB`
followed by `get(key, db)` takes the same steps as `getWithIO`.

`AtomicStore` is the promise: one commit at a time, applied once between its call
and its return and not at all if it returns an error; a read returns the store as
it was at some moment of its call.  It does not promise that a commit that
returned no error was applied, because `commit` looks only at `kCorruption`.
`Blockchain` uses its five databases in this sense: its commits are atomic and may
fail, and the block thread cannot tell.

### RpcServer

One connection carries one request.  `pc` is where its handlers are, `sock`,
`timer` and `body` are the members of `http_connection`; a response is the
sequence of messages written to its body, each an error code or `Ok`.  A request
is reduced to what the code asks of it: HTTP verb, whether the body is JSON,
method, whether the parameters parse, the kind of its `id`, and the transaction.
A handler needs one of `Threads` threads and keeps it while it is in `BasicDB::get`,
which is modelled with both its loops: `Open`, or `OpenFails` and every retry
(`retry`), then the first `Get` (`get`: a value, no such key, or `GetFails`), and after
a failure the second loop (`reget`), which only a value ends.  A read that found its
key leaves its database open: `leaked` counts these, and with `Handles` of them
leaked or in use no database can be opened.  `start()` issues the read before it
sets the timer, and both may run on different threads: that is `starting`.

`Refusal` is the filter's checks in their order.  The type of a transaction is any
number: 0 is compared with the balance, 1 with the tokens, and from 2 on nothing is
compared.  Two lines are short because of what the code does elsewhere: a wallet is
never stored with a nonce other than 0, and `parseWallet` returns a wallet without
tokens (`ParsedTokens`), which makes the comparison of a token amount throw.  `Settle`
is the block thread as this part sees it, with types from 3 on credited whether or not
they can be paid.  `held` is a history variable.

### ExplorerFeed

A message is its number.  The writer thread (`wpc`) takes a reference to the back
of `explorer_queue`, copies it when it calls `send`, and removes the back; as in
`ShardPipeline`, `cap` and `gen` say when the reference dangles, and
`WriterCopyStale` chooses over the outcomes.  `shared_state::send` is the same
for its two callers, the writer and `on_read` on the io thread: `Snapshot` takes
the weak pointers under the mutex, `SendTo` locks one and posts.  A session is its
`phase`, whether it reads, the posted `on_send` handlers, its queue `out` and the
number of outstanding writes.  It is destroyed when no handler holds it
(`Expired`): a strong pointer that a broadcast takes lives only within one
`SendTo`.  The io context has one thread, so handlers run one at a time
(`IoIdle`).

### UdpServer

One action per statement of `queue_push`, `queue_pop` and `thread_function` that
touches shared state, the unlocked read of the counter (`Check`) among them.  A
datagram and its list node are the arrival number, `heap` the nodes that are
allocated.  `SpuriousWakeup` is what POSIX allows `pthread_cond_wait`.

## 3. The runs

| run | bounds | shows |
|---|---|---|
| `pipeline` | 5 transactions, 1 torn element | order of the shards, where transactions can be lost, balance of insertions; every accepted transaction leaves the pool |
| `blockchain` | 4 blocks, 1 crash, 1 failing read or commit, supply 2, balances modulo 16, 2 accounts | every unit accounted for, no fork, parents |
| `records` | 4 blocks, shards of up to 2 of 7 transactions, 3 accounts, balances modulo 32, 1 unreadable history or wallet | what can be computed again from the stored texts; balances, histories and tokens against the stored transactions |
| `db` | 2 readers, 2 batches, 3 handles, 2 failures, 1 restart | the refinement of `AtomicStore`, what wedges a database, when calls return |
| `rpc` | 2 connections, 2 threads, 2 handles, 1 failure of a database or a read, one request of each kind | one answer, which tells the outcome; announcements; cover |
| `rpc_live` | 2 connections, 2 threads, 1 handle, 1 failure | which connections end |
| `explorer` | 2 sessions, 2 messages, 1 message of a client | what the queue skips and repeats; writes; order; no use of freed sessions |
| `explorer_live` | 1 session, 2 messages, 1 of a client | delivery; removal of failed sessions |
| `udp` | 5 processors (3 workers), 4 datagrams | shape of the list, order of the pops, no use after free, some worker always awake; every datagram is processed |
| `hash` | 6 calls, messages of up to 300 bytes in pieces of 0, 1, 129 and 0, 1, 9, 17 less than a block; lengths wrap at 2048 bits | what is compressed, digests, HMAC |
| `wallet` | 2 calls, a group of 7, six kinds of `generateWallet`, 4 starts of a node, 5 signatures nobody made, 20 byte strings | phrases, keys and extended keys and their origin, verdicts, Base58 |
| `pipeline_lost_tx` | smaller | a violation: what the repository says and the code does not do |

Every module states its `TypeOK` where it is a state machine over shared state; it
is a theorem of `ShardPipeline`, `ExplorerFeed`, `BasicDB`, `RpcServer` and `UdpServer`
and not counted among the properties of the runs.

Why the bounds are enough to be interesting:

* `pipeline`: with five transactions the vector reallocates at sizes 1, 2 and 4,
  so a reallocation can hit each of the moments of a round, before, between and
  after the iterators and during the copy, in a first and in a second round; the
  list can hold two shards, which is what it takes to lose one.
* `udp`: with three workers two can sleep while the third works, and four
  datagrams let the list empty and refill while a worker is between the unlocked
  read and the lock.
* `blockchain`: genesis, with a second shard or without, a block with a shard, a
  crash at any step of it, the resumed block and one block after it; the shards of
  `MCShards` are a transfer, two transfers of which the second cannot be paid, a
  transaction of an unknown type that nobody can pay and that makes a balance
  overflow when it comes twice, a token and one whose bytecode does not parse, and
  the same token issued twice with an amount whose text has a letter.  A shard can be
  taken again, in the same chain or after the crash.
* `db`: two failures let an open and the second open fail, or an open and a
  `Get`; three handles let two reads use them up around a commit.
* `rpc`: two requests of any two kinds overlap, with the block thread settling one
  between the check and the pooling of the other; the one failure can hit an open or
  the first `Get`, of a key that is stored or missing, and two reads use the handles
  up.
* `rpc_live`: with one handle and one failure a connection can end in each of the two
  loops for ever, beside one that ends, and both together take all the threads.
* `explorer`: two messages make the queue reallocate under the writer's
  reference, and with a client's message both senders broadcast at once to two
  sessions that join and leave.

* `records`: a wallet pays, is paid and pays itself within a shard and across
  blocks, with the same transfer again; transfers can be paid one by one and not
  together; one of an unknown type can be paid or not, and one makes its sender's
  balance overflow; token amounts have a letter (10), a second digit (20) and neither
  (1).
* `hash`: the pieces reach 55, 56, 63, 64 and 65 bytes, 111, 112, 127 and 128, and
  one less than each rate of SHA3, alone and after other pieces; six calls let a
  stream go on after a digest, be reset and be finished again.
* `wallet`: two calls are a wallet and its restoration, a second address, a node
  with its phrase, two starts, or a signature and its verification.  The answers of HMAC at the depths where the code
  tests them differ (0, below, at and above `N`); one of the three x-coordinates is
  short, one is not below `N`; one password has another normal form.
  Signatures are made and verified with every key, digest, nonce and address of the
  group; the forged ones have an `r` that is 0, `N`, no coordinate, or negative and
  reduced by `Field`, and an `s` that is 0 or above `N`.

`CHECK_DEADLOCK FALSE` stands in the `blockchain`, `records`, `hash` and `wallet`
runs because the bound on blocks or calls ends the behaviour, in the `udp` run because
`recvfrom` may simply not return or fail and end the process, in the `rpc` and `explorer`
runs because a server whose clients are gone is idle, and in the `db` and `rpc` runs
because reads that retry for ever change nothing.

### What holds

* `ShardsInArrivalOrder`: as long as no reallocation hits the
  copy, shards list accepted transactions in order and none twice, although the
  lock is released between the copy and the drop.
* `LostOnlyInWindow`: a transaction disappears only if it arrives between `end()`
  and the late `getPoolSize()`.
* `InclusionsBalanced`: the front/back mix-up never empties the list too far; each
  shard pays for one insertion, its own or another's.
* `SupplyAccounted`: the units in the wallets are the genesis block's, with those
  that unpaid transfers of an unknown type mint and without those lost with unreadable
  wallets and in overflows.  No other transfer, decline, repeated shard, crash or
  failed commit creates or destroys one, because both ends of a transfer are in one
  batch.  Excepted are a second genesis block over a living chain, which overwrites the
  root wallet, and a genesis block with two shards (`reborn`).
* `NoFork`, `ParentStored`: the stored chain stays a chain; a failed commit leaves
  a hole, never a fork.
* `RecomputedFromStored`: the hash of a stored block is the digest of its text
  without the root, the size and the signature, and the factory's signature fits
  the shard without its id, unless a declined transaction was removed; the
  prover's signature and the root always fit.  A transaction's text has the digest
  it is stored under exactly for transfers.
* `BalanceIsLedger`: a balance is what the stored transfers brought a wallet less what
  those took that it could pay, since a block last could not read the wallet, and up to
  overflows; whichever shards and transactions come again.
* `HistoryExplained`, `TokensOfLastBlock`: exactly how much of a history and of the
  tokens survives (see below).
* `ImplementsAtomicStore`: see above.  `LeakIsReported` and `WedgedForGood`: after
  the lock or the last handle is lost every commit returns an error, which the
  block thread ignores, and nothing is stored until a restart.
* `ReadsReturn`: a read returns once the database can be opened, except a `Get`
  that failed once and then finds no key.  `ConnectionsEnd`: if the databases work from
  some time on, a connection ends and lets go of its timer, unless its read is one that
  never returns (`Hopeless`: such a `Get`, or an open when every handle is gone) or such
  reads have taken every thread.
* `AnswerTellsOutcome`: a success means that the transaction is in the pool, a
  stated refusal that it is not.  The default error means neither: a request whose
  `id` is no integer gets it after its transaction was pooled.
* `AnnouncedThenPooled`, `PooledWasCovered`: explorers hear of what is pooled or
  about to be; what is pooled was signed by someone who had a wallet, and a transfer was
  covered by some balance of it, though not necessarily by the present one, and by
  none together with the transactions pooled before, the same one sent again included.
  Types from 2 on are covered by nothing.
* `SkippedForRepeated`: for each message the explorer queue skips another is sent
  twice.
* `OneWriteAtATime`, `DeliveredInOrder`, `NoFreedSession`: from `send` to the
  socket nothing is lost, repeated or reordered.
* `SomeWorkerAwake`: a worker goes to sleep only when another one took the
  datagram it had seen, so the condition variable is never what the server
  depends on.
* `StreamIsMessage`, `DigestIsStandard`: however a message is split, and whatever
  digests are taken on the way, each class hashes what its standard says, except
  `SHA512` from 2^29 bytes on.  `HmacIsStandard`: RFC 2104 for keys of up to 128
  bytes, and for no longer ones.
* `PhraseIsStandard`, `Base58Decodes`: phrases and texts other programs accept.
  `KeysAreStandard`: keys and the extended public key are those of BIP39 and BIP32
  exactly when no number on the way, the address's own coordinate included, has a
  leading zero byte that is dropped, the master key is below `N` and the password is in
  its NFKD form.
* `SameKeysSameOrigin`: the same phrase, password and path give the same keys and
  others give others, with the two exceptions below.
* `VerdictIsStandard`: a pair `r`, `s` that is accepted is valid for the address's key
  or one of three kinds ECDSA refuses, stated exactly (`Loose`): out of range, with an `r`
  of no point, or for an address that is of no key.  A valid or loose one is accepted
  unless the address was made with uninitialised bytes or `r` had to be reduced.

### What does not hold

One finding has a run of its own: a transaction that arrives in the window is lost
(`AcceptedNotLost`).  Others are the exceptions the invariants above state, and so
have been found by TLC and are kept exact by it:

* a transaction of an unknown type moves units its sender does not have
  (`SupplyAccounted`, `PooledWasCovered`), and a wallet that cannot be read is stored as
  an empty one (`BalanceIsLedger`);
* the same transfer is executed as often as it is listed, and the block thread may
  list a shard twice (`BalanceIsLedger`);
* a thread of the RPC server can be lost for good to a read of a key that is missing,
  and all of them when the handles are used up (`ConnectionsEnd`);
* numbers out of range, or an `r` that is no point's, are accepted as signatures when the
  recovered key happens to be the address's (`VerdictIsStandard`);
* the extended public key of one address in about 256 is a byte short, and a password
  with an accented letter gives a seed of its own (`KeysAreStandard`);
* the tokens of a wallet disappear with the next block that touches it, and an
  amount of ten or more is misread within a block (`TokensOfLastBlock`);
* a recipient's history becomes the sender's, and of several transfers in a block
  the last one's history survives (`HistoryExplained`);
* the block's hash covers neither its root nor its signature, the signed text lacks
  the hash, and the Merkle root says nothing about transactions
  (`RecomputedFromStored`, `generateMerkleRoot`);
* after a failed write a session queues and never writes again, until its read
  ends too (`OneWriteAtATime` is stated for sessions that have not failed);
* a node's keys come from its passphrase, read as hexadecimal, or from the clock,
  and never from its mnemonic; all wallets made while the random number
  generator fails are one wallet (`SameKeysSameOrigin`).

The models also contain, as the code has them, divergences that no run is spent
on: a shard behind another one is removed unseen (`PopBack`); the last declined
transaction stays listed in its block (`StdRemove`); the first block after a restart
repeats the stored index (`BuildResume`); the nonce is compared with a stored one
that nothing ever changes, so the same transaction is accepted again (`Refusal`);
one failed accept ends the listener (`AcceptFails`); an unknown method, bad parameters and an unknown sender
are answered with other codes than `RPC_REQUESTS.md` lists (`Process`,
`Refusal`); a transfer of tokens is always answered with the default error; and
the deadline of a connection closes its socket but does not end a handler that
waits for a database.

## 4. Fairness

`ShardPipeline`: weak fairness of the two loops.  Each is a thread of its own
that waits for nothing but the short critical sections of the containers, so an
operating system that schedules every thread provides it.  Nothing forces a
transaction to arrive.

`UdpServer`: weak fairness of the receiver from `queue_push` on and of each
worker; nothing forces a datagram to arrive or `recvfrom` to fail.  In addition
spurious wake-ups eventually end: POSIX allows them but no implementation
produces them for ever, and endless ones could hold the mutex from the receiver,
which weak fairness does not exclude.

`RpcServer`: strong fairness of the handlers that need a free thread (asio's queue
is first in, first out, so a handler that is ready again and again gets its
turn): the deadline, the request's instruction and the end of the write.  Weak fairness
of a handler that has one, in `get` and the filters, and of `check_deadline`.  There is no
fairness of the databases: nothing in the code brings them back, and a first `Get` may
fail or not.  `ConnectionsEnd` states as its hypothesis that they work from some time on
(`<>[](db = "works")`), and names the connections that do not end even so.

`BasicDB`: weak fairness of every call under way.  Failures are bounded, so a
retry succeeds in the end if the database exists and a handle is free, which
`ReadsReturn` states as its hypothesis.

`ExplorerFeed`: the two threads are scheduled, posted handlers run, a write ends,
with an error if need be, and so does the read of a session whose write failed:
`websocket_session::run` sets the timeouts that do this.  Nothing forces a client
to come, to send or to leave.

`Blockchain` has no liveness property: a crash may happen at any time, and the
bound on blocks ends every behaviour.  `StoredRecords`, `HashStream` and `WalletKeys`
are sequential code whose calls return.

## 5. What is proved

For every value of the constants, with the assumptions named in the modules.  The
bounds are natural numbers (`BoundsAreNatural`, `BoundsAssumption`,
`FeedAssumption`, `PacketsAssumption`, `ServerAssumption`, `BasicDBAssumption`).
Beyond that: the root wallet is one of finitely many accounts (`RootAssumption`);
the supply is a `uint256_t`, which has at least 16 values (`SupplyAssumption`,
`UintAssumption`); the transactions of a shard name accounts and have the amount of a
`uint256_t`, while their type is any (`ShardsAssumption`), and so do balances left in
freed memory (`ResiduesAssumption`); the transactions clients send are of that kind too,
an id, which stands for the signed text, belongs to one of them, and none is the genesis
transaction's or from its sender, for whom nobody has a key (`TxsAssumption`); there are
at least two
processors (`CpusAssumption`); messages are shorter than 2^28 bytes, so that the
8-byte lengths of the padding have their upper half 0, and the 32-bit length holds
an HMAC's outer message (`SizesAssumption`); the group has prime order above 2
(`GroupAssumption`) and its x-coordinates are different elements of a field that is
larger than the group (`CurveAssumption`), `r` and `s` are any integers
(`ForgedAssumption`), uninitialised bytes are bytes (`TailsAssumption`), a hardened index is above every 16-bit account and index
(`HardenedAssumption`, `RequestsAssumption`), halves of HMAC and digests are natural
numbers (`AnswersAssumption`, `DigestsAssumption`).

**`ShardPipelineProofs`: the pipeline**, for any number of transactions and any
outcome of a copy that a reallocation hit.  `PoolInv` is the key: the pool always
holds the last transactions that arrived, without a gap, so everything can be said
relative to the number that was erased.  `RoundInv` bounds the iterators and the
size read by the pool, which only the factory shortens; `CopyInv` says what has been
copied; `ShardInv`, with `Cleared`, separates what a shard may hold from what is still
to come, and gives `ShardsInArrivalOrder`; `LostInv` says that what this round would
erase without having copied it arrived late, and gives `LostOnlyInWindow`; `ListInv`
is `InclusionsBalanced` with what the block thread knows when it pops.

**`BlockchainProofs`: the chain never forks.**  `NoFork` alone is not inductive:
a step could store a second child if nothing were known of the block in hand.
`ChainInv` adds `HashesOrdered` (hashes are handed out in order, a parent is older
than its child) and `BlockInHand` (the block under way is newer than every stored
one and its parent has no stored child; the block just committed or given up, and
`previous` before the next block, have no child either).  `CurrentIsTip` is needed
for `BuildResume`, whose parent is the stored `"current"`.  `BuildStep`,
`QuietStep` and `IdleStep` are the three ways a step treats the block in hand;
`ChainStep` sends every action to one of them, and only `CommitBlock` is argued
on its own.  On top of `ChainInv`, `ParentStored` needs that the parent of the block
in hand is stored or its commit has failed.

**`BlockchainProofs`: the units are accounted for**, for any accounts, any shards with
transactions of any type, and any number of blocks.  `SupplyInv` adds to
`SupplyAccounted` where the shard of the block in hand comes from (`ShardInHand`: at
index 0 it is the genesis shard and, unless `reborn`, only the genesis wallet is stored
and nothing was minted or lost; two shards mean `reborn`) and what writing the batch in
hand will leave (`BatchInHand`, `WillAccount`: the units then, with `lost`, are what was
minted, or the supply and what was minted, the batch's own share included).  Only
`CommitUsers` changes wallets, and it finds in `BatchInHand` what it needs, although two
other commits, which may fail, come between; nothing changes the user database
meanwhile.  `ShardKeeps` is the part about `setTxBatch`: it starts with the units of the
unreadable wallets lost (`StartAccounts`), and each pass of its loop keeps `Worth`, what
all accounts hold together once the cached wallets are written back, but for what it adds
to `minted` and `lost`: `Shifts` sums up the two ends of a transfer, paid or not, with
the overflow or without.  A sum over the accounts in any order (`IsSum`) replaces the
fold the property is stated with, and both folds, over wallets and over the transactions
of a shard, are unfolded by `FoldUnfolds`, which shows that the recursion in
`MapThenFoldSet` has a solution.  Induction is done by a smallest counterexample
(`Smallest`).

**`BlockchainProofs`: the stored records**, for any accounts, transactions, shards,
repeated ones too, and failing reads.  The module extends `StoredRecords` too, whose
variables are its own, because both rest on the lemmas about `setTxBatch`.  The properties
speak of `log`, the history of the transactions processed, and none of them holds at each
pass of the loop as it stands: in the middle of a shard the database is the old one and
the cache the new one.  So each has a form for the first `m` entries of a log and for the
state of the loop, kept by every pass, and that form is the property once the batch is
written.  `ApplyFollows` sums up what one pass may do: skip, throw, `Enters` (a transfer)
or `Mints` (a token).
* `LedgerStep`: a cached balance and what its wallet paid make what it got, but for `w`
  overflows (`Owes`), counting the positions `S` of the log since the wallet last could
  not be read; a total over positions grows by the new one (`TotalGrows`), whichever
  transaction stands there, so one that comes again is counted again.  `SinceGrows` is
  how these positions move on with a block: a wallet read as empty starts anew.
* `HistStep`: a history in the cache or in the batch is `Explained` by the entries up
  to `m`, where the entries of this block are those after the `n`-th; `Found` is what a
  transfer reads before it enters its two ends, stored or cached, and why an earlier
  entry may be missing from it (`Hides`).
* `TokensStep`: a token has the sum issued in this block so far, or an earlier sum
  needs two digits.  `ReadBackIs` shows that the recursive `ReadBack` has a solution
  and is the identity below ten.
`RecordsInv` is `LogInv` (the log is a sequence of transactions with the amounts of a
`uint256_t`, in blocks not after the last) and `BooksInv` (the three forms for the whole log, and a text
for every transfer kept); `BooksShow` draws the properties from it.

`RecomputedFromStored` has an invariant of its own, `TextInv`: the stored block is what
the builder made (`Sealed`), but for its size and the list of its shard, and the log ends
with the shard it was made of.  The list is as long as the shard and of known
transactions, because `std::remove` keeps the length (`RemoveKeeps`, `ListedKeeps`), and
two such lists differ exactly when their texts do: a digest encloses its argument
(`DigestSame`), a chunk's length does not depend on the transaction (`ChunkIs`), so the
joined chunks can be cut at the same places (`JoinSame`, `FlattenSame`).  `HashTells` and
`SignTells` are that for the block's hash and for the factory's signature; the prover's
signature and the Merkle root do not look at the list (`SignSame`, `RootSame`).

**`BasicDBProofs`: the calls implement the atomic store.**  `IInv` adds to the types
`CallsCounted` (the commit under way has not stored its batch), `LockHeld` (the
lock is held exactly while a commit works), `LeakIsReported` and `ViewsInside` (an
open database shows the store at a moment since the call).  `CommitRefines` and
`ReadRefines` send every step to a step of `AtomicStore` or to none; the only
argument is that `view` lies between the store at the call and the store now.
`HandlesFit`, a count over the set of busy readers, is proved on top, and with it
`TypeOK` and `WedgedForGood`: a process with `MaxHandles` lost handles has none in
use, so no commit is at its `Write`.

**`RpcServerProofs`: answer, announcement and pool agree** for any requests,
connections and threads.  The inductive invariant joins `TypeOK` and `OneAnswer`
with `Stages` (what a connection has written and announced at each step),
`PooledOnce` (no connection is pooled twice),
`SuccessIsPooled`, `PooledWasCovered` and `HeldIsKept` (the history contains the
present balance and the one an open database holds).  A transaction between its check and its pooling is covered by
a balance in `held`, which only grows, and this is why `Settle` cannot disturb it.

**`UdpServerProofs`: the queue is correct** for any number of processors (at
least two) and of datagrams.  `QueueInv` is the conjunction of `Locked` (program
counters agree with the mutex's owner and the set of waiters), `ListShape` (the
list is the last `count` linked datagrams, inside critical sections too, because
each changes it in one piece), `Nodes` (queued nodes are allocated; popped ones
not yet freed are older than the queue and held by one worker each) and `Popped`
(the history is `1..linked-count`).  From it follow `TypeOK`, `QueueWellFormed`,
`PoppedInOrder` and `NoUseAfterFree`.  `SomeWorkerAwake` is inductive together
with `QueueInv`: the worker that goes to sleep has the mutex and an empty queue,
so the worker that was awake before is another one.

**`ExplorerFeedProofs`: the explorer feed**, for any connections and any number of
messages.  `QueueInv` says that the queue holds messages in their order with gaps,
that the writer's reference stays inside because only the writer removes, and that
every round broadcasts one message and removes one; `SkippedForRepeated` follows by
counting.  `SessionInv` joins `OneWriteAtATime` and `DeliveredInOrder` with `OnlyLive`:
handlers, posted messages and a place in `sessions_` belong to live sessions only,
which is what makes a raw pointer in that set safe (`NoFreedSession`).

**`HashStreamProofs`: buffering and padding**, for messages of any length split into
pieces of any sizes, with digests taken on the way.  `Holds` says what an object
holds of a message: whole blocks compressed, the rest in the buffer, and the count of
the bytes.  `AddHolds` and `UpdateHolds` show that a piece keeps it, by splitting the piece
into what tops the buffer up, whole blocks and what is left (`Split`); `TailSHA256`,
`TailSHA3` and `TailSHA512` compute the last one or two blocks, and `FillingUnique` and
`FillingConcat` compare them with the padding of the standards, of which there is only
one.  `StreamInv` needs besides that an object on which `final` was called is not used
until it is initialised again.

**`WalletKeysProofs`: keys and signatures**, for any answers of HMAC and any requests.
`KeysInv` says that every result, and the derivation in progress, is a line of nodes
each of which is an answer of HMAC to the question that its parent and index make.
`KeysAreStandard` follows node by node (`LinkIsStandard`, `TextIsStandard`,
`SeedIsStandard`: a question, an extended key and a seed are the standard's exactly when
no number in them is short and the password is its own normal form); `SameKeysSameOrigin`
because a chain code is the question it answers, so that equal lines have equal seeds.
`VerdictIsStandard` needs arithmetic modulo a prime: every number has an inverse
(Euclid's algorithm, as a smallest counterexample), and a recovered key is the one that
`Meets` the equation of the signature with a point (`RecoveredIs`; `RecoveredNothing` for
an `r` without an inverse).  `Taken` says this for all the points that
`ecdsa_verify_signature` tries; `TakenIs` and `IsTaken` compare it with ECDSA's test and
with the exceptions in `Loose`, for any integers `r` and `s`.

The conversions are folds, which TLA+ defines by `CHOOSE`.  `FoldUnfolds` shows, by a
smallest counterexample on the number of members, that a fold over a finite set is what
its recursion says; `FoldInOrder` that one over the positions of a sequence goes through
them in order, and `EveryPass` carries a fact from pass to pass.  `PhraseIsStandard`
follows from `PhraseInv`, that every phrase was made of a request's entropy: `WordIs`
and `ByteIs` write the sums of eleven and of eight bits out, `WordBits` reads the bits
back, and `ChecksumBits` follows the bits of the digest through the shift for 12 words.
It assumes that the drawn bits are those of the request and that a digest starts with a
byte (`EntropyAssumption`).  For `Base58Decodes`, `Writes(d, x)` says that the digits `d`
weigh `x` and have no leading 0; `TimesByteWrites` follows the carry along a row, which
stays below 256, and shows that a byte more makes `256 * x + byte`.  The digits fit
because 58^11 is more than 256^8: `EightForEleven` compares the powers eight bytes at a
time, `WeightAbove` and `ValueBelow` bound the number from both sides.  `TextZeros` is the
case of leading zeros, where the last byte's zero is written as a digit.  The bytes are
any that are not empty (`DatasAssumption`): for none, `data.size() - 1` would wrap, and
every caller passes a prefix, a key or an address.

## 6. Model-checked only

Liveness (`PoolDrains`, `EveryPacketHandled`, `ConnectionsEnd`,
`ReadsReturn`, `PostedIsDelivered`, `FailedSessionLeaves`) is out of the prover's
reach.  Every invariant that a run checks is proved.

## 7. Not modelled

The compression functions of the hashes, the arithmetic of the curve and PBKDF2 are
taken as ideal: 64-bit words over 80 rounds are out of TLC's reach, and what they
compute does not depend on state.  Times, formatting, JSON parsing beyond what it
can refuse, and HTTP are abstracted.  How `UnitInitiator::init` walks through its
flags is left out: `main.cpp` passes a fixed list.  The UDP program's `main.c` only
starts the server with a handler that prints a message for an error, all else in it is
compiled out; its packet layout and checksum are tables.  `DBWriter` is never
started, the merge operator is installed by no database.  `ThreadPool.h`, `containers/queue.h` and most
of `main.cpp` are compiled out; `RpcMethod.h`, the pending pool and the lazy
pointer are used by no thread.  A start whose uninitialised `previousBlock` or
`currentBlock` is not null dies at once and is a `Crash`.  What uninitialised memory holds at the two places where
the process may survive its use is any value (`Residues`, `Tails`); other consequences
of undefined behaviour than a wrong value or the end of the process are left out.

## 8. Plan

1. `Node`: the pipeline and the block thread composed, with `Blockchain`'s
   `EmplaceShard` implemented by `ShardPipeline`.
