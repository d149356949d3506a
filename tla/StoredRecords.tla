--------------------------- MODULE StoredRecords ----------------------------
(***************************************************************************)
(* What the node leaves on disk: the text of a block, its hash, Merkle     *)
(* root and signature, the texts of the transactions, the wallets and the  *)
(* histories, for one block after another.  A step here is a whole pass of *)
(* the block thread in which the user database can be opened and every     *)
(* commit succeeds; the interleavings, the crashes between two commits,    *)
(* the commits that fail and a second genesis block are module             *)
(* Blockchain's.                                                           *)
(*                                                                         *)
(* A text is a sequence of tokens and a digest is its argument in brackets *)
(* (the hash functions are module HashStream): equal digests mean equal    *)
(* texts.                                                                  *)
(***************************************************************************)
EXTENDS TransactionProcessor

CONSTANTS
    Txs,            \* the transactions clients may send
    MaxShard,       \* bound: transactions in a shard
    MaxStored,      \* bound: blocks stored
    MaxUnreadable   \* bound: reads of a history or a wallet that fail

ASSUME StoredRecordsAssumption ==
    /\ MaxShard \in Nat
    /\ MaxStored \in Nat
    /\ MaxUnreadable \in Nat

\* Transactions with the same id are the same, and nobody can sign for the
\* sender of the genesis transaction.
ASSUME TxsAssumption ==
    /\ \A t \in Txs :
          /\ {t.from, t.to} \subseteq Accounts /\ t.amount \in 0..UintSize - 1
          /\ t.type \in Types
          /\ t.from # GenesisTx.from /\ t.id # GenesisTx.id
    /\ \A t, u \in Txs : t.id = u.id => t = u

-----------------------------------------------------------------------------
(* Texts and digests *)

Quoted(text) == <<"'">> \o text \o <<"'">>
Sha3(text) == <<"sha3(">> \o text \o <<")">>
DoubleSha3(text) == Sha3(Sha3(text))
Zeros == <<"zeros">>        \* 32 zero bytes

\* ecdsa_sign_message: the fields r, s and message_hash, which the text decides.
Signature(text) == <<"sign(">> \o text \o <<")">>

\* serializeToRawTransaction.  The id stands for the parties, the date, the
\* nonce, the fee, the extra data and the client's signature.
serializeToRawTransaction(t) ==
    <<t.id>> \o Quoted(<<ToString(t.amount)>>) \o <<t.type>>

\* serializeToJsonTransaction: the same text, except that the amount of a
\* transaction that is no TRANSFER lacks its closing quote.
serializeToJsonTransaction(t) ==
    IF t.type = "TRANSFER"
    THEN serializeToRawTransaction(t)
    ELSE <<t.id, "'", ToString(t.amount), t.type>>

\* generateHash, for a transaction
TxHash(t) == DoubleSha3(serializeToRawTransaction(t))

-----------------------------------------------------------------------------
(* Shards *)

NoText == << >>

\* Shard(transactionList): nothing ever calls setTransactionMerkleRoot.
UnsignedShard(txs) ==
    [shardID |-> NoText, transactionMerkleRoot |-> NoText,
     transactionList |-> txs, signature |-> NoText]

serializeTransactions(shard) ==
    FlattenSeq([i \in DOMAIN shard.transactionList |->
                   Quoted(TxHash(shard.transactionList[i]))])

serializeWithoutSignatures(shard) ==
    Quoted(shard.shardID) \o Quoted(shard.transactionMerkleRoot)
        \o serializeTransactions(shard)

serializeShard(shard) == serializeWithoutSignatures(shard) \o Quoted(shard.signature)

\* shardFactory signs the shard before it gives it its id.
SignedShard(txs) ==
    LET shard == UnsignedShard(txs)
    IN  [shard EXCEPT !.shardID = DoubleSha3(<<"prover">>),
                      !.signature = Signature(serializeWithoutSignatures(shard))]

-----------------------------------------------------------------------------
(* The Merkle tree *)

\* The node buildTree stores for the leaves left + 1 .. right.
buildTree(leaves) ==
    LET node[q \in (0..Len(leaves)) \X (1..Len(leaves))] ==
            IF q[1] = q[2] - 1
            THEN leaves[q[2]]
            ELSE LET half == (q[1] + q[2]) \div 2
                 IN  Sha3(Sha3(node[<<q[1], half>>]) \o Sha3(node[<<half, q[2]>>]))
    IN  node[<<0, Len(leaves)>>]

\* get_root, of a tree that has leaves.
get_root(leaves) ==
    IF Len(leaves) = 1 THEN DoubleSha3(buildTree(leaves)) ELSE buildTree(leaves)

-----------------------------------------------------------------------------
(* Blocks *)

NothingStored ==
    [hash |-> NoText, previousHash |-> NoText, merkleRoot |-> NoText, time |-> 0,
     index |-> 0, size |-> 0, signP |-> NoText, shardList |-> << >>]

\* serializeBlockHeader, from the previous hash on: the fields after the hash.
HeaderTail(b) ==
    b.previousHash
        \o Quoted(b.merkleRoot)
        \o <<ToString(b.time), ToString(b.index), ToString(b.size)>>

serializeBlockHeader(b) == Quoted(b.hash) \o <<"'">> \o HeaderTail(b)

serializeBlock(b) ==
    serializeBlockHeader(b) \o Quoted(b.signP)
        \o FlattenSeq([i \in DOMAIN b.shardList |-> serializeShard(b.shardList[i])])

\* serializeForSigning writes the message and the prover's address over the
\* header's first characters, not behind it: the hash and the first characters
\* of the previous hash are lost, and the shards are not part of the text.
serializeForSigning(b) == <<"message", "address">> \o Tail(HeaderTail(b))

\* The vector of leaves starts with one empty string per shard, in front of the
\* roots, which are empty too.
generateMerkleRoot(b) ==
    LET empty == [i \in DOMAIN b.shardList |-> NoText]
        roots == [i \in DOMAIN b.shardList |-> b.shardList[i].transactionMerkleRoot]
    IN  [b EXCEPT !.merkleRoot = IF b.shardList = << >>
                                 THEN DoubleSha3(Zeros)
                                 ELSE get_root(empty \o roots)]

\* Mutant: the Merkle root is set when the block is hashed.
generateHashWithRoot(b) ==
    [b EXCEPT !.hash = DoubleSha3(serializeBlock(generateMerkleRoot(b)))]

generateHash(b) == [b EXCEPT !.hash = DoubleSha3(serializeBlock(b))]

setProverSign(b) == [b EXCEPT !.signP = Signature(serializeForSigning(b))]

\* The builder's order: hash, root, signature.
Built(previousHash, time, index, shards) ==
    setProverSign(generateMerkleRoot(generateHash(
        [NothingStored EXCEPT !.previousHash = previousHash, !.time = time,
                        !.index = index, !.shardList = shards])))

-----------------------------------------------------------------------------
(* The block thread *)

VARIABLES
    users, histories,   \* the user and the history database
    storedTxs,  \* the transactions' texts, under their hashes
    block,      \* the block stored last, NothingStored before the first one
    booting,    \* the process starts again after an exception ended it
    accepted,   \* the transactions this process may have let in
    log         \* history: what became of them, block by block

records == <<users, histories, storedTxs, block, booting, accepted, log>>

RecordsInit ==
    /\ users = << >>
    /\ histories = << >>
    /\ storedTxs = {}
    /\ block = NothingStored
    /\ booting = FALSE
    /\ accepted = {}
    /\ log = << >>

\* What the RPC filter lets in (see RpcServer).
Sendable(t, userDB) ==
    /\ t.from \in DOMAIN userDB
    /\ t.type # "TRANSFER_TOKENS"
    /\ t.type = "TRANSFER" => t.amount <= userDB[t.from].balance

\* The commits of a block whose shard gave the batches st, and what has been let
\* in by the time of the next block.
Store(b, shard, st, unread, unreadable) ==
    LET stored == {i \in DOMAIN shard : st.fates[i] # "declined"}
        Text(i) == serializeToJsonTransaction(shard[i])
    IN  /\ users' = Put(UserBatch(st), users)
        /\ histories' = Put(st.history, histories)
        /\ storedTxs' = storedTxs \cup
              {[key |-> TxHash(shard[i]), text |-> Text(i), tx |-> shard[i]] : i \in stored}
        /\ block' = [b EXCEPT !.size = FoldSet(LAMBDA i, size : Len(Text(i)) + size, 0, stored)]
        /\ log' = log \o [i \in DOMAIN shard |->
                              [block |-> b.time, tx |-> shard[i], fate |-> st.fates[i],
                               read |-> i \notin unreadable, unread |-> unread]]
        /\ accepted' = accepted \cup {t \in Txs : Sendable(t, users')}

\* The genesis block, with no shard of the factory's waiting yet: its own shard
\* has no id and no signature.
Genesis ==
    /\ block = NothingStored
    /\ Store(Built(<<"genesis">>, 1, 0, <<UnsignedShard(<<GenesisTx>>)>>),
             <<GenesisTx>>, ProcessGenesis(GenesisTx), {}, {})
    /\ UNCHANGED booting

\* The shards that may be in front of the list: nothing keeps a transaction from
\* being sent again, or a shard from being taken again when the back of the list
\* is removed behind it, and an accepted one may wait for any number of blocks.
NextShards == UNION {[1..n -> accepted] : n \in 1..MaxShard}

Failures ==
    Cardinality({i \in DOMAIN log : ~log[i].read})
        + Cardinality(UNION {{log[i].block} \X log[i].unread : i \in DOMAIN log})

\* A block with a shard: built, processed (the declined transactions are taken
\* from its list), stored.  An exception of setTxBatch ends the process before
\* the first commit.
NextBlock(shard) ==
    /\ block # NothingStored /\ ~booting /\ block.time < MaxStored
    /\ \E unread \in SUBSET (Parties(shard) \cap DOMAIN users),
          unreadable \in SUBSET {i \in DOMAIN shard : shard[i].type \in {"TRANSFER", "OTHER"}} :
          LET st == ProcessShard(shard, TRUE, unread, users, histories, unreadable)
              b  == Built(block.hash, block.time + 1, block.index + 1, <<SignedShard(shard)>>)
          IN  /\ Failures + Cardinality(unread) + Cardinality(unreadable) <= MaxUnreadable
              /\ IF st.thrown
                 THEN /\ booting' = TRUE
                      /\ accepted' = {t \in Txs : Sendable(t, users)}
                      /\ UNCHANGED <<users, histories, storedTxs, block, log>>
                 ELSE /\ Store([b EXCEPT !.shardList[1].transactionList =
                                    Listed(shard, st.declined)],
                               shard, st, unread, unreadable)
                      /\ UNCHANGED booting

\* A block without a shard: setTxBatch returns at once and no database but the
\* blocks' is written.  The first block of a process repeats the stored index.
EmptyBlock ==
    /\ block # NothingStored /\ block.time < MaxStored
    /\ block' = Built(block.hash, block.time + 1,
                      IF booting THEN block.index ELSE block.index + 1, << >>)
    /\ booting' = FALSE
    /\ UNCHANGED <<users, histories, storedTxs, accepted, log>>

RecordsNext ==
    \/ Genesis
    \/ \E shard \in NextShards : NextBlock(shard)
    \/ EmptyBlock

RecordsSpec == RecordsInit /\ [][RecordsNext]_records

-----------------------------------------------------------------------------
(* Properties *)

\* Whoever reads a block from the database can compute its proofs again.  The
\* hash is the digest of the stored text without the root, the size and the
\* signature, which are filled in later, and the factory's signature fits the
\* shard without its id, both unless removing declined transactions changed the
\* list; the prover's signature and the root fit always.  A transaction's text
\* has the digest it is stored under if and only if it is a TRANSFER.
RecomputedFromStored ==
    LET unsized == [block EXCEPT !.size = 0]
        bare    == [unsized EXCEPT !.hash = NoText, !.merkleRoot = NoText, !.signP = NoText]
        asMade  == \A i \in DOMAIN block.shardList :
                      LET list == block.shardList[i].transactionList
                      IN  \A j \in DOMAIN list : list[j] = log[Len(log) - Len(list) + j].tx
    IN  /\ block # NothingStored =>
              /\ block.hash = DoubleSha3(serializeBlock(bare)) <=> asMade
              /\ block.signP = Signature(serializeForSigning(unsized))
              /\ block.merkleRoot = generateMerkleRoot(bare).merkleRoot
        /\ block.index > 0 =>
              \A i \in DOMAIN block.shardList :
                 LET unsigned == UnsignedShard(block.shardList[i].transactionList)
                 IN  block.shardList[i].signature
                        = Signature(serializeWithoutSignatures(unsigned)) <=> asMade
        /\ \A x \in storedTxs : x.key = DoubleSha3(x.text) <=> x.tx.type = "TRANSFER"

\* The entries of the log with a transfer that was made, those of a wallet, those
\* in which it was credited or has paid, and an amount in all.
Moved == {i \in DOMAIN log : log[i].fate # "declined" /\ log[i].tx.type \in {"TRANSFER", "OTHER"}}
Own(a) == {i \in Moved : a \in {log[i].tx.from, log[i].tx.to}}
Gained(a) == {i \in Moved : log[i].tx.to = a}
Paid(a) ==
    {i \in Moved : log[i].tx.from = a /\ log[i].fate = "done" /\ log[i].tx # GenesisTx}
Total(entries) == FoldSet(LAMBDA i, sum : log[i].tx.amount + sum, 0, entries)

\* What happened since the block that could not read the wallet and emptied it.
Since(a) ==
    {i \in DOMAIN log : \A j \in DOMAIN log : a \in log[j].unread => log[j].block <= log[i].block}

\* The balance of a wallet is what the transfers brought it, less what those took
\* that it could pay, since it last could not be read, up to overflows of the
\* balance: whatever was declined in between, however often a shard or a
\* transaction comes again, and in whatever order a wallet pays, is paid and pays
\* itself within a shard.  The text of every transfer is stored.
BalanceIsLedger ==
    \A a \in DOMAIN users :
        /\ \E wraps \in 0..Len(log) :
              users[a].balance + wraps * UintSize + Total(Paid(a) \cap Since(a))
                  = Total(Gained(a) \cap Since(a))
        /\ \A i \in Own(a) : \E x \in storedTxs : x.tx = log[i].tx

Received(a, i) == log[i].tx.to = a /\ log[i].tx.from # a
Entries(a) == ToSet(histories[a].out) \cup ToSet(histories[a].in)

\* The history of a wallet ends with the latest transfer that changed it.  An
\* earlier one is missing only if a later transfer of the wallet was received
\* (the recipient takes over the sender's history), is in the same block (both
\* start from the history stored before the block) or could not read the
\* history; and a transfer of others is there only if the wallet was paid.
HistoryExplained ==
    \A a \in DOMAIN histories :
        /\ \A i \in Gained(a) \cup Paid(a) :
              \/ log[i].tx.id \in Entries(a)
              \/ \E j \in Own(a) :
                    /\ j > i
                    /\ Received(a, j) \/ log[j].block = log[i].block \/ ~log[j].read
        /\ \A id \in Entries(a) :
              \/ \E i \in Own(a) : log[i].tx.id = id
              \/ \E i \in Own(a) : Received(a, i)

Touching(a) == {i \in DOMAIN log : a \in {log[i].tx.from, log[i].tx.to}}

\* Where a token was issued in a block, and what was issued of it up to there.
Issues(a, token, b) ==
    {i \in DOMAIN log :
        /\ log[i].block = b /\ log[i].fate = "done"
        /\ log[i].tx.type = "CREATE_TOKENS" /\ log[i].tx.from = a /\ log[i].tx.token = token}
Issued(a, token, b, i) == Total({k \in Issues(a, token, b) : k <= i})

\* The tokens of a stored wallet are those it issued in the last block that
\* touched it, and none of an earlier one; their amounts are the sums issued
\* (modulo 2^256) unless an earlier sum of that block needs a second digit, which
\* is written in hexadecimal and read in decimal.
TokensOfLastBlock ==
    \A a \in DOMAIN users :
        LET last == log[Max(Touching(a))].block
        IN  \A token \in {t.token : t \in Txs} \cup DOMAIN users[a].tokens :
               LET issues == Issues(a, token, last)
               IN  /\ token \in DOMAIN users[a].tokens <=> issues # {}
                   /\ issues # {} =>
                         \/ users[a].tokens[token]
                               = Issued(a, token, last, Max(issues)) % UintSize
                         \/ \E i \in issues :
                               i < Max(issues) /\ Issued(a, token, last, i) > 9
=============================================================================
