------------------------- MODULE TransactionProcessor -------------------------
(***************************************************************************)
(* TransactionProcessor::setTxBatch and the wallets it works on: how the   *)
(* transactions of a block's shard turn into the batches written to the    *)
(* token, history, user and transaction databases.  Everything here is a   *)
(* function of the shard and of the databases read; the block thread that  *)
(* calls it is module Blockchain.                                          *)
(***************************************************************************)
EXTENDS Naturals, Sequences, FiniteSets, SequencesExt

CONSTANTS
    Accounts,   \* wallet addresses
    Root,       \* the address the genesis transaction pays
    Supply,     \* what it pays
    UintSize    \* the number of values of a uint256_t

ASSUME RootAssumption == Root \in Accounts /\ IsFiniteSet(Accounts)
ASSUME SupplyAssumption == Supply \in Nat
ASSUME UintAssumption == UintSize \in Nat /\ Supply < UintSize /\ UintSize >= 16

\* A transaction: its hash, the parties, the type, the amount of units and, for
\* CREATE_TOKENS, what Token::parse makes of its bytecode.  "OTHER" stands for
\* the numbers from 3 on, which no test keeps out.
Unparsable == "unparsable"
Types == {"TRANSFER", "TRANSFER_TOKENS", "CREATE_TOKENS", "OTHER"}

\* The sum of two uint256_t.
Plus(a, b) == IF a + b < UintSize THEN a + b ELSE a + b - UintSize

GenesisId == "genesis"
GenesisTx == [id |-> GenesisId, from |-> "UNTCoinbase", to |-> Root,
              type |-> "TRANSFER", amount |-> Supply, token |-> Unparsable]

\* A batch with one Put, and what writing a batch leaves: its keys are
\* overwritten, the others stay.  Maps in memory are updated alike.
Entry(key, value) == [k \in {key} |-> value]
Put(batch, db) ==
    [k \in DOMAIN batch \cup DOMAIN db |-> IF k \in DOMAIN batch THEN batch[k] ELSE db[k]]

-----------------------------------------------------------------------------
(* Token amounts as text *)

\* uint256_2string writes hexadecimal digits without a prefix and uint256_t
\* reads a string without a prefix as decimal: the value read back from what
\* was written for n, and whether the text has a letter, which throws.
ReadBack[n \in Nat] == IF n < 16 THEN n ELSE 10 * ReadBack[n \div 16] + (n % 16)
HasLetter[n \in Nat] == n > 0 /\ (n % 16 > 9 \/ HasLetter[n \div 16])

-----------------------------------------------------------------------------
(* Wallets *)

NoHistory == [out |-> << >>, in |-> << >>]

\* WalletAccount(address)
EmptyWallet == [balance |-> 0, tokens |-> << >>, history |-> NoHistory]

\* createPtrWallet: the constructor it calls resets tokensBalance to {}; the
\* user database does not hold the history.
CreatePtrWallet(stored) == [EmptyWallet EXCEPT !.balance = stored.balance]

\* serialize()
Serialize(wallet) == [balance |-> wallet.balance, tokens |-> wallet.tokens]

\* subtract() and increase()
Subtract(wallet, amount, id) ==
    IF wallet.balance < amount
    THEN wallet
    ELSE [wallet EXCEPT !.balance = @ - amount, !.history.out = Append(@, id)]

Increase(wallet, amount, id) ==
    [wallet EXCEPT !.balance = Plus(@, amount), !.history.in = Append(@, id)]

-----------------------------------------------------------------------------
(* The work on one shard *)

\* What setTxBatch has accumulated: the cached wallets, the batches for the
\* history, transaction and token databases, the declined transactions, and
\* whether an exception has left the thread (std::terminate).  Three more fields
\* are for the properties: what became of each transaction so far, the units made
\* of nothing by transfers nobody paid, and the units that are lost.
Empty(cache) ==
    [cache |-> cache, history |-> << >>, txs |-> {}, tokens |-> {},
     declined |-> << >>, thrown |-> FALSE, fates |-> << >>, minted |-> 0, lost |-> 0]

Parties(shard) == UNION {{t.from, t.to} : t \in ToSet(shard)}

\* multiGet: a wallet for every party.  Any status but OK gives an empty one,
\* that of an address never seen and that of a wallet that cannot be read.
LoadCache(shard, userDB, unread) ==
    [a \in Parties(shard) |->
        IF a \in DOMAIN userDB \ unread THEN CreatePtrWallet(userDB[a]) ELSE EmptyWallet]

Units(db) == FoldFunction(LAMBDA w, sum : w.balance + sum, 0, db)

Decline(st, t) ==
    [st EXCEPT !.declined = Append(@, t), !.fates = Append(@, "declined")]

\* The fields for the properties: `paid' and `done' are the cached wallets before
\* and after the recipient is credited.
Tally(st, t, paid, done) ==
    LET short == t.type = "OTHER" /\ st.cache[t.from].balance < t.amount
    IN  [st EXCEPT !.fates = Append(@, IF short THEN "unpaid" ELSE "done"),
                   !.minted = IF short THEN @ + t.amount ELSE @,
                   !.lost = IF done[t.to].balance < paid[t.to].balance
                            THEN @ + UintSize ELSE @]

\* Whether the sender's history is stored and can be read.  `unreadable' are the
\* passes of the loop whose read fails.
Known(st, t, historyDB, unreadable) ==
    t.from \in DOMAIN historyDB /\ Len(st.fates) + 1 \notin unreadable

\* Mutant: the stored history is read after the payment is entered.
TransferReadsLate(st, t, historyDB, unreadable) ==
    LET known == Known(st, t, historyDB, unreadable)
        paid  == [st.cache EXCEPT ![t.from] = Subtract(@, t.amount, t.id)]
        read  == IF known
                 THEN [paid EXCEPT ![t.from].history = historyDB[t.from],
                                   ![t.to].history = historyDB[t.from]]
                 ELSE paid
        done  == [read EXCEPT ![t.to] = Increase(@, t.amount, t.id)]
    IN  [Tally(st, t, read, done) EXCEPT
            !.cache = done,
            !.history = Put(Entry(t.to, done[t.to].history),
                            Put(Entry(t.from, read[t.from].history), @)),
            !.txs = @ \cup {t.id}]

\* Label transfer: both wallets take over the history stored for the SENDER, if
\* it can be read, before the two ends of the transfer are entered; what
\* subtract returns is ignored.
Transfer(st, t, historyDB, unreadable) ==
    LET read  == IF Known(st, t, historyDB, unreadable)
                 THEN [st.cache EXCEPT ![t.from].history = historyDB[t.from],
                                       ![t.to].history = historyDB[t.from]]
                 ELSE st.cache
        paid  == [read EXCEPT ![t.from] = Subtract(@, t.amount, t.id)]
        done  == [paid EXCEPT ![t.to] = Increase(@, t.amount, t.id)]
    IN  [Tally(st, t, paid, done) EXCEPT
            !.cache = done,
            !.history = Put(Entry(t.to, done[t.to].history),
                            Put(Entry(t.from, paid[t.from].history), @)),
            !.txs = @ \cup {t.id}]

\* Mutant: the new amount replaces the old one.
CreateTokenReplaces(st, t) ==
    IF t.token = Unparsable THEN Decline(st, t)
    ELSE [st EXCEPT !.cache[t.from].tokens = Put(Entry(t.token, t.amount), @),
                    !.tokens = @ \cup {t.token},
                    !.txs = @ \cup {t.id},
                    !.fates = Append(@, "done")]

\* Label create_token and increaseToken.
CreateToken(st, t) ==
    LET held == st.cache[t.from].tokens
        old  == IF t.token \in DOMAIN held THEN ReadBack[held[t.token]] ELSE 0
    IN  IF t.token = Unparsable THEN Decline(st, t)
        ELSE IF t.token \in DOMAIN held /\ HasLetter[held[t.token]]
        THEN [st EXCEPT !.thrown = TRUE]
        ELSE [st EXCEPT !.cache[t.from].tokens =
                            Put(Entry(t.token, (old + t.amount) % UintSize), @),
                        !.tokens = @ \cup {t.token},
                        !.txs = @ \cup {t.id},
                        !.fates = Append(@, "done")]

\* Mutant: the balance test of TRANSFER is gone.
ApplyUnchecked(st, t, historyDB, unreadable) ==
    IF st.thrown THEN st
    ELSE IF {t.from, t.to} \ DOMAIN st.cache # {} THEN Decline(st, t)
    ELSE IF t.type = "CREATE_TOKENS" THEN CreateToken(st, t)
    ELSE Transfer(st, t, historyDB, unreadable)

\* One pass of the loop over shard.transactionList.  A token transfer whose
\* sender holds the token converts the text of its value to double, which
\* throws; a type that is none of the three falls into the label transfer, and
\* no balance is tested.
Apply(st, t, historyDB, unreadable) ==
    CASE st.thrown -> st
      [] ~st.thrown /\ {t.from, t.to} \ DOMAIN st.cache # {} -> Decline(st, t)
      [] OTHER ->
         CASE t.type = "TRANSFER" ->
                 IF st.cache[t.from].balance < t.amount
                 THEN Decline(st, t)
                 ELSE Transfer(st, t, historyDB, unreadable)
           [] t.type = "TRANSFER_TOKENS" ->
                 IF t.token \notin DOMAIN st.cache[t.from].tokens
                 THEN Decline(st, t)
                 ELSE [st EXCEPT !.thrown = TRUE]
           [] t.type = "CREATE_TOKENS" -> CreateToken(st, t)
           [] t.type = "OTHER" -> Transfer(st, t, historyDB, unreadable)

\* The shard of a block that is not the first one.  `loaded' is FALSE when the
\* user database could not be opened: the cache stays empty.  `unread' are the
\* stored wallets that could not be read; their units are lost.
ProcessShard(shard, loaded, unread, userDB, historyDB, unreadable) ==
    LET start == IF loaded
                 THEN [Empty(LoadCache(shard, userDB, unread)) EXCEPT
                          !.lost = Units([a \in unread |-> userDB[a]])]
                 ELSE Empty(<< >>)
    IN  FoldLeft(LAMBDA st, t : Apply(st, t, historyDB, unreadable), start, shard)

\* Label transfer at index 0: nobody pays.
Credit(st, t) ==
    LET done == [st.cache EXCEPT ![t.to] = Increase(@, t.amount, t.id)]
    IN  [st EXCEPT !.cache = done,
                   !.history = Put(Entry(t.to, done[t.to].history), @),
                   !.txs = @ \cup {t.id},
                   !.fates = Append(@, "done")]

\* The genesis shard: the recipient's wallet is new, stored or not.
ProcessGenesis(t) == Credit(Empty(Entry(t.to, EmptyWallet)), t)

\* A second shard in a genesis block.  The wallet of the first one has been
\* deleted and is cached still: its memory may hold any balance when it is used
\* again.  The other recipients' wallets are new, and nobody pays.
ProcessSecond(shard, residue) ==
    LET first == ProcessGenesis(GenesisTx)
        cache == [a \in {Root} \cup {t.to : t \in ToSet(shard)} |->
                     IF a = Root THEN [EmptyWallet EXCEPT !.balance = residue]
                                 ELSE EmptyWallet]
    IN  FoldLeft(Credit, [first EXCEPT !.cache = cache], shard)

\* userBatch: every cached wallet is written back.
UserBatch(st) == [a \in DOMAIN st.cache |-> Serialize(st.cache[a])]

-----------------------------------------------------------------------------
(* Removing the declined transactions from the shard *)

\* unit::vector::remove calls std::remove and does not erase: what is kept moves
\* to the front, the length and the tail stay.
StdRemove(s, t) ==
    LET kept == FoldLeft(LAMBDA front, x : IF x = t THEN front ELSE Append(front, x),
                         << >>, s)
    IN  kept \o SubSeq(s, Len(kept) + 1, Len(s))

Listed(shard, declined) == FoldLeft(StdRemove, shard, declined)
=============================================================================
