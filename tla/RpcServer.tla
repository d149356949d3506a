------------------------------ MODULE RpcServer ------------------------------
(***************************************************************************)
(* The JSON-RPC server: every connection carries one request, a deadline   *)
(* of 60 seconds and one response.  The handlers of all connections run on *)
(* the threads that call ioc.run(), without a strand, so the deadline of a *)
(* connection may run beside the handler that processes its request; a     *)
(* handler that reads a database keeps its thread until it can, and what   *)
(* it has opened stays open (see BasicDB).                                 *)
(*                                                                         *)
(* A request is reduced to what process_request, process_instruction and   *)
(* the filters ask of it, a response to its error code.                    *)
(***************************************************************************)
EXTENDS Integers, Sequences, FiniteSets, SequencesExt

CONSTANTS
    Conns,      \* the connections clients may open
    Requests,   \* the requests they may carry
    Accounts,   \* the addresses
    Balance,    \* what each of them has at first, NoWallet for nothing stored
    UintSize,   \* the number of values of a uint256_t
    Threads,    \* threads that run handlers
    Handles,    \* databases the server can have open
    MaxFaults   \* bound: times the database stops to work or a read fails

NoWallet == -1
NoConn   == "none"

\* The methods that want params, those that read a database, and all values of
\* a request's field "method".
WithParams == {"transfer", "unit_get_balance", "unit_get_address_tx_history",
               "unit_get_tx"}
WithDB     == WithParams \cup {"unit_get_block_height"}
Methods    == WithDB \cup {"unit_get_tx_pool_size", "unknown", "missing"}

ASSUME ServerAssumption ==
    /\ Threads \in Nat \ {0}
    /\ Handles \in Nat
    /\ MaxFaults \in Nat
    /\ UintSize \in Nat \ {0}
    /\ Balance \in [Accounts -> 0..UintSize - 1 \cup {NoWallet}]
    /\ NoConn \notin Conns
    /\ \A r \in Requests :
          /\ r.verb \in {"get", "post", "put"}
          /\ r.json \in BOOLEAN         \* the body is JSON
          /\ r.method \in Methods
          /\ r.params \in BOOLEAN       \* the parameters have the right form
          /\ r.id \in {"integer", "string", "missing"}
          /\ r.tx.from \in Accounts
          /\ r.tx.to \in Accounts
          /\ r.tx.type \in Nat          \* nothing keeps 3 or more out
          /\ r.tx.nonce \in Nat
          /\ r.tx.signed \in BOOLEAN    \* r and s are from's signature
          /\ r.tx.amount \in 0..UintSize - 1

\* The codes of ServerIncludes.h, and 0 for a response with a result.
Ok               == 0
lowBalance       == -32000
invalidMethod    == -32001
emptyBalance     == -32002
httpMethodError  == -32003
defaultError     == -32004
badNonce         == -32005
invalidSignature == -32006
parsingError     == -32700
Codes == {Ok, lowBalance, invalidMethod, emptyBalance, httpMethodError,
          defaultError, badNonce, invalidSignature, parsingError}

VARIABLES
    \* http_connection
    pc,         \* what the connection does next
    request,    \* the request it carries
    sock,       \* its socket
    timer,      \* deadline_
    body,       \* the messages written to the response's body
    starting,   \* the connection whose start() is under way
    seen,       \* what its open database holds under the key it looks up
    \* shared with the other parts of the node
    wallets,    \* the balances of the user database
    db,         \* whether the databases can be opened
    leaked,     \* databases a successful read has left open
    faults,
    announced,  \* transactions put on the explorer queue, by connection
    pooled,     \* transactions put into the pool, by connection
    settled,    \* how many of them the block thread has dealt with
    \* history, read by properties only
    held        \* the balances the sender has had while a request was processed

connVars == <<pc, request, sock, timer, body, starting, seen>>
nodeVars == <<wallets, db, leaked, faults, settled, held>>
poolVars == <<announced, pooled>>
vars == <<connVars, nodeVars, poolVars>>

\* The steps during which a connection's handler occupies a thread.
Running == {"open", "retry", "get", "reget", "announce", "pool"}

Balances == 0..UintSize - 1 \cup {NoWallet}

TypeOK ==
    /\ pc \in [Conns -> Running \cup {"absent", "reading", "writing", "done"}]
    /\ request \in [Conns -> Requests]
    /\ sock \in [Conns -> {"none", "open", "shut", "closed"}]
    /\ timer \in [Conns -> {"unset", "armed", "off"}]
    /\ body \in [Conns -> Seq(Codes)]
    /\ starting \in Conns \cup {NoConn}
    /\ seen \in [Conns -> Balances]
    /\ wallets \in [Accounts -> Balances]
    /\ leaked \in Nat
    /\ db \in {"works", "fails", "corrupt"}
    /\ faults \in 0..MaxFaults
    /\ announced \in Seq(Conns)
    /\ pooled \in Seq(Conns)
    /\ settled \in 0..Len(pooled)
    /\ held \in [Conns -> SUBSET Balances]

Init ==
    /\ pc = [c \in Conns |-> "absent"]
    /\ request \in [Conns -> Requests]
    /\ sock = [c \in Conns |-> "none"]
    /\ timer = [c \in Conns |-> "unset"]
    /\ body = [c \in Conns |-> << >>]
    /\ starting = NoConn
    /\ seen = [c \in Conns |-> NoWallet]
    /\ wallets = Balance
    /\ db = "works"
    /\ leaked = 0
    /\ faults = 0
    /\ announced = << >>
    /\ pooled = << >>
    /\ settled = 0
    /\ held = [c \in Conns |-> {}]

\* A thread of the pool waits for work.
FreeThread ==
    Cardinality({c \in Conns : pc[c] \in Running})
        + (IF starting = NoConn THEN 0 ELSE 1) < Threads

-----------------------------------------------------------------------------
(* A connection *)

\* http_server's handler and start(): read_request() ...
Accept(c) ==
    /\ FreeThread
    /\ starting = NoConn
    /\ pc[c] = "absent"
    /\ pc' = [pc EXCEPT ![c] = "reading"]
    /\ sock' = [sock EXCEPT ![c] = "open"]
    /\ starting' = c
    /\ UNCHANGED <<request, timer, body, seen, nodeVars, poolVars>>

\* Mutant: the timer is not waited for.
CheckDeadlineNever(c) ==
    /\ starting = c
    /\ starting' = NoConn
    /\ UNCHANGED <<pc, request, sock, timer, body, seen, nodeVars, poolVars>>

\* ... and then check_deadline(), while another thread may have the request;
\* after that http_server waits for the next connection.
CheckDeadline(c) ==
    /\ starting = c
    /\ timer' = [timer EXCEPT ![c] = "armed"]
    /\ starting' = NoConn
    /\ UNCHANGED <<pc, request, sock, body, seen, nodeVars, poolVars>>

\* The timer runs out: the socket is closed, whatever the connection does.
Deadline(c) ==
    /\ FreeThread
    /\ timer[c] = "armed"
    /\ timer' = [timer EXCEPT ![c] = "off"]
    /\ sock' = [sock EXCEPT ![c] = "closed"]
    /\ UNCHANGED <<pc, request, body, starting, seen, nodeVars, poolVars>>

\* The read ends with an error: the client is gone or the socket closed.
ReadFails(c) ==
    /\ FreeThread
    /\ pc[c] = "reading"
    /\ pc' = [pc EXCEPT ![c] = "done"]
    /\ UNCHANGED <<request, sock, timer, body, starting, seen, nodeVars,
                   poolVars>>

\* write_response: the messages the handler wrote to the body are sent.
Write(c, messages) ==
    /\ body' = [body EXCEPT ![c] = messages]
    /\ pc' = [pc EXCEPT ![c] = "writing"]
    /\ UNCHANGED <<request, sock, timer, starting, seen>>

\* Mutant: the handler of exceptions does not look at the body.
ThrowTwice(c, messages) == Write(c, Append(messages, defaultError))

\* The catch of process_instruction: an empty body gets the default error.
Throw(c, messages) ==
    Write(c, IF messages = << >> THEN <<defaultError>> ELSE messages)

\* async_write's handler, whether or not the client got the response: the
\* deadline is cancelled, which does nothing if it has not been set yet.
WriteDone(c) ==
    /\ FreeThread
    /\ pc[c] = "writing"
    /\ pc' = [pc EXCEPT ![c] = "done"]
    /\ sock' = [sock EXCEPT ![c] = IF @ = "open" THEN "shut" ELSE @]
    /\ timer' = [timer EXCEPT ![c] = IF @ = "armed" THEN "off" ELSE @]
    /\ UNCHANGED <<request, body, starting, seen, nodeVars, poolVars>>

-----------------------------------------------------------------------------
(* process_request and process_instruction *)

\* Transaction::parse, or the conversion of params to a string, throws unless
\* the parameters have the right form.
Parses(r) == r.params

\* The requests that are answered without reading a database.
Process(c) ==
    LET r == request[c]
    IN  /\ FreeThread
        /\ pc[c] = "reading"
        /\ sock[c] = "open"
        /\ \/ r.verb # "post" /\ Write(c, <<httpMethodError>>)
           \/ r.verb = "post" /\ ~r.json /\ Write(c, <<parsingError>>)
           \/ /\ r.verb = "post" /\ r.json
              /\ \/ r.method = "missing" /\ Throw(c, << >>)
                 \/ r.method = "unknown" /\ Throw(c, <<invalidMethod>>)
                 \/ r.method \in WithParams /\ ~Parses(r) /\ Throw(c, << >>)
        /\ UNCHANGED <<nodeVars, poolVars>>

\* BasicPoolFilter
PoolSize(c) ==
    LET r == request[c]
    IN  /\ FreeThread
        /\ pc[c] = "reading"
        /\ sock[c] = "open"
        /\ r.verb = "post" /\ r.json /\ r.method = "unit_get_tx_pool_size"
        /\ \/ r.id = "integer" /\ Write(c, <<Ok>>)
           \/ r.id # "integer" /\ Throw(c, << >>)
        /\ UNCHANGED <<nodeVars, poolVars>>

\* The others go on to BasicDB::get, which keeps the thread.
Lookup(c) ==
    LET r == request[c]
    IN  /\ FreeThread
        /\ pc[c] = "reading"
        /\ sock[c] = "open"
        /\ r.verb = "post" /\ r.json /\ r.method \in WithDB
        /\ r.method \in WithParams => Parses(r)
        /\ pc' = [pc EXCEPT ![c] = "open"]
        /\ held' = [held EXCEPT ![c] = {wallets[r.tx.from]}]
        /\ UNCHANGED <<request, sock, timer, body, starting, seen, wallets, db, leaked,
                       faults, settled, poolVars>>

-----------------------------------------------------------------------------
(* BasicDB::get *)

\* The handler sleeps or works; nothing but its place changes.
Goes(c, place) ==
    /\ pc' = [pc EXCEPT ![c] = place]
    /\ UNCHANGED <<request, sock, timer, body, starting>>

Opens ==
    /\ db = "works"
    /\ leaked + Cardinality({c \in Conns : pc[c] \in {"get", "reget"}}) < Handles

\* A database that is corrupt when it is first opened throws.
OpenCorrupt(c) ==
    /\ pc[c] = "open"
    /\ db = "corrupt"
    /\ Throw(c, << >>)
    /\ UNCHANGED <<nodeVars, poolVars>>

\* Any other failure is tried again, every 3 seconds, for ever.
OpenFails(c) ==
    /\ pc[c] = "open"
    /\ db # "corrupt" /\ ~Opens
    /\ Goes(c, "retry")
    /\ UNCHANGED <<seen, nodeVars, poolVars>>

\* The open database does not follow later commits.  The filters that only read
\* look up something else than the sender's wallet.
Open(c) ==
    /\ pc[c] \in {"open", "retry"}
    /\ Opens
    /\ Goes(c, "get")
    /\ \E value \in IF request[c].method = "transfer"
                    THEN {wallets[request[c].tx.from]}
                    ELSE {NoWallet, 0} :
          seen' = [seen EXCEPT ![c] = value]
    /\ UNCHANGED <<nodeVars, poolVars>>

\* The first Get answers that there is no such key: the database is closed and
\* DBNotFound thrown.
NotFound(c) ==
    /\ pc[c] = "get"
    /\ seen[c] = NoWallet
    /\ Throw(c, << >>)
    /\ UNCHANGED <<nodeVars, poolVars>>

\* It fails: from now on Get is called until it answers with a value.
GetFails(c) ==
    /\ pc[c] = "get"
    /\ faults < MaxFaults
    /\ faults' = faults + 1
    /\ Goes(c, "reget")
    /\ UNCHANGED <<seen, wallets, db, leaked, settled, held, poolVars>>

\* Get answers with a value, and the database is not closed.
Got(c) ==
    /\ \/ pc[c] = "get"
       \/ pc[c] = "reget" /\ db = "works"
    /\ seen[c] # NoWallet
    /\ leaked' = leaked + 1
    /\ UNCHANGED <<wallets, db, faults, settled, held>>

-----------------------------------------------------------------------------
(* The filters *)

\* The four filters that only read.
Query(c) ==
    /\ Got(c)
    /\ request[c].method # "transfer"
    /\ IF request[c].id = "integer" THEN Write(c, <<Ok>>) ELSE Throw(c, << >>)
    /\ UNCHANGED poolVars

\* The tokens of a wallet as parseWallet returns it: the constructor it calls
\* replaces them by an empty object.
ParsedTokens == {}

\* Mutant: the balance is not compared.
RefusalUnfunded(t, balance) ==
    IF t.nonce = 0 THEN <<badNonce>>
    ELSE IF ~t.signed THEN <<invalidSignature>>
    ELSE IF t.type = 1 /\ ParsedTokens = {} THEN << >>
    ELSE <<Ok>>

\* BasicTransactionRpcFilter from the wallet to the hash: the message it refuses
\* the transaction with, none if it throws before it has written one, <<Ok>> if
\* it goes on.  A wallet is never stored with a nonce other than 0.  The amount
\* that compareTokenBalance looks up is null, and converting it throws.  No other
\* type is compared with anything.
Refusal(t, balance) ==
    IF t.nonce = 0 THEN <<badNonce>>
    ELSE IF ~t.signed THEN <<invalidSignature>>
    ELSE IF t.type = 0 /\ balance < t.amount THEN <<lowBalance>>
    ELSE IF t.type = 1 /\ ParsedTokens = {} THEN << >>
    ELSE <<Ok>>

Refuse(c) ==
    /\ Got(c)
    /\ request[c].method = "transfer"
    /\ Refusal(request[c].tx, seen[c]) # <<Ok>>
    /\ Throw(c, Refusal(request[c].tx, seen[c]))
    /\ UNCHANGED poolVars

Passes(c, place) ==
    /\ Got(c)
    /\ request[c].method = "transfer"
    /\ Refusal(request[c].tx, seen[c]) = <<Ok>>
    /\ Goes(c, place)
    /\ UNCHANGED <<seen, poolVars>>

\* Mutant: no announcement.
CheckSkipsAnnounce(c) == Passes(c, "pool")

\* The transaction passes and is hashed.
Check(c) == Passes(c, "announce")

\* explorer_queue->emplace_back
Announce(c) ==
    /\ pc[c] = "announce"
    /\ announced' = Append(announced, c)
    /\ Goes(c, "pool")
    /\ UNCHANGED <<seen, nodeVars, pooled>>

\* Mutant: a success that is not pooled.
EmplaceNothing(c) ==
    /\ pc[c] = "pool"
    /\ Write(c, <<Ok>>)
    /\ UNCHANGED <<nodeVars, poolVars>>

\* transactionPool->emplaceBack, then the conversion of the id, which throws
\* unless it is an integer, then the response.
EmplaceBack(c) ==
    /\ pc[c] = "pool"
    /\ pooled' = Append(pooled, c)
    /\ IF request[c].id = "integer" THEN Write(c, <<Ok>>) ELSE Throw(c, << >>)
    /\ UNCHANGED <<nodeVars, announced>>

-----------------------------------------------------------------------------
(* The rest of the node *)

\* A wallet with an amount added to it, or a new one; a balance overflows.
Credit(w, amount) ==
    LET sum == (IF w = NoWallet THEN 0 ELSE w) + amount
    IN  IF sum < UintSize THEN sum ELSE sum - UintSize

\* The block thread settles the next transaction of the pool and commits.  Only a
\* transfer is declined when it cannot be paid; a type from 3 on is credited.
Settle ==
    /\ settled < Len(pooled)
    /\ settled' = settled + 1
    /\ LET t == request[pooled[settled + 1]].tx
           covered == t.amount <= wallets[t.from]
           debited == IF covered THEN [wallets EXCEPT ![t.from] = @ - t.amount] ELSE wallets
       IN  wallets' =
             IF (t.type = 0 /\ covered) \/ t.type > 2
             THEN [debited EXCEPT ![t.to] = Credit(@, t.amount)]
             ELSE wallets
    /\ held' = [c \in Conns |->
                   IF pc[c] \in Running
                   THEN held[c] \cup {wallets'[request[c].tx.from]} ELSE held[c]]
    /\ UNCHANGED <<connVars, db, leaked, faults, poolVars>>

\* The databases can no longer be opened (a full disk, a lock, a missing
\* directory before the first commit), or can be opened again.
DBFails ==
    /\ faults < MaxFaults
    /\ faults' = faults + 1
    /\ db = "works"
    /\ db' \in {"fails", "corrupt"}
    /\ UNCHANGED <<connVars, wallets, leaked, settled, held, poolVars>>

DBRecovers ==
    /\ db # "works"
    /\ db' = "works"
    /\ UNCHANGED <<connVars, wallets, leaked, settled, held, faults, poolVars>>

-----------------------------------------------------------------------------

Instruction(c) ==
    Process(c) \/ PoolSize(c) \/ Lookup(c) \/ ReadFails(c)

Filter(c) ==
    \/ OpenCorrupt(c) \/ OpenFails(c) \/ Open(c) \/ NotFound(c)
    \/ Query(c) \/ Refuse(c) \/ Check(c) \/ Announce(c) \/ EmplaceBack(c)

Next ==
    \/ \E c \in Conns :
          \/ Accept(c) \/ CheckDeadline(c) \/ Deadline(c)
          \/ Instruction(c) \/ Filter(c) \/ GetFails(c) \/ WriteDone(c)
    \/ Settle \/ DBFails \/ DBRecovers

Spec == Init /\ [][Next]_vars

\* The threads are scheduled, asynchronous operations complete and the timer
\* runs out; a handler that is ready gets a thread in its turn, other handlers
\* or not.
Scheduling ==
    \A c \in Conns :
        /\ WF_vars(CheckDeadline(c))
        /\ SF_vars(Deadline(c))
        /\ SF_vars(Instruction(c))
        /\ WF_vars(Filter(c))
        /\ SF_vars(WriteDone(c))

FairSpec == Spec /\ Scheduling

-----------------------------------------------------------------------------
(* Properties *)

\* A response is one message: the filters write an error before they throw, and
\* the handler of exceptions must not add another one to it.
OneAnswer ==
    \A c \in Conns :
        /\ Len(body[c]) <= 1
        /\ pc[c] = "writing" => Len(body[c]) = 1

\* A client that is told its transfer succeeded has it in the pool, once; one
\* that is told why it was refused has not.
AnswerTellsOutcome ==
    \A c \in Conns : request[c].method = "transfer" =>
        /\ body[c] = <<Ok>> => c \in ToSet(pooled)
        /\ body[c] # << >> /\ body[c] \notin {<<Ok>>, <<defaultError>>} =>
              c \notin ToSet(pooled)
        /\ \A i, j \in DOMAIN pooled : pooled[i] = c /\ pooled[j] = c => i = j

\* Explorers hear of a transaction before it is in the pool, and of none that
\* is not in the pool, or about to be, whatever the threads do.
AnnouncedThenPooled ==
    /\ ToSet(pooled) \subseteq ToSet(announced)
    /\ \A c \in ToSet(announced) \ ToSet(pooled) : pc[c] = "pool"

Covered(c) ==
    LET t == request[c].tx
    IN  /\ t.signed /\ t.nonce # 0 /\ t.type # 1
        /\ \E b \in held[c] :
              /\ b # NoWallet
              /\ t.type = 0 => b >= t.amount

\* Whatever the block thread commits while a request is processed, a transaction
\* in the pool was signed, its sender had a wallet at some moment of the request,
\* and a transfer was covered by that wallet alone; what the transactions before
\* it in the pool take, the same one sent again included, and the amount of a
\* type from 2 on are covered by nothing.
PooledWasCovered == \A c \in ToSet(pooled) : Covered(c)

\* Get is called for ever for a key that is missing, and opening the database is
\* tried for ever once every handle is leaked or held by such a call.
Missing(c) == pc[c] = "reget" /\ seen[c] = NoWallet
Hopeless(c) ==
    \/ Missing(c)
    \/ /\ pc[c] \in {"open", "retry"}
       /\ leaked + Cardinality({d \in Conns : Missing(d)}) >= Handles

\* If from some time on the databases can be opened and read, which nothing in
\* this code sees to, a connection ends and its timer is off, so that nothing
\* holds it any more, also if the response was written before the timer was set.
\* Excepted are the connections that read for ever, and, when they have taken
\* every thread, all others.
ConnectionsEnd ==
    <>[](db = "works") =>
        \A c \in Conns :
            pc[c] # "absent" ~>
                \/ pc[c] = "done" /\ timer[c] = "off"
                \/ Hopeless(c)
                \/ Cardinality({d \in Conns : Hopeless(d)}) = Threads
=============================================================================
