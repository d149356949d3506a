--------------------------- MODULE RpcServerProofs ---------------------------
(***************************************************************************)
(* What a response of the RPC server says of the transaction, for any set  *)
(* of requests, any number of connections and of threads.                  *)
(***************************************************************************)
EXTENDS RpcServer, TLAPS

\* Where a connection is, in relation to the explorer queue and the pool.
Stages ==
    \A c \in Conns :
        /\ pc[c] \notin {"writing", "done"} => body[c] = << >>
        /\ pc[c] \in {"announce", "pool"} =>
              /\ request[c].method = "transfer"
              /\ Covered(c)
        /\ pc[c] = "announce" => c \notin ToSet(announced)
        /\ pc[c] \in {"absent", "reading", "open", "retry", "get", "reget"} =>
              c \notin ToSet(announced)
        /\ pc[c] = "pool" => c \in ToSet(announced) /\ c \notin ToSet(pooled)
        /\ c \in ToSet(pooled) =>
              /\ pc[c] \in {"writing", "done"}
              /\ body[c] \in {<<Ok>>, <<defaultError>>}
        /\ c \in ToSet(announced) =>
              pc[c] = "pool" \/ c \in ToSet(pooled)

\* A transaction is pooled once.
PooledOnce ==
    \A i, j \in DOMAIN pooled : pooled[i] = pooled[j] => i = j

\* A success is the response of a pooled transfer, or of another method.
SuccessIsPooled ==
    \A c \in Conns :
        request[c].method = "transfer" /\ body[c] = <<Ok>> => c \in ToSet(pooled)

\* The balance stored now is one the sender has had during the request, and so
\* is the one its open database holds.
HeldIsKept ==
    \A c \in Conns :
        /\ pc[c] \in Running => wallets[request[c].tx.from] \in held[c]
        /\ pc[c] \in {"get", "reget"} /\ request[c].method = "transfer" =>
              seen[c] \in held[c]

\* The inductive invariant.
IInv ==
    /\ TypeOK
    /\ OneAnswer
    /\ Stages
    /\ PooledOnce
    /\ SuccessIsPooled
    /\ PooledWasCovered
    /\ HeldIsKept
    /\ ToSet(pooled) \subseteq ToSet(announced)

-----------------------------------------------------------------------------

\* What Append does to the elements of a sequence.
LEMMA AppendElements ==
    ASSUME NEW S, NEW s \in Seq(S), NEW e \in S
    PROVE  /\ Append(s, e) \in Seq(S)
           /\ ToSet(Append(s, e)) = ToSet(s) \cup {e}
           /\ ToSet(s) \subseteq S
<1>1. /\ Append(s, e) \in Seq(S)
      /\ DOMAIN Append(s, e) = 1..(Len(s) + 1)
      /\ DOMAIN s = 1..Len(s)
      /\ Len(s) \in Nat
      /\ \A i \in 1..Len(s) : Append(s, e)[i] = s[i] /\ s[i] \in S
      /\ Append(s, e)[Len(s) + 1] = e
  OBVIOUS
<1>2. ToSet(Append(s, e)) = ToSet(s) \cup {e}
  <2>1. 1..(Len(s) + 1) = (1..Len(s)) \cup {Len(s) + 1}
    BY <1>1
  <2>. QED  BY <1>1, <2>1, Zenon DEF ToSet
<1>. QED  BY <1>1, <1>2 DEF ToSet

\* Every message a handler writes is a code, and it is one message.
LEMMA Messages ==
    ASSUME NEW t \in {r.tx : r \in Requests}, NEW b \in Balances
    PROVE  /\ Refusal(t, b) \in {<< >>, <<badNonce>>, <<invalidSignature>>,
                               <<lowBalance>>, <<Ok>>}
           /\ <<defaultError>> \in Seq(Codes) /\ Len(<<defaultError>>) = 1
           /\ <<Ok>> \in Seq(Codes) /\ Len(<<Ok>>) = 1
           /\ << >> \in Seq(Codes) /\ Len(<< >>) = 0
BY DEF Refusal, Codes, Ok, defaultError

\* Write and Throw as one fact: the response of c is one message.
Answers(c, messages) ==
    /\ messages \in Seq(Codes)
    /\ Len(messages) = 1
    /\ body' = [body EXCEPT ![c] = messages]
    /\ pc' = [pc EXCEPT ![c] = "writing"]
    /\ UNCHANGED <<request, sock, timer, starting, seen>>

\* Write sends exactly the messages it is given.
LEMMA WriteAnswers ==
    ASSUME NEW c \in Conns, NEW m \in Codes, Write(c, <<m>>)
    PROVE  Answers(c, <<m>>)
BY DEF Write, Answers

\* An exception adds the default error only to an empty body.
LEMMA ThrowAnswers ==
    ASSUME NEW c \in Conns, NEW m \in Codes
    PROVE  /\ Throw(c, << >>) => Answers(c, <<defaultError>>)
           /\ Throw(c, <<m>>) => Answers(c, <<m>>)
<1>1. << >> # <<m>>
  OBVIOUS
<1>2. defaultError \in Codes
  BY DEF Codes
<1>. QED  BY <1>1, <1>2 DEF Throw, Write, Answers

\* The requests that have nothing to do with the pool, and the transfers that
\* are refused: one message, and a success is no transfer's.
Dismissed(c) ==
    /\ \E m \in Codes :
          /\ Answers(c, <<m>>)
          /\ m = Ok => request[c].method # "transfer"
    /\ pc[c] \in {"reading", "open", "get", "reget"}
    /\ leaked' \in {leaked, leaked + 1}
    /\ UNCHANGED <<wallets, db, faults, settled, held, poolVars>>

\* The steps that end a request without touching the pool.
LEMMA Dismissals ==
    ASSUME TypeOK, NEW c \in Conns,
           \/ Process(c) \/ PoolSize(c) \/ OpenCorrupt(c) \/ NotFound(c)
           \/ Query(c) \/ Refuse(c)
    PROVE  Dismissed(c)
<1>1. /\ {Ok, lowBalance, invalidMethod, httpMethodError, defaultError, badNonce,
          invalidSignature, parsingError} \subseteq Codes
      /\ Ok \notin {lowBalance, invalidMethod, httpMethodError, defaultError,
                    badNonce, invalidSignature, parsingError}
  BY DEF Codes, Ok, lowBalance, invalidMethod, httpMethodError, defaultError,
         badNonce, invalidSignature, parsingError
<1>2. CASE Process(c)
  BY <1>1, <1>2, WriteAnswers, ThrowAnswers DEF Process, nodeVars, Dismissed
<1>3. CASE PoolSize(c)
  BY <1>1, <1>3, WriteAnswers, ThrowAnswers DEF PoolSize, nodeVars, Dismissed
<1>4. CASE OpenCorrupt(c)
  BY <1>1, <1>4, ThrowAnswers DEF OpenCorrupt, nodeVars, Dismissed
<1>7. CASE NotFound(c)
  BY <1>1, <1>7, ThrowAnswers DEF NotFound, nodeVars, Dismissed
<1>5. CASE Query(c)
  BY <1>1, <1>5, WriteAnswers, ThrowAnswers DEF Query, Got, Dismissed
<1>6. CASE Refuse(c)
  <2>1. request[c].tx \in {r.tx : r \in Requests} /\ seen[c] \in Balances
    BY DEF TypeOK
  <2>2. Refusal(request[c].tx, seen[c]) \in {<< >>, <<badNonce>>, <<invalidSignature>>,
                                    <<lowBalance>>, <<Ok>>}
    BY <2>1, Messages
  <2>. QED  BY <1>1, <1>6, <2>2, ThrowAnswers DEF Refuse, Got, Dismissed
<1>. QED  BY <1>2, <1>3, <1>4, <1>5, <1>6, <1>7

\* The steps of a connection that touch neither a response nor the pool.
Moves(c) ==
    \/ Accept(c) \/ CheckDeadline(c) \/ Deadline(c) \/ ReadFails(c)
    \/ OpenFails(c) \/ GetFails(c) \/ WriteDone(c)

\* The ways a step can be treated in the proofs.
LEMMA NextSplits ==
    Next => \/ \E c \in Conns :
                  \/ Moves(c)
                  \/ \/ Process(c) \/ PoolSize(c) \/ OpenCorrupt(c) \/ NotFound(c)
                     \/ Query(c) \/ Refuse(c)
                  \/ Lookup(c) \/ Open(c) \/ Check(c) \/ Announce(c) \/ EmplaceBack(c)
            \/ Settle \/ DBFails \/ DBRecovers
BY DEF Next, Instruction, Filter, Moves

\* What a transfer that is pooled does to the connection.
LEMMA EmplaceAnswers ==
    ASSUME NEW c \in Conns, EmplaceBack(c)
    PROVE  \E m \in {Ok, defaultError} : Answers(c, <<m>>)
BY WriteAnswers, ThrowAnswers DEF EmplaceBack, Codes

-----------------------------------------------------------------------------
(* Types *)

\* What Settle does, apart.
LEMMA Settles ==
    ASSUME Settle
    PROVE  LET t == request[pooled[settled + 1]].tx
               covered == t.amount <= wallets[t.from]
               debited == IF covered THEN [wallets EXCEPT ![t.from] = @ - t.amount]
                                     ELSE wallets
           IN  /\ settled < Len(pooled)
               /\ settled' = settled + 1
               /\ \/ wallets' = [debited EXCEPT ![t.to] = Credit(@, t.amount)]
                  \/ wallets' = wallets
               /\ held' = [c \in Conns |->
                              IF pc[c] \in Running
                              THEN held[c] \cup {wallets'[request[c].tx.from]} ELSE held[c]]
               /\ UNCHANGED <<connVars, db, leaked, faults, poolVars>>
BY DEF Settle

\* Every step keeps the types.
LEMMA TypeStep == TypeOK /\ [Next]_vars => TypeOK'
<1>. SUFFICES ASSUME TypeOK, [Next]_vars PROVE TypeOK'
  OBVIOUS
<1>. USE DEF TypeOK, Running
<1>1. ASSUME NEW c \in Conns, Moves(c) PROVE TypeOK'
  <2>1. CASE GetFails(c)
    <3>1. MaxFaults \in Nat
      BY ServerAssumption
    <3>. QED  BY <2>1, <3>1 DEF GetFails, Goes, poolVars
  <2>2. CASE OpenFails(c)
    BY <2>2 DEF OpenFails, Goes, nodeVars, poolVars
  <2>3. CASE ~(GetFails(c) \/ OpenFails(c))
    BY <1>1, <2>3 DEF Moves, Accept, CheckDeadline, Deadline, ReadFails, WriteDone,
                      connVars, nodeVars, poolVars
  <2>. QED  BY <2>1, <2>2, <2>3
<1>2. ASSUME NEW c \in Conns,
             \/ Process(c) \/ PoolSize(c) \/ OpenCorrupt(c) \/ NotFound(c)
             \/ Query(c) \/ Refuse(c)
      PROVE  TypeOK'
  <2>1. Dismissed(c)
    BY <1>2, Dismissals
  <2>. QED  BY <2>1 DEF Dismissed, Answers, nodeVars, poolVars
<1>3. ASSUME NEW c \in Conns, Check(c) PROVE TypeOK'
  BY <1>3 DEF Check, Passes, Got, Goes, poolVars
<1>9. ASSUME NEW c \in Conns, Lookup(c) PROVE TypeOK'
  <2>1. request[c].tx.from \in Accounts
    BY ServerAssumption
  <2>. QED  BY <1>9, <2>1 DEF Lookup, poolVars
<1>10. ASSUME NEW c \in Conns, Open(c) PROVE TypeOK'
  <2>1. request[c].tx.from \in Accounts /\ UintSize \in Nat \ {0}
    BY ServerAssumption
  <2>2. {wallets[request[c].tx.from], NoWallet, 0} \subseteq Balances
    BY <2>1 DEF Balances
  <2>3. PICK value \in Balances : seen' = [seen EXCEPT ![c] = value]
    BY <1>10, <2>2 DEF Open
  <2>. QED  BY <1>10, <2>3 DEF Open, Goes, nodeVars, poolVars
<1>4. ASSUME NEW c \in Conns, Announce(c) PROVE TypeOK'
  BY <1>4 DEF Announce, Goes, nodeVars
<1>5. ASSUME NEW c \in Conns, EmplaceBack(c) PROVE TypeOK'
  <2>1. PICK m \in {Ok, defaultError} : Answers(c, <<m>>)
    BY <1>5, EmplaceAnswers
  <2>. QED  BY <1>5, <2>1 DEF EmplaceBack, Answers, nodeVars
<1>6. CASE Settle
  <2>. DEFINE t == request[pooled[settled + 1]].tx
  <2>1. /\ settled + 1 \in DOMAIN pooled
        /\ pooled[settled + 1] \in Conns
    <3>1. settled < Len(pooled)
      BY <1>6, Settles
    <3>. QED  BY <3>1
  <2>2. t.from \in Accounts /\ t.to \in Accounts /\ t.amount \in 0..UintSize - 1
    BY <2>1, ServerAssumption
  <2>. HIDE DEF t
  <2>. DEFINE covered == t.amount <= wallets[t.from]
              debited == IF covered THEN [wallets EXCEPT ![t.from] = @ - t.amount]
                                    ELSE wallets
  <2>3. wallets' \in [Accounts -> Balances]
    <3>0. UintSize \in Nat \ {0}
      BY ServerAssumption
    <3>1. debited \in [Accounts -> Balances]
      <4>1. CASE covered
        <5>1. wallets[t.from] - t.amount \in 0..UintSize - 1
          <6>1. wallets[t.from] \in Balances
            BY <2>2
          <6>2. ASSUME NEW w \in Balances, NEW n \in 0..UintSize - 1, n <= w
                PROVE  w - n \in 0..UintSize - 1
            BY <3>0, <6>2 DEF Balances, NoWallet
          <6>. QED  BY <2>2, <4>1, <6>1, <6>2
        <5>. QED  BY <2>2, <4>1, <5>1 DEF Balances
      <4>2. CASE ~covered
        BY <4>2
      <4>. QED  BY <4>1, <4>2
    <3>. HIDE DEF debited
    <3>2. Credit(debited[t.to], t.amount) \in Balances
      <4>1. debited[t.to] \in Balances
        BY <2>2, <3>1
      <4>2. ASSUME NEW w \in Balances, NEW n \in 0..UintSize - 1
            PROVE  Credit(w, n) \in Balances
        BY <3>0 DEF Credit, Balances, NoWallet
      <4>. QED  BY <2>2, <4>1, <4>2
    <3>3. \/ wallets' = [debited EXCEPT ![t.to] = Credit(@, t.amount)]
          \/ wallets' = wallets
      BY <1>6, Settles DEF t, debited, covered
    <3>. QED  BY <3>1, <3>2, <3>3
  <2>4. /\ settled' \in 0..Len(pooled)
        /\ UNCHANGED <<connVars, db, leaked, faults, poolVars>>
        /\ held' = [c \in Conns |->
                       IF pc[c] \in Running
                       THEN held[c] \cup {wallets'[request[c].tx.from]} ELSE held[c]]
    <3>1. settled < Len(pooled) /\ settled' = settled + 1 /\ UNCHANGED pooled
      BY <1>6, Settles DEF poolVars
    <3>2. settled' \in 0..Len(pooled)
      BY <3>1
    <3>. QED  BY <1>6, <3>2, Settles DEF Running
  <2>5. held' \in [Conns -> SUBSET Balances]
    <3>1. \A c \in Conns : request[c].tx.from \in Accounts
      BY ServerAssumption
    <3>. QED  BY <2>3, <2>4, <3>1
  <2>. QED  BY <2>3, <2>4, <2>5 DEF connVars, poolVars
<1>7. CASE DBFails \/ DBRecovers
  <2>1. MaxFaults \in Nat
    BY ServerAssumption
  <2>. QED  BY <1>7, <2>1 DEF DBFails, DBRecovers, connVars, poolVars
<1>8. CASE UNCHANGED vars
  BY <1>8 DEF vars, connVars, nodeVars, poolVars
<1>. QED  BY <1>1, <1>2, <1>3, <1>4, <1>5, <1>6, <1>7, <1>8, <1>9, <1>10, NextSplits

-----------------------------------------------------------------------------
(* The invariant *)

\* The invariant holds at the start.
LEMMA InvInit == Init => IInv
<1>. SUFFICES ASSUME Init PROVE IInv
  OBVIOUS
<1>1. ToSet(announced) = {} /\ ToSet(pooled) = {} /\ DOMAIN pooled = {}
  BY DEF Init, ToSet
<1>2. TypeOK
  BY ServerAssumption DEF Init, TypeOK, Running, Balances
<1>3. OneAnswer
  BY DEF Init, OneAnswer
<1>4. Stages
  BY <1>1 DEF Init, Stages
<1>5. PooledOnce /\ PooledWasCovered
  BY <1>1 DEF PooledOnce, PooledWasCovered
<1>6. SuccessIsPooled
  BY DEF Init, SuccessIsPooled
<1>7. HeldIsKept
  BY DEF Init, HeldIsKept, Running
<1>. QED  BY <1>1, <1>2, <1>3, <1>4, <1>5, <1>6, <1>7 DEF IInv

\* A step that only lets a connection go on keeps it.
LEMMA Keeps ==
    ASSUME IInv, TypeOK', NEW c \in Conns,
           UNCHANGED <<request, body, seen, wallets, held, poolVars>>,
           \/ pc' = pc
           \/ /\ pc[c] \in {"absent", "reading"}
              /\ pc' = [pc EXCEPT ![c] = pc'[c]]
              /\ pc'[c] \in {"reading", "done"}
           \/ /\ pc[c] = "open"
              /\ pc' = [pc EXCEPT ![c] = "retry"]
           \/ /\ pc[c] = "get"
              /\ pc' = [pc EXCEPT ![c] = "reget"]
           \/ /\ pc[c] = "writing"
              /\ pc' = [pc EXCEPT ![c] = "done"]
    PROVE  IInv'
<1>1. \A d \in Conns : Covered(d)' = Covered(d)
  BY DEF Covered
<1>2. OneAnswer'
  BY DEF IInv, OneAnswer, TypeOK
<1>3. Stages'
  BY <1>1 DEF IInv, Stages, TypeOK, poolVars
<1>4. PooledOnce' /\ SuccessIsPooled' /\ PooledWasCovered'
      /\ (ToSet(pooled) \subseteq ToSet(announced))'
  BY DEF IInv, PooledOnce, SuccessIsPooled, PooledWasCovered, Covered, poolVars
<1>5. HeldIsKept'
  BY DEF IInv, HeldIsKept, Running, TypeOK
<1>. QED  BY <1>2, <1>3, <1>4, <1>5 DEF IInv

\* Every step keeps the invariant.
LEMMA InvStep == IInv /\ [Next]_vars => IInv'
<1>. SUFFICES ASSUME IInv, [Next]_vars PROVE IInv'
  OBVIOUS
<1>. TypeOK /\ TypeOK'
  BY TypeStep DEF IInv
<1>1. ASSUME NEW c \in Conns, Moves(c) PROVE IInv'
  <2>1. UNCHANGED <<request, body, seen, wallets, held, poolVars>>
    BY <1>1 DEF Moves, Accept, CheckDeadline, Deadline, ReadFails, OpenFails, GetFails,
                Goes, WriteDone, nodeVars, poolVars
  <2>2. \/ pc' = pc
        \/ /\ pc[c] \in {"absent", "reading"}
           /\ pc' = [pc EXCEPT ![c] = pc'[c]]
           /\ pc'[c] \in {"reading", "done"}
        \/ /\ pc[c] = "open"
           /\ pc' = [pc EXCEPT ![c] = "retry"]
        \/ /\ pc[c] = "get"
           /\ pc' = [pc EXCEPT ![c] = "reget"]
        \/ /\ pc[c] = "writing"
           /\ pc' = [pc EXCEPT ![c] = "done"]
    BY <1>1 DEF Moves, Accept, CheckDeadline, Deadline, ReadFails, OpenFails, GetFails,
                Goes, WriteDone, TypeOK
  <2>. QED  BY <2>1, <2>2, Keeps
<1>2. ASSUME NEW c \in Conns,
             \/ Process(c) \/ PoolSize(c) \/ OpenCorrupt(c) \/ NotFound(c)
             \/ Query(c) \/ Refuse(c)
      PROVE  IInv'
  <2>1. Dismissed(c)
    BY <1>2, Dismissals
  <2>2. PICK m \in Codes : Answers(c, <<m>>)
                           /\ (m = Ok => request[c].method # "transfer")
    BY <2>1 DEF Dismissed
  <2>3. /\ pc[c] \in {"reading", "open", "get", "reget"}
        /\ pc' = [pc EXCEPT ![c] = "writing"]
        /\ body' = [body EXCEPT ![c] = <<m>>]
        /\ Len(<<m>>) = 1
        /\ UNCHANGED <<request, seen, wallets, held, poolVars>>
    BY <2>1, <2>2 DEF Dismissed, Answers
  <2>4. \A d \in Conns : Covered(d)' = Covered(d)
    BY <2>3 DEF Covered
  <2>5. c \notin ToSet(announced) /\ c \notin ToSet(pooled)
    BY <2>3 DEF IInv, Stages
  <2>6. OneAnswer'
    BY <2>3 DEF IInv, OneAnswer, TypeOK
  <2>7. Stages'
    BY <2>3, <2>4, <2>5 DEF IInv, Stages, TypeOK, poolVars
  <2>8. <<m>> = <<Ok>> => m = Ok
    OBVIOUS
  <2>9. SuccessIsPooled'
    BY <2>2, <2>3, <2>8 DEF IInv, SuccessIsPooled, TypeOK, poolVars
  <2>10. PooledOnce' /\ PooledWasCovered'
         /\ (ToSet(pooled) \subseteq ToSet(announced))'
    BY <2>3 DEF IInv, PooledOnce, PooledWasCovered, Covered, poolVars
  <2>11. HeldIsKept'
    BY <2>3 DEF IInv, HeldIsKept, Running, TypeOK
  <2>. QED  BY <2>6, <2>7, <2>9, <2>10, <2>11 DEF IInv
<1>3. ASSUME NEW c \in Conns, Check(c) PROVE IInv'
  <2>1. /\ pc[c] \in {"get", "reget"}
        /\ pc' = [pc EXCEPT ![c] = "announce"]
        /\ request[c].method = "transfer"
        /\ Refusal(request[c].tx, seen[c]) = <<Ok>>
        /\ seen[c] # NoWallet
        /\ UNCHANGED <<request, body, seen, wallets, held, poolVars>>
    BY <1>3 DEF Check, Passes, Got, Goes
  <2>2. Covered(c)
    <3>. DEFINE t == request[c].tx
    <3>1. /\ seen[c] \in held[c] /\ seen[c] \in Balances
          /\ t.amount \in 0..UintSize - 1 /\ UintSize \in Nat \ {0}
      BY <2>1, ServerAssumption DEF TypeOK, IInv, HeldIsKept
    <3>2. /\ << >> # <<Ok>> /\ <<badNonce>> # <<Ok>>
          /\ <<invalidSignature>> # <<Ok>> /\ <<lowBalance>> # <<Ok>>
      BY DEF Ok, badNonce, invalidSignature, lowBalance
    <3>3. t.nonce # 0 /\ t.signed /\ t.type # 1 /\ (t.type = 0 => ~(seen[c] < t.amount))
      BY <2>1, <3>2 DEF Refusal, ParsedTokens
    <3>4. t.type = 0 => seen[c] >= t.amount
      BY <3>1, <3>3 DEF Balances, NoWallet
    <3>. QED  BY <2>1, <3>1, <3>3, <3>4 DEF Covered
  <2>3. \A d \in Conns : Covered(d)' = Covered(d)
    BY <2>1 DEF Covered
  <2>4. OneAnswer'
    BY <2>1 DEF IInv, OneAnswer, TypeOK
  <2>5. Stages'
    BY <2>1, <2>2, <2>3 DEF IInv, Stages, TypeOK, poolVars
  <2>6. PooledOnce' /\ SuccessIsPooled' /\ PooledWasCovered' /\ HeldIsKept'
        /\ (ToSet(pooled) \subseteq ToSet(announced))'
    BY <2>1 DEF IInv, PooledOnce, SuccessIsPooled, PooledWasCovered, HeldIsKept,
                Covered, Running, TypeOK, poolVars
  <2>. QED  BY <2>4, <2>5, <2>6 DEF IInv
<1>7. ASSUME NEW c \in Conns, Lookup(c) PROVE IInv'
  <2>1. /\ pc[c] = "reading"
        /\ pc' = [pc EXCEPT ![c] = "open"]
        /\ held' = [held EXCEPT ![c] = {wallets[request[c].tx.from]}]
        /\ UNCHANGED <<request, body, seen, wallets, poolVars>>
    BY <1>7 DEF Lookup
  <2>2. c \notin ToSet(announced) /\ c \notin ToSet(pooled)
    BY <2>1 DEF IInv, Stages
  <2>3. \A d \in Conns : d # c => Covered(d)' = Covered(d)
    BY <2>1 DEF Covered, TypeOK
  <2>4. OneAnswer'
    BY <2>1 DEF IInv, OneAnswer, TypeOK
  <2>5. Stages'
    BY <2>1, <2>2, <2>3 DEF IInv, Stages, TypeOK, poolVars
  <2>6. PooledOnce' /\ SuccessIsPooled' /\ (ToSet(pooled) \subseteq ToSet(announced))'
    BY <2>1 DEF IInv, PooledOnce, SuccessIsPooled, poolVars
  <2>7. PooledWasCovered'
    <3>1. ToSet(pooled) \subseteq Conns
      BY DEF TypeOK, ToSet
    <3>. QED  BY <2>1, <2>2, <2>3, <3>1 DEF IInv, PooledWasCovered, poolVars
  <2>8. HeldIsKept'
    BY <2>1 DEF IInv, HeldIsKept, Running, TypeOK
  <2>. QED  BY <2>4, <2>5, <2>6, <2>7, <2>8 DEF IInv
<1>8. ASSUME NEW c \in Conns, Open(c) PROVE IInv'
  <2>1. /\ pc[c] \in {"open", "retry"}
        /\ pc' = [pc EXCEPT ![c] = "get"]
        /\ UNCHANGED <<request, body, wallets, held, poolVars>>
    BY <1>8 DEF Open, Goes, nodeVars
  <2>2. PICK value \in IF request[c].method = "transfer"
                       THEN {wallets[request[c].tx.from]} ELSE {NoWallet, 0} :
            seen' = [seen EXCEPT ![c] = value]
    BY <1>8 DEF Open
  <2>3. \A d \in Conns : Covered(d)' = Covered(d)
    BY <2>1 DEF Covered
  <2>4. OneAnswer'
    BY <2>1 DEF IInv, OneAnswer, TypeOK
  <2>5. Stages'
    BY <2>1, <2>3 DEF IInv, Stages, TypeOK, poolVars
  <2>6. PooledOnce' /\ SuccessIsPooled' /\ PooledWasCovered'
        /\ (ToSet(pooled) \subseteq ToSet(announced))'
    BY <2>1 DEF IInv, PooledOnce, SuccessIsPooled, PooledWasCovered, Covered, poolVars
  <2>7. HeldIsKept'
    BY <2>1, <2>2 DEF IInv, HeldIsKept, Running, TypeOK
  <2>. QED  BY <2>4, <2>5, <2>6, <2>7 DEF IInv
<1>4. ASSUME NEW c \in Conns, Announce(c) PROVE IInv'
  <2>1. /\ pc[c] = "announce"
        /\ pc' = [pc EXCEPT ![c] = "pool"]
        /\ UNCHANGED <<request, body, seen, nodeVars, pooled>>
    BY <1>4 DEF Announce, Goes
  <2>2. ToSet(announced') = ToSet(announced) \cup {c}
    BY <1>4, AppendElements DEF Announce, TypeOK
  <2>3. c \notin ToSet(pooled)
    BY <2>1 DEF IInv, Stages
  <2>4. \A d \in Conns : Covered(d)' = Covered(d)
    BY <2>1 DEF Covered, nodeVars
  <2>5. OneAnswer'
    BY <2>1 DEF IInv, OneAnswer, TypeOK
  <2>6. Stages'
    BY <2>1, <2>2, <2>3, <2>4 DEF IInv, Stages, TypeOK
  <2>7. PooledOnce' /\ SuccessIsPooled' /\ PooledWasCovered' /\ HeldIsKept'
        /\ (ToSet(pooled) \subseteq ToSet(announced))'
    BY <2>1, <2>2 DEF IInv, PooledOnce, SuccessIsPooled, PooledWasCovered,
                      HeldIsKept, Running, TypeOK,
                      Covered, nodeVars
  <2>. QED  BY <2>5, <2>6, <2>7 DEF IInv
<1>5. ASSUME NEW c \in Conns, EmplaceBack(c) PROVE IInv'
  <2>1. PICK m \in {Ok, defaultError} : Answers(c, <<m>>)
    BY <1>5, EmplaceAnswers
  <2>2. /\ pc[c] = "pool"
        /\ pc' = [pc EXCEPT ![c] = "writing"]
        /\ body' = [body EXCEPT ![c] = <<m>>]
        /\ Len(<<m>>) = 1
        /\ UNCHANGED <<request, seen, nodeVars, announced>>
    BY <1>5, <2>1 DEF EmplaceBack, Answers
  <2>3. ToSet(pooled') = ToSet(pooled) \cup {c}
    BY <1>5, AppendElements DEF EmplaceBack, TypeOK
  <2>4. /\ c \in ToSet(announced) /\ c \notin ToSet(pooled)
        /\ Covered(c)
    BY <2>2 DEF IInv, Stages
  <2>5. \A d \in Conns : Covered(d)' = Covered(d)
    BY <2>2 DEF Covered, nodeVars
  <2>6. OneAnswer'
    BY <2>2 DEF IInv, OneAnswer, TypeOK
  <2>7. Stages'
    BY <2>2, <2>3, <2>4, <2>5 DEF IInv, Stages, TypeOK
  <2>8. SuccessIsPooled'
    BY <2>2, <2>3 DEF IInv, SuccessIsPooled, TypeOK
  <2>9. PooledWasCovered'
    <3>1. ToSet(pooled) \subseteq Conns
      BY DEF TypeOK, ToSet
    <3>. QED  BY <2>2, <2>3, <2>4, <2>5, <3>1 DEF IInv, PooledWasCovered
  <2>10. PooledOnce'
    <3>1. /\ DOMAIN pooled' = 1..(Len(pooled) + 1)
          /\ DOMAIN pooled = 1..Len(pooled)
          /\ Len(pooled) \in Nat
          /\ \A i \in 1..Len(pooled) : pooled'[i] = pooled[i]
          /\ pooled'[Len(pooled) + 1] = c
      BY <1>5 DEF EmplaceBack, TypeOK
    <3>2. \A i \in 1..Len(pooled) : pooled[i] # c
      BY <2>4, <3>1 DEF ToSet
    <3>. QED  BY <3>1, <3>2 DEF IInv, PooledOnce
  <2>11. HeldIsKept' /\ (ToSet(pooled) \subseteq ToSet(announced))'
    BY <2>2, <2>3, <2>4 DEF IInv, HeldIsKept, Running, TypeOK,
                         nodeVars
  <2>. QED  BY <2>6, <2>7, <2>8, <2>9, <2>10, <2>11 DEF IInv
<1>6. CASE Settle \/ DBFails \/ DBRecovers \/ UNCHANGED vars
  <2>1. UNCHANGED <<pc, body, request, seen, announced, pooled>>
    BY <1>6 DEF Settle, DBFails, DBRecovers, vars, connVars, poolVars
  <2>2. /\ \A c \in Conns : held[c] \subseteq held'[c]
        /\ HeldIsKept'
    <3>1. CASE Settle
      <4>1. \A c \in Conns : held'[c] = IF pc[c] \in Running
                                        THEN held[c] \cup {wallets'[request[c].tx.from]}
                                        ELSE held[c]
        BY <3>1 DEF Settle
      <4>. QED  BY <2>1, <4>1 DEF IInv, HeldIsKept
    <3>2. CASE DBFails \/ DBRecovers \/ UNCHANGED vars
      <4>1. UNCHANGED <<wallets, held>>
        BY <3>2 DEF DBFails, DBRecovers, vars, nodeVars
      <4>. QED  BY <2>1, <4>1 DEF IInv, HeldIsKept
    <3>. QED  BY <1>6, <3>1, <3>2
  <2>3. \A d \in Conns : Covered(d) => Covered(d)'
    BY <2>1, <2>2 DEF Covered
  <2>4. OneAnswer' /\ PooledOnce' /\ SuccessIsPooled'
        /\ (ToSet(pooled) \subseteq ToSet(announced))'
    BY <2>1 DEF IInv, OneAnswer, PooledOnce, SuccessIsPooled
  <2>5. Stages'
    BY <2>1, <2>3 DEF IInv, Stages
  <2>6. PooledWasCovered'
    <3>1. ToSet(pooled) \subseteq Conns
      BY DEF TypeOK, ToSet
    <3>. QED  BY <2>1, <2>3, <3>1 DEF IInv, PooledWasCovered
  <2>. QED  BY <2>2, <2>4, <2>5, <2>6 DEF IInv
<1>. QED  BY <1>1, <1>2, <1>3, <1>4, <1>5, <1>6, <1>7, <1>8, NextSplits

-----------------------------------------------------------------------------
(* Theorems *)

\* The inductive invariant of the server.
THEOREM ServerInvariant == Spec => []IInv
BY InvInit, InvStep, PTL DEF Spec

\* The state of the connections, the pool and the wallets keeps its types.
THEOREM ServerTypes == Spec => []TypeOK
<1>1. IInv => TypeOK
  BY DEF IInv
<1>. QED  BY <1>1, ServerInvariant, PTL

\* A response is never two messages: the catch of process_instruction and the
\* filters that throw agree on who writes.
THEOREM ResponsesAreSingle == Spec => []OneAnswer
<1>1. IInv => OneAnswer
  BY DEF IInv
<1>. QED  BY <1>1, ServerInvariant, PTL

\* The response to a transfer tells whether BasicTransactionRpcFilter put the
\* transaction into the pool, and it does so at most once.
THEOREM ResponsesTellOutcome == Spec => []AnswerTellsOutcome
<1>1. IInv => AnswerTellsOutcome
  BY DEF IInv, AnswerTellsOutcome, SuccessIsPooled, PooledOnce, Stages
<1>. QED  BY <1>1, ServerInvariant, PTL

\* Explorers hear of exactly the transactions that are in the pool or about to
\* be, in whatever order the threads run the filter.
THEOREM AnnouncementsMatchPool == Spec => []AnnouncedThenPooled
<1>1. IInv => AnnouncedThenPooled
  <2>. SUFFICES ASSUME IInv PROVE AnnouncedThenPooled
    OBVIOUS
  <2>1. ToSet(announced) \subseteq Conns
    BY DEF IInv, TypeOK, ToSet
  <2>. QED  BY <2>1 DEF IInv, AnnouncedThenPooled, Stages
<1>. QED  BY <1>1, ServerInvariant, PTL

\* A pooled transaction was signed by an address that had a wallet during the
\* request, which covered it if it is a transfer, although the wallet is read some
\* steps before the transaction is pooled and the block thread commits in between.
THEOREM PooledTransfersWereCovered == Spec => []PooledWasCovered
<1>1. IInv => PooledWasCovered
  BY DEF IInv
<1>. QED  BY <1>1, ServerInvariant, PTL
=============================================================================
