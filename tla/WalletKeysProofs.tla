-------------------------- MODULE WalletKeysProofs --------------------------
(***************************************************************************)
(* The keys of wallets and nodes, for a group of any prime order, any      *)
(* answers of HMAC-SHA512 and any requests: a result has the keys BIP32    *)
(* gives for its seed and path, and two results have the same keys exactly *)
(* when they are made of the same.  The conversions, for bytes and requests*)
(* of any size: a phrase carries its entropy and checksum, and a Base58    *)
(* text its bytes.                                                         *)
(***************************************************************************)
EXTENDS WalletKeys, SequenceTheorems, FiniteSetTheorems, WellFoundedInduction, TLAPS

-----------------------------------------------------------------------------
(* Sequences *)

\* A sequence, whatever its elements are.
IsSeq(s) == s \in Seq({s[i] : i \in DOMAIN s})

\* A function on 1..n is a sequence of length n.
LEMMA FunctionIsSeq ==
    ASSUME NEW n \in Nat, NEW s, s = [i \in 1..n |-> s[i]]
    PROVE  IsSeq(s) /\ Len(s) = n /\ DOMAIN s = 1..n
<1>1. PICK S : S = {s[i] : i \in 1..n}
  OBVIOUS
<1>2. DOMAIN s = 1..n
  OBVIOUS
<1>3. s \in [1..n -> S]
  BY <1>1, <1>2
<1>4. s \in Seq(S) /\ Len(s) = n
  BY <1>3
<1> QED BY <1>1, <1>2, <1>4 DEF IsSeq

\* What Append makes of a sequence.
LEMMA AppendAny ==
    ASSUME NEW s, IsSeq(s), NEW e
    PROVE  /\ IsSeq(Append(s, e))
           /\ Len(s) \in Nat /\ Len(Append(s, e)) = Len(s) + 1
           /\ \A i \in 1..Len(s) : Append(s, e)[i] = s[i]
           /\ Append(s, e)[Len(s) + 1] = e
           /\ Append(s, e) = [i \in 1..Len(s) + 1 |-> IF i <= Len(s) THEN s[i] ELSE e]
<1>1. PICK S, a, n : S = {s[i] : i \in DOMAIN s} \cup {e} /\ a = Append(s, e) /\ n = Len(s)
  OBVIOUS
<1>2. s \in Seq(S) /\ e \in S
  <2>1. s \in Seq({s[i] : i \in DOMAIN s}) /\ {s[i] : i \in DOMAIN s} \subseteq S
    BY <1>1 DEF IsSeq
  <2> QED BY <2>1, <1>1
<1>3. /\ a \in Seq(S) /\ n \in Nat /\ Len(a) = n + 1
      /\ \A i \in 1..n : a[i] = s[i]
      /\ a[n + 1] = e
  BY <1>1, <1>2, AppendProperties, LenProperties
<1>4. DOMAIN a = 1..n + 1 /\ a = [i \in 1..n + 1 |-> a[i]]
  BY <1>3, LenProperties
<1>5. IsSeq(a)
  <2>1. n + 1 \in Nat
    BY <1>3
  <2> QED BY <2>1, <1>4, FunctionIsSeq
<1>6. a = [i \in 1..n + 1 |-> IF i <= n THEN s[i] ELSE e]
  <2>1. \A i \in 1..n + 1 : a[i] = IF i <= n THEN s[i] ELSE e
    <3> TAKE i \in 1..n + 1
    <3>1. i \in 1..n \/ i = n + 1
      BY <1>3
    <3> QED BY <3>1, <1>3
  <2> QED BY <2>1, <1>4
<1> QED BY <1>1, <1>3, <1>5, <1>6

-----------------------------------------------------------------------------
(* Hexadecimal text *)

\* hex2dec of two characters: the fold is a sum of two numbers.
LEMMA HexOfTwo ==
    ASSUME NEW t \in Seq(0..NotHex), Len(t) = 2
    PROVE  hex2dec(t) = 16 * Spelled(t[1]) + Spelled(t[2])
<1> DEFINE f(i) == IF t[i] = NotHex THEN 0 ELSE t[i] * 16 ^ (Len(t) - i)
           Pick(s) == CHOOSE x \in s : TRUE
           Step(it) == [s \in SUBSET {1, 2} |->
                          IF s = {} THEN 0 ELSE f(Pick(s)) + it[s \ {Pick(s)}]]
           iter == CHOOSE it : it = Step(it)
<1>1. DOMAIN t = {1, 2} /\ t[1] \in 0..16 /\ t[2] \in 0..16
  <2>1. DOMAIN t = 1..2 /\ \A i \in 1..2 : t[i] \in 0..NotHex
    BY LenProperties, ElementOfSeq
  <2>2. 1..2 = {1, 2}
    OBVIOUS
  <2> QED BY <2>1, <2>2 DEF NotHex
<1>2. f(1) = 16 * Spelled(t[1]) /\ f(2) = Spelled(t[2]) /\ f(1) \in Int /\ f(2) \in Int
  BY <1>1 DEF NotHex, Spelled
<1>3. hex2dec(t) = iter[{1, 2}]
  <2>1. hex2dec(t) = MapThenSumSet(f, DOMAIN t)
    BY DEF hex2dec, Total
  <2>2. MapThenSumSet(f, DOMAIN t) = MapThenSumSet(f, {1, 2})
    BY <1>1
  <2> HIDE DEF f
  <2>3. MapThenSumSet(f, {1, 2}) = iter[{1, 2}]
    BY DEF MapThenSumSet, MapThenFoldSet
  <2> QED BY <2>1, <2>2, <2>3
<1> HIDE DEF f
<1>4. PICK x, y : x = f(1) /\ y = f(2)
  OBVIOUS
<1>5. iter = Step(iter)
  <2> DEFINE sum == [s \in SUBSET {1, 2} |->
                       IF s = {} THEN 0 ELSE IF s = {1} THEN x
                       ELSE IF s = {2} THEN y ELSE x + y]
  <2>1. Pick({1}) = 1 /\ Pick({2}) = 2 /\ Pick({1, 2}) \in {1, 2}
    OBVIOUS
  <2>2. sum = Step(sum)
    <3>1. \A s \in SUBSET {1, 2} : sum[s] = Step(sum)[s]
      <4> TAKE s \in SUBSET {1, 2}
      <4>1. s = {} \/ s = {1} \/ s = {2} \/ s = {1, 2}
        OBVIOUS
      <4>2. sum[{}] = 0 /\ sum[{1}] = x /\ sum[{2}] = y /\ sum[{1, 2}] = x + y
        OBVIOUS
      <4> HIDE DEF Pick
      <4>3. /\ Step(sum)[{}] = 0 
            /\ Step(sum)[{1}] = f(Pick({1})) + sum[{1} \ {Pick({1})}]
            /\ Step(sum)[{2}] = f(Pick({2})) + sum[{2} \ {Pick({2})}]
            /\ Step(sum)[{1, 2}] = f(Pick({1, 2})) + sum[{1, 2} \ {Pick({1, 2})}]
        OBVIOUS
      <4>4. {1} \ {1} = {} /\ {2} \ {2} = {} /\ {1, 2} \ {1} = {2} /\ {1, 2} \ {2} = {1}
        OBVIOUS
      <4> HIDE DEF Step, sum
      <4>5. Step(sum)[{1}] = x + 0 /\ Step(sum)[{2}] = y + 0
        BY <4>2, <4>3, <4>4, <2>1, <1>4
      <4>6. Step(sum)[{1, 2}] = x + y \/ Step(sum)[{1, 2}] = y + x
        <5>1. CASE Pick({1, 2}) = 1
          BY <5>1, <4>2, <4>3, <4>4, <1>4
        <5>2. CASE Pick({1, 2}) = 2
          BY <5>2, <4>2, <4>3, <4>4, <1>4
        <5> QED BY <5>1, <5>2, <2>1
      <4>7. x + 0 = x /\ y + 0 = y /\ y + x = x + y
        BY <1>2, <1>4
      <4> QED BY <4>1, <4>2, <4>3, <4>5, <4>6, <4>7
    <3> QED BY <3>1
  <2> HIDE DEF sum, Step
  <2> QED BY <2>2, Zenon
<1>6. iter[{1, 2}] = x + y
  <2>1. PICK g : g = iter /\ g = Step(g)
    BY <1>5, Zenon
  <2>2. Pick({1}) = 1 /\ Pick({2}) = 2 /\ Pick({1, 2}) \in {1, 2}
    OBVIOUS
  <2> HIDE DEF Pick, iter
  <2>3. /\ g[{}] = 0
        /\ g[{1}] = f(Pick({1})) + g[{1} \ {Pick({1})}]
        /\ g[{2}] = f(Pick({2})) + g[{2} \ {Pick({2})}]
        /\ g[{1, 2}] = f(Pick({1, 2})) + g[{1, 2} \ {Pick({1, 2})}]
    <3>1. g = [s \in SUBSET {1, 2} |->
                 IF s = {} THEN 0 ELSE f(Pick(s)) + g[s \ {Pick(s)}]]
      BY <2>1, Zenon
    <3> QED BY <3>1
  <2>4. {1} \ {1} = {} /\ {2} \ {2} = {} /\ {1, 2} \ {1} = {2} /\ {1, 2} \ {2} = {1}
    OBVIOUS
  <2> HIDE DEF Step
  <2>5. g[{1}] = x + 0 /\ g[{2}] = y + 0
    BY <2>2, <2>3, <2>4, <1>4
  <2>6. x + 0 = x /\ y + 0 = y /\ y + x = x + y
    BY <1>2, <1>4
  <2>7. Pick({1, 2}) = 1 => g[{1, 2}] = x + y
    <3> HAVE Pick({1, 2}) = 1
    <3>1. g[{1, 2}] = f(1) + g[{2}]
      BY <2>3, <2>4
    <3> QED BY <3>1, <2>5, <2>6, <1>4
  <2>8. Pick({1, 2}) = 2 => g[{1, 2}] = x + y
    <3> HAVE Pick({1, 2}) = 2
    <3>1. g[{1, 2}] = f(2) + g[{1}]
      BY <2>3, <2>4
    <3> QED BY <3>1, <2>5, <2>6, <1>4
  <2>9. g[{1, 2}] = x + y
    BY <2>2, <2>7, <2>8
  <2> QED BY <2>1, <2>9, Zenon
<1> QED BY <1>2, <1>3, <1>4, <1>6

\* A passphrase spells a byte for each two of its characters.
LEMMA HexBytesSpelled ==
    ASSUME NEW p \in Seq(0..NotHex)
    PROVE  HexBytes(p) = [i \in 1 .. Len(p) \div 2 |->
                            16 * Spelled(p[2 * i - 1]) + Spelled(p[2 * i])]
<1>1. Len(p) \in Nat
  BY LenProperties
<1>2. ASSUME NEW i \in 1 .. Len(p) \div 2
      PROVE  hex2dec(SubSeq(p, 2 * i - 1, 2 * i)) = 16 * Spelled(p[2 * i - 1]) + Spelled(p[2 * i])
  <2>1. PICK m, n, t : m = 2 * i - 1 /\ n = 2 * i /\ t = SubSeq(p, m, n)
    OBVIOUS
  <2>2. m \in 1..Len(p) /\ n \in 1..Len(p) /\ n = m + 1 /\ m <= n
    BY <2>1, <1>1
  <2>3. /\ t \in Seq(0..NotHex) /\ Len(t) = n - m + 1
        /\ \A j \in 1..n - m + 1 : t[j] = p[m + j - 1]
    <3>1. m \in Int /\ n \in Int /\ \A j \in m..n : j \in 1..Len(p)
      BY <2>2, <1>1
    <3>2. \A j \in m..n : p[j] \in 0..NotHex
      BY <3>1, ElementOfSeq
    <3> QED BY <2>1, <2>2, <3>1, <3>2, SubSeqProperties
  <2>4. Len(t) = 2 /\ t[1] = p[m] /\ t[2] = p[n]
    <3>1. n - m + 1 = 2 /\ 1 \in 1..2 /\ 2 \in 1..2 /\ m + 1 - 1 = m /\ m + 2 - 1 = n
      BY <2>2
    <3> QED BY <3>1, <2>3
  <2>5. hex2dec(t) = 16 * Spelled(t[1]) + Spelled(t[2])
    BY <2>3, <2>4, HexOfTwo
  <2> QED BY <2>1, <2>4, <2>5
<1> QED BY <1>2 DEF HexBytes

-----------------------------------------------------------------------------
(* The line of nodes a derivation makes, and what it is made from *)

\* The question HMAC is asked for node d of a line.
Question(seed, path, line, d) ==
    IF d = 1 THEN MasterQuestion(seed) ELSE ChildQuestion(line[d - 1], path[d - 1])

\* The node made of the answer.
NodeOf(path, line, d, question, left) ==
    IF d = 1 THEN gen_master(question, left)
    ELSE gen_child_from_xprv(line[d - 1], path[d - 1], question, left)

\* Every node was made of an answer HMAC gave, h, and none of them failed.
Derived(h, seed, path, line) ==
    \A d \in 1..Len(line) :
        LET q == Question(seed, path, line, d)
        IN  /\ q \in DOMAIN h
            /\ line[d] = NodeOf(path, line, d, q, h[q])
            /\ line[d] # NoNode

\* How a seed comes of what a result is made of.
MakesSeed(made, seed) ==
    \/ /\ made.tag \in {"bytes", "clock"}
       /\ seed = made
    \/ \E phrase, password :
         /\ made = Pbkdf2("pbkdf2", phrase, password)
         /\ seed = phraseToSeed(phrase, password)
    \/ \E p \in Seq(0..NotHex) :
         /\ made = Item("passphrase", p)
         /\ seed = Item("bytes", HexBytes(p))

\* A path of BIP44.
IsPath(path) ==
    /\ path = [i \in 1..5 |-> path[i]]
    /\ \A i \in 1..3 : path[i] \in Nat /\ path[i] >= Hardened
    /\ \A i \in 4..5 : path[i] \in Nat /\ path[i] < Hardened

\* A derivation in progress, or what is left of it in a result.
WellMade(h, j) ==
    /\ IsPath(j.path)
    /\ MakesSeed(j.made, j.mnemonic.seed)
    /\ j.by = "wallet" /\ j.mnemonic.phrase # <<>> => j.made.tag = "pbkdf2"
    /\ IsSeq(j.line)
    /\ Derived(h, j.mnemonic.seed, j.path, j.line)

\* The members of a derivation.
IsJob(j) ==
    j = [by |-> j.by, made |-> j.made, mnemonic |-> j.mnemonic, path |-> j.path,
         line |-> j.line]

\* HMAC answers with numbers; the job and all results come of its answers.  The
\* properties speak of finished results only, and of the answers as they are now:
\* the lines under way, and that no answer is ever changed, carry them there.
KeysInv ==
    /\ hmac = [q \in DOMAIN hmac |-> hmac[q]]
    /\ \A q \in DOMAIN hmac : hmac[q] \in Nat
    /\ IsJob(job)
    /\ job # NoJob => WellMade(hmac, job) /\ Len(job.line) <= 5
    /\ \A w \in results : w.error = "" => WellMade(hmac, w) /\ Len(w.line) = 6

\* generateWallet and generateAddress derive along paths of BIP44.
LEMMA PathsOfBIP44 ==
    ASSUME NEW account \in Nat, NEW change \in Nat, NEW index \in Nat,
           change < Hardened, index < Hardened
    PROVE  IsPath(Path(account, change, index))
<1>1. PICK a, b, c, p : /\ a = Hardened + 44 /\ b = Hardened + 992 /\ c = Hardened + account
                        /\ p = Path(account, change, index)
  OBVIOUS
<1>2. /\ a \in Nat /\ a >= Hardened /\ b \in Nat /\ b >= Hardened
      /\ c \in Nat /\ c >= Hardened
  <2>1. Hardened \in Nat
    BY HardenedAssumption
  <2> QED BY <2>1, <1>1
<1>3. p = <<a, b, c, change, index>>
  BY <1>1 DEF Path
<1>4. p = [i \in 1..5 |-> p[i]] /\ p[1] = a /\ p[2] = b /\ p[3] = c /\ p[4] = change /\ p[5] = index
  <2>1. p[1] = a /\ p[2] = b /\ p[3] = c /\ p[4] = change /\ p[5] = index
    BY <1>3
  <2>2. p \in Seq({a, b, c, change, index}) /\ Len(p) = 5
    BY <1>3
  <2>3. p = [i \in 1..5 |-> p[i]]
    BY <2>2, LenProperties
  <2> QED BY <2>1, <2>3
<1>5. \A i \in 1..3 : i = 1 \/ i = 2 \/ i = 3
  OBVIOUS
<1>6. \A i \in 4..5 : i = 4 \/ i = 5
  OBVIOUS
<1>7. \A i \in 1..3 : p[i] \in Nat /\ p[i] >= Hardened
  BY <1>2, <1>4, <1>5
<1>8. \A i \in 4..5 : p[i] \in Nat /\ p[i] < Hardened
  BY <1>4, <1>6
<1> QED BY <1>1, <1>4, <1>7, <1>8 DEF IsPath

\* A derivation that begins.
LEMMA BeginIsWellMade ==
    ASSUME NEW h, NEW by, NEW made, NEW mnemonic, NEW path, IsPath(path),
           MakesSeed(made, mnemonic.seed),
           by = "wallet" /\ mnemonic.phrase # <<>> => made.tag = "pbkdf2",
           Begin(by, made, mnemonic, path)
    PROVE  IsJob(job') /\ WellMade(h, job') /\ Len(job'.line) <= 5
<1>1. job' = [by |-> by, made |-> made, mnemonic |-> mnemonic, path |-> path, line |-> <<>>]
  BY DEF Begin
<1>2. /\ job'.by = by /\ job'.made = made /\ job'.mnemonic = mnemonic
      /\ job'.path = path /\ job'.line = <<>>
  BY <1>1
<1>3. IsJob(job')
  BY <1>1, <1>2 DEF IsJob
<1>4. Len(<<>>) = 0 /\ IsSeq(<<>>)
  BY DEF IsSeq
<1>5. Derived(h, mnemonic.seed, path, <<>>)
  BY <1>4 DEF Derived
<1>6. Len(job'.line) <= 5
  BY <1>2, <1>4
<1> QED BY <1>2, <1>3, <1>4, <1>5, <1>6 DEF WellMade

\* What was derived from HMAC's answers stays so when it gives more of them.
LEMMA MoreAnswers ==
    ASSUME NEW h, NEW g, DOMAIN h \subseteq DOMAIN g, \A q \in DOMAIN h : g[q] = h[q],
           NEW j, WellMade(h, j)
    PROVE  WellMade(g, j)
<1>1. Derived(g, j.mnemonic.seed, j.path, j.line)
  BY DEF WellMade, Derived
<1> QED BY <1>1 DEF WellMade

\* A derivation goes on by a node.
LEMMA NodeAppended ==
    ASSUME NEW h, NEW seed, NEW path, NEW line, IsSeq(line), Derived(h, seed, path, line),
           NEW q, q = Question(seed, path, line, Len(line) + 1), q \in DOMAIN h,
           NEW node, node = NodeOf(path, line, Len(line) + 1, q, h[q]), node # NoNode
    PROVE  /\ IsSeq(Append(line, node)) /\ Len(Append(line, node)) = Len(line) + 1
           /\ Derived(h, seed, path, Append(line, node))
<1>1. PICK n, a : n = Len(line) /\ a = Append(line, node)
  OBVIOUS
<1>2. /\ IsSeq(a) /\ n \in Nat /\ Len(a) = n + 1
      /\ \A i \in 1..n : a[i] = line[i]
      /\ a[n + 1] = node
  BY <1>1, AppendAny
<1>3. ASSUME NEW d \in 1..n + 1
      PROVE  /\ Question(seed, path, a, d) = Question(seed, path, line, d)
             /\ \A u, left : NodeOf(path, a, d, u, left) = NodeOf(path, line, d, u, left)
  <2>1. d = 1 \/ a[d - 1] = line[d - 1]
    BY <1>2
  <2> QED BY <2>1 DEF Question, NodeOf
<1>4. ASSUME NEW d \in 1..n + 1
      PROVE  /\ Question(seed, path, a, d) \in DOMAIN h
             /\ a[d] = NodeOf(path, a, d, Question(seed, path, a, d),
                              h[Question(seed, path, a, d)])
             /\ a[d] # NoNode
  <2>1. CASE d \in 1..n
    <3>1. /\ Question(seed, path, line, d) \in DOMAIN h
          /\ line[d] = NodeOf(path, line, d, Question(seed, path, line, d),
                              h[Question(seed, path, line, d)])
          /\ line[d] # NoNode
      BY <2>1, <1>1 DEF Derived
    <3> QED BY <3>1, <2>1, <1>2, <1>3
  <2>2. CASE d = n + 1
    BY <2>2, <1>1, <1>2, <1>3
  <2> QED BY <2>1, <2>2, <1>2
<1>5. Derived(h, seed, path, a)
  BY <1>2, <1>4 DEF Derived
<1> QED BY <1>1, <1>2, <1>5

\* HMAC gives a new answer, or the old one again.
Answered(q, left) ==
    /\ hmac' = [u \in DOMAIN hmac \cup {q} |-> IF u = q THEN left ELSE hmac[u]]
    /\ left \in Nat
    /\ q \in DOMAIN hmac => left = hmac[q]

\* No answer is lost or changed.
LEMMA AnswersAreKept ==
    ASSUME hmac = [u \in DOMAIN hmac |-> hmac[u]], \A u \in DOMAIN hmac : hmac[u] \in Nat,
           NEW q, NEW left, Answered(q, left)
    PROVE  /\ hmac' = [u \in DOMAIN hmac' |-> hmac'[u]]
           /\ \A u \in DOMAIN hmac' : hmac'[u] \in Nat
           /\ q \in DOMAIN hmac' /\ hmac'[q] = left
           /\ DOMAIN hmac \subseteq DOMAIN hmac'
           /\ \A u \in DOMAIN hmac : hmac'[u] = hmac[u]
<1> QED BY DEF Answered

\* Derive asks for the next node of the line.
LEMMA DeriveAsks ==
    ASSUME KeysInv, Derive
    PROVE  /\ job # NoJob
           /\ \E q, left, node :
                /\ Answered(q, left)
                /\ q = Question(job.mnemonic.seed, job.path, job.line, Len(job.line) + 1)
                /\ node = NodeOf(job.path, job.line, Len(job.line) + 1, q, left)
                /\ \/ /\ job' = NoJob
                      /\ \E error \in {"BAD MASTER", "BAD PUPROSE", "BAD COINTYPE",
                                       "BAD ACCOUNT", "BAD CHANGE NODE", "BAD ADDRESS"} :
                            results' = results \cup {Result(job, error, NoAddress)}
                   \/ /\ node # NoNode /\ Len(job.line) < 5 /\ UNCHANGED results
                      /\ job' = [job EXCEPT !.line = Append(@, node)]
                   \/ /\ node # NoNode /\ Len(job.line) = 5 /\ job' = NoJob
                      /\ \E a : results' = results \cup
                            {Result([job EXCEPT !.line = Append(@, node)], "", a)}
<1>1. job # NoJob
  BY DEF Derive, Idle
<1>2. IsSeq(job.line) /\ Len(job.line) <= 5
  BY <1>1 DEF KeysInv, WellMade
<1>3. PICK depth : depth = Len(job.line)
  OBVIOUS
<1>4. depth \in 0..5
  <2>1. depth \in Nat
    BY <1>2, <1>3, AppendAny
  <2>2. depth <= 5
    BY <1>2, <1>3, Zenon
  <2> QED BY <2>1, <2>2
<1>5. PICK question : question = IF depth = 0 THEN MasterQuestion(job.mnemonic.seed)
                                 ELSE ChildQuestion(Last(job.line), job.path[depth])
  OBVIOUS
<1>6. PICK left, node :
        /\ left \in (IF question \in DOMAIN hmac THEN {hmac[question]} ELSE Lefts(depth))
        /\ node = IF depth = 0 THEN gen_master(question, left)
                  ELSE gen_child_from_xprv(Last(job.line), job.path[depth], question, left)
        /\ hmac' = [u \in DOMAIN hmac \cup {question} |-> IF u = question THEN left ELSE hmac[u]]
        /\ \/ /\ node = NoNode
              /\ results' = results \cup {Result(job, Errors[depth + 1], NoAddress)}
              /\ job' = NoJob
           \/ /\ node # NoNode /\ depth < 5
              /\ job' = [job EXCEPT !.line = Append(@, node)]
              /\ UNCHANGED results
           \/ /\ node # NoNode /\ depth = 5
              /\ \E a \in pub2addr(node.pub) :
                   results' = results \cup {Result([job EXCEPT !.line = Append(@, node)], "", a)}
              /\ job' = NoJob
  <2> DEFINE dep == Len(job.line)
             que == IF dep = 0 THEN MasterQuestion(job.mnemonic.seed)
                    ELSE ChildQuestion(Last(job.line), job.path[dep])
             ans == IF que \in DOMAIN hmac THEN {hmac[que]} ELSE Lefts(dep)
             nod(l) == IF dep = 0 THEN gen_master(que, l)
                       ELSE gen_child_from_xprv(Last(job.line), job.path[dep], que, l)
             nxt(l) == [job EXCEPT !.line = Append(@, nod(l))]
  <2>1. \E l \in ans :
          /\ hmac' = [q \in DOMAIN hmac \cup {que} |-> IF q = que THEN l ELSE hmac[q]]
          /\ \/ /\ nod(l) = NoNode
                /\ results' = results \cup {Result(job, Errors[dep + 1], NoAddress)}
                /\ job' = NoJob
             \/ /\ nod(l) # NoNode /\ dep < 5
                /\ job' = nxt(l)
                /\ UNCHANGED results
             \/ /\ nod(l) # NoNode /\ dep = 5
                /\ \E a \in pub2addr(nod(l).pub) : results' = results \cup {Result(nxt(l), "", a)}
                /\ job' = NoJob
    BY Zenon DEF Derive
  <2>2. PICK l \in ans :
          /\ hmac' = [q \in DOMAIN hmac \cup {que} |-> IF q = que THEN l ELSE hmac[q]]
          /\ \/ /\ nod(l) = NoNode
                /\ results' = results \cup {Result(job, Errors[dep + 1], NoAddress)}
                /\ job' = NoJob
             \/ /\ nod(l) # NoNode /\ dep < 5
                /\ job' = nxt(l)
                /\ UNCHANGED results
             \/ /\ nod(l) # NoNode /\ dep = 5
                /\ \E a \in pub2addr(nod(l).pub) : results' = results \cup {Result(nxt(l), "", a)}
                /\ job' = NoJob
    <3> HIDE DEF ans, nod, nxt, que, dep
    <3> QED BY <2>1, Zenon
  <2>3. depth = dep /\ question = que
    BY <1>3, <1>5, Zenon
  <2>4. nxt(l) = [job EXCEPT !.line = Append(@, nod(l))]
    BY Zenon
  <2>5. nod(l) = IF depth = 0 THEN gen_master(question, l)
                 ELSE gen_child_from_xprv(Last(job.line), job.path[depth], question, l)
    BY <1>3, <1>5, Zenon
  <2>6. l \in (IF question \in DOMAIN hmac THEN {hmac[question]} ELSE Lefts(depth))
    BY <2>2, <2>3, Zenon
  <2> HIDE DEF nod, nxt, que, dep, ans
  <2>7. PICK node : node = nod(l)
    OBVIOUS
  <2>8. hmac' = [u \in DOMAIN hmac \cup {question} |-> IF u = question THEN l ELSE hmac[u]]
    BY <2>2, <2>3
  <2>9. nxt(l) = [job EXCEPT !.line = Append(@, node)]
    BY <2>4, <2>7, Zenon
  <2>10. \/ /\ node = NoNode
            /\ results' = results \cup {Result(job, Errors[depth + 1], NoAddress)}
            /\ job' = NoJob
         \/ /\ node # NoNode /\ depth < 5
            /\ job' = [job EXCEPT !.line = Append(@, node)]
            /\ UNCHANGED results
         \/ /\ node # NoNode /\ depth = 5
            /\ \E a \in pub2addr(node.pub) :
                 results' = results \cup {Result([job EXCEPT !.line = Append(@, node)], "", a)}
            /\ job' = NoJob
    <3>1. CASE /\ nod(l) = NoNode
               /\ results' = results \cup {Result(job, Errors[dep + 1], NoAddress)}
               /\ job' = NoJob
      BY <3>1, <2>3, <2>7, Zenon
    <3>2. CASE /\ nod(l) # NoNode /\ dep < 5
               /\ job' = nxt(l)
               /\ UNCHANGED results
      BY <3>2, <2>3, <2>7, <2>9, Zenon
    <3>3. CASE /\ nod(l) # NoNode /\ dep = 5
               /\ \E a \in pub2addr(nod(l).pub) : results' = results \cup {Result(nxt(l), "", a)}
               /\ job' = NoJob
      BY <3>3, <2>3, <2>7, <2>9, Zenon
    <3> QED BY <3>1, <3>2, <3>3, <2>2, Zenon
  <2> QED BY <2>5, <2>6, <2>7, <2>8, <2>10, Zenon
<1>7. left \in Nat
  <2>1. Lefts(depth) \subseteq Nat
    BY <1>4, AnswersAssumption
  <2> QED BY <2>1, <1>6 DEF KeysInv
<1>8. Answered(question, left)
  BY <1>6, <1>7 DEF Answered
<1>9. depth + 1 = 1 <=> depth = 0
  BY <1>4
<1>10. (depth + 1) - 1 = depth /\ Last(job.line) = job.line[depth]
  BY <1>3, <1>4 DEF Last
<1>11. question = Question(job.mnemonic.seed, job.path, job.line, depth + 1)
  BY <1>5, <1>9, <1>10 DEF Question
<1>12. node = NodeOf(job.path, job.line, depth + 1, question, left)
  BY <1>6, <1>9, <1>10 DEF NodeOf
<1>13. Errors[depth + 1] \in {"BAD MASTER", "BAD PUPROSE", "BAD COINTYPE",
                              "BAD ACCOUNT", "BAD CHANGE NODE", "BAD ADDRESS"}
  <2>1. depth + 1 \in 1..6
    BY <1>4
  <2>2. Len(Errors) = 6
    BY DEF Errors
  <2>3. Errors \in Seq({"BAD MASTER", "BAD PUPROSE", "BAD COINTYPE",
                        "BAD ACCOUNT", "BAD CHANGE NODE", "BAD ADDRESS"})
    BY DEF Errors
  <2> QED BY <2>1, <2>2, <2>3, ElementOfSeq
<1>14. \/ /\ job' = NoJob
          /\ \E error \in {"BAD MASTER", "BAD PUPROSE", "BAD COINTYPE",
                           "BAD ACCOUNT", "BAD CHANGE NODE", "BAD ADDRESS"} :
                results' = results \cup {Result(job, error, NoAddress)}
       \/ /\ node # NoNode /\ depth < 5 /\ UNCHANGED results
          /\ job' = [job EXCEPT !.line = Append(@, node)]
       \/ /\ node # NoNode /\ depth = 5 /\ job' = NoJob
          /\ \E a : results' = results \cup
                {Result([job EXCEPT !.line = Append(@, node)], "", a)}
  BY <1>6, <1>13, Zenon
<1>15. /\ question = Question(job.mnemonic.seed, job.path, job.line, Len(job.line) + 1)
       /\ node = NodeOf(job.path, job.line, Len(job.line) + 1, question, left)
  BY <1>3, <1>11, <1>12, Zenon
<1>16. \/ /\ job' = NoJob
          /\ \E error \in {"BAD MASTER", "BAD PUPROSE", "BAD COINTYPE",
                           "BAD ACCOUNT", "BAD CHANGE NODE", "BAD ADDRESS"} :
                results' = results \cup {Result(job, error, NoAddress)}
       \/ /\ node # NoNode /\ Len(job.line) < 5 /\ UNCHANGED results
          /\ job' = [job EXCEPT !.line = Append(@, node)]
       \/ /\ node # NoNode /\ Len(job.line) = 5 /\ job' = NoJob
          /\ \E a : results' = results \cup
                {Result([job EXCEPT !.line = Append(@, node)], "", a)}
  BY <1>3, <1>14, Zenon
<1> QED BY <1>1, <1>8, <1>15, <1>16, Zenon

\* A result is well made if its derivation is.
LEMMA ResultIsWellMade ==
    ASSUME NEW h, NEW j, WellMade(h, j), NEW a, NEW w, w = Result(j, "", a)
    PROVE  WellMade(h, w) /\ w.line = j.line
<1>1. /\ w.by = j.by /\ w.made = j.made /\ w.mnemonic = j.mnemonic
      /\ w.path = j.path /\ w.line = j.line
  BY DEF Result
<1> QED BY <1>1 DEF WellMade

\* Derive keeps the invariant: no answer changes, and a line that grows is still
\* derived from them.
LEMMA DeriveStep ==
    ASSUME KeysInv, Derive
    PROVE  KeysInv'
<1>1. job # NoJob /\ WellMade(hmac, job) /\ Len(job.line) <= 5 /\ IsJob(job)
  BY DeriveAsks DEF KeysInv
<1>2. PICK q, left, node :
        /\ Answered(q, left)
        /\ q = Question(job.mnemonic.seed, job.path, job.line, Len(job.line) + 1)
        /\ node = NodeOf(job.path, job.line, Len(job.line) + 1, q, left)
        /\ \/ /\ job' = NoJob
              /\ \E error \in {"BAD MASTER", "BAD PUPROSE", "BAD COINTYPE",
                               "BAD ACCOUNT", "BAD CHANGE NODE", "BAD ADDRESS"} :
                    results' = results \cup {Result(job, error, NoAddress)}
           \/ /\ node # NoNode /\ Len(job.line) < 5 /\ UNCHANGED results
              /\ job' = [job EXCEPT !.line = Append(@, node)]
           \/ /\ node # NoNode /\ Len(job.line) = 5 /\ job' = NoJob
              /\ \E a : results' = results \cup
                    {Result([job EXCEPT !.line = Append(@, node)], "", a)}
  BY DeriveAsks, Zenon
<1>3. /\ hmac' = [u \in DOMAIN hmac' |-> hmac'[u]]
      /\ \A u \in DOMAIN hmac' : hmac'[u] \in Nat
      /\ q \in DOMAIN hmac' /\ hmac'[q] = left
      /\ DOMAIN hmac \subseteq DOMAIN hmac'
      /\ \A u \in DOMAIN hmac : hmac'[u] = hmac[u]
  <2>1. hmac = [u \in DOMAIN hmac |-> hmac[u]] /\ \A u \in DOMAIN hmac : hmac[u] \in Nat
    BY DEF KeysInv
  <2> QED BY <2>1, <1>2, AnswersAreKept
<1>4. WellMade(hmac', job)
  BY <1>1, <1>3, MoreAnswers
<1>5. \A w \in results : w.error = "" => WellMade(hmac', w) /\ Len(w.line) = 6
  <2> TAKE w \in results
  <2> HAVE w.error = ""
  <2>1. WellMade(hmac, w) /\ Len(w.line) = 6
    BY DEF KeysInv
  <2> QED BY <2>1, <1>3, MoreAnswers
<1>6. IsJob(NoJob)
  BY DEF IsJob, NoJob
<1>7. PICK next : next = [job EXCEPT !.line = Append(@, node)]
  OBVIOUS
<1>8. ASSUME node # NoNode
      PROVE  IsJob(next) /\ WellMade(hmac', next) /\ Len(next.line) = Len(job.line) + 1
  <2>1. PICK seed, path, line, h :
          /\ seed = job.mnemonic.seed /\ path = job.path /\ line = job.line /\ h = hmac'
    OBVIOUS
  <2>2. IsSeq(line) /\ Derived(h, seed, path, line)
    BY <2>1, <1>4 DEF WellMade
  <2>3. /\ q = Question(seed, path, line, Len(line) + 1) /\ q \in DOMAIN h
        /\ node = NodeOf(path, line, Len(line) + 1, q, h[q])
    BY <2>1, <1>2, <1>3, Zenon
  <2>4. /\ IsSeq(Append(line, node)) /\ Len(Append(line, node)) = Len(line) + 1
        /\ Derived(h, seed, path, Append(line, node))
    BY <2>2, <2>3, <1>8, NodeAppended
  <2>5. next = [by |-> job.by, made |-> job.made, mnemonic |-> job.mnemonic,
                path |-> job.path, line |-> Append(job.line, node)]
    BY <1>1, <1>7 DEF IsJob
  <2>6. /\ next.by = job.by /\ next.made = job.made /\ next.mnemonic = job.mnemonic
        /\ next.path = job.path /\ next.line = Append(job.line, node)
    BY <2>5
  <2>7. IsJob(next)
    BY <2>5, <2>6 DEF IsJob
  <2>8. Len(next.line) = Len(job.line) + 1
    BY <2>1, <2>4, <2>6, Zenon
  <2>9. WellMade(hmac', next)
    <3>1. /\ IsPath(job.path) /\ MakesSeed(job.made, job.mnemonic.seed)
          /\ job.by = "wallet" /\ job.mnemonic.phrase # <<>> => job.made.tag = "pbkdf2"
      BY <1>4 DEF WellMade
    <3>2. IsSeq(Append(job.line, node)) /\ Derived(hmac', job.mnemonic.seed, job.path, Append(job.line, node))
      BY <2>1, <2>4, Zenon
    <3> QED BY <3>1, <3>2, <2>6, Zenon DEF WellMade
  <2> QED BY <2>7, <2>8, <2>9
<1>9. CASE /\ job' = NoJob
           /\ \E error \in {"BAD MASTER", "BAD PUPROSE", "BAD COINTYPE",
                            "BAD ACCOUNT", "BAD CHANGE NODE", "BAD ADDRESS"} :
                 results' = results \cup {Result(job, error, NoAddress)}
  <2>1. PICK error \in {"BAD MASTER", "BAD PUPROSE", "BAD COINTYPE",
                        "BAD ACCOUNT", "BAD CHANGE NODE", "BAD ADDRESS"} :
          results' = results \cup {Result(job, error, NoAddress)}
    BY <1>9
  <2>2. error # "" /\ Result(job, error, NoAddress).error = error
    BY DEF Result
  <2>3. \A w \in results' : w.error = "" => WellMade(hmac', w) /\ Len(w.line) = 6
    BY <2>1, <2>2, <1>5
  <2> QED BY <2>3, <1>3, <1>6, <1>9 DEF KeysInv
<1>10. CASE /\ node # NoNode /\ Len(job.line) < 5 /\ UNCHANGED results
            /\ job' = [job EXCEPT !.line = Append(@, node)]
  <2>1. job' = next
    BY <1>7, <1>10, Zenon
  <2>2. Len(job.line) < 5 /\ Len(next.line) = Len(job.line) + 1 /\ Len(job.line) \in Nat
    <3>1. IsSeq(job.line)
      BY <1>1 DEF WellMade
    <3> QED BY <3>1, <1>8, <1>10, AppendAny
  <2>3. Len(next.line) <= 5
    BY <2>2
  <2> QED BY <2>1, <2>3, <1>3, <1>5, <1>8, <1>10 DEF KeysInv
<1>11. CASE /\ node # NoNode /\ Len(job.line) = 5 /\ job' = NoJob
            /\ \E a : results' = results \cup
                  {Result([job EXCEPT !.line = Append(@, node)], "", a)}
  <2>1. PICK a, r : r = Result(next, "", a) /\ results' = results \cup {r}
    BY <1>7, <1>11, Zenon
  <2>2. WellMade(hmac', r) /\ r.line = next.line
    BY <2>1, <1>8, <1>11, ResultIsWellMade
  <2>3. Len(next.line) = Len(job.line) + 1 /\ Len(job.line) = 5
    BY <1>8, <1>11
  <2>4. Len(r.line) = 6
    BY <2>2, <2>3
  <2>5. \A w \in results' : w.error = "" => WellMade(hmac', w) /\ Len(w.line) = 6
    BY <2>1, <2>2, <2>4, <1>5
  <2> QED BY <2>5, <1>3, <1>6, <1>11 DEF KeysInv
<1> QED BY <1>2, <1>9, <1>10, <1>11

\* No derivation has begun.
LEMMA KeysInit ==
    ASSUME Init
    PROVE  KeysInv
<1>1. hmac = [q \in {} |-> 0] /\ job = NoJob /\ results = {}
  BY DEF Init
<1>2. IsJob(job)
  BY <1>1 DEF IsJob, NoJob
<1> QED BY <1>1, <1>2 DEF KeysInv

\* A call that begins a derivation and does nothing else.
LEMMA BeginStep ==
    ASSUME KeysInv, hmac' = hmac, results' = results,
           NEW by, NEW made, NEW mnemonic, NEW path, IsPath(path),
           MakesSeed(made, mnemonic.seed),
           by = "wallet" /\ mnemonic.phrase # <<>> => made.tag = "pbkdf2",
           Begin(by, made, mnemonic, path)
    PROVE  KeysInv'
<1>1. IsJob(job') /\ WellMade(hmac, job') /\ Len(job'.line) <= 5
  BY BeginIsWellMade
<1> QED BY <1>1 DEF KeysInv

\* What a phrase and a password make.
LEMMA PhraseMakesSeed ==
    ASSUME NEW phrase, NEW password, NEW made, NEW seed,
           made = Pbkdf2("pbkdf2", phrase, password), seed = phraseToSeed(phrase, password)
    PROVE  MakesSeed(made, seed) /\ made.tag = "pbkdf2"
<1>1. made.tag = "pbkdf2"
  BY DEF Pbkdf2
<1>2. MakesSeed(made, seed)
  BY Zenon DEF MakesSeed
<1> QED BY <1>1, <1>2

\* generateWallet begins with the seed of the phrase it draws, or the empty one.
LEMMA WalletStep ==
    ASSUME KeysInv, NEW r \in Requests, generateWallet(r)
    PROVE  KeysInv'
<1>1. PICK mnemonic, made, path, bad :
        /\ mnemonic = BIP39Result(r) /\ path = Path(r.account, r.change, 0)
        /\ made = IF r.ones = RandFailed THEN EmptySeed
                  ELSE Pbkdf2("pbkdf2", mnemonic.phrase, r.password)
        /\ bad = IF r.len \notin {12, 24} THEN "BAD PHRASE"
                 ELSE IF r.change \notin {0, 1} THEN "BAD CHANGE" ELSE ""
  OBVIOUS
<1>2. /\ hmac' = hmac
      /\ \/ bad # "" /\ results' = results \cup {Result(NoJob, bad, NoAddress)} /\ job' = job
         \/ bad = "" /\ Begin("wallet", made, mnemonic, path) /\ results' = results
  BY <1>1, Zenon DEF generateWallet
<1>3. CASE bad # "" /\ results' = results \cup {Result(NoJob, bad, NoAddress)} /\ job' = job
  <2>1. Result(NoJob, bad, NoAddress).error = bad
    BY DEF Result
  <2> QED BY <2>1, <1>2, <1>3 DEF KeysInv
<1>4. CASE bad = "" /\ Begin("wallet", made, mnemonic, path) /\ results' = results
  <2>1. r.change \in {0, 1}
    BY <1>1, <1>4
  <2>2. r.account \in Nat
    BY RequestsAssumption
  <2>3. IsPath(path)
    <3>1. PICK account, change, index : account = r.account /\ change = r.change /\ index = 0
      OBVIOUS
    <3>2. /\ account \in Nat /\ change \in Nat /\ index \in Nat
          /\ change < Hardened /\ index < Hardened
      BY <3>1, <2>1, <2>2, HardenedAssumption
    <3>3. IsPath(Path(account, change, index))
      BY <3>2, PathsOfBIP44
    <3> QED BY <3>1, <3>3, <1>1, Zenon
  <2>4. /\ MakesSeed(made, mnemonic.seed)
        /\ mnemonic.phrase # <<>> => made.tag = "pbkdf2"
    <3>1. CASE r.ones = RandFailed
      <4>1. made = EmptySeed /\ mnemonic = [phrase |-> <<>>, seed |-> EmptySeed]
        BY <3>1, <1>1 DEF BIP39Result
      <4>2. made.tag = "bytes" /\ mnemonic.seed = made /\ mnemonic.phrase = <<>>
        BY <4>1 DEF EmptySeed, Item
      <4> QED BY <4>2 DEF MakesSeed
    <3>2. CASE r.ones # RandFailed
      <4>1. PICK phrase : phrase = generateMnemonic(r.len, r.ones)
        OBVIOUS
      <4>2. mnemonic = [phrase |-> phrase, seed |-> phraseToSeed(phrase, r.password)]
        BY <3>2, <4>1, <1>1 DEF BIP39Result
      <4>3. mnemonic.phrase = phrase /\ mnemonic.seed = phraseToSeed(phrase, r.password)
        BY <4>2
      <4>4. made = Pbkdf2("pbkdf2", phrase, r.password)
        BY <3>2, <4>3, <1>1
      <4> QED BY <4>3, <4>4, PhraseMakesSeed
    <3> QED BY <3>1, <3>2
  <2> QED BY <2>3, <2>4, <1>2, <1>4, BeginStep
<1> QED BY <1>2, <1>3, <1>4

\* The path of another address of a wallet's account.
LEMMA PathOfAccount ==
    ASSUME NEW p, IsPath(p), NEW index \in Nat, index < Hardened
    PROVE  IsPath(Path(p[3] - Hardened, p[4], index))
<1>1. p[3] \in Nat /\ p[3] >= Hardened /\ p[4] \in Nat /\ p[4] < Hardened
  BY DEF IsPath
<1>2. PICK account, change : account = p[3] - Hardened /\ change = p[4]
  OBVIOUS
<1>3. account \in Nat /\ change \in Nat /\ change < Hardened
  BY <1>1, <1>2, HardenedAssumption
<1>4. IsPath(Path(account, change, index))
  BY <1>3, PathsOfBIP44
<1> QED BY <1>2, <1>4, Zenon

\* generateAddress begins with the seed a wallet was returned with.
LEMMA AddressStep ==
    ASSUME KeysInv, NEW w \in results, NEW index \in Indexes, generateAddress(w, index)
    PROVE  KeysInv'
<1>1. PICK path : path = Path(w.path[3] - Hardened, w.path[4], index)
  OBVIOUS
<1>2. /\ hmac' = hmac /\ results' = results /\ w.by = "wallet" /\ w.error = ""
      /\ Begin("wallet", w.made, w.mnemonic, path)
  BY <1>1 DEF generateAddress
<1>3. index \in Nat /\ index < Hardened
  BY RequestsAssumption, HardenedAssumption
<1>4. IsPath(path)
  <2>1. PICK p : p = w.path
    OBVIOUS
  <2>2. IsPath(p)
    BY <2>1, <1>2 DEF KeysInv, WellMade
  <2>3. IsPath(Path(p[3] - Hardened, p[4], index))
    BY <2>2, <1>3, PathOfAccount
  <2> QED BY <2>1, <2>3, <1>1, Zenon
<1>5. WellMade(hmac, w)
  BY <1>2 DEF KeysInv
<1>6. MakesSeed(w.made, w.mnemonic.seed) /\ (w.mnemonic.phrase # <<>> => w.made.tag = "pbkdf2")
  BY <1>2, <1>5 DEF WellMade
<1> QED BY <1>2, <1>4, <1>6, BeginStep

\* A wallet is restored from its phrase and a password.
LEMMA RestoreStep ==
    ASSUME KeysInv, NEW w \in results, NEW password, Restore(w, password)
    PROVE  KeysInv'
<1>1. PICK made, mnemonic, phrase, path :
        /\ phrase = w.mnemonic.phrase
        /\ made = Pbkdf2("pbkdf2", phrase, password)
        /\ mnemonic = [phrase |-> phrase, seed |-> phraseToSeed(phrase, password)]
        /\ path = Path(w.path[3] - Hardened, w.path[4], w.path[5])
  OBVIOUS
<1>2. /\ hmac' = hmac /\ results' = results /\ w.error = ""
      /\ Begin("wallet", made, mnemonic, path)
  BY <1>1, Zenon DEF Restore
<1>4. IsPath(path)
  <2>1. PICK p, index : p = w.path /\ index = p[5]
    OBVIOUS
  <2>2. IsPath(p)
    BY <2>1, <1>2 DEF KeysInv, WellMade
  <2>3. index \in Nat /\ index < Hardened
    BY <2>1, <2>2 DEF IsPath
  <2>4. IsPath(Path(p[3] - Hardened, p[4], index))
    BY <2>2, <2>3, PathOfAccount
  <2> QED BY <2>1, <2>4, <1>1, Zenon
<1>5. mnemonic.seed = phraseToSeed(phrase, password)
  BY <1>1
<1>6. MakesSeed(made, mnemonic.seed) /\ made.tag = "pbkdf2"
  BY <1>1, <1>5, PhraseMakesSeed
<1> QED BY <1>2, <1>4, <1>6, BeginStep

\* UnitInitiator::init begins with the bytes of the passphrase, or the clock.
LEMMA NodeStep ==
    ASSUME KeysInv, NEW phrase, NEW s \in Starts, StartNode(phrase, s)
    PROVE  KeysInv'
<1>1. PICK seed, made, mnemonic, path :
        /\ hmac' = hmac /\ results' = results /\ Begin("node", made, mnemonic, path)
        /\ seed = IF s.passphrase = <<>> THEN Item("clock", <<calls>>)
                  ELSE Item("bytes", HexBytes(s.passphrase))
        /\ made = IF s.passphrase = <<>> THEN seed ELSE Item("passphrase", s.passphrase)
        /\ mnemonic = [phrase |-> phrase, seed |-> seed]
        /\ path = Path(0, 0, s.walletIndex % 65536)
  BY DEF StartNode
<1>2. hmac' = hmac /\ results' = results /\ Begin("node", made, mnemonic, path)
  BY <1>1
<1>3. s.passphrase \in Seq(0..NotHex) /\ s.walletIndex \in Int
  BY RequestsAssumption
<1>4. IsPath(path)
  <2>1. PICK account, change, index :
          account = 0 /\ change = 0 /\ index = s.walletIndex % 65536
    OBVIOUS
  <2>2. index \in Nat /\ index < 65536
    BY <2>1, <1>3
  <2>3. /\ account \in Nat /\ change \in Nat
        /\ change < Hardened /\ index < Hardened
    BY <2>1, <2>2, HardenedAssumption
  <2>4. IsPath(Path(account, change, index))
    BY <2>2, <2>3, PathsOfBIP44
  <2> QED BY <2>1, <2>4, <1>1
<1>5. mnemonic.seed = seed
  BY <1>1
<1>6. MakesSeed(made, seed)
  <2>1. CASE s.passphrase = <<>>
    <3>1. made.tag = "clock" /\ seed = made
      BY <2>1, <1>1 DEF Item
    <3> QED BY <3>1 DEF MakesSeed
  <2>2. CASE s.passphrase # <<>>
    <3>1. made = Item("passphrase", s.passphrase) /\ seed = Item("bytes", HexBytes(s.passphrase))
      BY <2>2, <1>1
    <3> QED BY <3>1, <1>3, Zenon DEF MakesSeed
  <2> QED BY <2>1, <2>2
<1>7. "node" # "wallet"
  OBVIOUS
<1> QED BY <1>2, <1>4, <1>5, <1>6, <1>7, BeginStep

\* Signing, verifying and encoding touch no key.
LEMMA OtherStep ==
    ASSUME KeysInv, hmac' = hmac, results' = results, job' = job
    PROVE  KeysInv'
<1> QED BY DEF KeysInv

\* Every call keeps the invariant.
LEMMA KeysStep ==
    ASSUME KeysInv, [Next]_vars
    PROVE  KeysInv'
<1>1. CASE Derive
  BY <1>1, DeriveStep
<1>2. ASSUME NEW r \in Requests, generateWallet(r)
      PROVE  KeysInv'
  BY <1>2, WalletStep
<1>3. ASSUME NEW w \in results, NEW i \in Indexes, generateAddress(w, i)
      PROVE  KeysInv'
  BY <1>3, AddressStep
<1>4. ASSUME NEW w \in results, NEW password, Restore(w, password)
      PROVE  KeysInv'
  BY <1>4, RestoreStep
<1>5. ASSUME NEW s \in Starts, NEW phrase, StartNode(phrase, s)
      PROVE  KeysInv'
  BY <1>5, NodeStep
<1>6. ASSUME NEW key, NEW z, ecdsa_sign_message(key, z)
      PROVE  KeysInv'
  BY <1>6, OtherStep DEF ecdsa_sign_message
<1>7. ASSUME NEW r, NEW s, NEW z, NEW a, ecdsa_verify_signature(r, s, z, a)
      PROVE  KeysInv'
  BY <1>7, OtherStep DEF ecdsa_verify_signature
<1>8. ASSUME NEW data, Encode(data)
      PROVE  KeysInv'
  BY <1>8, OtherStep DEF Encode
<1>9. CASE UNCHANGED vars
  BY <1>9, OtherStep DEF vars
<1> QED BY <1>1, <1>2, <1>3, <1>4, <1>5, <1>6, <1>7, <1>8, <1>9, Zenon DEF Next

-----------------------------------------------------------------------------
(* What the invariant says of the keys *)

\* Remainders of the group's order.
LEMMA ModN ==
    ASSUME NEW x \in Nat
    PROVE  /\ x % N \in Nat /\ x % N < N
           /\ x < N => x % N = x
           /\ (x % N) % N = x % N
<1>1. N \in Nat /\ N > 2
  BY GroupAssumption
<1>2. \A y \in Nat : y % N \in Nat /\ y % N < N
  BY <1>1
<1>3. \A y \in Nat : y < N => y % N = y
  BY <1>1
<1>4. PICK z : z = x % N
  OBVIOUS
<1>5. z \in Nat /\ z < N
  BY <1>2, <1>4
<1>6. z % N = z
  BY <1>3, <1>5
<1> QED BY <1>2, <1>3, <1>4, <1>6

\* Node d of a line: its numbers are BIP32's, given the node before it.
IsNode(h, path, line, d) ==
    LET n == line[d]
        p == line[d - 1]
    IN  /\ n.depth = d - 1
        /\ n.prv \in Nat
        /\ n.pub \in Nat /\ n.pub < N /\ n.pub > 0 /\ n.pub = n.prv % N
        /\ n.xpub = XText(n.pub)
        /\ d > 1 => /\ n.index = path[d - 1]
                    /\ n.fingerprint = p.pub
                    /\ n.prv = (p.prv + h[n.chain]) % N
                    /\ n.prv = n.pub
                    /\ n.chain = ChildQuestion(p, path[d - 1])

\* A derivation's first node.
LEMMA FirstNode ==
    ASSUME NEW h, \A q \in DOMAIN h : h[q] \in Nat, NEW seed, NEW path, NEW line,
           Len(line) = 6, Derived(h, seed, path, line)
    PROVE  IsNode(h, path, line, 1) /\ line[1].chain = <<seed>>
<1>1. PICK q, n, left : q = MasterQuestion(seed) /\ n = line[1] /\ left = h[q]
  OBVIOUS
<1>2. q \in DOMAIN h /\ n = gen_master(q, left) /\ n # NoNode
  <2>1. 1 \in 1..6
    OBVIOUS
  <2> QED BY <2>1, <1>1 DEF Derived, Question, NodeOf
<1>3. left \in Nat
  BY <1>1, <1>2
<1>4. /\ PubOf(left) # 0
      /\ n = Node(0, 0, left, PubOf(left), q, 0, XText(PubOf(left)))
  BY <1>2 DEF gen_master
<1>5. /\ n.depth = 0 /\ n.prv = left /\ n.pub = PubOf(left) /\ n.chain = q
      /\ n.xpub = XText(PubOf(left))
  BY <1>4 DEF Node
<1>6. PICK x : x = left % N
  OBVIOUS
<1>7. x \in Nat /\ x < N
  BY <1>3, <1>6, ModN
<1>8. n.pub = x /\ x # 0
  BY <1>4, <1>5, <1>6 DEF PubOf
<1>9. n.pub \in Nat /\ n.pub < N /\ n.pub > 0 /\ n.pub = n.prv % N
  <2>1. x > 0
    BY <1>7, <1>8
  <2> QED BY <2>1, <1>5, <1>6, <1>7, <1>8
<1>10. IsNode(h, path, line, 1)
  <2>1. ~(1 > 1) /\ 1 - 1 = 0
    OBVIOUS
  <2>2. n.xpub = XText(n.pub)
    BY <1>5, Zenon
  <2> QED BY <2>1, <2>2, <1>1, <1>3, <1>5, <1>9 DEF IsNode
<1>11. line[1].chain = <<seed>>
  BY <1>1, <1>5 DEF MasterQuestion
<1> QED BY <1>10, <1>11

\* And every other one.
LEMMA NextNode ==
    ASSUME NEW h, \A q \in DOMAIN h : h[q] \in Nat, NEW seed, NEW path, NEW line,
           Len(line) = 6, Derived(h, seed, path, line),
           NEW d \in 2..6, IsNode(h, path, line, d - 1)
    PROVE  IsNode(h, path, line, d)
<1>1. PICK e, p, n, i : e = d - 1 /\ p = line[e] /\ n = line[d] /\ i = path[e]
  OBVIOUS
<1>2. PICK q, left : q = ChildQuestion(p, i) /\ left = h[q]
  OBVIOUS
<1>3. q \in DOMAIN h /\ n = gen_child_from_xprv(p, i, q, left) /\ n # NoNode
  <2>1. d \in 1..6 /\ d # 1
    OBVIOUS
  <2> QED BY <2>1, <1>1, <1>2 DEF Derived, Question, NodeOf
<1>4. left \in Nat
  BY <1>2, <1>3
<1>5. p.depth = e - 1 /\ p.prv \in Nat
  BY <1>1 DEF IsNode
<1>6. PICK child, x : child = (p.prv + left) % N /\ x = PubOf(child)
  OBVIOUS
<1>7. /\ x # 0
      /\ n = Node(p.depth + 1, i, child, x, q, p.pub, XText(x))
  BY <1>3, <1>6 DEF gen_child_from_xprv
<1>8. child \in Nat /\ child % N = child /\ child < N
  <2>1. PICK y : y = p.prv + left
    OBVIOUS
  <2>2. y \in Nat
    BY <2>1, <1>4, <1>5
  <2>3. y % N \in Nat /\ y % N < N /\ (y % N) % N = y % N
    BY <2>2, ModN
  <2> QED BY <2>1, <2>3, <1>6
<1>9. x = child /\ child > 0
  <2>1. x = child % N
    BY <1>6 DEF PubOf
  <2> QED BY <2>1, <1>7, <1>8
<1>10. /\ n.depth = p.depth + 1 /\ n.index = i /\ n.prv = child /\ n.pub = x
       /\ n.chain = q /\ n.fingerprint = p.pub /\ n.xpub = XText(x)
  BY <1>7 DEF Node
<1>11. n.depth = d - 1
  BY <1>1, <1>5, <1>10
<1>12. n.prv \in Nat /\ n.pub \in Nat /\ n.pub < N /\ n.pub > 0 /\ n.pub = n.prv % N /\ n.prv = n.pub
  BY <1>8, <1>9, <1>10
<1>13. n.prv = (p.prv + h[n.chain]) % N
  BY <1>2, <1>6, <1>10
<1>14. n.index = path[d - 1] /\ n.fingerprint = p.pub /\ n.chain = ChildQuestion(p, path[d - 1])
  BY <1>1, <1>2, <1>10
<1>15. n = line[d] /\ p = line[d - 1]
  BY <1>1
<1>16. n.xpub = XText(n.pub)
  BY <1>10, Zenon
<1> QED BY <1>11, <1>12, <1>13, <1>14, <1>15, <1>16 DEF IsNode

\* So all the nodes of a result are.
LEMMA NodesOfLine ==
    ASSUME NEW h, \A q \in DOMAIN h : h[q] \in Nat, NEW seed, NEW path, NEW line,
           Len(line) = 6, Derived(h, seed, path, line)
    PROVE  line[1].chain = <<seed>> /\ \A d \in 1..6 : IsNode(h, path, line, d)
<1>1. line[1].chain = <<seed>> /\ IsNode(h, path, line, 1)
  BY FirstNode
<1>2. \A d \in 2..6 : IsNode(h, path, line, d - 1) => IsNode(h, path, line, d)
  BY NextNode
<1>3. 2 - 1 = 1 /\ 3 - 1 = 2 /\ 4 - 1 = 3 /\ 5 - 1 = 4 /\ 6 - 1 = 5
  OBVIOUS
<1>4. 2 \in 2..6 /\ 3 \in 2..6 /\ 4 \in 2..6 /\ 5 \in 2..6 /\ 6 \in 2..6
  OBVIOUS
<1>5. IsNode(h, path, line, 2)
  BY <1>1, <1>2, <1>3, <1>4
<1>6. IsNode(h, path, line, 3)
  BY <1>5, <1>2, <1>3, <1>4
<1>7. IsNode(h, path, line, 4)
  BY <1>6, <1>2, <1>3, <1>4
<1>8. IsNode(h, path, line, 5)
  BY <1>7, <1>2, <1>3, <1>4
<1>9. IsNode(h, path, line, 6)
  BY <1>8, <1>2, <1>3, <1>4
<1>10. \A d \in 1..6 : d = 1 \/ d = 2 \/ d = 3 \/ d = 4 \/ d = 5 \/ d = 6
  OBVIOUS
<1> QED BY <1>1, <1>5, <1>6, <1>7, <1>8, <1>9, <1>10

\* What a question adds to the chain code.
Link(parent, index) ==
    IF index >= Hardened
    THEN Item("prv", <<parent.prv, index>>)
    ELSE Item("pub", XText(PubOf(parent.prv)) \o <<index>>)

\* The chain code of node d: the seed, and a link for every node before it.
ChainOf(seed, path, line, d) ==
    [i \in 1..d |-> IF i = 1 THEN seed ELSE Link(line[i - 1], path[i - 1])]

\* A chain code grows by a link.
LEMMA ChainGrows ==
    ASSUME NEW seed, NEW path, NEW line, NEW d \in Nat, d > 0
    PROVE  Append(ChainOf(seed, path, line, d), Link(line[d], path[d]))
               = ChainOf(seed, path, line, d + 1)
<1>1. PICK c, e : c = ChainOf(seed, path, line, d) /\ e = Link(line[d], path[d])
  OBVIOUS
<1>2. c = [i \in 1..d |-> IF i = 1 THEN seed ELSE Link(line[i - 1], path[i - 1])]
  BY <1>1 DEF ChainOf
<1>3. c = [i \in 1..d |-> c[i]]
  BY <1>2
<1>4. IsSeq(c) /\ Len(c) = d
  BY <1>3, FunctionIsSeq
<1>5. Append(c, e) = [i \in 1..d + 1 |-> IF i <= d THEN c[i] ELSE e]
  BY <1>4, AppendAny
<1>6. \A i \in 1..d + 1 : (IF i <= d THEN c[i] ELSE e)
                          = IF i = 1 THEN seed ELSE Link(line[i - 1], path[i - 1])
  <2> TAKE i \in 1..d + 1
  <2>1. CASE i <= d
    <3>1. i \in 1..d
      BY <2>1
    <3> QED BY <2>1, <3>1, <1>2
  <2>2. CASE ~(i <= d)
    <3>1. i = d + 1 /\ i - 1 = d /\ i # 1
      BY <2>2
    <3> QED BY <2>2, <3>1, <1>1
  <2> QED BY <2>1, <2>2
<1>7. Append(c, e) = [i \in 1..d + 1 |-> IF i = 1 THEN seed ELSE Link(line[i - 1], path[i - 1])]
  BY <1>5, <1>6
<1> QED BY <1>1, <1>7 DEF ChainOf

\* The last node's chain code.
LEMMA ChainOfLine ==
    ASSUME NEW h, NEW seed, NEW path, NEW line, line[1].chain = <<seed>>,
           \A d \in 1..6 : IsNode(h, path, line, d)
    PROVE  line[6].chain = ChainOf(seed, path, line, 6)
<1>1. line[1].chain = ChainOf(seed, path, line, 1)
  <2>1. ChainOf(seed, path, line, 1) = [i \in 1..1 |-> seed]
    BY DEF ChainOf
  <2>2. <<seed>> = [i \in 1..1 |-> seed]
    OBVIOUS
  <2> QED BY <2>1, <2>2
<1>2. ASSUME NEW d \in 1..5, line[d].chain = ChainOf(seed, path, line, d)
      PROVE  line[d + 1].chain = ChainOf(seed, path, line, d + 1)
  <2>1. d + 1 \in 1..6 /\ d + 1 > 1 /\ (d + 1) - 1 = d /\ d \in Nat /\ d > 0
    OBVIOUS
  <2>2. line[d + 1].chain = ChildQuestion(line[d], path[d])
    BY <2>1 DEF IsNode
  <2>3. ChildQuestion(line[d], path[d]) = Append(line[d].chain, Link(line[d], path[d]))
    BY Zenon DEF ChildQuestion, Link
  <2> QED BY <2>1, <2>2, <2>3, <1>2, ChainGrows, Zenon
<1>3. 1 + 1 = 2 /\ 2 + 1 = 3 /\ 3 + 1 = 4 /\ 4 + 1 = 5 /\ 5 + 1 = 6
  OBVIOUS
<1>4. 1 \in 1..5 /\ 2 \in 1..5 /\ 3 \in 1..5 /\ 4 \in 1..5 /\ 5 \in 1..5
  OBVIOUS
<1>5. line[2].chain = ChainOf(seed, path, line, 2)
  BY <1>1, <1>2, <1>3, <1>4
<1>6. line[3].chain = ChainOf(seed, path, line, 3)
  BY <1>5, <1>2, <1>3, <1>4
<1>7. line[4].chain = ChainOf(seed, path, line, 4)
  BY <1>6, <1>2, <1>3, <1>4
<1>8. line[5].chain = ChainOf(seed, path, line, 5)
  BY <1>7, <1>2, <1>3, <1>4
<1> QED BY <1>8, <1>2, <1>3, <1>4

\* A sequence of six is an element and a sequence of five.
IsSplit(f, made, g) ==
    f = <<made>> \o g <=> f[1] = made /\ \A d \in 1..5 : f[d + 1] = g[d]

\* When its elements are.
LEMMA SixEqual ==
    ASSUME NEW made, NEW f, NEW g,
           f = [i \in 1..6 |-> f[i]], g = [i \in 1..5 |-> g[i]]
    PROVE  IsSplit(f, made, g)
<1>1. PICK S, r : S = {made} \cup {g[i] : i \in 1..5} /\ r = <<made>> \o g
  OBVIOUS
<1>2. <<made>> \in Seq(S) /\ Len(<<made>>) = 1 /\ g \in Seq(S) /\ Len(g) = 5
  <2>1. g \in [1..5 -> S]
    BY <1>1
  <2> QED BY <2>1, <1>1
<1>3. /\ r \in Seq(S) /\ Len(r) = 6 /\ r[1] = made
      /\ \A d \in 1..5 : r[d + 1] = g[d]
  <2>1. r \in Seq(S) /\ Len(r) = 1 + 5
    BY <1>1, <1>2, ConcatProperties
  <2>2. \A i \in 1..6 : r[i] = IF i <= 1 THEN <<made>>[i] ELSE g[i - 1]
    BY <1>1, <1>2, ConcatProperties
  <2>3. \A d \in 1..5 : d + 1 \in 1..6 /\ ~(d + 1 <= 1) /\ (d + 1) - 1 = d
    OBVIOUS
  <2>4. 1 \in 1..6 /\ 1 <= 1 /\ <<made>>[1] = made
    OBVIOUS
  <2> QED BY <2>1, <2>2, <2>3, <2>4
<1>4. r = [i \in 1..6 |-> r[i]]
  BY <1>3, LenProperties
<1>5. f = r <=> \A i \in 1..6 : f[i] = r[i]
  BY <1>4
<1>6. \A i \in 1..6 : i = 1 \/ \E d \in 1..5 : i = d + 1
  <2> TAKE i \in 1..6
  <2>1. i = 1 \/ (i - 1 \in 1..5 /\ i = (i - 1) + 1)
    OBVIOUS
  <2> QED BY <2>1
<1>7. \A d \in 1..5 : d + 1 \in 1..6
  OBVIOUS
<1>8. (\A i \in 1..6 : f[i] = r[i]) <=> f[1] = made /\ \A d \in 1..5 : f[d + 1] = g[d]
  BY <1>3, <1>6, <1>7
<1> QED BY <1>1, <1>5, <1>8, Zenon DEF IsSplit

\* What BIP32 adds to the chain code.
StandardLink(parent, index) ==
    IF index >= Hardened
    THEN Item("prv", <<parent.prv, index>>)
    ELSE Item("pub", StandardText(parent.pub) \o <<index>>)

\* Three elements and one more.
LEMMA FourthAppended ==
    ASSUME NEW a, NEW b, NEW c, NEW d
    PROVE  <<a, b, c>> \o <<d>> = <<a, b, c, d>>
<1>1. PICK S, u, v, r, f : /\ S = {a, b, c, d} /\ u = <<a, b, c>> /\ v = <<d>>
                           /\ r = u \o v /\ f = <<a, b, c, d>>
  OBVIOUS
<1>2. /\ u \in Seq(S) /\ Len(u) = 3 /\ u[1] = a /\ u[2] = b /\ u[3] = c
      /\ v \in Seq(S) /\ Len(v) = 1 /\ v[1] = d
  BY <1>1
<1>3. f \in Seq(S) /\ Len(f) = 4 /\ f[1] = a /\ f[2] = b /\ f[3] = c /\ f[4] = d
  BY <1>1
<1>4. r \in Seq(S) /\ Len(r) = 4 /\ r[1] = a /\ r[2] = b /\ r[3] = c /\ r[4] = d
  <2>1. r \in Seq(S) /\ Len(r) = 3 + 1
    BY <1>1, <1>2, ConcatProperties
  <2>2. \A i \in 1..4 : r[i] = IF i <= 3 THEN u[i] ELSE v[i - 3]
    BY <1>1, <1>2, ConcatProperties
  <2>3. r[1] = u[1] /\ r[2] = u[2] /\ r[3] = u[3] /\ r[4] = v[1]
    BY <2>2
  <2> QED BY <2>1, <2>3, <1>2
<1>5. \A i \in 1..4 : i = 1 \/ i = 2 \/ i = 3 \/ i = 4
  OBVIOUS
<1>6. \A i \in 1..4 : r[i] = f[i]
  BY <1>3, <1>4, <1>5
<1>7. r = f
  BY <1>3, <1>4, <1>6, SeqEqual
<1> QED BY <1>1, <1>7

\* A link is the standard's unless the x-coordinate is written too short.
LEMMA LinkIsStandard ==
    ASSUME NEW p, NEW index, p.pub = p.prv % N
    PROVE  Link(p, index) = StandardLink(p, index)
               <=> index >= Hardened \/ X(p.pub) \notin ShortX
<1>1. CASE index >= Hardened
  BY <1>1, Zenon DEF Link, StandardLink
<1>2. CASE ~(index >= Hardened)
  <2>1. PICK o, x, t : o = Odd(p.pub) /\ x = X(p.pub) /\ t = IF x \in ShortX THEN 31 ELSE 32
    OBVIOUS
  <2>2. XText(PubOf(p.prv)) = <<o, x, t>>
    BY <2>1 DEF XText, PubOf
  <2>3. <<o, x, t>> \o <<index>> = <<o, x, t, index>>
    BY FourthAppended
  <2>4. Link(p, index) = Item("pub", <<o, x, t, index>>)
    BY <2>2, <2>3, <1>2, Zenon DEF Link
  <2>5. StandardLink(p, index) = Item("pub", <<o, x, 32, index>>)
    <3>1. StandardText(p.pub) = <<o, x, 32>>
      BY <2>1 DEF StandardText
    <3>2. <<o, x, 32>> \o <<index>> = <<o, x, 32, index>>
      BY FourthAppended
    <3> QED BY <3>1, <3>2, <1>2, Zenon DEF StandardLink
  <2>6. <<o, x, t, index>> = <<o, x, 32, index>> <=> t = 32
    OBVIOUS
  <2>7. t = 32 <=> x \notin ShortX
    BY <2>1
  <2>8. \A u, v : Item("pub", u) = Item("pub", v) <=> u = v
    <3> TAKE u, v
    <3>1. Item("pub", u).nums = u /\ Item("pub", v).nums = v
      BY DEF Item
    <3> QED BY <3>1, Zenon
  <2>9. Link(p, index) = StandardLink(p, index) <=> x \notin ShortX
    BY <2>4, <2>5, <2>6, <2>7, <2>8, Zenon
  <2> QED BY <2>1, <2>9, <1>2, Zenon
<1> QED BY <1>1, <1>2

\* The extended public key has the standard's text unless that is too short.
LEMMA TextIsStandard ==
    ASSUME NEW p
    PROVE  XText(p) = StandardText(p) <=> X(p) \notin ShortX
<1>1. PICK o, x, t : o = Odd(p) /\ x = X(p) /\ t = IF x \in ShortX THEN 31 ELSE 32
  OBVIOUS
<1>2. XText(p) = <<o, x, t>>
  BY <1>1 DEF XText
<1>3. StandardText(p) = <<o, x, 32>>
  BY <1>1 DEF StandardText
<1>4. <<o, x, t>> = <<o, x, 32>> <=> t = 32
  OBVIOUS
<1>5. t = 32 <=> x \notin ShortX
  BY <1>1
<1> QED BY <1>1, <1>2, <1>3, <1>4, <1>5, Zenon

\* The seed of BIP39.
StandardSeed(made) == [made EXCEPT !.password = Nfkd(@)]

\* A seed is the standard's unless the password has another NFKD form or PBKDF2's
\* output is written too short.
LEMMA SeedIsStandard ==
    ASSUME NEW made, NEW seed, MakesSeed(made, seed), made.tag = "pbkdf2"
    PROVE  seed = StandardSeed(made)
               <=> Nfkd(made.password) = made.password /\ seed.tag # "pbkdf2, short"
<1>1. PICK phrase, password :
        /\ made = Pbkdf2("pbkdf2", phrase, password)
        /\ seed = phraseToSeed(phrase, password)
  <2>1. \A p : Item("passphrase", p).tag # "pbkdf2"
    BY DEF Item
  <2>2. made.tag \notin {"bytes", "clock"}
    OBVIOUS
  <2> QED BY <2>1, <2>2 DEF MakesSeed
<1>2. PICK tag : /\ tag = IF <<phrase, password>> \in ShortSeeds THEN "pbkdf2, short" ELSE "pbkdf2"
                 /\ seed = Pbkdf2(tag, phrase, password)
  BY <1>1 DEF phraseToSeed
<1>3. seed.tag = tag /\ seed.password = password
  BY <1>2 DEF Pbkdf2
<1>4. "pbkdf2, short" # "pbkdf2" /\ (tag = "pbkdf2, short" \/ tag = "pbkdf2")
  BY <1>2
<1>5. PICK form : form = Nfkd(made.password)
  OBVIOUS
<1>6. StandardSeed(made) = Pbkdf2("pbkdf2", phrase, form)
  <2>1. made = [tag |-> "pbkdf2", phrase |-> phrase, password |-> password]
    BY <1>1, Zenon DEF Pbkdf2
  <2>2. [made EXCEPT !.password = form] = [tag |-> "pbkdf2", phrase |-> phrase, password |-> form]
    BY <2>1
  <2>3. StandardSeed(made) = [made EXCEPT !.password = form]
    BY <1>5 DEF StandardSeed
  <2> QED BY <2>2, <2>3, Zenon DEF Pbkdf2
<1>7. made.password = password
  BY <1>1 DEF Pbkdf2
<1>8. PICK t : t = Pbkdf2("pbkdf2", phrase, form)
  OBVIOUS
<1>9. t.tag = "pbkdf2" /\ t.password = form
  BY <1>8 DEF Pbkdf2
<1>10. ASSUME seed = t PROVE form = made.password /\ seed.tag # "pbkdf2, short"
  BY <1>3, <1>4, <1>7, <1>9, <1>10, Zenon
<1>11. ASSUME form = made.password, seed.tag # "pbkdf2, short" PROVE seed = t
  <2>1. tag = "pbkdf2" /\ form = password
    BY <1>3, <1>4, <1>7, <1>11, Zenon
  <2> QED BY <2>1, <1>2, <1>8, Zenon
<1> QED BY <1>5, <1>6, <1>8, <1>10, <1>11, Zenon

\* The two sides of the property, for one result.
KeysAre(w) ==
    /\ StandardKeys(w)
    /\ w.line[6].chain = StandardChain(w)
    /\ w.line[6].xpub = StandardText(w.line[6].pub)
KeysCanBe(w) ==
    /\ w.line[1].prv < N
    /\ Nfkd(w.made.password) = w.made.password
    /\ w.mnemonic.seed.tag # "pbkdf2, short"
    /\ {X(w.line[d].pub) : d \in {4, 5, 6}} \cap ShortX = {}

\* The keys of one result.
LEMMA KeysOfResult ==
    ASSUME NEW w, WellMade(hmac, w), Len(w.line) = 6, \A q \in DOMAIN hmac : hmac[q] \in Nat,
           w.made.tag = "pbkdf2"
    PROVE  KeysAre(w) <=> KeysCanBe(w)
<1>1. PICK line, path, seed : line = w.line /\ path = w.path /\ seed = w.mnemonic.seed
  OBVIOUS
<1>2. IsPath(path) /\ MakesSeed(w.made, seed) /\ Derived(hmac, seed, path, line) /\ Len(line) = 6
  BY <1>1 DEF WellMade
<1>3. line[1].chain = <<seed>> /\ \A d \in 1..6 : IsNode(hmac, path, line, d)
  BY <1>2, NodesOfLine
<1>4. N \in Nat /\ N > 2
  BY GroupAssumption
<1>5. StandardKeys(w) <=> line[1].prv < N
  <2>1. StandardKeys(w) <=>
          \A d \in 1..6 :
            /\ line[d].prv \in 1 .. N - 1
            /\ line[d].pub = line[d].prv
            /\ line[d].depth = d - 1
            /\ d > 1 => /\ line[d].index = path[d - 1]
                        /\ line[d].fingerprint = line[d - 1].pub
                        /\ line[d].prv = (line[d - 1].prv + hmac[line[d].chain]) % N
    BY <1>1, Zenon DEF StandardKeys
  <2>2. ASSUME StandardKeys(w) PROVE line[1].prv < N
    <3>1. 1 \in 1..6
      OBVIOUS
    <3>2. line[1].prv \in 1 .. N - 1
      BY <3>1, <2>1, <2>2, Zenon
    <3> QED BY <3>2, <1>4
  <2>3. ASSUME line[1].prv < N, NEW d \in 1..6
        PROVE  /\ line[d].prv \in 1 .. N - 1
               /\ line[d].pub = line[d].prv
               /\ line[d].depth = d - 1
               /\ d > 1 => /\ line[d].index = path[d - 1]
                           /\ line[d].fingerprint = line[d - 1].pub
                           /\ line[d].prv = (line[d - 1].prv + hmac[line[d].chain]) % N
    <3>1. IsNode(hmac, path, line, d)
      BY <1>3
    <3>2. /\ line[d].depth = d - 1
          /\ d > 1 => /\ line[d].index = path[d - 1]
                      /\ line[d].fingerprint = line[d - 1].pub
                      /\ line[d].prv = (line[d - 1].prv + hmac[line[d].chain]) % N
                      /\ line[d].prv = line[d].pub
      BY <3>1, Zenon DEF IsNode
    <3>3. PICK x, y : x = line[d].prv /\ y = line[d].pub
      OBVIOUS
    <3>4. x \in Nat /\ y \in Nat /\ y < N /\ y > 0 /\ y = x % N
      BY <3>1, <3>3 DEF IsNode
    <3>5. x = y
      <4>1. CASE d = 1
        <5>1. x < N
          BY <4>1, <3>3, <2>3
        <5> QED BY <5>1, <3>4, ModN
      <4>2. CASE d > 1
        BY <4>2, <3>2, <3>3
      <4> QED BY <4>1, <4>2
    <3>6. x \in 1 .. N - 1
      BY <3>4, <3>5, <1>4
    <3> QED BY <3>2, <3>3, <3>5, <3>6
  <2> QED BY <2>1, <2>2, <2>3
<1>6. line[6].chain = StandardChain(w)
        <=> /\ Nfkd(w.made.password) = w.made.password
            /\ seed.tag # "pbkdf2, short"
            /\ \A d \in {4, 5} : X(line[d].pub) \notin ShortX
  <2>1. PICK f, g : /\ f = line[6].chain
                    /\ g = [d \in 1..5 |-> StandardLink(line[d], path[d])]
    OBVIOUS
  <2>2. f = [i \in 1..6 |-> IF i = 1 THEN seed ELSE Link(line[i - 1], path[i - 1])]
    BY <2>1, <1>3, ChainOfLine DEF ChainOf
  <2>3. StandardChain(w) = <<StandardSeed(w.made)>> \o g
    BY <2>1, <1>1, Zenon DEF StandardChain, StandardLink, StandardSeed
  <2>4. f = <<StandardSeed(w.made)>> \o g <=> seed = StandardSeed(w.made) /\ \A d \in 1..5 : f[d + 1] = g[d]
    <3>1. f = [i \in 1..6 |-> f[i]] /\ f[1] = seed
      BY <2>2
    <3>2. g = [i \in 1..5 |-> g[i]]
      BY <2>1
    <3>3. IsSplit(f, StandardSeed(w.made), g)
      BY <3>1, <3>2, SixEqual
    <3> QED BY <3>1, <3>3, Zenon DEF IsSplit
  <2>5. seed = StandardSeed(w.made)
           <=> Nfkd(w.made.password) = w.made.password /\ seed.tag # "pbkdf2, short"
    BY <1>2, SeedIsStandard
  <2>6. ASSUME NEW d \in 1..5
        PROVE  f[d + 1] = g[d] <=> path[d] >= Hardened \/ X(line[d].pub) \notin ShortX
    <3>1. d + 1 \in 1..6 /\ d + 1 # 1 /\ (d + 1) - 1 = d /\ d \in 1..6
      OBVIOUS
    <3>2. f[d + 1] = Link(line[d], path[d])
      BY <3>1, <2>2
    <3>3. g[d] = StandardLink(line[d], path[d])
      BY <2>1
    <3>4. line[d].pub = line[d].prv % N
      BY <3>1, <1>3 DEF IsNode
    <3> QED BY <3>2, <3>3, <3>4, LinkIsStandard
  <2>7. /\ \A d \in 1..3 : path[d] >= Hardened
        /\ \A d \in 4..5 : ~(path[d] >= Hardened)
    <3>1. Hardened \in Nat
      BY HardenedAssumption
    <3> QED BY <3>1, <1>2 DEF IsPath
  <2>8. (\A d \in 1..5 : f[d + 1] = g[d]) <=> \A d \in {4, 5} : X(line[d].pub) \notin ShortX
    <3>1. \A d \in 1..5 : d \in 1..3 \/ d \in 4..5
      OBVIOUS
    <3>2. \A d \in 4..5 : d \in {4, 5}
      OBVIOUS
    <3>3. \A d \in {4, 5} : d \in 1..5 /\ d \in 4..5
      OBVIOUS
    <3> QED BY <3>1, <3>2, <3>3, <2>6, <2>7, Zenon
  <2> QED BY <2>1, <2>3, <2>4, <2>5, <2>8, Zenon
<1>7. line[6].xpub = StandardText(line[6].pub) <=> X(line[6].pub) \notin ShortX
  <2>1. 6 \in 1..6
    OBVIOUS
  <2>2. line[6].xpub = XText(line[6].pub)
    BY <2>1, <1>3 DEF IsNode
  <2> QED BY <2>2, TextIsStandard
<1>8. {X(line[d].pub) : d \in {4, 5, 6}} \cap ShortX = {}
        <=> (\A d \in {4, 5} : X(line[d].pub) \notin ShortX) /\ X(line[6].pub) \notin ShortX
  BY Zenon
<1> QED BY <1>1, <1>5, <1>6, <1>7, <1>8, Zenon DEF KeysAre, KeysCanBe

\* The invariant implies the property.
LEMMA InvKeys ==
    ASSUME KeysInv
    PROVE  KeysAreStandard
<1> SUFFICES ASSUME NEW w \in Wallets, w.mnemonic.phrase # <<>>
             PROVE  KeysAre(w) <=> KeysCanBe(w)
  BY Zenon DEF KeysAreStandard, KeysAre, KeysCanBe
<1>1. w \in results /\ w.error = "" /\ w.by = "wallet"
  BY DEF Wallets, Finished
<1>2. /\ WellMade(hmac, w) /\ Len(w.line) = 6
      /\ \A q \in DOMAIN hmac : hmac[q] \in Nat
  BY <1>1 DEF KeysInv
<1>3. w.made.tag = "pbkdf2"
  BY <1>1, <1>2 DEF WellMade
<1> QED BY <1>2, <1>3, KeysOfResult

-----------------------------------------------------------------------------
(* Same keys, same origin *)

\* A seed and the origin it comes of: each determines the other.
SeedOf(origin, seed) ==
    \/ origin.tag \in {"bytes", "clock"} /\ seed = origin
    \/ \E phrase, password :
         /\ origin = Pbkdf2("pbkdf2", phrase, password)
         /\ seed = phraseToSeed(phrase, password)

\* A result's seed comes of its origin.
LEMMA OriginMakesSeed ==
    ASSUME NEW w, NEW seed, MakesSeed(w.made, seed)
    PROVE  SeedOf(Origin(w), seed)
<1>1. CASE w.made.tag \in {"bytes", "clock"} /\ seed = w.made
  <2>1. Origin(w) = w.made
    BY <1>1 DEF Origin
  <2> QED BY <2>1, <1>1, Zenon DEF SeedOf
<1>2. ASSUME NEW phrase, NEW password,
             w.made = Pbkdf2("pbkdf2", phrase, password),
             seed = phraseToSeed(phrase, password)
      PROVE  SeedOf(Origin(w), seed)
  <2>1. w.made.tag = "pbkdf2"
    BY <1>2 DEF Pbkdf2
  <2>2. Origin(w) = w.made
    BY <2>1 DEF Origin
  <2> QED BY <2>2, <1>2, Zenon DEF SeedOf
<1>3. ASSUME NEW p \in Seq(0..NotHex),
             w.made = Item("passphrase", p), seed = Item("bytes", HexBytes(p))
      PROVE  SeedOf(Origin(w), seed)
  <2>1. w.made.tag = "passphrase" /\ w.made.nums = p
    BY <1>3 DEF Item
  <2>2. Origin(w) = Item("bytes", [i \in 1 .. Len(p) \div 2 |->
                              16 * Spelled(p[2 * i - 1]) + Spelled(p[2 * i])])
    BY <2>1, Zenon DEF Origin
  <2>3. Origin(w) = seed
    BY <2>2, <1>3, HexBytesSpelled, Zenon
  <2>4. seed.tag = "bytes"
    BY <1>3 DEF Item
  <2> QED BY <2>3, <2>4, Zenon DEF SeedOf
<1> QED BY <1>1, <1>2, <1>3, Zenon DEF MakesSeed

\* The seed of a phrase and a password is of no other phrase and password.
LEMMA SeedOfPhrase ==
    ASSUME NEW phrase, NEW password, NEW seed, seed = phraseToSeed(phrase, password)
    PROVE  /\ seed.phrase = phrase /\ seed.password = password
           /\ seed.tag \notin {"bytes", "clock"}
<1>1. PICK tag : /\ tag = IF <<phrase, password>> \in ShortSeeds THEN "pbkdf2, short" ELSE "pbkdf2"
                 /\ seed = Pbkdf2(tag, phrase, password)
  BY DEF phraseToSeed
<1>2. tag \notin {"bytes", "clock"}
  BY <1>1
<1>3. seed = [tag |-> tag, phrase |-> phrase, password |-> password]
  BY <1>1, Zenon DEF Pbkdf2
<1>4. seed.tag = tag
  BY <1>3, SMT
<1>5. seed.phrase = phrase
  BY <1>3, SMT
<1>6. seed.password = password
  BY <1>3, SMT
<1> QED BY <1>2, <1>4, <1>5, <1>6, Zenon

\* Two seeds are equal exactly when what they come of is.
LEMMA SameSeeds ==
    ASSUME NEW o1, NEW o2, NEW s1, NEW s2, SeedOf(o1, s1), SeedOf(o2, s2)
    PROVE  s1 = s2 <=> o1 = o2
<1>1. CASE o1.tag \in {"bytes", "clock"} /\ s1 = o1 /\ o2.tag \in {"bytes", "clock"} /\ s2 = o2
  BY <1>1, Zenon
<1>2. ASSUME NEW phrase, NEW password
      PROVE  /\ phraseToSeed(phrase, password).tag \notin {"bytes", "clock"}
             /\ Pbkdf2("pbkdf2", phrase, password).tag \notin {"bytes", "clock"}
  <2>1. phraseToSeed(phrase, password).tag \notin {"bytes", "clock"}
    BY SeedOfPhrase
  <2>2. Pbkdf2("pbkdf2", phrase, password).tag = "pbkdf2"
    BY DEF Pbkdf2
  <2> QED BY <2>1, <2>2
<1>3. ASSUME NEW p1, NEW w1, NEW p2, NEW w2,
             o1 = Pbkdf2("pbkdf2", p1, w1), s1 = phraseToSeed(p1, w1),
             o2 = Pbkdf2("pbkdf2", p2, w2), s2 = phraseToSeed(p2, w2)
      PROVE  s1 = s2 <=> o1 = o2
  <2>1. s1.phrase = p1 /\ s1.password = w1 /\ s2.phrase = p2 /\ s2.password = w2
    BY <1>3, SeedOfPhrase
  <2>2. o1.phrase = p1 /\ o1.password = w1 /\ o2.phrase = p2 /\ o2.password = w2
    BY <1>3 DEF Pbkdf2
  <2>3. ASSUME s1 = s2 PROVE o1 = o2
    <3>1. p1 = p2 /\ w1 = w2
      BY <2>1, <2>3, Zenon
    <3> QED BY <3>1, <1>3, Zenon
  <2>4. ASSUME o1 = o2 PROVE s1 = s2
    <3>1. p1 = p2 /\ w1 = w2
      BY <2>2, <2>4, Zenon
    <3> QED BY <3>1, <1>3, Zenon
  <2> QED BY <2>3, <2>4
<1>4. CASE o1.tag \in {"bytes", "clock"} /\ s1 = o1
  <2>1. CASE o2.tag \in {"bytes", "clock"} /\ s2 = o2
    BY <1>4, <2>1, <1>1
  <2>2. CASE ~(o2.tag \in {"bytes", "clock"} /\ s2 = o2)
    <3>1. PICK phrase, password :
            o2 = Pbkdf2("pbkdf2", phrase, password) /\ s2 = phraseToSeed(phrase, password)
      BY <2>2, Zenon DEF SeedOf
    <3>2. s2.tag \notin {"bytes", "clock"} /\ o2.tag \notin {"bytes", "clock"}
      BY <3>1, <1>2, Zenon
    <3>3. s2 # s1 /\ o2 # o1
      BY <3>2, <1>4, Zenon
    <3> QED BY <3>3, Zenon
  <2> QED BY <2>1, <2>2
<1>5. CASE ~(o1.tag \in {"bytes", "clock"} /\ s1 = o1)
  <2>1. PICK phrase, password :
          o1 = Pbkdf2("pbkdf2", phrase, password) /\ s1 = phraseToSeed(phrase, password)
    BY <1>5, Zenon DEF SeedOf
  <2>2. CASE o2.tag \in {"bytes", "clock"} /\ s2 = o2
    <3>1. s1.tag \notin {"bytes", "clock"} /\ o1.tag \notin {"bytes", "clock"}
      BY <2>1, <1>2, Zenon
    <3>2. s2 # s1 /\ o2 # o1
      BY <3>1, <2>2, Zenon
    <3> QED BY <3>2, Zenon
  <2>3. CASE ~(o2.tag \in {"bytes", "clock"} /\ s2 = o2)
    <3>1. PICK p2, w2 : o2 = Pbkdf2("pbkdf2", p2, w2) /\ s2 = phraseToSeed(p2, w2)
      BY <2>3, Zenon DEF SeedOf
    <3> QED BY <2>1, <3>1, <1>3, Zenon
  <2> QED BY <2>2, <2>3
<1> QED BY <1>4, <1>5

\* A node is determined by the seed or the node before it, the path and HMAC.
LEMMA SameNode ==
    ASSUME NEW h, NEW seed, NEW path, NEW l, NEW m, Len(l) = 6, Len(m) = 6,
           Derived(h, seed, path, l), Derived(h, seed, path, m),
           NEW d \in 1..6, d > 1 => l[d - 1] = m[d - 1]
    PROVE  l[d] = m[d]
<1>1. PICK p, q : p = Question(seed, path, l, d) /\ q = Question(seed, path, m, d)
  OBVIOUS
<1>2. l[d] = NodeOf(path, l, d, p, h[p]) /\ m[d] = NodeOf(path, m, d, q, h[q])
  BY <1>1 DEF Derived
<1>3. CASE d = 1
  <2>1. p = q
    BY <1>1, <1>3, Zenon DEF Question
  <2> QED BY <1>2, <1>3, <2>1, Zenon DEF NodeOf
<1>4. CASE d # 1
  <2>1. l[d - 1] = m[d - 1]
    BY <1>4
  <2>2. p = q
    BY <1>1, <1>4, <2>1, Zenon DEF Question
  <2> QED BY <1>2, <1>4, <2>1, <2>2, Zenon DEF NodeOf
<1> QED BY <1>3, <1>4

\* So are all six.
LEMMA SameLine ==
    ASSUME NEW h, NEW seed, NEW path, NEW l, NEW m, IsSeq(l), IsSeq(m), Len(l) = 6, Len(m) = 6,
           Derived(h, seed, path, l), Derived(h, seed, path, m)
    PROVE  l = m
<1>1. \A d \in 1..6 : (d > 1 => l[d - 1] = m[d - 1]) => l[d] = m[d]
  BY SameNode
<1>2. 2 - 1 = 1 /\ 3 - 1 = 2 /\ 4 - 1 = 3 /\ 5 - 1 = 4 /\ 6 - 1 = 5 /\ ~(1 > 1)
  OBVIOUS
<1>3. 1 \in 1..6 /\ 2 \in 1..6 /\ 3 \in 1..6 /\ 4 \in 1..6 /\ 5 \in 1..6 /\ 6 \in 1..6
  OBVIOUS
<1>4. l[1] = m[1]
  BY <1>1, <1>2, <1>3, Zenon
<1>5. l[2] = m[2]
  BY <1>1, <1>2, <1>3, <1>4, Zenon
<1>6. l[3] = m[3]
  BY <1>1, <1>2, <1>3, <1>5, Zenon
<1>7. l[4] = m[4]
  BY <1>1, <1>2, <1>3, <1>6, Zenon
<1>8. l[5] = m[5]
  BY <1>1, <1>2, <1>3, <1>7, Zenon
<1>9. l[6] = m[6]
  BY <1>1, <1>2, <1>3, <1>8, Zenon
<1>10. \A d \in 1..6 : l[d] = m[d]
  <2>1. \A d \in 1..6 : d = 1 \/ d = 2 \/ d = 3 \/ d = 4 \/ d = 5 \/ d = 6
    OBVIOUS
  <2> QED BY <2>1, <1>4, <1>5, <1>6, <1>7, <1>8, <1>9, Zenon
<1>11. l = [d \in 1..6 |-> l[d]] /\ m = [d \in 1..6 |-> m[d]]
  BY LenProperties DEF IsSeq
<1> QED BY <1>10, <1>11

\* The path can be read off a line, and so can the seed.
LEMMA LineTells ==
    ASSUME NEW h, \A q \in DOMAIN h : h[q] \in Nat,
           NEW s1, NEW s2, NEW p1, NEW p2, NEW line, Len(line) = 6, IsPath(p1), IsPath(p2),
           Derived(h, s1, p1, line), Derived(h, s2, p2, line)
    PROVE  s1 = s2 /\ p1 = p2
<1>1. /\ line[1].chain = <<s1>> /\ line[1].chain = <<s2>>
      /\ \A d \in 1..6 : IsNode(h, p1, line, d)
      /\ \A d \in 1..6 : IsNode(h, p2, line, d)
  BY NodesOfLine
<1>2. s1 = s2
  <2>1. <<s1>>[1] = s1 /\ <<s2>>[1] = s2
    OBVIOUS
  <2> QED BY <2>1, <1>1, Zenon
<1>3. ASSUME NEW i \in 1..5 PROVE p1[i] = p2[i]
  <2>1. PICK d : d = i + 1
    OBVIOUS
  <2>2. d \in 1..6 /\ d > 1 /\ d - 1 = i
    BY <2>1
  <2>3. line[d].index = p1[d - 1] /\ line[d].index = p2[d - 1]
    BY <2>2, <1>1, Zenon DEF IsNode
  <2> QED BY <2>2, <2>3, Zenon
<1>4. p1 = [i \in 1..5 |-> p1[i]] /\ p2 = [i \in 1..5 |-> p2[i]]
  BY Zenon DEF IsPath
<1>5. p1 = p2
  BY <1>3, <1>4, Zenon
<1> QED BY <1>2, <1>5

\* The invariant implies the property.
LEMMA InvOrigin ==
    ASSUME KeysInv
    PROVE  SameKeysSameOrigin
<1> SUFFICES ASSUME NEW v \in Finished, NEW w \in Finished
             PROVE  v.line = w.line <=> Origin(v) = Origin(w) /\ v.path = w.path
  BY Zenon DEF SameKeysSameOrigin
<1>1. PICK l1, l2, p1, p2, s1, s2 :
        /\ l1 = v.line /\ p1 = v.path /\ s1 = v.mnemonic.seed
        /\ l2 = w.line /\ p2 = w.path /\ s2 = w.mnemonic.seed
  OBVIOUS
<1>2. /\ WellMade(hmac, v) /\ WellMade(hmac, w) /\ Len(l1) = 6 /\ Len(l2) = 6
      /\ \A q \in DOMAIN hmac : hmac[q] \in Nat
  BY <1>1, Zenon DEF KeysInv, Finished
<1>3. /\ IsPath(p1) /\ IsSeq(l1) /\ Derived(hmac, s1, p1, l1) /\ MakesSeed(v.made, s1)
      /\ IsPath(p2) /\ IsSeq(l2) /\ Derived(hmac, s2, p2, l2) /\ MakesSeed(w.made, s2)
  BY <1>1, <1>2, Zenon DEF WellMade
<1>4. SeedOf(Origin(v), s1) /\ SeedOf(Origin(w), s2)
  BY <1>3, OriginMakesSeed
<1>5. s1 = s2 <=> Origin(v) = Origin(w)
  BY <1>4, SameSeeds
<1>6. ASSUME l1 = l2 PROVE s1 = s2 /\ p1 = p2
  <2>1. Derived(hmac, s2, p2, l1)
    BY <1>3, <1>6, Zenon
  <2> QED BY <2>1, <1>2, <1>3, LineTells
<1>7. ASSUME s1 = s2, p1 = p2 PROVE l1 = l2
  <2>1. Derived(hmac, s1, p1, l2)
    BY <1>3, <1>7, Zenon
  <2> QED BY <2>1, <1>2, <1>3, SameLine
<1> QED BY <1>1, <1>5, <1>6, <1>7, Zenon

-----------------------------------------------------------------------------
(* Arithmetic of the group *)

\* A set of natural numbers has a smallest member.
LEMMA Smallest ==
    ASSUME NEW T, T \subseteq Nat, T # {}
    PROVE  \E x \in T : \A y \in T : x <= y
<1>1. PICK R : R = {ss \in Nat \X Nat : ss[1] < ss[2]}
  OBVIOUS
<1>2. IsWellFoundedOn(R, Nat)
  BY <1>1, NatLessThanWellFounded DEF OpToRel
<1>3. PICK x \in T : \A y \in T : ~ (<<y, x>> \in R)
  BY <1>2, WFMin
<1>4. ASSUME NEW y \in T PROVE x <= y
  <2>1. ~(y < x)
    BY <1>1, <1>3
  <2> QED BY <2>1
<1> QED BY <1>4

\* Numbers that differ by a multiple of the order.
Cong(a, b) == \E k \in Int : a - b = k * N

\* Congruence is reflexive,
LEMMA CongRefl == ASSUME NEW a \in Int PROVE Cong(a, a)
<1>1. a - a = 0 * N
  BY GroupAssumption
<1> QED BY <1>1 DEF Cong

\* symmetric
LEMMA CongSym == ASSUME NEW a \in Int, NEW b \in Int, Cong(a, b) PROVE Cong(b, a)
<1>1. PICK k \in Int : a - b = k * N
  BY DEF Cong
<1>2. b - a = (-k) * N
  BY <1>1, GroupAssumption
<1> QED BY <1>2 DEF Cong

\* and transitive;
LEMMA CongTrans ==
    ASSUME NEW a \in Int, NEW b \in Int, NEW c \in Int, Cong(a, b), Cong(b, c)
    PROVE  Cong(a, c)
<1>1. PICK k \in Int, j \in Int : a - b = k * N /\ b - c = j * N
  BY DEF Cong
<1>2. a - c = (k + j) * N
  BY <1>1, GroupAssumption
<1> QED BY <1>2 DEF Cong

\* it respects sums
LEMMA CongAdd ==
    ASSUME NEW a \in Int, NEW b \in Int, NEW c \in Int, NEW d \in Int, Cong(a, b), Cong(c, d)
    PROVE  Cong(a + c, b + d)
<1>1. PICK k \in Int, j \in Int : a - b = k * N /\ c - d = j * N
  BY DEF Cong
<1>2. (a + c) - (b + d) = (k + j) * N
  BY <1>1, GroupAssumption
<1> QED BY <1>2 DEF Cong

\* and products.
LEMMA CongMul ==
    ASSUME NEW a \in Int, NEW b \in Int, NEW c \in Int, Cong(a, b)
    PROVE  Cong(c * a, c * b)
<1>1. PICK k \in Int : a - b = k * N
  BY DEF Cong
<1>2. c * a - c * b = c * (a - b)
  OBVIOUS
<1>3. c * (k * N) = (c * k) * N
  BY GroupAssumption
<1>4. c * a - c * b = (c * k) * N
  BY <1>1, <1>2, <1>3
<1> QED BY <1>4 DEF Cong

\* A number is congruent to its remainder.
LEMMA CongMod ==
    ASSUME NEW a \in Int
    PROVE  a % N \in 0 .. N - 1 /\ Cong(a, a % N) 
<1>1. PICK r, q : r = a % N /\ q = a \div N
  OBVIOUS
<1>2. r \in 0 .. N - 1 /\ q \in Int
  BY <1>1, GroupAssumption
<1>3. a = q * N + r
  BY <1>1, GroupAssumption
<1>4. a - r = q * N
  BY <1>2, <1>3, GroupAssumption
<1> QED BY <1>1, <1>2, <1>4 DEF Cong

\* Remainders are congruent only if they are equal.
LEMMA CongEqual ==
    ASSUME NEW x \in 0 .. N - 1, NEW y \in 0 .. N - 1, Cong(x, y)
    PROVE  x = y
<1>1. PICK k \in Int : x - y = k * N
  BY DEF Cong
<1>2. N \in Int /\ N > 2 /\ x - y < N /\ x - y > -N
  BY GroupAssumption
<1>3. CASE k >= 1
  <2>1. k * N >= N
    BY <1>2, <1>3
  <2> QED BY <2>1, <1>1, <1>2
<1>4. CASE k <= -1
  <2>1. k * N <= -N
    BY <1>2, <1>4
  <2> QED BY <2>1, <1>1, <1>2
<1>5. CASE k = 0
  BY <1>1, <1>2, <1>5
<1> QED BY <1>3, <1>4, <1>5

\* A remainder is the number below N that is congruent.
LEMMA CongIs ==
    ASSUME NEW a \in Int, NEW x \in 0 .. N - 1, Cong(a, x)
    PROVE  a % N = x
<1>1. PICK r : r = a % N
  OBVIOUS
<1>2. r \in 0 .. N - 1 /\ Cong(a, r)
  BY <1>1, CongMod
<1>3. N \in Nat /\ r \in Int /\ x \in Int
  BY <1>2, GroupAssumption
<1>4. Cong(r, a)
  BY <1>2, <1>3, CongSym
<1>5. Cong(r, x)
  BY <1>3, <1>4, CongTrans
<1> QED BY <1>1, <1>2, <1>5, CongEqual

\* Division by a is possible.
HasInverse(a) == \E b \in Int : Cong(a * b, 1)

\* If the remainder of N by a has an inverse, so has a.
LEMMA InverseOfRemainder ==
    ASSUME NEW a \in 2 .. N - 1, HasInverse(N % a)
    PROVE  HasInverse(a)
<1>1. PICK q, r : q = N \div a /\ r = N % a
  OBVIOUS
<1>2. q \in Int /\ r \in Int /\ N = q * a + r /\ N \in Int /\ a \in Int
  BY <1>1, GroupAssumption
<1>3. PICK b \in Int : Cong(r * b, 1)
  BY <1>1 DEF HasInverse
<1>4. PICK k \in Int : r * b - 1 = k * N
  BY <1>3 DEF Cong
<1>5. PICK c \in Int : c = -(q * b)
  BY <1>2
<1>6. r * b = N * b - (q * a) * b
  BY <1>2
<1>7. a * c = -((q * a) * b)
  BY <1>2, <1>5
<1>8. a * c - 1 = (k * N) - (N * b)
  BY <1>2, <1>4, <1>6, <1>7
<1>9. (k * N) - (N * b) = (k - b) * N
  BY <1>2
<1>10. Cong(a * c, 1)
  BY <1>8, <1>9 DEF Cong
<1> QED BY <1>10 DEF HasInverse

\* Every number below a prime has an inverse: Euclid's algorithm goes on until
\* the remainder is 1.
LEMMA Inverses ==
    ASSUME NEW a \in 1 .. N - 1
    PROVE  HasInverse(a)
<1>1. PICK T : T = {x \in 1 .. N - 1 : ~HasInverse(x)}
  OBVIOUS
<1>2. SUFFICES ASSUME T # {} PROVE FALSE
  BY <1>1
<1>3. T \subseteq Nat /\ N \in Nat /\ N > 2
  BY <1>1, GroupAssumption
<1>4. PICK x \in T : \A y \in T : x <= y
  BY <1>2, <1>3, Smallest
<1>5. x \in 1 .. N - 1 /\ ~HasInverse(x)
  BY <1>1
<1>6. x # 1
  <2>1. Cong(1 * 1, 1)
    BY CongRefl
  <2>2. HasInverse(1)
    BY <2>1 DEF HasInverse
  <2> QED BY <2>2, <1>5
<1>7. x \in 2 .. N - 1
  BY <1>3, <1>5, <1>6
<1>8. PICK r : r = N % x
  OBVIOUS
<1>9. r \in 0 .. x - 1 /\ r # 0
  <2>1. r # 0
    BY <1>7, <1>8, GroupAssumption
  <2>2. r \in 0 .. x - 1
    BY <1>3, <1>7, <1>8
  <2> QED BY <2>1, <2>2
<1>10. r \in 1 .. N - 1 /\ r < x
  BY <1>3, <1>7, <1>9
<1>11. r \notin T
  BY <1>4, <1>5, <1>10, <1>3
<1>12. HasInverse(r)
  BY <1>1, <1>10, <1>11
<1> QED BY <1>5, <1>7, <1>8, <1>12, InverseOfRemainder

\* ModInverse is one.
LEMMA InverseIs ==
    ASSUME NEW a \in 1 .. N - 1
    PROVE  ModInverse(a) \in 0 .. N - 1 /\ Cong(a * ModInverse(a), 1)
<1>1. PICK b \in Int : Cong(a * b, 1)
  BY Inverses DEF HasInverse
<1>2. PICK c : c = b % N
  OBVIOUS
<1>3. c \in 0 .. N - 1 /\ Cong(b, c)
  BY <1>2, CongMod
<1>4. N \in Nat /\ N > 2 /\ a \in Int /\ c \in Int /\ a * b \in Int /\ a * c \in Int
  BY <1>3, GroupAssumption
<1>5. Cong(c, b)
  BY <1>3, <1>4, CongSym
<1>6. Cong(a * c, a * b)
  BY <1>4, <1>5, CongMul
<1>7. Cong(a * c, 1)
  BY <1>1, <1>4, <1>6, CongTrans
<1>8. 1 \in 0 .. N - 1
  BY <1>4
<1>9. (a * c) % N = 1
  BY <1>4, <1>7, <1>8, CongIs
<1>10. PICK i : i = ModInverse(a)
  OBVIOUS
<1>11. i \in 0 .. N - 1 /\ (a * i) % N = 1
  BY <1>3, <1>9, <1>10, Zenon DEF ModInverse, Points
<1>12. i \in Int /\ a * i \in Int
  BY <1>4, <1>11
<1>13. Cong(a * i, 1)
  BY <1>11, <1>12, CongMod
<1> QED BY <1>10, <1>11, <1>13

\* What is multiplied by a number and then by its inverse.
LEMMA Cancel ==
    ASSUME NEW a \in Int, NEW i \in Int, Cong(a * i, 1), NEW x \in Int, NEW y \in Int,
           Cong(x, a * y)
    PROVE  Cong(i * x, y)
<1>1. N \in Int /\ a \in Int
  BY GroupAssumption
<1>2. PICK k \in Int : x - a * y = k * N
  BY DEF Cong
<1>3. PICK j \in Int : a * i - 1 = j * N
  BY DEF Cong
<1>4. i * x = i * (a * y) + i * (k * N)
  BY <1>1, <1>2
<1>5. i * (a * y) = (a * i) * y
  BY <1>1
<1>6. (a * i) * y = y + (j * N) * y
  BY <1>1, <1>3
<1>7. i * (k * N) + (j * N) * y = (i * k + j * y) * N
  BY <1>1
<1>8. i * x - y = (i * k + j * y) * N
  <2>1. PICK u, v, w : u = i * (k * N) /\ v = (j * N) * y /\ w = i * x
    OBVIOUS
  <2>2. u \in Int /\ v \in Int /\ w \in Int
    BY <2>1, <1>1
  <2>3. w = (y + v) + u
    BY <2>1, <1>4, <1>5, <1>6
  <2>4. w - y = u + v
    BY <2>2, <2>3
  <2> QED BY <2>1, <2>4, <1>7
<1>9. i * k + j * y \in Int
  OBVIOUS
<1> QED BY <1>8, <1>9 DEF Cong

\* What is divided by a number and then multiplied by it.
LEMMA Restored ==
    ASSUME NEW a \in Int, NEW i \in Int, Cong(a * i, 1), NEW x \in Int
    PROVE  Cong(a * (i * x), x)
<1>1. PICK t, u : t = a * i /\ u = 1
  OBVIOUS
<1>2. t \in Int /\ u \in Int /\ Cong(t, u)
  BY <1>1
<1>3. Cong(x * t, x * u)
  BY <1>2, CongMul
<1>4. x * t = a * (i * x) /\ x * u = x
  BY <1>1
<1> QED BY <1>3, <1>4

-----------------------------------------------------------------------------
(* Signatures *)

\* N - (z % N) stands for -z.
LEMMA Negated ==
    ASSUME NEW z \in Nat, NEW y \in Int
    PROVE  /\ y + (N - (z % N)) \in Int
           /\ Cong(y + (N - (z % N)), y - z)
<1>1. PICK u : u = z % N
  OBVIOUS
<1>2. u \in 0 .. N - 1 /\ Cong(z, u) /\ N \in Nat
  BY <1>1, CongMod, GroupAssumption
<1>3. PICK k \in Int : z - u = k * N
  BY <1>2 DEF Cong
<1>4. (y + (N - u)) - (y - z) = (k + 1) * N
  <2>1. (k + 1) * N = k * N + N
    BY <1>2
  <2>2. PICK m : m = k * N
    OBVIOUS
  <2> QED BY <1>2, <1>3, <2>1, <2>2
<1>5. k + 1 \in Int
  OBVIOUS
<1>6. Cong(y + (N - u), y - z)
  BY <1>4, <1>5 DEF Cong
<1>7. y + (N - u) \in Int
  BY <1>2
<1> QED BY <1>1, <1>6, <1>7

\* Remainders are equal when the numbers are congruent.
LEMMA SameRemainder ==
    ASSUME NEW a \in Int, NEW b \in Int
    PROVE  a % N = b % N <=> Cong(a, b)
<1>1. PICK c : c = b % N
  OBVIOUS
<1>2. c \in 0 .. N - 1 /\ Cong(b, c) /\ N \in Int
  BY <1>1, CongMod, GroupAssumption
<1>3. c \in Int
  BY <1>2
<1>4. ASSUME a % N = c PROVE Cong(a, b)
  <2>1. Cong(a, c)
    BY <1>4, CongMod
  <2>2. Cong(c, b)
    BY <1>2, <1>3, CongSym
  <2> QED BY <2>1, <2>2, <1>3, CongTrans
<1>5. ASSUME Cong(a, b) PROVE a % N = c
  <2>1. Cong(a, c)
    BY <1>2, <1>3, <1>5, CongTrans
  <2> QED BY <2>1, <1>2, CongIs
<1> QED BY <1>1, <1>4, <1>5

\* z can be taken to the other side.
LEMMA Moved ==
    ASSUME NEW m \in Int, NEW z \in Int, NEW rq \in Int, NEW sR \in Int, Cong(m, sR - z)
    PROVE  Cong(m, rq) <=> Cong(z + rq, sR)
<1>1. PICK w : w = z + rq
  OBVIOUS
<1>2. w \in Int /\ sR - z \in Int
  BY <1>1
<1>3. ASSUME NEW a \in Int, NEW b \in Int, Cong(a, b) PROVE Cong(a + z, b + z) /\ Cong(a + (-z), b + (-z))
  <2>1. -z \in Int /\ Cong(z, z) /\ Cong(-z, -z)
    BY CongRefl
  <2>2. Cong(a + z, b + z)
    BY <1>3, <2>1, CongAdd
  <2>3. Cong(a + (-z), b + (-z))
    BY <1>3, <2>1, CongAdd
  <2> QED BY <2>2, <2>3
<1>4. ASSUME Cong(m, rq) PROVE Cong(w, sR)
  <2>1. Cong(rq, m)
    BY <1>4, CongSym
  <2>2. Cong(rq, sR - z)
    BY <2>1, <1>2, CongTrans
  <2>3. Cong(rq + z, (sR - z) + z)
    BY <2>2, <1>2, <1>3
  <2>4. rq + z = w /\ (sR - z) + z = sR
    BY <1>1
  <2> QED BY <2>3, <2>4
<1>5. ASSUME Cong(w, sR) PROVE Cong(m, rq)
  <2>1. Cong(sR, w)
    BY <1>5, <1>2, CongSym
  <2>2. Cong(sR + (-z), w + (-z))
    BY <2>1, <1>2, <1>3
  <2>3. sR + (-z) = sR - z /\ w + (-z) = rq
    BY <1>1
  <2>4. Cong(sR - z, rq)
    BY <2>2, <2>3
  <2> QED BY <2>4, <1>2, CongTrans
<1> QED BY <1>1, <1>4, <1>5

\* x divided by a is q exactly when x is a q.
LEMMA Divided ==
    ASSUME NEW a \in Int, NEW i \in Int, Cong(a * i, 1), NEW x \in Int, NEW q \in 0 .. N - 1
    PROVE  (i * x) % N = q <=> Cong(x, a * q)
<1>1. PICK aq : aq = a * q
  OBVIOUS
<1>2. N \in Int /\ q \in Int /\ aq \in Int /\ i * x \in Int /\ a * (i * x) \in Int
  BY <1>1, GroupAssumption
<1>3. ASSUME (i * x) % N = q PROVE Cong(x, aq)
  <2>1. Cong(i * x, q)
    BY <1>3, <1>2, CongMod
  <2>2. Cong(a * (i * x), aq)
    BY <2>1, <1>1, <1>2, CongMul
  <2>3. Cong(a * (i * x), x)
    BY Restored
  <2>4. Cong(x, a * (i * x))
    BY <2>3, <1>2, CongSym
  <2> QED BY <2>2, <2>4, <1>2, CongTrans
<1>4. ASSUME Cong(x, aq) PROVE (i * x) % N = q
  <2>1. Cong(x, a * q)
    BY <1>4, <1>1
  <2>2. Cong(i * x, q)
    BY <2>1, <1>2, Cancel
  <2> QED BY <2>2, <1>2, CongIs
<1> QED BY <1>1, <1>3, <1>4

\* The equation of a signature.
Meets(R, q, z, r, s) == Cong(z + r * q, s * R)

\* The key recovered from a point R is q exactly when they meet it.
LEMMA RecoveredIs ==
    ASSUME NEW R \in 0 .. N - 1, NEW q \in 0 .. N - 1, NEW z \in Nat,
           NEW r \in Int, r % N # 0, NEW s \in Int
    PROVE  Recovered(R, r, s, z) = q <=> Meets(R, q, z, r, s)
<1>1. PICK rm, ri : rm = r % N /\ ri = ModInverse(rm)
  OBVIOUS
<1>2. N \in Nat /\ N > 2
  BY GroupAssumption
<1>3. rm \in 0 .. N - 1 /\ Cong(r, rm)
  BY <1>1, CongMod
<1>4. rm \in 1 .. N - 1
  BY <1>1, <1>2, <1>3
<1>5. ri \in 0 .. N - 1 /\ Cong(rm * ri, 1)
  BY <1>1, <1>4, InverseIs
<1>6. rm \in Int /\ ri \in Int /\ R \in Int /\ q \in Int /\ z \in Int
  BY <1>2, <1>3, <1>5
<1>7. Cong(r * ri, 1)
  <2>1. Cong(ri * r, ri * rm)
    BY <1>3, <1>6, CongMul
  <2>2. PICK u, v : u = r * ri /\ v = rm * ri
    OBVIOUS
  <2>3. u \in Int /\ v \in Int /\ ri * r = u /\ ri * rm = v
    BY <2>2, <1>6
  <2>4. Cong(u, v) /\ Cong(v, 1)
    BY <2>1, <2>2, <2>3, <1>5
  <2>5. Cong(u, 1)
    BY <2>3, <2>4, CongTrans
  <2> QED BY <2>2, <2>5
<1>8. PICK sR, rq : sR = s * R /\ rq = r * q
  OBVIOUS
<1>9. sR \in Int /\ rq \in Int
  BY <1>6, <1>8
<1>10. PICK m : m = sR + (N - (z % N))
  OBVIOUS
<1>11. m \in Int /\ Cong(m, sR - z)
  BY <1>9, <1>10, Negated
<1>12. Recovered(R, r, s, z) = (ri * m) % N
  <2>1. Inverted(r) = ri
    BY <1>1 DEF Inverted
  <2> QED BY <2>1, <1>8, <1>10 DEF Recovered
<1>13. (ri * m) % N = q <=> Cong(m, r * q)
  BY <1>6, <1>7, <1>11, Divided
<1>14. Cong(m, rq) <=> Cong(z + rq, sR)
  BY <1>6, <1>9, <1>11, Moved
<1> QED BY <1>8, <1>12, <1>13, <1>14, Zenon DEF Meets

\* When r has no inverse, it is the point at infinity.
LEMMA RecoveredNothing ==
    ASSUME NEW R \in 0 .. N - 1, NEW z \in Nat, NEW r \in Int, r % N = 0, NEW s \in Int
    PROVE  Recovered(R, r, s, z) = 0
<1>1. PICK m : m = s * R + (N - (z % N))
  OBVIOUS
<1>2. N \in Nat /\ N > 2 /\ s * R \in Int
  BY GroupAssumption
<1>3. m \in Int
  BY <1>1, <1>2, Negated
<1>4. 0 * m = 0 /\ 0 % N = 0
  BY <1>2, <1>3
<1>5. Inverted(r) = 0
  BY DEF Inverted
<1> QED BY <1>1, <1>4, <1>5, Zenon DEF Recovered

\* It is a point in any case.
LEMMA RecoveredPoint ==
    ASSUME NEW R \in 0 .. N - 1, NEW z \in Nat, NEW r \in Int, NEW s \in Int
    PROVE  Recovered(R, r, s, z) \in 0 .. N - 1
<1>1. PICK m, i : m = s * R + (N - (z % N)) /\ i = Inverted(r)
  OBVIOUS
<1>2. N \in Nat /\ N > 2 /\ s * R \in Int
  BY GroupAssumption
<1>3. m \in Int
  BY <1>1, <1>2, Negated
<1>4. i \in Int
  <2>1. CASE r % N = 0
    BY <2>1, <1>1 DEF Inverted
  <2>2. CASE r % N # 0
    <3>1. r % N \in 1 .. N - 1
      <4>1. r % N \in 0 .. N - 1
        BY CongMod
      <4> QED BY <4>1, <2>2, <1>2
    <3>2. ModInverse(r % N) \in 0 .. N - 1
      BY <3>1, InverseIs
    <3> QED BY <3>2, <2>2, <1>1, <1>2 DEF Inverted
  <2> QED BY <2>1, <2>2
<1>5. i * m \in Int
  BY <1>3, <1>4
<1>6. (i * m) % N \in 0 .. N - 1
  BY <1>5, CongMod
<1> QED BY <1>1, <1>6, Zenon DEF Recovered

\* The point ECDSA computes is R exactly when they meet the equation.
LEMMA StandardPointIs ==
    ASSUME NEW R \in 0 .. N - 1, NEW q \in 0 .. N - 1, NEW z \in Nat,
           NEW r \in Int, NEW s \in 1 .. N - 1
    PROVE  StandardPoint(q, z, r, s) = R <=> Meets(R, q, z, r, s)
<1>1. PICK i, w : i = ModInverse(s) /\ w = z + r * q
  OBVIOUS
<1>2. N \in Nat /\ i \in 0 .. N - 1 /\ Cong(s * i, 1)
  BY <1>1, InverseIs, GroupAssumption
<1>3. i \in Int /\ s \in Int /\ w \in Int
  BY <1>1, <1>2
<1>4. (i * w) % N = R <=> Cong(w, s * R)
  BY <1>2, <1>3, Divided
<1> QED BY <1>1, <1>4, Zenon DEF StandardPoint, Meets

\* x-coordinates.
LEMMA XIsElement ==
    ASSUME NEW p \in 1 .. N - 1
    PROVE  X(p) \in 0 .. Field - 1
<1>1. PICK i : i = IF 2 * p < N THEN p ELSE N - p
  OBVIOUS
<1>2. N \in Nat /\ N > 2 /\ N % 2 # 0
  BY GroupAssumption
<1>3. 2 * p # N
  BY <1>2
<1>4. i \in 1 .. N \div 2
  BY <1>1, <1>2, <1>3
<1>5. Coordinate[i] \in 0 .. Field - 1
  BY <1>4, CurveAssumption
<1> QED BY <1>1, <1>5, Zenon DEF X

\* What the code tests for the key q.
Taken(q, z, r, s) == r % N # 0 /\ \E R \in PointsAt(r) : Meets(R, q, z, r, s)

\* The points with an x-coordinate, or the one at infinity.
LEMMA PointsAre ==
    ASSUME NEW r
    PROVE  /\ PointsAt(r) \subseteq 0 .. N - 1
           /\ \A R \in 1 .. N - 1 : R \in PointsAt(r) <=> X(R) = r % Field
           /\ 0 \in PointsAt(r) <=> \A R \in 1 .. N - 1 : X(R) # r % Field
<1>1. PICK at : at = {p \in 1 .. N - 1 : X(p) = r % Field}
  OBVIOUS
<1>2. PointsAt(r) = IF at = {} THEN {0} ELSE at
  BY <1>1 DEF PointsAt
<1>3. N \in Nat /\ N > 2
  BY GroupAssumption
<1>4. 0 \notin at /\ at \subseteq 0 .. N - 1 /\ 0 \in 0 .. N - 1 /\ \A R \in 1 .. N - 1 : R # 0
  BY <1>1, <1>3
<1>5. at = {} <=> \A R \in 1 .. N - 1 : X(R) # r % Field
  BY <1>1
<1> QED BY <1>1, <1>2, <1>4, <1>5

\* Signatures that are taken are valid or loose.
LEMMA TakenIs ==
    ASSUME NEW q \in 1 .. N - 1, NEW z \in Nat, NEW r \in Int, NEW s \in Int, Taken(q, z, r, s)
    PROVE  StandardVerify(q, z, r, s) \/ Loose(q, z, r, s)
<1>1. N \in Nat /\ N > 2 /\ Field \in Nat /\ Field > N /\ q < N /\ q \in 0 .. N - 1
  BY GroupAssumption, CurveAssumption
<1>2. r % N # 0
  BY DEF Taken
<1>3. PICK R \in PointsAt(r) : Meets(R, q, z, r, s)
  BY DEF Taken
<1>4. R \in 0 .. N - 1
  BY PointsAre
<1>5. CASE R = 0
  <2>1. \A p \in 1 .. N - 1 : X(p) # r % Field
    BY <1>3, <1>5, PointsAre
  <2>2. s * 0 = 0 /\ z + r * q \in Int /\ 0 \in 0 .. N - 1
    BY <1>1
  <2>3. Cong(z + r * q, 0)
    BY <1>3, <1>5, <2>2 DEF Meets
  <2>4. (z + r * q) % N = 0
    BY <2>2, <2>3, CongIs
  <2> QED BY <1>1, <1>2, <2>1, <2>4, Zenon DEF Loose, Pointless
<1>6. CASE R # 0
  <2>1. R \in 1 .. N - 1
    BY <1>1, <1>4, <1>6
  <2>2. X(R) = r % Field
    BY <2>1, <1>3, PointsAre
  <2>3. CASE r \in 1 .. N - 1 /\ s \in 1 .. N - 1
    <3>1. r % Field = r /\ r % N = r
      BY <2>3, <1>1
    <3>2. StandardPoint(q, z, r, s) = R
      BY <1>1, <1>3, <1>4, <2>3, StandardPointIs
    <3>3. {q, r, s} \subseteq 1 .. N - 1
      BY <2>3
    <3>4. X(R) % N = r
      BY <2>2, <3>1
    <3> QED BY <3>2, <3>3, <3>4, <1>6, Zenon DEF StandardVerify
  <2>4. CASE ~(r \in 1 .. N - 1 /\ s \in 1 .. N - 1)
    <3>1. ~({r, s} \subseteq 1 .. N - 1)
      BY <2>4
    <3>2. s * R \in Int /\ z + r * q \in Int
      BY <1>1, <2>1
    <3>3. (s * R) % N = (z + r * q) % N
      BY <3>2, <1>3, SameRemainder DEF Meets
    <3>4. Unranged(q, z, r, s)
      BY <3>1, <3>3, <2>1, <2>2, Zenon DEF Unranged
    <3> QED BY <3>4, <1>1, <1>2, Zenon DEF Loose
  <2> QED BY <2>3, <2>4
<1> QED BY <1>5, <1>6

\* And the loose ones are taken, as are the valid ones whose r was not reduced.
LEMMA IsTaken ==
    ASSUME NEW q \in 1 .. N - 1, NEW z \in Nat, NEW r \in Int, NEW s \in Int,
           \/ StandardVerify(q, z, r, s) /\ X(StandardPoint(q, z, r, s)) < N
           \/ Loose(q, z, r, s)
    PROVE  Taken(q, z, r, s)
<1>1. N \in Nat /\ N > 2 /\ Field \in Nat /\ Field > N /\ q < N /\ ~(q >= N) /\ q \in 0 .. N - 1
  BY GroupAssumption, CurveAssumption
<1>2. CASE StandardVerify(q, z, r, s) /\ X(StandardPoint(q, z, r, s)) < N
  <2>1. PICK R : R = StandardPoint(q, z, r, s)
    OBVIOUS
  <2>2. r \in 1 .. N - 1 /\ s \in 1 .. N - 1 /\ R # 0 /\ X(R) % N = r /\ X(R) < N
    BY <1>2, <2>1 DEF StandardVerify
  <2>3. R \in 0 .. N - 1
    <3>1. PICK i, w : i = ModInverse(s) /\ w = z + r * q
      OBVIOUS
    <3>2. i \in 0 .. N - 1
      BY <3>1, <2>2, InverseIs
    <3>3. i * w \in Int
      BY <3>1, <3>2, <1>1
    <3>4. (i * w) % N \in 0 .. N - 1
      BY <3>3, CongMod
    <3> QED BY <3>1, <3>4, <2>1, Zenon DEF StandardPoint
  <2>4. R \in 1 .. N - 1
    BY <2>2, <2>3, <1>1
  <2>5. X(R) \in Nat
    BY <2>4, XIsElement, <1>1
  <2>6. X(R) = r /\ r % Field = r /\ r % N # 0
    BY <2>2, <2>5, <1>1
  <2>7. R \in PointsAt(r)
    BY <2>4, <2>6, PointsAre
  <2>8. Meets(R, q, z, r, s)
    BY <2>1, <2>2, <2>3, <1>1, StandardPointIs
  <2> QED BY <2>6, <2>7, <2>8 DEF Taken
<1>3. CASE Loose(q, z, r, s)
  <2>1. r % N # 0 /\ (Unranged(q, z, r, s) \/ Pointless(q, z, r, s))
    BY <1>1, <1>3, Zenon DEF Loose
  <2>2. z + r * q \in Int
    BY <1>1
  <2>3. CASE Unranged(q, z, r, s)
    <3>1. PICK R \in 1 .. N - 1 : X(R) = r % Field /\ (s * R) % N = (z + r * q) % N
      BY <2>3 DEF Unranged
    <3>2. R \in PointsAt(r)
      BY <3>1, PointsAre
    <3>3. s * R \in Int
      BY <3>1, <1>1
    <3>4. Cong(z + r * q, s * R)
      BY <3>1, <3>3, <2>2, SameRemainder
    <3> QED BY <2>1, <3>2, <3>4 DEF Taken, Meets
  <2>4. CASE Pointless(q, z, r, s)
    <3>1. 0 \in PointsAt(r)
      BY <2>4, PointsAre DEF Pointless
    <3>2. (z + r * q) % N = 0 /\ s * 0 = 0
      BY <2>4 DEF Pointless
    <3>3. Cong(z + r * q, s * 0)
      BY <3>2, <2>2, CongMod
    <3> QED BY <2>1, <3>1, <3>3 DEF Taken, Meets
  <2> QED BY <2>1, <2>3, <2>4
<1> QED BY <1>2, <1>3

\* What the point at infinity is hashed to.
LEMMA HashedAre ==
    ASSUME NEW p \in 0 .. N - 1, NEW q \in Hashed(p)
    PROVE  q \in Nat /\ (p = 0 => q >= N) /\ (p # 0 => q = p /\ q \in 1 .. N - 1 /\ q < N)
<1>1. N \in Nat /\ N > 2
  BY GroupAssumption
<1>2. CASE p = 0
  <2>1. PICK b \in {0} \cup Tails : q = N + b
    BY <1>2 DEF Hashed
  <2>2. b \in 0..255
    BY <2>1, TailsAssumption
  <2> QED BY <2>1, <2>2, <1>1, <1>2
<1>3. CASE p # 0
  <2>1. q = p
    BY <1>3 DEF Hashed
  <2> QED BY <2>1, <1>1, <1>3
<1> QED BY <1>2, <1>3

\* The keys an address is made of.
LEMMA AddressOf ==
    ASSUME NEW p, NEW a \in pub2addr(p)
    PROVE  /\ a.hash \in Hashed(p)
           /\ a.hash \notin ShortSha /\ <<a.hash, 0>> \notin ShortRound =>
                 a = [hash |-> a.hash, check |-> <<0, 0>>]
<1>1. PICK h, t : h = a.hash /\ t = a.check
  OBVIOUS
<1>2. /\ h \in Hashed(p) /\ t \in ({0} \cup Tails) \X ({0} \cup Tails)
      /\ a = [hash |-> h, check |-> t]
      /\ t[1] \in TailOf(h \in ShortSha)
      /\ t[2] \in TailOf(<<h, t[1]>> \in ShortRound)
  BY <1>1 DEF pub2addr
<1>3. ASSUME h \notin ShortSha, <<h, 0>> \notin ShortRound
      PROVE  a = [hash |-> h, check |-> <<0, 0>>]
  <2>1. t[1] = 0
    BY <1>2, <1>3, Zenon DEF TailOf
  <2>2. t[2] = 0
    BY <1>2, <1>3, <2>1, Zenon DEF TailOf
  <2>3. t = <<t[1], t[2]>>
    BY <1>2
  <2> QED BY <1>2, <2>1, <2>2, <2>3, Zenon
<1> QED BY <1>1, <1>2, <1>3, Zenon

\* The last signature is two numbers.
SigInv == sig.r \in Int /\ sig.s \in Int

\* Signing draws nonces until it has one, or fails.
LEMMA SignStep ==
    ASSUME NEW key \in 1 .. N - 1, NEW z \in Digests, ecdsa_sign_message(key, z)
    PROVE  SigInv' /\ verdict' = NoVerdict
<1>1. CASE sig' = NoSig
  <2>1. sig'.r = 0 /\ sig'.s = 0
    BY <1>1 DEF NoSig
  <2> QED BY <2>1 DEF SigInv, ecdsa_sign_message
<1>2. CASE sig' # NoSig
  <2>1. PICK k \in 1 .. N - 1 :
          LET r == X(k) % N
              s == (ModInverse(k) * (z + r * key)) % N
          IN  sig' = [key |-> key, digest |-> z, r |-> r, s |-> s]
    BY <1>2, Zenon DEF ecdsa_sign_message
  <2>2. PICK r, b, s : r = X(k) % N /\ b = ModInverse(k) * (z + r * key) /\ s = b % N
    OBVIOUS
  <2>3. sig' = [key |-> key, digest |-> z, r |-> r, s |-> s]
    BY <2>1, <2>2
  <2>4. N \in Nat /\ N > 2 /\ Field \in Nat /\ z \in Nat
    BY GroupAssumption, CurveAssumption, DigestsAssumption
  <2>5. r \in Int
    <3>1. X(k) \in Int
      BY XIsElement, <2>4
    <3>2. X(k) % N \in 0 .. N - 1
      BY <3>1, CongMod
    <3> QED BY <3>2, <2>2, <2>4
  <2>6. s \in Int
    <3>1. ModInverse(k) \in 0 .. N - 1
      BY InverseIs
    <3>2. b \in Int
      BY <3>1, <2>2, <2>4, <2>5
    <3>3. b % N \in 0 .. N - 1
      BY <3>2, CongMod
    <3> QED BY <3>3, <2>2, <2>4
  <2>7. sig'.r = r /\ sig'.s = s
    BY <2>3
  <2> QED BY <2>5, <2>6, <2>7 DEF SigInv, ecdsa_sign_message
<1> QED BY <1>1, <1>2

\* The verdict for numbers nobody looked at.
LEMMA VerifyStep ==
    ASSUME NEW r \in Int, NEW s \in Int, NEW z \in Nat, NEW p \in Points, NEW a \in pub2addr(p),
           ecdsa_verify_signature(r, s, z, a)
    PROVE  VerdictIsStandard'
<1>1. PICK q, Q : q = a.hash /\ Q = [R \in PointsAt(r) |-> Recovered(R, r, s, z)]
  OBVIOUS
<1>2. PICK of :
        /\ \A R \in PointsAt(r) : of[R] \in pub2addr(Recovered(R, r, s, z))
        /\ verdict' = [r |-> r, s |-> s, digest |-> z, address |-> a,
                       ok |-> \E R \in PointsAt(r) : a = of[R]]
  BY Zenon DEF ecdsa_verify_signature
<1>3. PICK ok : ok = \E R \in PointsAt(r) : a = of[R]
  OBVIOUS
<1>4. /\ verdict'.address = a /\ verdict'.digest = z /\ verdict'.r = r /\ verdict'.s = s
      /\ verdict'.ok = ok
  <2>1. verdict' = [r |-> r, s |-> s, digest |-> z, address |-> a, ok |-> ok]
    BY <1>2, <1>3, Zenon
  <2> QED BY <2>1
<1>5. /\ N \in Nat /\ N > 2 /\ p \in 0 .. N - 1 /\ q \in Hashed(p) /\ q \in Nat
      /\ (q >= N \/ q \in 1 .. N - 1) /\ ~(q < N /\ q >= N)
  <2>1. N \in Nat /\ N > 2 /\ p \in 0 .. N - 1
    BY GroupAssumption DEF Points
  <2>2. q \in Hashed(p)
    BY <1>1, AddressOf
  <2>3. q \in Nat /\ (p = 0 => q >= N) /\ (p # 0 => q = p /\ q \in 1 .. N - 1)
    BY <2>1, <2>2, HashedAre
  <2> QED BY <2>1, <2>2, <2>3
<1>6. ASSUME NEW R \in PointsAt(r)
      PROVE  R \in 0 .. N - 1 /\ Q[R] = Recovered(R, r, s, z) /\ Q[R] \in 0 .. N - 1
             /\ of[R] \in pub2addr(Q[R])
  <2>1. R \in 0 .. N - 1
    BY PointsAre
  <2>2. Q[R] = Recovered(R, r, s, z)
    BY <1>1
  <2> QED BY <2>1, <2>2, <1>2, RecoveredPoint
<1>7. ASSUME \E R \in PointsAt(r) : a = of[R]
      PROVE  StandardVerify(q, z, r, s) \/ Loose(q, z, r, s)
  <2>1. PICK R \in PointsAt(r) : a = of[R]
    BY <1>7
  <2>2. R \in 0 .. N - 1 /\ Q[R] = Recovered(R, r, s, z) /\ Q[R] \in 0 .. N - 1 /\ a \in pub2addr(Q[R])
    BY <2>1, <1>6
  <2>3. q \in Hashed(Q[R])
    BY <2>2, <1>1, AddressOf
  <2>4. (Q[R] = 0 => q >= N) /\ (Q[R] # 0 => q = Q[R] /\ q \in 1 .. N - 1)
    BY <2>2, <2>3, HashedAre
  <2>5. CASE Q[R] = 0
    <3>1. q >= N
      BY <2>4, <2>5
    <3>2. CASE r % N = 0
      BY <3>1, <3>2 DEF Loose
    <3>3. CASE r % N # 0
      <4>1. 0 \in 0 .. N - 1 /\ r * 0 = 0 /\ z + 0 = z /\ s * R \in Int /\ z \in Int
        BY <1>5, <2>2
      <4>2. Meets(R, 0, z, r, s)
        BY <2>2, <2>5, <3>3, <4>1, RecoveredIs
      <4>3. Cong(z, s * R)
        BY <4>1, <4>2 DEF Meets
      <4>4. (s * R) % N = z % N
        BY <4>1, <4>3, SameRemainder
      <4> QED BY <3>1, <4>4, <2>1 DEF Loose
    <3> QED BY <3>2, <3>3
  <2>6. CASE Q[R] # 0
    <3>1. q = Q[R] /\ q \in 1 .. N - 1
      BY <2>4, <2>6
    <3>2. r % N # 0
      <4>1. r % N = 0 => Recovered(R, r, s, z) = 0
        BY <2>2, RecoveredNothing
      <4> QED BY <4>1, <2>2, <2>6
    <3>3. q \in 0 .. N - 1
      BY <3>1, <2>2
    <3>4. Meets(R, q, z, r, s)
      BY <3>1, <3>2, <3>3, <2>2, RecoveredIs
    <3>5. Taken(q, z, r, s)
      BY <3>2, <3>4, <2>1 DEF Taken
    <3> QED BY <3>1, <3>5, TakenIs
  <2> QED BY <2>5, <2>6
<1>8. ASSUME \/ StandardVerify(q, z, r, s) /\ X(StandardPoint(q, z, r, s)) < N
             \/ Loose(q, z, r, s),
             q \notin ShortSha, <<q, 0>> \notin ShortRound, q < N
      PROVE  \E R \in PointsAt(r) : a = of[R]
  <2>1. q \in 1 .. N - 1 /\ q \in 0 .. N - 1
    BY <1>5, <1>8
  <2>2. Taken(q, z, r, s)
    BY <2>1, <1>8, IsTaken
  <2>3. PICK R \in PointsAt(r) : r % N # 0 /\ Meets(R, q, z, r, s)
    BY <2>2 DEF Taken
  <2>4. R \in 0 .. N - 1 /\ Q[R] = Recovered(R, r, s, z) /\ of[R] \in pub2addr(Q[R])
    BY <1>6
  <2>5. Q[R] = q /\ q # 0
    BY <2>1, <2>3, <2>4, RecoveredIs
  <2>6. of[R].hash = q
    <3>1. of[R].hash \in Hashed(q)
      BY <2>4, <2>5, AddressOf
    <3> QED BY <3>1, <2>5 DEF Hashed
  <2>7. of[R] = [hash |-> q, check |-> <<0, 0>>]
    BY <2>4, <2>6, <1>8, AddressOf
  <2>8. a = [hash |-> q, check |-> <<0, 0>>]
    BY <1>1, <1>8, AddressOf
  <2> QED BY <2>7, <2>8
<1> QED BY <1>1, <1>3, <1>4, <1>7, <1>8, Zenon DEF VerdictIsStandard

\* Any call of the verification.
Verifies ==
    \E rs \in Forged \cup {<<sig.r, sig.s>>}, z \in Digests, p \in Points :
       \E a \in pub2addr(p) : ecdsa_verify_signature(rs[1], rs[2], z, a)

\* Every step keeps both.
LEMMA VerdictStep ==
    ASSUME SigInv, VerdictIsStandard, [Next]_vars
    PROVE  SigInv' /\ VerdictIsStandard'
<1>1. CASE UNCHANGED <<sig, verdict>>
  BY <1>1 DEF SigInv, VerdictIsStandard
<1>2. CASE \E key \in 1 .. N - 1, z \in Digests : ecdsa_sign_message(key, z)
  <2>1. SigInv' /\ verdict' = NoVerdict
    BY <1>2, SignStep
  <2> QED BY <2>1, Zenon DEF VerdictIsStandard
<1>3. CASE Verifies
  <2>1. PICK rs \in Forged \cup {<<sig.r, sig.s>>}, z \in Digests, p \in Points :
          \E a \in pub2addr(p) : ecdsa_verify_signature(rs[1], rs[2], z, a)
    BY <1>3 DEF Verifies
  <2>2. PICK a \in pub2addr(p) : ecdsa_verify_signature(rs[1], rs[2], z, a)
    BY <2>1
  <2>3. rs[1] \in Int /\ rs[2] \in Int /\ z \in Nat
    BY <2>1, ForgedAssumption, DigestsAssumption DEF SigInv
  <2>4. VerdictIsStandard'
    BY <2>2, <2>3, VerifyStep
  <2>5. sig' = sig
    BY <2>2 DEF ecdsa_verify_signature
  <2> QED BY <2>4, <2>5 DEF SigInv
<1>4. CASE Derive
  BY <1>1, <1>4 DEF Derive
<1>5. CASE \E r \in Requests : generateWallet(r)
  BY <1>1, <1>5 DEF generateWallet
<1>6. CASE \E w \in results, i \in Indexes : generateAddress(w, i)
  BY <1>1, <1>6 DEF generateAddress
<1>7. CASE \E w \in results, password \in {r.password : r \in Requests} : Restore(w, password)
  BY <1>1, <1>7 DEF Restore
<1>8. CASE \E s \in Starts, phrase \in Phrases : StartNode(phrase, s)
  BY <1>1, <1>8 DEF StartNode
<1>9. CASE \E data \in Datas : Encode(data)
  BY <1>1, <1>9 DEF Encode
<1>10. CASE UNCHANGED vars
  BY <1>1, <1>10 DEF vars
<1> QED BY <1>2, <1>3, <1>4, <1>5, <1>6, <1>7, <1>8, <1>9, <1>10, Zenon DEF Next, Verifies

-----------------------------------------------------------------------------
(* Folds *)

\* The folds of the conversions: the sum of the numbers v[x], a number read from
\* its digits in some base, a power, the bytes read so far as digits of Base58, and these
\* digits times 256 with a byte added.  k says which one, and of what.
Base(k) ==
    CASE k.fold = "sum"    -> 0
      [] k.fold = "value"  -> 0
      [] k.fold = "power"  -> 1
      [] k.fold = "digits" -> <<0>>
      [] k.fold = "times"  -> [carry |-> k.byte, out |-> <<>>]
Chosen(k, s) == IF k.fold = "sum" THEN CHOOSE x \in s : TRUE ELSE Max(s)
OneStep(k, x, acc) ==
    CASE k.fold = "sum"    -> k.v[x] + acc
      [] k.fold = "value"  -> k.base * acc + k.s[x]
      [] k.fold = "power"  -> k.base * acc
      [] k.fold = "digits" -> TimesByte(acc, k.s[x])
      [] k.fold = "times"  -> [carry |-> (acc.carry + k.s[x] * 256) \div 58,
                               out   |-> Append(acc.out, (acc.carry + k.s[x] * 256) % 58)]

FoldStep(k, S, it) ==
    [s \in S |-> IF s = {} THEN Base(k) ELSE OneStep(k, Chosen(k, s), it[s \ {Chosen(k, s)}])]

\* The fold itself: TLA+ defines a recursive function by CHOOSE.
Fold(k, S) == CHOOSE it : it = FoldStep(k, SUBSET S, it)

\* The subsets with at most n members.
UpTo(S, n) == {u \in SUBSET S : Cardinality(u) <= n}

\* Without one of its members a subset has one member less.
LEMMA RemoveOne ==
    ASSUME NEW S, IsFiniteSet(S), NEW n \in Nat, NEW s \in UpTo(S, n), NEW c \in s
    PROVE  n > 0 /\ s \ {c} \in UpTo(S, n - 1)
<1>1. s \subseteq S /\ Cardinality(s) <= n
  BY DEF UpTo
<1>2. IsFiniteSet(s)
  BY <1>1, FS_Subset
<1>3. IsFiniteSet(s \ {c}) /\ Cardinality(s \ {c}) = Cardinality(s) - 1
  BY <1>2, FS_RemoveElement
<1>4. Cardinality(s) \in Nat /\ Cardinality(s \ {c}) \in Nat
  BY <1>2, <1>3, FS_CardinalityType
<1>5. n > 0 /\ Cardinality(s \ {c}) <= n - 1
  BY <1>1, <1>3, <1>4
<1> QED BY <1>1, <1>5 DEF UpTo

\* The recursion that defines a fold has a solution on the subsets with at most
\* n members.
LEMMA FoldUpTo ==
    ASSUME NEW k, NEW S, IsFiniteSet(S), \A s \in SUBSET S : s # {} => Chosen(k, s) \in s,
           NEW n \in Nat
    PROVE  \E it : it = FoldStep(k, UpTo(S, n), it)
<1>1. PICK T : T = {m \in Nat : ~ \E it : it = FoldStep(k, UpTo(S, m), it)}
  OBVIOUS
<1>2. SUFFICES ASSUME T # {} PROVE FALSE
  BY <1>1
<1>3. PICK m \in T : \A y \in T : m <= y
  BY <1>1, <1>2, Smallest
<1>4. m \in Nat /\ ~ \E it : it = FoldStep(k, UpTo(S, m), it)
  BY <1>1
<1>5. PICK g : m > 0 => g = FoldStep(k, UpTo(S, m - 1), g)
  <2>1. CASE m > 0
    <3>1. m - 1 \in Nat /\ ~(m <= m - 1)
      BY <1>4, <2>1
    <3>2. m - 1 \notin T
      BY <3>1, <1>3
    <3> QED BY <3>1, <3>2, <1>1
  <2> QED BY <2>1
<1>6. PICK h : h = FoldStep(k, UpTo(S, m), g)
  OBVIOUS
<1>7. ASSUME NEW u \in UpTo(S, m - 1), m > 0 PROVE h[u] = g[u]
  <2>1. u \in UpTo(S, m)
    <3>1. u \in SUBSET S /\ Cardinality(u) <= m - 1
      BY <1>7 DEF UpTo
    <3>2. IsFiniteSet(u)
      BY <3>1, FS_Subset
    <3>3. Cardinality(u) \in Nat
      BY <3>2, FS_CardinalityType
    <3>4. Cardinality(u) <= m
      BY <3>1, <3>3, <1>4
    <3> QED BY <3>1, <3>4 DEF UpTo
  <2>2. g = FoldStep(k, UpTo(S, m - 1), g)
    BY <1>5, <1>7
  <2> DEFINE v == IF u = {} THEN Base(k) ELSE OneStep(k, Chosen(k, u), g[u \ {Chosen(k, u)}])
  <2>3. h[u] = v
    BY <1>6, <2>1, Zenon DEF FoldStep
  <2>4. g[u] = v
    BY <1>7, <2>2, Zenon DEF FoldStep
  <2> HIDE DEF v
  <2> QED BY <2>3, <2>4, Zenon
<1>8. ASSUME NEW s \in UpTo(S, m), s # {}
      PROVE  g[s \ {Chosen(k, s)}] = h[s \ {Chosen(k, s)}]
  <2>1. s \in SUBSET S
    BY DEF UpTo
  <2>2. Chosen(k, s) \in s
    BY <1>8, <2>1
  <2>3. m > 0 /\ s \ {Chosen(k, s)} \in UpTo(S, m - 1)
    BY <1>4, <2>2, RemoveOne
  <2> QED BY <1>7, <2>3
<1>9. h = FoldStep(k, UpTo(S, m), h)
  <2>1. FoldStep(k, UpTo(S, m), g) = FoldStep(k, UpTo(S, m), h)
    BY <1>8, Zenon DEF FoldStep
  <2> QED BY <1>6, <2>1, Zenon
<1> QED BY <1>4, <1>9, Zenon

\* A fold over a finite set is what its recursive definition says.
LEMMA FoldUnfolds ==
    ASSUME NEW k, NEW S, IsFiniteSet(S), \A s \in SUBSET S : s # {} => Chosen(k, s) \in s
    PROVE  /\ Fold(k, S)[{}] = Base(k)
           /\ \A s \in SUBSET S : s # {} =>
                Fold(k, S)[s] = OneStep(k, Chosen(k, s), Fold(k, S)[s \ {Chosen(k, s)}])
<1>1. PICK n : n = Cardinality(S)
  OBVIOUS
<1>2. n \in Nat
  BY <1>1, FS_CardinalityType
<1>3. UpTo(S, n) = SUBSET S
  <2>1. \A u \in SUBSET S : Cardinality(u) <= n
    BY <1>1, FS_Subset
  <2> QED BY <2>1 DEF UpTo
<1>4. \E it : it = FoldStep(k, UpTo(S, n), it)
  BY <1>2, FoldUpTo
<1>5. PICK f : f = Fold(k, S)
  OBVIOUS
<1>6. f = FoldStep(k, SUBSET S, f)
  BY <1>3, <1>4, <1>5, Zenon DEF Fold
<1>7. \A s \in SUBSET S :
        f[s] = IF s = {} THEN Base(k) ELSE OneStep(k, Chosen(k, s), f[s \ {Chosen(k, s)}])
  BY <1>6, Zenon DEF FoldStep
<1>8. {} \in SUBSET S
  OBVIOUS
<1> QED BY <1>5, <1>7, <1>8, Zenon

\* A set of positions has a largest one.
LEMMA MaxIsLargest ==
    ASSUME NEW n \in Nat, NEW T, T \subseteq 1..n, T # {}
    PROVE  Max(T) \in T /\ \A y \in T : Max(T) >= y
<1>1. PICK U : U = {n - x : x \in T}
  OBVIOUS
<1>2. U \subseteq Nat /\ U # {}
  <2>1. \A x \in T : n - x \in Nat
    OBVIOUS
  <2> QED BY <1>1, <2>1, Zenon
<1>3. PICK u \in U : \A y \in U : u <= y
  BY <1>2, Smallest
<1>4. PICK x \in T : u = n - x
  BY <1>1
<1>5. ASSUME NEW y \in T PROVE x >= y
  <2>1. n - y \in U
    BY <1>1
  <2>2. n - x <= n - y
    BY <1>3, <1>4, <2>1
  <2>3. x \in Nat /\ y \in Nat
    OBVIOUS
  <2> QED BY <2>2, <2>3
<1>6. \E z \in T : \A y \in T : z >= y
  BY <1>5
<1> QED BY <1>6, Zenon DEF Max

\* A fold over the positions of a sequence goes through them in order.
LEMMA FoldInOrder ==
    ASSUME NEW k, k.fold # "sum", NEW n \in Nat
    PROVE  \E g : /\ g[0] = Base(k)
                  /\ \A i \in 1..n : g[i] = OneStep(k, i, g[i - 1])
                  /\ Fold(k, 1..n)[1..n] = g[n]
<1>1. \A s \in SUBSET (1..n) : s # {} => Chosen(k, s) \in s
  BY MaxIsLargest DEF Chosen
<1>2. PICK f : f = Fold(k, 1..n)
  OBVIOUS
<1>3. /\ f[{}] = Base(k)
      /\ \A s \in SUBSET (1..n) : s # {} =>
           f[s] = OneStep(k, Chosen(k, s), f[s \ {Chosen(k, s)}])
  <2>1. IsFiniteSet(1..n)
    BY FS_Interval
  <2> QED BY <1>1, <1>2, <2>1, FoldUnfolds
<1>4. PICK g : g = [i \in 0..n |-> f[1..i]]
  OBVIOUS
<1>5. g[0] = Base(k)
  <2>1. 1..0 = {} /\ 0 \in 0..n
    OBVIOUS
  <2> QED BY <1>3, <1>4, <2>1
<1>6. ASSUME NEW i \in 1..n PROVE g[i] = OneStep(k, i, g[i - 1])
  <2>1. 1..i \in SUBSET (1..n) /\ 1..i # {} /\ i \in 1..i
    OBVIOUS
  <2>2. Max(1..i) = i
    <3>1. Max(1..i) \in 1..i /\ \A y \in 1..i : Max(1..i) >= y
      BY <2>1, MaxIsLargest
    <3> QED BY <2>1, <3>1
  <2>3. Chosen(k, 1..i) = i
    BY <2>2 DEF Chosen
  <2>4. (1..i) \ {i} = 1..(i - 1)
    OBVIOUS
  <2>5. f[1..i] = OneStep(k, i, f[1..(i - 1)])
    BY <1>3, <2>1, <2>3, <2>4, Zenon
  <2>6. g[i] = f[1..i] /\ g[i - 1] = f[1..(i - 1)]
    BY <1>4
  <2> QED BY <2>5, <2>6, Zenon
<1>7. g[n] = f[1..n]
  BY <1>4
<1> QED BY <1>2, <1>5, <1>6, <1>7, Zenon

\* What holds of the first pass and passes on holds of all.
LEMMA EveryPass ==
    ASSUME NEW n \in Nat, NEW S, 0 \in S, \A i \in 1..n : i - 1 \in S => i \in S
    PROVE  \A i \in 0..n : i \in S
<1>1. PICK T : T = {i \in Nat : i <= n /\ i \notin S}
  OBVIOUS
<1>2. SUFFICES ASSUME T # {} PROVE FALSE
  BY <1>1
<1>3. PICK i \in T : \A y \in T : i <= y
  BY <1>1, <1>2, Smallest
<1>4. i \in Nat /\ i <= n /\ i \notin S /\ i # 0
  BY <1>1
<1>5. i \in 1..n /\ i - 1 \in Nat /\ i - 1 <= n /\ ~(i <= i - 1)
  BY <1>4
<1>6. i - 1 \in S
  BY <1>1, <1>3, <1>5
<1> QED BY <1>4, <1>5, <1>6

-----------------------------------------------------------------------------
(* Sums of few numbers *)

\* The number v[c] counts if c is in T.
At(v, T, c) == IF c \in T THEN v[c] ELSE 0

\* The sum over a set T of numbers up to ten.
Eleven(v, T) ==
    At(v, T, 0) + At(v, T, 1) + At(v, T, 2) + At(v, T, 3) + At(v, T, 4) + At(v, T, 5)
        + At(v, T, 6) + At(v, T, 7) + At(v, T, 8) + At(v, T, 9) + At(v, T, 10)

\* Numbers for 0 to 10.
IsNumbers(v) == \A c \in 0..10 : v[c] \in Int

\* U is T, a set of such numbers, without c.
Without(U, T, c) == T \subseteq 0..10 /\ c \in T /\ U = T \ {c}

\* A member can be taken out of the sum.
LEMMA TakeOut ==
    ASSUME NEW v, IsNumbers(v), NEW T, NEW c, NEW U, Without(U, T, c)
    PROVE  Eleven(v, T) = v[c] + Eleven(v, U)
<1>1. PICK x : x = v[c]
  OBVIOUS
<1>2. /\ c \in 0..10 /\ x \in Int
      /\ \A d \in 0..10 : /\ At(v, U, d) \in Int
                          /\ At(v, T, d) = At(v, U, d) + (IF c = d THEN x ELSE 0)
  BY <1>1 DEF At, IsNumbers, Without
<1>3. PICK b0, b1, b2, b3, b4, b5, b6, b7, b8, b9, b10 :
         /\ b0 = At(v, U, 0) /\ b1 = At(v, U, 1) /\ b2 = At(v, U, 2) /\ b3 = At(v, U, 3)
         /\ b4 = At(v, U, 4) /\ b5 = At(v, U, 5) /\ b6 = At(v, U, 6) /\ b7 = At(v, U, 7)
         /\ b8 = At(v, U, 8) /\ b9 = At(v, U, 9) /\ b10 = At(v, U, 10)
  OBVIOUS
<1>4. /\ b0 \in Int /\ b1 \in Int /\ b2 \in Int /\ b3 \in Int /\ b4 \in Int /\ b5 \in Int
      /\ b6 \in Int /\ b7 \in Int /\ b8 \in Int /\ b9 \in Int /\ b10 \in Int
  BY <1>2, <1>3
<1>5. /\ At(v, T, 0) = b0 + (IF c = 0 THEN x ELSE 0)
      /\ At(v, T, 1) = b1 + (IF c = 1 THEN x ELSE 0)
      /\ At(v, T, 2) = b2 + (IF c = 2 THEN x ELSE 0)
      /\ At(v, T, 3) = b3 + (IF c = 3 THEN x ELSE 0)
      /\ At(v, T, 4) = b4 + (IF c = 4 THEN x ELSE 0)
      /\ At(v, T, 5) = b5 + (IF c = 5 THEN x ELSE 0)
      /\ At(v, T, 6) = b6 + (IF c = 6 THEN x ELSE 0)
      /\ At(v, T, 7) = b7 + (IF c = 7 THEN x ELSE 0)
      /\ At(v, T, 8) = b8 + (IF c = 8 THEN x ELSE 0)
      /\ At(v, T, 9) = b9 + (IF c = 9 THEN x ELSE 0)
      /\ At(v, T, 10) = b10 + (IF c = 10 THEN x ELSE 0)
  BY <1>2, <1>3
<1>6. Eleven(v, U) = b0 + b1 + b2 + b3 + b4 + b5 + b6 + b7 + b8 + b9 + b10
  BY <1>3, Zenon DEF Eleven
<1>7. Eleven(v, T) = x + Eleven(v, U)
  BY <1>2, <1>4, <1>5, <1>6 DEF Eleven
<1> QED BY <1>1, <1>7

\* The first of the folds.
SumOf(v) == [fold |-> "sum", v |-> v]

\* It is that sum, in whatever order its members are chosen.
LEMMA SumIs ==
    ASSUME NEW v, IsNumbers(v), NEW m \in 0..10
    PROVE  Fold(SumOf(v), 0..m)[0..m] = Eleven(v, 0..m)
<1>1. PICK k, S : k = SumOf(v) /\ S = 0..m
  OBVIOUS
<1>2. k.fold = "sum" /\ k.v = v
  BY <1>1 DEF SumOf
<1>3. \A s \in SUBSET S : s # {} => Chosen(k, s) \in s
  BY <1>2, Zenon DEF Chosen
<1>4. IsFiniteSet(S) /\ S \subseteq 0..10
  BY <1>1, FS_Interval
<1>5. PICK f : f = Fold(k, S)
  OBVIOUS
<1>6. /\ f[{}] = Base(k)
      /\ \A s \in SUBSET S : s # {} =>
           f[s] = OneStep(k, Chosen(k, s), f[s \ {Chosen(k, s)}])
  BY <1>3, <1>4, <1>5, FoldUnfolds
<1>7. f[{}] = 0
  BY <1>2, <1>6 DEF Base
<1>8. \A s \in SUBSET S : s # {} => \E c \in s : f[s] = v[c] + f[s \ {c}]
  BY <1>2, <1>3, <1>6, Zenon DEF OneStep
<1>9. PICK T : T = {n \in Nat : \E u \in SUBSET S : Cardinality(u) = n /\ f[u] # Eleven(v, u)}
  OBVIOUS
<1>10. \A u \in SUBSET S : IsFiniteSet(u) /\ Cardinality(u) \in Nat
  BY <1>4, FS_Subset, FS_CardinalityType
<1>11. T = {}
  <2> SUFFICES ASSUME T # {} PROVE FALSE
    OBVIOUS
  <2>1. PICK n \in T : \A y \in T : n <= y
    BY <1>9, Smallest
  <2>2. PICK u \in SUBSET S : Cardinality(u) = n /\ f[u] # Eleven(v, u)
    BY <1>9
  <2>3. u # {}
    <3>1. PICK e : e = {}
      OBVIOUS
    <3>2. \A c : At(v, e, c) = 0
      BY <3>1 DEF At
    <3>3. /\ At(v, e, 0) = 0 /\ At(v, e, 1) = 0 /\ At(v, e, 2) = 0 /\ At(v, e, 3) = 0
          /\ At(v, e, 4) = 0 /\ At(v, e, 5) = 0 /\ At(v, e, 6) = 0 /\ At(v, e, 7) = 0
          /\ At(v, e, 8) = 0 /\ At(v, e, 9) = 0 /\ At(v, e, 10) = 0
      BY <3>2
    <3>4. Eleven(v, e) = 0 + 0 + 0 + 0 + 0 + 0 + 0 + 0 + 0 + 0 + 0
      BY <3>3, Zenon DEF Eleven
    <3>5. 0 + 0 + 0 + 0 + 0 + 0 + 0 + 0 + 0 + 0 + 0 = 0
      OBVIOUS
    <3> QED BY <1>7, <2>2, <3>1, <3>5, <3>4, Zenon
  <2>4. PICK c \in u : f[u] = v[c] + f[u \ {c}]
    BY <1>8, <2>3
  <2>5. u \ {c} \in SUBSET S /\ Cardinality(u \ {c}) = n - 1
    BY <1>10, <2>2, FS_RemoveElement
  <2>6. n - 1 \notin T /\ n - 1 \in Nat
    BY <1>9, <1>10, <2>1, <2>5
  <2>7. f[u \ {c}] = Eleven(v, u \ {c})
    BY <1>9, <2>5, <2>6
  <2>8. Eleven(v, u) = v[c] + Eleven(v, u \ {c})
    <3>1. PICK w : w = u \ {c}
      OBVIOUS
    <3>2. Without(w, u, c)
      BY <1>4, <3>1 DEF Without
    <3>3. Eleven(v, u) = v[c] + Eleven(v, w)
      BY <3>2, TakeOut
    <3> QED BY <3>1, <3>3
  <2> QED BY <2>2, <2>4, <2>7, <2>8, Zenon
<1>12. f[S] = Eleven(v, S)
  BY <1>9, <1>10, <1>11
<1> QED BY <1>1, <1>5, <1>12, Zenon

\* The two sums the conversions need.
LEMMA ElevenAdded ==
    ASSUME NEW v, IsNumbers(v)
    PROVE  /\ Eleven(v, 0..10)
                = v[0] + v[1] + v[2] + v[3] + v[4] + v[5] + v[6] + v[7] + v[8] + v[9] + v[10]
           /\ Eleven(v, 0..7) = v[0] + v[1] + v[2] + v[3] + v[4] + v[5] + v[6] + v[7]
<1>1. /\ \A c \in 0..10 : At(v, 0..10, c) = v[c]
      /\ \A c \in 0..7 : At(v, 0..7, c) = v[c]
      /\ \A c \in 8..10 : At(v, 0..7, c) = 0
  BY DEF At
<1>2. /\ At(v, 0..10, 0) = v[0] /\ At(v, 0..10, 1) = v[1] /\ At(v, 0..10, 2) = v[2]
      /\ At(v, 0..10, 3) = v[3] /\ At(v, 0..10, 4) = v[4] /\ At(v, 0..10, 5) = v[5]
      /\ At(v, 0..10, 6) = v[6] /\ At(v, 0..10, 7) = v[7] /\ At(v, 0..10, 8) = v[8]
      /\ At(v, 0..10, 9) = v[9] /\ At(v, 0..10, 10) = v[10]
  BY <1>1
<1>3. /\ At(v, 0..7, 0) = v[0] /\ At(v, 0..7, 1) = v[1] /\ At(v, 0..7, 2) = v[2]
      /\ At(v, 0..7, 3) = v[3] /\ At(v, 0..7, 4) = v[4] /\ At(v, 0..7, 5) = v[5]
      /\ At(v, 0..7, 6) = v[6] /\ At(v, 0..7, 7) = v[7] /\ At(v, 0..7, 8) = 0
      /\ At(v, 0..7, 9) = 0 /\ At(v, 0..7, 10) = 0
  BY <1>1
<1>4. /\ v[0] \in Int /\ v[1] \in Int /\ v[2] \in Int /\ v[3] \in Int /\ v[4] \in Int
      /\ v[5] \in Int /\ v[6] \in Int /\ v[7] \in Int /\ v[8] \in Int /\ v[9] \in Int
      /\ v[10] \in Int
  BY DEF IsNumbers
<1>5. Eleven(v, 0..10) = v[0] + v[1] + v[2] + v[3] + v[4] + v[5] + v[6] + v[7] + v[8] + v[9] + v[10]
  BY <1>2, Zenon DEF Eleven
<1>6. Eleven(v, 0..7) = v[0] + v[1] + v[2] + v[3] + v[4] + v[5] + v[6] + v[7] + 0 + 0 + 0
  BY <1>3, Zenon DEF Eleven
<1> QED BY <1>4, <1>5, <1>6

-----------------------------------------------------------------------------
(* Bits *)

\* A word and a byte of their bits, and the bits of a word.
WordOf(b) == 1024 * b[0] + 512 * b[1] + 256 * b[2] + 128 * b[3] + 64 * b[4] + 32 * b[5]
             + 16 * b[6] + 8 * b[7] + 4 * b[8] + 2 * b[9] + b[10]
ByteOf(b) == 128 * b[0] + 64 * b[1] + 32 * b[2] + 16 * b[3] + 8 * b[4] + 4 * b[5] + 2 * b[6]
             + b[7]
BitIn(w, c) == (w \div 2 ^ (10 - c)) % 2

\* The word eleven bits make.
LEMMA WordIs ==
    ASSUME NEW bits, NEW count, NEW i, i \in 1..count, NEW b,
           \A c \in 0..10 : b[c] \in {0, 1} /\ bits[11 * (i - 1) + c] = b[c]
    PROVE  bitsToWords(bits, count)[i]
             = WordOf(b)
<1> DEFINE f(c) == bits[11 * (i - 1) + c] * 2 ^ (10 - c)
           Pick(s) == CHOOSE x \in s : TRUE
           Step(it) == [s \in SUBSET (0..10) |->
                          IF s = {} THEN 0 ELSE f(Pick(s)) + it[s \ {Pick(s)}]]
<1>1. bitsToWords(bits, count)[i] = MapThenSumSet(f, 0..10)
  BY DEF bitsToWords, Total
<1>2. \A c \in 0..10 : f(c) = b[c] * 2 ^ (10 - c)
  OBVIOUS
<1>3. /\ f(0) = 1024 * b[0] /\ f(1) = 512 * b[1] /\ f(2) = 256 * b[2] /\ f(3) = 128 * b[3]
      /\ f(4) = 64 * b[4] /\ f(5) = 32 * b[5] /\ f(6) = 16 * b[6] /\ f(7) = 8 * b[7]
      /\ f(8) = 4 * b[8] /\ f(9) = 2 * b[9] /\ f(10) = b[10]
  <2>1. /\ b[0] \in Int /\ b[1] \in Int /\ b[2] \in Int /\ b[3] \in Int /\ b[4] \in Int
        /\ b[5] \in Int /\ b[6] \in Int /\ b[7] \in Int /\ b[8] \in Int /\ b[9] \in Int
        /\ b[10] \in Int
    OBVIOUS
  <2>2. /\ f(0) = b[0] * 2 ^ (10 - 0) /\ f(1) = b[1] * 2 ^ (10 - 1)
        /\ f(2) = b[2] * 2 ^ (10 - 2) /\ f(3) = b[3] * 2 ^ (10 - 3)
        /\ f(4) = b[4] * 2 ^ (10 - 4) /\ f(5) = b[5] * 2 ^ (10 - 5)
        /\ f(6) = b[6] * 2 ^ (10 - 6) /\ f(7) = b[7] * 2 ^ (10 - 7)
        /\ f(8) = b[8] * 2 ^ (10 - 8) /\ f(9) = b[9] * 2 ^ (10 - 9)
        /\ f(10) = b[10] * 2 ^ (10 - 10)
    BY <1>2
  <2>3. /\ 2 ^ (10 - 0) = 1024 /\ 2 ^ (10 - 1) = 512 /\ 2 ^ (10 - 2) = 256
        /\ 2 ^ (10 - 3) = 128 /\ 2 ^ (10 - 4) = 64 /\ 2 ^ (10 - 5) = 32 /\ 2 ^ (10 - 6) = 16
        /\ 2 ^ (10 - 7) = 8 /\ 2 ^ (10 - 8) = 4 /\ 2 ^ (10 - 9) = 2 /\ 2 ^ (10 - 10) = 1
    OBVIOUS
  <2> HIDE DEF f
  <2> QED BY <2>1, <2>2, <2>3
<1> HIDE DEF f
<1>4. MapThenSumSet(f, 0..10) = (CHOOSE it : it = Step(it))[0..10]
  BY DEF MapThenSumSet, MapThenFoldSet
<1>5. PICK v, k : v = [c \in 0..10 |-> IF c <= 10 THEN f(c) ELSE 0] /\ k = SumOf(v)
  OBVIOUS
<1>6. k.fold = "sum" /\ k.v = v /\ \A c \in 0..10 : v[c] = f(c)
  BY <1>5 DEF SumOf
<1>7. IsNumbers(v)
  <2>1. \A c \in 0..10 : c = 0 \/ c = 1 \/ c = 2 \/ c = 3 \/ c = 4 \/ c = 5
                         \/ c = 6 \/ c = 7 \/ c = 8 \/ c = 9 \/ c = 10
    OBVIOUS
  <2>2. \A c \in 0..10 : f(c) \in Int
    BY <1>3, <2>1
  <2> QED BY <1>5, <2>2 DEF IsNumbers
<1>8. ASSUME NEW it PROVE FoldStep(k, SUBSET (0..10), it) = Step(it)
  <2>1. \A s \in SUBSET (0..10) : s # {} => Pick(s) \in s
    OBVIOUS
  <2>2. \A s \in SUBSET (0..10) : s # {} => v[Pick(s)] = f(Pick(s)) /\ Chosen(k, s) = Pick(s)
    BY <1>6, <2>1 DEF Chosen
  <2> HIDE DEF Pick
  <2> QED BY <1>6, <2>2 DEF FoldStep, Base, OneStep
<1> HIDE DEF Step
<1>9. Fold(k, 0..10) = CHOOSE it : it = Step(it)
  BY <1>8, Zenon DEF Fold
<1>10. Fold(k, 0..10)[0..10] = Eleven(v, 0..10)
  <2>1. PICK m : m = 10 /\ m \in 0..10
    OBVIOUS
  <2>2. Fold(k, 0..m)[0..m] = Eleven(v, 0..m)
    BY <1>5, <1>7, <2>1, SumIs
  <2> QED BY <2>1, <2>2
<1>11. Eleven(v, 0..10) = v[0] + v[1] + v[2] + v[3] + v[4] + v[5] + v[6] + v[7] + v[8] + v[9] + v[10]
  BY <1>7, ElevenAdded
<1>12. /\ v[0] = f(0) /\ v[1] = f(1) /\ v[2] = f(2) /\ v[3] = f(3) /\ v[4] = f(4)
       /\ v[5] = f(5) /\ v[6] = f(6) /\ v[7] = f(7) /\ v[8] = f(8) /\ v[9] = f(9)
       /\ v[10] = f(10)
  BY <1>6
<1>13. bitsToWords(bits, count)[i] = f(0) + f(1) + f(2) + f(3) + f(4) + f(5) + f(6) + f(7) + f(8) + f(9) + f(10)
  BY <1>1, <1>4, <1>9, <1>10, <1>11, <1>12, Zenon
<1>14. PICK a0, a1, a2, a3, a4, a5, a6, a7, a8, a9, a10 :
        /\ a0 = f(0) /\ a1 = f(1) /\ a2 = f(2) /\ a3 = f(3) /\ a4 = f(4) /\ a5 = f(5)
        /\ a6 = f(6) /\ a7 = f(7) /\ a8 = f(8) /\ a9 = f(9) /\ a10 = f(10)
  OBVIOUS
<1>15. bitsToWords(bits, count)[i] = a0 + a1 + a2 + a3 + a4 + a5 + a6 + a7 + a8 + a9 + a10
  BY <1>13, <1>14, Zenon
<1>16. /\ a0 = 1024 * b[0] /\ a1 = 512 * b[1] /\ a2 = 256 * b[2] /\ a3 = 128 * b[3]
       /\ a4 = 64 * b[4] /\ a5 = 32 * b[5] /\ a6 = 16 * b[6] /\ a7 = 8 * b[7]
       /\ a8 = 4 * b[8] /\ a9 = 2 * b[9] /\ a10 = b[10]
  BY <1>3, <1>14, Zenon
<1>17. /\ b[0] \in Int /\ b[1] \in Int /\ b[2] \in Int /\ b[3] \in Int /\ b[4] \in Int
       /\ b[5] \in Int /\ b[6] \in Int /\ b[7] \in Int /\ b[8] \in Int /\ b[9] \in Int
       /\ b[10] \in Int
  OBVIOUS
<1> QED BY ONLY <1>15, <1>16, <1>17 DEF WordOf

\* The bits of byte i are b.
ByteHas(bits, i, b) == \A c \in 0..7 : b[c] \in {0, 1} /\ bits[8 * (i - 1) + c] = b[c]

\* The byte eight bits make.
LEMMA ByteIs ==
    ASSUME NEW bits, NEW count, NEW i, i \in 1 .. count \div 8, NEW b, ByteHas(bits, i, b)
    PROVE  SplitBitsForSha(bits, count)[i]
             = ByteOf(b)
<1> DEFINE f(c) == bits[8 * (i - 1) + c] * 2 ^ (7 - c)
           Pick(s) == CHOOSE x \in s : TRUE
           Step(it) == [s \in SUBSET (0..7) |->
                          IF s = {} THEN 0 ELSE f(Pick(s)) + it[s \ {Pick(s)}]]
<1>1. SplitBitsForSha(bits, count)[i] = MapThenSumSet(f, 0..7)
  BY DEF SplitBitsForSha, Total
<1>2. \A c \in 0..7 : f(c) = b[c] * 2 ^ (7 - c)
  BY DEF ByteHas
<1>3. /\ f(0) = 128 * b[0] /\ f(1) = 64 * b[1] /\ f(2) = 32 * b[2] /\ f(3) = 16 * b[3]
      /\ f(4) = 8 * b[4] /\ f(5) = 4 * b[5] /\ f(6) = 2 * b[6] /\ f(7) = b[7]
  <2>1. /\ b[0] \in Int /\ b[1] \in Int /\ b[2] \in Int /\ b[3] \in Int /\ b[4] \in Int
        /\ b[5] \in Int /\ b[6] \in Int /\ b[7] \in Int
    BY DEF ByteHas
  <2>2. /\ f(0) = b[0] * 2 ^ (7 - 0) /\ f(1) = b[1] * 2 ^ (7 - 1) /\ f(2) = b[2] * 2 ^ (7 - 2)
        /\ f(3) = b[3] * 2 ^ (7 - 3) /\ f(4) = b[4] * 2 ^ (7 - 4) /\ f(5) = b[5] * 2 ^ (7 - 5)
        /\ f(6) = b[6] * 2 ^ (7 - 6) /\ f(7) = b[7] * 2 ^ (7 - 7)
    BY <1>2
  <2>3. /\ 2 ^ (7 - 0) = 128 /\ 2 ^ (7 - 1) = 64 /\ 2 ^ (7 - 2) = 32 /\ 2 ^ (7 - 3) = 16
        /\ 2 ^ (7 - 4) = 8 /\ 2 ^ (7 - 5) = 4 /\ 2 ^ (7 - 6) = 2 /\ 2 ^ (7 - 7) = 1
    OBVIOUS
  <2> HIDE DEF f
  <2> QED BY <2>1, <2>2, <2>3
<1> HIDE DEF f
<1>4. MapThenSumSet(f, 0..7) = (CHOOSE it : it = Step(it))[0..7]
  BY DEF MapThenSumSet, MapThenFoldSet
<1>5. PICK v, k : v = [c \in 0..10 |-> IF c <= 7 THEN f(c) ELSE 0] /\ k = SumOf(v)
  OBVIOUS
<1>6. k.fold = "sum" /\ k.v = v /\ \A c \in 0..7 : v[c] = f(c)
  BY <1>5 DEF SumOf
<1>7. IsNumbers(v)
  <2>1. \A c \in 0..7 : c = 0 \/ c = 1 \/ c = 2 \/ c = 3 \/ c = 4 \/ c = 5 \/ c = 6 \/ c = 7
    OBVIOUS
  <2>2. \A c \in 0..7 : f(c) \in Int
    BY <1>3, <2>1 DEF ByteHas
  <2> QED BY <1>5, <2>2 DEF IsNumbers
<1>8. ASSUME NEW it PROVE FoldStep(k, SUBSET (0..7), it) = Step(it)
  <2>1. \A s \in SUBSET (0..7) : s # {} => Pick(s) \in s
    OBVIOUS
  <2>2. \A s \in SUBSET (0..7) : s # {} => v[Pick(s)] = f(Pick(s)) /\ Chosen(k, s) = Pick(s)
    BY <1>6, <2>1 DEF Chosen
  <2> HIDE DEF Pick
  <2> QED BY <1>6, <2>2 DEF FoldStep, Base, OneStep
<1> HIDE DEF Step
<1>9. Fold(k, 0..7) = CHOOSE it : it = Step(it)
  BY <1>8, Zenon DEF Fold
<1>10. Fold(k, 0..7)[0..7] = Eleven(v, 0..7)
  <2>1. PICK m : m = 7 /\ m \in 0..10
    OBVIOUS
  <2>2. Fold(k, 0..m)[0..m] = Eleven(v, 0..m)
    BY <1>5, <1>7, <2>1, SumIs
  <2> QED BY <2>1, <2>2
<1>11. Eleven(v, 0..7) = v[0] + v[1] + v[2] + v[3] + v[4] + v[5] + v[6] + v[7]
  BY <1>7, ElevenAdded
<1>12. /\ v[0] = f(0) /\ v[1] = f(1) /\ v[2] = f(2) /\ v[3] = f(3) /\ v[4] = f(4)
       /\ v[5] = f(5) /\ v[6] = f(6) /\ v[7] = f(7)
  BY <1>6
<1>13. SplitBitsForSha(bits, count)[i] = f(0) + f(1) + f(2) + f(3) + f(4) + f(5) + f(6) + f(7)
  BY <1>1, <1>4, <1>9, <1>10, <1>11, <1>12, Zenon
<1> QED BY <1>3, <1>13, Zenon DEF ByteOf

\* Every bit can be read off the word.
LEMMA WordBits ==
    ASSUME NEW b, \A c \in 0..10 : b[c] \in {0, 1}, NEW w,
           w = WordOf(b)
    PROVE  w \in 0..2047 /\ \A c \in 0..10 : BitIn(w, c) = b[c]
<1>1. PICK b0, b1, b2, b3, b4, b5, b6, b7, b8, b9, b10 :
        /\ b0 = b[0] /\ b1 = b[1] /\ b2 = b[2] /\ b3 = b[3] /\ b4 = b[4] /\ b5 = b[5]
        /\ b6 = b[6] /\ b7 = b[7] /\ b8 = b[8] /\ b9 = b[9] /\ b10 = b[10]
  OBVIOUS
<1>2. /\ b0 \in {0, 1} /\ b1 \in {0, 1} /\ b2 \in {0, 1} /\ b3 \in {0, 1} /\ b4 \in {0, 1}
      /\ b5 \in {0, 1} /\ b6 \in {0, 1} /\ b7 \in {0, 1} /\ b8 \in {0, 1} /\ b9 \in {0, 1}
      /\ b10 \in {0, 1}
  BY <1>1
<1>3. w = 1024 * b0 + 512 * b1 + 256 * b2 + 128 * b3 + 64 * b4 + 32 * b5 + 16 * b6 + 8 * b7
          + 4 * b8 + 2 * b9 + b10
  <2>1. w = 1024 * b[0] + 512 * b[1] + 256 * b[2] + 128 * b[3] + 64 * b[4] + 32 * b[5] + 16 * b[6]
          + 8 * b[7] + 4 * b[8] + 2 * b[9] + b[10]
    BY Zenon DEF WordOf
  <2> QED BY ONLY <2>1, <1>1, <1>2
<1>4. w \in 0..2047
  BY ONLY <1>2, <1>3
<1>5. (w \div 1024) % 2 = b0
  BY ONLY <1>2, <1>3
<1>6. (w \div 512) % 2 = b1
  BY ONLY <1>2, <1>3
<1>7. (w \div 256) % 2 = b2
  BY ONLY <1>2, <1>3
<1>8. (w \div 128) % 2 = b3
  BY ONLY <1>2, <1>3
<1>9. (w \div 64) % 2 = b4
  BY ONLY <1>2, <1>3
<1>10. (w \div 32) % 2 = b5
  BY ONLY <1>2, <1>3
<1>11. (w \div 16) % 2 = b6
  BY ONLY <1>2, <1>3
<1>12. (w \div 8) % 2 = b7
  BY ONLY <1>2, <1>3
<1>13. (w \div 4) % 2 = b8
  BY ONLY <1>2, <1>3
<1>14. (w \div 2) % 2 = b9
  BY ONLY <1>2, <1>3
<1>15. (w \div 1) % 2 = b10
  BY ONLY <1>2, <1>3
<1>16. ASSUME NEW c \in 0..10 PROVE BitIn(w, c) = b[c]
  <2>1. c = 0 \/ c = 1 \/ c = 2 \/ c = 3 \/ c = 4 \/ c = 5 \/ c = 6 \/ c = 7 \/ c = 8 \/ c = 9 \/ c = 10
    OBVIOUS
  <2>2. CASE c = 0
    <3>1. 2 ^ (10 - c) = 1024
      BY <2>2
    <3>2. b[c] = b0
      BY ONLY <1>1, <2>2, Zenon
    <3> QED BY ONLY <1>5, <3>1, <3>2 DEF BitIn
  <2>3. CASE c = 1
    <3>1. 2 ^ (10 - c) = 512
      BY <2>3
    <3>2. b[c] = b1
      BY ONLY <1>1, <2>3, Zenon
    <3> QED BY ONLY <1>6, <3>1, <3>2 DEF BitIn
  <2>4. CASE c = 2
    <3>1. 2 ^ (10 - c) = 256
      BY <2>4
    <3>2. b[c] = b2
      BY ONLY <1>1, <2>4, Zenon
    <3> QED BY ONLY <1>7, <3>1, <3>2 DEF BitIn
  <2>5. CASE c = 3
    <3>1. 2 ^ (10 - c) = 128
      BY <2>5
    <3>2. b[c] = b3
      BY ONLY <1>1, <2>5, Zenon
    <3> QED BY ONLY <1>8, <3>1, <3>2 DEF BitIn
  <2>6. CASE c = 4
    <3>1. 2 ^ (10 - c) = 64
      BY <2>6
    <3>2. b[c] = b4
      BY ONLY <1>1, <2>6, Zenon
    <3> QED BY ONLY <1>9, <3>1, <3>2 DEF BitIn
  <2>7. CASE c = 5
    <3>1. 2 ^ (10 - c) = 32
      BY <2>7
    <3>2. b[c] = b5
      BY ONLY <1>1, <2>7, Zenon
    <3> QED BY ONLY <1>10, <3>1, <3>2 DEF BitIn
  <2>8. CASE c = 6
    <3>1. 2 ^ (10 - c) = 16
      BY <2>8
    <3>2. b[c] = b6
      BY ONLY <1>1, <2>8, Zenon
    <3> QED BY ONLY <1>11, <3>1, <3>2 DEF BitIn
  <2>9. CASE c = 7
    <3>1. 2 ^ (10 - c) = 8
      BY <2>9
    <3>2. b[c] = b7
      BY ONLY <1>1, <2>9, Zenon
    <3> QED BY ONLY <1>12, <3>1, <3>2 DEF BitIn
  <2>10. CASE c = 8
    <3>1. 2 ^ (10 - c) = 4
      BY <2>10
    <3>2. b[c] = b8
      BY ONLY <1>1, <2>10, Zenon
    <3> QED BY ONLY <1>13, <3>1, <3>2 DEF BitIn
  <2>11. CASE c = 9
    <3>1. 2 ^ (10 - c) = 2
      BY <2>11
    <3>2. b[c] = b9
      BY ONLY <1>1, <2>11, Zenon
    <3> QED BY ONLY <1>14, <3>1, <3>2 DEF BitIn
  <2>12. CASE c = 10
    <3>1. 2 ^ (10 - c) = 1
      BY <2>12
    <3>2. b[c] = b10
      BY ONLY <1>1, <2>12, Zenon
    <3> QED BY ONLY <1>15, <3>1, <3>2 DEF BitIn
  <2> QED BY <2>1, <2>2, <2>3, <2>4, <2>5, <2>6, <2>7, <2>8, <2>9, <2>10, <2>11, <2>12
<1> QED BY <1>4, <1>16

\* The first m bits.
IsBits(bits, m) == \A k \in 0 .. m - 1 : bits[k] \in {0, 1}

\* A phrase that carries the bits: count words, and each bit where BIP39 has it.
Carries(phrase, bits, count) ==
    /\ phrase = [i \in 1..count |-> phrase[i]]
    /\ \A i \in 1..count : phrase[i] \in words
    /\ \A k \in 0 .. 11 * count - 1 : BitOf(phrase, k) = bits[k]

\* Word w carries the bits from position 11 (i - 1) on.
Shows(w, bits, i) == \A c \in 0..10 : BitIn(w, c) = bits[11 * (i - 1) + c]

\* A word carries its bits.
LEMMA WordShowsBits ==
    ASSUME NEW bits, NEW count \in Nat, IsBits(bits, 11 * count), NEW i \in 1..count,
           NEW w, w = bitsToWords(bits, count)[i]
    PROVE  w \in words /\ Shows(w, bits, i)
<1>1. PICK b : b = [c \in 0..10 |-> bits[11 * (i - 1) + c]]
  OBVIOUS
<1>2. \A c \in 0..10 : 11 * (i - 1) + c \in 0 .. 11 * count - 1
  OBVIOUS
<1>3. \A c \in 0..10 : b[c] \in {0, 1} /\ bits[11 * (i - 1) + c] = b[c]
  BY <1>1, <1>2 DEF IsBits
<1>4. w = WordOf(b)
  BY <1>3, WordIs
<1>5. w \in 0..2047 /\ \A c \in 0..10 : BitIn(w, c) = b[c]
  BY <1>3, <1>4, WordBits
<1> QED BY <1>3, <1>5 DEF Shows, words

\* The words carry the bits they are made of.
LEMMA WordsCarryBits ==
    ASSUME NEW bits, NEW count \in Nat, IsBits(bits, 11 * count)
    PROVE  Carries(bitsToWords(bits, count), bits, count)
<1>1. PICK p, m : p = bitsToWords(bits, count) /\ m = 11 * count
  OBVIOUS
<1>2. \A i \in 1..count : p[i] \in words /\ Shows(p[i], bits, i)
  BY <1>1, WordShowsBits
<1>3. p = [i \in 1..count |-> p[i]]
  BY <1>1 DEF bitsToWords
<1>4. ASSUME NEW k \in 0 .. m - 1 PROVE BitOf(p, k) = bits[k]
  <2>1. PICK i, c : i = k \div 11 + 1 /\ c = k % 11
    OBVIOUS
  <2>2. i \in 1..count /\ c \in 0..10 /\ 11 * (i - 1) + c = k
    BY <1>1, <2>1
  <2>3. BitIn(p[i], c) = bits[11 * (i - 1) + c]
    BY <1>2, <2>2, Zenon DEF Shows
  <2>4. BitOf(p, k) = BitIn(p[i], c)
    BY <2>1, Zenon DEF BitOf, BitIn
  <2> QED BY <2>2, <2>3, <2>4, Zenon
<1>5. \A k \in 0 .. m - 1 : BitOf(p, k) = bits[k]
  BY <1>4
<1> QED BY <1>1, <1>2, <1>3, <1>5, Zenon DEF Carries

\* A number of eight bits, the highest one first.
Bits8(t) == [fold |-> "value", base |-> 2, s |-> t]

\* The fold over eight bits is their byte.
LEMMA EightBits ==
    ASSUME NEW b, \A c \in 0..7 : b[c] \in {0, 1},
           NEW t, t = [x \in 1..8 |-> b[x - 1]]
    PROVE  Fold(Bits8(t), 1..8)[1..8] = ByteOf(b)
<1>1. PICK k, n : k = Bits8(t) /\ n = 8
  OBVIOUS
<1>2. k.fold = "value" /\ k.fold # "sum" /\ k.base = 2 /\ k.s = t /\ n \in Nat
  BY <1>1 DEF Bits8
<1>3. PICK g : /\ g[0] = Base(k)
               /\ \A i \in 1..n : g[i] = OneStep(k, i, g[i - 1])
               /\ Fold(k, 1..n)[1..n] = g[n]
  <2>1. k.fold # "sum" /\ n \in Nat
    BY <1>2
  <2> QED BY <2>1, FoldInOrder, Zenon
<1>4. g[0] = 0
  BY <1>2, <1>3 DEF Base
<1>5. ASSUME NEW i \in 1..8 PROVE g[i] = 2 * g[i - 1] + t[i]
  <2>1. i \in 1..n
    BY <1>1
  <2>2. g[i] = OneStep(k, i, g[i - 1])
    BY <2>1, <1>3
  <2>3. OneStep(k, i, g[i - 1]) = k.base * g[i - 1] + k.s[i]
    BY <1>2 DEF OneStep
  <2>4. k.base * g[i - 1] + k.s[i] = 2 * g[i - 1] + t[i]
    BY <1>2, Zenon
  <2> QED BY <2>2, <2>3, <2>4, Zenon
<1>6. PICK b0, b1, b2, b3, b4, b5, b6, b7 :
        /\ b0 = b[0] /\ b1 = b[1] /\ b2 = b[2] /\ b3 = b[3] /\ b4 = b[4] /\ b5 = b[5]
        /\ b6 = b[6] /\ b7 = b[7]
  OBVIOUS
<1>7. /\ t[1] = b0 /\ t[2] = b1 /\ t[3] = b2 /\ t[4] = b3 /\ t[5] = b4 /\ t[6] = b5
      /\ t[7] = b6 /\ t[8] = b7
  BY <1>6
<1>8. /\ b0 \in {0, 1} /\ b1 \in {0, 1} /\ b2 \in {0, 1} /\ b3 \in {0, 1} /\ b4 \in {0, 1}
      /\ b5 \in {0, 1} /\ b6 \in {0, 1} /\ b7 \in {0, 1}
  BY <1>6
<1>9. /\ g[1] = 2 * g[0] + b0 /\ g[2] = 2 * g[1] + b1 /\ g[3] = 2 * g[2] + b2
      /\ g[4] = 2 * g[3] + b3 /\ g[5] = 2 * g[4] + b4 /\ g[6] = 2 * g[5] + b5
      /\ g[7] = 2 * g[6] + b6 /\ g[8] = 2 * g[7] + b7
  BY ONLY <1>5, <1>7
<1>10. g[8] = 128 * b0 + 64 * b1 + 32 * b2 + 16 * b3 + 8 * b4 + 4 * b5 + 2 * b6 + b7
  BY ONLY <1>4, <1>8, <1>9
<1>11. g[8] = ByteOf(b)
  BY ONLY <1>6, <1>8, <1>10 DEF ByteOf
<1> QED BY <1>1, <1>3, <1>11, Zenon

\* Where the bits of byte j of the entropy are.
BitsOfByte(phrase, j) == [c \in 0..7 |-> BitOf(phrase, 8 * (j - 1) + c)]

\* A byte of the entropy, as EntropyBytes reads it.
LEMMA EntropyByteIs ==
    ASSUME NEW phrase, NEW j, j \in 1 .. PhraseBits(Len(phrase)) \div 8,
           NEW b, b = BitsOfByte(phrase, j), \A c \in 0..7 : b[c] \in {0, 1}
    PROVE  EntropyBytes(phrase)[j] = ByteOf(b)
<1> DEFINE eight == <<0, 1, 2, 3, 4, 5, 6, 7>>
           Bit(c) == BitOf(phrase, 8 * (j - 1) + c)
           Step(it) == [s \in SUBSET (DOMAIN eight) |->
                          IF s = {} THEN 0 ELSE 2 * it[s \ {Max(s)}] + Bit(eight[Max(s)])]
<1>1. EntropyBytes(phrase)[j] = FoldLeft(LAMBDA v, c : 2 * v + Bit(c), 0, eight)
  BY DEF EntropyBytes
<1>2. FoldLeft(LAMBDA v, c : 2 * v + Bit(c), 0, eight)
        = (CHOOSE it : it = Step(it))[DOMAIN eight]
  BY DEF FoldLeft, MapThenFoldSet
<1>3. DOMAIN eight = 1..8 /\ \A x \in 1..8 : eight[x] = x - 1
  OBVIOUS
<1>4. \A c \in 0..7 : Bit(c) = b[c]
  BY DEF BitsOfByte
<1>5. PICK t, k : t = [x \in 1..8 |-> b[x - 1]] /\ k = Bits8(t)
  OBVIOUS
<1>6. k.fold = "value" /\ k.fold # "sum" /\ k.base = 2 /\ k.s = t
  BY <1>5 DEF Bits8
<1> HIDE DEF eight, Bit
<1>7. \A x \in 1..8 : t[x] = Bit(eight[x])
  <2> TAKE x \in 1..8
  <2>1. x - 1 \in 0..7 /\ eight[x] = x - 1
    BY <1>3
  <2> QED BY <1>4, <1>5, <2>1
<1>8. \A s \in SUBSET (1..8) : s # {} => Max(s) \in 1..8
  <2>1. PICK n : n = 8 /\ n \in Nat
    OBVIOUS
  <2>2. \A s \in SUBSET (1..n) : s # {} => Max(s) \in s
    BY <2>1, MaxIsLargest
  <2> QED BY <2>1, <2>2
<1>9. ASSUME NEW it PROVE FoldStep(k, SUBSET (1..8), it) = Step(it)
  <2>1. \A s \in SUBSET (1..8) : s # {} =>
          /\ Chosen(k, s) = Max(s)
          /\ OneStep(k, Max(s), it[s \ {Max(s)}]) = 2 * it[s \ {Max(s)}] + Bit(eight[Max(s)])
    <3> TAKE s \in SUBSET (1..8)
    <3> HAVE s # {}
    <3>1. t[Max(s)] = Bit(eight[Max(s)])
      BY <1>7, <1>8
    <3> QED BY <1>6, <3>1, Zenon DEF Chosen, OneStep
  <2>2. Base(k) = 0
    BY <1>6 DEF Base
  <2> QED BY <1>3, <2>1, <2>2, Zenon DEF FoldStep
<1> HIDE DEF Step
<1>10. Fold(k, 1..8) = CHOOSE it : it = Step(it)
  BY <1>9, Zenon DEF Fold
<1>11. Fold(k, 1..8)[1..8] = ByteOf(b)
  BY <1>5, EightBits
<1> QED BY <1>1, <1>2, <1>3, <1>10, <1>11, Zenon

\* Bit k of a byte, the highest one first.
TopBit(top, k) == (top \div 2 ^ (7 - k)) % 2

\* The bits of a byte are bits.
LEMMA TopBitIs ==
    ASSUME NEW top \in 0..255, NEW k \in 0..7
    PROVE  TopBit(top, k) \in {0, 1}
<1>1. k = 0 \/ k = 1 \/ k = 2 \/ k = 3 \/ k = 4 \/ k = 5 \/ k = 6 \/ k = 7
  OBVIOUS
<1>2. 2 ^ (7 - k) \in {1, 2, 4, 8, 16, 32, 64, 128}
  <2>1. k = 0 => 2 ^ (7 - k) = 128
    OBVIOUS
  <2>2. k = 1 => 2 ^ (7 - k) = 64
    OBVIOUS
  <2>3. k = 2 => 2 ^ (7 - k) = 32
    OBVIOUS
  <2>4. k = 3 => 2 ^ (7 - k) = 16
    OBVIOUS
  <2>5. k = 4 => 2 ^ (7 - k) = 8
    OBVIOUS
  <2>6. k = 5 => 2 ^ (7 - k) = 4
    OBVIOUS
  <2>7. k = 6 => 2 ^ (7 - k) = 2
    OBVIOUS
  <2>8. k = 7 => 2 ^ (7 - k) = 1
    OBVIOUS
  <2> QED BY <1>1, <2>1, <2>2, <2>3, <2>4, <2>5, <2>6, <2>7, <2>8, Zenon
<1>3. PICK e : e \in {1, 2, 4, 8, 16, 32, 64, 128} /\ e = 2 ^ (7 - k)
  BY <1>2, Zenon
<1>4. top \div e \in Nat
  BY <1>3
<1>5. (top \div e) % 2 \in {0, 1}
  BY <1>4
<1> QED BY <1>3, <1>5 DEF TopBit

\* The upper half of a byte has the first four of its bits.
LEMMA UpperHalf ==
    ASSUME NEW top \in 0..255, NEW k \in 0..3
    PROVE  ((top \div 16) \div 2 ^ (3 - k)) % 2 = TopBit(top, k)
<1>1. k = 0 \/ k = 1 \/ k = 2 \/ k = 3
  OBVIOUS
<1>2. /\ (top \div 16) \div 8 = top \div 128 /\ (top \div 16) \div 4 = top \div 64
      /\ (top \div 16) \div 2 = top \div 32 /\ (top \div 16) \div 1 = top \div 16
  OBVIOUS
<1>3. CASE k = 0
  <2>1. 2 ^ (3 - k) = 8 /\ 2 ^ (7 - k) = 128
    BY <1>3
  <2> QED BY <1>2, <2>1, Zenon DEF TopBit
<1>4. CASE k = 1
  <2>1. 2 ^ (3 - k) = 4 /\ 2 ^ (7 - k) = 64
    BY <1>4
  <2> QED BY <1>2, <2>1, Zenon DEF TopBit
<1>5. CASE k = 2
  <2>1. 2 ^ (3 - k) = 2 /\ 2 ^ (7 - k) = 32
    BY <1>5
  <2> QED BY <1>2, <2>1, Zenon DEF TopBit
<1>6. CASE k = 3
  <2>1. 2 ^ (3 - k) = 1 /\ 2 ^ (7 - k) = 16
    BY <1>6
  <2> QED BY <1>2, <2>1, Zenon DEF TopBit
<1> QED BY <1>1, <1>3, <1>4, <1>5, <1>6

\* The entropies of 12 and of 24 words.
IsSize(n) == n = 128 \/ n = 256

\* Bits followed by a checksum.
Followed(all, bits, n, top) ==
    /\ \A k \in 0 .. n - 1 : all[k] = bits[k]
    /\ \A k \in 0 .. n \div 32 - 1 : all[n + k] = TopBit(top, k)

\* The checksum follows the entropy, its highest bit first.
LEMMA ChecksumBits ==
    ASSUME NEW n, IsSize(n), NEW bits, NEW top \in 0..255
    PROVE  Followed(WithChecksum(bits, n, top), bits, n, top)
<1>1. PICK size, digest, all : /\ size = n \div 32
                               /\ digest = (IF size = 8 THEN top ELSE top \div 16)
                               /\ all = WithChecksum(bits, n, top)
  OBVIOUS
<1>2. n \in Nat /\ size \in 1..8 /\ (n = 128 => size = 4) /\ (n = 256 => size = 8)
  BY <1>1 DEF IsSize
<1>3. all = [i \in 0 .. n + size - 1 |->
               IF i < n THEN bits[i] ELSE SignBits(digest, size)[size - 1 - (i - n)]]
  BY <1>1, Zenon DEF WithChecksum
<1>4. \A k \in 0 .. n - 1 : all[k] = bits[k]
  BY <1>2, <1>3
<1>5. ASSUME NEW k \in 0 .. size - 1 PROVE all[n + k] = TopBit(top, k)
  <2>1. PICK i : i = size - 1 - k
    OBVIOUS
  <2>2. /\ n + k \in 0 .. n + size - 1 /\ ~(n + k < n) /\ size - 1 - ((n + k) - n) = i
        /\ i \in 0 .. size - 1
    BY <1>2, <2>1
  <2>3. all[n + k] = SignBits(digest, size)[i]
    <3>1. PICK x : x = n + k
      OBVIOUS
    <3> QED BY <1>3, <2>2
  <2>4. SignBits(digest, size)[i] = (digest \div 2 ^ i) % 2
    BY <2>2, Zenon DEF SignBits
  <2>5. CASE n = 128
    <3>1. digest = top \div 16 /\ k \in 0..3 /\ i = 3 - k
      BY <1>1, <1>2, <2>1, <2>5
    <3>2. ((top \div 16) \div 2 ^ (3 - k)) % 2 = TopBit(top, k)
      BY <3>1, UpperHalf
    <3> QED BY <2>3, <2>4, <3>1, <3>2, Zenon
  <2>6. CASE n = 256
    <3>1. digest = top /\ i = 7 - k
      BY <1>1, <1>2, <2>1, <2>6
    <3> QED BY <2>3, <2>4, <3>1, Zenon DEF TopBit
  <2> QED BY <2>5, <2>6 DEF IsSize
<1> QED BY <1>1, <1>4, <1>5 DEF Followed

\* A request for a wallet that the code serves with a phrase.
Served(r) == r \in Requests /\ (r.len = 12 \/ r.len = 24) /\ r.ones # RandFailed

\* A phrase that begins with the bits.
Begins(phrase, bits, n) == \A k \in 0 .. n - 1 : BitOf(phrase, k) = bits[k]

\* EntropyBytes reads the bytes that were given to SHA256.
LEMMA SameBytes ==
    ASSUME NEW n, IsSize(n), NEW bits, IsBits(bits, n),
           NEW phrase, PhraseBits(Len(phrase)) = n, Begins(phrase, bits, n)
    PROVE  EntropyBytes(phrase) = SplitBitsForSha(bits, n)
<1>1. PICK e, s, m : e = EntropyBytes(phrase) /\ s = SplitBitsForSha(bits, n) /\ m = n \div 8
  OBVIOUS
<1>2. e = [j \in 1..m |-> e[j]]
  BY <1>1 DEF EntropyBytes
<1>3. s = [j \in 1..m |-> s[j]]
  BY <1>1 DEF SplitBitsForSha
<1>4. ASSUME NEW j \in 1..m PROVE e[j] = s[j]
  <2>1. PICK b : b = BitsOfByte(phrase, j)
    OBVIOUS
  <2>2. ASSUME NEW c \in 0..7
        PROVE  b[c] \in {0, 1} /\ bits[8 * (j - 1) + c] = b[c]
    <3>1. PICK x : x = 8 * (j - 1) + c
      OBVIOUS
    <3>2. x \in 0 .. n - 1
      BY <1>1, <3>1 DEF IsSize
    <3>3. b[c] = BitOf(phrase, x)
      BY <2>1, <3>1, Zenon DEF BitsOfByte
    <3>4. BitOf(phrase, x) = bits[x] /\ bits[x] \in {0, 1}
      BY <3>2, Zenon DEF Begins, IsBits
    <3> QED BY <3>1, <3>3, <3>4, Zenon
  <2>3. ByteHas(bits, j, b)
    BY <2>2 DEF ByteHas
  <2>4. \A c \in 0..7 : b[c] \in {0, 1}
    BY <2>2
  <2>5. s[j] = ByteOf(b)
    BY <1>1, <2>3, ByteIs
  <2>6. e[j] = ByteOf(b)
    BY <1>1, <2>1, <2>4, EntropyByteIs
  <2> QED BY <2>5, <2>6, Zenon
<1> QED BY <1>1, <1>2, <1>3, <1>4, Zenon

\* Every phrase generateMnemonic makes is a valid one.
LEMMA MnemonicIsStandard ==
    ASSUME NEW r, Served(r)
    PROVE  StandardPhrase(generateMnemonic(r.len, r.ones))
<1>1. PICK n, len, ones : n = PhraseBits(r.len) /\ len = r.len /\ ones = r.ones
  OBVIOUS
<1>2. PICK bits, top : bits = EntropyBits(n, ones) /\ top = ShaTop(SplitBitsForSha(bits, n))
  OBVIOUS
<1>3. PICK all, phrase : all = WithChecksum(bits, n, top) /\ phrase = bitsToWords(all, len)
  OBVIOUS
<1>4. phrase = generateMnemonic(r.len, r.ones)
  BY <1>1, <1>2, <1>3, Zenon DEF generateMnemonic
<1>5. /\ len \in Nat /\ n \in Nat /\ n + n \div 32 = 11 * len /\ n \div 32 \in 1..8
      /\ IsSize(n)
  BY <1>1 DEF Served, PhraseBits, IsSize
<1>6. ones \subseteq 0 .. n - 1 /\ top \in 0..255
  <2>1. r \in Requests /\ r.len \in {12, 24} /\ r.ones # RandFailed
    BY DEF Served
  <2>2. r.ones \subseteq 0 .. PhraseBits(r.len) - 1
    BY <2>1, EntropyAssumption, Zenon
  <2>3. ShaTop(SplitBitsForSha(EntropyBits(PhraseBits(r.len), r.ones), PhraseBits(r.len))) \in 0..255
    BY <2>1, EntropyAssumption, Zenon
  <2> QED BY <1>1, <1>2, <2>2, <2>3, Zenon
<1>7. IsBits(bits, n)
  <2>1. \A k \in 0 .. n - 1 : bits[k] = (IF k \in ones THEN 1 ELSE 0)
    BY <1>2, Zenon DEF EntropyBits
  <2> QED BY <2>1, Zenon DEF IsBits
<1>8. Followed(all, bits, n, top)
  BY <1>3, <1>5, <1>6, ChecksumBits
<1>9. /\ \A k \in 0 .. n - 1 : all[k] = bits[k]
      /\ \A k \in 0 .. n \div 32 - 1 : all[n + k] = TopBit(top, k)
  BY <1>8, Zenon DEF Followed
<1>10. IsBits(all, 11 * len)
  <2>1. ASSUME NEW k \in 0 .. 11 * len - 1 PROVE all[k] \in {0, 1}
    <3>1. CASE k \in 0 .. n - 1
      BY <1>7, <1>9, <3>1, Zenon DEF IsBits
    <3>2. CASE k \notin 0 .. n - 1
      <4>1. PICK c : c = k - n
        OBVIOUS
      <4>2. k = n + c /\ c \in 0 .. n \div 32 - 1 /\ c \in 0..7
        BY <1>5, <3>2, <4>1
      <4>3. TopBit(top, c) \in {0, 1}
        BY <1>6, <4>2, TopBitIs
      <4> QED BY <1>9, <4>2, <4>3, Zenon
    <3> QED BY <3>1, <3>2
  <2> QED BY <2>1 DEF IsBits
<1>11. Carries(phrase, all, len)
  BY <1>3, <1>5, <1>10, WordsCarryBits
<1>12. /\ phrase = [i \in 1..len |-> phrase[i]]
       /\ \A i \in 1..len : phrase[i] \in words
       /\ \A k \in 0 .. 11 * len - 1 : BitOf(phrase, k) = all[k]
  BY <1>11, Zenon DEF Carries
<1>13. Len(phrase) = len /\ DOMAIN phrase = 1..len
  BY <1>5, <1>12, FunctionIsSeq
<1>14. PhraseBits(Len(phrase)) = n
  BY <1>1, <1>13
<1>15. \A k \in 0 .. n - 1 : BitOf(phrase, k) = bits[k]
  <2> TAKE k \in 0 .. n - 1
  <2>1. k \in 0 .. 11 * len - 1
    BY <1>5
  <2> QED BY <1>9, <1>12, <2>1, Zenon
<1>16. EntropyBytes(phrase) = SplitBitsForSha(bits, n)
  <2>1. Begins(phrase, bits, n)
    BY <1>15, Zenon DEF Begins
  <2> QED BY <1>5, <1>7, <1>14, <2>1, SameBytes
<1>17. {k \in 0 .. n - 1 : BitOf(phrase, k) = 1} = ones
  <2>1. \A k \in 0 .. n - 1 : bits[k] = (IF k \in ones THEN 1 ELSE 0)
    BY <1>2, Zenon DEF EntropyBits
  <2>2. \A k \in 0 .. n - 1 : BitOf(phrase, k) = 1 <=> k \in ones
    <3>1. 0 # 1
      OBVIOUS
    <3> QED BY <1>15, <2>1, <3>1, Zenon
  <2> QED BY <1>6, <2>2, Zenon
<1>18. \A k \in 0 .. n \div 32 - 1 : BitOf(phrase, n + k) = (top \div 2 ^ (7 - k)) % 2
  <2> TAKE k \in 0 .. n \div 32 - 1
  <2>1. n + k \in 0 .. 11 * len - 1
    BY <1>5
  <2>2. BitOf(phrase, n + k) = all[n + k]
    BY <1>12, <2>1, Zenon
  <2> QED BY <1>9, <2>2, Zenon DEF TopBit
<1>19. ToSet(phrase) \subseteq words
  BY <1>12, <1>13 DEF ToSet
<1>20. r \in Requests /\ ones = r.ones
  BY <1>1 DEF Served
<1>21. StandardPhrase(phrase)
  <2>1. ones \in {q.ones : q \in Requests}
    BY <1>20, Zenon
  <2>2. ShaTop(EntropyBytes(phrase)) = top
    BY <1>2, <1>16, Zenon
  <2> QED BY <1>14, <1>17, <1>18, <1>19, <2>1, <2>2, Zenon DEF StandardPhrase
<1> QED BY <1>4, <1>21, Zenon

\* A phrase the code made, or the empty one of a failed RAND_priv_bytes.
Made(phrase) ==
    \/ phrase = <<>>
    \/ \E r : Served(r) /\ phrase = generateMnemonic(r.len, r.ones)

\* The phrases of wallets, of the one in progress too.
PhraseInv ==
    /\ job.by = "wallet" => Made(job.mnemonic.phrase)
    /\ \A w \in results : w.by = "wallet" => Made(w.mnemonic.phrase)

\* A derivation that begins has the phrase it was given.
LEMMA BeginPhrase ==
    ASSUME PhraseInv, results' = results, NEW by, NEW made, NEW mnemonic, NEW path,
           Begin(by, made, mnemonic, path), by = "wallet" => Made(mnemonic.phrase)
    PROVE  PhraseInv'
<1>1. job'.by = by /\ job'.mnemonic = mnemonic
  BY DEF Begin
<1> QED BY <1>1, Zenon DEF PhraseInv

\* The members of a result that matter here.
LEMMA ResultHas ==
    ASSUME NEW j, NEW error, NEW a
    PROVE  Result(j, error, a).by = j.by /\ Result(j, error, a).mnemonic = j.mnemonic
<1> QED BY DEF Result

\* A result has the phrase of its derivation.
LEMMA ResultPhrase ==
    ASSUME PhraseInv, NEW j, j.by = "wallet" => Made(j.mnemonic.phrase), NEW error, NEW a,
           results' = results \cup {Result(j, error, a)},
           job'.by = "wallet" => Made(job'.mnemonic.phrase)
    PROVE  PhraseInv'
<1>1. PICK w : w = Result(j, error, a)
  OBVIOUS
<1>2. w.by = j.by /\ w.mnemonic = j.mnemonic
  BY <1>1, ResultHas
<1>3. \A u \in results' : u \in results \/ u = w
  BY <1>1
<1> QED BY <1>2, <1>3, Zenon DEF PhraseInv

\* There is no phrase where there is no derivation.
LEMMA NoJobBy == NoJob.by # "wallet"
<1> QED BY DEF NoJob

\* generateWallet.
LEMMA PhraseOfWallet ==
    ASSUME PhraseInv, NEW r \in Requests, generateWallet(r)
    PROVE  PhraseInv'
<1>1. PICK bad : bad = (IF r.len \notin {12, 24} THEN "BAD PHRASE"
                        ELSE IF r.change \notin {0, 1} THEN "BAD CHANGE" ELSE "")
  OBVIOUS
<1>2. CASE bad # ""
  <2>1. results' = results \cup {Result(NoJob, bad, NoAddress)} /\ job' = job
    BY <1>1, <1>2, Zenon DEF generateWallet
  <2>2. job'.by = "wallet" => Made(job'.mnemonic.phrase)
    BY <2>1 DEF PhraseInv
  <2> QED BY <2>1, <2>2, NoJobBy, ResultPhrase
<1>3. CASE bad = ""
  <2>1. PICK mnemonic, made : /\ mnemonic = BIP39Result(r)
                              /\ made = IF r.ones = RandFailed THEN EmptySeed
                                        ELSE Pbkdf2("pbkdf2", mnemonic.phrase, r.password)
    OBVIOUS
  <2>2. Begin("wallet", made, mnemonic, Path(r.account, r.change, 0)) /\ results' = results
    BY <1>1, <1>3, <2>1, Zenon DEF generateWallet
  <2>3. r.len = 12 \/ r.len = 24
    <3>1. "BAD PHRASE" # ""
      OBVIOUS
    <3>2. r.len \in {12, 24}
      BY <1>1, <1>3, <3>1, Zenon
    <3> QED BY <3>2, Zenon
  <2>4. Made(mnemonic.phrase)
    <3>1. CASE r.ones = RandFailed
      BY <2>1, <3>1 DEF BIP39Result, Made
    <3>2. CASE r.ones # RandFailed
      <4>1. Served(r)
        BY <2>3, <3>2, Zenon DEF Served
      <4>2. mnemonic.phrase = generateMnemonic(r.len, r.ones)
        BY <2>1, <3>2 DEF BIP39Result
      <4> QED BY <4>1, <4>2, Zenon DEF Made
    <3> QED BY <3>1, <3>2, Zenon
  <2> QED BY <2>2, <2>4, BeginPhrase
<1> QED BY <1>2, <1>3, Zenon

\* generateAddress, for a wallet or for its phrase.
LEMMA PhraseOfAddress ==
    ASSUME PhraseInv, NEW w \in results,
           (\E i : generateAddress(w, i)) \/ (\E password : Restore(w, password))
    PROVE  PhraseInv'
<1>1. w.by = "wallet" /\ results' = results
  BY Zenon DEF generateAddress, Restore
<1>2. Made(w.mnemonic.phrase)
  BY <1>1, Zenon DEF PhraseInv
<1>3. CASE \E i : generateAddress(w, i)
  <2>1. PICK i : Begin("wallet", w.made, w.mnemonic, Path(w.path[3] - Hardened, w.path[4], i))
    BY <1>3, Zenon DEF generateAddress
  <2> QED BY <1>1, <1>2, <2>1, BeginPhrase
<1>4. CASE \E password : Restore(w, password)
  <2>1. PICK password : Restore(w, password)
    BY <1>4
  <2>2. PICK mnemonic : mnemonic = [phrase |-> w.mnemonic.phrase,
                                    seed |-> phraseToSeed(w.mnemonic.phrase, password)]
    OBVIOUS
  <2>3. Begin("wallet", Pbkdf2("pbkdf2", w.mnemonic.phrase, password), mnemonic,
              Path(w.path[3] - Hardened, w.path[4], w.path[5]))
    BY <2>1, <2>2, Zenon DEF Restore
  <2>4. mnemonic.phrase = w.mnemonic.phrase
    BY <2>2
  <2> QED BY <1>1, <1>2, <2>3, <2>4, BeginPhrase
<1> QED BY <1>3, <1>4

\* UnitInitiator::init makes no wallet.
LEMMA PhraseOfNode ==
    ASSUME PhraseInv, NEW s, NEW phrase, StartNode(phrase, s)
    PROVE  PhraseInv'
<1>1. PICK seed, made, mnemonic, path :
        /\ results' = results /\ Begin("node", made, mnemonic, path)
        /\ seed = IF s.passphrase = <<>> THEN Item("clock", <<calls>>)
                  ELSE Item("bytes", HexBytes(s.passphrase))
        /\ made = IF s.passphrase = <<>> THEN seed ELSE Item("passphrase", s.passphrase)
        /\ mnemonic = [phrase |-> phrase, seed |-> seed]
        /\ path = Path(0, 0, s.walletIndex % 65536)
  BY DEF StartNode
<1>2. "node" # "wallet"
  OBVIOUS
<1> QED BY <1>1, <1>2, BeginPhrase

\* A derivation goes on, fails or ends.
LEMMA PhraseOfDerive ==
    ASSUME PhraseInv, IsJob(job), Derive
    PROVE  PhraseInv'
<1>1. \/ \E error : results' = results \cup {Result(job, error, NoAddress)} /\ job' = NoJob
      \/ \E node : job' = [job EXCEPT !.line = Append(@, node)] /\ results' = results
      \/ \E node, a : /\ results' = results \cup {Result([job EXCEPT !.line = Append(@, node)], "", a)}
                      /\ job' = NoJob
  BY Zenon DEF Derive
<1>2. ASSUME NEW node, NEW next, next = [job EXCEPT !.line = Append(@, node)]
      PROVE  next.by = job.by /\ next.mnemonic = job.mnemonic
  BY <1>2 DEF IsJob
<1>3. ASSUME job' = NoJob PROVE job'.by = "wallet" => Made(job'.mnemonic.phrase)
  BY <1>3, NoJobBy, Zenon
<1>4. job.by = "wallet" => Made(job.mnemonic.phrase)
  BY DEF PhraseInv
<1>5. CASE \E error : results' = results \cup {Result(job, error, NoAddress)} /\ job' = NoJob
  BY <1>3, <1>4, <1>5, ResultPhrase
<1>6. CASE \E node : job' = [job EXCEPT !.line = Append(@, node)] /\ results' = results
  <2>1. job'.by = job.by /\ job'.mnemonic = job.mnemonic /\ results' = results
    BY <1>2, <1>6
  <2> QED BY <1>4, <2>1, Zenon DEF PhraseInv
<1>7. CASE \E node, a :
             /\ results' = results \cup {Result([job EXCEPT !.line = Append(@, node)], "", a)}
             /\ job' = NoJob
  <2>1. PICK node, a :
             /\ results' = results \cup {Result([job EXCEPT !.line = Append(@, node)], "", a)}
             /\ job' = NoJob
    BY <1>7
  <2>2. PICK next : next = [job EXCEPT !.line = Append(@, node)]
    OBVIOUS
  <2>3. next.by = job.by /\ next.mnemonic = job.mnemonic
    BY <1>2, <2>2
  <2>4. next.by = "wallet" => Made(next.mnemonic.phrase)
    BY <1>4, <2>3, Zenon
  <2>5. results' = results \cup {Result(next, "", a)}
    BY <2>1, <2>2, Zenon
  <2> QED BY <1>3, <2>1, <2>4, <2>5, ResultPhrase
<1> QED BY <1>1, <1>5, <1>6, <1>7, Zenon

\* Every step keeps the phrases.
LEMMA PhraseStep ==
    ASSUME PhraseInv, KeysInv, [Next]_vars
    PROVE  PhraseInv'
<1>1. CASE UNCHANGED <<job, results>>
  BY <1>1 DEF PhraseInv
<1>2. CASE Derive
  BY <1>2, PhraseOfDerive DEF KeysInv
<1>3. CASE \E r \in Requests : generateWallet(r)
  BY <1>3, PhraseOfWallet
<1>4. CASE \E w \in results, i \in Indexes : generateAddress(w, i)
  BY <1>4, PhraseOfAddress
<1>5. CASE \E w \in results, password \in {r.password : r \in Requests} : Restore(w, password)
  BY <1>5, PhraseOfAddress
<1>6. CASE \E s \in Starts, phrase \in Phrases : StartNode(phrase, s)
  BY <1>6, PhraseOfNode
<1>7. CASE \E key \in 1 .. N - 1, z \in Digests : ecdsa_sign_message(key, z)
  BY <1>1, <1>7 DEF ecdsa_sign_message
<1>8. CASE Verifies
  BY <1>1, <1>8 DEF Verifies, ecdsa_verify_signature
<1>9. CASE \E data \in Datas : Encode(data)
  BY <1>1, <1>9 DEF Encode
<1>10. CASE UNCHANGED vars
  BY <1>1, <1>10 DEF vars
<1> QED BY <1>2, <1>3, <1>4, <1>5, <1>6, <1>7, <1>8, <1>9, <1>10, Zenon DEF Next, Verifies

-----------------------------------------------------------------------------
(* Digits of Base58 *)

\* Sequence a is s followed by t.
IsJoined(a, s, t) ==
    /\ IsSeq(a)
    /\ Len(s) \in Nat /\ Len(t) \in Nat /\ Len(a) = Len(s) + Len(t)
    /\ \A i \in 1..Len(s) : a[i] = s[i]
    /\ \A i \in 1..Len(t) : a[Len(s) + i] = t[i]

\* What \o makes of two sequences.
LEMMA ConcatAny ==
    ASSUME NEW s, IsSeq(s), NEW t, IsSeq(t)
    PROVE  IsJoined(s \o t, s, t)
<1>1. PICK S, a, m, n : /\ S = {s[i] : i \in DOMAIN s} \cup {t[i] : i \in DOMAIN t}
                        /\ a = s \o t /\ m = Len(s) /\ n = Len(t)
  OBVIOUS
<1>2. s \in Seq(S) /\ t \in Seq(S)
  <2>1. /\ s \in Seq({s[i] : i \in DOMAIN s}) /\ {s[i] : i \in DOMAIN s} \subseteq S
        /\ t \in Seq({t[i] : i \in DOMAIN t}) /\ {t[i] : i \in DOMAIN t} \subseteq S
    BY <1>1 DEF IsSeq
  <2> QED BY <2>1
<1>3. /\ a \in Seq(S) /\ m \in Nat /\ n \in Nat /\ Len(a) = m + n
      /\ \A i \in 1 .. m + n : a[i] = IF i <= m THEN s[i] ELSE t[i - m]
  BY <1>1, <1>2, ConcatProperties, LenProperties
<1>4. DOMAIN a = 1 .. m + n /\ a = [i \in 1 .. m + n |-> a[i]]
  BY <1>3, LenProperties
<1>5. IsSeq(a)
  <2>1. m + n \in Nat
    BY <1>3
  <2> QED BY <2>1, <1>4, FunctionIsSeq
<1>6. \A i \in 1..m : a[i] = s[i]
  BY <1>3
<1>7. ASSUME NEW i \in 1..n PROVE a[m + i] = t[i]
  <2>1. PICK x : x = m + i
    OBVIOUS
  <2>2. x \in 1 .. m + n /\ ~(x <= m) /\ x - m = i
    BY <1>3, <2>1
  <2>3. a[x] = t[x - m]
    BY <1>3, <2>2, Zenon
  <2> QED BY <2>1, <2>2, <2>3
<1> QED BY <1>1, <1>3, <1>5, <1>6, <1>7 DEF IsJoined

\* Sequences of one and two elements.
LEMMA OneAndTwo ==
    ASSUME NEW a, NEW b
    PROVE  <<a>> \o <<>> = <<a>> /\ <<a>> \o <<b>> = <<a, b>>
<1>1. <<a>> \in Seq({a, b}) /\ <<b>> \in Seq({a, b}) /\ <<a, b>> \in Seq({a, b})
  OBVIOUS
<1>2. <<a>> \o <<>> = <<a>>
  BY <1>1, ConcatEmptySeq
<1>3. <<a>> \o <<b>> = <<a, b>>
  <2>1. PICK s, t, u, c : s = <<a>> /\ t = <<b>> /\ u = <<a, b>> /\ c = s \o t
    OBVIOUS
  <2>2. /\ Len(s) = 1 /\ Len(t) = 1 /\ Len(u) = 2
        /\ s[1] = a /\ t[1] = b /\ u[1] = a /\ u[2] = b
    BY <2>1
  <2>3. /\ c \in Seq({a, b}) /\ Len(c) = 1 + 1
        /\ \A i \in 1 .. 1 + 1 : c[i] = IF i <= 1 THEN s[i] ELSE t[i - 1]
    BY <1>1, <2>1, <2>2, ConcatProperties
  <2>4. Len(c) = 2 /\ c[1] = a /\ c[2] = b
    BY <2>2, <2>3
  <2>5. \A i \in 1..2 : i = 1 \/ i = 2
    OBVIOUS
  <2>6. \A i \in 1..2 : c[i] = u[i]
    BY <2>2, <2>4, <2>5, Zenon
  <2>7. c = u
    BY <1>1, <2>1, <2>2, <2>3, <2>4, <2>6, SeqEqual
  <2> QED BY <2>1, <2>7, Zenon
<1> QED BY <1>2, <1>3

\* What is left of a carry makes two digits at most.
LEMMA CarryIs ==
    ASSUME NEW c \in 0..255
    PROVE  /\ c = 0 => CarryDigits[c] = <<>>
           /\ c # 0 /\ c < 58 => CarryDigits[c] = <<c>>
           /\ c >= 58 => CarryDigits[c] = <<c % 58, c \div 58>>
<1> DEFINE Step(f) == [x \in 0..255 |-> IF x = 0 THEN <<>> ELSE <<x % 58>> \o f[x \div 58]]
           known == [x \in 0..255 |-> IF x = 0 THEN <<>>
                                      ELSE IF x < 58 THEN <<x>> ELSE <<x % 58, x \div 58>>]
<1>1. CarryDigits = CHOOSE f : f = Step(f)
  BY DEF CarryDigits
<1>2. \A a, b : <<a>> \o <<>> = <<a>> /\ <<a>> \o <<b>> = <<a, b>>
  BY OneAndTwo
<1>3. \A x \in 0..255 : /\ x \div 58 \in 0..4
                        /\ x < 58 => x % 58 = x /\ x \div 58 = 0
                        /\ x >= 58 => x # 0 /\ ~(x < 58) /\ x \div 58 # 0
  OBVIOUS
<1>4. \A x \in 0..4 : x \in 0..255 /\ x < 58
  OBVIOUS
<1>5. ASSUME NEW x \in 0..255 PROVE known[x] = Step(known)[x]
  <2>1. PICK a, b : a = x % 58 /\ b = x \div 58
    OBVIOUS
  <2>2. known[x] = IF x = 0 THEN <<>> ELSE IF x < 58 THEN <<x>> ELSE <<a, b>>
    BY <2>1
  <2>3. b \in 0..4 /\ b \in 0..255 /\ b < 58 /\ (x < 58 => a = x /\ b = 0) /\ (x >= 58 => b # 0)
    BY <1>3, <1>4, <2>1
  <2>4. known[b] = IF b = 0 THEN <<>> ELSE <<b>>
    BY <2>3
  <2> HIDE DEF known
  <2>5. Step(known)[x] = IF x = 0 THEN <<>> ELSE <<a>> \o known[b]
    BY <2>1, Zenon
  <2> HIDE DEF Step
  <2>6. CASE x = 0
    BY <2>2, <2>5, <2>6, Zenon
  <2>7. CASE x # 0 /\ x < 58
    <3>1. known[x] = <<x>> /\ Step(known)[x] = <<x>> \o <<>>
      BY <2>2, <2>3, <2>4, <2>5, <2>7, Zenon
    <3> QED BY <1>2, <3>1, Zenon
  <2>8. CASE x >= 58
    <3>1. x # 0 /\ ~(x < 58)
      BY <2>8
    <3>2. known[x] = <<a, b>> /\ Step(known)[x] = <<a>> \o <<b>>
      BY <2>2, <2>3, <2>4, <2>5, <2>8, <3>1, Zenon
    <3> QED BY <1>2, <3>2, Zenon
  <2> QED BY <2>6, <2>7, <2>8
<1>6. known = Step(known)
  BY <1>5, Zenon
<1>7. PICK f : f = CarryDigits /\ f = Step(f)
  <2> HIDE DEF known, Step
  <2> QED BY <1>1, <1>6, Zenon
<1>8. \A x \in 0..255 : f[x] = IF x = 0 THEN <<>> ELSE <<x % 58>> \o f[x \div 58]
  BY <1>7, Zenon
<1> HIDE DEF known, Step
<1>9. f[0] = <<>>
  <2>1. 0 \in 0..255
    OBVIOUS
  <2> QED BY <1>8, <2>1, Zenon
<1>10. ASSUME NEW x \in 0..255, x # 0, x < 58 PROVE f[x] = <<x>>
  <2>1. x % 58 = x /\ x \div 58 = 0
    BY <1>3, <1>10
  <2> QED BY <1>2, <1>8, <1>9, <1>10, <2>1, Zenon
<1>11. ASSUME c >= 58 PROVE f[c] = <<c % 58, c \div 58>>
  <2>1. PICK a, b : a = c % 58 /\ b = c \div 58
    OBVIOUS
  <2>2. b \in 0..255 /\ b # 0 /\ b < 58 /\ c # 0
    BY <1>3, <1>4, <1>11, <2>1
  <2>3. f[b] = <<b>>
    BY <1>10, <2>2
  <2>4. f[c] = <<a>> \o f[b]
    BY <1>8, <2>1, <2>2, Zenon
  <2> QED BY <1>2, <2>1, <2>3, <2>4, Zenon
<1> QED BY <1>7, <1>9, <1>10, <1>11

\* Digits of Base58, the least one first.
IsDigits(d) == IsSeq(d) /\ Len(d) \in Nat /\ \A i \in 1..Len(d) : d[i] \in 0..57

\* w[i] is the number that the digits from i on are.
Weighs(d, w) ==
    /\ \A i \in 1 .. Len(d) + 1 : w[i] \in Nat
    /\ w[Len(d) + 1] = 0
    /\ \A i \in 1..Len(d) : w[i] = d[i] + 58 * w[i + 1]

\* The highest digit is not 0.
IsTopped(d) == Len(d) > 0 /\ d[Len(d)] # 0

\* The digits of a carry are those of its number.
LEMMA CarryWeighs ==
    ASSUME NEW c \in 0..255
    PROVE  /\ IsDigits(CarryDigits[c])
           /\ \E w : Weighs(CarryDigits[c], w) /\ w[1] = c
           /\ c = 0 => Len(CarryDigits[c]) = 0
           /\ c # 0 => IsTopped(CarryDigits[c])
<1>1. PICK e, a, b : e = CarryDigits[c] /\ a = c % 58 /\ b = c \div 58
  OBVIOUS
<1>2. CASE c = 0
  <2>1. e = <<>>
    BY <1>1, <1>2, CarryIs
  <2>2. IsSeq(e) /\ Len(e) = 0
    BY <2>1 DEF IsSeq
  <2>3. IsDigits(e)
    BY <2>2 DEF IsDigits
  <2>4. PICK w : w = [i \in 1..1 |-> 0]
    OBVIOUS
  <2>5. Weighs(e, w) /\ w[1] = c
    BY <1>2, <2>2, <2>4 DEF Weighs
  <2> QED BY <1>1, <1>2, <2>2, <2>3, <2>5, Zenon
<1>3. CASE c # 0 /\ c < 58
  <2>1. e = <<c>>
    BY <1>1, <1>3, CarryIs
  <2>2. Len(e) = 1 /\ e[1] = c /\ DOMAIN e = 1..1 /\ e \in Seq({c})
    BY <2>1
  <2>3. IsSeq(e)
    <3>1. {e[i] : i \in DOMAIN e} = {c}
      BY <2>2
    <3> QED BY <2>2, <3>1 DEF IsSeq
  <2>4. IsDigits(e) /\ IsTopped(e)
    <3>1. \A i \in 1..1 : i = 1
      OBVIOUS
    <3>2. c \in 0..57
      BY <1>3
    <3>3. \A i \in 1..1 : e[i] \in 0..57
      BY <2>2, <3>1, <3>2, Zenon
    <3> QED BY <1>3, <2>2, <2>3, <3>3 DEF IsDigits, IsTopped
  <2>5. PICK w : w = [i \in 1..2 |-> IF i = 1 THEN c ELSE 0]
    OBVIOUS
  <2>6. Weighs(e, w) /\ w[1] = c
    BY <2>2, <2>5 DEF Weighs
  <2> QED BY <1>1, <1>3, <2>4, <2>6, Zenon
<1>4. CASE c >= 58
  <2>1. e = <<a, b>>
    BY <1>1, <1>4, CarryIs
  <2>2. a \in 0..57 /\ b \in 1..4 /\ c = a + 58 * b
    BY <1>1, <1>4
  <2>3. Len(e) = 2 /\ e[1] = a /\ e[2] = b /\ DOMAIN e = 1..2 /\ e \in Seq({a, b})
    BY <2>1
  <2>4. IsSeq(e)
    <3>1. e = [i \in 1..2 |-> e[i]] /\ 2 \in Nat
      BY <2>3, LenProperties
    <3> QED BY <3>1, FunctionIsSeq
  <2>5. \A i \in 1..2 : i = 1 \/ i = 2
    OBVIOUS
  <2>6. IsDigits(e) /\ IsTopped(e)
    <3>1. a \in 0..57 /\ b \in 0..57
      BY <2>2
    <3>2. \A i \in 1..2 : e[i] \in 0..57
      BY <2>3, <2>5, <3>1, Zenon
    <3> QED BY <2>2, <2>3, <2>4, <3>2 DEF IsDigits, IsTopped
  <2>7. PICK w : w = [i \in 1..3 |-> IF i = 1 THEN c ELSE IF i = 2 THEN b ELSE 0]
    OBVIOUS
  <2>8. w[1] = c /\ w[2] = b /\ w[3] = 0
    BY <2>7
  <2>9. Weighs(e, w)
    <3>1. \A i \in 1..3 : w[i] \in Nat
      BY <2>2, <2>7
    <3>2. \A i \in 1..2 : w[i] = e[i] + 58 * w[i + 1]
      <4>1. w[1] = e[1] + 58 * w[2]
        BY <2>2, <2>3, <2>8
      <4>2. w[2] = e[2] + 58 * w[3]
        BY <2>2, <2>3, <2>8
      <4>3. 1 + 1 = 2 /\ 2 + 1 = 3
        OBVIOUS
      <4> QED BY <2>5, <4>1, <4>2, <4>3, Zenon
    <3> QED BY <2>3, <2>8, <3>1, <3>2 DEF Weighs
  <2>10. c # 0
    BY <1>4
  <2> QED BY <1>1, <2>6, <2>8, <2>9, <2>10, Zenon
<1> QED BY <1>2, <1>3, <1>4

\* The fold of TimesByte.
TimesOf(d, byte) == [fold |-> "times", byte |-> byte, s |-> d]

\* One digit of it.
CarryOn(acc, digit) ==
    [carry |-> (acc.carry + digit * 256) \div 58,
     out |-> Append(acc.out, (acc.carry + digit * 256) % 58)]

\* All of them.
CarriesOn(g, d, n, byte) ==
    /\ g[0] = [carry |-> byte, out |-> <<>>]
    /\ \A i \in 1..n : g[i] = CarryOn(g[i - 1], d[i])

\* n digits.
HasDigits(d, n) ==
    n \in Nat /\ Len(d) = n /\ DOMAIN d = 1..n /\ \A i \in 1..n : d[i] \in 0..57

\* TimesByte goes through the digits in order.
LEMMA TimesFold ==
    ASSUME NEW d, NEW n, HasDigits(d, n), NEW byte
    PROVE  \E g : /\ CarriesOn(g, d, n, byte)
                  /\ TimesByte(d, byte) = g[n].out \o CarryDigits[g[n].carry]
<1> DEFINE Step(it) == [s \in SUBSET (DOMAIN d) |->
                          IF s = {} THEN [carry |-> byte, out |-> <<>>]
                          ELSE CarryOn(it[s \ {Max(s)}], d[Max(s)])]
           end == (CHOOSE it : it = Step(it))[DOMAIN d]
<1>1. TimesByte(d, byte) = end.out \o CarryDigits[end.carry]
  BY DEF TimesByte, FoldLeft, MapThenFoldSet, CarryOn
<1>2. PICK k : k = TimesOf(d, byte)
  OBVIOUS
<1>3. k.fold = "times" /\ k.fold # "sum" /\ k.byte = byte /\ k.s = d
  BY <1>2 DEF TimesOf
<1>4. \A acc, x : OneStep(k, x, acc) = CarryOn(acc, d[x])
  BY <1>3 DEF OneStep, CarryOn
<1>5. Base(k) = [carry |-> byte, out |-> <<>>] /\ \A s : Chosen(k, s) = Max(s)
  BY <1>3 DEF Base, Chosen
<1>6. PICK g : /\ g[0] = Base(k)
               /\ \A i \in 1..n : g[i] = OneStep(k, i, g[i - 1])
               /\ Fold(k, 1..n)[1..n] = g[n]
  <2>1. n \in Nat
    BY DEF HasDigits
  <2> QED BY <1>3, <2>1, FoldInOrder
<1>7. \A i \in 1..n : g[i] = CarryOn(g[i - 1], d[i])
  BY <1>4, <1>6, Zenon
<1>8. ASSUME NEW it PROVE FoldStep(k, SUBSET (1..n), it) = Step(it)
  <2>1. DOMAIN d = 1..n
    BY DEF HasDigits
  <2> QED BY <1>4, <1>5, <2>1, Zenon DEF FoldStep
<1> HIDE DEF Step
<1>9. Fold(k, 1..n) = CHOOSE it : it = Step(it)
  BY <1>8, Zenon DEF Fold
<1>10. end = g[n]
  <2>1. DOMAIN d = 1..n
    BY DEF HasDigits
  <2> QED BY <1>6, <1>9, <2>1, Zenon
<1> HIDE DEF end
<1>11. TimesByte(d, byte) = g[n].out \o CarryDigits[g[n].carry]
  BY <1>1, <1>10, Zenon
<1> QED BY <1>5, <1>6, <1>7, <1>11, Zenon DEF CarriesOn

\* The carries c and the digits out that come of digits d.
IsRow(c, out, d, n) ==
    /\ \A i \in 0..n : c[i] \in 0..255
    /\ IsSeq(out) /\ Len(out) = n
    /\ \A i \in 1..n : out[i] \in 0..57 /\ c[i - 1] + 256 * d[i] = out[i] + 58 * c[i]

\* TimesByte makes such digits, and those of the last carry.
HasRow(d, n, byte) ==
    \E c, out : /\ IsRow(c, out, d, n) /\ c[0] = byte
                /\ TimesByte(d, byte) = out \o CarryDigits[c[n]]

\* The new digits: d times 256, and the byte.
LEMMA TimesByteDigits ==
    ASSUME NEW d, NEW n, HasDigits(d, n), NEW byte \in 0..255
    PROVE  HasRow(d, n, byte)
<1>1. n \in Nat /\ \A i \in 1..n : d[i] \in 0..57
  BY DEF HasDigits
<1>2. PICK g : /\ CarriesOn(g, d, n, byte)
               /\ TimesByte(d, byte) = g[n].out \o CarryDigits[g[n].carry]
  BY TimesFold
<1>3. PICK c, o : c = [i \in 0..n |-> g[i].carry] /\ o = [i \in 0..n |-> g[i].out]
  OBVIOUS
<1>4. c[0] = byte /\ o[0] = <<>>
  <2>1. 0 \in 0..n /\ g[0].carry = byte /\ g[0].out = <<>>
    BY <1>1, <1>2 DEF CarriesOn
  <2> QED BY <1>3, <2>1, Zenon
<1>5. ASSUME NEW i \in 1..n
      PROVE  /\ c[i] = (c[i - 1] + d[i] * 256) \div 58
             /\ o[i] = Append(o[i - 1], (c[i - 1] + d[i] * 256) % 58)
  <2>1. i \in 0..n /\ i - 1 \in 0..n
    BY <1>1
  <2>2. /\ c[i] = g[i].carry /\ o[i] = g[i].out
        /\ c[i - 1] = g[i - 1].carry /\ o[i - 1] = g[i - 1].out
    BY <1>3, <2>1, Zenon
  <2>3. g[i] = CarryOn(g[i - 1], d[i])
    BY <1>2, Zenon DEF CarriesOn
  <2>4. /\ g[i].carry = (g[i - 1].carry + d[i] * 256) \div 58
        /\ g[i].out = Append(g[i - 1].out, (g[i - 1].carry + d[i] * 256) % 58)
    BY <2>3 DEF CarryOn
  <2> QED BY <2>2, <2>4, Zenon
<1>6. \A i \in 0..n : c[i] \in 0..255
  <2>1. PICK S : S = {i \in 0..n : c[i] \in 0..255}
    OBVIOUS
  <2>2. 0 \in S
    <3>1. 0 \in 0..n
      BY <1>1
    <3> QED BY <1>4, <2>1, <3>1, Zenon
  <2>3. ASSUME NEW i \in 1..n, i - 1 \in S PROVE i \in S
    <3>1. PICK a, b : a = c[i - 1] /\ b = d[i]
      OBVIOUS
    <3>2. a \in 0..255 /\ b \in 0..57 /\ i \in 0..n
      BY <1>1, <2>1, <2>3, <3>1
    <3>3. c[i] = (a + b * 256) \div 58
      BY <1>5, <3>1
    <3>4. (a + b * 256) \div 58 \in 0..255
      BY <3>2
    <3>5. c[i] \in 0..255
      BY <3>3, <3>4
    <3> QED BY <2>1, <3>2, <3>5
  <2>4. \A i \in 0..n : i \in S
    BY <1>1, <2>2, <2>3, EveryPass
  <2> QED BY <2>1, <2>4
<1>7. \A i \in 1..n : c[i - 1] \in 0..255 /\ d[i] \in 0..57
  <2> TAKE i \in 1..n
  <2>1. PICK j : j = i - 1 /\ j \in 0..n
    BY <1>1
  <2>2. c[j] \in 0..255
    BY <1>6, <2>1
  <2> QED BY <1>1, <2>1, <2>2
<1>8. \A i \in 0..n : /\ IsSeq(o[i]) /\ Len(o[i]) = i
                       /\ \A j \in 1..i : o[i][j] = (c[j - 1] + d[j] * 256) % 58
  <2>1. PICK S : S = {i \in 0..n : /\ IsSeq(o[i]) /\ Len(o[i]) = i
                                   /\ \A j \in 1..i : o[i][j] = (c[j - 1] + d[j] * 256) % 58}
    OBVIOUS
  <2>2. 0 \in S
    <3>1. IsSeq(o[0]) /\ Len(o[0]) = 0
      BY <1>4 DEF IsSeq
    <3>2. \A j \in 1..0 : FALSE
      OBVIOUS
    <3>3. 0 \in 0..n
      BY <1>1
    <3> QED BY <2>1, <3>1, <3>2, <3>3, Zenon
  <2>3. ASSUME NEW i \in 1..n, i - 1 \in S PROVE i \in S
    <3>1. PICK t, y, u, m : /\ t = o[i - 1] /\ y = (c[i - 1] + d[i] * 256) % 58
                            /\ u = o[i] /\ m = i - 1
      OBVIOUS
    <3>2. /\ IsSeq(t) /\ Len(t) = m
          /\ \A j \in 1..m : t[j] = (c[j - 1] + d[j] * 256) % 58
      BY <2>1, <2>3, <3>1, Zenon
    <3>3. u = Append(t, y)
      BY <1>5, <3>1, Zenon
    <3>4. /\ IsSeq(u) /\ Len(u) = m + 1
          /\ \A j \in 1..m : u[j] = t[j]
          /\ u[m + 1] = y
      BY <3>2, <3>3, AppendAny
    <3>5. m + 1 = i /\ i \in 0..n /\ \A j \in 1..i : j \in 1..m \/ j = i
      BY <1>1, <3>1
    <3>6. \A j \in 1..i : u[j] = (c[j - 1] + d[j] * 256) % 58
      <4> TAKE j \in 1..i
      <4>1. CASE j \in 1..m
        BY <3>2, <3>4, <4>1, Zenon
      <4>2. CASE j = i
        BY <3>1, <3>4, <3>5, <4>2, Zenon
      <4> QED BY <3>5, <4>1, <4>2, Zenon
    <3> QED BY <2>1, <3>1, <3>4, <3>5, <3>6, Zenon
  <2>4. \A i \in 0..n : i \in S
    BY <1>1, <2>2, <2>3, EveryPass
  <2> QED BY <2>1, <2>4, Zenon
<1>9. PICK out : out = o[n]
  OBVIOUS
<1>10. n \in 0..n /\ \A i \in 1..n : i \in 0..n
  BY <1>1
<1>11. IsSeq(out) /\ Len(out) = n /\ \A i \in 1..n : out[i] = (c[i - 1] + d[i] * 256) % 58
  <2>1. /\ IsSeq(o[n]) /\ Len(o[n]) = n
        /\ \A j \in 1..n : o[n][j] = (c[j - 1] + d[j] * 256) % 58
    BY <1>8, <1>10, Zenon
  <2> QED BY <1>9, <2>1, Zenon
<1>12. ASSUME NEW i \in 1..n
       PROVE  out[i] \in 0..57 /\ c[i - 1] + 256 * d[i] = out[i] + 58 * c[i]
  <2>1. PICK a, b, x, y : a = c[i - 1] /\ b = d[i] /\ x = out[i] /\ y = c[i]
    OBVIOUS
  <2>2. a \in 0..255 /\ b \in 0..57
    BY <1>7, <2>1
  <2>3. x = (a + b * 256) % 58 /\ y = (a + b * 256) \div 58
    BY <1>5, <1>11, <2>1
  <2>4. x \in 0..57 /\ a + 256 * b = x + 58 * y
    BY ONLY <2>2, <2>3
  <2> QED BY <2>1, <2>4
<1>13. TimesByte(d, byte) = out \o CarryDigits[c[n]]
  BY <1>2, <1>3, <1>9, <1>10, Zenon
<1>14. \A i \in 1..n : out[i] \in 0..57 /\ c[i - 1] + 256 * d[i] = out[i] + 58 * c[i]
  BY <1>12
<1>15. IsRow(c, out, d, n)
  BY <1>6, <1>11, <1>14, Zenon DEF IsRow
<1> QED BY <1>4, <1>13, <1>15, Zenon DEF HasRow

\* The digits of the number x, without a leading 0 unless it is the only one.
Writes(d, x) ==
    /\ IsDigits(d) /\ Len(d) > 0
    /\ \E w : Weighs(d, w) /\ w[1] = x
    /\ Len(d) = 1 \/ IsTopped(d)

\* Digits joined: what they weigh.
LEMMA JoinedWeigh ==
    ASSUME NEW d, NEW n, HasDigits(d, n), n > 0, NEW w, Weighs(d, w),
           NEW c, NEW out, IsRow(c, out, d, n),
           NEW e, IsDigits(e), NEW v, Weighs(e, v), v[1] = c[n],
           NEW r, IsJoined(r, out, e)
    PROVE  IsDigits(r) /\ \E u : Weighs(r, u) /\ u[1] = 256 * w[1] + c[0]
<1>1. PICK m : m = Len(e)
  OBVIOUS
<1>2. n \in Nat /\ Len(d) = n /\ m \in Nat /\ IsSeq(e) /\ \A i \in 1..m : e[i] \in 0..57
  BY <1>1 DEF HasDigits, IsDigits
<1>3. /\ \A i \in 0..n : c[i] \in 0..255
      /\ IsSeq(out) /\ Len(out) = n
      /\ \A i \in 1..n : out[i] \in 0..57
      /\ \A i \in 1..n : c[i - 1] + 256 * d[i] = out[i] + 58 * c[i]
  BY Zenon DEF IsRow
<1>4. /\ IsSeq(r) /\ Len(r) = n + m
      /\ \A i \in 1..n : r[i] = out[i]
      /\ \A i \in 1..m : r[n + i] = e[i]
  BY <1>3, <1>1, Zenon DEF IsJoined
<1>5. \A i \in 1 .. n + m : i \in 1..n \/ \E j \in 1..m : i = n + j
  <2> TAKE i \in 1 .. n + m
  <2>1. PICK j : j = i - n
    OBVIOUS
  <2>2. i \in 1..n \/ (j \in 1..m /\ i = n + j)
    BY <1>2, <2>1
  <2> QED BY <2>2, Zenon
<1>6. IsDigits(r)
  <2>1. \A i \in 1 .. n + m : r[i] \in 0..57
    <3> TAKE i \in 1 .. n + m
    <3>1. CASE i \in 1..n
      <4>1. r[i] = out[i]
        BY <1>4, <3>1, Zenon
      <4>2. out[i] \in 0..57
        BY <1>3, <3>1
      <4> QED BY <4>1, <4>2
    <3>2. CASE \E j \in 1..m : i = n + j
      <4>1. PICK j \in 1..m : i = n + j
        BY <3>2
      <4>2. r[n + j] = e[j] /\ e[j] \in 0..57
        BY <1>2, <1>4, Zenon
      <4> QED BY <4>1, <4>2, Zenon
    <3>3. i \in 1..n \/ \E j \in 1..m : i = n + j
      BY <1>5
    <3> QED BY <3>1, <3>2, <3>3
  <2>2. n + m \in Nat
    BY <1>2
  <2> QED BY <1>4, <2>1, <2>2, Zenon DEF IsDigits
<1>7. /\ \A i \in 1 .. n + 1 : w[i] \in Nat
      /\ w[n + 1] = 0
      /\ \A i \in 1..n : w[i] = d[i] + 58 * w[i + 1]
  BY <1>2, Zenon DEF Weighs
<1>8. /\ \A i \in 1 .. m + 1 : v[i] \in Nat
      /\ v[m + 1] = 0
      /\ \A i \in 1..m : v[i] = e[i] + 58 * v[i + 1]
  BY <1>1 DEF Weighs
<1>9. PICK u : u = [i \in 1 .. n + m + 1 |-> IF i <= n THEN 256 * w[i] + c[i - 1] ELSE v[i - n]]
  OBVIOUS
<1>10. ASSUME NEW j \in 1 .. m + 1 PROVE u[n + j] = v[j]
  <2>1. PICK x : x = n + j
    OBVIOUS
  <2>2. x \in 1 .. n + m + 1 /\ ~(x <= n) /\ x - n = j
    BY <1>2, <2>1
  <2>3. u[x] = v[x - n]
    BY <1>9, <2>2
  <2> QED BY <2>1, <2>2, <2>3
<1>11. \A i \in 1..n : u[i] = 256 * w[i] + c[i - 1]
  <2> TAKE i \in 1..n
  <2>1. i \in 1 .. n + m + 1 /\ i <= n
    BY <1>2
  <2> QED BY <1>9, <2>1, Zenon
<1>12. \A i \in 1 .. n + 1 : c[i - 1] \in 0..255 /\ w[i] \in Nat
  <2> TAKE i \in 1 .. n + 1
  <2>1. PICK j : j = i - 1 /\ j \in 0..n
    BY <1>2
  <2>2. c[j] \in 0..255
    BY <1>3, <2>1
  <2> QED BY <1>7, <2>1, <2>2
<1>13. u[n + 1] = 256 * w[n + 1] + c[n]
  <2>1. 1 \in 1 .. m + 1 /\ n \in 0..n
    BY <1>2
  <2>2. u[n + 1] = v[1]
    BY <1>10, <2>1
  <2>3. c[n] \in 0..255
    BY <1>3, <2>1
  <2>4. PICK x, y : x = c[n] /\ y = w[n + 1]
    OBVIOUS
  <2>5. y = 0
    BY <1>7, <2>4, Zenon
  <2>6. x = 256 * y + x
    BY ONLY <2>3, <2>4, <2>5
  <2> QED BY <2>2, <2>4, <2>6
<1>14. ASSUME NEW i \in 1 .. n + 1 PROVE u[i] = 256 * w[i] + c[i - 1]
  <2>1. CASE i \in 1..n
    BY <1>11, <2>1, Zenon
  <2>2. CASE i = n + 1
    <3>1. i - 1 = n
      BY <1>2, <2>2
    <3> QED BY <1>13, <2>2, <3>1, Zenon
  <2> QED BY <1>2, <2>1, <2>2
<1>15. ASSUME NEW i \in 1..n PROVE u[i] = r[i] + 58 * u[i + 1]
  <2>1. PICK a, b, x, y, o, z : /\ a = c[i - 1] /\ b = c[i] /\ x = d[i] /\ o = out[i]
                                /\ y = w[i] /\ z = w[i + 1]
    OBVIOUS
  <2>2. i \in 1 .. n + 1 /\ i + 1 \in 1 .. n + 1 /\ (i + 1) - 1 = i /\ i \in 0..n
    BY <1>2
  <2>3. u[i] = 256 * y + a
    BY <1>14, <2>1, <2>2, Zenon
  <2>4. u[i + 1] = 256 * z + b
    <3>1. PICK k : k = i + 1
      OBVIOUS
    <3>2. u[k] = 256 * w[k] + c[k - 1]
      BY <1>14, <2>2, <3>1
    <3> QED BY <2>1, <2>2, <3>1, <3>2, Zenon
  <2>5. a + 256 * x = o + 58 * b /\ o \in 0..57
    BY <1>3, <2>1
  <2>6. y = x + 58 * z
    BY <1>7, <2>1, Zenon
  <2>7. a \in Nat /\ b \in Nat /\ z \in Nat /\ x \in Nat
    <3>1. a \in 0..255 /\ z \in Nat
      BY <1>12, <2>1, <2>2
    <3>2. b \in 0..255
      BY <1>3, <2>1, <2>2
    <3>3. x \in 0..57
      BY <2>1 DEF HasDigits
    <3> QED BY <3>1, <3>2, <3>3
  <2>8. r[i] = o
    BY <1>4, <2>1, Zenon
  <2>9. 256 * y + a = o + 58 * (256 * z + b)
    BY ONLY <2>5, <2>6, <2>7
  <2> QED BY <2>3, <2>4, <2>8, <2>9, Zenon
<1>16. ASSUME NEW j \in 1..m PROVE u[n + j] = r[n + j] + 58 * u[(n + j) + 1]
  <2>1. j \in 1 .. m + 1 /\ j + 1 \in 1 .. m + 1 /\ n + (j + 1) = (n + j) + 1
    BY <1>2
  <2>2. u[n + j] = v[j]
    BY <1>10, <2>1
  <2>3. u[n + (j + 1)] = v[j + 1]
    <3>1. PICK k : k = j + 1
      OBVIOUS
    <3>2. u[n + k] = v[k]
      BY <1>10, <2>1, <3>1
    <3> QED BY <3>1, <3>2
  <2>4. u[(n + j) + 1] = v[j + 1]
    BY <2>1, <2>3, Zenon
  <2> QED BY <1>4, <1>8, <2>2, <2>4, Zenon
<1>17. \A i \in 1 .. n + m : u[i] = r[i] + 58 * u[i + 1]
  BY <1>5, <1>15, <1>16, Zenon
<1>18. \A i \in 1 .. n + m + 1 : u[i] \in Nat
  <2> TAKE i \in 1 .. n + m + 1
  <2>1. CASE i \in 1..n
    <3>1. PICK x, y : x = w[i] /\ y = c[i - 1]
      OBVIOUS
    <3>2. i \in 1 .. n + 1
      BY <1>2, <2>1
    <3>3. x \in Nat /\ y \in 0..255
      BY <1>12, <3>1, <3>2
    <3>4. 256 * x + y \in Nat
      BY <3>3
    <3> QED BY <1>11, <2>1, <3>1, <3>4, Zenon
  <2>2. CASE i \notin 1..n
    <3>1. PICK j : j = i - n
      OBVIOUS
    <3>2. j \in 1 .. m + 1 /\ n + j = i
      BY <1>2, <2>2, <3>1
    <3>3. u[n + j] = v[j] /\ v[j] \in Nat
      BY <1>8, <1>10, <3>2
    <3> QED BY <3>2, <3>3, Zenon
  <2> QED BY <2>1, <2>2, Zenon
<1>19. u[n + m + 1] = 0
  <2>1. m + 1 \in 1 .. m + 1 /\ n + (m + 1) = n + m + 1
    BY <1>2
  <2>2. PICK k : k = m + 1
    OBVIOUS
  <2>3. u[n + k] = v[k]
    BY <1>10, <2>1, <2>2
  <2> QED BY <1>8, <2>1, <2>2, <2>3, Zenon
<1>20. Weighs(r, u)
  BY <1>4, <1>17, <1>18, <1>19, Zenon DEF Weighs
<1>21. u[1] = 256 * w[1] + c[0]
  <2>1. 1 \in 1 .. n + 1 /\ 1 - 1 = 0
    BY <1>2
  <2>2. u[1] = 256 * w[1] + c[1 - 1]
    BY <1>14, <2>1, Zenon
  <2> QED BY <2>1, <2>2, Zenon
<1> QED BY <1>6, <1>20, <1>21, Zenon

\* TimesByte writes 256 times the number, and the byte.
LEMMA TimesByteWrites ==
    ASSUME NEW d, NEW x \in Nat, Writes(d, x), NEW byte \in 0..255
    PROVE  Writes(TimesByte(d, byte), 256 * x + byte)
<1>1. PICK n : n = Len(d)
  OBVIOUS
<1>2. PICK w : Weighs(d, w) /\ w[1] = x
  BY DEF Writes
<1>3. HasDigits(d, n) /\ n > 0 /\ n \in Nat /\ \A i \in 1..n : d[i] \in 0..57
  <2>1. d \in Seq({d[i] : i \in DOMAIN d}) /\ n > 0
    BY <1>1 DEF Writes, IsDigits, IsSeq
  <2>2. DOMAIN d = 1..n
    BY <1>1, <2>1, LenProperties
  <2>3. n \in Nat /\ \A i \in 1..n : d[i] \in 0..57
    BY <1>1 DEF Writes, IsDigits
  <2> QED BY <1>1, <2>1, <2>2, <2>3 DEF HasDigits
<1>4. HasDigits(d, n)
  BY <1>3
<1>5. PICK c, out : /\ IsRow(c, out, d, n) /\ c[0] = byte
                    /\ TimesByte(d, byte) = out \o CarryDigits[c[n]]
  <2>1. HasRow(d, n, byte)
    BY <1>4, TimesByteDigits
  <2> QED BY <2>1, Zenon DEF HasRow
<1>6. PICK k, e, r : k = c[n] /\ e = CarryDigits[k] /\ r = out \o e
  OBVIOUS
<1>7. k \in 0..255
  <2>1. n \in 0..n
    BY <1>3
  <2> QED BY <1>5, <1>6, <2>1 DEF IsRow
<1>8. /\ IsDigits(e)
      /\ \E v : Weighs(e, v) /\ v[1] = k
      /\ k = 0 => Len(e) = 0
      /\ k # 0 => IsTopped(e)
  BY <1>6, <1>7, CarryWeighs
<1>9. PICK v : Weighs(e, v) /\ v[1] = k
  BY <1>8
<1>10. Len(e) \in Nat /\ IsSeq(e) /\ IsSeq(out) /\ Len(out) = n
  BY <1>5, <1>8 DEF IsDigits, IsRow
<1>11. IsJoined(r, out, e)
  BY <1>6, <1>10, ConcatAny
<1>12. /\ Len(r) = n + Len(e)
       /\ \A i \in 1..n : r[i] = out[i]
       /\ \A i \in 1..Len(e) : r[n + i] = e[i]
  BY <1>10, <1>11, Zenon DEF IsJoined
<1>13. IsDigits(r) /\ \E u : Weighs(r, u) /\ u[1] = 256 * w[1] + c[0]
  BY <1>2, <1>3, <1>5, <1>6, <1>8, <1>9, <1>11, JoinedWeigh
<1>14. Len(r) = 1 \/ IsTopped(r)
  <2>1. CASE k # 0
    <3>1. PICK m : m = Len(e)
      OBVIOUS
    <3>2. m > 0 /\ e[m] # 0 /\ m \in Nat
      BY <1>8, <1>10, <2>1, <3>1 DEF IsTopped
    <3>3. m \in 1..m /\ n + m > 0
      BY <1>3, <3>2
    <3>4. r[n + m] = e[m]
      BY <1>12, <3>1, <3>3
    <3> QED BY <1>12, <3>1, <3>2, <3>3, <3>4, Zenon DEF IsTopped
  <2>2. CASE k = 0
    <3>1. Len(r) = n
      BY <1>3, <1>8, <1>12, <2>2
    <3>2. CASE n = 1
      BY <3>1, <3>2
    <3>3. CASE n # 1
      <4>1. d[n] # 0
        BY <1>1, <3>3, Zenon DEF Writes, IsTopped
      <4>2. n \in 1..n /\ n - 1 \in 0..n
        BY <1>3
      <4>3. PICK a, b, o : a = c[n - 1] /\ b = d[n] /\ o = out[n]
        OBVIOUS
      <4>4. a \in 0..255 /\ b \in 0..57 /\ b # 0
        <5>1. PICK j : j = n - 1 /\ j \in 0..n
          BY <4>2
        <5>2. c[j] \in 0..255
          BY <1>5, <5>1 DEF IsRow
        <5> QED BY <1>3, <4>1, <4>2, <4>3, <5>1, <5>2
      <4>5. o \in 0..57 /\ a + 256 * b = o + 58 * k
        <5>1. /\ \A i \in 1..n : out[i] \in 0..57
              /\ \A i \in 1..n : c[i - 1] + 256 * d[i] = out[i] + 58 * c[i]
          BY <1>5, Zenon DEF IsRow
        <5>2. out[n] \in 0..57 /\ c[n - 1] + 256 * d[n] = out[n] + 58 * c[n]
          BY <5>1, <4>2, Zenon
        <5> QED BY <1>6, <4>3, <5>2, Zenon
      <4>6. FALSE
        BY ONLY <2>2, <4>4, <4>5
      <4> QED BY <4>6
    <3> QED BY <3>2, <3>3
  <2> QED BY <2>1, <2>2
<1>15. Len(r) > 0
  BY <1>3, <1>10, <1>12
<1>16. Writes(r, 256 * x + byte)
  BY <1>2, <1>5, <1>14, <1>15, <1>13, Zenon DEF Writes
<1> QED BY <1>5, <1>6, <1>16, Zenon

\* The folds of ValueOf and base58Digits.
ReadOf(s, base) == [fold |-> "value", base |-> base, s |-> s]
WriteOf(s) == [fold |-> "digits", s |-> s]

\* v[i] is the number that the first i digits are.
IsValue(v, s, n, base) ==
    /\ v[0] = 0
    /\ \A i \in 1..n : v[i] = base * v[i - 1] + s[i]

\* g[i] holds the digits of the first i bytes.
IsWritten(g, s, n) ==
    /\ g[0] = <<0>>
    /\ \A i \in 1..n : g[i] = TimesByte(g[i - 1], s[i])

\* ValueOf reads the digits in order.
LEMMA ValueFold ==
    ASSUME NEW s, NEW n \in Nat, DOMAIN s = 1..n, NEW base
    PROVE  \E v : IsValue(v, s, n, base) /\ ValueOf(s, base) = v[n]
<1> DEFINE Step(it) == [u \in SUBSET (DOMAIN s) |->
                          IF u = {} THEN 0 ELSE base * it[u \ {Max(u)}] + s[Max(u)]]
<1>1. ValueOf(s, base) = (CHOOSE it : it = Step(it))[DOMAIN s]
  BY DEF ValueOf, FoldLeft, MapThenFoldSet
<1>2. PICK k : k = ReadOf(s, base)
  OBVIOUS
<1>3. k.fold = "value" /\ k.fold # "sum" /\ k.base = base /\ k.s = s
  BY <1>2 DEF ReadOf
<1>4. \A acc, x : OneStep(k, x, acc) = base * acc + s[x]
  BY <1>3 DEF OneStep
<1>5. Base(k) = 0 /\ \A u : Chosen(k, u) = Max(u)
  BY <1>3 DEF Base, Chosen
<1>6. PICK g : /\ g[0] = Base(k)
               /\ \A i \in 1..n : g[i] = OneStep(k, i, g[i - 1])
               /\ Fold(k, 1..n)[1..n] = g[n]
  BY <1>3, FoldInOrder
<1>7. \A i \in 1..n : g[i] = base * g[i - 1] + s[i]
  BY <1>4, <1>6, Zenon
<1>8. ASSUME NEW it PROVE FoldStep(k, SUBSET (1..n), it) = Step(it)
  BY <1>4, <1>5, Zenon DEF FoldStep
<1> HIDE DEF Step
<1>9. Fold(k, 1..n) = CHOOSE it : it = Step(it)
  BY <1>8, Zenon DEF Fold
<1>10. ValueOf(s, base) = g[n]
  BY <1>1, <1>6, <1>9, Zenon
<1> QED BY <1>5, <1>6, <1>7, <1>10, Zenon DEF IsValue

\* base58Digits goes through the bytes in order.
LEMMA WriteFold ==
    ASSUME NEW s, NEW n \in Nat, DOMAIN s = 1..n
    PROVE  \E g : IsWritten(g, s, n) /\ base58Digits(s) = g[n]
<1> DEFINE Step(it) == [u \in SUBSET (DOMAIN s) |->
                          IF u = {} THEN <<0>> ELSE TimesByte(it[u \ {Max(u)}], s[Max(u)])]
<1>1. base58Digits(s) = (CHOOSE it : it = Step(it))[DOMAIN s]
  BY DEF base58Digits, FoldLeft, MapThenFoldSet
<1>2. PICK k : k = WriteOf(s)
  OBVIOUS
<1>3. k.fold = "digits" /\ k.fold # "sum" /\ k.s = s
  BY <1>2 DEF WriteOf
<1>4. \A acc, x : OneStep(k, x, acc) = TimesByte(acc, s[x])
  BY <1>3 DEF OneStep
<1>5. Base(k) = <<0>> /\ \A u : Chosen(k, u) = Max(u)
  BY <1>3 DEF Base, Chosen
<1>6. PICK g : /\ g[0] = Base(k)
               /\ \A i \in 1..n : g[i] = OneStep(k, i, g[i - 1])
               /\ Fold(k, 1..n)[1..n] = g[n]
  BY <1>3, FoldInOrder
<1>7. \A i \in 1..n : g[i] = TimesByte(g[i - 1], s[i])
  BY <1>4, <1>6, Zenon
<1>8. ASSUME NEW it PROVE FoldStep(k, SUBSET (1..n), it) = Step(it)
  BY <1>4, <1>5, Zenon DEF FoldStep
<1> HIDE DEF Step
<1>9. Fold(k, 1..n) = CHOOSE it : it = Step(it)
  BY <1>8, Zenon DEF Fold
<1>10. base58Digits(s) = g[n]
  BY <1>1, <1>6, <1>9, Zenon
<1> QED BY <1>5, <1>6, <1>7, <1>10, Zenon DEF IsWritten

\* n bytes.
IsBytes(s, n) == n \in Nat /\ DOMAIN s = 1..n /\ \A i \in 1..n : s[i] \in 0..255

\* No digit has been written: the number is 0.
LEMMA ZeroWritten == Writes(<<0>>, 0)
<1>1. PICK d : d = <<0>>
  OBVIOUS
<1>2. Len(d) = 1 /\ d[1] = 0 /\ d \in Seq({0})
  BY <1>1
<1>3. IsSeq(d)
  <2>1. d = [i \in 1..1 |-> d[i]] /\ 1 \in Nat
    BY <1>2, LenProperties
  <2> QED BY <2>1, FunctionIsSeq
<1>4. IsDigits(d)
  BY <1>2, <1>3 DEF IsDigits
<1>5. PICK w : w = [i \in 1..2 |-> 0]
  OBVIOUS
<1>6. Weighs(d, w) /\ w[1] = 0
  BY <1>2, <1>5 DEF Weighs
<1> QED BY <1>1, <1>2, <1>4, <1>6 DEF Writes

\* base58Digits writes the number the bytes are.
LEMMA BytesAreWritten ==
    ASSUME NEW s, NEW n, IsBytes(s, n), NEW v, IsValue(v, s, n, 256)
    PROVE  Writes(base58Digits(s), v[n]) /\ \A i \in 0..n : v[i] \in Nat
<1>1. n \in Nat /\ DOMAIN s = 1..n /\ \A i \in 1..n : s[i] \in 0..255
  BY DEF IsBytes
<1>2. PICK g : IsWritten(g, s, n) /\ base58Digits(s) = g[n]
  BY <1>1, WriteFold
<1>3. PICK S : S = {i \in 0..n : v[i] \in Nat /\ Writes(g[i], v[i])}
  OBVIOUS
<1>4. 0 \in S
  <2>1. g[0] = <<0>> /\ v[0] = 0
    BY <1>2, Zenon DEF IsWritten, IsValue
  <2>2. 0 \in 0..n /\ 0 \in Nat
    BY <1>1
  <2> QED BY <1>3, <2>1, <2>2, ZeroWritten, Zenon
<1>5. ASSUME NEW i \in 1..n, i - 1 \in S PROVE i \in S
  <2>1. PICK d, x, b : d = g[i - 1] /\ x = v[i - 1] /\ b = s[i]
    OBVIOUS
  <2>2. x \in Nat /\ Writes(d, x) /\ b \in 0..255
    BY <1>1, <1>3, <1>5, <2>1
  <2>3. Writes(TimesByte(d, b), 256 * x + b)
    BY <2>2, TimesByteWrites
  <2>4. g[i] = TimesByte(d, b) /\ v[i] = 256 * x + b
    BY <1>2, <2>1, Zenon DEF IsWritten, IsValue
  <2>5. 256 * x + b \in Nat /\ i \in 0..n
    BY <1>1, <2>2
  <2> QED BY <1>3, <2>3, <2>4, <2>5, Zenon
<1>6. \A i \in 0..n : i \in S
  BY <1>1, <1>4, <1>5, EveryPass
<1>7. n \in 0..n
  BY <1>1
<1> QED BY <1>2, <1>3, <1>6, <1>7, Zenon

-----------------------------------------------------------------------------
(* How many digits a number has *)

\* p[i] is the i-th power of base.
IsPower(p, base, n) ==
    /\ p[0] = 1
    /\ \A i \in 1..n : p[i] = base * p[i - 1]

PowerOf(base) == [fold |-> "power", base |-> base]

\* There are powers.
LEMMA PowerExists ==
    ASSUME NEW base, NEW n \in Nat
    PROVE  \E p : IsPower(p, base, n)
<1>1. PICK k : k = PowerOf(base)
  OBVIOUS
<1>2. k.fold = "power" /\ k.fold # "sum" /\ k.base = base
  BY <1>1 DEF PowerOf
<1>3. \A acc, x : OneStep(k, x, acc) = base * acc
  BY <1>2 DEF OneStep
<1>4. Base(k) = 1
  BY <1>2 DEF Base
<1>5. PICK g : /\ g[0] = Base(k)
               /\ \A i \in 1..n : g[i] = OneStep(k, i, g[i - 1])
               /\ Fold(k, 1..n)[1..n] = g[n]
  BY <1>2, FoldInOrder
<1>6. g[0] = 1
  BY <1>4, <1>5, Zenon
<1>7. \A i \in 1..n : g[i] = base * g[i - 1]
  BY <1>3, <1>5, Zenon
<1>8. IsPower(g, base, n)
  BY <1>6, <1>7, Zenon DEF IsPower
<1> QED BY <1>8, Zenon

\* They are positive numbers, and grow.
LEMMA PowersGrow ==
    ASSUME NEW base \in Nat, base > 0, NEW n \in Nat, NEW p, IsPower(p, base, n)
    PROVE  /\ \A i \in 0..n : p[i] \in Nat /\ p[i] > 0
           /\ \A i, j \in 0..n : i <= j => p[i] <= p[j]
<1>1. p[0] = 1 /\ \A i \in 1..n : p[i] = base * p[i - 1]
  BY DEF IsPower
<1>2. PICK S : S = {i \in 0..n : p[i] \in Nat /\ p[i] > 0}
  OBVIOUS
<1>3. 0 \in S
  BY <1>1, <1>2
<1>4. ASSUME NEW x \in Nat, x > 0 PROVE base * x \in Nat /\ base * x >= x
  BY <1>4
<1>5. ASSUME NEW i \in 1..n, i - 1 \in S PROVE i \in S
  <2>1. PICK x : x = p[i - 1]
    OBVIOUS
  <2>2. x \in Nat /\ x > 0
    BY <1>2, <1>5, <2>1
  <2>3. base * x \in Nat /\ base * x >= x
    BY <1>4, <2>2
  <2>4. p[i] = base * x
    BY <1>1, <2>1
  <2>5. p[i] \in Nat /\ p[i] > 0
    BY <2>2, <2>3, <2>4
  <2> QED BY <1>2, <2>5
<1>6. \A i \in 0..n : i \in S
  BY <1>3, <1>5, EveryPass
<1>7. \A i \in 0..n : p[i] \in Nat /\ p[i] > 0
  BY <1>2, <1>6
<1>8. ASSUME NEW i \in 0..n PROVE \A j \in 0..n : i <= j => p[i] <= p[j]
  <2>1. PICK T : T = {j \in 0..n : i <= j => p[i] <= p[j]}
    OBVIOUS
  <2>2. 0 \in T
    BY <1>1, <1>7, <2>1
  <2>3. ASSUME NEW j \in 1..n, j - 1 \in T PROVE j \in T
    <3>1. PICK x, y, z : x = p[j - 1] /\ y = p[j] /\ z = p[i]
      OBVIOUS
    <3>2. x \in Nat /\ x > 0 /\ z \in Nat /\ j - 1 \in 0..n /\ j \in 0..n
      <4>1. PICK k : k = j - 1 /\ k \in 0..n
        OBVIOUS
      <4>2. p[k] \in Nat /\ p[k] > 0 /\ p[i] \in Nat
        BY <1>7, <4>1
      <4> QED BY <3>1, <4>1, <4>2
    <3>3. y = base * x
      BY <1>1, <3>1
    <3>4. y \in Nat /\ y >= x
      BY <1>4, <3>2, <3>3
    <3>5. i <= j - 1 => z <= x
      BY <2>1, <2>3, <3>1
    <3>6. i <= j => z <= y
      <4>1. CASE i = j
        BY <3>1, <3>2, <4>1
      <4>2. CASE i # j
        BY <3>2, <3>4, <3>5, <4>2
      <4> QED BY <4>1, <4>2
    <3> QED BY <2>1, <3>1, <3>2, <3>6
  <2>4. \A j \in 0..n : j \in T
    BY <2>2, <2>3, EveryPass
  <2> QED BY <2>1, <2>4
<1> QED BY <1>7, <1>8

\* n bytes are less than 256 ^ n.
LEMMA ValueBelow ==
    ASSUME NEW s, NEW n, IsBytes(s, n), NEW v, IsValue(v, s, n, 256),
           NEW q, IsPower(q, 256, n)
    PROVE  \A i \in 0..n : v[i] \in Nat /\ v[i] < q[i]
<1>1. n \in Nat /\ \A i \in 1..n : s[i] \in 0..255
  BY DEF IsBytes
<1>2. PICK S : S = {i \in 0..n : v[i] \in Nat /\ q[i] \in Nat /\ v[i] < q[i]}
  OBVIOUS
<1>3. 0 \in S
  <2>1. v[0] = 0 /\ q[0] = 1
    BY Zenon DEF IsValue, IsPower
  <2> QED BY <1>1, <1>2, <2>1
<1>4. ASSUME NEW i \in 1..n, i - 1 \in S PROVE i \in S
  <2>1. PICK x, y, b : x = v[i - 1] /\ y = q[i - 1] /\ b = s[i]
    OBVIOUS
  <2>2. x \in Nat /\ y \in Nat /\ x < y /\ b \in 0..255
    BY <1>1, <1>2, <1>4, <2>1
  <2>3. v[i] = 256 * x + b /\ q[i] = 256 * y
    BY <2>1, Zenon DEF IsValue, IsPower
  <2>4. 256 * x + b \in Nat /\ 256 * y \in Nat /\ 256 * x + b < 256 * y
    BY ONLY <2>2
  <2>5. i \in 0..n
    BY <1>1
  <2> QED BY <1>2, <2>3, <2>4, <2>5, Zenon
<1>5. \A i \in 0..n : i \in S
  BY <1>1, <1>3, <1>4, EveryPass
<1> QED BY <1>2, <1>5

\* A number of m digits, the highest of them not 0, is 58 ^ (m - 1) or more.
LEMMA WeightAbove ==
    ASSUME NEW d, IsDigits(d), IsTopped(d), NEW w, Weighs(d, w),
           NEW m, m = Len(d), NEW p, NEW K \in Nat, K >= m, IsPower(p, 58, K)
    PROVE  m \in Nat /\ m > 0 /\ w[1] \in Nat /\ p[m - 1] \in Nat /\ w[1] >= p[m - 1]
<1>1. m \in Nat /\ m > 0 /\ d[m] # 0 /\ \A i \in 1..m : d[i] \in 0..57
  BY DEF IsDigits, IsTopped
<1>2. /\ \A i \in 1 .. m + 1 : w[i] \in Nat
      /\ w[m + 1] = 0
      /\ \A i \in 1..m : w[i] = d[i] + 58 * w[i + 1]
  BY Zenon DEF Weighs
<1>3. p[0] = 1 /\ \A i \in 1..K : p[i] = 58 * p[i - 1]
  BY DEF IsPower
<1>4. PICK k : k = m - 1
  OBVIOUS
<1>5. k \in Nat /\ k + 1 = m /\ 0 \in 0..k /\ k \in 0..k
  BY <1>1, <1>4
<1>6. PICK S : S = {j \in 0..k : p[j] \in Nat /\ w[m - j] \in Nat /\ w[m - j] >= p[j]}
  OBVIOUS
<1>7. 0 \in S
  <2>1. m \in 1..m /\ m \in 1 .. m + 1 /\ m - 0 = m
    BY <1>1
  <2>2. w[m] = d[m] + 58 * w[m + 1] /\ d[m] \in 0..57 /\ w[m] \in Nat
    BY <1>1, <1>2, <2>1
  <2>3. PICK x, y : x = w[m] /\ y = d[m]
    OBVIOUS
  <2>4. x = y + 58 * 0
    BY <1>2, <2>2, <2>3, Zenon
  <2>5. y \in 0..57 /\ y # 0
    BY <1>1, <2>2, <2>3
  <2>6. x \in Nat /\ x >= 1
    BY ONLY <2>4, <2>5
  <2>7. w[m - 0] \in Nat /\ w[m - 0] >= 1 /\ p[0] \in Nat /\ p[0] = 1
    BY <1>3, <2>1, <2>3, <2>6
  <2> QED BY <1>5, <1>6, <2>7, Zenon
<1>8. ASSUME NEW j \in 1..k, j - 1 \in S PROVE j \in S
  <2>1. PICK i, a : i = m - j /\ a = j - 1
    OBVIOUS
  <2>2. i \in 1..m /\ i + 1 = m - a /\ a \in 0..k /\ j \in 1..K /\ j \in 0..k /\ i + 1 \in 1 .. m + 1
    BY <1>1, <1>5, <2>1
  <2>3. PICK x, y, z : x = w[m - a] /\ y = p[a] /\ z = d[i]
    OBVIOUS
  <2>4. x \in Nat /\ y \in Nat /\ x >= y
    BY <1>6, <1>8, <2>1, <2>3
  <2>5. z \in 0..57
    BY <1>1, <2>2, <2>3
  <2>6. w[i] = z + 58 * x
    BY <1>2, <2>2, <2>3, Zenon
  <2>7. p[j] = 58 * y
    BY <1>3, <2>1, <2>2, <2>3, Zenon
  <2>8. z + 58 * x \in Nat /\ 58 * y \in Nat /\ z + 58 * x >= 58 * y
    BY ONLY <2>4, <2>5
  <2> QED BY <1>6, <2>1, <2>2, <2>6, <2>7, <2>8, Zenon
<1>9. \A j \in 0..k : j \in S
  BY <1>5, <1>7, <1>8, EveryPass
<1>10. k \in S
  BY <1>5, <1>9
<1>11. p[k] \in Nat /\ w[m - k] \in Nat /\ w[m - k] >= p[k]
  BY <1>6, <1>10
<1>12. m - k = 1
  BY <1>1, <1>4
<1> QED BY <1>1, <1>4, <1>11, <1>12

\* f holds t + 1 powers, from the k-th on.
PowersFrom(f, p, base, k, t) ==
    /\ f[0] = p[k]
    /\ f[t] = p[k + t]
    /\ \A i \in 1..t : f[i] = base * f[i - 1]

\* From any power on, the powers grow as they do from the first.
LEMMA PowersOn ==
    ASSUME NEW base, NEW n \in Nat, NEW p, IsPower(p, base, n), NEW k \in Nat,
           NEW t \in Nat, k + t <= n
    PROVE  \E f : PowersFrom(f, p, base, k, t)
<1>1. PICK f : f = [i \in 0..t |-> p[k + i]]
  OBVIOUS
<1>2. f[0] = p[k] /\ f[t] = p[k + t]
  <2>1. 0 \in 0..t /\ t \in 0..t /\ k + 0 = k
    OBVIOUS
  <2> QED BY <1>1, <2>1, Zenon
<1>3. ASSUME NEW i \in 1..t PROVE f[i] = base * f[i - 1]
  <2>1. PICK a, b, j : a = k + i /\ j = i - 1 /\ b = k + j
    OBVIOUS
  <2>2. a = b + 1 /\ b \in Nat /\ a <= n /\ i \in 0..t /\ j \in 0..t
    BY <2>1
  <2>3. a \in 1..n /\ a - 1 = b
    BY <2>2
  <2>4. f[i] = p[a] /\ f[j] = p[b]
    BY <1>1, <2>1, <2>2, Zenon
  <2>5. p[a] = base * p[b]
    BY <2>3, Zenon DEF IsPower
  <2> QED BY <2>1, <2>4, <2>5, Zenon
<1> QED BY <1>2, <1>3, Zenon DEF PowersFrom

\* Eleven powers of 58 are more than eight of 256.
LEMMA EightForEleven ==
    ASSUME NEW n \in Nat, NEW q, IsPower(q, 256, n), NEW j \in Nat, j + 8 <= n,
           NEW K \in Nat, NEW p, IsPower(p, 58, K), NEW k \in Nat, k + 11 <= K,
           q[j] \in Nat, p[k] \in Nat, q[j] <= p[k]
    PROVE  q[j + 8] <= p[k + 11]
<1>1. PICK f : PowersFrom(f, q, 256, j, 8)
  <2>1. 8 \in Nat
    OBVIOUS
  <2> QED BY <2>1, PowersOn
<1>2. PICK g : PowersFrom(g, p, 58, k, 11)
  <2>1. 11 \in Nat
    OBVIOUS
  <2> QED BY <2>1, PowersOn
<1>3. PICK x0, x1, x2, x3, x4, x5, x6, x7, x8 :
        x0 = f[0] /\ x1 = f[1] /\ x2 = f[2] /\ x3 = f[3] /\ x4 = f[4] /\ x5 = f[5]
        /\ x6 = f[6] /\ x7 = f[7] /\ x8 = f[8]
  OBVIOUS
<1>4. PICK y0, y1, y2, y3, y4, y5, y6, y7, y8, y9, y10, y11 :
        y0 = g[0] /\ y1 = g[1] /\ y2 = g[2] /\ y3 = g[3] /\ y4 = g[4] /\ y5 = g[5]
        /\ y6 = g[6] /\ y7 = g[7] /\ y8 = g[8] /\ y9 = g[9] /\ y10 = g[10] /\ y11 = g[11]
  OBVIOUS
<1>5. x1 = 256 * x0 /\ x2 = 256 * x1 /\ x3 = 256 * x2 /\ x4 = 256 * x3
      /\ x5 = 256 * x4 /\ x6 = 256 * x5 /\ x7 = 256 * x6 /\ x8 = 256 * x7
  BY ONLY <1>1, <1>3 DEF PowersFrom
<1>6. y1 = 58 * y0 /\ y2 = 58 * y1 /\ y3 = 58 * y2 /\ y4 = 58 * y3 /\ y5 = 58 * y4 /\ y6 = 58 * y5
      /\ y7 = 58 * y6 /\ y8 = 58 * y7 /\ y9 = 58 * y8 /\ y10 = 58 * y9 /\ y11 = 58 * y10
  BY ONLY <1>2, <1>4 DEF PowersFrom
<1>7. x0 \in Nat /\ y0 \in Nat /\ x0 <= y0
  BY <1>1, <1>2, <1>3, <1>4 DEF PowersFrom
<1>8. x8 <= y11
  BY ONLY <1>5, <1>6, <1>7
<1> QED BY <1>1, <1>2, <1>3, <1>4, <1>8 DEF PowersFrom

\* Places of Base58 enough for i bytes.
Places(i) == (11 * i + 7) \div 8

\* The first eight.
LEMMA FirstPowers ==
    ASSUME NEW n \in Nat, n >= 8, NEW q, IsPower(q, 256, n),
           NEW K \in Nat, K >= 11, NEW p, IsPower(p, 58, K), NEW i \in 0..7
    PROVE  q[i] <= p[Places(i)]
<1>1. q[0] = 1 /\ p[0] = 1
  BY DEF IsPower
<1>2. PICK x0, x1, x2, x3, x4, x5, x6, x7 :
        x0 = q[0] /\ x1 = q[1] /\ x2 = q[2] /\ x3 = q[3] /\ x4 = q[4] /\ x5 = q[5]
        /\ x6 = q[6] /\ x7 = q[7]
  OBVIOUS
<1>3. PICK y0, y1, y2, y3, y4, y5, y6, y7, y8, y9, y10 :
        y0 = p[0] /\ y1 = p[1] /\ y2 = p[2] /\ y3 = p[3] /\ y4 = p[4] /\ y5 = p[5]
        /\ y6 = p[6] /\ y7 = p[7] /\ y8 = p[8] /\ y9 = p[9] /\ y10 = p[10]
  OBVIOUS
<1>4. x1 = 256 * x0
      /\ x2 = 256 * x1
      /\ x3 = 256 * x2
      /\ x4 = 256 * x3
      /\ x5 = 256 * x4
      /\ x6 = 256 * x5
      /\ x7 = 256 * x6
  BY <1>2 DEF IsPower
<1>5. y1 = 58 * y0
      /\ y2 = 58 * y1
      /\ y3 = 58 * y2
      /\ y4 = 58 * y3
      /\ y5 = 58 * y4
      /\ y6 = 58 * y5
      /\ y7 = 58 * y6
      /\ y8 = 58 * y7
      /\ y9 = 58 * y8
      /\ y10 = 58 * y9
  BY <1>3 DEF IsPower
<1>6. x0 = 1 /\ y0 = 1
  BY <1>1, <1>2, <1>3
<1>7. x0 <= y0 /\ x1 <= y2 /\ x2 <= y3 /\ x3 <= y5 /\ x4 <= y6 /\ x5 <= y7 /\ x6 <= y9 /\ x7 <= y10
  BY ONLY <1>4, <1>5, <1>6
<1>8. Places(0) = 0 /\ Places(1) = 2 /\ Places(2) = 3 /\ Places(3) = 5 /\ Places(4) = 6
      /\ Places(5) = 7 /\ Places(6) = 9 /\ Places(7) = 10
  BY DEF Places
<1>9. i = 0 \/ i = 1 \/ i = 2 \/ i = 3 \/ i = 4 \/ i = 5 \/ i = 6 \/ i = 7
  OBVIOUS
<1> QED BY <1>2, <1>3, <1>7, <1>8, <1>9, Zenon

\* 58 ^ Places(i) is 256 ^ i or more.
LEMMA PlacesEnough ==
    ASSUME NEW n \in Nat, n >= 8, NEW q, IsPower(q, 256, n),
           NEW K \in Nat, K >= 2 * n + 8, NEW p, IsPower(p, 58, K), NEW i \in 0..n
    PROVE  q[i] <= p[Places(i)]
<1>1. PICK T : T = {j \in 0..n : ~(q[j] <= p[Places(j)])}
  OBVIOUS
<1>2. SUFFICES ASSUME T # {} PROVE FALSE
  BY <1>1
<1>3. PICK j \in T : \A y \in T : j <= y
  <2>1. T \subseteq Nat
    BY <1>1
  <2> QED BY <1>2, <2>1, Smallest
<1>4. j \in 0..n /\ ~(q[j] <= p[Places(j)])
  BY <1>1
<1>5. CASE j \in 0..7
  <2>1. K >= 11
    OBVIOUS
  <2> QED BY <1>4, <1>5, <2>1, FirstPowers
<1>6. CASE j \notin 0..7
  <2>1. PICK h : h = j - 8
    OBVIOUS
  <2>2. h \in Nat /\ h + 8 = j /\ j <= n /\ h \in 0..n /\ ~(j <= h)
    BY <1>4, <1>6, <2>1
  <2>3. q[h] <= p[Places(h)]
    BY <1>1, <1>3, <2>2
  <2>4. PICK k, l : k = Places(h) /\ l = Places(j)
    OBVIOUS
  <2>5. k = (11 * h + 7) \div 8 /\ l = (11 * j + 7) \div 8
    BY <2>4 DEF Places
  <2>6. k \in Nat /\ k + 11 = l /\ l <= K /\ k \in 0..K
    BY ONLY <2>2, <2>5, n \in Nat, K \in Nat, K >= 2 * n + 8
  <2>7. q[h] \in Nat /\ p[k] \in Nat
    BY <2>2, <2>6, PowersGrow
  <2>8. q[h + 8] <= p[k + 11]
    BY <2>2, <2>3, <2>4, <2>6, <2>7, EightForEleven
  <2> QED BY <1>4, <2>2, <2>4, <2>6, <2>8
<1> QED BY <1>5, <1>6

\* The digits of n bytes fit into the vector that holds them.
LEMMA DigitsFit ==
    ASSUME NEW s, NEW n, IsBytes(s, n), NEW v, IsValue(v, s, n, 256),
           NEW d, Writes(d, v[n])
    PROVE  Len(d) <= (n * 138) \div 100 + 1
<1>1. PICK m, c, x : m = Len(d) /\ c = (n * 138) \div 100 /\ x = v[n]
  OBVIOUS
<1>2. n \in Nat
  BY DEF IsBytes
<1>3. m \in Nat /\ IsDigits(d) /\ (m = 1 \/ IsTopped(d)) /\ c \in Nat
  <2>1. IsDigits(d) /\ (m = 1 \/ IsTopped(d))
    BY <1>1, Zenon DEF Writes
  <2>2. m \in Nat
    BY <1>1, <2>1 DEF IsDigits
  <2>3. c \in Nat
    BY ONLY <1>1, <1>2
  <2> QED BY <2>1, <2>2, <2>3
<1>4. CASE m = 1
  <2>1. m <= c + 1
    BY <1>3, <1>4
  <2> QED BY <1>1, <2>1
<1>5. CASE IsTopped(d)
  <2>1. PICK w : Weighs(d, w) /\ w[1] = x
    BY <1>1, Zenon DEF Writes
  <2>2. PICK above, K : above = n + 8 /\ K = (2 * above + 8) + m
    OBVIOUS
  <2>3. above \in Nat /\ above >= 8 /\ n \in 0..above /\ K \in Nat /\ K >= 2 * above + 8 /\ K >= m
    BY <1>2, <1>3, <2>2
  <2>4. PICK q : IsPower(q, 256, above)
    BY <2>3, PowerExists
  <2>5. PICK p : IsPower(p, 58, K)
    BY <2>3, PowerExists
  <2>6. IsPower(q, 256, n)
    <3>1. \A i \in 1..n : i \in 1..above
      BY <1>2, <2>2
    <3> QED BY <2>4, <3>1 DEF IsPower
  <2>7. x \in Nat /\ x < q[n]
    <3>1. n \in 0..n
      BY <1>2
    <3> QED BY <1>1, <2>6, <3>1, ValueBelow
  <2>8. m > 0 /\ p[m - 1] \in Nat /\ x >= p[m - 1]
    BY <1>1, <1>3, <1>5, <2>1, <2>3, <2>5, WeightAbove
  <2>9. q[n] <= p[Places(n)]
    BY <2>3, <2>4, <2>5, PlacesEnough
  <2>10. PICK k : k = Places(n)
    OBVIOUS
  <2>11. k = (11 * n + 7) \div 8
    BY <2>10 DEF Places
  <2>12. k \in 0..K
    BY ONLY <1>2, <1>3, <2>2, <2>11
  <2>13. m - 1 \in 0..K
    BY ONLY <1>3, <2>3, <2>8
  <2>14. /\ q[n] \in Nat /\ p[k] \in Nat
         /\ k <= m - 1 => p[k] <= p[m - 1]
    <3>1. q[n] \in Nat
      BY <2>3, <2>4, PowersGrow
    <3>2. PICK e : e = m - 1
      OBVIOUS
    <3>3. /\ \A i \in 0..K : p[i] \in Nat /\ p[i] > 0
          /\ \A i, j \in 0..K : i <= j => p[i] <= p[j]
      BY <2>3, <2>5, PowersGrow
    <3>4. p[k] \in Nat /\ (k <= e => p[k] <= p[e])
      BY <2>12, <2>13, <3>2, <3>3
    <3> QED BY <3>1, <3>2, <3>4
  <2>15. PICK a, b, y : a = q[n] /\ b = p[k] /\ y = p[m - 1]
    OBVIOUS
  <2>16. a \in Nat /\ b \in Nat /\ y \in Nat /\ x < a /\ a <= b /\ x >= y /\ (k <= m - 1 => b <= y)
    BY <2>7, <2>8, <2>9, <2>10, <2>14, <2>15
  <2>17. m <= k
    BY ONLY <1>3, <2>7, <2>11, <2>12, <2>16, <2>3
  <2>18. k <= c + 1
    BY ONLY <1>1, <1>2, <2>11
  <2>19. m <= c + 1
    BY ONLY <1>3, <2>12, <2>17, <2>18, <2>3
  <2> QED BY <1>1, <2>19
<1> QED BY <1>3, <1>4, <1>5

\* A number is 0 when all its digits are, and only then.
LEMMA ZeroValue ==
    ASSUME NEW s, NEW n, IsBytes(s, n), NEW v, IsValue(v, s, n, 256)
    PROVE  v[n] = 0 <=> \A i \in 1..n : s[i] = 0
<1>1. n \in Nat /\ \A i \in 1..n : s[i] \in 0..255
  BY DEF IsBytes
<1>2. v[0] = 0 /\ \A i \in 1..n : v[i] = 256 * v[i - 1] + s[i]
  BY DEF IsValue
<1>3. \A i \in 0..n : v[i] \in Nat
  BY BytesAreWritten
<1>4. ASSUME NEW i \in 1..n PROVE /\ v[i] = 0 => v[i - 1] = 0 /\ s[i] = 0
                                  /\ v[i - 1] = 0 /\ s[i] = 0 => v[i] = 0
  <2>1. PICK j, x, y, z : j = i - 1 /\ x = v[i] /\ y = v[j] /\ z = s[i]
    OBVIOUS
  <2>2. i \in 0..n /\ j \in 0..n
    BY <1>1, <2>1
  <2>3. x \in Nat /\ y \in Nat /\ z \in 0..255 /\ x = 256 * y + z
    BY <1>1, <1>2, <1>3, <2>1, <2>2
  <2>4. (x = 0 => y = 0 /\ z = 0) /\ (y = 0 /\ z = 0 => x = 0)
    BY ONLY <2>3
  <2> QED BY <2>1, <2>4
<1>5. ASSUME v[n] = 0 PROVE \A i \in 1..n : s[i] = 0
  <2>1. PICK S : S = {j \in 0..n : v[n - j] = 0}
    OBVIOUS
  <2>2. 0 \in S
    <3>1. n - 0 = n /\ 0 \in 0..n
      BY <1>1
    <3> QED BY <1>5, <2>1, <3>1
  <2>3. ASSUME NEW j \in 1..n, j - 1 \in S PROVE j \in S
    <3>1. PICK i : i = n - (j - 1)
      OBVIOUS
    <3>2. i \in 1..n /\ i - 1 = n - j /\ j \in 0..n
      BY <1>1, <3>1
    <3>3. v[i] = 0
      BY <2>1, <2>3, <3>1
    <3>4. v[i - 1] = 0
      BY <1>4, <3>2, <3>3
    <3> QED BY <2>1, <3>2, <3>4
  <2>4. \A j \in 0..n : j \in S
    BY <1>1, <2>2, <2>3, EveryPass
  <2>5. ASSUME NEW i \in 1..n PROVE s[i] = 0
    <3>1. PICK j : j = n - i
      OBVIOUS
    <3>2. j \in 0..n /\ n - j = i
      BY <1>1, <3>1
    <3>3. v[i] = 0
      BY <2>1, <2>4, <3>2
    <3> QED BY <1>4, <3>3
  <2> QED BY <2>5
<1>6. ASSUME \A i \in 1..n : s[i] = 0 PROVE v[n] = 0
  <2>1. PICK S : S = {j \in 0..n : v[j] = 0}
    OBVIOUS
  <2>2. 0 \in S
    BY <1>1, <1>2, <2>1
  <2>3. ASSUME NEW j \in 1..n, j - 1 \in S PROVE j \in S
    <3>1. v[j - 1] = 0 /\ s[j] = 0
      BY <1>6, <2>1, <2>3
    <3>2. v[j] = 0
      BY <1>4, <3>1
    <3> QED BY <1>1, <2>1, <3>2
  <2>4. \A j \in 0..n : j \in S
    BY <1>1, <2>2, <2>3, EveryPass
  <2> QED BY <1>1, <2>1, <2>4
<1> QED BY <1>5, <1>6

\* s, of length n, starts with z zeros and no more.
HasZeros(s, n, z) ==
    /\ n \in Nat /\ z \in 0..n
    /\ DOMAIN s = 1..n
    /\ \A j \in 1..z : s[j] = 0
    /\ z < n => s[z + 1] # 0

\* LeadingZeros counts them.
LEMMA ZerosCounted ==
    ASSUME NEW s, NEW n, NEW z, HasZeros(s, n, z)
    PROVE  LeadingZeros(s) = z
<1>1. /\ n \in Nat /\ z \in 0..n
      /\ DOMAIN s = 1..n
      /\ \A j \in 1..z : s[j] = 0
      /\ z < n => s[z + 1] # 0
  BY DEF HasZeros
<1>2. PICK S : S = {i \in DOMAIN s : \A j \in 1..i : s[j] = 0}
  OBVIOUS
<1>3. ASSUME NEW i \in 1..z PROVE i \in S
  <2>1. i \in 1..n /\ \A j \in 1..i : j \in 1..z
    BY <1>1
  <2>2. \A j \in 1..i : s[j] = 0
    BY <1>1, <2>1
  <2> QED BY <1>1, <1>2, <2>1, <2>2
<1>4. ASSUME NEW i \in S PROVE i \in 1..z
  <2>1. i \in 1..n /\ \A j \in 1..i : s[j] = 0
    BY <1>1, <1>2
  <2>2. SUFFICES ASSUME ~(i <= z) PROVE FALSE
    BY <1>1, <2>1
  <2>3. PICK k : k = z + 1
    OBVIOUS
  <2>4. k \in 1..i /\ z < n
    BY <1>1, <2>1, <2>2, <2>3
  <2>5. s[k] # 0
    BY <1>1, <2>3, <2>4
  <2> QED BY <2>1, <2>4, <2>5
<1>5. S = 1..z
  BY <1>3, <1>4
<1>6. Cardinality(1..z) = z
  <2>1. 1 \in Int /\ z \in Int
    BY <1>1
  <2>2. Cardinality(1..z) = IF 1 > z THEN 0 ELSE z - 1 + 1
    BY <2>1, FS_Interval
  <2> QED BY <1>1, <2>2
<1> QED BY <1>2, <1>5, <1>6 DEF LeadingZeros

\* Every sequence starts with some number of zeros.
LEMMA ZerosExist ==
    ASSUME NEW s, NEW n \in Nat, DOMAIN s = 1..n
    PROVE  \E z : HasZeros(s, n, z)
<1>1. PICK T : T = {j \in 1..n : s[j] # 0}
  OBVIOUS
<1>2. CASE T = {}
  <2>1. \A j \in 1..n : s[j] = 0
    BY <1>1, <1>2
  <2>2. HasZeros(s, n, n)
    BY <2>1 DEF HasZeros
  <2> QED BY <2>2
<1>3. CASE T # {}
  <2>1. PICK k \in T : \A y \in T : k <= y
    <3>1. T \subseteq Nat
      BY <1>1
    <3> QED BY <1>3, <3>1, Smallest
  <2>2. PICK z : z = k - 1
    OBVIOUS
  <2>3. k \in 1..n /\ s[k] # 0 /\ z \in 0..n /\ z + 1 = k
    BY <1>1, <2>2
  <2>4. ASSUME NEW j \in 1..z PROVE s[j] = 0
    <3>1. j \in 1..n /\ ~(k <= j)
      BY <2>2, <2>3
    <3> QED BY <1>1, <2>1, <3>1
  <2>5. HasZeros(s, n, z)
    BY <2>3, <2>4 DEF HasZeros
  <2> QED BY <2>5
<1> QED BY <1>2, <1>3

\* Without its last element.
LEMMA ZerosOfFront ==
    ASSUME NEW s, NEW n, NEW z, HasZeros(s, n, z), IsSeq(s), n > 0
    PROVE  HasZeros(Front(s), n - 1, IF z = n THEN n - 1 ELSE z)
<1>1. /\ n \in Nat /\ z \in 0..n
      /\ DOMAIN s = 1..n
      /\ \A j \in 1..z : s[j] = 0
      /\ z < n => s[z + 1] # 0
  BY DEF HasZeros
<1>2. PICK S, f, k, y : /\ S = {s[i] : i \in DOMAIN s} /\ f = Front(s) /\ k = n - 1
                        /\ y = IF z = n THEN n - 1 ELSE z
  OBVIOUS
<1>3. Len(s) = n
  <2>1. s \in Seq(S)
    BY <1>2 DEF IsSeq
  <2> QED BY <1>1, <2>1, LenProperties
<1>4. f = SubSeq(s, 1, k) /\ k \in Nat /\ k \in Int /\ k + 1 = n
  BY <1>1, <1>2, <1>3 DEF Front
<1>5. /\ f \in Seq(S) /\ Len(f) = (IF 1 <= k THEN k - 1 + 1 ELSE 0)
      /\ \A i \in 1 .. k - 1 + 1 : f[i] = s[1 + i - 1]
  <2>1. \A i \in 1..k : s[i] \in S
    BY <1>1, <1>2, <1>4
  <2>2. 1 \in Int
    OBVIOUS
  <2> QED BY <1>4, <2>1, <2>2, SubSeqProperties
<1>6. Len(f) = k /\ \A i \in 1..k : f[i] = s[i]
  BY <1>4, <1>5
<1>7. DOMAIN f = 1..k
  BY <1>5, <1>6, LenProperties
<1>8. y \in 0..k /\ y <= z /\ (y < k => y = z /\ z < n)
  BY <1>1, <1>2, <1>4
<1>9. \A j \in 1..y : f[j] = 0
  <2> TAKE j \in 1..y
  <2>1. j \in 1..k /\ j \in 1..z
    BY <1>1, <1>4, <1>8
  <2> QED BY <1>1, <1>6, <2>1
<1>10. ASSUME y < k PROVE f[y + 1] # 0
  <2>1. PICK i : i = y + 1
    OBVIOUS
  <2>2. i \in 1..k /\ i = z + 1 /\ z < n
    BY <1>4, <1>8, <1>10, <2>1
  <2>3. f[i] = s[i] /\ s[i] # 0
    BY <1>1, <1>6, <2>2
  <2> QED BY <2>1, <2>3
<1>11. HasZeros(f, k, y)
  BY <1>4, <1>7, <1>8, <1>9, <1>10 DEF HasZeros
<1> QED BY <1>2, <1>11

\* The highest digit is 0 in the digits of 0 only.
LEMMA TopDigit ==
    ASSUME NEW d, NEW x \in Nat, Writes(d, x)
    PROVE  /\ x = 0 => Len(d) = 1 /\ d[1] = 0
           /\ x # 0 => d[Len(d)] # 0
<1>1. PICK m : m = Len(d)
  OBVIOUS
<1>2. PICK w : Weighs(d, w) /\ w[1] = x
  BY Zenon DEF Writes
<1>3. IsDigits(d) /\ (m = 1 \/ IsTopped(d))
  BY <1>1, Zenon DEF Writes
<1>4. m \in Nat /\ \A i \in 1..m : d[i] \in 0..57
  BY <1>1, <1>3 DEF IsDigits
<1>5. CASE m = 1
  <2>1. w[2] = 0 /\ w[1] = d[1] + 58 * w[2]
    BY <1>1, <1>2, <1>5 DEF Weighs
  <2>2. d[1] \in 0..57
    BY <1>4, <1>5
  <2>3. PICK a, b : a = d[1] /\ b = w[2]
    OBVIOUS
  <2>4. x = a + 58 * b /\ b = 0 /\ a \in 0..57
    BY <1>2, <2>1, <2>2, <2>3
  <2>5. x = a
    BY ONLY <2>4
  <2> QED BY <1>1, <1>5, <2>3, <2>5
<1>6. CASE IsTopped(d)
  <2>1. PICK p : IsPower(p, 58, m)
    BY <1>4, PowerExists
  <2>2. m > 0 /\ p[m - 1] \in Nat /\ x >= p[m - 1]
    BY <1>1, <1>2, <1>3, <1>4, <1>6, <2>1, WeightAbove
  <2>3. PICK k : k = m - 1
    OBVIOUS
  <2>4. k \in 0..m
    BY <1>4, <2>2, <2>3
  <2>5. p[k] > 0
    BY <1>4, <2>1, <2>4, PowersGrow
  <2>6. x # 0
    BY <2>2, <2>3, <2>5
  <2>7. d[m] # 0
    BY <1>1, <1>6 DEF IsTopped
  <2> QED BY <1>1, <2>6, <2>7
<1> QED BY <1>3, <1>5, <1>6

\* t is z zeros and then the digits d, the highest first.
IsText(t, z, d, m) ==
    /\ z \in Nat /\ m \in Nat
    /\ DOMAIN t = 1 .. z + m
    /\ \A i \in 1..z : t[i] = 0
    /\ \A i \in 1..m : t[z + i] = d[(m - i) + 1]

\* What EncodeBase58 puts together.
LEMMA TextIs ==
    ASSUME NEW d, IsDigits(d), NEW m, m = Len(d), NEW z \in Nat
    PROVE  IsText([i \in 1..z |-> 0] \o Reverse(d), z, d, m)
<1>1. PICK a, r, t : a = [i \in 1..z |-> 0] /\ r = Reverse(d) /\ t = a \o r
  OBVIOUS
<1>2. m \in Nat
  BY DEF IsDigits
<1>3. IsSeq(a) /\ Len(a) = z
  <2>1. a = [i \in 1..z |-> a[i]]
    BY <1>1
  <2> QED BY <2>1, FunctionIsSeq
<1>4. r = [i \in 1..m |-> d[(m - i) + 1]]
  BY <1>1, Zenon DEF Reverse
<1>5. IsSeq(r) /\ Len(r) = m
  <2>1. r = [i \in 1..m |-> r[i]]
    BY <1>4
  <2> QED BY <1>2, <2>1, FunctionIsSeq
<1>6. IsJoined(t, a, r)
  BY <1>1, <1>3, <1>5, ConcatAny
<1>7. /\ IsSeq(t) /\ Len(t) = z + m
      /\ \A i \in 1..z : t[i] = a[i]
      /\ \A i \in 1..m : t[z + i] = r[i]
  BY <1>3, <1>5, <1>6, Zenon DEF IsJoined
<1>8. DOMAIN t = 1 .. z + m
  <2>1. t \in Seq({t[i] : i \in DOMAIN t})
    BY <1>7 DEF IsSeq
  <2> QED BY <1>7, <2>1, LenProperties
<1>9. \A i \in 1..z : t[i] = 0
  <2>1. \A i \in 1..z : a[i] = 0
    BY <1>1
  <2> QED BY <1>7, <2>1, Zenon
<1>10. \A i \in 1..m : t[z + i] = d[(m - i) + 1]
  BY <1>4, <1>7, Zenon
<1>11. IsText(t, z, d, m)
  BY <1>2, <1>8, <1>9, <1>10, Zenon DEF IsText
<1> QED BY <1>1, <1>11, Zenon

\* Its places.
LEMMA TextPlaces ==
    ASSUME NEW z \in Nat, NEW m \in Nat, NEW i \in 1 .. z + m
    PROVE  i \in 1..z \/ \E j \in 1..m : i = z + j
<1>1. PICK j : j = i - z
  OBVIOUS
<1>2. i \in 1..z \/ (j \in 1..m /\ i = z + j)
  BY <1>1
<1> QED BY <1>2, Zenon

\* They are digits of Base58.
LEMMA TextDigits ==
    ASSUME NEW d, IsDigits(d), NEW m, m = Len(d), NEW z, NEW t, IsText(t, z, d, m)
    PROVE  \A i \in DOMAIN t : t[i] \in 0..57
<1>1. /\ z \in Nat /\ m \in Nat
      /\ DOMAIN t = 1 .. z + m
      /\ \A i \in 1..z : t[i] = 0
      /\ \A i \in 1..m : t[z + i] = d[(m - i) + 1]
  BY Zenon DEF IsText
<1>2. ASSUME NEW i \in 1 .. z + m PROVE t[i] \in 0..57
  <2>1. CASE i \in 1..z
    <3>1. t[i] = 0
      BY <1>1, <2>1
    <3> QED BY <3>1
  <2>2. ASSUME NEW j \in 1..m, i = z + j PROVE t[i] \in 0..57
    <3>1. PICK k : k = (m - j) + 1
      OBVIOUS
    <3>2. k \in 1..m
      BY <1>1, <3>1
    <3>3. d[k] \in 0..57
      BY <3>2 DEF IsDigits
    <3> QED BY <1>1, <2>2, <3>1, <3>3, Zenon
  <2>3. i \in 1..z \/ \E j \in 1..m : i = z + j
    BY <1>1, TextPlaces
  <2> QED BY <2>1, <2>2, <2>3, Zenon
<1> QED BY <1>1, <1>2, Zenon

\* Read in base 58 they are the number that the digits weigh.
LEMMA TextValue ==
    ASSUME NEW d, IsDigits(d), NEW w, Weighs(d, w), NEW m, m = Len(d), NEW z, NEW t, IsText(t, z, d, m)
    PROVE  ValueOf(t, 58) = w[1]
<1>1. /\ z \in Nat /\ m \in Nat
      /\ DOMAIN t = 1 .. z + m
      /\ \A i \in 1..z : t[i] = 0
      /\ \A i \in 1..m : t[z + i] = d[(m - i) + 1]
  BY Zenon DEF IsText
<1>2. /\ \A i \in 1 .. m + 1 : w[i] \in Nat
      /\ w[m + 1] = 0
      /\ \A i \in 1..m : w[i] = d[i] + 58 * w[i + 1]
  BY Zenon DEF Weighs
<1>3. PICK k : k = z + m
  OBVIOUS
<1>4. k \in Nat /\ DOMAIN t = 1..k
  BY <1>1, <1>3
<1>5. PICK u : IsValue(u, t, k, 58) /\ ValueOf(t, 58) = u[k]
  BY <1>4, ValueFold
<1>6. u[0] = 0 /\ \A i \in 1..k : u[i] = 58 * u[i - 1] + t[i]
  BY <1>5, Zenon DEF IsValue
<1>7. u[z] = 0
  <2>1. PICK S : S = {j \in 0..z : u[j] = 0}
    OBVIOUS
  <2>2. 0 \in S
    BY <1>1, <1>6, <2>1
  <2>3. ASSUME NEW j \in 1..z, j - 1 \in S PROVE j \in S
    <3>1. u[j - 1] = 0 /\ t[j] = 0 /\ j \in 1..k /\ j \in 0..z
      BY <1>1, <1>3, <2>1, <2>3
    <3>2. u[j] = 58 * 0 + 0
      BY <1>6, <3>1, Zenon
    <3>3. u[j] = 0
      BY ONLY <3>2
    <3> QED BY <2>1, <3>1, <3>3
  <2>4. \A j \in 0..z : j \in S
    BY <1>1, <2>2, <2>3, EveryPass
  <2> QED BY <1>1, <2>1, <2>4
<1>8. PICK S : S = {j \in 0..m : u[z + j] = w[(m - j) + 1]}
  OBVIOUS
<1>9. 0 \in S
  <2>1. z + 0 = z /\ (m - 0) + 1 = m + 1 /\ 0 \in 0..m
    BY <1>1
  <2> QED BY <1>2, <1>7, <1>8, <2>1, Zenon
<1>10. ASSUME NEW j \in 1..m, j - 1 \in S PROVE j \in S
  <2>1. PICK a, b, i, e : a = z + j /\ b = j - 1 /\ i = (m - j) + 1 /\ e = i + 1
    OBVIOUS
  <2>2. /\ a \in 1..k /\ a - 1 = z + b /\ i \in 1..m /\ (m - b) + 1 = e
        /\ e \in 1 .. m + 1 /\ i \in 1 .. m + 1 /\ j \in 0..m
    BY <1>1, <1>3, <2>1
  <2>3. u[z + b] = w[e]
    BY <1>8, <1>10, <2>1, <2>2
  <2>4. t[a] = d[i]
    BY <1>1, <2>1, Zenon
  <2>5. u[a] = 58 * w[e] + d[i]
    BY <1>6, <2>2, <2>3, <2>4, Zenon
  <2>6. w[i] = d[i] + 58 * w[e]
    BY <1>2, <2>1, <2>2, Zenon
  <2>7. PICK x, y : x = d[i] /\ y = w[e]
    OBVIOUS
  <2>8. 58 * y + x = x + 58 * y
    <3>1. x \in 0..57 /\ y \in Nat
      BY <1>2, <2>2, <2>7 DEF IsDigits
    <3> QED BY ONLY <3>1
  <2>9. u[a] = w[i]
    BY <2>5, <2>6, <2>7, <2>8, Zenon
  <2> QED BY <1>8, <2>1, <2>2, <2>9, Zenon
<1>11. \A j \in 0..m : j \in S
  BY <1>1, <1>9, <1>10, EveryPass
<1>12. m \in 0..m /\ (m - m) + 1 = 1
  BY <1>1
<1>13. u[z + m] = w[(m - m) + 1]
  BY <1>8, <1>11, <1>12, Zenon
<1> QED BY <1>3, <1>5, <1>12, <1>13, Zenon

\* The number is 0 when the bytes are, and only then.
ZeroOnly(s, n, x) == x = 0 <=> \A i \in 1..n : s[i] = 0

\* z of the p zeros that n bytes start with come before the last byte.
FrontZeros(n, p, z) == z = IF p = n THEN n - 1 ELSE p

\* They start with as many zeros as the bytes.
LEMMA TextZeros ==
    ASSUME NEW s, NEW n, NEW p, HasZeros(s, n, p), n > 0, NEW x \in Nat,
           ZeroOnly(s, n, x),
           NEW d, Writes(d, x), NEW m, m = Len(d),
           NEW z, FrontZeros(n, p, z), NEW t, IsText(t, z, d, m)
    PROVE  HasZeros(t, z + m, p)
<1>1. /\ n \in Nat /\ p \in 0..n
      /\ \A j \in 1..p : s[j] = 0
      /\ p < n => s[p + 1] # 0
  BY DEF HasZeros
<1>2. /\ z \in Nat /\ m \in Nat
      /\ DOMAIN t = 1 .. z + m
      /\ \A i \in 1..z : t[i] = 0
      /\ \A i \in 1..m : t[z + i] = d[(m - i) + 1]
  BY Zenon DEF IsText
<1>3. m > 0
  BY Zenon DEF Writes
<1>4. CASE p = n
  <2>1. x = 0
    BY <1>1, <1>4 DEF ZeroOnly
  <2>2. m = 1 /\ d[1] = 0
    BY <2>1, TopDigit
  <2>3. z + m = p /\ z + 1 = p
    BY <1>1, <1>2, <1>4, <2>2 DEF FrontZeros
  <2>4. t[z + 1] = 0
    <3>1. 1 \in 1..m /\ (m - 1) + 1 = 1
      BY <2>2
    <3> QED BY <1>2, <2>2, <3>1, Zenon
  <2>5. ASSUME NEW j \in 1..p PROVE t[j] = 0
    <3>1. CASE j \in 1..z
      BY <1>2, <3>1
    <3>2. CASE j = z + 1
      BY <2>4, <3>2
    <3>3. j \in 1..z \/ j = z + 1
      BY <1>1, <1>2, <2>3
    <3> QED BY <3>1, <3>2, <3>3
  <2>6. z + m \in Nat /\ p \in 0 .. z + m /\ ~(p < z + m)
    BY <1>1, <2>3
  <2> QED BY <1>2, <2>5, <2>6, Zenon DEF HasZeros
<1>5. CASE p # n
  <2>1. z = p /\ p < n /\ p + 1 \in 1..n
    BY <1>1, <1>5 DEF FrontZeros
  <2>2. x # 0
    <3>1. PICK k : k = p + 1
      OBVIOUS
    <3>2. k \in 1..n /\ s[k] # 0
      BY <1>1, <2>1, <3>1
    <3> QED BY <3>2 DEF ZeroOnly
  <2>3. d[m] # 0
    BY <2>2, TopDigit
  <2>4. t[z + 1] # 0
    <3>1. 1 \in 1..m /\ (m - 1) + 1 = m
      BY <1>2, <1>3
    <3> QED BY <1>2, <2>3, <3>1, Zenon
  <2>5. z + m \in Nat /\ p \in 0 .. z + m
    BY <1>1, <1>2, <2>1
  <2> QED BY <1>2, <2>1, <2>4, <2>5, Zenon DEF HasZeros
<1> QED BY <1>4, <1>5

\* A byte string that is not empty, and its text.
Encoded(data, digits) ==
    /\ \E n : IsBytes(data, n) /\ n > 0 /\ Len(data) = n /\ IsSeq(data)
    /\ digits = EncodeBase58(data)

Decodes(data, digits) ==
    /\ ValueOf(digits, 58) = ValueOf(data, 256)
    /\ LeadingZeros(digits) = LeadingZeros(data)
    /\ \A i \in DOMAIN digits : digits[i] \in 0..57
    /\ Len(base58Digits(data)) <= DigitsCapacity(data)

\* EncodeBase58 of any bytes.
LEMMA EncodedDecodes ==
    ASSUME NEW data, NEW digits, Encoded(data, digits)
    PROVE  Decodes(data, digits)
<1>1. PICK n : IsBytes(data, n) /\ n > 0 /\ Len(data) = n /\ IsSeq(data)
  BY DEF Encoded
<1>2. n \in Nat /\ DOMAIN data = 1..n
  BY <1>1 DEF IsBytes
<1>3. PICK v : IsValue(v, data, n, 256) /\ ValueOf(data, 256) = v[n]
  BY <1>2, ValueFold
<1>4. PICK d, m, x : d = base58Digits(data) /\ m = Len(d) /\ x = v[n]
  OBVIOUS
<1>5. Writes(d, x) /\ x \in Nat
  <2>1. n \in 0..n
    BY <1>2
  <2> QED BY <1>1, <1>3, <1>4, <2>1, BytesAreWritten
<1>6. IsDigits(d)
  BY <1>5 DEF Writes
<1>7. PICK w : Weighs(d, w) /\ w[1] = x
  BY <1>5, Zenon DEF Writes
<1>8. PICK p : HasZeros(data, n, p)
  BY <1>2, ZerosExist
<1>9. PICK z : z = IF p = n THEN n - 1 ELSE p
  OBVIOUS
<1>10. LeadingZeros(Front(data)) = z /\ z \in Nat
  <2>1. HasZeros(Front(data), n - 1, z)
    BY <1>1, <1>8, <1>9, ZerosOfFront
  <2>2. LeadingZeros(Front(data)) = z
    BY <2>1, ZerosCounted
  <2>3. p \in 0..n
    BY <1>8 DEF HasZeros
  <2>4. z \in Nat
    BY <1>1, <1>2, <1>9, <2>3
  <2> QED BY <2>2, <2>4
<1>11. IsText(digits, z, d, m)
  <2>1. IsText([i \in 1..z |-> 0] \o Reverse(d), z, d, m)
    BY <1>4, <1>6, <1>10, TextIs
  <2>2. digits = [i \in 1..z |-> 0] \o Reverse(d)
    BY <1>4, <1>10, Zenon DEF Encoded, EncodeBase58
  <2> QED BY <2>1, <2>2, Zenon
<1>12. ValueOf(digits, 58) = ValueOf(data, 256)
  <2>1. ValueOf(digits, 58) = w[1]
    BY <1>4, <1>6, <1>7, <1>11, TextValue
  <2>2. w[1] = v[n]
    BY <1>4, <1>7
  <2> QED BY <1>3, <2>1, <2>2
<1>13. LeadingZeros(digits) = LeadingZeros(data)
  <2>1. ZeroOnly(data, n, x)
    BY <1>1, <1>3, <1>4, ZeroValue DEF ZeroOnly
  <2>2. HasZeros(digits, z + m, p)
    <3>1. FrontZeros(n, p, z)
      BY <1>9 DEF FrontZeros
    <3> QED BY <1>1, <1>4, <1>5, <1>8, <1>11, <2>1, <3>1, TextZeros
  <2>3. LeadingZeros(digits) = p
    BY <2>2, ZerosCounted
  <2>4. LeadingZeros(data) = p
    BY <1>8, ZerosCounted
  <2> QED BY <2>3, <2>4, Zenon
<1>14. \A i \in DOMAIN digits : digits[i] \in 0..57
  BY <1>4, <1>6, <1>11, TextDigits
<1>15. Len(base58Digits(data)) <= DigitsCapacity(data)
  <2>1. Writes(d, v[n])
    BY <1>4, <1>5, Zenon
  <2>2. Len(d) <= (n * 138) \div 100 + 1
    BY <1>1, <1>3, <2>1, DigitsFit
  <2> QED BY <1>1, <1>4, <2>2, Zenon DEF DigitsCapacity
<1> QED BY <1>12, <1>13, <1>14, <1>15, Zenon DEF Decodes

\* A sequence of bytes.
LEMMA BytesOfSeq ==
    ASSUME NEW data, data \in Seq(0..255), data # <<>>
    PROVE  Encoded(data, EncodeBase58(data))
<1>1. PICK n : n = Len(data)
  OBVIOUS
<1>2. n \in Nat /\ DOMAIN data = 1..n /\ data = [i \in 1..n |-> data[i]]
  BY <1>1, LenProperties
<1>3. n > 0
  BY <1>1, <1>2
<1>4. \A i \in 1..n : data[i] \in 0..255
  BY <1>1, <1>2
<1>5. IsSeq(data)
  BY <1>2, FunctionIsSeq
<1>6. IsBytes(data, n)
  BY <1>2, <1>4 DEF IsBytes
<1> QED BY <1>1, <1>3, <1>5, <1>6, Zenon DEF Encoded

\* The text of the byte 1, that Init starts with.
LEMMA FirstText == Decodes(<<1>>, <<1>>)
<1>1. PICK s : s = <<1>>
  OBVIOUS
<1>2. s \in Seq(0..255) /\ s # <<>> /\ Len(s) = 1 /\ s[1] = 1 /\ DOMAIN s = 1..1
  BY <1>1
<1>3. Encoded(s, EncodeBase58(s))
  BY <1>2, BytesOfSeq
<1>4. Decodes(s, EncodeBase58(s))
  BY <1>3, EncodedDecodes
<1>5. ASSUME NEW base \in Nat PROVE ValueOf(s, base) = 1
  <2>1. PICK v : IsValue(v, s, 1, base) /\ ValueOf(s, base) = v[1]
    <3>1. PICK n : n = 1
      OBVIOUS
    <3>2. n \in Nat /\ DOMAIN s = 1..n
      BY <1>2, <3>1
    <3>3. \E v : IsValue(v, s, n, base) /\ ValueOf(s, base) = v[n]
      BY <3>2, ValueFold
    <3> QED BY <3>1, <3>3, Zenon
  <2>2. v[0] = 0 /\ v[1] = base * v[1 - 1] + s[1]
    <3>1. 1 \in 1..1
      OBVIOUS
    <3> QED BY <2>1, <3>1, Zenon DEF IsValue
  <2>3. 1 - 1 = 0 /\ base * 0 + 1 = 1
    BY <1>5
  <2> QED BY <1>2, <2>1, <2>2, <2>3, Zenon
<1>6. ValueOf(s, 58) = ValueOf(s, 256)
  <2>1. PICK a, b : a = 58 /\ b = 256
    OBVIOUS
  <2>2. ValueOf(s, a) = 1 /\ ValueOf(s, b) = 1
    BY <1>5, <2>1
  <2> QED BY <2>1, <2>2
<1>7. \A i \in DOMAIN s : s[i] \in 0..57
  BY <1>2
<1> QED BY <1>1, <1>4, <1>6, <1>7, Zenon DEF Decodes

\* The last text decodes.
TextInv == Decodes(text.data, text.digits)

\* Every step keeps it.
LEMMA TextStep ==
    ASSUME TextInv, [Next]_vars
    PROVE  TextInv'
<1>1. CASE UNCHANGED text
  BY <1>1 DEF TextInv
<1>2. CASE Derive
  BY <1>1, <1>2 DEF Derive
<1>3. CASE \E r \in Requests : generateWallet(r)
  BY <1>1, <1>3 DEF generateWallet
<1>4. CASE \E w \in results, i \in Indexes : generateAddress(w, i)
  BY <1>1, <1>4 DEF generateAddress
<1>5. CASE \E w \in results, password \in {r.password : r \in Requests} : Restore(w, password)
  BY <1>1, <1>5 DEF Restore
<1>6. CASE \E s \in Starts, phrase \in Phrases : StartNode(phrase, s)
  BY <1>1, <1>6 DEF StartNode
<1>7. CASE \E key \in 1 .. N - 1, z \in Digests : ecdsa_sign_message(key, z)
  BY <1>1, <1>7 DEF ecdsa_sign_message
<1>8. CASE Verifies
  BY <1>1, <1>8 DEF Verifies, ecdsa_verify_signature
<1>9. ASSUME NEW data \in Datas, Encode(data) PROVE TextInv'
  <2>1. text' = [data |-> data, digits |-> EncodeBase58(data)]
    BY <1>9 DEF Encode
  <2>2. data \in Seq(0..255) /\ data # <<>>
    BY DatasAssumption
  <2>3. Decodes(data, EncodeBase58(data))
    BY <2>2, BytesOfSeq, EncodedDecodes
  <2>4. text'.data = data /\ text'.digits = EncodeBase58(data)
    BY <2>1
  <2> QED BY <2>3, <2>4, Zenon DEF TextInv
<1>10. CASE UNCHANGED vars
  BY <1>1, <1>10 DEF vars
<1> QED BY <1>2, <1>3, <1>4, <1>5, <1>6, <1>7, <1>8, <1>9, <1>10, Zenon DEF Next, Verifies

-----------------------------------------------------------------------------
(* The theorems *)

\* The invariant of the derivations.
THEOREM KeysInvariant == Spec => []KeysInv
<1>1. Init => KeysInv
  BY KeysInit
<1>2. KeysInv /\ [Next]_vars => KeysInv'
  BY KeysStep
<1> QED BY <1>1, <1>2, PTL DEF Spec

\* For a group of any prime order and any answers of HMAC-SHA512, a wallet that is
\* returned has the keys BIP32 and BIP44 give for its phrase, password and path, and
\* the extended public key of its address, exactly when its master key is below the
\* order, its password is in its NFKD form, and neither its seed nor the
\* x-coordinate of the account's, the change node's or the address's key begins with
\* a zero byte (BIP32.hpp 121, 238, 313; BIP39.hpp 2270, 2278).
THEOREM WalletKeysAreStandard == Spec => []KeysAreStandard
<1>1. KeysInv => KeysAreStandard
  BY InvKeys
<1> QED BY <1>1, KeysInvariant, PTL

\* Two results have the same keys exactly when they come of the same phrase and
\* password, clock or spelled bytes and have the same path (UnitInitiator.h 144;
\* BIP39.hpp 2127): nothing else of a request reaches the keys, and no two origins
\* are confused on the way, provided that HMAC and PBKDF2 do not collide.
THEOREM KeysTellTheirOrigin == Spec => []SameKeysSameOrigin
<1>1. KeysInv => SameKeysSameOrigin
  BY InvOrigin
<1> QED BY <1>1, KeysInvariant, PTL

\* For a group of any prime order and any integers r and s: ecdsa_verify_signature,
\* which recovers the keys of the points with x-coordinate r and compares addresses,
\* takes a signature only if ECDSA takes it for the key of the address or it is
\* Loose, numbers out of range or OpenSSL's errors being let through
\* (ecdsa.hpp 114-141); and it takes all of these but for keys whose digests begin
\* with a zero byte (ecdsa.hpp 106, addresses.hpp 47) and points whose x-coordinate
\* is N or more.
THEOREM VerdictsAreStandard == Spec => []VerdictIsStandard
<1>1. Init => SigInv /\ VerdictIsStandard
  <2>1. NoSig.r = 0 /\ NoSig.s = 0
    BY DEF NoSig
  <2>2. ASSUME Init PROVE sig = NoSig /\ verdict = NoVerdict
    BY <2>2 DEF Init
  <2> QED BY <2>1, <2>2 DEF SigInv, VerdictIsStandard
<1>2. SigInv /\ VerdictIsStandard /\ [Next]_vars => SigInv' /\ VerdictIsStandard'
  BY VerdictStep
<1> QED BY <1>1, <1>2, PTL DEF Spec

\* Any request for 12 or 24 words, any entropy and any SHA256 starting with a byte:
\* every phrase a wallet is returned with carries the drawn entropy bit by bit and
\* then the first ENT / 32 bits of its SHA256 (BIP39.hpp 2123, 2198).
THEOREM PhrasesAreStandard == Spec => []PhraseIsStandard
<1>1. Init => PhraseInv
  BY NoJobBy DEF Init, PhraseInv
<1>2. PhraseInv /\ KeysInv /\ [Next]_vars => PhraseInv'
  BY PhraseStep
<1>3. PhraseInv => PhraseIsStandard
  BY MnemonicIsStandard, Zenon DEF PhraseInv, Made, PhraseIsStandard, Wallets, Finished
<1> QED BY <1>1, <1>2, <1>3, KeysInvariant, PTL DEF Spec

\* Any byte strings: the text EncodeBase58 makes is read back, in base 58, as the
\* number its bytes are, with the same leading zeros; every character is one of the
\* alphabet's, and the digits fit into the vector of size * 138 / 100 + 1 places
\* (base58.hpp).
THEOREM Base58TextsDecode == Spec => []Base58Decodes
<1>1. Init => TextInv
  <2>1. ASSUME Init PROVE text.data = <<1>> /\ text.digits = <<1>>
    BY <2>1 DEF Init
  <2> QED BY <2>1, FirstText, Zenon DEF TextInv
<1>2. TextInv /\ [Next]_vars => TextInv'
  BY TextStep
<1>3. TextInv => Base58Decodes
  BY Zenon DEF TextInv, Decodes, Base58Decodes
<1> QED BY <1>1, <1>2, <1>3, PTL DEF Spec
=============================================================================
