----------------------------- MODULE WalletKeys -----------------------------
(***************************************************************************)
(* Keys, wallets and signatures (libdevcore/bip44) and the keys a node     *)
(* starts with (UnitInitiator::init): BIP39 mnemonics and seeds, the BIP32 *)
(* derivation of BIP44's path m/44'/992'/account'/change/index, addresses, *)
(* ECDSA signing, and verification by recovering the signer's key.         *)
(*                                                                         *)
(* The curve is a group of prime order N over a field of Field elements: a *)
(* point is its discrete logarithm, 0 the point at infinity, and only p    *)
(* and N - p share an x-coordinate.  Hash functions are ideal: HMAC-SHA512 *)
(* answers a new question with any left half of Lefts and a right half     *)
(* that tells the whole question, and the same question always in the same *)
(* way; SHA256 and PBKDF2 tell their inputs.  What BN_bn2hex and BN_bn2bin *)
(* do to a number with a leading zero byte is kept: it is written shorter. *)
(***************************************************************************)
EXTENDS KeyEncodings, TLC

CONSTANTS
    N,           \* the order of the group (NMODULO), a prime
    Field,       \* the number of field elements, more than N
    Coordinate,  \* the x-coordinates of the points 1, 2, ... N \div 2
    Lefts(_),    \* left halves of the HMAC at a depth, as numbers; some N or more
    Hardened,    \* HARDENED_VALUE
    ShortX,      \* x-coordinates whose first byte is zero
    ShortSeeds,  \* entropies whose PBKDF2 seed begins with a zero byte
    ShortSha,    \* public keys whose SHA256 begins with a zero byte
    ShortRound,  \* <<key, tail>> whose second SHA256 does
    Tails,       \* what may lie in the uninitialised last bytes
    ShaTop(_),   \* the first byte of SHA256 of the entropy's bytes
    Digests,     \* message digests, as numbers
    Forged,      \* <<r, s>> nobody signed, any integers
    Nfkd(_),     \* the NFKD form of a password
    Requests,    \* calls of generateWallet: len, ones (or {-1}: RAND failed),
                 \*   account, change, password
    Indexes,     \* address_index of generateAddress
    Starts,      \* starts of a node: passphrase, walletIndex
    Datas,       \* byte strings for EncodeBase58
    MaxCalls     \* bound: calls

ASSUME GroupAssumption == N \in Nat /\ N > 2 /\ \A d \in 2 .. N - 1 : N % d # 0

ASSUME CurveAssumption ==
    /\ Field \in Nat /\ Field > N
    /\ Coordinate \in [1 .. N \div 2 -> 0 .. Field - 1]
    /\ IsInjective(Coordinate)

ASSUME TailsAssumption == Tails \subseteq 0..255

ASSUME ForgedAssumption == Forged \subseteq Int \X Int

ASSUME HardenedAssumption == Hardened \in Nat /\ Hardened > 65536

ASSUME AnswersAssumption == \A depth \in 0..5 : Lefts(depth) \subseteq Nat

ASSUME RequestsAssumption ==    \* uint16_t, int
    /\ \A r \in Requests : r.account \in Nat /\ r.account < 65536
    /\ \A i \in Indexes : i \in Nat /\ i < 65536
    /\ \A s \in Starts : s.passphrase \in Seq(0..NotHex) /\ s.walletIndex \in Int
    /\ MaxCalls \in Nat

ASSUME DigestsAssumption == Digests \subseteq Nat

\* EncodeBase58 is given addresses and extended keys, which have bytes.
ASSUME DatasAssumption == \A data \in Datas : data \in Seq(0..255) /\ data # <<>>

VARIABLES
    hmac,     \* the questions HMAC-SHA512 was asked, and its left halves
    job,      \* the derivation in progress
    results,  \* every BIP44Result returned
    sig,      \* the last signature
    verdict,  \* the last verification
    text,     \* the last Base58 text
    calls     \* history: calls made
vars == <<hmac, job, results, sig, verdict, text, calls>>

Points == 0 .. N - 1
X(p) == Coordinate[IF 2 * p < N THEN p ELSE N - p]
Odd(p) == IF 2 * p < N THEN 0 ELSE 1
ModInverse(a) == CHOOSE b \in Points : (a * b) % N = 1

-----------------------------------------------------------------------------
(* BIP39.  ones is the set of positions of the entropy's 1 bits. *)
RandFailed == {-1}
PhraseBits(len) == IF len = 12 THEN 128 ELSE 256

EntropyBits(n, ones) == [i \in 0 .. n - 1 |-> IF i \in ones THEN 1 ELSE 0]

generateMnemonic(len, ones) ==
    LET n    == PhraseBits(len)
        bits == EntropyBits(n, ones)
    IN  bitsToWords(WithChecksum(bits, n, ShaTop(SplitBitsForSha(bits, n))), len)

\* RAND_priv_bytes fails or fills the entropy, and SHA256 starts with a byte.
ASSUME EntropyAssumption ==
    \A r \in Requests : r.len \in {12, 24} /\ r.ones # RandFailed =>
        LET n == PhraseBits(r.len)
        IN  /\ r.ones \subseteq 0 .. n - 1
            /\ ShaTop(SplitBitsForSha(EntropyBits(n, r.ones), n)) \in 0..255

(* A seed, a question to HMAC and a chain code are made of items. *)
Item(tag, nums) == [tag |-> tag, nums |-> nums]
Pbkdf2(tag, phrase, password) == [tag |-> tag, phrase |-> phrase, password |-> password]

(* phraseToSeed: the bytes of the password go in as they are, and the 64    *)
(* bytes that come out through BN_bn2hex.  Should strcpy's byte behind slt  *)
(* (line 2272) stop the process, the behaviour ends with this call.         *)
phraseToSeed(phrase, password) ==
    Pbkdf2(IF <<phrase, password>> \in ShortSeeds THEN "pbkdf2, short" ELSE "pbkdf2",
           phrase, password)

EmptySeed == Item("bytes", <<>>)

(* BIP39Result(phrase, seed), and ("","") when RAND_priv_bytes fails. *)
BIP39Result(r) ==
    IF r.ones = RandFailed
    THEN [phrase |-> <<>>, seed |-> EmptySeed]
    ELSE LET phrase == generateMnemonic(r.len, r.ones)
         IN  [phrase |-> phrase, seed |-> phraseToSeed(phrase, r.password)]

-----------------------------------------------------------------------------
(* BIP32.  A chain code is the question whose right half it is. *)
(* xpub is the key in the extended public key (xpub_base58); all else there *)
(* and in the extended private key is in the other fields.                  *)
Node(depth, index, prv, pub, chain, fingerprint, xpub) ==
    [depth |-> depth, index |-> index, prv |-> prv, pub |-> pub, chain |-> chain,
     fingerprint |-> fingerprint, xpub |-> xpub]
NoNode == Node(-1, 0, 0, 0, <<>>, 0, <<>>)

(* get_pub_from_seed_secp256k1 fails for the point at infinity only. *)
PubOf(prv) == prv % N

(* first_byte + point_x, which BN_bn2hex writes without leading zero bytes. *)
XText(p) == IF X(p) \in ShortX THEN <<Odd(p), X(p), 31>> ELSE <<Odd(p), X(p), 32>>

MasterQuestion(seed) == <<seed>>

gen_master(question, left) ==
    IF PubOf(left) = 0 THEN NoNode
    ELSE Node(0, 0, left, PubOf(left), question, 0, XText(PubOf(left)))

\* Mutant: account 0 is not hardened.
ChildQuestionOffByOne(parent, index) ==
    Append(parent.chain,
           IF index > Hardened
           THEN Item("prv", <<parent.prv, index>>)
           ELSE Item("pub", XText(PubOf(parent.prv)) \o <<index>>))

ChildQuestion(parent, index) ==
    Append(parent.chain,
           IF index >= Hardened
           THEN Item("prv", <<parent.prv, index>>)
           ELSE Item("pub", XText(PubOf(parent.prv)) \o <<index>>))

gen_child_from_xprv(parent, index, question, left) ==
    LET child == (parent.prv + left) % N
    IN  IF left >= N \/ left = 0 \/ PubOf(child) = 0 THEN NoNode
        ELSE Node(parent.depth + 1, index, child, PubOf(child), question, parent.pub,
                  XText(PubOf(child)))

-----------------------------------------------------------------------------
(* pub2addr: BN_bn2bin leaves the end of r2_bytes and r3_bytes as it was.   *)
TailOf(short) == IF short THEN Tails ELSE {0}

(* The point at infinity is "00", and BN_bn2bin writes nothing of that: an  *)
(* uninitialised byte is hashed, which gives N or more here.                *)
Hashed(pub) == IF pub = 0 THEN {N + b : b \in {0} \cup Tails} ELSE {pub}

pub2addr(pub) ==
    {a \in [hash : Hashed(pub), check : ({0} \cup Tails) \X ({0} \cup Tails)] :
       /\ a.check[1] \in TailOf(a.hash \in ShortSha)
       /\ a.check[2] \in TailOf(<<a.hash, a.check[1]>> \in ShortRound)}

NoAddress == [hash |-> -1, check |-> <<0, 0>>]

(* BIP44.  by and made say, for the properties, who called and what the     *)
(* keys should be made of.                                                  *)
Errors == <<"BAD MASTER", "BAD PUPROSE", "BAD COINTYPE", "BAD ACCOUNT",
            "BAD CHANGE NODE", "BAD ADDRESS">>

Path(account, change, index) ==
    <<Hardened + 44, Hardened + 992, Hardened + account, change, index>>

NoJob == [by |-> "none", made |-> EmptySeed, mnemonic |-> [phrase |-> <<>>, seed |-> EmptySeed],
          path |-> <<>>, line |-> <<>>]

Result(j, error, address) ==
    [by |-> j.by, made |-> j.made, mnemonic |-> j.mnemonic, path |-> j.path,
     line |-> j.line, error |-> error, address |-> address]

Idle == job = NoJob
Begin(by, made, mnemonic, path) ==
    job' = [by |-> by, made |-> made, mnemonic |-> mnemonic, path |-> path, line |-> <<>>]
Called == Idle /\ calls < MaxCalls /\ calls' = calls + 1

generateWallet(r) ==
    /\ Called
    /\ UNCHANGED <<hmac, sig, verdict, text>>
    /\ LET bad == IF r.len \notin {12, 24} THEN "BAD PHRASE"
                  ELSE IF r.change \notin {0, 1} THEN "BAD CHANGE" ELSE ""
           mnemonic == BIP39Result(r)
       IN  \/ /\ bad # ""
              /\ results' = results \cup {Result(NoJob, bad, NoAddress)}
              /\ UNCHANGED job
           \/ /\ bad = ""
              /\ Begin("wallet",
                       IF r.ones = RandFailed THEN EmptySeed
                       ELSE Pbkdf2("pbkdf2", mnemonic.phrase, r.password),
                       mnemonic, Path(r.account, r.change, 0))
              /\ UNCHANGED results

(* generateAddress for a mnemonic a wallet was returned with. *)
generateAddress(w, index) ==
    /\ Called
    /\ w.by = "wallet" /\ w.error = ""
    /\ Begin("wallet", w.made, w.mnemonic, Path(w.path[3] - Hardened, w.path[4], index))
    /\ UNCHANGED <<hmac, results, sig, verdict, text>>

(* generateAddress for a phrase that was written down. *)
Restore(w, password) ==
    /\ Called
    /\ w.by = "wallet" /\ w.error = ""
    /\ Begin("wallet", Pbkdf2("pbkdf2", w.mnemonic.phrase, password),
             [phrase |-> w.mnemonic.phrase, seed |-> phraseToSeed(w.mnemonic.phrase, password)],
             Path(w.path[3] - Hardened, w.path[4], w.path[5]))
    /\ UNCHANGED <<hmac, results, sig, verdict, text>>

(* UnitInitiator::init: a missing mnemonic is refused; the passphrase, or   *)
(* the time, is taken for the seed; stoi's int becomes a uint16_t.          *)
StartNode(phrase, s) ==
    /\ Called
    /\ phrase # <<>>
    /\ LET seed == IF s.passphrase = <<>> THEN Item("clock", <<calls>>)
                   ELSE Item("bytes", HexBytes(s.passphrase))
       IN  Begin("node", IF s.passphrase = <<>> THEN seed ELSE Item("passphrase", s.passphrase),
                 [phrase |-> phrase, seed |-> seed], Path(0, 0, s.walletIndex % 65536))
    /\ UNCHANGED <<hmac, results, sig, verdict, text>>

(* The next node of the path; after the last one the address. *)
Derive ==
    /\ ~Idle
    /\ LET depth    == Len(job.line)
           question == IF depth = 0 THEN MasterQuestion(job.mnemonic.seed)
                       ELSE ChildQuestion(Last(job.line), job.path[depth])
           answers  == IF question \in DOMAIN hmac THEN {hmac[question]} ELSE Lefts(depth)
       IN  \E left \in answers :
             LET node == IF depth = 0 THEN gen_master(question, left)
                         ELSE gen_child_from_xprv(Last(job.line), job.path[depth], question, left)
                 next == [job EXCEPT !.line = Append(@, node)]
             IN  /\ hmac' = [q \in DOMAIN hmac \cup {question} |->
                              IF q = question THEN left ELSE hmac[q]]
                 /\ \/ /\ node = NoNode
                       /\ results' = results \cup {Result(job, Errors[depth + 1], NoAddress)}
                       /\ job' = NoJob
                    \/ /\ node # NoNode /\ depth < 5
                       /\ job' = next
                       /\ UNCHANGED results
                    \/ /\ node # NoNode /\ depth = 5
                       /\ \E a \in pub2addr(node.pub) :
                            results' = results \cup {Result(next, "", a)}
                       /\ job' = NoJob
    /\ UNCHANGED <<sig, verdict, text, calls>>

-----------------------------------------------------------------------------
NoSig == [key |-> 0, digest |-> 0, r |-> 0, s |-> 0]
NoVerdict == [r |-> 0, s |-> 0, digest |-> 0, address |-> NoAddress, ok |-> FALSE]

(* ecdsa_sign_message: ECDSA_sign draws nonces k until r and s are not 0.   *)
(* When OpenSSL fails there is no signature: three empty texts are          *)
(* returned, or substr throws.                                              *)
ecdsa_sign_message(key, digest) ==
    /\ Called
    /\ \/ \E k \in 1 .. N - 1 :
            LET r == X(k) % N
                s == (ModInverse(k) * (digest + r * key)) % N
            IN  /\ r # 0 /\ s # 0
                /\ sig' = [key |-> key, digest |-> digest, r |-> r, s |-> s]
       \/ sig' = NoSig
    /\ verdict' = NoVerdict
    /\ UNCHANGED <<hmac, job, results, text>>

(* EC_POINT_set_compressed_coordinates reduces r; when no point has that    *)
(* x-coordinate both points stay at infinity, and is_on_curve is content.   *)
PointsAt(r) ==
    LET at == {p \in 1 .. N - 1 : X(p) = r % Field} IN IF at = {} THEN {0} ELSE at

(* BN_mod_inverse leaves 0 for a number that has none. *)
Inverted(r) == IF r % N = 0 THEN 0 ELSE ModInverse(r % N)

\* Mutant: z is not negated.
RecoveredNotNegated(R, r, s, z) == (Inverted(r) * (s * R + z)) % N

(* The key Q with s R = z G + r Q. *)
Recovered(R, r, s, z) == (Inverted(r) * (s * R + (N - (z % N)))) % N

(* r and s are numbers of any size, which the code does not look at. *)
ecdsa_verify_signature(r, s, digest, address) ==
    /\ Called
    /\ \E of \in [PointsAt(r) -> UNION {pub2addr(Recovered(R, r, s, digest)) : R \in PointsAt(r)}] :
          /\ \A R \in PointsAt(r) : of[R] \in pub2addr(Recovered(R, r, s, digest))
          /\ verdict' = [r |-> r, s |-> s, digest |-> digest, address |-> address,
                         ok |-> \E R \in PointsAt(r) : address = of[R]]
    /\ UNCHANGED <<hmac, job, results, sig, text>>

Encode(data) ==
    /\ Called
    /\ text' = [data |-> data, digits |-> EncodeBase58(data)]
    /\ UNCHANGED <<hmac, job, results, sig, verdict>>

Init ==
    /\ hmac = [q \in {} |-> 0]
    /\ job = NoJob
    /\ results = {}
    /\ sig = NoSig
    /\ verdict = NoVerdict
    /\ text = [data |-> <<1>>, digits |-> <<1>>]
    /\ calls = 0

(* The phrases an operator has: some phrase, or a wallet's. *)
Phrases == {[i \in 1..12 |-> i]} \cup {w.mnemonic.phrase : w \in results}

Next ==
    \/ Derive
    \/ \E r \in Requests : generateWallet(r)
    \/ \E w \in results, i \in Indexes : generateAddress(w, i)
    \/ \E w \in results, password \in {r.password : r \in Requests} : Restore(w, password)
    \/ \E s \in Starts, phrase \in Phrases : StartNode(phrase, s)
    \/ \E key \in 1 .. N - 1, z \in Digests : ecdsa_sign_message(key, z)
    \/ \E rs \in Forged \cup {<<sig.r, sig.s>>}, z \in Digests, p \in Points :
          \E a \in pub2addr(p) : ecdsa_verify_signature(rs[1], rs[2], z, a)
    \/ \E data \in Datas : Encode(data)

Spec == Init /\ [][Next]_vars

-----------------------------------------------------------------------------
Finished == {w \in results : w.error = ""}
Wallets == {w \in Finished : w.by = "wallet"}

(* What BIP39 says: bit k of a phrase, the entropy it starts with, and its  *)
(* first bits of SHA256 behind it.                                          *)
BitOf(phrase, k) == (phrase[k \div 11 + 1] \div 2 ^ (10 - (k % 11))) % 2
EntropyBytes(phrase) ==
    [j \in 1 .. PhraseBits(Len(phrase)) \div 8 |->
       FoldLeft(LAMBDA v, k : 2 * v + BitOf(phrase, 8 * (j - 1) + k), 0,
                <<0, 1, 2, 3, 4, 5, 6, 7>>)]

StandardPhrase(phrase) ==
    LET n    == PhraseBits(Len(phrase))
        ones == {k \in 0 .. n - 1 : BitOf(phrase, k) = 1}
        top  == ShaTop(EntropyBytes(phrase))
    IN  /\ ToSet(phrase) \subseteq words
        /\ ones \in {r.ones : r \in Requests}
        /\ \A k \in 0 .. n \div 32 - 1 :
              BitOf(phrase, n + k) = (top \div 2 ^ (7 - k)) % 2

(* Every phrase a wallet is returned with is a valid BIP39 phrase: its      *)
(* words carry the drawn entropy bit by bit and then the first ENT / 32     *)
(* bits of its SHA256, for 12 and for 24 words (BIP39.hpp 2123, 2198); so   *)
(* that another program accepts it.                                         *)
PhraseIsStandard ==
    \A w \in Wallets : w.mnemonic.phrase # <<>> => StandardPhrase(w.mnemonic.phrase)

StandardText(p) == <<Odd(p), X(p), 32>>

(* The chain code BIP32 prescribes, given the keys on the way; BIP39's seed *)
(* is made of the password in its NFKD form.                                *)
StandardChain(w) ==
    <<[w.made EXCEPT !.password = Nfkd(@)]>> \o [d \in 1..5 |->
        LET p == w.line[d]
        IN  IF w.path[d] >= Hardened
            THEN Item("prv", <<p.prv, w.path[d]>>)
            ELSE Item("pub", StandardText(p.pub) \o <<w.path[d]>>)]

StandardKeys(w) ==
    \A d \in 1..6 :
        /\ w.line[d].prv \in 1 .. N - 1
        /\ w.line[d].pub = w.line[d].prv
        /\ w.line[d].depth = d - 1
        /\ d > 1 => /\ w.line[d].index = w.path[d - 1]
                    /\ w.line[d].fingerprint = w.line[d - 1].pub
                    /\ w.line[d].prv = (w.line[d - 1].prv + hmac[w.line[d].chain]) % N

(* A wallet that is returned has the keys BIP32 and BIP44 give for its      *)
(* phrase, password and path, and the extended public key of its address,   *)
(* exactly when none of these is met, which the code does not handle: a     *)
(* master key that is not below N (BIP32.hpp 121); a password that is not   *)
(* in its NFKD form (BIP39.hpp 2270); and, since BN_bn2hex drops a leading  *)
(* zero byte, one in the seed (BIP39.hpp 2278), in the x-coordinate of the  *)
(* account's or the change node's key (BIP32.hpp 238), or in that of the    *)
(* address's own key (BIP32.hpp 313).                                       *)
KeysAreStandard ==
    \A w \in Wallets : w.mnemonic.phrase # <<>> =>
        (/\ StandardKeys(w)
         /\ w.line[6].chain = StandardChain(w)
         /\ w.line[6].xpub = StandardText(w.line[6].pub))
            <=> (/\ w.line[1].prv < N
                 /\ Nfkd(w.made.password) = w.made.password
                 /\ w.mnemonic.seed.tag # "pbkdf2, short"
                 /\ {X(w.line[d].pub) : d \in {4, 5, 6}} \cap ShortX = {})

(* What the keys of a result are made of: for a node the bytes its          *)
(* passphrase spells in hexadecimal, anything else counting as 0.           *)
Spelled(c) == IF c = NotHex THEN 0 ELSE c
Origin(w) ==
    IF w.made.tag # "passphrase" THEN w.made
    ELSE LET p == w.made.nums
         IN  Item("bytes", [i \in 1 .. Len(p) \div 2 |->
                              16 * Spelled(p[2 * i - 1]) + Spelled(p[2 * i])])

(* Two results have the same keys exactly when they are made of the same    *)
(* and have the same path: a phrase and password restore their wallet and   *)
(* no other, a node's keys survive a restart unless its passphrase is       *)
(* empty, when the clock is the seed (UnitInitiator.h 144), and every       *)
(* wallet made while RAND_priv_bytes fails is the same one, which its       *)
(* (empty) phrase does not restore (BIP39.hpp 2127).                        *)
SameKeysSameOrigin ==
    \A v, w \in Finished :
        v.line = w.line <=> Origin(v) = Origin(w) /\ v.path = w.path

(* ECDSA's own verification for the key q. *)
StandardPoint(q, z, r, s) == (ModInverse(s) * (z + r * q)) % N
StandardVerify(q, z, r, s) ==
    /\ {q, r, s} \subseteq 1 .. N - 1
    /\ StandardPoint(q, z, r, s) # 0
    /\ X(StandardPoint(q, z, r, s)) % N = r

(* The signatures ecdsa_verify_signature takes although ECDSA refuses them: *)
(* r or s out of 1 .. N - 1, the equation being met by a point with the     *)
(* x-coordinate r; an r that is no point's x-coordinate, the point at       *)
(* infinity meeting the equation; and, for an address that is of no key but *)
(* of the byte hashed for the point at infinity, whatever recovers that.    *)
Unranged(q, z, r, s) ==
    /\ ~({r, s} \subseteq 1 .. N - 1)
    /\ \E R \in 1 .. N - 1 : X(R) = r % Field /\ (s * R) % N = (z + r * q) % N
Pointless(q, z, r, s) ==
    /\ \A R \in 1 .. N - 1 : X(R) # r % Field
    /\ (z + r * q) % N = 0
Loose(q, z, r, s) ==
    \/ q < N /\ r % N # 0 /\ (Unranged(q, z, r, s) \/ Pointless(q, z, r, s))
    \/ q >= N /\ (r % N = 0 \/ \E R \in PointsAt(r) : (s * R) % N = z % N)

(* ecdsa_verify_signature, which recovers candidate keys and compares       *)
(* addresses, takes a signature only if ECDSA takes it for the key of the   *)
(* address or it is Loose: r and s are not tested, nor what OpenSSL answers *)
(* for them (ecdsa.hpp 114-141).  And it takes every such signature, unless *)
(* pub2addr hashes uninitialised bytes for that key (a SHA256 with a        *)
(* leading zero byte, ecdsa.hpp 106, addresses.hpp 47), or r was reduced,   *)
(* the x-coordinate of the signer's point being N or more.                  *)
VerdictIsStandard ==
    LET q      == verdict.address.hash
        r      == verdict.r
        s      == verdict.s
        valid  == StandardVerify(q, verdict.digest, r, s)
        loose  == Loose(q, verdict.digest, r, s)
        plain  == X(StandardPoint(q, verdict.digest, r, s)) < N
        stable == q \notin ShortSha /\ <<q, 0>> \notin ShortRound /\ q < N
    IN  verdict # NoVerdict =>
          /\ verdict.ok => valid \/ loose
          /\ ((valid /\ plain) \/ loose) /\ stable => verdict.ok

(* The number that digits are, the highest one first. *)
ValueOf(s, base) == FoldLeft(LAMBDA v, d : base * v + d, 0, s)

(* EncodeBase58 writes a text that decodes to its bytes, leading zeros      *)
(* included, in digits below 58, and never writes behind its vector of      *)
(* digits (base58.hpp 26).                                                  *)
Base58Decodes ==
    /\ ValueOf(text.digits, 58) = ValueOf(text.data, 256)
    /\ LeadingZeros(text.digits) = LeadingZeros(text.data)
    /\ \A i \in DOMAIN text.digits : text.digits[i] \in 0..57
    /\ Len(base58Digits(text.data)) <= DigitsCapacity(text.data)
=============================================================================
