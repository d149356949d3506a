----------------------------- MODULE HashStream -----------------------------
(***************************************************************************)
(* The hash functions of libdevcore: SHA256_Legacy (bip44/SHA256.cpp), the *)
(* four widths of SHA3 (crypto/SHA3), SHA512 (crypto/SHA512), kec256       *)
(* (crypto/keccak) and the HMAC built on SHA512 (crypto/HMAC_512).         *)
(*                                                                         *)
(* What can go wrong in them without a test noticing is the buffering: a   *)
(* message arrives in pieces, full blocks go straight to the compression   *)
(* function, the rest waits in m_buffer, and the padding is written over   *)
(* what an earlier use left there.  The compression functions themselves   *)
(* are data: the model keeps what they were fed.  A cell of a buffer is a  *)
(* byte: k >= 1 stands for the k-th byte of the message, whatever it is,   *)
(* and -b for the constant byte b, so that a byte that is misplaced, lost, *)
(* repeated or stale is told from the right one.                           *)
(*                                                                         *)
(* One object is modelled, whose kind is chosen at the start.              *)
(***************************************************************************)
EXTENDS Integers, Sequences

CONSTANTS
    Kinds,      \* the classes to explore, members of AllKinds
    Chunks,     \* sizes of the pieces a message arrives in,
    Shorter,    \* and how much shorter than a block others are
    MaxCalls,   \* bound: calls
    MaxBytes,   \* bound: bytes of a message
    Wrap        \* 2^32 in the code: where SHA512's unsigned int counters wrap

SHA3s == {"SHA3-224", "SHA3-256", "SHA3-384", "SHA3-512"}
Streams == {"SHA256"} \cup SHA3s
AllKinds == Streams \cup {"SHA512", "kec256", "HMAC_512"}

ASSUME SizesAssumption ==
    /\ Kinds \subseteq AllKinds
    /\ Chunks \subseteq Nat
    /\ Shorter \subseteq 0..64
    /\ MaxCalls \in Nat
    /\ MaxBytes \in Nat /\ MaxBytes < 16 * 256 * 256 * 256  \* 2^31 bits
    /\ Wrap \in Nat /\ Wrap > 8 * 192  \* an HMAC's outer message is counted

VARIABLES
    kind,    \* the class of the object
    ctx,     \* the members of the object
    total,   \* history: bytes added since the last reset
    calls,   \* history: calls made
    digest,  \* what the last call returned, if it was for a digest
    hmac     \* or for an HMAC
vars == <<kind, ctx, total, calls, digest, hmac>>

(* enum BlockSize, SHA384_512_BLOCK_SIZE, BLOCK_SIZE; 200 - 2 * bits / 8. *)
BlockSize(k) ==
    CASE k = "SHA256"   -> 64
      [] k \in {"SHA512", "HMAC_512"} -> 128
      [] k = "SHA3-224" -> 144
      [] k = "SHA3-384" -> 104
      [] k = "SHA3-512" -> 72
      [] OTHER          -> 136

(* The buffers: BlockSize, MaxBlockSize and two blocks. *)
Capacity(k) ==
    CASE k \in SHA3s  -> 144
      [] k = "SHA512" -> 256
      [] OTHER        -> BlockSize(k)

Junk == -1000    \* what an uninitialised buffer holds

Least(a, b) == IF a < b THEN a ELSE b
Bytes(from, n) == [i \in 1..n |-> from + i]
Zeros(n) == [i \in 1..n |-> 0]
None == [of |-> 0, cells |-> <<>>]

(* The compression functions, as ideal ones: what they make of the state    *)
(* tells the state and the blocks they were given, in order.                *)
processBlockSHA256(hash, blocks) == hash \o blocks
processBlockSHA3(hash, blocks) == hash \o blocks
transform(hash, blocks) == hash \o blocks

Compress(k, hash, blocks) ==
    CASE k = "SHA256" -> processBlockSHA256(hash, blocks)
      [] k \in SHA3s  -> processBlockSHA3(hash, blocks)
      [] OTHER        -> transform(hash, blocks)

Fresh(k) == [absorbed   |-> <<>>,  \* m_hash, m_h: all that was compressed
             numBytes   |-> 0,     \* m_numBytes, m_tot_len
             bufferSize |-> 0,     \* m_bufferSize, m_len
             buffer     |-> [i \in 0..Capacity(k) - 1 |-> Junk]]

-----------------------------------------------------------------------------
(* SHA256_Legacy::add and SHA3::add: top up a buffer that holds something,  *)
(* compress it when full, compress full blocks where they are, keep the     *)
(* rest.                                                                    *)
Add(c, data, k) ==
    LET bs     == BlockSize(k)
        n      == Len(data)
        fill   == IF c.bufferSize > 0 THEN Least(n, bs - c.bufferSize) ELSE 0
        held   == c.bufferSize + fill
        topped == [i \in DOMAIN c.buffer |->
                     IF i \in c.bufferSize .. held - 1
                     THEN data[i - c.bufferSize + 1] ELSE c.buffer[i]]
        full   == held = bs
        left   == (n - fill) % bs
        whole  == n - fill - left
        start  == IF full THEN 0 ELSE held
    IN  [absorbed   |-> Compress(k, c.absorbed,
                          [i \in 1 .. (IF full THEN bs ELSE 0) |-> topped[i - 1]]
                          \o [i \in 1 .. whole |-> data[fill + i]]),
         numBytes   |-> c.numBytes + (IF full THEN bs ELSE 0) + whole,
         bufferSize |-> start + left,
         buffer     |-> [i \in DOMAIN c.buffer |->
                           IF i \in start .. start + left - 1
                           THEN data[fill + whole + 1 + i - start] ELSE topped[i]]]

(* SHA512::update: every piece goes through m_block first, and m_tot_len is *)
(* a 32-bit number.                                                         *)
Update(c, data, k) ==
    LET bs    == BlockSize(k)
        n     == Len(data)
        rem   == Least(n, bs - c.bufferSize)
        block == [i \in DOMAIN c.buffer |->
                    IF i \in c.bufferSize .. c.bufferSize + rem - 1
                    THEN data[i - c.bufferSize + 1] ELSE c.buffer[i]]
        left  == (n - rem) % bs
        whole == n - rem - left
    IN  IF c.bufferSize + n < bs
        THEN [c EXCEPT !.bufferSize = @ + n, !.buffer = block]
        ELSE [absorbed   |-> Compress(k, c.absorbed,
                               [i \in 1..bs |-> block[i - 1]]
                               \o [i \in 1..whole |-> data[rem + i]]),
              numBytes   |-> (c.numBytes + whole + bs) % Wrap,
              bufferSize |-> left,
              buffer     |-> [i \in DOMAIN block |->
                                IF i < left THEN data[rem + whole + 1 + i] ELSE block[i]]]

(* Byte p of a number, counted from its low end.  No message of a model has *)
(* 2^31 bits, so the four high bytes of a length are zero.                  *)
ByteOf(v, p) ==
    CASE p = 0 -> v % 256
      [] p = 1 -> (v \div 256) % 256
      [] p = 2 -> ((v \div 256) \div 256) % 256
      [] p = 3 -> (((v \div 256) \div 256) \div 256) % 256
      [] OTHER -> 0

(* SHA256_Legacy::processBuffer: a 1 bit, zeros up to 448 modulo 512, the   *)
(* length in 64 bits.  m_buffer and extra are seen as one array.            *)
\* Mutant: the bit of the marker is not counted.
PaddedLengthNoMarker(held) ==
    LET bits  == 8 * held
        lower == bits % 512
    IN  (IF lower <= 448 THEN bits + 448 - lower ELSE bits + 512 + 448 - lower) \div 8

PaddedLength(held) ==
    LET bits  == 8 * held + 1
        lower == bits % 512
    IN  (IF lower <= 448 THEN bits + 448 - lower ELSE bits + 512 + 448 - lower) \div 8

PadSHA256(c) ==
    LET at == PaddedLength(c.bufferSize)
    IN  [i \in 1 .. (IF at > 64 THEN 128 ELSE 64) |->
           LET p == i - 1
           IN  IF p < c.bufferSize THEN c.buffer[p]
               ELSE IF p = c.bufferSize THEN -128
               ELSE IF p \in at .. at + 7
                    THEN -ByteOf(8 * (c.numBytes + c.bufferSize), 7 - (p - at))
               ELSE 0]

(* SHA3::processBuffer: 0x06, zeros, and the high bit of the last byte. *)
PadSHA3(c, bs) ==
    [i \in 1..bs |->
       LET p == i - 1
       IN  IF p < c.bufferSize THEN c.buffer[p]
           ELSE IF p = c.bufferSize
                THEN IF p = bs - 1 THEN -134 ELSE -6
                ELSE IF p = bs - 1 THEN -128 ELSE 0]

(* SHA512::final: one block or two, with the low 32 bits of the length. *)
PadSHA512(c) ==
    LET pm == IF 128 - 17 < c.bufferSize THEN 256 ELSE 128
    IN  [i \in 1..pm |->
           LET p == i - 1
           IN  IF p < c.bufferSize THEN c.buffer[p]
               ELSE IF p = c.bufferSize THEN -128
               ELSE IF p >= pm - 4
                    THEN -ByteOf((8 * (c.numBytes + c.bufferSize)) % Wrap, pm - 1 - p)
               ELSE 0]

Pad(k, c) ==
    CASE k = "SHA256" -> PadSHA256(c)
      [] k = "SHA512" -> PadSHA512(c)
      [] OTHER        -> PadSHA3(c, BlockSize(k))

(* The padding is written into the buffer itself. *)
Overwritten(c, padded) ==
    [i \in DOMAIN c.buffer |-> IF i < Len(padded) THEN padded[i + 1] ELSE c.buffer[i]]

(* getHash: the state of the hash is saved, the buffer compressed, and the  *)
(* state restored: a stream may go on after a digest was asked for.         *)
\* Mutant: the state is not restored.
AfterHashKeeps(c, padded) ==
    [c EXCEPT !.absorbed = @ \o padded, !.buffer = Overwritten(c, padded)]

AfterHash(c, padded) == [c EXCEPT !.buffer = Overwritten(c, padded)]

(* SHA512::final keeps nothing back: the object is spent until init. *)
AfterFinal(c, padded) ==
    [c EXCEPT !.absorbed = Compress("SHA512", @, padded), !.buffer = Overwritten(c, padded)]

-----------------------------------------------------------------------------
Init ==
    /\ kind \in Kinds
    /\ ctx = Fresh(kind)
    /\ total = 0
    /\ calls = 0
    /\ digest = None
    /\ hmac = None

(* A call that returns nothing. *)
Silent == digest' = None /\ hmac' = None

(* reset() and SHA512::init(): the buffer keeps its bytes. *)
Reset ==
    /\ kind \in Streams \cup {"SHA512"}
    /\ ctx' = [ctx EXCEPT !.absorbed = <<>>, !.numBytes = 0, !.bufferSize = 0]
    /\ total' = 0
    /\ Silent /\ UNCHANGED kind

Spent == kind = "SHA512" /\ Len(ctx.absorbed) + ctx.bufferSize > total

AddBytes(n) ==
    /\ kind \in Streams
    /\ total + n <= MaxBytes
    /\ ctx' = Add(ctx, Bytes(total, n), kind)
    /\ total' = total + n
    /\ Silent /\ UNCHANGED kind

UpdateBytes(n) ==
    /\ kind = "SHA512" /\ ~Spent
    /\ total + n <= MaxBytes
    /\ ctx' = Update(ctx, Bytes(total, n), kind)
    /\ total' = total + n
    /\ Silent /\ UNCHANGED kind

GetHash ==
    /\ kind \in Streams
    /\ LET padded == Pad(kind, ctx)
       IN  /\ digest' = [of |-> total, cells |-> Compress(kind, ctx.absorbed, padded)]
           /\ ctx' = AfterHash(ctx, padded)
    /\ UNCHANGED <<kind, total>> /\ hmac' = None

Final ==
    /\ kind = "SHA512" /\ ~Spent
    /\ LET padded == Pad(kind, ctx)
       IN  /\ digest' = [of |-> total, cells |-> Compress(kind, ctx.absorbed, padded)]
           /\ ctx' = AfterFinal(ctx, padded)
    /\ UNCHANGED <<kind, total>> /\ hmac' = None

(* kec256::getHash: one call; a byte is xored into the state at blockOff,   *)
(* and the two bits of the padding are xored in, maybe into the same byte.  *)
KecCells(n) ==
    LET bs  == BlockSize("kec256")
        off == n % bs
    IN  [i \in 1 .. n - off + bs |->
           IF i <= n THEN i
           ELSE IF i = n + 1
                THEN IF off = bs - 1 THEN -129 ELSE -1
                ELSE IF i = n - off + bs THEN -128 ELSE 0]

KecGetHash(n) ==
    /\ kind = "kec256"
    /\ n <= MaxBytes
    /\ digest' = [of |-> n, cells |-> KecCells(n)]
    /\ UNCHANGED <<kind, ctx, total>> /\ hmac' = None

(* sha512(), HMAC_512::get_hash: init, one update, final on a new object. *)
OneShot(data) ==
    LET c == Update(Fresh("SHA512"), data, "SHA512")
    IN  Compress("SHA512", c.absorbed, Pad("SHA512", c))

(* HMAC_512::get_hmac.  Byte k of the key xored with 0x36 is the cell       *)
(* 10000 + k, with 0x5c 20000 + k; byte k of the inner digest 30000 + k.    *)
(* A short key is filled with zeros; a long one is cut off at the block.    *)
\* Mutant: only the key's own bytes are xored.
KeyPadUnfilled(size, base, filler) ==
    [i \in 1..BlockSize("SHA512") |-> IF i <= size THEN base + i ELSE 0]

KeyPad(size, base, filler) ==
    [i \in 1..BlockSize("SHA512") |-> IF i <= size THEN base + i ELSE -filler]

GetHmac(size, n) ==
    /\ kind = "HMAC_512"
    /\ n <= MaxBytes
    /\ hmac' = [of    |-> n,
                key   |-> size,
                inner |-> OneShot(KeyPad(size, 10000, 54) \o Bytes(0, n)),
                outer |-> OneShot(KeyPad(size, 20000, 92) \o Bytes(30000, 64))]
    /\ UNCHANGED <<kind, ctx, total>> /\ digest' = None

(* The sizes of a piece: the given ones, and some around the block's. *)
Pieces == Chunks \cup {BlockSize(kind) - d : d \in Shorter}

Call ==
    \/ Reset
    \/ GetHash
    \/ Final
    \/ \E n \in Pieces : AddBytes(n) \/ UpdateBytes(n) \/ KecGetHash(n)
    \/ \E size, n \in Pieces : GetHmac(size, n)

Next == calls < MaxCalls /\ calls' = calls + 1 /\ Call

Spec == Init /\ [][Next]_vars

-----------------------------------------------------------------------------
(* What the standards say is hashed: the message, a marker, zeros, and for  *)
(* the SHA2 family the length in bits, filled up to a whole block.          *)
Filled(data, marker, trailer, bs) ==
    LET used == Len(data) + 1 + Len(trailer)
        gap  == (bs - (used % bs)) % bs
    IN  data \o <<marker>> \o Zeros(gap) \o trailer

BigEndian(v, n) == [i \in 1..n |-> -ByteOf(v, n - i)]

Sponge(data, marker, bs) ==
    IF (Len(data) + 1) % bs = 0
    THEN data \o <<marker - 128>>
    ELSE Filled(data, marker, <<-128>>, bs)

Standard(k, data) ==
    CASE k = "SHA256" -> Filled(data, -128, BigEndian(8 * Len(data), 8), 64)
      [] k = "SHA512" -> Filled(data, -128, BigEndian(8 * Len(data), 16), 128)
      [] k = "kec256" -> Sponge(data, -1, 136)
      [] OTHER        -> Sponge(data, -6, BlockSize(k))

(* However a message is split into add() calls, and whatever digests were   *)
(* asked for on the way, the compression function and the buffer together   *)
(* hold the message: every byte once, in order (SHA256.cpp 250, sha3.cpp    *)
(* 230, SHA512.cpp 101); and between calls the buffer is never full, which  *)
(* processBuffer relies on when it writes behind what is there.             *)
StreamIsMessage ==
    kind \in Streams \cup {"SHA512"} /\ ~Spent =>
        /\ Len(ctx.absorbed) + ctx.bufferSize = total
        /\ ctx.bufferSize < BlockSize(kind)
        /\ \A i \in 1..Len(ctx.absorbed) : ctx.absorbed[i] = i
        /\ \A i \in 0..ctx.bufferSize - 1 :
              ctx.buffer[i] = Len(ctx.absorbed) + i + 1

(* A digest is the standard's digest of the bytes added since the reset,    *)
(* for every length and at every boundary of the padding; with the one      *)
(* exception that SHA512::final keeps the length in 32 bits, so that a      *)
(* message of 2^29 bytes or more has another digest than SHA-512's.         *)
DigestIsStandard ==
    digest # None =>
        (digest.cells = Standard(kind, Bytes(0, digest.of))
            <=> (kind = "SHA512" => 8 * digest.of < Wrap))

(* get_hmac is RFC 2104's HMAC exactly for keys of at most one block: a     *)
(* longer key must be hashed first, and the code uses its first 128 bytes.  *)
HmacKey(size, base, filler) ==
    IF size <= 128
    THEN [i \in 1..128 |-> IF i <= size THEN base + i ELSE -filler]
    ELSE [i \in 1..128 |-> IF i <= 64 THEN base + 40000 + i ELSE -filler]

HmacIsStandard ==
    hmac # None /\ 8 * (hmac.of + 128) < Wrap =>
        (/\ hmac.inner = Standard("SHA512", HmacKey(hmac.key, 10000, 54) \o Bytes(0, hmac.of))
         /\ hmac.outer = Standard("SHA512", HmacKey(hmac.key, 20000, 92) \o Bytes(30000, 64)))
        <=> hmac.key <= 128
=============================================================================
