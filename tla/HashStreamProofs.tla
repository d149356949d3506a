-------------------------- MODULE HashStreamProofs --------------------------
(***************************************************************************)
(* The buffering and the padding of the hash functions, for messages of    *)
(* any length, split into pieces of any sizes.                             *)
(***************************************************************************)
EXTENDS HashStream, SequenceTheorems, TLAPS

\* The block sizes of the code.
Sizes == {64, 72, 104, 128, 136, 144}

\* The members of an object, with a buffer of the right length.
IsContext(c, k) ==
    /\ c = [absorbed |-> c.absorbed, numBytes |-> c.numBytes,
            bufferSize |-> c.bufferSize, buffer |-> c.buffer]
    /\ DOMAIN c.buffer = 0..Capacity(k) - 1

\* The object holds the message msg: whole blocks of it have been compressed,
\* in order, and the rest is what counts of the buffer.  SHA512 counts the
\* compressed bytes in an unsigned int: right until it wraps.
Holds(c, k, msg) ==
    /\ IsContext(c, k)
    /\ c.absorbed \in Seq(Int)
    /\ c.bufferSize \in Nat
    /\ c.bufferSize < BlockSize(k)
    /\ Len(c.absorbed) + c.bufferSize = Len(msg)
    /\ Len(c.absorbed) % BlockSize(k) = 0
    /\ \A i \in 1..Len(c.absorbed) : c.absorbed[i] = msg[i]
    /\ \A i \in 0..c.bufferSize - 1 : c.buffer[i] = msg[Len(c.absorbed) + i + 1]
    /\ c.numBytes \in Nat
    /\ (k = "SHA512" => Len(c.absorbed) < Wrap) => c.numBytes = Len(c.absorbed)

-----------------------------------------------------------------------------
(* Sizes and sequences *)

\* The compression functions see what the buffer code feeds them, no more.
LEMMA CompressIsConcat ==
    ASSUME NEW k, NEW h, NEW b
    PROVE  Compress(k, h, b) = h \o b
<1> QED BY DEF Compress, processBlockSHA256, processBlockSHA3, transform

\* Block sizes and capacities of the classes that buffer.
LEMMA SizesOfKinds ==
    ASSUME NEW k \in Streams \cup {"SHA512"}
    PROVE  /\ BlockSize(k) \in Sizes
           /\ BlockSize(k) \in Nat /\ BlockSize(k) >= 64
           /\ Capacity(k) \in Nat /\ BlockSize(k) <= Capacity(k)
           /\ k = "SHA512" => BlockSize(k) = 128 /\ Capacity(k) = 256
           /\ k = "SHA256" => BlockSize(k) = 64
           /\ k \in SHA3s => BlockSize(k) \in {72, 104, 136, 144}
<1> QED BY DEF Streams, SHA3s, BlockSize, Capacity, Sizes

\* Remainders, for each block size.
LEMMA Remainders ==
    ASSUME NEW bs \in Sizes, NEW a \in Nat, NEW x \in Nat, a % bs = 0
    PROVE  /\ x % bs \in 0..(bs - 1)
           /\ x % bs <= x
           /\ (a + (x - (x % bs))) % bs = 0
           /\ (a + bs + (x - (x % bs))) % bs = 0
           /\ (a + bs) % bs = 0
<1>1. CASE bs = 64 BY <1>1
<1>2. CASE bs = 72 BY <1>2
<1>3. CASE bs = 104 BY <1>3
<1>4. CASE bs = 128 BY <1>4
<1>5. CASE bs = 136 BY <1>5
<1>6. CASE bs = 144 BY <1>6
<1> QED BY <1>1, <1>2, <1>3, <1>4, <1>5, <1>6 DEF Sizes

\* A number below the modulus is its own remainder.
LEMMA SmallRemainder ==
    ASSUME NEW w \in Nat, NEW x \in Nat, x < w
    PROVE  x % w = x
<1> QED OBVIOUS

\* The elements of two sequences put together.
LEMMA ConcatElements ==
    ASSUME NEW S, NEW s \in Seq(S), NEW t \in Seq(S)
    PROVE  /\ s \o t \in Seq(S)
           /\ Len(s) \in Nat /\ Len(t) \in Nat
           /\ Len(s \o t) = Len(s) + Len(t)
           /\ \A i \in 1..Len(s) : (s \o t)[i] = s[i]
           /\ \A i \in 1..Len(t) : (s \o t)[Len(s) + i] = t[i]
<1> QED BY ConcatProperties, LenProperties

\* A function on 1..n is a sequence of length n.
LEMMA FunctionIsSeq ==
    ASSUME NEW S, NEW n \in Nat, NEW f \in [1..n -> S]
    PROVE  f \in Seq(S) /\ Len(f) = n /\ DOMAIN f = 1..n
<1> QED OBVIOUS

\* The bytes from + 1, ..., from + n of a message.
LEMMA BytesElements ==
    ASSUME NEW from \in Nat, NEW n \in Nat
    PROVE  /\ Bytes(from, n) \in Seq(Int)
           /\ Len(Bytes(from, n)) = n
           /\ \A i \in 1..n : Bytes(from, n)[i] = from + i
<1>1. Bytes(from, n) \in [1..n -> Int]
  BY DEF Bytes
<1>2. Bytes(from, n) \in Seq(Int) /\ Len(Bytes(from, n)) = n
  BY <1>1, FunctionIsSeq
<1> QED BY <1>2 DEF Bytes

\* r is the sequences a, f and g, one behind the other.
IsFed(S, r, a, f, g) ==
    /\ r \in Seq(S)
    /\ Len(r) = Len(a) + Len(f) + Len(g)
    /\ \A i \in 1..Len(a) : r[i] = a[i]
    /\ \A i \in 1..Len(f) : r[Len(a) + i] = f[i]
    /\ \A i \in 1..Len(g) : r[Len(a) + Len(f) + i] = g[i]

\* What the hash state tells after it was fed two runs of bytes.
LEMMA FedElements ==
    ASSUME NEW S, NEW a \in Seq(S), NEW f \in Seq(S), NEW g \in Seq(S), NEW k
    PROVE  IsFed(S, Compress(k, a, f \o g), a, f, g)
<1>1. /\ f \o g \in Seq(S)
      /\ Len(f) \in Nat /\ Len(g) \in Nat /\ Len(f \o g) = Len(f) + Len(g)
      /\ \A i \in 1..Len(f) : (f \o g)[i] = f[i]
      /\ \A i \in 1..Len(g) : (f \o g)[Len(f) + i] = g[i]
  BY ConcatElements
<1>2. PICK h : h = f \o g
  OBVIOUS
<1>3. /\ h \in Seq(S) /\ Len(h) = Len(f) + Len(g)
      /\ \A i \in 1..Len(f) : h[i] = f[i]
      /\ \A i \in 1..Len(g) : h[Len(f) + i] = g[i]
  BY <1>1, <1>2
<1>4. /\ a \o h \in Seq(S)
      /\ Len(a) \in Nat /\ Len(a \o h) = Len(a) + Len(h)
      /\ \A i \in 1..Len(a) : (a \o h)[i] = a[i]
      /\ \A i \in 1..Len(h) : (a \o h)[Len(a) + i] = h[i]
  <2>1. h \in Seq(S)
    BY <1>3
  <2> QED BY <2>1, ConcatElements
<1>5. PICK r : r = a \o h
  OBVIOUS
<1>6. /\ r \in Seq(S) /\ Len(r) = Len(a) + Len(h)
      /\ \A i \in 1..Len(a) : r[i] = a[i]
      /\ \A i \in 1..Len(h) : r[Len(a) + i] = h[i]
  BY <1>4, <1>5
<1>7. \A i \in 1..Len(f) : r[Len(a) + i] = f[i]
  <2> TAKE i \in 1..Len(f)
  <2>1. i \in 1..Len(h)
    BY <1>1, <1>3
  <2> QED BY <2>1, <1>3, <1>6
<1>8. \A i \in 1..Len(g) : r[Len(a) + Len(f) + i] = g[i]
  <2> TAKE i \in 1..Len(g)
  <2>1. Len(f) + i \in 1..Len(h) /\ Len(a) + (Len(f) + i) = Len(a) + Len(f) + i
    BY <1>1, <1>3, <1>4
  <2>2. r[Len(a) + (Len(f) + i)] = h[Len(f) + i]
    BY <2>1, <1>6
  <2> QED BY <2>1, <2>2, <1>3
<1>9. Len(r) = Len(a) + Len(f) + Len(g)
  BY <1>1, <1>3, <1>4, <1>6
<1>10. Compress(k, a, f \o g) = r
  BY <1>2, <1>5, CompressIsConcat
<1> QED BY <1>6, <1>7, <1>8, <1>9, <1>10 DEF IsFed

-----------------------------------------------------------------------------
(* The buffering *)

\* An object that holds a message, and a piece of n bytes to come: a bytes are
\* compressed, s wait, and m is the message with the piece.
Before(c, k, data, a, s, n, m) ==
    /\ a \in Nat /\ s \in Nat /\ n \in Nat /\ s < BlockSize(k)
    /\ c.absorbed \in Seq(Int) /\ m \in Seq(Int)
    /\ Len(c.absorbed) = a /\ Len(m) = a + s + n
    /\ \A i \in 1..a : c.absorbed[i] = m[i]
    /\ \A i \in 0..s - 1 : c.buffer[i] = m[a + i + 1]
    /\ \A i \in 1..n : data[i] = m[a + s + i] /\ data[i] \in Int
    /\ \A i \in 1..(a + s + n) : m[i] \in Int

\* topped is the buffer with the first bytes of a piece put behind what was
\* waiting in it.
Topped(c, data, s, fill, topped) ==
    /\ \A i \in 0..s - 1 : topped[i] = c.buffer[i]
    /\ \A i \in 1..fill : topped[s + i - 1] = data[i]

\* How a piece is split: fill bytes top up the buffer, which is compressed if
\* that filled it (p bytes); then whole bytes are compressed where they are, and
\* the last left bytes are put into the buffer at start.
Split(bs, s, n, fill, p, whole, start, left) ==
    /\ fill \in Nat /\ p \in Nat /\ whole \in Nat /\ start \in Nat /\ left \in Nat
    /\ fill + whole + left = n /\ p + start = s + fill
    /\ start + left < bs
    /\ (start > 0 => p = 0 /\ whole = 0)

\* r is what was compressed, the topped-up buffer's p bytes and whole bytes of
\* the piece.
Fed(c, data, a, fill, p, whole, topped, r) ==
    /\ r \in Seq(Int) /\ Len(r) = a + p + whole
    /\ \A i \in 1..a : r[i] = c.absorbed[i]
    /\ \A i \in 1..p : r[a + i] = topped[i - 1]
    /\ \A i \in 1..whole : r[a + p + i] = data[fill + i]

\* The members of the object after the piece.
After(c, data, a, fill, p, whole, start, left, topped, d) ==
    /\ d.bufferSize = start + left
    /\ Fed(c, data, a, fill, p, whole, topped, d.absorbed)
    /\ \A i \in 0..start - 1 : d.buffer[i] = topped[i]
    /\ \A i \in 1..left : d.buffer[start + i - 1] = data[fill + whole + i]

\* Holds, in the names of Before.
LEMMA HeldCells ==
    ASSUME NEW k, NEW c, NEW msg \in Seq(Int), NEW data \in Seq(Int),
           Holds(c, k, msg)
    PROVE  Before(c, k, data, Len(c.absorbed), c.bufferSize, Len(data), msg \o data)
<1>1. PICK a, s, n, m : a = Len(c.absorbed) /\ s = c.bufferSize
                        /\ n = Len(data) /\ m = msg \o data
  OBVIOUS
<1>2. /\ a \in Nat /\ s \in Nat /\ s < BlockSize(k) /\ c.absorbed \in Seq(Int)
      /\ Len(msg) = a + s
      /\ \A i \in 1..a : c.absorbed[i] = msg[i]
      /\ \A i \in 0..s - 1 : c.buffer[i] = msg[a + i + 1]
  BY <1>1, LenProperties DEF Holds
<1>3. /\ m \in Seq(Int) /\ n \in Nat /\ Len(m) = Len(msg) + n
      /\ \A i \in 1..Len(msg) : m[i] = msg[i]
      /\ \A i \in 1..n : m[Len(msg) + i] = data[i]
  BY <1>1, ConcatElements
<1>4. \A i \in 1..n : data[i] \in Int
  BY <1>1, ElementOfSeq
<1>5. Len(m) = a + s + n
  BY <1>2, <1>3
<1>6. \A i \in 1..(a + s + n) : m[i] \in Int
  BY <1>3, <1>5, ElementOfSeq
<1>7. \A i \in 0..s - 1 : c.buffer[i] = m[a + i + 1]
  <2>1. \A i \in 0..s - 1 : a + i + 1 \in 1..(a + s)
    BY <1>2
  <2> QED BY <2>1, <1>2, <1>3
<1>8. \A i \in 1..a : c.absorbed[i] = m[i]
  <2>1. \A i \in 1..a : i \in 1..(a + s)
    BY <1>2
  <2> QED BY <2>1, <1>2, <1>3
<1>9. Before(c, k, data, a, s, n, m)
  BY <1>1, <1>2, <1>3, <1>4, <1>5, <1>6, <1>7, <1>8 DEF Before
<1> QED BY <1>1, <1>9

\* A topped-up buffer goes on where the compressed part of the message ends.
LEMMA ToppedCells ==
    ASSUME NEW c, NEW k, NEW data, NEW a, NEW s, NEW n, NEW m,
           Before(c, k, data, a, s, n, m),
           NEW fill \in Nat, fill <= n, NEW topped, Topped(c, data, s, fill, topped)
    PROVE  \A i \in 0..(s + fill) - 1 : topped[i] = m[a + i + 1] /\ topped[i] \in Int
<1> SUFFICES ASSUME NEW i \in 0..(s + fill) - 1
             PROVE  topped[i] = m[a + i + 1] /\ topped[i] \in Int
  OBVIOUS
<1>1. a \in Nat /\ s \in Nat /\ n \in Nat
  BY DEF Before
<1>2. a + i + 1 \in 1..(a + s + n)
  BY <1>1
<1>3. m[a + i + 1] \in Int
  BY <1>2 DEF Before
<1>4. CASE i < s
  <2>1. i \in 0..s - 1
    BY <1>1, <1>4
  <2> QED BY <2>1, <1>3 DEF Before, Topped
<1>5. CASE i >= s
  <2>1. PICK j : j = i - s + 1
    OBVIOUS
  <2>2. j \in 1..fill /\ j \in 1..n /\ s + j - 1 = i /\ a + s + j = a + i + 1
    BY <2>1, <1>1, <1>5
  <2>3. topped[s + j - 1] = data[j] /\ data[j] = m[a + s + j]
    BY <2>2 DEF Before, Topped
  <2> QED BY <2>2, <2>3, <1>3
<1> QED BY <1>1, <1>4, <1>5

\* The object after the piece holds the message with the piece.
LEMMA Buffered ==
    ASSUME NEW k, NEW c, NEW data, NEW a, NEW s, NEW n, NEW m,
           Before(c, k, data, a, s, n, m),
           NEW fill, NEW p, NEW whole, NEW start, NEW left,
           Split(BlockSize(k), s, n, fill, p, whole, start, left),
           NEW topped, Topped(c, data, s, fill, topped),
           NEW d, IsContext(d, k),
           After(c, data, a, fill, p, whole, start, left, topped, d),
           (a + p + whole) % BlockSize(k) = 0, d.numBytes \in Nat,
           (k = "SHA512" => a + p + whole < Wrap) => d.numBytes = a + p + whole
    PROVE  Holds(d, k, m)
<1>1. /\ a \in Nat /\ s \in Nat /\ n \in Nat
      /\ fill \in Nat /\ p \in Nat /\ whole \in Nat /\ start \in Nat /\ left \in Nat
      /\ fill + whole + left = n /\ p + start = s + fill
      /\ (start > 0 => p = 0 /\ whole = 0)
  BY DEF Before, Split
<1>2. fill <= n
  BY <1>1
<1>3. \A i \in 0..(s + fill) - 1 : topped[i] = m[a + i + 1]
  BY <1>1, <1>2, ToppedCells
<1>4. PICK x, y : x = a + p + whole /\ y = start + left
  OBVIOUS
<1>5. x \in Nat /\ y \in Nat /\ x + y = a + s + n
  BY <1>1, <1>4
<1>6. \A i \in 1..x : d.absorbed[i] = m[i]
  <2> SUFFICES ASSUME NEW i \in 1..x PROVE d.absorbed[i] = m[i]
    OBVIOUS
  <2>1. CASE i <= a
    <3>1. i \in 1..a
      BY <2>1, <1>1, <1>5
    <3> QED BY <3>1 DEF Before, After, Fed
  <2>2. CASE i > a /\ i <= a + p
    <3>1. PICK j : j = i - a
      OBVIOUS
    <3>2. /\ j \in 1..p /\ a + j = i /\ j - 1 \in 0..(s + fill) - 1
          /\ a + (j - 1) + 1 = i
      BY <3>1, <2>2, <1>1, <1>5
    <3>3. d.absorbed[a + j] = topped[j - 1]
      BY <3>2 DEF After, Fed
    <3>4. topped[j - 1] = m[a + (j - 1) + 1]
      BY <3>2, <1>3
    <3> QED BY <3>2, <3>3, <3>4
  <2>3. CASE i > a + p
    <3>1. PICK j : j = i - (a + p)
      OBVIOUS
    <3>2. j \in 1..whole /\ a + p + j = i
      BY <3>1, <2>3, <1>1, <1>4, <1>5
    <3>3. start = 0
      BY <3>2, <1>1
    <3>4. fill + j \in 1..n /\ a + s + (fill + j) = i
      BY <3>2, <3>3, <1>1
    <3>5. d.absorbed[a + p + j] = data[fill + j] /\ data[fill + j] = m[a + s + (fill + j)]
      BY <3>2, <3>4 DEF Before, After, Fed
    <3> QED BY <3>2, <3>4, <3>5
  <2> QED BY <2>1, <2>2, <2>3, <1>1, <1>5
<1>7. \A i \in 0..(y - 1) : d.buffer[i] = m[x + i + 1]
  <2> SUFFICES ASSUME NEW i \in 0..(y - 1) PROVE d.buffer[i] = m[x + i + 1]
    OBVIOUS
  <2>1. CASE i < start
    <3>1. whole = 0 /\ p = 0 /\ start = s + fill /\ i \in 0..start - 1
      BY <2>1, <1>1, <1>5
    <3>2. x + i + 1 = a + i + 1 /\ i \in 0..(s + fill) - 1
      BY <3>1, <1>1, <1>4, <1>5
    <3>3. d.buffer[i] = topped[i]
      BY <3>1 DEF After
    <3> QED BY <3>2, <3>3, <1>3
  <2>2. CASE i >= start
    <3>1. PICK j : j = i - start + 1
      OBVIOUS
    <3>2. j \in 1..left /\ start + j - 1 = i
      BY <3>1, <2>2, <1>1, <1>4, <1>5
    <3>3. fill + whole + j \in 1..n /\ a + s + (fill + whole + j) = x + i + 1
      BY <3>1, <3>2, <1>1, <1>4
    <3>4. /\ d.buffer[start + j - 1] = data[fill + whole + j]
          /\ data[fill + whole + j] = m[a + s + (fill + whole + j)]
      BY <3>2, <3>3 DEF Before, After, Fed
    <3> QED BY <3>2, <3>3, <3>4
  <2> QED BY <2>1, <2>2, <1>1, <1>5
<1>8. /\ d.absorbed \in Seq(Int) /\ Len(d.absorbed) = x /\ d.bufferSize = y
      /\ y < BlockSize(k) /\ x + y = Len(m)
  BY <1>4, <1>5 DEF Before, Split, After, Fed
<1>9. x % BlockSize(k) = 0 /\ ((k = "SHA512" => x < Wrap) => d.numBytes = x)
  BY <1>4
<1> QED BY <1>5, <1>6, <1>7, <1>8, <1>9 DEF Holds

\* What the compression function is given when a piece is split.
LEMMA FedBySplit ==
    ASSUME NEW k, NEW c, NEW data, NEW a, NEW s, NEW n, NEW m,
           Before(c, k, data, a, s, n, m),
           NEW fill, NEW p, NEW whole, NEW start, NEW left,
           Split(BlockSize(k), s, n, fill, p, whole, start, left),
           NEW topped, Topped(c, data, s, fill, topped)
    PROVE  Fed(c, data, a, fill, p, whole, topped,
               Compress(k, c.absorbed, [i \in 1..p |-> topped[i - 1]]
                                       \o [i \in 1..whole |-> data[fill + i]]))
<1>1. /\ a \in Nat /\ s \in Nat /\ n \in Nat
      /\ fill \in Nat /\ p \in Nat /\ whole \in Nat /\ start \in Nat /\ left \in Nat
      /\ fill + whole + left = n /\ p + start = s + fill
  BY DEF Before, Split
<1>2. PICK f, g, z : /\ f = [i \in 1..p |-> topped[i - 1]]
                     /\ g = [i \in 1..whole |-> data[fill + i]]
                     /\ z = c.absorbed
  OBVIOUS
<1>3. f \in Seq(Int) /\ Len(f) = p /\ \A i \in 1..p : f[i] = topped[i - 1]
  <2>1. fill <= n
    BY <1>1
  <2>2. \A i \in 1..p : i - 1 \in 0..(s + fill) - 1
    BY <1>1
  <2>3. \A i \in 0..(s + fill) - 1 : topped[i] \in Int
    BY <2>1, <1>1, ToppedCells
  <2>4. f \in [1..p -> Int]
    BY <2>2, <2>3, <1>2
  <2>5. f \in Seq(Int) /\ Len(f) = p
    BY <2>4, <1>1, FunctionIsSeq
  <2> QED BY <2>5, <1>2
<1>4. g \in Seq(Int) /\ Len(g) = whole /\ \A i \in 1..whole : g[i] = data[fill + i]
  <2>1. \A i \in 1..whole : fill + i \in 1..n
    BY <1>1
  <2>2. \A i \in 1..n : data[i] \in Int
    BY DEF Before
  <2>3. g \in [1..whole -> Int]
    BY <2>1, <2>2, <1>2
  <2>4. g \in Seq(Int) /\ Len(g) = whole
    BY <2>3, <1>1, FunctionIsSeq
  <2> QED BY <2>4, <1>2
<1>5. z \in Seq(Int) /\ Len(z) = a
  BY <1>2 DEF Before
<1>6. PICK r : r = Compress(k, z, f \o g)
  OBVIOUS
<1>7. IsFed(Int, Compress(k, z, f \o g), z, f, g)
  BY <1>3, <1>4, <1>5, FedElements
<1>8. IsFed(Int, r, z, f, g)
  BY <1>6, <1>7
<1>9. Fed(c, data, a, fill, p, whole, topped, r)
  BY <1>2, <1>3, <1>4, <1>5, <1>8 DEF IsFed, Fed
<1> QED BY <1>2, <1>6, <1>9

\* SHA256_Legacy::add and SHA3::add keep the message, whatever its length and
\* wherever the pieces end.
LEMMA AddHolds ==
    ASSUME NEW k \in Streams, NEW c, NEW msg \in Seq(Int), NEW data \in Seq(Int),
           Holds(c, k, msg)
    PROVE  Holds(Add(c, data, k), k, msg \o data)
<1> DEFINE bs     == BlockSize(k)
           n      == Len(data)
           a      == Len(c.absorbed)
           s      == c.bufferSize
           fill   == IF s > 0 THEN Least(n, bs - s) ELSE 0
           held   == s + fill
           topped == [i \in DOMAIN c.buffer |->
                        IF i \in s .. held - 1 THEN data[i - s + 1] ELSE c.buffer[i]]
           left   == (n - fill) % bs
           whole  == n - fill - left
           start  == IF held = bs THEN 0 ELSE held
           p      == IF held = bs THEN bs ELSE 0
           after  == [i \in DOMAIN c.buffer |->
                        IF i \in start .. start + left - 1
                        THEN data[fill + whole + 1 + i - start] ELSE topped[i]]
           r      == Compress(k, c.absorbed, [i \in 1..p |-> topped[i - 1]]
                                             \o [i \in 1..whole |-> data[fill + i]])
           d      == Add(c, data, k)
           m      == msg \o data
<1>1. d = [absorbed   |-> r,
           numBytes   |-> c.numBytes + p + whole,
           bufferSize |-> start + left,
           buffer     |-> after]
  BY DEF Add
<1> HIDE DEF bs, n, a, s, d, m, fill, held, topped, left, whole, start, p, after, r
<1>2. /\ k # "SHA512" /\ bs \in Sizes /\ bs \in Nat /\ bs >= 64
      /\ Capacity(k) \in Nat /\ bs <= Capacity(k)
  BY SizesOfKinds DEF Streams, SHA3s, bs
<1>3. Before(c, k, data, a, s, n, m)
  BY HeldCells DEF a, s, n, m
<1>4. a \in Nat /\ s \in Nat /\ n \in Nat /\ s < bs
  BY <1>3 DEF Before, bs
<1>5. a % bs = 0 /\ DOMAIN c.buffer = 0..Capacity(k) - 1 /\ c.numBytes = a
  BY <1>2 DEF Holds, IsContext, a, bs
<1>6. /\ fill \in Nat /\ fill <= n /\ held \in Nat /\ held <= bs
      /\ held = s + fill /\ (s = 0 => fill = 0) /\ (held # bs => s = 0 \/ fill = n)
      /\ (held = bs => s > 0)
  BY <1>2, <1>4 DEF Least, fill, held
<1>7. /\ left \in Nat /\ left < bs /\ left <= n - fill
      /\ (a + (n - fill - left)) % bs = 0 /\ (a + bs + (n - fill - left)) % bs = 0
  <2>1. PICK x : x = n - fill
    OBVIOUS
  <2>2. x \in Nat
    BY <2>1, <1>4, <1>6
  <2>3. /\ x % bs \in 0..(bs - 1) /\ x % bs <= x
        /\ (a + (x - (x % bs))) % bs = 0 /\ (a + bs + (x - (x % bs))) % bs = 0
    BY <2>2, <1>2, <1>4, <1>5, Remainders
  <2>4. left = x % bs
    BY <2>1 DEF left
  <2>5. n - fill - left = x - (x % bs)
    BY <2>1, <2>4
  <2>6. left \in Nat /\ left < bs /\ left <= n - fill
    BY <2>1, <2>3, <2>4, <1>2
  <2> QED BY <2>3, <2>5, <2>6, Zenon
<1>8. left \in Nat /\ left < bs /\ left <= n - fill
  BY <1>7
<1>9. whole = n - fill - left /\ whole \in Nat /\ fill + whole + left = n
  BY <1>4, <1>6, <1>8 DEF whole
<1>10. \/ p = 0 /\ start = held /\ held < bs
       \/ p = bs /\ start = 0 /\ held = bs
  BY <1>2, <1>6 DEF p, start
<1>11. Split(BlockSize(k), s, n, fill, p, whole, start, left)
  <2>1. Split(bs, s, n, fill, p, whole, start, left)
    BY <1>2, <1>4, <1>6, <1>8, <1>9, <1>10 DEF Split
  <2> QED BY <2>1 DEF bs
<1>12. (a + p + whole) % BlockSize(k) = 0
  <2>1. CASE p = 0
    <3>1. a + p + whole = a + (n - fill - left)
      BY <2>1, <1>4, <1>9
    <3> QED BY <3>1, <1>7, Zenon DEF bs
  <2>2. CASE p = bs
    <3>1. a + p + whole = a + bs + (n - fill - left)
      BY <2>2, <1>9
    <3> QED BY <3>1, <1>7, Zenon DEF bs
  <2> QED BY <2>1, <2>2, <1>10
<1>13. Topped(c, data, s, fill, topped)
  <2>1. \A i \in 0..s - 1 : i \in DOMAIN c.buffer /\ i \notin s..held - 1
    BY <1>2, <1>4, <1>5
  <2>2. \A i \in 1..fill : /\ s + i - 1 \in DOMAIN c.buffer /\ s + i - 1 \in s..held - 1
                           /\ (s + i - 1) - s + 1 = i
    BY <1>2, <1>4, <1>5, <1>6
  <2>3. \A i \in 0..s - 1 : topped[i] = c.buffer[i]
    BY <2>1 DEF topped
  <2>4. \A i \in 1..fill : topped[s + i - 1] = data[(s + i - 1) - s + 1]
    BY <2>2 DEF topped
  <2> QED BY <2>2, <2>3, <2>4 DEF Topped
<1>14. Fed(c, data, a, fill, p, whole, topped, r)
  BY <1>3, <1>11, <1>13, FedBySplit DEF r
<1>15. /\ \A i \in 0..start - 1 : after[i] = topped[i]
       /\ \A i \in 1..left : after[start + i - 1] = data[fill + whole + i]
  <2>0. start \in Nat /\ start + left <= bs
    BY <1>2, <1>4, <1>6, <1>8, <1>9, <1>10
  <2>1. \A i \in 0..start - 1 : i \in DOMAIN c.buffer /\ i \notin start..start + left - 1
    BY <2>0, <1>2, <1>5, <1>8
  <2>2. \A i \in 1..left : /\ start + i - 1 \in DOMAIN c.buffer
                           /\ start + i - 1 \in start..start + left - 1
                           /\ fill + whole + 1 + (start + i - 1) - start = fill + whole + i
    <3> TAKE i \in 1..left
    <3>1. start + i - 1 \in 0..Capacity(k) - 1 /\ start + i - 1 \in start..start + left - 1
      BY <2>0, <1>2, <1>8
    <3>2. fill \in Nat /\ whole \in Nat
      BY <1>6, <1>9
    <3>3. fill + whole + 1 + (start + i - 1) - start = fill + whole + i
      BY <3>2, <2>0, <1>8
    <3> QED BY <3>1, <3>3, <1>5
  <2>3. \A i \in 0..start - 1 : after[i] = topped[i]
    BY <2>1 DEF after
  <2>4. \A i \in 1..left : after[start + i - 1]
                             = data[fill + whole + 1 + (start + i - 1) - start]
    BY <2>2 DEF after
  <2> QED BY <2>2, <2>3, <2>4
<1>16. After(c, data, a, fill, p, whole, start, left, topped, d)
  BY <1>1, <1>14, <1>15 DEF After
<1>17. IsContext(d, k)
  BY <1>1, <1>5 DEF IsContext, after
<1>18. d.numBytes = a + p + whole /\ d.numBytes \in Nat
  BY <1>1, <1>2, <1>4, <1>5, <1>9, <1>10
<1>19. Holds(d, k, m)
  BY <1>3, <1>11, <1>12, <1>13, <1>16, <1>17, <1>18, Buffered
<1> QED BY <1>19 DEF d, m

\* SHA512::update keeps it too; its count of the compressed bytes is right as
\* long as they are fewer than fit an unsigned int.
LEMMA UpdateHolds ==
    ASSUME NEW k \in {"SHA512"}, NEW c, NEW msg \in Seq(Int), NEW data \in Seq(Int),
           Holds(c, k, msg)
    PROVE  Holds(Update(c, data, k), k, msg \o data)
<1> DEFINE bs    == BlockSize(k)
           n     == Len(data)
           a     == Len(c.absorbed)
           s     == c.bufferSize
           rem   == Least(n, bs - s)
           block == [i \in DOMAIN c.buffer |->
                       IF i \in s .. s + rem - 1 THEN data[i - s + 1] ELSE c.buffer[i]]
           left  == (n - rem) % bs
           whole == n - rem - left
           after == [i \in DOMAIN block |->
                       IF i < left THEN data[rem + whole + 1 + i] ELSE block[i]]
           r     == Compress(k, c.absorbed, [i \in 1..bs |-> block[i - 1]]
                                            \o [i \in 1..whole |-> data[rem + i]])
           d     == Update(c, data, k)
           m     == msg \o data
<1>1. d = IF s + n < bs
          THEN [c EXCEPT !.bufferSize = @ + n, !.buffer = block]
          ELSE [absorbed   |-> r,
                numBytes   |-> (c.numBytes + whole + bs) % Wrap,
                bufferSize |-> left,
                buffer     |-> after]
  BY DEF Update
<1> HIDE DEF bs, n, a, s, d, m, rem, block, left, whole, after, r
<1>2. bs = 128 /\ bs \in Sizes /\ Capacity(k) = 256
  BY SizesOfKinds DEF bs
<1>3. Before(c, k, data, a, s, n, m)
  BY HeldCells DEF a, s, n, m
<1>4. a \in Nat /\ s \in Nat /\ n \in Nat /\ s < bs
  BY <1>3 DEF Before, bs
<1>5. DOMAIN c.buffer = 0..255
  BY <1>2 DEF Holds, IsContext
<1>m. a % bs = 0
  BY DEF Holds, a, bs
<1>c. /\ c.numBytes \in Nat
      /\ a < Wrap => c.numBytes = a
      /\ c = [absorbed |-> c.absorbed, numBytes |-> c.numBytes,
              bufferSize |-> c.bufferSize, buffer |-> c.buffer]
  BY DEF Holds, IsContext, a
<1>6. /\ rem \in Nat /\ rem <= n /\ s + rem <= bs
      /\ (s + n < bs => rem = n) /\ (~(s + n < bs) => s + rem = bs)
  BY <1>2, <1>4 DEF Least, rem
<1>7. Topped(c, data, s, rem, block)
  <2>1. \A i \in 0..s - 1 : i \in DOMAIN c.buffer /\ i \notin s..s + rem - 1
    BY <1>2, <1>4, <1>5
  <2>2. \A i \in 1..rem : /\ s + i - 1 \in DOMAIN c.buffer /\ s + i - 1 \in s..s + rem - 1
                          /\ (s + i - 1) - s + 1 = i
    BY <1>2, <1>4, <1>5, <1>6
  <2>3. \A i \in 0..s - 1 : block[i] = c.buffer[i]
    BY <2>1 DEF block
  <2>4. \A i \in 1..rem : block[s + i - 1] = data[(s + i - 1) - s + 1]
    BY <2>2 DEF block
  <2> QED BY <2>2, <2>3, <2>4 DEF Topped
\* the piece fits the buffer
<1>8. CASE s + n < bs
  <2>1. Split(BlockSize(k), s, n, rem, 0, 0, s + n, 0)
    <3>1. Split(bs, s, n, rem, 0, 0, s + n, 0)
      BY <1>2, <1>4, <1>6, <1>8 DEF Split
    <3> QED BY <3>1 DEF bs
  <2>2. d = [absorbed |-> c.absorbed, numBytes |-> c.numBytes,
             bufferSize |-> s + n, buffer |-> block]
    BY <1>1, <1>c, <1>8 DEF s
  <2>3. Fed(c, data, a, rem, 0, 0, block, c.absorbed)
    BY <1>3, <1>4 DEF Before, Fed
  <2>4. After(c, data, a, rem, 0, 0, s + n, 0, block, d)
    <3>1. s + n = s + n + 0
      BY <1>4
    <3> QED BY <2>2, <2>3, <3>1 DEF After
  <2>5. IsContext(d, k)
    BY <2>2, <1>2, <1>5 DEF IsContext, block
  <2>6. a + 0 + 0 = a
    BY <1>4
  <2>7. /\ (a + 0 + 0) % BlockSize(k) = 0 /\ d.numBytes \in Nat
        /\ (k = "SHA512" => a + 0 + 0 < Wrap) => d.numBytes = a + 0 + 0
    BY <2>2, <2>6, <1>m, <1>c DEF bs
  <2>8. Holds(d, k, m)
    BY <1>3, <1>7, <2>1, <2>4, <2>5, <2>7, Buffered
  <2> QED BY <2>8 DEF d, m
\* the buffer is filled, compressed, and starts anew
<1>9. CASE ~(s + n < bs)
  <2>1. /\ left \in Nat /\ left < bs /\ left <= n - rem
        /\ (a + bs + (n - rem - left)) % bs = 0
    <3>1. PICK x : x = n - rem
      OBVIOUS
    <3>2. x \in Nat
      BY <3>1, <1>4, <1>6
    <3>3. /\ x % bs \in 0..(bs - 1) /\ x % bs <= x
          /\ (a + bs + (x - (x % bs))) % bs = 0
      <4>1. bs \in Sizes /\ a \in Nat
        BY <1>2, <1>4
      <4> QED BY <4>1, <3>2, <1>m, Remainders
    <3>4. left = x % bs
      BY <3>1 DEF left
    <3>5. n - rem - left = x - (x % bs)
      BY <3>1, <3>4
    <3>6. left \in Nat /\ left < bs /\ left <= n - rem
      BY <3>1, <3>3, <3>4, <1>2
    <3> QED BY <3>3, <3>5, <3>6, Zenon
  <2>2. left \in Nat /\ left < bs /\ left <= n - rem
    BY <2>1
  <2>3. whole = n - rem - left /\ whole \in Nat /\ rem + whole + left = n
    BY <2>2, <1>4, <1>6 DEF whole
  <2>4. Split(BlockSize(k), s, n, rem, bs, whole, 0, left)
    <3>1. Split(bs, s, n, rem, bs, whole, 0, left)
      BY <2>2, <2>3, <1>2, <1>4, <1>6, <1>9 DEF Split
    <3> QED BY <3>1 DEF bs
  <2>5. d = [absorbed |-> r, numBytes |-> (c.numBytes + whole + bs) % Wrap,
             bufferSize |-> left, buffer |-> after]
    BY <1>1, <1>9
  <2>6. Fed(c, data, a, rem, bs, whole, block, r)
    <3>1. PICK p, start : p = bs /\ start = 0
      OBVIOUS
    <3>2. Split(BlockSize(k), s, n, rem, p, whole, start, left)
      BY <3>1, <2>4
    <3>3. Fed(c, data, a, rem, p, whole, block,
              Compress(k, c.absorbed, [i \in 1..p |-> block[i - 1]]
                                      \o [i \in 1..whole |-> data[rem + i]]))
      BY <1>3, <1>7, <3>2, FedBySplit, SMTT(60)
    <3> QED BY <3>1, <3>3 DEF r
  <2>7. DOMAIN block = 0..Capacity(k) - 1 /\ DOMAIN after = 0..Capacity(k) - 1
    BY <1>2, <1>5 DEF block, after
  <2>8. \A i \in 1..left : after[0 + i - 1] = data[rem + whole + i]
    <3> TAKE i \in 1..left
    <3>1. i - 1 \in DOMAIN block /\ i - 1 < left
      BY <2>2, <2>7, <1>2
    <3>2. after[i - 1] = data[rem + whole + 1 + (i - 1)]
      BY <3>1 DEF after
    <3>3. rem + whole + 1 + (i - 1) = rem + whole + i /\ 0 + i - 1 = i - 1
      BY <2>2, <2>3, <1>6
    <3> QED BY <3>2, <3>3
  <2>9. After(c, data, a, rem, bs, whole, 0, left, block, d)
    <3>1. 0 + left = left
      BY <2>2
    <3> QED BY <3>1, <2>5, <2>6, <2>8 DEF After
  <2>10. IsContext(d, k)
    BY <2>5, <2>7 DEF IsContext
  <2>11. (a + bs + whole) % BlockSize(k) = 0
    <3>1. a + bs + whole = a + bs + (n - rem - left)
      BY <2>3
    <3> QED BY <3>1, <2>1, Zenon DEF bs
  <2>12. (k = "SHA512" => a + bs + whole < Wrap) => d.numBytes = a + bs + whole
    <3> SUFFICES ASSUME a + bs + whole < Wrap
                 PROVE  d.numBytes = a + bs + whole
      OBVIOUS
    <3>1. Wrap \in Nat /\ a + bs + whole \in Nat /\ a < Wrap
          /\ a + whole + bs = a + bs + whole
      BY <2>3, <1>2, <1>4, SizesAssumption
    <3>2. d.numBytes = (a + bs + whole) % Wrap
      BY <3>1, <2>5, <1>c
    <3> QED BY <3>1, <3>2, SmallRemainder
  <2>13. d.numBytes \in Nat
    <3>1. PICK x : x = c.numBytes + whole + bs
      OBVIOUS
    <3>2. x \in Nat /\ Wrap \in Nat \ {0}
      BY <3>1, <2>3, <1>2, <1>c, SizesAssumption
    <3>3. d.numBytes = x % Wrap
      BY <3>1, <2>5
    <3> QED BY <3>2, <3>3
  <2>14. Holds(d, k, m)
    BY <1>3, <1>7, <2>4, <2>9, <2>10, <2>11, <2>12, <2>13, Buffered
  <2> QED BY <2>14 DEF d, m
<1> QED BY <1>8, <1>9

-----------------------------------------------------------------------------
(* The stream *)

\* Two pieces of a message, one behind the other.
LEMMA BytesJoin ==
    ASSUME NEW n \in Nat, NEW j \in Nat
    PROVE  Bytes(0, n) \o Bytes(n, j) = Bytes(0, n + j)
<1>1. PICK u, v, w : u = Bytes(0, n) /\ v = Bytes(n, j) /\ w = Bytes(0, n + j)
  OBVIOUS
<1>2. u \in Seq(Int) /\ Len(u) = n /\ \A i \in 1..n : u[i] = 0 + i
  BY <1>1, BytesElements
<1>3. v \in Seq(Int) /\ Len(v) = j /\ \A i \in 1..j : v[i] = n + i
  BY <1>1, BytesElements
<1>4. w \in Seq(Int) /\ Len(w) = n + j /\ \A i \in 1..(n + j) : w[i] = 0 + i
  <2>1. n + j \in Nat /\ 0 \in Nat
    OBVIOUS
  <2> QED BY <2>1, <1>1, BytesElements
<1>5. PICK x : x = u \o v
  OBVIOUS
<1>6. /\ x \in Seq(Int) /\ Len(x) = n + j
      /\ \A i \in 1..n : x[i] = u[i]
      /\ \A i \in 1..j : x[n + i] = v[i]
  <2>1. u \in Seq(Int) /\ v \in Seq(Int)
    BY <1>2, <1>3
  <2>2. /\ x \in Seq(Int) /\ Len(x) = Len(u) + Len(v)
        /\ \A i \in 1..Len(u) : x[i] = u[i]
        /\ \A i \in 1..Len(v) : x[Len(u) + i] = v[i]
    BY <2>1, <1>5, ConcatElements
  <2> QED BY <2>2, <1>2, <1>3
<1>7. \A i \in 1..(n + j) : x[i] = w[i]
  <2> TAKE i \in 1..(n + j)
  <2>1. i \in Int /\ w[i] = i
    BY <1>4
  <2>2. CASE i <= n
    <3>1. i \in 1..n
      BY <2>2
    <3>2. x[i] = u[i] /\ u[i] = 0 + i
      BY <3>1, <1>2, <1>6
    <3> QED BY <3>2, <2>1
  <2>3. CASE i > n
    <3>1. PICK q : q = i - n
      OBVIOUS
    <3>2. q \in 1..j /\ n + q = i
      BY <3>1, <2>1, <2>3
    <3>3. x[n + q] = v[q] /\ v[q] = n + q
      BY <3>2, <1>3, <1>6
    <3> QED BY <3>2, <3>3, <2>1
  <2> QED BY <2>1, <2>2, <2>3
<1>8. x = w
  BY <1>4, <1>6, <1>7, SeqEqual
<1> QED BY <1>1, <1>5, <1>8

\* An object without a byte, new or reset.
LEMMA EmptyHolds ==
    ASSUME NEW k \in Streams \cup {"SHA512"}, NEW c, IsContext(c, k),
           c.absorbed = <<>>, c.numBytes = 0, c.bufferSize = 0
    PROVE  Holds(c, k, Bytes(0, 0))
<1>1. BlockSize(k) \in Sizes /\ BlockSize(k) \in Nat /\ BlockSize(k) >= 64
  BY SizesOfKinds
<1>2. 0 % BlockSize(k) = 0
  BY <1>1 DEF Sizes
<1>3. Len(Bytes(0, 0)) = 0
  BY BytesElements
<1>4. c.absorbed \in Seq(Int) /\ Len(c.absorbed) = 0
  BY EmptySeq
<1> QED BY <1>1, <1>2, <1>3, <1>4 DEF Holds

\* A byte of a number is a byte.
LEMMA ByteOfType ==
    ASSUME NEW v \in Nat, NEW p \in Int
    PROVE  ByteOf(v, p) \in 0..255 /\ -ByteOf(v, p) \in Int
<1>1. ByteOf(v, p) \in 0..255
  BY DEF ByteOf
<1> QED BY <1>1

\* The bytes of two numbers of 32 bits tell them apart.
LEMMA BytesTell ==
    ASSUME NEW u \in Nat, u < 256 * 256 * 256 * 256,
           NEW v \in Nat, v < 256 * 256 * 256 * 256,
           \A p \in 0..3 : ByteOf(u, p) = ByteOf(v, p)
    PROVE  u = v
<1>1. ASSUME NEW x \in Nat, x < 256 * 256 * 256 * 256
      PROVE  x = ByteOf(x, 0)
                 + 256 * (ByteOf(x, 1) + 256 * (ByteOf(x, 2) + 256 * ByteOf(x, 3)))
  <2>1. PICK q : q = x \div 256
    OBVIOUS
  <2>2. q \in Nat /\ x = (x % 256) + 256 * q /\ q < 256 * 256 * 256
    BY <2>1, <1>1
  <2>3. PICK r : r = q \div 256
    OBVIOUS
  <2>4. r \in Nat /\ q = (q % 256) + 256 * r /\ r < 256 * 256
    BY <2>2, <2>3
  <2>5. PICK t : t = r \div 256
    OBVIOUS
  <2>6. t \in Nat /\ r = (r % 256) + 256 * t /\ t < 256
    BY <2>4, <2>5
  <2>7. t = t % 256
    BY <2>6
  <2>8. /\ ByteOf(x, 0) = x % 256 /\ ByteOf(x, 1) = q % 256
        /\ ByteOf(x, 2) = r % 256 /\ ByteOf(x, 3) = t % 256
    BY <2>1, <2>3, <2>5 DEF ByteOf
  <2>9. PICK b, e, f, g : /\ b = ByteOf(x, 0) /\ e = ByteOf(x, 1)
                          /\ f = ByteOf(x, 2) /\ g = ByteOf(x, 3)
    OBVIOUS
  <2>10. b \in Int /\ e \in Int /\ f \in Int /\ g \in Int
    <3>1. /\ ByteOf(x, 0) \in 0..255 /\ ByteOf(x, 1) \in 0..255
          /\ ByteOf(x, 2) \in 0..255 /\ ByteOf(x, 3) \in 0..255
      <4>1. 0 \in Int /\ 1 \in Int /\ 2 \in Int /\ 3 \in Int
        OBVIOUS
      <4> QED BY <4>1, ByteOfType, Zenon
    <3> QED BY <3>1, <2>9
  <2>11. x = b + 256 * q /\ q = e + 256 * r /\ r = f + 256 * t /\ t = g
    <3>1. x = b + 256 * q
      BY <2>2, <2>8, <2>9
    <3>2. q = e + 256 * r
      BY <2>4, <2>8, <2>9
    <3>3. r = f + 256 * t
      BY <2>6, <2>8, <2>9
    <3>4. t = g
      BY <2>7, <2>8, <2>9
    <3> QED BY <3>1, <3>2, <3>3, <3>4
  <2>12. x = b + 256 * (e + 256 * (f + 256 * g))
    BY <2>10, <2>11
  <2> QED BY <2>9, <2>12
<1>2. /\ ByteOf(u, 0) = ByteOf(v, 0) /\ ByteOf(u, 1) = ByteOf(v, 1)
      /\ ByteOf(u, 2) = ByteOf(v, 2) /\ ByteOf(u, 3) = ByteOf(v, 3)
  OBVIOUS
<1>3. u = ByteOf(u, 0)
          + 256 * (ByteOf(u, 1) + 256 * (ByteOf(u, 2) + 256 * ByteOf(u, 3)))
  BY <1>1
<1>4. v = ByteOf(v, 0)
          + 256 * (ByteOf(v, 1) + 256 * (ByteOf(v, 2) + 256 * ByteOf(v, 3)))
  BY <1>1
<1> QED BY <1>2, <1>3, <1>4

-----------------------------------------------------------------------------
(* The padding *)

\* padded is what counts of the buffer, a marker, gap zeros and a trailer.
Ending(c, marker, gap, trailer, padded) ==
    /\ padded \in Seq(Int)
    /\ Len(padded) = c.bufferSize + 1 + gap + Len(trailer)
    /\ \A i \in 1..c.bufferSize : padded[i] = c.buffer[i - 1]
    /\ padded[c.bufferSize + 1] = marker
    /\ \A i \in 1..gap : padded[c.bufferSize + 1 + i] = 0
    /\ \A i \in 1..Len(trailer) : padded[c.bufferSize + 1 + gap + i] = trailer[i]

\* A length in bytes, the highest first.
LEMMA BigEndianElements ==
    ASSUME NEW v \in Nat, NEW n \in Nat
    PROVE  /\ BigEndian(v, n) \in Seq(Int) /\ Len(BigEndian(v, n)) = n
           /\ \A i \in 1..n : BigEndian(v, n)[i] = -ByteOf(v, n - i)
<1>1. \A i \in 1..n : -ByteOf(v, n - i) \in Int
  <2>1. \A i \in 1..n : n - i \in Int
    OBVIOUS
  <2> QED BY <2>1, ByteOfType
<1>2. BigEndian(v, n) \in [1..n -> Int]
  BY <1>1 DEF BigEndian
<1>3. BigEndian(v, n) \in Seq(Int) /\ Len(BigEndian(v, n)) = n
  BY <1>2, FunctionIsSeq
<1> QED BY <1>3 DEF BigEndian

\* SHA256_Legacy::processBuffer: where the length goes, in the buffer or in the
\* extra block.
LEMMA PaddedLengths ==
    ASSUME NEW h \in 0..63
    PROVE  PaddedLength(h) = IF h <= 55 THEN 56 ELSE 120
<1>1. (8 * h + 1) % 512 = 8 * h + 1
  OBVIOUS
<1>2. CASE h <= 55
  BY <1>1, <1>2 DEF PaddedLength
<1>3. CASE h > 55
  BY <1>1, <1>3 DEF PaddedLength
<1> QED BY <1>2, <1>3

\* The cells of a buffer that count are bytes of the message.
LEMMA BufferCells ==
    ASSUME NEW k \in Streams \cup {"SHA512"}, NEW c, NEW msg \in Seq(Int),
           Holds(c, k, msg)
    PROVE  /\ c.bufferSize \in 0..BlockSize(k) - 1
           /\ c.numBytes + c.bufferSize \in Nat
           /\ \A i \in 0..c.bufferSize - 1 : c.buffer[i] \in Int
<1>1. PICK a, h : a = Len(c.absorbed) /\ h = c.bufferSize
  OBVIOUS
<1>2. /\ h \in Nat /\ h < BlockSize(k) /\ a \in Nat /\ a + h = Len(msg)
      /\ c.numBytes \in Nat
      /\ \A i \in 0..h - 1 : c.buffer[i] = msg[a + i + 1]
  BY <1>1, LenProperties DEF Holds
<1>3. \A i \in 0..h - 1 : a + i + 1 \in 1..Len(msg)
  <2>1. h \in Nat /\ a \in Nat /\ a + h = Len(msg)
    BY <1>2
  <2> QED BY <2>1
<1>4. \A i \in 0..h - 1 : c.buffer[i] \in Int
  BY <1>2, <1>3, ElementOfSeq
<1>5. BlockSize(k) \in Nat
  BY SizesOfKinds
<1> QED BY <1>1, <1>2, <1>4, <1>5

\* SHA256: the length of the message ends the block the marker is in, or the
\* next one.
LEMMA TailSHA256 ==
    ASSUME NEW c, NEW msg \in Seq(Int), Holds(c, "SHA256", msg)
    PROVE  Ending(c, -128, IF c.bufferSize <= 55 THEN 55 - c.bufferSize ELSE 119 - c.bufferSize,
                 BigEndian(8 * (c.numBytes + c.bufferSize), 8), Pad("SHA256", c))
<1>1. PICK h, v, f : h = c.bufferSize /\ v = 8 * (c.numBytes + c.bufferSize) /\ f = Pad("SHA256", c)
  OBVIOUS
<1>2. BlockSize("SHA256") = 64 /\ "SHA256" \in Streams
  BY SizesOfKinds DEF Streams
<1>3. /\ h \in 0..63 /\ c.numBytes + c.bufferSize \in Nat
      /\ \A i \in 0..h - 1 : c.buffer[i] \in Int
  <2>1. /\ c.bufferSize \in 0..BlockSize("SHA256") - 1
        /\ c.numBytes + c.bufferSize \in Nat
        /\ \A i \in 0..c.bufferSize - 1 : c.buffer[i] \in Int
    BY <1>2, BufferCells
  <2>2. BlockSize("SHA256") - 1 = 63
    BY <1>2
  <2>3. c.bufferSize \in 0..63
    BY <2>1, <2>2
  <2> QED BY <2>1, <2>3, <1>1
<1>4. v \in Nat
  BY <1>1, <1>3
<1>5. PICK at, n : at = (IF h <= 55 THEN 56 ELSE 120) /\ n = (IF h <= 55 THEN 64 ELSE 128)
  OBVIOUS
<1>6. at = PaddedLength(c.bufferSize) /\ n = IF at > 64 THEN 128 ELSE 64
  <2>1. h \in 0..63
    BY <1>3
  <2>2. at = PaddedLength(h)
    BY <2>1, <1>5, PaddedLengths
  <2>3. n = IF at > 64 THEN 128 ELSE 64
    BY <1>5
  <2> QED BY <2>2, <2>3, <1>1
<1>7. f = [i \in 1..n |->
             LET p == i - 1
             IN  IF p < h THEN c.buffer[p]
                 ELSE IF p = h THEN -128
                 ELSE IF p \in at .. at + 7 THEN -ByteOf(v, 7 - (p - at))
                 ELSE 0]
  BY <1>1, <1>6 DEF Pad, PadSHA256
<1>8. /\ \A i \in 1..h : f[i] = c.buffer[i - 1]
      /\ f[h + 1] = -128
      /\ \A i \in (h + 2)..at : f[i] = 0
      /\ \A i \in 1..8 : f[at + i] = -ByteOf(v, 8 - i)
  <2>1. /\ \A i \in 1..h : i \in 1..n /\ i - 1 < h
        /\ h + 1 \in 1..n /\ (h + 1) - 1 = h
        /\ \A i \in (h + 2)..at : /\ i \in 1..n /\ ~(i - 1 < h) /\ i - 1 # h
                                  /\ i - 1 \notin at..at + 7
    BY <1>3, <1>5
  <2>2. \A i \in 1..8 : /\ at + i \in 1..n /\ ~((at + i) - 1 < h) /\ (at + i) - 1 # h
                        /\ (at + i) - 1 \in at..at + 7 /\ 7 - (((at + i) - 1) - at) = 8 - i
    BY <1>3, <1>5
  <2>3. \A i \in 1..h : f[i] = c.buffer[i - 1]
    BY <2>1, <1>7
  <2>4. f[h + 1] = -128
    BY <2>1, <1>7
  <2>5. \A i \in (h + 2)..at : f[i] = 0
    BY <2>1, <1>7
  <2>6. \A i \in 1..8 : f[at + i] = -ByteOf(v, 7 - (((at + i) - 1) - at))
    BY <2>2, <1>7
  <2> QED BY <2>2, <2>3, <2>4, <2>5, <2>6
<1>9. f \in Seq(Int) /\ Len(f) = n
  <2>1. \A i \in 1..n : f[i] \in Int
    <3> TAKE i \in 1..n
    <3>1. CASE i <= h
      <4>1. i \in 1..h /\ i - 1 \in 0..h - 1
        BY <3>1, <1>3, <1>5
      <4> QED BY <4>1, <1>3, <1>8
    <3>2. CASE i = h + 1
      BY <3>2, <1>8
    <3>3. CASE i > h + 1 /\ i <= at
      <4>1. i \in (h + 2)..at
        BY <3>3, <1>3, <1>5
      <4> QED BY <4>1, <1>8
    <3>4. CASE i > at
      <4>1. PICK j : j = i - at
        OBVIOUS
      <4>2. j \in 1..8 /\ at + j = i /\ 8 - j \in Int
        BY <4>1, <3>4, <1>3, <1>5
      <4>3. -ByteOf(v, 8 - j) \in Int
        BY <4>2, <1>4, ByteOfType
      <4> QED BY <4>2, <4>3, <1>8
    <3> QED BY <3>1, <3>2, <3>3, <3>4, <1>3, <1>5
  <2>2. n \in Nat /\ f \in [1..n -> Int]
    BY <2>1, <1>5, <1>7
  <2> QED BY <2>2, FunctionIsSeq
<1>10. PICK gap, t : gap = (IF h <= 55 THEN 55 - h ELSE 119 - h) /\ t = BigEndian(v, 8)
  OBVIOUS
<1>11. gap \in Nat /\ at = h + 1 + gap /\ n = h + 1 + gap + 8
  <2>1. h \in 0..63
    BY <1>3
  <2>2. CASE h <= 55
    BY <2>1, <2>2, <1>5, <1>10
  <2>3. CASE h > 55
    BY <2>1, <2>3, <1>5, <1>10
  <2> QED BY <2>1, <2>2, <2>3
<1>12. Len(t) = 8 /\ \A i \in 1..8 : t[i] = -ByteOf(v, 8 - i)
  BY <1>4, <1>10, BigEndianElements
<1>13. \A i \in 1..gap : f[h + 1 + i] = 0
  <2>1. \A i \in 1..gap : h + 1 + i \in (h + 2)..at
    BY <1>3, <1>11
  <2> QED BY <2>1, <1>8
<1>14. \A i \in 1..8 : f[h + 1 + gap + i] = t[i]
  BY <1>8, <1>11, <1>12
<1>15. Ending(c, -128, gap, t, f)
  BY <1>1, <1>8, <1>9, <1>11, <1>12, <1>13, <1>14 DEF Ending
<1> QED BY <1>1, <1>10, <1>15

\* SHA3: the marker, zeros and the bit in the last byte of the block, or both in
\* that byte.
LEMMA TailSHA3 ==
    ASSUME NEW k \in SHA3s, NEW c, NEW msg \in Seq(Int), Holds(c, k, msg)
    PROVE  IF c.bufferSize = BlockSize(k) - 1
           THEN Ending(c, -134, 0, <<>>, Pad(k, c))
           ELSE Ending(c, -6, BlockSize(k) - c.bufferSize - 2, <<-128>>, Pad(k, c))
<1>1. PICK h, bs, f : h = c.bufferSize /\ bs = BlockSize(k) /\ f = Pad(k, c)
  OBVIOUS
<1>2. bs \in Nat /\ bs >= 64 /\ k \in Streams \cup {"SHA512"}
  <2>1. k \in Streams \cup {"SHA512"}
    BY DEF Streams
  <2>2. BlockSize(k) \in Nat /\ BlockSize(k) >= 64
    BY <2>1, SizesOfKinds
  <2> QED BY <2>1, <2>2, <1>1
<1>3. h \in 0..bs - 1 /\ \A i \in 0..h - 1 : c.buffer[i] \in Int
  <2>1. /\ c.bufferSize \in 0..BlockSize(k) - 1
        /\ \A i \in 0..c.bufferSize - 1 : c.buffer[i] \in Int
    BY <1>2, BufferCells
  <2> QED BY <2>1, <1>1
<1>4. h \in Nat /\ h < bs
  BY <1>2, <1>3
<1>5. f = [i \in 1..bs |->
             LET p == i - 1
             IN  IF p < h THEN c.buffer[p]
                 ELSE IF p = h
                      THEN IF p = bs - 1 THEN -134 ELSE -6
                      ELSE IF p = bs - 1 THEN -128 ELSE 0]
  BY <1>1 DEF Pad, PadSHA3, SHA3s
<1>6. \A i \in 1..h : f[i] = c.buffer[i - 1] /\ f[i] \in Int
  <2>1. \A i \in 1..h : i \in 1..bs /\ i - 1 < h /\ i - 1 \in 0..h - 1
    BY <1>2, <1>4
  <2>2. \A i \in 1..h : f[i] = c.buffer[i - 1]
    BY <2>1, <1>5
  <2> QED BY <2>1, <2>2, <1>3
<1>7. h + 1 \in 1..bs /\ (h + 1) - 1 = h
  BY <1>2, <1>4
<1>8. f[h + 1] = IF h = bs - 1 THEN -134 ELSE -6
  BY <1>5, <1>7
<1>9. \A i \in (h + 2)..bs - 1 : f[i] = 0
  <2>1. \A i \in (h + 2)..bs - 1 : /\ i \in 1..bs /\ ~(i - 1 < h) /\ i - 1 # h
                                   /\ i - 1 # bs - 1
    BY <1>2, <1>4
  <2> QED BY <2>1, <1>5
<1>10. h # bs - 1 => f[bs] = -128
  <2>1. bs \in 1..bs /\ ~(bs - 1 < h)
    BY <1>2, <1>4
  <2> QED BY <2>1, <1>5
<1>11. f \in Seq(Int) /\ Len(f) = bs
  <2>1. \A i \in 1..bs : f[i] \in Int
    <3> TAKE i \in 1..bs
    <3>1. CASE i <= h
      <4>1. i \in 1..h
        BY <3>1, <1>4
      <4> QED BY <4>1, <1>6
    <3>2. CASE i = h + 1
      BY <3>2, <1>8
    <3>3. CASE i > h + 1 /\ i < bs
      <4>1. i \in (h + 2)..bs - 1
        BY <3>3, <1>2, <1>4
      <4> QED BY <4>1, <1>9
    <3>4. CASE i > h + 1 /\ i = bs
      <4>1. h # bs - 1
        BY <3>4, <1>2, <1>4
      <4> QED BY <4>1, <3>4, <1>10
    <3> QED BY <3>1, <3>2, <3>3, <3>4, <1>2, <1>4
  <2>2. f \in [1..bs -> Int]
    BY <2>1, <1>5
  <2> QED BY <2>2, <1>2, FunctionIsSeq
<1>12. CASE h = bs - 1
  <2>1. Len(f) = h + 1 + 0 + 0 /\ Len(<<>>) = 0
    BY <1>2, <1>4, <1>11, <1>12
  <2>2. Ending(c, -134, 0, <<>>, f)
    BY <2>1, <1>1, <1>6, <1>8, <1>11, <1>12 DEF Ending
  <2> QED BY <2>2, <1>1, <1>12
<1>13. CASE h # bs - 1
  <2>1. PICK gap, t : gap = bs - h - 2 /\ t = <<-128>>
    OBVIOUS
  <2>2. gap \in Nat /\ bs = h + 1 + gap + 1
    BY <2>1, <1>2, <1>4, <1>13
  <2>3. Len(t) = 1 /\ t[1] = -128
    BY <2>1
  <2>4. \A i \in 1..gap : f[h + 1 + i] = 0
    <3>1. \A i \in 1..gap : h + 1 + i \in (h + 2)..bs - 1
      BY <2>2, <1>2, <1>4
    <3> QED BY <3>1, <1>9
  <2>5. \A i \in 1..Len(t) : f[h + 1 + gap + i] = t[i]
    <3>1. \A i \in 1..1 : i = 1
      OBVIOUS
    <3> QED BY <3>1, <2>2, <2>3, <1>10, <1>13
  <2>6. Ending(c, -6, gap, t, f)
    BY <2>2, <2>3, <2>4, <2>5, <1>1, <1>6, <1>8, <1>11, <1>13 DEF Ending
  <2> QED BY <2>1, <2>6, <1>1, <1>13
<1> QED BY <1>12, <1>13

\* SHA512::final: the low 32 bits of the length end one block or the next.
LEMMA TailSHA512 ==
    ASSUME NEW c, NEW msg \in Seq(Int), Holds(c, "SHA512", msg)
    PROVE  Ending(c, -128,
                  IF c.bufferSize <= 111 THEN 111 - c.bufferSize ELSE 239 - c.bufferSize,
                  BigEndian((8 * (c.numBytes + c.bufferSize)) % Wrap, 16), Pad("SHA512", c))
<1>1. PICK h, v, f : /\ h = c.bufferSize /\ f = Pad("SHA512", c)
                     /\ v = (8 * (c.numBytes + c.bufferSize)) % Wrap
  OBVIOUS
<1>2. BlockSize("SHA512") - 1 = 127
  BY SizesOfKinds
<1>3. h \in 0..127 /\ v \in Nat /\ \A i \in 0..h - 1 : c.buffer[i] \in Int
  <2>1. /\ c.bufferSize \in 0..BlockSize("SHA512") - 1
        /\ c.numBytes + c.bufferSize \in Nat
        /\ \A i \in 0..c.bufferSize - 1 : c.buffer[i] \in Int
    BY BufferCells
  <2>2. PICK x : x = 8 * (c.numBytes + c.bufferSize)
    OBVIOUS
  <2>3. x \in Nat /\ Wrap \in Nat \ {0}
    BY <2>1, <2>2, SizesAssumption
  <2>4. v \in Nat
    BY <2>2, <2>3, <1>1
  <2>5. h \in 0..127
    BY <2>1, <1>1, <1>2
  <2> QED BY <2>1, <2>4, <2>5, <1>1
<1>4. h \in 0..127
  BY <1>3
<1>5. PICK n : n = IF h <= 111 THEN 128 ELSE 256
  OBVIOUS
<1>6. n = (IF 128 - 17 < h THEN 256 ELSE 128) /\ n \in Nat /\ h + 17 <= n
  BY <1>4, <1>5
<1>7. f = [i \in 1..n |->
             LET p == i - 1
             IN  IF p < h THEN c.buffer[p]
                 ELSE IF p = h THEN -128
                 ELSE IF p >= n - 4 THEN -ByteOf(v, n - 1 - p)
                 ELSE 0]
  BY <1>1, <1>6 DEF Pad, PadSHA512
<1>8. \A i \in 1..h : f[i] = c.buffer[i - 1] /\ f[i] \in Int
  <2>1. \A i \in 1..h : i \in 1..n /\ i - 1 < h /\ i - 1 \in 0..h - 1
    BY <1>4, <1>6
  <2>2. \A i \in 1..h : f[i] = c.buffer[i - 1]
    BY <2>1, <1>7
  <2> QED BY <2>1, <2>2, <1>3
<1>9. f[h + 1] = -128
  <2>1. h + 1 \in 1..n /\ (h + 1) - 1 = h
    BY <1>4, <1>6
  <2> QED BY <2>1, <1>7
<1>10. \A i \in (h + 2)..n - 4 : f[i] = 0
  <2>1. \A i \in (h + 2)..n - 4 : /\ i \in 1..n /\ ~(i - 1 < h) /\ i - 1 # h
                                  /\ ~(i - 1 >= n - 4)
    BY <1>4, <1>6
  <2> QED BY <2>1, <1>7
<1>11. \A j \in 0..3 : f[n - j] = -ByteOf(v, j) /\ f[n - j] \in Int
  <2> TAKE j \in 0..3
  <2>1. PICK i : i = n - j
    OBVIOUS
  <2>2. /\ i \in 1..n /\ ~(i - 1 < h) /\ i - 1 # h /\ i - 1 >= n - 4
        /\ n - 1 - (i - 1) = j /\ j \in Int
    BY <2>1, <1>4, <1>6
  <2>3. f[i] = -ByteOf(v, n - 1 - (i - 1))
    BY <2>2, <1>7
  <2>4. -ByteOf(v, j) \in Int
    BY <2>2, <1>3, ByteOfType
  <2> QED BY <2>1, <2>2, <2>3, <2>4
<1>12. f \in Seq(Int) /\ Len(f) = n
  <2>1. \A i \in 1..n : f[i] \in Int
    <3> TAKE i \in 1..n
    <3>1. CASE i <= h
      <4>1. i \in 1..h
        BY <3>1, <1>4
      <4> QED BY <4>1, <1>8
    <3>2. CASE i = h + 1
      BY <3>2, <1>9
    <3>3. CASE i > h + 1 /\ i <= n - 4
      <4>1. i \in (h + 2)..n - 4
        BY <3>3, <1>4, <1>6
      <4> QED BY <4>1, <1>10
    <3>4. CASE i > n - 4
      <4>1. PICK j : j = n - i
        OBVIOUS
      <4>2. j \in 0..3 /\ n - j = i
        BY <4>1, <3>4, <1>6
      <4> QED BY <4>2, <1>11
    <3> QED BY <3>1, <3>2, <3>3, <3>4, <1>4, <1>6
  <2>2. f \in [1..n -> Int]
    BY <2>1, <1>7
  <2> QED BY <2>2, <1>6, FunctionIsSeq
<1>13. PICK gap, t : gap = (IF h <= 111 THEN 111 - h ELSE 239 - h) /\ t = BigEndian(v, 16)
  OBVIOUS
<1>14. gap \in Nat /\ n = h + 1 + gap + 16
  <2>1. CASE h <= 111
    BY <2>1, <1>4, <1>5, <1>13
  <2>2. CASE h > 111
    BY <2>2, <1>4, <1>5, <1>13
  <2> QED BY <2>1, <2>2, <1>4
<1>15. Len(t) = 16 /\ \A i \in 1..16 : t[i] = -ByteOf(v, 16 - i)
  BY <1>3, <1>13, BigEndianElements
<1>16. \A i \in 1..gap : f[h + 1 + i] = 0
  <2>1. \A i \in 1..gap : h + 1 + i \in (h + 2)..n - 4
    BY <1>4, <1>14
  <2> QED BY <2>1, <1>10
<1>17. \A i \in 1..16 : f[h + 1 + gap + i] = t[i]
  <2> TAKE i \in 1..16
  <2>1. CASE i <= 12
    <3>1. h + 1 + gap + i \in (h + 2)..n - 4
      BY <2>1, <1>4, <1>14
    <3>2. f[h + 1 + gap + i] = 0
      BY <3>1, <1>10
    <3>3. 16 - i \in Int /\ 16 - i > 3
      BY <2>1
    <3>4. ByteOf(v, 16 - i) = 0
      BY <3>3 DEF ByteOf
    <3>5. -ByteOf(v, 16 - i) = 0
      BY <3>4
    <3>6. t[i] = -ByteOf(v, 16 - i)
      BY <1>15
    <3> QED BY <3>2, <3>5, <3>6, Zenon
  <2>2. CASE i > 12
    <3>1. 16 - i \in 0..3 /\ n - (16 - i) = h + 1 + gap + i
      BY <2>2, <1>4, <1>14
    <3>2. f[n - (16 - i)] = -ByteOf(v, 16 - i)
      BY <3>1, <1>11
    <3>3. t[i] = -ByteOf(v, 16 - i)
      BY <1>15
    <3>4. f[h + 1 + gap + i] = -ByteOf(v, 16 - i)
      BY <3>1, <3>2, Zenon
    <3> QED BY <3>3, <3>4, Zenon
  <2> QED BY <2>1, <2>2
<1>18. Ending(c, -128, gap, t, f)
  BY <1>1, <1>8, <1>9, <1>12, <1>14, <1>15, <1>16, <1>17 DEF Ending
<1> QED BY <1>1, <1>13, <1>18

-----------------------------------------------------------------------------
(* The digests *)

\* x is a message, a marker, gap zeros and a trailer.
Filling(msg, marker, gap, trailer, x) ==
    /\ x \in Seq(Int) /\ Len(x) = Len(msg) + 1 + gap + Len(trailer)
    /\ \A i \in 1..Len(msg) : x[i] = msg[i]
    /\ x[Len(msg) + 1] = marker
    /\ \A i \in 1..gap : x[Len(msg) + 1 + i] = 0
    /\ \A i \in 1..Len(trailer) : x[Len(msg) + 1 + gap + i] = trailer[i]

\* There is one such sequence.
LEMMA FillingUnique ==
    ASSUME NEW msg \in Seq(Int), NEW marker, NEW gap \in Nat, NEW trailer \in Seq(Int),
           NEW x, Filling(msg, marker, gap, trailer, x),
           NEW y, Filling(msg, marker, gap, trailer, y)
    PROVE  x = y
<1>1. PICK l, t : l = Len(msg) /\ t = Len(trailer)
  OBVIOUS
<1>2. l \in Nat /\ t \in Nat
  BY <1>1, LenProperties
<1>3. x \in Seq(Int) /\ y \in Seq(Int) /\ Len(x) = l + 1 + gap + t /\ Len(y) = l + 1 + gap + t
  BY <1>1 DEF Filling
<1>4. \A i \in 1..(l + 1 + gap + t) : x[i] = y[i]
  <2> TAKE i \in 1..(l + 1 + gap + t)
  <2>1. CASE i <= l
    <3>1. i \in 1..l
      BY <2>1, <1>2
    <3> QED BY <3>1, <1>1 DEF Filling
  <2>2. CASE i = l + 1
    BY <2>2, <1>1 DEF Filling
  <2>3. CASE i > l + 1 /\ i <= l + 1 + gap
    <3>1. PICK j : j = i - (l + 1)
      OBVIOUS
    <3>2. j \in 1..gap /\ l + 1 + j = i
      BY <3>1, <2>3, <1>2
    <3>3. x[l + 1 + j] = 0 /\ y[l + 1 + j] = 0
      BY <3>2, <1>1 DEF Filling
    <3> QED BY <3>2, <3>3
  <2>4. CASE i > l + 1 + gap
    <3>1. PICK j : j = i - (l + 1 + gap)
      OBVIOUS
    <3>2. j \in 1..t /\ l + 1 + gap + j = i
      BY <3>1, <2>4, <1>2
    <3>3. x[l + 1 + gap + j] = trailer[j] /\ y[l + 1 + gap + j] = trailer[j]
      BY <3>2, <1>1 DEF Filling
    <3> QED BY <3>2, <3>3
  <2> QED BY <2>1, <2>2, <2>3, <2>4, <1>2
<1> QED BY <1>3, <1>4, SeqEqual

\* It is what the standards put together.
LEMMA FillingConcat ==
    ASSUME NEW msg \in Seq(Int), NEW marker \in Int, NEW gap \in Nat,
           NEW trailer \in Seq(Int)
    PROVE  Filling(msg, marker, gap, trailer, msg \o <<marker>> \o Zeros(gap) \o trailer)
<1>1. PICK o, z : o = <<marker>> /\ z = Zeros(gap)
  OBVIOUS
<1>2. o \in Seq(Int) /\ Len(o) = 1 /\ o[1] = marker
  BY <1>1
<1>3. z \in Seq(Int) /\ Len(z) = gap /\ \A i \in 1..gap : z[i] = 0
  <2>1. z \in [1..gap -> Int] /\ \A i \in 1..gap : z[i] = 0
    BY <1>1 DEF Zeros
  <2> QED BY <2>1, FunctionIsSeq
<1>4. PICK l, t : l = Len(msg) /\ t = Len(trailer)
  OBVIOUS
<1>5. l \in Nat /\ t \in Nat
  BY <1>4, LenProperties
<1>6. PICK u : u = msg \o o
  OBVIOUS
<1>7. /\ u \in Seq(Int) /\ Len(u) = l + 1
      /\ \A i \in 1..l : u[i] = msg[i]
      /\ u[l + 1] = marker
  <2>1. /\ msg \o o \in Seq(Int) /\ Len(msg \o o) = Len(msg) + Len(o)
        /\ \A i \in 1..Len(msg) : (msg \o o)[i] = msg[i]
        /\ \A i \in 1..Len(o) : (msg \o o)[Len(msg) + i] = o[i]
    <3>1. o \in Seq(Int)
      BY <1>2
    <3> QED BY <3>1, ConcatElements
  <2>2. 1 \in 1..1
    OBVIOUS
  <2> QED BY <2>1, <2>2, <1>2, <1>4, <1>6
<1>8. PICK v : v = u \o z
  OBVIOUS
<1>9. /\ v \in Seq(Int) /\ Len(v) = l + 1 + gap
      /\ \A i \in 1..(l + 1) : v[i] = u[i]
      /\ \A i \in 1..gap : v[l + 1 + i] = 0
  <2>1. u \in Seq(Int) /\ z \in Seq(Int)
    BY <1>3, <1>7
  <2>2. /\ u \o z \in Seq(Int) /\ Len(u \o z) = Len(u) + Len(z)
        /\ \A i \in 1..Len(u) : (u \o z)[i] = u[i]
        /\ \A i \in 1..Len(z) : (u \o z)[Len(u) + i] = z[i]
    BY <2>1, ConcatElements
  <2> QED BY <2>2, <1>3, <1>7, <1>8
<1>10. PICK x : x = v \o trailer
  OBVIOUS
<1>11. /\ x \in Seq(Int) /\ Len(x) = l + 1 + gap + t
       /\ \A i \in 1..(l + 1 + gap) : x[i] = v[i]
       /\ \A i \in 1..t : x[l + 1 + gap + i] = trailer[i]
  <2>1. v \in Seq(Int)
    BY <1>9
  <2>2. /\ v \o trailer \in Seq(Int) /\ Len(v \o trailer) = Len(v) + Len(trailer)
        /\ \A i \in 1..Len(v) : (v \o trailer)[i] = v[i]
        /\ \A i \in 1..Len(trailer) : (v \o trailer)[Len(v) + i] = trailer[i]
    BY <2>1, ConcatElements
  <2> QED BY <2>2, <1>4, <1>9, <1>10
<1>12. \A i \in 1..l : x[i] = msg[i]
  <2>1. \A i \in 1..l : i \in 1..(l + 1) /\ i \in 1..(l + 1 + gap)
    BY <1>5
  <2> QED BY <2>1, <1>7, <1>9, <1>11
<1>13. x[l + 1] = marker
  <2>1. l + 1 \in 1..(l + 1) /\ l + 1 \in 1..(l + 1 + gap)
    BY <1>5
  <2> QED BY <2>1, <1>7, <1>9, <1>11
<1>14. \A i \in 1..gap : x[l + 1 + i] = 0
  <2>1. \A i \in 1..gap : l + 1 + i \in 1..(l + 1 + gap)
    BY <1>5
  <2> QED BY <2>1, <1>9, <1>11
<1>15. Filling(msg, marker, gap, trailer, x)
  BY <1>4, <1>11, <1>12, <1>13, <1>14 DEF Filling
<1>16. x = msg \o <<marker>> \o Zeros(gap) \o trailer
  BY <1>1, <1>6, <1>8, <1>10
<1> QED BY <1>15, <1>16

\* And what the compression function is given with the last block.
LEMMA FillingEnding ==
    ASSUME NEW k, NEW c, NEW msg \in Seq(Int), Holds(c, k, msg),
           NEW marker, NEW gap \in Nat, NEW trailer \in Seq(Int),
           NEW padded, Ending(c, marker, gap, trailer, padded)
    PROVE  Filling(msg, marker, gap, trailer, Compress(k, c.absorbed, padded))
<1>1. PICK z, h, t : z = c.absorbed /\ h = c.bufferSize /\ t = Len(trailer)
  OBVIOUS
<1>2. PICK a : a = Len(z)
  OBVIOUS
<1>3. /\ z \in Seq(Int) /\ a \in Nat /\ h \in Nat /\ a + h = Len(msg) /\ t \in Nat
      /\ \A i \in 1..a : z[i] = msg[i]
      /\ \A i \in 0..h - 1 : c.buffer[i] = msg[a + i + 1]
  BY <1>1, <1>2, LenProperties DEF Holds
<1>4. /\ padded \in Seq(Int) /\ Len(padded) = h + 1 + gap + t
      /\ \A i \in 1..h : padded[i] = c.buffer[i - 1]
      /\ padded[h + 1] = marker
      /\ \A i \in 1..gap : padded[h + 1 + i] = 0
      /\ \A i \in 1..t : padded[h + 1 + gap + i] = trailer[i]
  BY <1>1 DEF Ending
<1>5. PICK x, n : x = z \o padded /\ n = h + 1 + gap + t
  OBVIOUS
<1>6. /\ x \in Seq(Int) /\ Len(x) = a + n
      /\ \A i \in 1..a : x[i] = z[i]
      /\ \A i \in 1..n : x[a + i] = padded[i]
  <2>1. padded \in Seq(Int) /\ z \in Seq(Int)
    BY <1>3, <1>4
  <2>2. /\ z \o padded \in Seq(Int) /\ Len(z \o padded) = Len(z) + Len(padded)
        /\ \A i \in 1..Len(z) : (z \o padded)[i] = z[i]
        /\ \A i \in 1..Len(padded) : (z \o padded)[Len(z) + i] = padded[i]
    BY <2>1, ConcatElements
  <2> QED BY <2>2, <1>2, <1>4, <1>5
<1>7. a \in Nat /\ h \in Nat /\ t \in Nat /\ n = h + 1 + gap + t
  BY <1>3, <1>5
<1>8. \A i \in 1..(a + h) : x[i] = msg[i]
  <2> TAKE i \in 1..(a + h)
  <2>1. CASE i <= a
    <3>1. i \in 1..a
      BY <2>1, <1>7
    <3> QED BY <3>1, <1>3, <1>6
  <2>2. CASE i > a
    <3>1. PICK j : j = i - a
      OBVIOUS
    <3>2. j \in 1..h /\ j \in 1..n /\ j - 1 \in 0..h - 1 /\ a + j = i /\ a + (j - 1) + 1 = i
      BY <3>1, <2>2, <1>7
    <3>3. x[a + j] = padded[j] /\ padded[j] = c.buffer[j - 1]
      BY <3>2, <1>4, <1>6
    <3>4. c.buffer[j - 1] = msg[a + (j - 1) + 1]
      BY <3>2, <1>3
    <3> QED BY <3>2, <3>3, <3>4
  <2> QED BY <2>1, <2>2, <1>7
<1>9. x[a + h + 1] = marker
  <2>1. h + 1 \in 1..n /\ a + (h + 1) = a + h + 1
    BY <1>7
  <2>2. x[a + (h + 1)] = padded[h + 1]
    BY <2>1, <1>6
  <2> QED BY <2>1, <2>2, <1>4
<1>10. \A i \in 1..gap : x[a + h + 1 + i] = 0
  <2> TAKE i \in 1..gap
  <2>1. h + 1 + i \in 1..n /\ a + (h + 1 + i) = a + h + 1 + i
    BY <1>7
  <2>2. x[a + (h + 1 + i)] = padded[h + 1 + i]
    BY <2>1, <1>6
  <2> QED BY <2>1, <2>2, <1>4
<1>11. \A i \in 1..t : x[a + h + 1 + gap + i] = trailer[i]
  <2> TAKE i \in 1..t
  <2>1. h + 1 + gap + i \in 1..n /\ a + (h + 1 + gap + i) = a + h + 1 + gap + i
    BY <1>7
  <2>2. x[a + (h + 1 + gap + i)] = padded[h + 1 + gap + i]
    BY <2>1, <1>6
  <2> QED BY <2>1, <2>2, <1>4
<1>12. Len(x) = a + h + 1 + gap + t
  BY <1>6, <1>7
<1>13. Filling(msg, marker, gap, trailer, x)
  BY <1>1, <1>3, <1>6, <1>8, <1>9, <1>10, <1>11, <1>12 DEF Filling
<1>14. Compress(k, c.absorbed, padded) = x
  BY <1>1, <1>5, CompressIsConcat
<1> QED BY <1>13, <1>14

\* How many zeros the standards want, from what the buffer holds: a trailer of
\* t bytes ends the block, or else the next one.
BlockGap(bs, t, a, h) ==
    (bs - ((a + h + 1 + t) % bs)) % bs
      = IF h <= bs - t - 1 THEN bs - t - 1 - h ELSE 2 * bs - t - 1 - h

\* The zeros SHA-256's padding needs, in one block or in two.
LEMMA GapsSHA256 ==
    ASSUME NEW a \in Nat, NEW h \in Nat, a % 64 = 0, h < 64
    PROVE  BlockGap(64, 8, a, h)
<1>1. CASE h <= 55
  BY <1>1 DEF BlockGap
<1>2. CASE h > 55
  BY <1>2 DEF BlockGap
<1> QED BY <1>1, <1>2

\* The zeros SHA-512's padding needs, in one block or in two.
LEMMA GapsSHA512 ==
    ASSUME NEW a \in Nat, NEW h \in Nat, a % 128 = 0, h < 128
    PROVE  BlockGap(128, 16, a, h)
<1>1. CASE h <= 111
  BY <1>1 DEF BlockGap
<1>2. CASE h > 111
  BY <1>2 DEF BlockGap
<1> QED BY <1>1, <1>2

\* The same for a sponge, whose marker may fall on the last byte of a block.
SpongeGap(bs, a, h) ==
    /\ (a + h + 1) % bs = 0 <=> h = bs - 1
    /\ h # bs - 1 => (bs - ((a + h + 1 + 1) % bs)) % bs = bs - h - 2

\* The zeros SHA-3's padding needs, for each of its rates.
LEMMA SpongeGaps ==
    ASSUME NEW bs \in Sizes, NEW a \in Nat, a % bs = 0, NEW h \in Nat, h < bs
    PROVE  SpongeGap(bs, a, h)
<1>1. CASE bs = 64 BY <1>1 DEF SpongeGap
<1>2. CASE bs = 72 BY <1>2 DEF SpongeGap
<1>3. CASE bs = 104 BY <1>3 DEF SpongeGap
<1>4. CASE bs = 128 BY <1>4 DEF SpongeGap
<1>5. CASE bs = 136 BY <1>5 DEF SpongeGap
<1>6. CASE bs = 144 BY <1>6 DEF SpongeGap
<1> QED BY <1>1, <1>2, <1>3, <1>4, <1>5, <1>6 DEF Sizes

\* What the standards hash, by kind: as Filling says.
LEMMA FilledIs ==
    ASSUME NEW msg \in Seq(Int), NEW marker \in Int, NEW trailer \in Seq(Int), NEW bs,
           NEW gap \in Nat,
           gap = (bs - ((Len(msg) + 1 + Len(trailer)) % bs)) % bs
    PROVE  Filling(msg, marker, gap, trailer, Filled(msg, marker, trailer, bs))
<1>1. Filled(msg, marker, trailer, bs) = msg \o <<marker>> \o Zeros(gap) \o trailer
  BY DEF Filled
<1> QED BY <1>1, FillingConcat

\* A digest and the standard's are the same message, filled the same way.
LEMMA SameFilling ==
    ASSUME NEW k, NEW c, NEW msg \in Seq(Int), Holds(c, k, msg),
           NEW marker \in Int, NEW gap \in Nat, NEW trailer \in Seq(Int), NEW bs,
           Ending(c, marker, gap, trailer, Pad(k, c)),
           gap = (bs - ((Len(msg) + 1 + Len(trailer)) % bs)) % bs
    PROVE  Compress(k, c.absorbed, Pad(k, c)) = Filled(msg, marker, trailer, bs)
<1>1. Filling(msg, marker, gap, trailer, Compress(k, c.absorbed, Pad(k, c)))
  BY FillingEnding
<1>2. Filling(msg, marker, gap, trailer, Filled(msg, marker, trailer, bs))
  BY FilledIs
<1> QED BY <1>1, <1>2, FillingUnique

\* The numbers of an object that holds a message.
LEMMA HeldNumbers ==
    ASSUME NEW k, NEW c, NEW msg \in Seq(Int), Holds(c, k, msg)
    PROVE  /\ Len(c.absorbed) \in Nat /\ c.bufferSize \in Nat /\ c.bufferSize < BlockSize(k)
           /\ Len(msg) = Len(c.absorbed) + c.bufferSize /\ Len(msg) \in Nat
           /\ Len(c.absorbed) % BlockSize(k) = 0
           /\ c.numBytes \in Nat
           /\ (k = "SHA512" => Len(c.absorbed) < Wrap) => c.numBytes = Len(c.absorbed)
<1> QED BY LenProperties DEF Holds

\* A SHA256 digest is the standard's.
LEMMA DigestSHA256 ==
    ASSUME NEW k \in {"SHA256"}, NEW c, NEW msg \in Seq(Int), Holds(c, k, msg)
    PROVE  Compress(k, c.absorbed, Pad(k, c)) = Standard(k, msg)
<1>1. PICK a, h, l : a = Len(c.absorbed) /\ h = c.bufferSize /\ l = Len(msg)
  OBVIOUS
<1>2. PICK gap, t : gap = (IF h <= 55 THEN 55 - h ELSE 119 - h) /\ t = BigEndian(8 * l, 8)
  OBVIOUS
<1>3. BlockSize(k) = 64
  BY SizesOfKinds DEF Streams
<1>n. /\ a \in Nat /\ h \in Nat /\ h < BlockSize(k) /\ l = a + h /\ l \in Nat
      /\ a % BlockSize(k) = 0
      /\ (k = "SHA512" => a < Wrap) => c.numBytes = a
  BY <1>1, HeldNumbers, Zenon
<1>4. a \in Nat /\ h \in Nat /\ h < 64 /\ a + h = l /\ l \in Nat
  BY <1>n, <1>3
<1>5. a % 64 = 0 /\ c.numBytes = a
  BY <1>n, <1>3
<1>6. gap \in Nat /\ -128 \in Int
  BY <1>2, <1>4
<1>7. t \in Seq(Int) /\ Len(t) = 8
  <2>1. 8 * l \in Nat
    BY <1>4
  <2> QED BY <2>1, <1>2, BigEndianElements
<1>8. c.numBytes + c.bufferSize = l
  BY <1>1, <1>4, <1>5
<1>9. Ending(c, -128, gap, t, Pad(k, c))
  <2>1. Ending(c, -128, IF c.bufferSize <= 55 THEN 55 - c.bufferSize ELSE 119 - c.bufferSize,
               BigEndian(8 * (c.numBytes + c.bufferSize), 8), Pad(k, c))
    BY TailSHA256
  <2> QED BY <2>1, <1>1, <1>2, <1>8, Zenon
<1>10. gap = (64 - ((Len(msg) + 1 + Len(t)) % 64)) % 64
  <2>1. gap = (64 - ((a + h + 1 + 8) % 64)) % 64
    <3>1. /\ a \in Nat /\ h \in Nat /\ h < 64 /\ a % 64 = 0
      BY <1>4, <1>5
    <3>2. BlockGap(64, 8, a, h)
      BY <3>1, GapsSHA256
    <3> QED BY <3>1, <3>2, <1>2 DEF BlockGap
  <2>2. a + h + 1 + 8 = Len(msg) + 1 + Len(t)
    BY <1>1, <1>4, <1>7
  <2> QED BY <2>1, <2>2, Zenon
<1>11. Compress(k, c.absorbed, Pad(k, c)) = Filled(msg, -128, t, 64)
  <2>1. PICK bs, marker : bs = 64 /\ marker = -128
    OBVIOUS
  <2>2. /\ marker \in Int /\ gap \in Nat /\ t \in Seq(Int)
        /\ Ending(c, marker, gap, t, Pad(k, c))
        /\ gap = (bs - ((Len(msg) + 1 + Len(t)) % bs)) % bs
    BY <2>1, <1>6, <1>7, <1>9, <1>10
  <2>3. Compress(k, c.absorbed, Pad(k, c)) = Filled(msg, marker, t, bs)
    BY <2>2, SameFilling
  <2> QED BY <2>1, <2>3
<1> QED BY <1>1, <1>2, <1>11 DEF Standard

\* A SHA3 digest is the standard's.
LEMMA DigestSHA3 ==
    ASSUME NEW k \in SHA3s, NEW c, NEW msg \in Seq(Int), Holds(c, k, msg)
    PROVE  Compress(k, c.absorbed, Pad(k, c)) = Standard(k, msg)
<1>1. PICK a, h, l, bs, x : /\ a = Len(c.absorbed) /\ h = c.bufferSize /\ l = Len(msg)
                            /\ bs = BlockSize(k) /\ x = Compress(k, c.absorbed, Pad(k, c))
  OBVIOUS
<1>2. bs \in Sizes /\ bs \in Nat /\ bs >= 64
  <2>1. k \in Streams \cup {"SHA512"}
    BY DEF Streams
  <2>2. BlockSize(k) \in Sizes /\ BlockSize(k) \in Nat /\ BlockSize(k) >= 64
    BY <2>1, SizesOfKinds
  <2> QED BY <2>2, <1>1
<1>3. /\ a \in Nat /\ h \in Nat /\ h < BlockSize(k) /\ l = a + h /\ l \in Nat
      /\ a % BlockSize(k) = 0
  BY <1>1, HeldNumbers, Zenon
<1>4. a \in Nat /\ h \in Nat /\ h < bs /\ l = a + h
  BY <1>1, <1>3
<1>5. SpongeGap(bs, a, h)
  BY <1>1, <1>2, <1>3, SpongeGaps
<1>6. Standard(k, msg) = Sponge(msg, -6, bs)
  BY <1>1 DEF Standard, SHA3s
<1>7. CASE h = bs - 1
  <2>1. PICK marker, gap, t : marker = -134 /\ gap = 0 /\ t = <<>>
    OBVIOUS
  <2>2. marker \in Int /\ gap \in Nat /\ t \in Seq(Int) /\ Len(t) = 0
    BY <2>1
  <2>3. Ending(c, marker, gap, t, Pad(k, c))
    BY <2>1, <1>1, <1>7, TailSHA3
  <2>4. Filling(msg, marker, gap, t, x)
    BY <2>2, <2>3, <1>1, FillingEnding
  <2>5. Filling(msg, marker, gap, t, msg \o <<marker>> \o Zeros(gap) \o t)
    BY <2>2, FillingConcat
  <2>6. x = msg \o <<marker>> \o Zeros(gap) \o t
    BY <2>2, <2>4, <2>5, FillingUnique
  <2>7. msg \o <<marker>> \o Zeros(gap) \o t = msg \o <<marker>>
    <3>1. <<marker>> \in Seq(Int)
      BY <2>2
    <3>2. PICK u : u = msg \o <<marker>>
      OBVIOUS
    <3>3. u \in Seq(Int)
      BY <3>1, <3>2, ConcatElements
    <3>4. Zeros(gap) = <<>>
      BY <2>1 DEF Zeros
    <3>5. u \o <<>> = u
      BY <3>3, ConcatEmptySeq
    <3> QED BY <3>2, <3>4, <3>5, <2>1
  <2>8. (a + h + 1) % bs = 0
    BY <1>5, <1>7 DEF SpongeGap
  <2>9. a + h + 1 = Len(msg) + 1 /\ -6 - 128 = marker
    BY <2>1, <1>1, <1>4
  <2>10. (Len(msg) + 1) % bs = 0
    BY <2>8, <2>9, Zenon
  <2>11. Sponge(msg, -6, bs) = msg \o <<marker>>
    BY <2>9, <2>10 DEF Sponge
  <2> QED BY <2>6, <2>7, <2>11, <1>1, <1>6
<1>8. CASE h # bs - 1
  <2>1. PICK marker, gap, t : marker = -6 /\ gap = bs - h - 2 /\ t = <<-128>>
    OBVIOUS
  <2>2. marker \in Int /\ gap \in Nat /\ t \in Seq(Int) /\ Len(t) = 1
    BY <2>1, <1>2, <1>4, <1>8
  <2>3. Ending(c, marker, gap, t, Pad(k, c))
    BY <2>1, <1>1, <1>8, TailSHA3
  <2>4. a + h + 1 + 1 = Len(msg) + 1 + Len(t) /\ a + h + 1 = Len(msg) + 1
    BY <2>2, <1>1, <1>4
  <2>5. /\ (bs - ((a + h + 1 + 1) % bs)) % bs = bs - h - 2
        /\ ~((a + h + 1) % bs = 0)
    BY <1>5, <1>8 DEF SpongeGap
  <2>6. gap = (bs - ((Len(msg) + 1 + Len(t)) % bs)) % bs
    BY <2>1, <2>4, <2>5, Zenon
  <2>7. Compress(k, c.absorbed, Pad(k, c)) = Filled(msg, marker, t, bs)
    <3>1. marker \in Int /\ gap \in Nat /\ t \in Seq(Int)
      BY <2>2
    <3> QED BY <3>1, <2>3, <2>6, SameFilling
  <2>8. ~((Len(msg) + 1) % bs = 0)
    BY <2>4, <2>5, Zenon
  <2> QED BY <2>1, <2>7, <2>8, <1>6 DEF Sponge
<1> QED BY <1>7, <1>8

\* A SHA512 digest ends with the message's length in bits, as far as 32 bits
\* tell it.
LEMMA LengthSHA512 ==
    ASSUME NEW k \in {"SHA512"}, NEW c, NEW msg \in Seq(Int), Holds(c, k, msg)
    PROVE  \E v \in Nat :
              /\ v < Wrap
              /\ 8 * Len(msg) < Wrap => v = 8 * Len(msg)
              /\ Compress(k, c.absorbed, Pad(k, c)) = Filled(msg, -128, BigEndian(v, 16), 128)
<1>1. PICK a, h, l, nb : /\ a = Len(c.absorbed) /\ h = c.bufferSize /\ l = Len(msg)
                         /\ nb = c.numBytes
  OBVIOUS
<1>2. PICK v, gap : /\ v = (8 * (nb + h)) % Wrap
                    /\ gap = (IF h <= 111 THEN 111 - h ELSE 239 - h)
  OBVIOUS
<1>3. BlockSize(k) = 128
  BY SizesOfKinds
<1>4. /\ a \in Nat /\ h \in Nat /\ h < BlockSize(k) /\ l = a + h /\ l \in Nat
      /\ a % BlockSize(k) = 0 /\ nb \in Nat
      /\ (k = "SHA512" => a < Wrap) => nb = a
  BY <1>1, HeldNumbers, Zenon
<1>5. a \in Nat /\ h \in Nat /\ h < 128 /\ l = a + h /\ nb \in Nat /\ (a < Wrap => nb = a)
  BY <1>3, <1>4
<1>6. a % 128 = 0
  BY <1>3, <1>4
<1>7. Wrap \in Nat /\ Wrap # 0
  BY SizesAssumption
<1>8. v \in Nat /\ v < Wrap
  <2>1. PICK x : x = 8 * (nb + h)
    OBVIOUS
  <2>2. x \in Nat
    BY <2>1, <1>5
  <2> QED BY <2>1, <2>2, <1>2, <1>7
<1>9. 8 * l < Wrap => v = 8 * l
  <2> SUFFICES ASSUME 8 * l < Wrap PROVE v = 8 * l
    OBVIOUS
  <2>1. nb = a
    BY <1>5, <1>7
  <2>2. 8 * (nb + h) = 8 * l /\ 8 * l \in Nat
    BY <2>1, <1>5
  <2>3. (8 * l) % Wrap = 8 * l
    BY <2>2, <1>7, SmallRemainder
  <2> QED BY <2>2, <2>3, <1>2
<1>10. PICK t, marker, bs : t = BigEndian(v, 16) /\ marker = -128 /\ bs = 128
  OBVIOUS
<1>11. t \in Seq(Int) /\ Len(t) = 16 /\ marker \in Int /\ gap \in Nat
  <2>1. 16 \in Nat /\ v \in Nat
    BY <1>8
  <2>2. t \in Seq(Int) /\ Len(t) = 16
    BY <2>1, <1>10, BigEndianElements
  <2>3. marker \in Int
    BY <1>10
  <2>4. gap \in Nat
    BY <1>2, <1>5
  <2> QED BY <2>2, <2>3, <2>4
<1>12. Ending(c, marker, gap, t, Pad(k, c))
  <2>1. Ending(c, -128,
               IF c.bufferSize <= 111 THEN 111 - c.bufferSize ELSE 239 - c.bufferSize,
               BigEndian((8 * (c.numBytes + c.bufferSize)) % Wrap, 16), Pad(k, c))
    BY TailSHA512
  <2> QED BY <2>1, <1>1, <1>2, <1>10, Zenon
<1>13. gap = (bs - ((Len(msg) + 1 + Len(t)) % bs)) % bs
  <2>1. BlockGap(128, 16, a, h)
    BY <1>5, <1>6, GapsSHA512
  <2>2. gap = (128 - ((a + h + 1 + 16) % 128)) % 128
    BY <2>1, <1>2, <1>5 DEF BlockGap
  <2>3. a + h + 1 + 16 = Len(msg) + 1 + Len(t)
    BY <1>1, <1>5, <1>11
  <2> QED BY <2>2, <2>3, <1>10, Zenon
<1>14. Compress(k, c.absorbed, Pad(k, c)) = Filled(msg, marker, t, bs)
  <2>1. marker \in Int /\ gap \in Nat /\ t \in Seq(Int)
    BY <1>11
  <2> QED BY <2>1, <1>12, <1>13, SameFilling
<1> QED BY <1>1, <1>8, <1>9, <1>10, <1>14

\* So it is the standard's digest as long as the length fits.
LEMMA DigestSHA512 ==
    ASSUME NEW k \in {"SHA512"}, NEW c, NEW msg \in Seq(Int), Holds(c, k, msg),
           8 * Len(msg) < Wrap
    PROVE  Compress(k, c.absorbed, Pad(k, c)) = Standard(k, msg)
<1>1. PICK v \in Nat :
         /\ 8 * Len(msg) < Wrap => v = 8 * Len(msg)
         /\ Compress(k, c.absorbed, Pad(k, c)) = Filled(msg, -128, BigEndian(v, 16), 128)
  BY LengthSHA512
<1> QED BY <1>1 DEF Standard

\* And no longer.
LEMMA OtherDigestSHA512 ==
    ASSUME NEW k \in {"SHA512"}, NEW c, NEW msg \in Seq(Int), Holds(c, k, msg),
           8 * Len(msg) >= Wrap, 8 * Len(msg) < 256 * 256 * 256 * 256
    PROVE  Compress(k, c.absorbed, Pad(k, c)) # Standard(k, msg)
<1> SUFFICES ASSUME Compress(k, c.absorbed, Pad(k, c)) = Standard(k, msg)
             PROVE  FALSE
  OBVIOUS
<1>1. PICK u \in Nat :
         /\ u < Wrap
         /\ Compress(k, c.absorbed, Pad(k, c)) = Filled(msg, -128, BigEndian(u, 16), 128)
  BY LengthSHA512
<1>2. PICK v, l : v = 8 * Len(msg) /\ l = Len(msg)
  OBVIOUS
<1>3. l \in Nat /\ v \in Nat /\ v >= Wrap /\ v < 256 * 256 * 256 * 256
  BY <1>2, LenProperties
<1>4. PICK s, t, marker, bs : /\ s = BigEndian(u, 16) /\ t = BigEndian(v, 16)
                              /\ marker = -128 /\ bs = 128
  OBVIOUS
<1>5. /\ s \in Seq(Int) /\ Len(s) = 16 /\ \A i \in 1..16 : s[i] = -ByteOf(u, 16 - i)
      /\ t \in Seq(Int) /\ Len(t) = 16 /\ \A i \in 1..16 : t[i] = -ByteOf(v, 16 - i)
  BY <1>1, <1>3, <1>4, BigEndianElements
<1>6. Filled(msg, marker, s, bs) = Filled(msg, marker, t, bs)
  <2>1. Standard(k, msg) = Filled(msg, -128, BigEndian(v, 16), 128)
    BY <1>2 DEF Standard
  <2> QED BY <2>1, <1>1, <1>4
<1>7. PICK gap : gap = (bs - ((l + 1 + 16) % bs)) % bs
  OBVIOUS
<1>8. gap \in Nat /\ marker \in Int
  <2>1. l + 1 + 16 \in Nat
    BY <1>3
  <2> QED BY <2>1, <1>4, <1>7
<1>9. Filling(msg, marker, gap, s, Filled(msg, marker, s, bs))
  BY <1>2, <1>5, <1>7, <1>8, FilledIs
<1>10. Filling(msg, marker, gap, t, Filled(msg, marker, t, bs))
  BY <1>2, <1>5, <1>7, <1>8, FilledIs
<1>11. PICK x : x = Filled(msg, marker, t, bs)
  OBVIOUS
<1>12. Filling(msg, marker, gap, s, x) /\ Filling(msg, marker, gap, t, x)
  BY <1>6, <1>9, <1>10, <1>11
<1>13. \A i \in 1..16 : s[i] = t[i]
  BY <1>5, <1>12 DEF Filling
<1>14. \A p \in 0..3 : ByteOf(u, p) = ByteOf(v, p)
  <2> TAKE p \in 0..3
  <2>1. PICK i : i = 16 - p
    OBVIOUS
  <2>2. i \in 1..16 /\ 16 - i = p /\ p \in Int
    BY <2>1
  <2>3. -ByteOf(u, p) = -ByteOf(v, p)
    BY <2>2, <1>5, <1>13
  <2>4. ByteOf(u, p) \in 0..255 /\ ByteOf(v, p) \in 0..255
    BY <2>2, <1>1, <1>3, ByteOfType
  <2>5. PICK y, z : y = ByteOf(u, p) /\ z = ByteOf(v, p)
    OBVIOUS
  <2>6. y \in Int /\ z \in Int /\ -y = -z
    <3>1. y \in 0..255 /\ z \in 0..255
      BY <2>4, <2>5, Zenon
    <3>2. -y = -z
      BY <2>3, <2>5, Zenon
    <3> QED BY <3>1, <3>2
  <2>7. y = z
    BY <2>6
  <2> QED BY <2>5, <2>7
<1>15. u < 256 * 256 * 256 * 256
  BY <1>1, <1>3, SizesAssumption
<1>16. u = v
  BY <1>1, <1>3, <1>14, <1>15, BytesTell
<1> QED BY <1>1, <1>3, <1>16, SizesAssumption

\* kec256::getHash absorbs what its standard wants, whatever the length.
LEMMA DigestKec256 ==
    ASSUME NEW n \in Nat
    PROVE  KecCells(n) = Standard("kec256", Bytes(0, n))
<1>1. PICK msg, h, x : msg = Bytes(0, n) /\ h = n % 136 /\ x = KecCells(n)
  OBVIOUS
<1>2. PICK a : a = n - h
  OBVIOUS
<1>3. h \in Nat /\ h < 136 /\ h <= n /\ a \in Nat /\ n = a + h
  BY <1>1, <1>2
<1>4. a % 136 = 0
  BY <1>1, <1>2
<1>5. msg \in Seq(Int) /\ Len(msg) = n /\ \A i \in 1..n : msg[i] = i
  <2>1. 0 \in Nat /\ \A i \in 1..n : 0 + i = i
    OBVIOUS
  <2>2. msg \in Seq(Int) /\ Len(msg) = n /\ \A i \in 1..n : msg[i] = 0 + i
    BY <2>1, <1>1, BytesElements
  <2> QED BY <2>1, <2>2
<1>6. x = [i \in 1..(a + 136) |->
             IF i <= n THEN i
             ELSE IF i = n + 1
                  THEN IF h = 135 THEN -129 ELSE -1
                  ELSE IF i = a + 136 THEN -128 ELSE 0]
  BY <1>1, <1>2 DEF KecCells, BlockSize
<1>7. a + 136 \in Nat /\ a \in Nat /\ h \in Nat /\ h < 136
  BY <1>3
<1>8. x \in Seq(Int) /\ Len(x) = a + 136
  <2>1. x \in [1..(a + 136) -> Int]
    BY <1>6
  <2> QED BY <2>1, <1>7, FunctionIsSeq
<1>9. \A i \in 1..n : x[i] = msg[i]
  <2>1. \A i \in 1..n : i \in 1..(a + 136) /\ i <= n
    BY <1>3
  <2>2. \A i \in 1..n : x[i] = i
    BY <2>1, <1>6
  <2> QED BY <2>2, <1>5
<1>10. n + 1 \in 1..(a + 136) /\ ~(n + 1 <= n)
  BY <1>3
<1>11. x[n + 1] = IF h = 135 THEN -129 ELSE -1
  BY <1>6, <1>10
<1>12. SpongeGap(136, a, h)
  <2>1. 136 \in Sizes
    BY DEF Sizes
  <2> QED BY <2>1, <1>3, <1>4, SpongeGaps
<1>13. Standard("kec256", msg) = Sponge(msg, -1, 136)
  BY DEF Standard
<1>14. CASE h = 135
  <2>1. PICK marker, gap, t : marker = -129 /\ gap = 0 /\ t = <<>>
    OBVIOUS
  <2>2. marker \in Int /\ gap \in Nat /\ t \in Seq(Int) /\ Len(t) = 0
    BY <2>1
  <2>3. a + 136 = n + 1 + gap + Len(t)
    BY <2>1, <2>2, <1>3, <1>14
  <2>4. Filling(msg, marker, gap, t, x)
    BY <2>1, <2>2, <2>3, <1>5, <1>8, <1>9, <1>11, <1>14 DEF Filling
  <2>5. Filling(msg, marker, gap, t, msg \o <<marker>> \o Zeros(gap) \o t)
    BY <2>2, <1>5, FillingConcat
  <2>6. x = msg \o <<marker>> \o Zeros(gap) \o t
    BY <2>2, <2>4, <2>5, <1>5, FillingUnique
  <2>7. msg \o <<marker>> \o Zeros(gap) \o t = msg \o <<marker>>
    <3>1. <<marker>> \in Seq(Int) /\ msg \in Seq(Int)
      BY <2>2, <1>5
    <3>2. PICK u : u = msg \o <<marker>>
      OBVIOUS
    <3>3. u \in Seq(Int)
      BY <3>1, <3>2, ConcatElements
    <3>4. Zeros(gap) = <<>>
      BY <2>1 DEF Zeros
    <3>5. u \o <<>> = u
      BY <3>3, ConcatEmptySeq
    <3> QED BY <3>2, <3>4, <3>5, <2>1
  <2>8. (a + h + 1) % 136 = 0
    BY <1>12, <1>14 DEF SpongeGap
  <2>9. a + h + 1 = Len(msg) + 1 /\ -1 - 128 = marker
    BY <2>1, <1>3, <1>5
  <2>10. (Len(msg) + 1) % 136 = 0
    BY <2>8, <2>9, Zenon
  <2>11. Sponge(msg, -1, 136) = msg \o <<marker>>
    BY <2>9, <2>10 DEF Sponge
  <2> QED BY <2>6, <2>7, <2>11, <1>1, <1>13
<1>15. CASE h # 135
  <2>1. PICK marker, gap, t, bs : marker = -1 /\ gap = 134 - h /\ t = <<-128>> /\ bs = 136
    OBVIOUS
  <2>2. marker \in Int /\ gap \in Nat /\ t \in Seq(Int) /\ Len(t) = 1 /\ t[1] = -128
    BY <2>1, <1>3, <1>15
  <2>3. a + 136 = n + 1 + gap + Len(t) /\ a + 136 = n + 1 + gap + 1
    BY <2>1, <2>2, <1>3
  <2>4. \A i \in 1..gap : x[n + 1 + i] = 0
    <3>1. \A i \in 1..gap : /\ n + 1 + i \in 1..(a + 136) /\ ~(n + 1 + i <= n)
                            /\ n + 1 + i # n + 1 /\ n + 1 + i # a + 136
      BY <2>2, <2>3
    <3> QED BY <3>1, <1>6
  <2>5. x[a + 136] = -128
    <3>1. a + 136 \in 1..(a + 136) /\ ~(a + 136 <= n) /\ a + 136 # n + 1
      BY <2>2, <2>3, <1>7
    <3> QED BY <3>1, <1>6
  <2>6. \A i \in 1..Len(t) : x[n + 1 + gap + i] = t[i]
    <3>1. \A i \in 1..1 : i = 1
      OBVIOUS
    <3> QED BY <3>1, <2>2, <2>3, <2>5
  <2>7. Filling(msg, marker, gap, t, x)
    BY <2>1, <2>3, <2>4, <2>6, <1>5, <1>8, <1>9, <1>11, <1>15 DEF Filling
  <2>8. a + h + 1 + 1 = Len(msg) + 1 + Len(t) /\ a + h + 1 = Len(msg) + 1
    BY <2>2, <1>3, <1>5
  <2>9. /\ (136 - ((a + h + 1 + 1) % 136)) % 136 = 136 - h - 2
        /\ ~((a + h + 1) % 136 = 0)
    BY <1>12, <1>15 DEF SpongeGap
  <2>10. gap = (bs - ((Len(msg) + 1 + Len(t)) % bs)) % bs
    <3>1. gap = (bs - ((a + h + 1 + 1) % bs)) % bs
      BY <2>1, <2>9, <1>3
    <3> QED BY <3>1, <2>8, Zenon
  <2>11. Filling(msg, marker, gap, t, Filled(msg, marker, t, bs))
    <3>1. marker \in Int /\ gap \in Nat /\ t \in Seq(Int) /\ msg \in Seq(Int)
      BY <2>2, <1>5
    <3> QED BY <3>1, <2>10, FilledIs
  <2>12. x = Filled(msg, marker, t, bs)
    BY <2>2, <2>7, <2>11, <1>5, FillingUnique
  <2>13. ~((Len(msg) + 1) % 136 = 0)
    BY <2>8, <2>9, Zenon
  <2> QED BY <2>1, <2>12, <2>13, <1>1, <1>13 DEF Sponge
<1> QED BY <1>14, <1>15

-----------------------------------------------------------------------------
(* The HMAC *)

\* A message hashed in one go, on a new object.
LEMMA OneShotStandard ==
    ASSUME NEW data \in Seq(Int), 8 * Len(data) < Wrap
    PROVE  OneShot(data) = Standard("SHA512", data)
<1>1. PICK k, c, d, m : /\ k = "SHA512" /\ c = Fresh("SHA512")
                        /\ d = Update(c, data, k) /\ m = Bytes(0, 0)
  OBVIOUS
<1>2. Capacity(k) = 256 /\ k \in {"SHA512"} /\ k \in Streams \cup {"SHA512"}
  BY <1>1, SizesOfKinds
<1>3. IsContext(c, k) /\ c.absorbed = <<>> /\ c.numBytes = 0 /\ c.bufferSize = 0
  BY <1>1, <1>2 DEF Fresh, IsContext
<1>4. Holds(c, k, m)
  BY <1>1, <1>2, <1>3, EmptyHolds
<1>5. m \in Seq(Int) /\ m \o data = data
  <2>1. m \in Seq(Int) /\ Len(m) = 0
    BY <1>1, BytesElements
  <2>2. m = <<>>
    BY <2>1, EmptySeq
  <2>3. <<>> \o data = data
    BY ConcatEmptySeq
  <2> QED BY <2>1, <2>2, <2>3
<1>6. Holds(Update(c, data, k), k, m \o data)
  BY <1>2, <1>4, <1>5, UpdateHolds
<1>7. Holds(d, k, data)
  BY <1>1, <1>5, <1>6
<1>8. Compress(k, d.absorbed, Pad(k, d)) = Standard(k, data)
  BY <1>2, <1>7, DigestSHA512
<1> QED BY <1>1, <1>8 DEF OneShot

\* What is hashed begins with the message.
LEMMA StandardFirst ==
    ASSUME NEW data \in Seq(Int), Len(data) > 0
    PROVE  Standard("SHA512", data)[1] = data[1]
<1>1. PICK v, t, marker, bs, l : /\ v = 8 * Len(data) /\ t = BigEndian(v, 16)
                                 /\ marker = -128 /\ bs = 128 /\ l = Len(data)
  OBVIOUS
<1>2. l \in Nat /\ v \in Nat /\ marker \in Int /\ 16 \in Nat /\ l > 0
  BY <1>1, LenProperties
<1>3. t \in Seq(Int) /\ Len(t) = 16
  BY <1>1, <1>2, BigEndianElements
<1>4. PICK gap : gap = (bs - ((l + 1 + 16) % bs)) % bs
  OBVIOUS
<1>5. gap \in Nat
  <2>1. l + 1 + 16 \in Nat
    BY <1>2
  <2> QED BY <2>1, <1>1, <1>4
<1>6. Filling(data, marker, gap, t, Filled(data, marker, t, bs))
  <2>1. gap = (bs - ((Len(data) + 1 + Len(t)) % bs)) % bs
    BY <1>1, <1>3, <1>4, Zenon
  <2>2. marker \in Int /\ t \in Seq(Int) /\ gap \in Nat
    BY <1>2, <1>3, <1>5
  <2> QED BY <2>1, <2>2, FilledIs
<1>7. Filled(data, marker, t, bs)[1] = data[1]
  <2>1. PICK x : x = Filled(data, marker, t, bs)
    OBVIOUS
  <2>2. \A i \in 1..l : x[i] = data[i]
    BY <2>1, <1>1, <1>6 DEF Filling
  <2>3. 1 \in 1..l
    BY <1>2
  <2> QED BY <2>1, <2>2, <2>3
<1> QED BY <1>1, <1>7 DEF Standard

\* A key's block and a message behind it.
Keyed(f, n, d) == d \in Seq(Int) /\ Len(d) = 128 + n /\ d[1] = f[1]

\* A message behind a padded key is a sequence that starts with the key's first byte.
LEMMA KeyedMessage ==
    ASSUME NEW f \in [1..128 -> Int], NEW from \in Nat, NEW n \in Nat
    PROVE  Keyed(f, n, f \o Bytes(from, n))
<1>1. f \in Seq(Int) /\ Len(f) = 128
  <2>1. PICK m : m = 128
    OBVIOUS
  <2>2. m \in Nat /\ f \in [1..m -> Int]
    BY <2>1
  <2>3. f \in Seq(Int) /\ Len(f) = m
    BY <2>2, FunctionIsSeq, Zenon
  <2> QED BY <2>1, <2>3
<1>2. PICK b, d : b = Bytes(from, n) /\ d = f \o b
  OBVIOUS
<1>3. b \in Seq(Int) /\ Len(b) = n
  BY <1>2, BytesElements
<1>4. /\ f \o b \in Seq(Int) /\ Len(f \o b) = Len(f) + Len(b)
      /\ \A i \in 1..Len(f) : (f \o b)[i] = f[i]
  <2>1. f \in Seq(Int) /\ b \in Seq(Int)
    BY <1>1, <1>3
  <2> QED BY <2>1, ConcatElements
<1>5. d \in Seq(Int) /\ Len(d) = 128 + n /\ d[1] = f[1]
  <2>1. 1 \in 1..Len(f)
    BY <1>1
  <2>2. d \in Seq(Int) /\ d[1] = f[1]
    BY <2>1, <1>2, <1>4
  <2> QED BY <2>2, <1>1, <1>2, <1>3, <1>4
<1> QED BY <1>2, <1>5 DEF Keyed

\* HMAC_512::get_hmac, for a key of size bytes and a message of n.
LEMMA HmacStandard ==
    ASSUME NEW size \in Nat, NEW n \in Nat, 8 * (n + 128) < Wrap
    PROVE  (/\ OneShot(KeyPad(size, 10000, 54) \o Bytes(0, n))
               = Standard("SHA512", HmacKey(size, 10000, 54) \o Bytes(0, n))
            /\ OneShot(KeyPad(size, 20000, 92) \o Bytes(30000, 64))
               = Standard("SHA512", HmacKey(size, 20000, 92) \o Bytes(30000, 64)))
           <=> size <= 128
<1>1. PICK b, e, i1, o1 : /\ b = Bytes(0, n) /\ e = Bytes(30000, 64)
                          /\ i1 = KeyPad(size, 10000, 54) /\ o1 = KeyPad(size, 20000, 92)
  OBVIOUS
<1>2. PICK i2, o2 : i2 = HmacKey(size, 10000, 54) /\ o2 = HmacKey(size, 20000, 92)
  OBVIOUS
<1>3. BlockSize("SHA512") = 128
  BY SizesOfKinds
<1>4. /\ i1 = [i \in 1..128 |-> IF i <= size THEN 10000 + i ELSE -54]
      /\ o1 = [i \in 1..128 |-> IF i <= size THEN 20000 + i ELSE -92]
  <2>1. i1 = [i \in 1..BlockSize("SHA512") |-> IF i <= size THEN 10000 + i ELSE -54]
    BY <1>1 DEF KeyPad
  <2>2. o1 = [i \in 1..BlockSize("SHA512") |-> IF i <= size THEN 20000 + i ELSE -92]
    BY <1>1 DEF KeyPad
  <2>3. 1..BlockSize("SHA512") = 1..128
    BY <1>3
  <2>4. i1 = [i \in 1..128 |-> IF i <= size THEN 10000 + i ELSE -54]
    BY <2>1, <2>3, Z3
  <2>5. o1 = [i \in 1..128 |-> IF i <= size THEN 20000 + i ELSE -92]
    BY <2>2, <2>3, Z3
  <2> QED BY <2>4, <2>5
<1>5. i1 \in [1..128 -> Int] /\ o1 \in [1..128 -> Int]
  BY <1>4
<1>6. i2 \in [1..128 -> Int]
  BY <1>2 DEF HmacKey
<1>7. PICK x, y, z : x = i1 \o b /\ y = o1 \o e /\ z = i2 \o b
  OBVIOUS
<1>8. /\ x \in Seq(Int) /\ Len(x) = 128 + n /\ x[1] = i1[1]
      /\ z \in Seq(Int) /\ Len(z) = 128 + n /\ z[1] = i2[1]
  <2>1. Keyed(i1, n, i1 \o Bytes(0, n)) /\ Keyed(i2, n, i2 \o Bytes(0, n))
    <3>1. 0 \in Nat
      OBVIOUS
    <3> QED BY <3>1, <1>5, <1>6, KeyedMessage
  <2>2. Keyed(i1, n, x) /\ Keyed(i2, n, z)
    BY <2>1, <1>1, <1>7
  <2> QED BY <2>2 DEF Keyed
<1>9. y \in Seq(Int) /\ Len(y) = 128 + 64
  <2>1. 30000 \in Nat /\ 64 \in Nat
    OBVIOUS
  <2>2. PICK from, j : from = 30000 /\ j = 64
    OBVIOUS
  <2>3. from \in Nat /\ j \in Nat
    BY <2>1, <2>2
  <2>4. Keyed(o1, j, o1 \o Bytes(from, j))
    BY <2>3, <1>5, KeyedMessage
  <2>5. Keyed(o1, j, y)
    BY <2>2, <2>4, <1>1, <1>7
  <2> QED BY <2>2, <2>5 DEF Keyed
<1>10. OneShot(x) = Standard("SHA512", x)
  <2>1. 8 * Len(x) < Wrap
    BY <1>8
  <2> QED BY <2>1, <1>8, OneShotStandard
<1>11. OneShot(y) = Standard("SHA512", y)
  <2>1. 8 * Len(y) < Wrap
    BY <1>9, SizesAssumption
  <2> QED BY <2>1, <1>9, OneShotStandard
<1>12. CASE size <= 128
  <2>1. i2 = i1 /\ o2 = o1
    BY <1>2, <1>4, <1>12 DEF HmacKey
  <2> QED BY <2>1, <1>1, <1>2, <1>7, <1>10, <1>11, <1>12
<1>13. CASE size > 128
  <2>1. i1[1] = 10001 /\ i2[1] = 50001
    BY <1>2, <1>4, <1>13 DEF HmacKey
  <2>2. Len(x) > 0 /\ Len(z) > 0
    BY <1>8
  <2>3. Standard("SHA512", x)[1] = x[1] /\ Standard("SHA512", z)[1] = z[1]
    BY <2>2, <1>8, StandardFirst
  <2>4. OneShot(x) # Standard("SHA512", z)
    BY <2>1, <2>3, <1>8, <1>10
  <2>5. ~(size <= 128)
    BY <1>13
  <2> QED BY <2>4, <2>5, <1>1, <1>2, <1>7
<1> QED BY <1>12, <1>13

-----------------------------------------------------------------------------
(* The object *)

\* Between calls the object holds the message added since the last reset, unless
\* final() spent it.  The properties say nothing of the count of the compressed
\* bytes, nor that only whole blocks are compressed: the padding needs both.
StreamInv ==
    /\ kind \in Kinds /\ total \in Nat /\ total <= MaxBytes
    /\ kind \in Streams \cup {"SHA512"} =>
          /\ IsContext(ctx, kind)
          /\ Spent \/ Holds(ctx, kind, Bytes(0, total))

\* A piece has a length.
LEMMA PiecesAreNat ==
    ASSUME kind \in Kinds
    PROVE  Pieces \subseteq Nat
<1>1. kind \in AllKinds /\ Chunks \subseteq Nat /\ Shorter \subseteq 0..64
  BY SizesAssumption
<1>2. BlockSize(kind) \in Nat /\ BlockSize(kind) >= 64
  BY <1>1 DEF BlockSize, AllKinds, Streams, SHA3s
<1>3. \A d \in 0..64 : BlockSize(kind) - d \in Nat
  BY <1>2
<1> QED BY <1>1, <1>3 DEF Pieces

\* What is padded begins with the cells that count, and is longer.
Continues(c, padded) ==
    /\ padded \in Seq(Int)
    /\ Len(padded) \in Nat /\ Len(padded) > c.bufferSize
    /\ \A i \in 1..c.bufferSize : padded[i] = c.buffer[i - 1]

\* Any ending is such.
LEMMA EndingContinues ==
    ASSUME NEW c, c.bufferSize \in Nat, NEW marker, NEW gap \in Nat,
           NEW trailer \in Seq(Int), NEW padded, Ending(c, marker, gap, trailer, padded)
    PROVE  Continues(c, padded)
<1>1. Len(trailer) \in Nat
  BY LenProperties
<1> QED BY <1>1 DEF Ending, Continues

\* Every padding of the code is.
LEMMA PadContinues ==
    ASSUME NEW k \in Streams \cup {"SHA512"}, NEW c, NEW msg \in Seq(Int),
           Holds(c, k, msg)
    PROVE  Continues(c, Pad(k, c))
<1>1. c.bufferSize \in 0..BlockSize(k) - 1 /\ c.numBytes + c.bufferSize \in Nat
  BY BufferCells
<1>2. BlockSize(k) \in Nat
  BY SizesOfKinds
<1>3. c.bufferSize \in Nat /\ c.bufferSize < BlockSize(k)
  BY <1>1, <1>2
<1>4. CASE k = "SHA256"
  <2>1. PICK gap, v, t :
          /\ gap = IF c.bufferSize <= 55 THEN 55 - c.bufferSize ELSE 119 - c.bufferSize
          /\ v = 8 * (c.numBytes + c.bufferSize)
          /\ t = BigEndian(v, 8)
    OBVIOUS
  <2>2. BlockSize(k) = 64
    BY <1>4, SizesOfKinds
  <2>3. gap \in Nat /\ v \in Nat
    BY <2>1, <2>2, <1>1, <1>3
  <2>4. t \in Seq(Int)
    <3>1. 8 \in Nat
      OBVIOUS
    <3> QED BY <3>1, <2>1, <2>3, BigEndianElements
  <2>5. Holds(c, "SHA256", msg)
    BY <1>4
  <2>6. Ending(c, -128, gap, t, Pad(k, c))
    <3>1. Ending(c, -128, IF c.bufferSize <= 55 THEN 55 - c.bufferSize ELSE 119 - c.bufferSize,
                 BigEndian(8 * (c.numBytes + c.bufferSize), 8), Pad("SHA256", c))
      BY <2>5, TailSHA256
    <3> QED BY <3>1, <2>1, <1>4, Zenon
  <2> QED BY <2>3, <2>4, <2>6, <1>3, EndingContinues
<1>5. CASE k = "SHA512"
  <2>1. PICK gap, v, t :
          /\ gap = IF c.bufferSize <= 111 THEN 111 - c.bufferSize ELSE 239 - c.bufferSize
          /\ v = (8 * (c.numBytes + c.bufferSize)) % Wrap
          /\ t = BigEndian(v, 16)
    OBVIOUS
  <2>2. BlockSize(k) = 128
    BY <1>5, SizesOfKinds
  <2>3. gap \in Nat
    BY <2>1, <2>2, <1>3
  <2>4. v \in Nat
    <3>1. PICK w : w = 8 * (c.numBytes + c.bufferSize)
      OBVIOUS
    <3>2. w \in Nat /\ Wrap \in Nat /\ Wrap > 0
      BY <3>1, <1>1, SizesAssumption
    <3>3. v = w % Wrap
      BY <3>1, <2>1
    <3> QED BY <3>2, <3>3
  <2>5. t \in Seq(Int)
    <3>1. 16 \in Nat
      OBVIOUS
    <3> QED BY <3>1, <2>1, <2>4, BigEndianElements
  <2>6. Holds(c, "SHA512", msg)
    BY <1>5
  <2>7. Ending(c, -128, gap, t, Pad(k, c))
    <3>1. Ending(c, -128,
                 IF c.bufferSize <= 111 THEN 111 - c.bufferSize ELSE 239 - c.bufferSize,
                 BigEndian((8 * (c.numBytes + c.bufferSize)) % Wrap, 16), Pad("SHA512", c))
      BY <2>6, TailSHA512
    <3> QED BY <3>1, <2>1, <1>5, Zenon
  <2> QED BY <2>3, <2>5, <2>7, <1>3, EndingContinues
<1>6. CASE k \in SHA3s
  <2>1. IF c.bufferSize = BlockSize(k) - 1
        THEN Ending(c, -134, 0, <<>>, Pad(k, c))
        ELSE Ending(c, -6, BlockSize(k) - c.bufferSize - 2, <<-128>>, Pad(k, c))
    BY <1>6, TailSHA3
  <2>2. PICK gap, t : /\ gap \in Nat /\ t \in Seq(Int)
                      /\ \E marker : Ending(c, marker, gap, t, Pad(k, c))
    <3>1. CASE c.bufferSize = BlockSize(k) - 1
      <4>1. 0 \in Nat /\ <<>> \in Seq(Int) /\ Ending(c, -134, 0, <<>>, Pad(k, c))
        BY <3>1, <2>1
      <4> QED BY <4>1, Zenon
    <3>2. CASE c.bufferSize # BlockSize(k) - 1
      <4>1. /\ BlockSize(k) - c.bufferSize - 2 \in Nat /\ <<-128>> \in Seq(Int)
            /\ Ending(c, -6, BlockSize(k) - c.bufferSize - 2, <<-128>>, Pad(k, c))
        BY <3>2, <2>1, <1>2, <1>3
      <4> QED BY <4>1, Zenon
    <3> QED BY <3>1, <3>2
  <2>3. PICK marker : Ending(c, marker, gap, t, Pad(k, c))
    BY <2>2
  <2> QED BY <2>2, <2>3, <1>3, EndingContinues
<1> QED BY <1>4, <1>5, <1>6 DEF Streams

\* Whatever is padded, the cells that count are written back as they were.
LEMMA AfterHashHolds ==
    ASSUME NEW k \in Streams \cup {"SHA512"}, NEW c, NEW msg \in Seq(Int),
           Holds(c, k, msg), NEW padded, Continues(c, padded)
    PROVE  Holds(AfterHash(c, padded), k, msg)
<1>1. PICK h, d, b : h = c.bufferSize /\ d = AfterHash(c, padded) /\ b = Overwritten(c, padded)
  OBVIOUS
<1>2. h \in Nat /\ h < BlockSize(k) /\ DOMAIN c.buffer = 0..Capacity(k) - 1
  BY <1>1 DEF Holds, IsContext
<1>3. BlockSize(k) \in Nat /\ Capacity(k) \in Nat /\ BlockSize(k) <= Capacity(k)
  BY SizesOfKinds
<1>4. Len(padded) \in Nat /\ h < Len(padded) /\ \A i \in 1..h : padded[i] = c.buffer[i - 1]
  BY <1>1 DEF Continues
<1>5. b = [i \in DOMAIN c.buffer |-> IF i < Len(padded) THEN padded[i + 1] ELSE c.buffer[i]]
  BY <1>1 DEF Overwritten
<1>6. DOMAIN b = 0..Capacity(k) - 1
  BY <1>2, <1>5
<1>7. \A i \in 0..h - 1 : b[i] = c.buffer[i]
  <2> TAKE i \in 0..h - 1
  <2>1. i + 1 \in 1..h /\ (i + 1) - 1 = i /\ i < Len(padded) /\ i \in 0..Capacity(k) - 1
    BY <1>2, <1>3, <1>4
  <2>2. padded[i + 1] = c.buffer[i]
    BY <2>1, <1>4
  <2>3. b[i] = padded[i + 1]
    BY <2>1, <1>2, <1>5
  <2> QED BY <2>2, <2>3
<1>8. d = [absorbed |-> c.absorbed, numBytes |-> c.numBytes,
           bufferSize |-> c.bufferSize, buffer |-> b]
  <2>1. c = [absorbed |-> c.absorbed, numBytes |-> c.numBytes,
             bufferSize |-> c.bufferSize, buffer |-> c.buffer]
    BY DEF Holds, IsContext
  <2>2. d = [c EXCEPT !.buffer = b]
    BY <1>1 DEF AfterHash
  <2> QED BY <2>1, <2>2
<1>9. /\ d.absorbed = c.absorbed /\ d.numBytes = c.numBytes
      /\ d.bufferSize = c.bufferSize /\ d.buffer = b
  BY <1>8
<1>10. IsContext(d, k)
  BY <1>6, <1>8, <1>9 DEF IsContext
<1>11. Holds(d, k, msg)
  <2>1. /\ c.absorbed \in Seq(Int) /\ c.bufferSize \in Nat
        /\ c.bufferSize < BlockSize(k)
        /\ Len(c.absorbed) + c.bufferSize = Len(msg)
        /\ Len(c.absorbed) % BlockSize(k) = 0
        /\ \A i \in 1..Len(c.absorbed) : c.absorbed[i] = msg[i]
        /\ c.numBytes \in Nat
        /\ (k = "SHA512" => Len(c.absorbed) < Wrap) => c.numBytes = Len(c.absorbed)
    BY DEF Holds
  <2>2. \A i \in 0..c.bufferSize - 1 : b[i] = msg[Len(c.absorbed) + i + 1]
    BY <1>1, <1>7 DEF Holds
  <2>3. d.absorbed = c.absorbed
    BY <1>9
  <2>4. d.numBytes = c.numBytes
    BY <1>9
  <2>5. d.bufferSize = c.bufferSize /\ d.buffer = b
    BY <1>9
  <2> QED BY <2>1, <2>2, <2>3, <2>4, <2>5, <1>10, Zenon DEF Holds
<1> QED BY <1>1, <1>11

\* SHA512::final leaves the members of an object, with more compressed than was
\* added.
LEMMA AfterFinalSpent ==
    ASSUME NEW k \in {"SHA512"}, NEW c, NEW msg \in Seq(Int), Holds(c, k, msg),
           NEW padded, Continues(c, padded)
    PROVE  /\ IsContext(AfterFinal(c, padded), k)
           /\ Len(AfterFinal(c, padded).absorbed) + AfterFinal(c, padded).bufferSize > Len(msg)
<1>1. PICK d, b : d = AfterFinal(c, padded) /\ b = Overwritten(c, padded)
  OBVIOUS
<1>2. DOMAIN b = DOMAIN c.buffer
  BY <1>1 DEF Overwritten
<1>3. DOMAIN b = 0..Capacity(k) - 1
  BY <1>2 DEF Holds, IsContext
<1>4. d = [absorbed |-> c.absorbed \o padded, numBytes |-> c.numBytes,
           bufferSize |-> c.bufferSize, buffer |-> b]
  <2>1. c = [absorbed |-> c.absorbed, numBytes |-> c.numBytes,
             bufferSize |-> c.bufferSize, buffer |-> c.buffer]
    BY DEF Holds, IsContext
  <2>2. Compress("SHA512", c.absorbed, padded) = c.absorbed \o padded
    BY CompressIsConcat
  <2>3. d = [c EXCEPT !.absorbed = c.absorbed \o padded, !.buffer = b]
    BY <2>2, <1>1 DEF AfterFinal
  <2> QED BY <2>1, <2>3
<1>5. d.absorbed = c.absorbed \o padded /\ d.bufferSize = c.bufferSize /\ d.buffer = b
  BY <1>4
<1>6. IsContext(d, k)
  BY <1>3, <1>4, <1>5 DEF IsContext
<1>7. c.absorbed \in Seq(Int) /\ padded \in Seq(Int) /\ Len(padded) > c.bufferSize
  BY DEF Holds, Continues
<1>8. Len(d.absorbed) = Len(c.absorbed) + Len(padded)
  BY <1>5, <1>7, ConcatElements
<1>9. /\ Len(c.absorbed) \in Nat /\ c.bufferSize \in Nat
      /\ Len(msg) = Len(c.absorbed) + c.bufferSize
  BY HeldNumbers
<1>10. Len(padded) \in Nat
  BY <1>7, LenProperties
<1>11. Len(d.absorbed) + d.bufferSize > Len(msg)
  BY <1>5, <1>7, <1>8, <1>9, <1>10
<1> QED BY <1>1, <1>6, <1>11

\* An object that is not spent holds what was added to it.
LEMMA HeldUnlessSpent ==
    ASSUME StreamInv, kind \in Streams \cup {"SHA512"}, ~Spent
    PROVE  /\ Holds(ctx, kind, Bytes(0, total))
           /\ Bytes(0, total) \in Seq(Int) /\ Len(Bytes(0, total)) = total
<1>1. total \in Nat /\ Holds(ctx, kind, Bytes(0, total))
  BY DEF StreamInv
<1> QED BY <1>1, BytesElements

\* Only SHA512 is ever spent.
LEMMA StreamsUnspent ==
    ASSUME kind \in Streams
    PROVE  ~Spent /\ kind \in Streams \cup {"SHA512"}
<1> QED BY DEF Spent, Streams, SHA3s

\* A new object holds the empty message.
LEMMA StreamInit ==
    ASSUME Init
    PROVE  StreamInv
<1>1. kind \in Kinds /\ total = 0 /\ ctx = Fresh(kind)
  BY DEF Init
<1>2. ASSUME kind \in Streams \cup {"SHA512"}
      PROVE  IsContext(ctx, kind) /\ Holds(ctx, kind, Bytes(0, 0))
  <2>1. IsContext(ctx, kind) /\ ctx.absorbed = <<>> /\ ctx.numBytes = 0 /\ ctx.bufferSize = 0
    BY <1>1 DEF Fresh, IsContext
  <2> QED BY <2>1, <1>2, EmptyHolds
<1> QED BY <1>1, <1>2, SizesAssumption DEF StreamInv

\* reset() and init() leave an object without a byte.
LEMMA ResetStep ==
    ASSUME StreamInv, Reset
    PROVE  StreamInv'
<1>1. /\ kind \in Kinds /\ kind' = kind /\ total' = 0
      /\ kind \in Streams \cup {"SHA512"} /\ IsContext(ctx, kind)
      /\ ctx' = [ctx EXCEPT !.absorbed = <<>>, !.numBytes = 0, !.bufferSize = 0]
  BY DEF StreamInv, Reset
<1>2. ctx' = [absorbed |-> <<>>, numBytes |-> 0, bufferSize |-> 0, buffer |-> ctx.buffer]
  <2>1. ctx = [absorbed |-> ctx.absorbed, numBytes |-> ctx.numBytes,
               bufferSize |-> ctx.bufferSize, buffer |-> ctx.buffer]
    BY <1>1 DEF IsContext
  <2> QED BY <2>1, <1>1
<1>3. DOMAIN ctx.buffer = 0..Capacity(kind) - 1
  BY <1>1 DEF IsContext
<1>4. /\ ctx'.absorbed = <<>> /\ ctx'.numBytes = 0 /\ ctx'.bufferSize = 0
      /\ ctx'.buffer = ctx.buffer
  BY <1>2
<1>5. IsContext(ctx', kind)
  BY <1>2, <1>3, <1>4 DEF IsContext
<1>6. Holds(ctx', kind, Bytes(0, 0))
  BY <1>1, <1>4, <1>5, EmptyHolds
<1> QED BY <1>1, <1>5, <1>6, SizesAssumption DEF StreamInv

\* A piece of any length is added to what an object holds.
LEMMA PieceStep ==
    ASSUME StreamInv, NEW n \in Nat, AddBytes(n) \/ UpdateBytes(n)
    PROVE  StreamInv'
<1>1. PICK k, m, p : k = kind /\ m = Bytes(0, total) /\ p = Bytes(total, n)
  OBVIOUS
<1>2. /\ kind \in Kinds /\ kind' = kind /\ total \in Nat
      /\ total' = total + n /\ total + n <= MaxBytes
  BY DEF StreamInv, AddBytes, UpdateBytes
<1>3. kind \in Streams \cup {"SHA512"} /\ ~Spent
  <2>1. CASE AddBytes(n)
    BY <2>1, StreamsUnspent DEF AddBytes
  <2>2. CASE UpdateBytes(n)
    BY <2>2 DEF UpdateBytes
  <2> QED BY <2>1, <2>2
<1>4. Holds(ctx, k, m) /\ m \in Seq(Int)
  BY <1>1, <1>3, HeldUnlessSpent
<1>5. p \in Seq(Int)
  BY <1>1, <1>2, BytesElements
<1>6. m \o p = Bytes(0, total')
  BY <1>1, <1>2, BytesJoin
<1>7. Holds(ctx', k, m \o p)
  <2>1. CASE AddBytes(n)
    <3>1. k \in Streams /\ ctx' = Add(ctx, p, k)
      BY <2>1, <1>1 DEF AddBytes
    <3>2. Holds(Add(ctx, p, k), k, m \o p)
      BY <3>1, <1>4, <1>5, AddHolds
    <3> QED BY <3>1, <3>2
  <2>2. CASE UpdateBytes(n)
    <3>1. k \in {"SHA512"} /\ ctx' = Update(ctx, p, k)
      BY <2>2, <1>1 DEF UpdateBytes
    <3>2. Holds(Update(ctx, p, k), k, m \o p)
      BY <3>1, <1>4, <1>5, UpdateHolds
    <3> QED BY <3>1, <3>2
  <2> QED BY <2>1, <2>2
<1>8. Holds(ctx', kind', Bytes(0, total'))
  BY <1>1, <1>2, <1>6, <1>7, Zenon
<1>9. IsContext(ctx', kind')
  BY <1>8 DEF Holds
<1>10. kind' \in Kinds /\ total' \in Nat /\ total' <= MaxBytes
  BY <1>2
<1> QED BY <1>8, <1>9, <1>10 DEF StreamInv

\* A digest leaves the message where it is.
LEMMA GetHashStep ==
    ASSUME StreamInv, GetHash
    PROVE  StreamInv'
<1>1. PICK m, padded : m = Bytes(0, total) /\ padded = Pad(kind, ctx)
  OBVIOUS
<1>2. /\ kind \in Kinds /\ kind' = kind /\ total \in Nat /\ total' = total
      /\ total <= MaxBytes /\ kind \in Streams
      /\ ctx' = AfterHash(ctx, padded)
  BY <1>1 DEF StreamInv, GetHash
<1>3. kind \in Streams \cup {"SHA512"} /\ ~Spent
  BY <1>2, StreamsUnspent
<1>4. Holds(ctx, kind, m) /\ m \in Seq(Int)
  BY <1>1, <1>3, HeldUnlessSpent
<1>5. Continues(ctx, padded)
  BY <1>1, <1>3, <1>4, PadContinues
<1>6. Holds(ctx', kind, m)
  BY <1>2, <1>3, <1>4, <1>5, AfterHashHolds
<1>7. Holds(ctx', kind', Bytes(0, total'))
  BY <1>1, <1>2, <1>6, Zenon
<1>8. IsContext(ctx', kind')
  BY <1>7 DEF Holds
<1> QED BY <1>2, <1>7, <1>8 DEF StreamInv

\* SHA512::final spends the object.
LEMMA FinalStep ==
    ASSUME StreamInv, Final
    PROVE  StreamInv'
<1>1. PICK k, m, padded : k = kind /\ m = Bytes(0, total) /\ padded = Pad(kind, ctx)
  OBVIOUS
<1>2. /\ kind \in Kinds /\ kind' = kind /\ total \in Nat /\ total' = total
      /\ total <= MaxBytes /\ k \in {"SHA512"} /\ ~Spent
      /\ ctx' = AfterFinal(ctx, padded)
  BY <1>1 DEF StreamInv, Final
<1>3. k \in Streams \cup {"SHA512"}
  BY <1>2
<1>4. Holds(ctx, k, m) /\ m \in Seq(Int) /\ Len(m) = total
  BY <1>1, <1>2, <1>3, HeldUnlessSpent
<1>5. Continues(ctx, padded)
  BY <1>1, <1>3, <1>4, PadContinues
<1>6. IsContext(ctx', k) /\ Len(ctx'.absorbed) + ctx'.bufferSize > Len(m)
  BY <1>2, <1>4, <1>5, AfterFinalSpent
<1>7. Spent'
  BY <1>1, <1>2, <1>4, <1>6 DEF Spent
<1> QED BY <1>1, <1>2, <1>6, <1>7 DEF StreamInv

\* Every call keeps the invariant.
LEMMA StreamStep ==
    ASSUME StreamInv, [Next]_vars
    PROVE  StreamInv'
<1>1. Pieces \subseteq Nat
  BY PiecesAreNat DEF StreamInv
<1>2. CASE Reset
  BY <1>2, ResetStep
<1>3. CASE GetHash
  BY <1>3, GetHashStep
<1>4. CASE Final
  BY <1>4, FinalStep
<1>5. ASSUME NEW n \in Pieces, AddBytes(n) \/ UpdateBytes(n) \/ KecGetHash(n)
      PROVE  StreamInv'
  <2>1. CASE AddBytes(n) \/ UpdateBytes(n)
    <3>1. n \in Nat
      BY <1>1
    <3> QED BY <3>1, <2>1, PieceStep
  <2>2. CASE KecGetHash(n)
    BY <2>2 DEF KecGetHash, StreamInv, Spent
  <2> QED BY <1>5, <2>1, <2>2
<1>6. ASSUME NEW size \in Pieces, NEW n \in Pieces, GetHmac(size, n)
      PROVE  StreamInv'
  BY <1>6 DEF GetHmac, StreamInv, Spent
<1>7. CASE UNCHANGED vars
  BY <1>7 DEF vars, StreamInv, Spent
<1> QED BY <1>2, <1>3, <1>4, <1>5, <1>6, <1>7 DEF Next, Call

\* What the invariant says of the bytes.
LEMMA InvIsMessage ==
    ASSUME StreamInv
    PROVE  StreamIsMessage
<1> SUFFICES ASSUME kind \in Streams \cup {"SHA512"}, ~Spent
             PROVE  /\ Len(ctx.absorbed) + ctx.bufferSize = total
                    /\ ctx.bufferSize < BlockSize(kind)
                    /\ \A i \in 1..Len(ctx.absorbed) : ctx.absorbed[i] = i
                    /\ \A i \in 0..ctx.bufferSize - 1 :
                          ctx.buffer[i] = Len(ctx.absorbed) + i + 1
  BY DEF StreamIsMessage
<1>1. PICK m : m = Bytes(0, total)
  OBVIOUS
<1>2. Holds(ctx, kind, m) /\ m \in Seq(Int) /\ Len(m) = total
  BY <1>1, HeldUnlessSpent
<1>3. \A i \in 1..total : m[i] = i
  <2>1. total \in Nat
    BY DEF StreamInv
  <2>2. \A i \in 1..total : m[i] = 0 + i
    BY <2>1, <1>1, BytesElements
  <2> QED BY <2>1, <2>2
<1>4. PICK a, h : a = Len(ctx.absorbed) /\ h = ctx.bufferSize
  OBVIOUS
<1>5. /\ a \in Nat /\ h \in Nat /\ a + h = total /\ h < BlockSize(kind)
      /\ \A i \in 1..a : ctx.absorbed[i] = m[i]
      /\ \A i \in 0..h - 1 : ctx.buffer[i] = m[a + i + 1]
  BY <1>2, <1>4, LenProperties DEF Holds
<1>6. \A i \in 1..a : ctx.absorbed[i] = i
  <2> TAKE i \in 1..a
  <2>1. i \in 1..total
    BY <1>5
  <2> QED BY <2>1, <1>3, <1>5
<1>7. \A i \in 0..h - 1 : ctx.buffer[i] = a + i + 1
  <2> TAKE i \in 0..h - 1
  <2>1. a + i + 1 \in 1..total
    BY <1>5
  <2> QED BY <2>1, <1>3, <1>5
<1> QED BY <1>4, <1>5, <1>6, <1>7

\* A digest of a SHA256 or SHA3 object is the standard's digest of what was added.
LEMMA GetHashDigest ==
    ASSUME StreamInv, GetHash
    PROVE  DigestIsStandard'
<1>1. PICK m, x : m = Bytes(0, total) /\ x = Compress(kind, ctx.absorbed, Pad(kind, ctx))
  OBVIOUS
<1>2. kind \in Streams /\ kind' = kind /\ digest' = [of |-> total, cells |-> x]
  BY <1>1 DEF GetHash
<1>3. kind \in Streams \cup {"SHA512"} /\ ~Spent
  BY <1>2, StreamsUnspent
<1>4. Holds(ctx, kind, m) /\ m \in Seq(Int)
  BY <1>1, <1>3, HeldUnlessSpent
<1>5. x = Standard(kind, m)
  <2>1. CASE kind \in {"SHA256"}
    BY <2>1, <1>1, <1>4, DigestSHA256
  <2>2. CASE kind \in SHA3s
    BY <2>2, <1>1, <1>4, DigestSHA3
  <2> QED BY <2>1, <2>2, <1>2 DEF Streams
<1>6. digest'.of = total /\ digest'.cells = x
  BY <1>2
<1>7. digest'.cells = Standard(kind', Bytes(0, digest'.of))
  BY <1>1, <1>2, <1>5, <1>6, Zenon
<1>8. kind' # "SHA512"
  BY <1>2 DEF Streams, SHA3s
<1> QED BY <1>7, <1>8 DEF DigestIsStandard

\* A digest of SHA512::final is the standard's as long as the length of what was
\* added is counted right, and another when it is not.
LEMMA FinalDigest ==
    ASSUME StreamInv, Final
    PROVE  DigestIsStandard'
<1>1. PICK k, m, x : /\ k = kind /\ m = Bytes(0, total)
                     /\ x = Compress(kind, ctx.absorbed, Pad(kind, ctx))
  OBVIOUS
<1>2. /\ k \in {"SHA512"} /\ ~Spent /\ kind' = k
      /\ digest' = [of |-> total, cells |-> x]
  BY <1>1 DEF Final
<1>3. k \in Streams \cup {"SHA512"}
  BY <1>2
<1>4. Holds(ctx, k, m) /\ m \in Seq(Int) /\ Len(m) = total
  BY <1>1, <1>2, <1>3, HeldUnlessSpent
<1>5. total \in Nat /\ total <= MaxBytes
  BY DEF StreamInv
<1>6. 8 * Len(m) < 256 * 256 * 256 * 256
  BY <1>4, <1>5, SizesAssumption
<1>7. x = Standard(k, m) <=> 8 * total < Wrap
  <2>1. CASE 8 * Len(m) < Wrap
    <3>1. x = Standard(k, m)
      BY <2>1, <1>1, <1>2, <1>4, DigestSHA512
    <3> QED BY <3>1, <2>1, <1>4
  <2>2. CASE 8 * Len(m) >= Wrap
    <3>1. Compress(k, ctx.absorbed, Pad(k, ctx)) # Standard(k, m)
      BY <2>2, <1>2, <1>4, <1>6, OtherDigestSHA512
    <3>2. x # Standard(k, m)
      BY <3>1, <1>1, Zenon
    <3>3. ~(8 * total < Wrap)
      BY <2>2, <1>4, <1>5, SizesAssumption
    <3> QED BY <3>2, <3>3
  <2>3. 8 * Len(m) < Wrap \/ 8 * Len(m) >= Wrap
    BY <1>4, <1>5, SizesAssumption
  <2> QED BY <2>1, <2>2, <2>3
<1>8. digest'.of = total /\ digest'.cells = x
  BY <1>2
<1>9. digest'.cells = Standard(kind', Bytes(0, digest'.of)) <=> 8 * digest'.of < Wrap
  BY <1>1, <1>2, <1>7, <1>8, Zenon
<1>10. kind' = "SHA512"
  BY <1>2
<1> QED BY <1>9, <1>10 DEF DigestIsStandard

\* A digest of kec256 is the standard's.
LEMMA KecDigest ==
    ASSUME NEW n \in Nat, KecGetHash(n)
    PROVE  DigestIsStandard'
<1>1. kind' = "kec256" /\ digest' = [of |-> n, cells |-> KecCells(n)]
  BY DEF KecGetHash
<1>2. digest'.of = n /\ digest'.cells = KecCells(n)
  BY <1>1
<1>3. digest'.cells = Standard(kind', Bytes(0, digest'.of))
  BY <1>1, <1>2, DigestKec256, Zenon
<1>4. kind' # "SHA512"
  BY <1>1
<1> QED BY <1>3, <1>4 DEF DigestIsStandard

\* Every call returns the standard's digest, or none.
LEMMA DigestStep ==
    ASSUME StreamInv, DigestIsStandard, [Next]_vars
    PROVE  DigestIsStandard'
<1>1. Pieces \subseteq Nat
  BY PiecesAreNat DEF StreamInv
<1>2. CASE Reset
  BY <1>2 DEF Reset, Silent, DigestIsStandard
<1>3. CASE GetHash
  BY <1>3, GetHashDigest
<1>4. CASE Final
  BY <1>4, FinalDigest
<1>5. ASSUME NEW n \in Pieces, AddBytes(n) \/ UpdateBytes(n) \/ KecGetHash(n)
      PROVE  DigestIsStandard'
  <2>1. CASE AddBytes(n) \/ UpdateBytes(n)
    BY <2>1 DEF AddBytes, UpdateBytes, Silent, DigestIsStandard
  <2>2. CASE KecGetHash(n)
    <3>1. n \in Nat
      BY <1>1
    <3> QED BY <3>1, <2>2, KecDigest
  <2> QED BY <1>5, <2>1, <2>2
<1>6. ASSUME NEW size \in Pieces, NEW n \in Pieces, GetHmac(size, n)
      PROVE  DigestIsStandard'
  BY <1>6 DEF GetHmac, DigestIsStandard
<1>7. CASE UNCHANGED vars
  BY <1>7 DEF vars, DigestIsStandard
<1> QED BY <1>2, <1>3, <1>4, <1>5, <1>6, <1>7 DEF Next, Call

\* get_hmac returns RFC 2104's HMAC exactly for a key of at most a block.
LEMMA GetHmacStandard ==
    ASSUME NEW size \in Nat, NEW n \in Nat, GetHmac(size, n)
    PROVE  HmacIsStandard'
<1>1. PICK x, y : /\ x = OneShot(KeyPad(size, 10000, 54) \o Bytes(0, n))
                  /\ y = OneShot(KeyPad(size, 20000, 92) \o Bytes(30000, 64))
  OBVIOUS
<1>2. hmac' = [of |-> n, key |-> size, inner |-> x, outer |-> y]
  BY <1>1 DEF GetHmac
<1>3. hmac'.of = n /\ hmac'.key = size /\ hmac'.inner = x /\ hmac'.outer = y
  BY <1>2
<1>4. ASSUME 8 * (n + 128) < Wrap
      PROVE  (/\ x = Standard("SHA512", HmacKey(size, 10000, 54) \o Bytes(0, n))
              /\ y = Standard("SHA512", HmacKey(size, 20000, 92) \o Bytes(30000, 64)))
             <=> size <= 128
  BY <1>1, <1>4, HmacStandard
<1> QED BY <1>3, <1>4 DEF HmacIsStandard

\* Every call returns such an HMAC, or none.
LEMMA HmacStep ==
    ASSUME StreamInv, HmacIsStandard, [Next]_vars
    PROVE  HmacIsStandard'
<1>1. Pieces \subseteq Nat
  BY PiecesAreNat DEF StreamInv
<1>2. CASE Reset
  BY <1>2 DEF Reset, Silent, HmacIsStandard
<1>3. CASE GetHash
  BY <1>3 DEF GetHash, HmacIsStandard
<1>4. CASE Final
  BY <1>4 DEF Final, HmacIsStandard
<1>5. ASSUME NEW n \in Pieces, AddBytes(n) \/ UpdateBytes(n) \/ KecGetHash(n)
      PROVE  HmacIsStandard'
  BY <1>5 DEF AddBytes, UpdateBytes, KecGetHash, Silent, HmacIsStandard
<1>6. ASSUME NEW size \in Pieces, NEW n \in Pieces, GetHmac(size, n)
      PROVE  HmacIsStandard'
  <2>1. size \in Nat /\ n \in Nat
    BY <1>1
  <2> QED BY <2>1, <1>6, GetHmacStandard
<1>7. CASE UNCHANGED vars
  BY <1>7 DEF vars, HmacIsStandard
<1> QED BY <1>2, <1>3, <1>4, <1>5, <1>6, <1>7 DEF Next, Call

-----------------------------------------------------------------------------
(* The theorems *)

\* The invariant of the object.
THEOREM StreamInvariant == Spec => []StreamInv
<1>1. Init => StreamInv
  BY StreamInit
<1>2. StreamInv /\ [Next]_vars => StreamInv'
  BY StreamStep
<1> QED BY <1>1, <1>2, PTL DEF Spec

\* However a message is split into add() or update() calls, whatever digests are
\* asked for on the way and wherever a block ends, the compression function and
\* the buffer together hold every byte of it once, in order, and the buffer is
\* never full between calls (SHA256.cpp 251, sha3.cpp 231, SHA512.cpp 101).
THEOREM BytesKeptInOrder == Spec => []StreamIsMessage
<1>1. StreamInv => StreamIsMessage
  BY InvIsMessage
<1> QED BY <1>1, StreamInvariant, PTL

\* Every digest the code returns is the standard's digest of the bytes added since
\* the reset, at every boundary of the padding, except that SHA512::final keeps the
\* length in 32 bits and is wrong from 2^29 bytes on (SHA256.cpp 361, sha3.cpp 287,
\* SHA512.cpp 124, kec256.cpp 7).
THEOREM DigestsAreStandard == Spec => []DigestIsStandard
<1>1. Init => DigestIsStandard
  BY DEF Init, DigestIsStandard
<1>2. StreamInv /\ DigestIsStandard /\ [Next]_vars => DigestIsStandard'
  BY DigestStep
<1> QED BY <1>1, <1>2, StreamInvariant, PTL DEF Spec

\* HMAC_512::get_hmac is RFC 2104's HMAC for keys of at most 128 bytes, and for no
\* longer key, which it cuts off where the standard hashes it (HMAC_512.cpp 16).
THEOREM HmacsAreStandard == Spec => []HmacIsStandard
<1>1. Init => HmacIsStandard
  BY DEF Init, HmacIsStandard
<1>2. StreamInv /\ HmacIsStandard /\ [Next]_vars => HmacIsStandard'
  BY HmacStep
<1> QED BY <1>1, <1>2, StreamInvariant, PTL DEF Spec
=============================================================================
