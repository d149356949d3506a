---------------------------- MODULE KeyEncodings ----------------------------
(***************************************************************************)
(* The conversions of bip44/: hexadecimal text to bytes (hex2dec), entropy *)
(* to the words of a mnemonic (BIP39.hpp) and bytes to Base58 (base58.hpp).*)
(* Pure functions; WalletKeys calls them and states what they promise.     *)
(*                                                                         *)
(* A character of hexadecimal text is its value 0..15 in either case, and  *)
(* NotHex for every other character.  A word is its index in BIP39::words. *)
(***************************************************************************)
EXTENDS Integers, Sequences, SequencesExt, FiniteSetsExt

NotHex == 16

words == 0..2047

Total(f(_), S) == MapThenSumSet(f, S)

(* hex2dec: a character that is no digit counts as nothing. *)
hex2dec(text) ==
    Total(LAMBDA i : IF text[i] = NotHex THEN 0 ELSE text[i] * 16 ^ (Len(text) - i),
          DOMAIN text)

\* Mutant: the last character of a text of odd length makes a byte of its own.
HexBytesOdd(text) ==
    [i \in 1 .. (Len(text) + 1) \div 2 |->
       hex2dec(SubSeq(text, 2 * i - 1, IF 2 * i > Len(text) THEN Len(text) ELSE 2 * i))]

(* The loops for (i = 0; i < text.length(); i += 2): the last character of  *)
(* a text of odd length is read, and its byte is left out of the count.     *)
HexBytes(text) ==
    [i \in 1 .. Len(text) \div 2 |-> hex2dec(SubSeq(text, 2 * i - 1, 2 * i))]

-----------------------------------------------------------------------------
(* generateMnemonic, generateMnemonic_12: the bytes given to SHA256, the    *)
(* first bits of its digest, and the words.  bits is a function on 0..n-1.  *)
SplitBitsForSha(bits, n) ==
    [j \in 1 .. n \div 8 |->
       Total(LAMBDA t : bits[8 * (j - 1) + t] * 2 ^ (7 - t), 0..7)]

SignBits(digest, size) == [i \in 0 .. size - 1 |-> (digest \div 2 ^ i) % 2]

\* Mutant: the checksum's low bit comes first.
WithChecksumLowFirst(bits, n, top) ==
    LET size == n \div 32
        sign == SignBits(IF size = 8 THEN top ELSE top \div 16, size)
    IN  [i \in 0 .. n + size - 1 |-> IF i < n THEN bits[i] ELSE sign[i - n]]

WithChecksum(bits, n, top) ==
    LET size == n \div 32
        sign == SignBits(IF size = 8 THEN top ELSE top \div 16, size)
    IN  [i \in 0 .. n + size - 1 |-> IF i < n THEN bits[i] ELSE sign[size - 1 - (i - n)]]

bitsToWords(bits, count) ==
    [i \in 1..count |->
       Total(LAMBDA c : bits[11 * (i - 1) + c] * 2 ^ (10 - c), 0..10)]

-----------------------------------------------------------------------------
(* EncodeBase58: digits holds the number read so far, least digit first.    *)
(* The carry starts as a byte, and a digit times 256 leaves it one.         *)
CarryDigits[carry \in 0..255] ==
    IF carry = 0 THEN <<>> ELSE <<carry % 58>> \o CarryDigits[carry \div 58]

TimesByte(digits, byte) ==
    LET step(acc, digit) ==
          LET carry == acc.carry + digit * 256
          IN  [carry |-> carry \div 58, out |-> Append(acc.out, carry % 58)]
        end == FoldLeft(step, [carry |-> byte, out |-> <<>>], digits)
    IN  end.out \o CarryDigits[end.carry]

LeadingZeros(data) ==
    Cardinality({i \in DOMAIN data : \A j \in 1..i : data[j] = 0})

base58Digits(data) == FoldLeft(TimesByte, <<0>>, data)

\* Mutant: every leading zero byte is written on its own, the last one too.
EncodeBase58AllZeros(data) ==
    [i \in 1 .. LeadingZeros(data) |-> 0] \o Reverse(base58Digits(data))

EncodeBase58(data) ==
    [i \in 1 .. LeadingZeros(Front(data)) |-> 0] \o Reverse(base58Digits(data))

(* The vector that holds the digits has this many places. *)
DigitsCapacity(data) == (Len(data) * 138) \div 100 + 1
=============================================================================
