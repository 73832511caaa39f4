---------------------------- MODULE PrincipalText ----------------------------
(***************************************************************************)
(* The text form of a principal (Principal.to_str, Principal.from_str):    *)
(* the CRC32 of the bytes and the bytes, in base32, in groups of five.  A  *)
(* character is its base32 value; Dash, upper case and characters outside  *)
(* the alphabet have numbers of their own.                                 *)
(***************************************************************************)
EXTENDS Integers, Sequences

Dash     == 32
Stray    == 33                         \* a character base32 does not have
Upper(c) == IF c < 32 THEN c + 64 ELSE c

Lower(text) == [i \in DOMAIN text |-> IF text[i] >= 64 THEN text[i] - 64 ELSE text[i]]

NoPrincipal == <<-1>>                  \* from_str raised

Bytes == 0..255

(* bit i of a number, the least significant one first *)
Bit(n, i) == (n \div 2 ^ i) % 2

(* The bits of numbers of w bits each, most significant bit of each first. *)
Bits(ns, w) ==
  [i \in 1 .. w * Len(ns) |-> Bit(ns[(i - 1) \div w + 1], w - 1 - ((i - 1) % w))]

(* The number written by n bits from position i on; bits past the end are 0. *)
BitAt(bits, i) == IF i <= Len(bits) THEN bits[i] ELSE 0

Number(bits, i, n) ==
  LET value[k \in 0..n] == IF k = 0 THEN 0 ELSE 2 * value[k - 1] + BitAt(bits, i + k - 1)
  IN  value[n]

CeilDiv(n, m) == (n + m - 1) \div m

(* zlib.crc32, its register as a function from bit positions to bits: the   *)
(* generator's reversed polynomial is 0xEDB88320.                           *)
Generator == {31, 30, 29, 27, 26, 24, 23, 21, 20, 19, 15, 9, 8, 5}

Shifted(crc, bit) ==
  [i \in 0..31 |-> ((IF i < 31 THEN crc[i + 1] ELSE 0)
                    + (IF i \in Generator THEN crc[0] + bit ELSE 0)) % 2]

(* Every byte is taken from its least significant bit on. *)
Crc32(bytes) ==
  LET register[k \in 0 .. 8 * Len(bytes)] ==
        IF k = 0 THEN [i \in 0..31 |-> 1]
        ELSE Shifted(register[k - 1], Bit(bytes[(k - 1) \div 8 + 1], (k - 1) % 8))
      final == register[8 * Len(bytes)]
  IN  [b \in 1..4 |-> Number([i \in 1..8 |-> 1 - final[32 - 8 * (b - 1) - i]], 1, 8)]

(* b32encode without its padding: the last group is filled up with zeros. *)
Base32(bytes) ==
  [g \in 1 .. CeilDiv(8 * Len(bytes), 5) |-> Number(Bits(bytes, 8), 5 * (g - 1) + 1, 5)]

(* _b32_group *)
Grouped(chars) ==
  [i \in 1 .. Len(chars) + (IF chars = << >> THEN 0 ELSE (Len(chars) - 1) \div 5) |->
     IF i % 6 = 0 THEN Dash ELSE chars[i - i \div 6]]

ToStr(bytes) == Grouped(Base32(Crc32(bytes) \o bytes))
-----------------------------------------------------------------------------
(* b32decode, the text padded to a multiple of 8: 1, 3 or 6 characters in   *)
(* the last eight are no byte's end, and the bits after the last byte are   *)
(* dropped unseen.                                                          *)
Decodable(chars) ==
  /\ \A i \in DOMAIN chars : chars[i] < 32
  /\ Len(chars) % 8 \in {0, 2, 4, 5, 7}

Unbase32(chars) ==
  [b \in 1 .. (5 * Len(chars)) \div 8 |-> Number(Bits(chars, 5), 8 * (b - 1) + 1, 8)]

(* The text without its dashes, read from the left *)
Undashed(text) ==
  LET read[i \in 0 .. Len(text)] ==
        IF i = 0 THEN << >>
        ELSE IF text[i] = Dash THEN read[i - 1] ELSE Append(read[i - 1], text[i])
  IN  read[Len(text)]

CheckedBody(payload, text) ==
  LET body == SubSeq(payload, 5, Len(payload)) IN
  IF /\ Len(payload) >= 4
     /\ SubSeq(payload, 1, 4) = Crc32(body)
     /\ ToStr(body) = text
  THEN body ELSE NoPrincipal

(* Mutant: what the checksum admits is not written out and compared. *)
UncomparedFromStr(text) ==
  LET chars == Undashed(Lower(text))
      payload == Unbase32(chars)
      body == SubSeq(payload, 5, Len(payload))
  IN  IF Decodable(chars) /\ Len(payload) >= 4 /\ SubSeq(payload, 1, 4) = Crc32(body)
      THEN body ELSE NoPrincipal

FromStr(text) ==
  LET chars == Undashed(Lower(text))
  IN  IF Decodable(chars) THEN CheckedBody(Unbase32(chars), Lower(text)) ELSE NoPrincipal
=============================================================================
