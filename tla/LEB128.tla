------------------------------- MODULE LEB128 -------------------------------
(***************************************************************************)
(* The numbers of candid.py's messages: groups of seven bits, the lowest   *)
(* first, with bit 7 set in all but the last.  Reading yields a value and  *)
(* the position behind it, or raises at the end of the bytes.              *)
(***************************************************************************)
EXTENDS Integers, Sequences

Got(val, at) == [ok |-> TRUE, val |-> val, at |-> at]
Raise(at)    == [ok |-> FALSE, val |-> <<"none">>, at |-> at]

(* Mutant: the low seven bits are not masked. *)
EncodeUnmasked(val) ==
  LET bytes[n \in Nat] == IF n < 128 THEN <<n>> ELSE <<128 + n>> \o bytes[n \div 128]
  IN  bytes[val]

EncodeU(val) ==
  LET bytes[n \in Nat] ==
        IF n < 128 THEN <<n>> ELSE <<128 + (n % 128)>> \o bytes[n \div 128]
  IN  bytes[val]

(* >> keeps the sign, as \div does; bit 6 is the sign. *)
EncodeI(val) ==
  LET bytes[n \in Int] ==
        LET byte == n % 128
            rest == n \div 128
        IN  IF (rest = 0 /\ byte < 64) \/ (rest = -1 /\ byte >= 64)
            THEN <<byte>> ELSE <<128 + byte>> \o bytes[rest]
  IN  bytes[val]

DecodeU(b, at) ==
  LET read[i \in Nat \ {0}] ==
        IF i > Len(b) THEN Raise(i)
        ELSE IF b[i] < 128 THEN Got(b[i], i + 1)
        ELSE LET more == read[i + 1]
             IN  IF more.ok THEN Got(b[i] - 128 + 128 * more.val, more.at) ELSE more
  IN  read[at]

DecodeI(b, at) ==
  LET read[i \in Nat \ {0}] ==
        IF i > Len(b) THEN Raise(i)
        ELSE IF b[i] < 128 THEN Got(IF b[i] < 64 THEN b[i] ELSE b[i] - 128, i + 1)
        ELSE LET more == read[i + 1]
             IN  IF more.ok THEN Got(b[i] - 128 + 128 * more.val, more.at) ELSE more
  IN  read[at]
=============================================================================
