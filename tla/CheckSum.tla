------------------------------ MODULE CheckSum ------------------------------
(***************************************************************************)
(* The last byte of a frame: the exclusive or of the bytes it is for, which *)
(* has the bits that an odd number of them have.                            *)
(***************************************************************************)
EXTENDS Naturals, Sequences, FiniteSets

\* The bit of that weight in a number.
BitOf(n, weight) == (n \div weight) % 2

XorBit(bytes, weight) ==
    weight * (Cardinality({i \in DOMAIN bytes : BitOf(bytes[i], weight) = 1}) % 2)

Xor(bytes) ==
    XorBit(bytes, 1) + XorBit(bytes, 2) + XorBit(bytes, 4) + XorBit(bytes, 8)
      + XorBit(bytes, 16) + XorBit(bytes, 32) + XorBit(bytes, 64) + XorBit(bytes, 128)

\* The byte with its lowest bit turned over: a sum that is wrong.
Spoilt(sum) == IF sum % 2 = 0 THEN sum + 1 ELSE sum - 1
=============================================================================
