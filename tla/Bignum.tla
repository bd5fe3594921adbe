------------------------------- MODULE Bignum -------------------------------
(***************************************************************************)
(* The arithmetic of openssl-1.0.2d/target.cc: how an input is cut into the *)
(* three numbers, and how the text libgcrypt prints of a number is brought  *)
(* to the form in which OpenSSL prints it, for the strcmp that decides      *)
(* whether the libraries agree.                                             *)
(***************************************************************************)
EXTENDS Integers, Sequences

CONSTANTS
  Samples,  \* numbers whose texts are compared
  Lengths   \* lengths of inputs

Byte == 0..255

\* Lengths of a, b and c for an input of len bytes that starts with the bytes d1 and d2.
l1(len, d1) == ((len - 2) * (d1 + 1)) \div 256
\* Mutant: the second length is taken of the whole rest too.
l2_whole(len, d1, d2) == ((len - 2) * (d2 + 1)) \div 256

l2(len, d1, d2) == ((len - 2 - l1(len, d1)) * (d2 + 1)) \div 256
l3(len, d1, d2) == len - 2 - l1(len, d1) - l2(len, d1, d2)

\* Where they start.
a(len, d1, d2) == 2
b(len, d1, d2) == 2 + l1(len, d1)
c(len, d1, d2) == 2 + l1(len, d1) + l2(len, d1, d2)

-----------------------------------------------------------------------------
(* A number is the sequence of its bytes, the highest first and not 0; a    *)
(* text is the sequence of its hexadecimal digits.                         *)

Numbers == {v \in Seq(Byte) : v # << >> => v[1] # 0}

ASSUME SamplesAssumption == \A v \in Samples : v \in Numbers
\* The target returns at once when len < 5.
ASSUME LengthsAssumption == \A len \in Lengths : len \in Nat /\ len >= 5

\* Two digits for each byte.
Digits(v) == [i \in 1..(2 * Len(v)) |-> IF i % 2 = 1 THEN v[(i + 1) \div 2] \div 16 ELSE v[i \div 2] % 16]

\* BN_bn2hex: whole bytes, and 0 for zero.
BN_bn2hex(v) == IF v = << >> THEN << 0 >> ELSE Digits(v)

\* gcry_mpi_aprint in FMT_HEX: whole bytes, one more when the highest bit is set, 00 for zero.
gcry_mpi_aprint(v) == (IF v = << >> \/ v[1] >= 128 THEN << 0, 0 >> ELSE << >>) \o Digits(v)

\* while (a[j]=='0' && j<(i-2)) j++; where i counts the final NUL.
LeadingZeros(text) ==
  CHOOSE j \in 0..(Len(text) - 1) :
    /\ \A k \in 1..j : text[k] = 0
    /\ j = Len(text) - 1 \/ text[j + 1] # 0

\* Mutant: the leading zero of the first byte is not put back.
gcrytostring_bare(v) ==
  LET text == gcry_mpi_aprint(v) IN SubSeq(text, LeadingZeros(text) + 1, Len(text))

\* if ((j%2)==1) j--; if (strncmp(&a[j],"00",2)==0) j++;
gcrytostring(v) ==
  LET text == gcry_mpi_aprint(v)
      even == LeadingZeros(text) - (LeadingZeros(text) % 2)
      start == IF text[even + 1] = 0 /\ text[even + 2] = 0 THEN even + 1 ELSE even
  IN  SubSeq(text, start + 1, Len(text))

-----------------------------------------------------------------------------
(* Properties.                                                             *)

\* The three numbers lie side by side inside the input, whatever its length and first bytes.
Tile(len, d1, d2) ==
  /\ l1(len, d1) \in Nat /\ l2(len, d1, d2) \in Nat /\ l3(len, d1, d2) \in Nat
  /\ b(len, d1, d2) = a(len, d1, d2) + l1(len, d1)
  /\ c(len, d1, d2) = b(len, d1, d2) + l2(len, d1, d2)
  /\ c(len, d1, d2) + l3(len, d1, d2) = len
=============================================================================
