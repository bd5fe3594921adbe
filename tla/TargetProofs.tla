---------------------------- MODULE TargetProofs ----------------------------
(* Targets that compute something, or share it. libpng: for inputs and      *)
(* images of any size and any behaviour of the library, bytes are read from *)
(* the input only, the work on one image is bounded, and nothing but the    *)
(* buffer for a row is ever lost, and that only by an error.                *)
(* openssl-1.0.2d: the three numbers fill the input, however the bytes that *)
(* divide it are chosen, and equal numbers are printed alike.  libssh: the  *)
(* shared key file is whole when it is read, and a call leaves nothing      *)
(* behind.                                                                  *)
EXTENDS MCTargets, SequenceTheorems, TLAPS

\* Whatever the executable is, its processes do what the three modules let them do: what is
\* proved of each of these below holds of the whole.
THEOREM Components == TargetsSpec => Spec /\ SshSpec /\ LibSpec
<1>1. TargetsInit => Init /\ SshInit /\ LibInit
  BY DEF TargetsInit
<1>2. [TargetsNext]_targetsVars => [Next]_vars /\ [SshNext]_sshVars /\ [LibNext]_libVars
  BY DEF TargetsNext, targetsVars
<1> QED
  BY <1>1, <1>2, PTL DEF TargetsSpec, Spec, SshSpec, LibSpec

-----------------------------------------------------------------------------

Reading == pc \in {"read_info", "check", "start", "rows"}

\* The input, never shorter than the signature, is split into what was read and what is left.
InputInv ==
  /\ pc = "create" => size >= kPngHeaderSize
  /\ Reading => taken + left = size

\* From line 117 on the image is small; the rows are counted up to what the loops allow.
WorkInv ==
  /\ pc = "check" => image \in Images
  /\ pc \in {"start", "rows"} => image \in Images /\ image.height * image.width <= Limit
  /\ pc = "rows" => rows <= image.passes * image.height
  /\ pc # "rows" /\ pc \notin {"return", "longjmp"} => rows = 0

\* O.row tells whether there is a buffer, except after a longjmp.
RowInv ==
  /\ pc # "longjmp" => (row = "row" <=> "row" \in held)
  /\ pc \notin {"rows", "return", "longjmp"} => "row" \notin held

Inv == TypeOK /\ InputInv /\ WorkInv /\ RowInv

-----------------------------------------------------------------------------
\* A factor is at most the product.
LEMMA FactorBound == ASSUME NEW h \in Nat, NEW w \in Nat \ {0} PROVE h <= h * w
  OBVIOUS

\* Products of smaller factors are smaller.
LEMMA ProductBound ==
  ASSUME NEW m \in Nat, NEW h \in 0..m, NEW w \in 0..m
  PROVE  h * w \in Nat /\ h * w <= m * m
<1>1. h * w <= m * w
  OBVIOUS
<1>2. m * w <= m * m
  OBVIOUS
<1> QED
  BY <1>1, <1>2

\* The product of line 117 does not wrap: the check sees the number of pixels.
LEMMA NoWrap == ASSUME image \in Images PROVE TooSlow <=> image.height * image.width > Limit
<1> DEFINE n == image.height * image.width
<1>1. image.height \in 0..MaxDim /\ image.width \in 0..MaxDim
  BY SizesAssumption DEF Images
<1>2. n \in Nat /\ n <= MaxDim * MaxDim
  BY <1>1, ProductBound, SizesAssumption
<1>3. n < WordSize /\ WordSize \in Nat
  BY <1>2, WordAssumption, SizesAssumption
<1>4. n % WordSize = n
  <2> HIDE DEF n
  <2> QED
    BY <1>2, <1>3
<1> QED
  BY <1>4 DEF TooSlow

\* The first call finds nothing allocated.
LEMMA InitInv == Init => Inv
  BY SizesAssumption DEF Init, Inv, TypeOK, InputInv, Reading, WorkInv, RowInv

\* Every step keeps the invariant.
LEMMA PngStep == Inv /\ [Next]_vars => Inv'
<1> SUFFICES ASSUME Inv, [Next]_vars PROVE Inv'
  OBVIOUS
<1> USE SizesAssumption DEF Inv, TypeOK, InputInv, Reading, WorkInv, RowInv
<1>1. CASE UNCHANGED vars
  BY <1>1 DEF vars
<1>2. CASE Enter
  BY <1>2 DEF Enter
<1>3. CASE Create
  BY <1>3 DEF Create
<1>4. CASE Fail
  BY <1>4 DEF Fail, png_error, InLibpng
<1>5. CASE user_read_data
  <2>1. CASE png_error /\ InLibpng
    BY <2>1 DEF png_error, InLibpng
  <2>2. CASE InLibpng /\ \E n \in 0..MaxRead :
               /\ n <= left /\ left' = left - n /\ taken' = taken + n
               /\ UNCHANGED << pc, size, held, lost, row, image, rows >>
    BY <2>2 DEF InLibpng
  <2> QED
    BY <1>5, <2>1, <2>2 DEF user_read_data
<1>6. CASE ReadInfo
  BY <1>6 DEF ReadInfo
<1>7. CASE CheckSize
  <2>1. image \in Images
    BY <1>7 DEF CheckSize
  <2>2. image.height * image.width \in Nat
    BY <2>1, ProductBound DEF Images
  <2>3. ~ TooSlow => image.height * image.width <= Limit
    BY <2>1, <2>2, NoWrap
  <2> QED
    BY <1>7, <2>1, <2>3 DEF CheckSize
<1>8. CASE AllocateRow
  <2>1. image.passes * image.height \in Nat
    BY <1>8 DEF AllocateRow, Images
  <2> QED
    BY <1>8, <2>1 DEF AllocateRow
<1>9. CASE png_read_row
  <2>1. image.passes * image.height \in Nat
    BY <1>9 DEF png_read_row, Images
  <2> QED
    BY <1>9, <2>1 DEF png_read_row
<1>10. CASE LastRow
  BY <1>10 DEF LastRow
<1>11. CASE Return
  BY <1>11 DEF Return, Released
<1> QED
  BY <1>1, <1>2, <1>3, <1>4, <1>5, <1>6, <1>7, <1>8, <1>9, <1>10, <1>11 DEF Next

\* The invariant holds in every behaviour.
LEMMA Invariance == Spec => []Inv
  BY InitInv, PngStep, PTL DEF Spec

\* Every variable stays in its range, whatever libpng does: no length and no position becomes
\* negative or greater than the input.
THEOREM TypeCorrect == Spec => []TypeOK
<1>1. Inv => TypeOK
  BY DEF Inv
<1> QED
  BY Invariance, <1>1, PTL

\* ReadsTheInput holds whatever lengths libpng asks for (target.cc:16 to 24).
THEOREM InputOnly == Spec => []ReadsTheInput
<1>1. Inv => ReadsTheInput
  BY DEF Inv, InputInv, Reading, ReadsTheInput, InLibpng
<1> QED
  BY Invariance, <1>1, PTL

\* BoundedWork holds for all sides that libpng accepts, as long as their product fits into
\* png_uint_32 (target.cc:117, 125 to 129).
THEOREM WorkIsBounded == Spec => []BoundedWork
<1>1. ASSUME Inv, pc = "rows" PROVE image.height * image.width <= Limit /\ rows <= 7 * Limit
  <2>1. image \in Images /\ image.height * image.width <= Limit
    BY <1>1 DEF Inv, WorkInv
  <2>2. image.height \in Nat /\ image.width \in Nat \ {0} /\ image.passes \in {1, 7}
    BY <2>1 DEF Images
  <2>3. image.height <= image.height * image.width
    BY <2>2, FactorBound
  <2>4. image.height * image.width \in Nat
    BY <2>2
  <2>5. image.height <= Limit
    BY <2>1, <2>2, <2>3, <2>4, SizesAssumption
  <2>6. rows <= image.passes * image.height /\ rows \in Nat
    BY <1>1 DEF Inv, WorkInv, TypeOK
  <2>7. image.passes * image.height <= 7 * Limit
    BY <2>2, <2>5, SizesAssumption
  <2> QED
    BY <2>1, <2>2, <2>6, <2>7, SizesAssumption
<1>2. Inv => BoundedWork
  BY <1>1 DEF BoundedWork
<1> QED
  BY Invariance, <1>2, PTL

\* OnlyErrorsLeak holds wherever libpng fails, and whatever the compiler makes of O.row after
\* a longjmp (target.cc:28 to 42, 99).
THEOREM ErrorsLeakRows == Spec => OnlyErrorsLeak
<1>1. ASSUME Inv, [Next]_vars, lost' # lost
      PROVE  pc = "longjmp" /\ lost' = lost \union {"row"}
  <2>1. Return
    BY <1>1 DEF Next, vars, Enter, Create, Fail, user_read_data, png_error, ReadInfo, CheckSize,
                AllocateRow, png_read_row, LastRow
  <2>2. lost' = lost \union (held \ Released)
    BY <2>1 DEF Return
  <2>3. held \ Released \subseteq {"row"}
    BY <1>1 DEF Inv, TypeOK, Released
  <2>4. "row" \in held \ Released
    BY <1>1, <2>2, <2>3
  <2>5. "row" \in held /\ row = "null"
    BY <2>4 DEF Released
  <2>6. pc = "longjmp"
    BY <1>1, <2>5 DEF Inv, RowInv
  <2> QED
    BY <2>2, <2>3, <2>4, <2>6
<1>2. Inv /\ [Next]_vars => (lost' # lost => pc = "longjmp" /\ lost' = lost \union {"row"})
  BY <1>1
<1> QED
  BY Invariance, <1>2, PTL DEF Spec, OnlyErrorsLeak

-----------------------------------------------------------------------------
(* openssl-1.0.2d: how the input is divided.                               *)

\* A part of a number is no longer than the number: the factor is at most 256 / 256.
LEMMA Part ==
  ASSUME NEW n \in Nat, NEW d \in Byte
  PROVE  (n * (d + 1)) \div 256 \in 0..n
<1>1. n * (d + 1) \in 0..(n * 256)
  <2>1. 255 - d \in Nat /\ n * (255 - d) \in Nat
    BY DEF Byte
  <2>2. n * 256 = n * (d + 1) + n * (255 - d)
    BY DEF Byte
  <2>3. n * (d + 1) \in Nat
    BY DEF Byte
  <2> QED
    BY <2>1, <2>2, <2>3
<1>2. \A m \in 0..(n * 256) : m \div 256 \in 0..n
  OBVIOUS
<1> QED
  BY <1>1, <1>2

\* The assertion l1+l2+l3 == len-2 and more: for every length and every pair of divisor bytes
\* none of the lengths wraps around, and the numbers tile what follows the two bytes.
THEOREM Tiling ==
  ASSUME NEW len \in Nat, len >= 5, NEW d1 \in Byte, NEW d2 \in Byte
  PROVE  Tile(len, d1, d2)
<1>1. len - 2 \in Nat
  OBVIOUS
<1>2. l1(len, d1) \in 0..(len - 2)
  BY <1>1, Part DEF l1
<1>3. len - 2 - l1(len, d1) \in Nat
  BY <1>1, <1>2
<1>4. l2(len, d1, d2) \in 0..(len - 2 - l1(len, d1))
  BY <1>3, Part DEF l2
<1> QED
  BY <1>1, <1>2, <1>3, <1>4 DEF Tile, l3, a, b, c

\* Where the zeros of a text end.
LEMMA ZerosEnd ==
  ASSUME NEW text \in Seq(0..15), NEW n \in 0..(Len(text) - 1),
         \A k \in 1..n : text[k] = 0, n = Len(text) - 1 \/ text[n + 1] # 0
  PROVE  LeadingZeros(text) = n
<1> DEFINE Good(j) == (\A k \in 1..j : text[k] = 0) /\ (j = Len(text) - 1 \/ text[j + 1] # 0)
<1>1. Len(text) \in Nat /\ Good(n)
  OBVIOUS
<1>2. ASSUME NEW j \in 0..(Len(text) - 1), Good(j) PROVE j = n
  <2>1. ~ j < n
    <3>1. ASSUME j < n PROVE FALSE
      <4>1. j + 1 \in 1..n /\ j # Len(text) - 1
        BY <1>1, <3>1
      <4> QED
        BY <1>2, <4>1
    <3> QED
      BY <3>1
  <2>2. ~ n < j
    <3>1. ASSUME n < j PROVE FALSE
      <4>1. n + 1 \in 1..j /\ n # Len(text) - 1
        BY <1>1, <3>1
      <4> QED
        BY <1>2, <4>1
    <3> QED
      BY <3>1
  <2> QED
    BY <1>1, <2>1, <2>2
<1>3. LeadingZeros(text) = CHOOSE j \in 0..(Len(text) - 1) : Good(j)
  BY DEF LeadingZeros
<1> HIDE DEF Good
<1> QED
  BY <1>1, <1>2, <1>3

\* The digits of a number begin with those of its highest byte.
LEMMA DigitsOf ==
  ASSUME NEW v \in Numbers, v # << >>
  PROVE  /\ Digits(v) \in Seq(0..15) /\ Len(Digits(v)) \in Nat /\ Len(Digits(v)) >= 2
         /\ v[1] \in 1..255
         /\ Digits(v)[1] = v[1] \div 16 /\ Digits(v)[2] = v[1] % 16
<1>1. v \in Seq(Byte) /\ Len(v) \in Nat /\ Len(v) >= 1 /\ v[1] \in 1..255
  <2>1. v \in Seq(Byte) /\ v[1] # 0
    BY DEF Numbers
  <2>2. Len(v) \in Nat /\ Len(v) # 0
    BY <2>1, EmptySeq
  <2>3. v[1] \in Byte
    BY <2>1, <2>2, ElementOfSeq
  <2> QED
    BY <2>1, <2>2, <2>3 DEF Byte
<1>0. \A i \in 1..Len(v) : v[i] \in 0..255 /\ v[i] \div 16 \in 0..15 /\ v[i] % 16 \in 0..15
  <2>1. \A i \in 1..Len(v) : v[i] \in 0..255
    BY <1>1, ElementOfSeq DEF Byte
  <2>2. \A x \in 0..255 : x \div 16 \in 0..15 /\ x % 16 \in 0..15
    OBVIOUS
  <2> QED
    BY <2>1, <2>2
<1>2. ASSUME NEW i \in 1..(2 * Len(v))
      PROVE  (IF i % 2 = 1 THEN v[(i + 1) \div 2] \div 16 ELSE v[i \div 2] % 16) \in 0..15
  <2>1. CASE i % 2 = 1
    <3>1. (i + 1) \div 2 \in 1..Len(v)
      BY <1>1, <2>1
    <3> QED
      BY <1>0, <2>1, <3>1
  <2>2. CASE i % 2 # 1
    <3>1. i \div 2 \in 1..Len(v)
      BY <1>1, <2>2
    <3> QED
      BY <1>0, <2>2, <3>1
  <2> QED
    BY <2>1, <2>2
<1>3. 2 * Len(v) \in Nat /\ 1 \in 1..(2 * Len(v)) /\ 2 \in 1..(2 * Len(v))
  BY <1>1
<1>4. Digits(v) \in Seq(0..15) /\ Len(Digits(v)) = 2 * Len(v)
  BY <1>2, <1>3 DEF Digits
<1>5. Digits(v)[1] = v[1] \div 16 /\ Digits(v)[2] = v[1] % 16
  BY <1>3 DEF Digits
<1> QED
  BY <1>1, <1>4, <1>5

\* What is left of a text whose zeros end after an even number n of digits, or one digit later.
LEMMA Stripped ==
  ASSUME NEW v, gcry_mpi_aprint(v) \in Seq(0..15),
         NEW n \in Nat, n % 2 = 0, n + 2 <= Len(gcry_mpi_aprint(v)),
         LeadingZeros(gcry_mpi_aprint(v)) \in {n, n + 1},
         gcry_mpi_aprint(v)[n + 1] # 0 \/ gcry_mpi_aprint(v)[n + 2] # 0
  PROVE  gcrytostring(v) = SubSeq(gcry_mpi_aprint(v), n + 1, Len(gcry_mpi_aprint(v)))
<1> DEFINE zeros == LeadingZeros(gcry_mpi_aprint(v))
<1>1. zeros - (zeros % 2) = n
  <2>1. n % 2 = 0 => (n + 1) % 2 = 1
    OBVIOUS
  <2> QED
    BY <2>1
<1> QED
  BY <1>1 DEF gcrytostring

\* The text that gcrytostring makes of a number is that of BN_bn2hex, digit by digit: the zeros
\* that libgcrypt puts before a high bit are dropped, that of a first byte below 16 is kept, and
\* of zero one digit is left.
THEOREM SameText ==
  ASSUME NEW v \in Numbers
  PROVE  gcrytostring(v) = BN_bn2hex(v)
<1> DEFINE text == gcry_mpi_aprint(v)
<1>1. CASE v = << >>
  <2>1. text = << 0, 0 >>
    <3>1. Digits(v) = << >>
      BY <1>1 DEF Digits
    <3>2. << 0, 0 >> \in Seq(0..15) /\ << 0, 0 >> \o << >> = << 0, 0 >>
      BY ConcatEmptySeq
    <3> QED
      BY <1>1, <3>1, <3>2 DEF gcry_mpi_aprint
  <2>2. text \in Seq(0..15) /\ Len(text) = 2 /\ text[1] = 0 /\ text[2] = 0
    BY <2>1
  <2> HIDE DEF text
  <2>3. LeadingZeros(text) = 1
    BY <2>2, ZerosEnd
  <2>4. gcrytostring(v) = SubSeq(text, 2, Len(text))
    BY <2>2, <2>3 DEF gcrytostring, text
  <2>5. SubSeq(text, 2, Len(text)) = << text[2] >>
    <3>0. \A i \in 2..2 : text[i] \in 0..15
      BY <2>2
    <3>1. SubSeq(text, 2, 2) \in Seq(0..15) /\ Len(SubSeq(text, 2, 2)) = 1
      BY <3>0, SubSeqProperties
    <3>2. 1 \in 1..(2 - 2 + 1) /\ 2 + 1 - 1 = 2
      OBVIOUS
    <3>3. SubSeq(text, 2, 2)[1] = text[2]
      BY <3>0, <3>2, SubSeqProperties
    <3>4. \A s \in Seq(0..15) : Len(s) = 1 => s = << s[1] >>
      OBVIOUS
    <3> QED
      BY <2>2, <3>1, <3>3, <3>4, Zenon
  <2> QED
    BY <1>1, <2>2, <2>4, <2>5 DEF BN_bn2hex
<1>2. CASE v # << >> /\ v[1] >= 128
  <2> DEFINE d == Digits(v)
  <2>1. text = << 0, 0 >> \o d
    BY <1>2 DEF gcry_mpi_aprint
  <2>2. d \in Seq(0..15) /\ Len(d) \in Nat /\ Len(d) >= 2 /\ d[1] # 0
    <3>1. v[1] \in 128..255 /\ d[1] = v[1] \div 16
      <4>1. v[1] \in 1..255 /\ d[1] = v[1] \div 16
        BY <1>2, DigitsOf
      <4>2. \A x \in 1..255 : x >= 128 => x \in 128..255
        OBVIOUS
      <4>3. v[1] \in 128..255
        BY <1>2, <4>1, <4>2
      <4> QED
        BY <4>1, <4>3
    <3>2. \A x \in 128..255 : x \div 16 # 0
      OBVIOUS
    <3> QED
      BY <1>2, <3>1, <3>2, DigitsOf
  <2>0. BN_bn2hex(v) = d
    BY <1>2 DEF BN_bn2hex
  <2> HIDE DEF text, d
  <2>3. text \in Seq(0..15) /\ Len(text) = Len(d) + 2
    BY <2>1, <2>2
  <2>4. text[1] = 0 /\ text[2] = 0 /\ \A i \in 1..Len(d) : text[i + 2] = d[i]
    BY <2>1, <2>2
  <2>5. LeadingZeros(text) = 2
    <3>1. 2 \in 0..(Len(text) - 1) /\ \A k \in 1..2 : text[k] = 0
      BY <2>2, <2>3, <2>4
    <3>2. text[2 + 1] # 0
      BY <2>2, <2>4
    <3> QED
      BY <2>3, <3>1, <3>2, ZerosEnd
  <2>6. gcrytostring(v) = SubSeq(text, 3, Len(text))
    BY <2>2, <2>3, <2>4, <2>5, Stripped DEF text
  <2>7. SubSeq(text, 3, Len(text)) = d
    BY <2>2, <2>3, <2>4
  <2> QED
    BY <2>0, <2>6, <2>7
<1>3. CASE v # << >> /\ ~ v[1] >= 128
  <2>1. text = Digits(v)
    <3>1. Digits(v) \in Seq(0..15)
      BY <1>3, DigitsOf
    <3>2. << >> \o Digits(v) = Digits(v)
      BY <3>1
    <3> QED
      BY <1>3, <3>2 DEF gcry_mpi_aprint
  <2>2. text \in Seq(0..15) /\ Len(text) \in Nat /\ Len(text) >= 2
    BY <1>3, <2>1, DigitsOf
  <2>3. v[1] \in 1..255 /\ text[1] = v[1] \div 16 /\ text[2] = v[1] % 16
    BY <1>3, <2>1, DigitsOf
  <2>4. BN_bn2hex(v) = text
    BY <1>3, <2>1 DEF BN_bn2hex
  <2> HIDE DEF text
  <2>5. text[1] # 0 \/ text[2] # 0
    BY <2>3
  <2>6. LeadingZeros(text) \in {0, 1}
    <3>1. CASE text[1] # 0
      BY <2>2, <3>1, ZerosEnd
    <3>2. CASE text[1] = 0
      BY <2>2, <2>5, <3>2, ZerosEnd
    <3> QED
      BY <3>1, <3>2
  <2>7. gcrytostring(v) = SubSeq(text, 1, Len(text))
    BY <2>2, <2>5, <2>6, Stripped DEF text
  <2>8. SubSeq(text, 1, Len(text)) = text
    BY <2>2
  <2> QED
    BY <2>4, <2>7, <2>8
<1> QED
  BY <1>1, <1>2, <1>3

\* The property of the run: whichever lengths it takes, the slices tile the input in every call.
THEOREM SlicesFill == LibSpec => []SlicesTile
<1>1. SlicesTile
  BY LengthsAssumption, Tiling DEF SlicesTile
<1> QED
  BY <1>1, PTL

\* The property of the run: whichever numbers it takes, the assertion on line 145 compares equal
\* texts of equal numbers in every call.
THEOREM TextsAgree == LibSpec => []PrintsAlike
<1>1. PrintsAlike
  BY SamplesAssumption, SameText DEF PrintsAlike
<1> QED
  BY <1>1, PTL

-----------------------------------------------------------------------------
(* libssh: for any set of fuzzing processes, any length of the key and any  *)
(* inputs, the key file is whole whenever libssh reads it, and a call       *)
(* leaves no descriptor and no object behind.  A process that has written   *)
(* up to its offset finds that much of the file, because every process      *)
(* writes the same key and none truncates the file.                        *)


\* What a process has written in its current call is in the file.
KeepsOwn(w) ==
  /\ at[w] = "write" => 1..offset[w] \subseteq key
  /\ at[w] \in {"bind", "accept"} => WholeKey \subseteq key

OwnKeyStays == \A w \in Workers : KeepsOwn(w)

\* The descriptor of the key file is open while it is written, and a process between two
\* calls, or dead, holds nothing.
Holds(w) ==
  /\ "key" \in fds[w] => at[w] = "write"
  /\ at[w] \in {"idle", "dead"} => fds[w] = {} /\ handles[w] = {} /\ input[w] = 0

HoldsOwn == \A w \in Workers : Holds(w)

SshInv == SshTypeOK /\ OwnKeyStays /\ HoldsOwn

\* The initial state satisfies the invariant: the file may be absent.
LEMMA SshInitInv == SshInit => SshInv
  BY TargetAssumption
     DEF SshInit, SshInv, SshTypeOK, OwnKeyStays, KeepsOwn, HoldsOwn, Holds, WholeKey, Steps

\* Every variable stays in its range.
LEMMA SshTypeStep == SshInv /\ [SshNext]_sshVars => SshTypeOK'
<1> SUFFICES ASSUME SshInv, [SshNext]_sshVars PROVE SshTypeOK'
  OBVIOUS
<1> USE TargetAssumption DEF SshInv, SshTypeOK, Steps
<1>1. CASE UNCHANGED sshVars
  BY <1>1 DEF sshVars
<1>2. ASSUME NEW w \in Workers, Feed(w) PROVE SshTypeOK'
  BY <1>2 DEF Feed, Goto, Shutdown
<1>3. ASSUME NEW w \in Workers, OpenKey(w) PROVE SshTypeOK'
  BY <1>3 DEF OpenKey, Goto, Contents
<1>4. ASSUME NEW w \in Workers, WriteKey(w) PROVE SshTypeOK'
  <2>1. offset[w] + 1 \in WholeKey /\ offset[w] + 1 \in 0..KeyLen
    BY <1>4 DEF WriteKey, WholeKey
  <2> QED
    BY <1>4, <2>1 DEF WriteKey
<1>5. ASSUME NEW w \in Workers, CloseKey(w) PROVE SshTypeOK'
  BY <1>5 DEF CloseKey, Goto
<1>6. ASSUME NEW w \in Workers, Bind(w) PROVE SshTypeOK'
  BY <1>6 DEF Bind, Goto
<1>7. ASSUME NEW w \in Workers, Accept(w) PROVE SshTypeOK'
  BY <1>7 DEF Accept, Goto
<1>8. ASSUME NEW w \in Workers, KeyExchange(w) PROVE SshTypeOK'
  BY <1>8 DEF KeyExchange, Goto, Take, AtEnd
<1>9. ASSUME NEW w \in Workers, GetMessage(w) PROVE SshTypeOK'
  BY <1>9 DEF GetMessage, Goto, Take, AtEnd
<1>10. ASSUME NEW w \in Workers, Close(w) PROVE SshTypeOK'
  BY <1>10 DEF Close, Goto
<1>11. ASSUME NEW w \in Workers, Die(w) PROVE SshTypeOK'
  BY <1>11 DEF Die
<1>12. ASSUME NEW w \in Workers, Restart(w) PROVE SshTypeOK'
  BY <1>12 DEF Restart, Goto
<1> QED
  BY <1>1, <1>2, <1>3, <1>4, <1>5, <1>6, <1>7, <1>8, <1>9, <1>10, <1>11, <1>12 DEF SshNext, Call

\* No step takes from the file what a process has written in its current call.
LEMMA KeyStep == SshInv /\ [SshNext]_sshVars => OwnKeyStays'
<1> SUFFICES ASSUME SshInv, [SshNext]_sshVars, NEW w \in Workers PROVE KeepsOwn(w)'
  BY DEF OwnKeyStays
<1> USE TargetAssumption DEF SshInv, SshTypeOK, OwnKeyStays
<1>1. CASE UNCHANGED sshVars
  BY <1>1 DEF sshVars, KeepsOwn
<1>2. ASSUME NEW v \in Workers, Feed(v) PROVE KeepsOwn(w)'
  BY <1>2 DEF Feed, Goto, KeepsOwn
<1>3. ASSUME NEW v \in Workers, OpenKey(v) PROVE KeepsOwn(w)'
  <2>1. key' = key
    BY <1>3 DEF OpenKey, Contents
  <2>2. CASE v = w
    <3>1. at'[w] = "write" /\ offset'[w] = 0
      BY <1>3, <2>2 DEF OpenKey, Goto
    <3> QED
      BY <3>1 DEF KeepsOwn
  <2>3. CASE v # w
    BY <1>3, <2>1, <2>3 DEF OpenKey, Goto, KeepsOwn
  <2> QED
    BY <2>2, <2>3
<1>4. ASSUME NEW v \in Workers, WriteKey(v) PROVE KeepsOwn(w)'
  <2>1. CASE v = w
    <3>1. at'[w] = "write" /\ offset'[w] = offset[w] + 1 /\ 1..offset[w] \subseteq key
      BY <1>4, <2>1 DEF WriteKey, KeepsOwn
    <3>2. offset[w] \in Nat /\ key' = key \union {offset[w] + 1}
      BY <1>4, <2>1 DEF WriteKey
    <3>3. 1..(offset[w] + 1) \subseteq key'
      BY <3>1, <3>2
    <3> QED
      BY <3>1, <3>3 DEF KeepsOwn
  <2>2. CASE v # w
    BY <1>4, <2>2 DEF WriteKey, KeepsOwn
  <2> QED
    BY <2>1, <2>2
<1>5. ASSUME NEW v \in Workers, CloseKey(v) PROVE KeepsOwn(w)'
  <2>1. CASE v = w
    BY <1>5, <2>1 DEF CloseKey, Goto, KeepsOwn, WholeKey
  <2>2. CASE v # w
    BY <1>5, <2>2 DEF CloseKey, Goto, KeepsOwn
  <2> QED
    BY <2>1, <2>2
<1>6. ASSUME NEW v \in Workers, Bind(v) PROVE KeepsOwn(w)'
  BY <1>6 DEF Bind, Goto, KeepsOwn
<1>7. ASSUME NEW v \in Workers, Accept(v) PROVE KeepsOwn(w)'
  BY <1>7 DEF Accept, Goto, KeepsOwn
<1>8. ASSUME NEW v \in Workers, KeyExchange(v) PROVE KeepsOwn(w)'
  BY <1>8 DEF KeyExchange, Goto, KeepsOwn
<1>9. ASSUME NEW v \in Workers, GetMessage(v) PROVE KeepsOwn(w)'
  BY <1>9 DEF GetMessage, Goto, KeepsOwn
<1>10. ASSUME NEW v \in Workers, Close(v) PROVE KeepsOwn(w)'
  BY <1>10 DEF Close, Goto, KeepsOwn
<1>11. ASSUME NEW v \in Workers, Die(v) PROVE KeepsOwn(w)'
  BY <1>11 DEF Die, KeepsOwn
<1>12. ASSUME NEW v \in Workers, Restart(v) PROVE KeepsOwn(w)'
  BY <1>12 DEF Restart, Goto, KeepsOwn
<1> QED
  BY <1>1, <1>2, <1>3, <1>4, <1>5, <1>6, <1>7, <1>8, <1>9, <1>10, <1>11, <1>12 DEF SshNext, Call

\* No step leaves a process between two calls with anything in its hands.
LEMMA HoldsStep == SshInv /\ [SshNext]_sshVars => HoldsOwn'
<1> SUFFICES ASSUME SshInv, [SshNext]_sshVars, NEW w \in Workers PROVE Holds(w)'
  BY DEF HoldsOwn
<1> USE DEF SshInv, SshTypeOK, HoldsOwn
<1>1. CASE UNCHANGED sshVars
  BY <1>1 DEF sshVars, Holds
<1>2. ASSUME NEW v \in Workers, Feed(v) PROVE Holds(w)'
  BY <1>2 DEF Feed, Goto, Holds
<1>3. ASSUME NEW v \in Workers, OpenKey(v) PROVE Holds(w)'
  BY <1>3 DEF OpenKey, Goto, Holds
<1>4. ASSUME NEW v \in Workers, WriteKey(v) PROVE Holds(w)'
  BY <1>4 DEF WriteKey, Holds
<1>5. ASSUME NEW v \in Workers, CloseKey(v) PROVE Holds(w)'
  BY <1>5 DEF CloseKey, Goto, Holds
<1>6. ASSUME NEW v \in Workers, Bind(v) PROVE Holds(w)'
  BY <1>6 DEF Bind, Goto, Holds
<1>7. ASSUME NEW v \in Workers, Accept(v) PROVE Holds(w)'
  BY <1>7 DEF Accept, Goto, Holds
<1>8. ASSUME NEW v \in Workers, KeyExchange(v) PROVE Holds(w)'
  BY <1>8 DEF KeyExchange, Goto, Take, AtEnd, Holds
<1>9. ASSUME NEW v \in Workers, GetMessage(v) PROVE Holds(w)'
  BY <1>9 DEF GetMessage, Goto, Take, AtEnd, Holds
<1>10. ASSUME NEW v \in Workers, Close(v) PROVE Holds(w)'
  BY <1>10 DEF Close, Goto, Holds
<1>11. ASSUME NEW v \in Workers, Die(v) PROVE Holds(w)'
  BY <1>11 DEF Die, Holds
<1>12. ASSUME NEW v \in Workers, Restart(v) PROVE Holds(w)'
  BY <1>12 DEF Restart, Goto, Holds
<1> QED
  BY <1>1, <1>2, <1>3, <1>4, <1>5, <1>6, <1>7, <1>8, <1>9, <1>10, <1>11, <1>12 DEF SshNext, Call

\* The invariant holds in every behaviour.
LEMMA SshInvariance == SshSpec => []SshInv
<1>1. SshInv /\ [SshNext]_sshVars => SshInv'
  BY SshTypeStep, KeyStep, HoldsStep DEF SshInv
<1> QED
  BY SshInitInv, <1>1, PTL DEF SshSpec

\* Every variable stays in its range, for any number of processes.
THEOREM SshTypeCorrect == SshSpec => []SshTypeOK
<1>1. SshInv => SshTypeOK
  BY DEF SshInv
<1> QED
  BY SshInvariance, <1>1, PTL

\* KeyWholeWhenRead holds in every behaviour of any number of fuzzing processes that share the
\* key file (libssh_server_fuzzer.cc:70 to 81).
THEOREM KeyIsWhole == SshSpec => []KeyWholeWhenRead
<1>1. SshInv => KeyWholeWhenRead
  BY DEF SshInv, SshTypeOK, OwnKeyStays, KeepsOwn, KeyWholeWhenRead
<1> QED
  BY SshInvariance, <1>1, PTL

\* NothingHeldBetweenCalls holds in every behaviour, whatever the inputs are and wherever a
\* process dies: the number of descriptors does not grow with the number of inputs
\* (libssh_server_fuzzer.cc:74, 94 to 99).
THEOREM CallsLeaveNothing == SshSpec => []NothingHeldBetweenCalls
<1>1. SshInv => NothingHeldBetweenCalls
  BY DEF SshInv, HoldsOwn, Holds, NothingHeldBetweenCalls
<1> QED
  BY SshInvariance, <1>1, PTL

=============================================================================
