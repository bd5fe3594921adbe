-------------------------- MODULE PngMutatorProofs --------------------------
(***************************************************************************)
(* For every corpus, every limit on sizes and every sequence of mutations   *)
(* and cross-overs: the raw mutator is never handed an empty buffer, what   *)
(* was written is read back, and the image data of a file is merged into    *)
(* one chunk.                                                               *)
(***************************************************************************)
EXTENDS PngMutator, SequenceTheorems, FiniteSetTheorems, WellFoundedInduction, TLAPS

Bytes == Seq(Int)

\* Chunks whose hints, if that is what they are, are not empty.
FullChunks == {c \in Chunks : c.type = "fUZz" => c.v # << >>}

\* The object under construction: the chunk its index points at is image data, so that
\* uncompressing it, which may leave nothing, cannot empty a fUZz chunk.
SoundParser(p) ==
  /\ p \in Parsers
  /\ p.chunks \in Seq(FullChunks)
  /\ p.idat_idx # 0 => p.idat_idx \in 1..Len(p.chunks) /\ p.chunks[p.idat_idx].type = "IDAT"

SoundFile(f) == f \in Files /\ f.chunks \in Seq(FullChunks)

\* The inductive invariant.
Inv ==
  /\ SoundFile(file)
  /\ \A k \in DOMAIN in : SoundFile(in[k])
  /\ DOMAIN parser = DOMAIN in
  /\ parser \in Seq(Parsers)
  /\ \A k \in DOMAIN parser : SoundParser(parser[k])
  /\ job = "CrossOver" => 2 \in DOMAIN parser
  /\ job \in {"Mutate", "CrossOver"} => 1 \in DOMAIN parser
  /\ handed \subseteq Nat \ {0}

-----------------------------------------------------------------------------
(* Numbers.                                                                *)

\* Min of CommunityModules is the least element.
LEMMA LeastOf ==
  ASSUME NEW S \in SUBSET Nat, S # {}
  PROVE  Min(S) \in S /\ \A y \in S : Min(S) <= y
<1>1. PICK x \in S : \A y \in S : << y, x >> \notin OpToRel(<, Nat)
  BY NatLessThanWellFounded, WFMin
<1>2. x \in Nat /\ \A y \in S : y \in Nat /\ ~(y < x)
  BY <1>1 DEF OpToRel
<1>3. \E m \in S : \A y \in S : m =< y
  BY <1>2
<1> QED
  BY <1>3 DEF Min

\* What holds of 0, and of n if it holds of n - 1, holds of every number up to N.
LEMMA UpTo ==
  ASSUME NEW N \in Nat, NEW S, 0 \in S, \A n \in 1..N : n - 1 \in S => n \in S
  PROVE  0..N \subseteq S
<1> DEFINE Bad == {n \in 0..N : n \notin S}
<1>1. SUFFICES ASSUME Bad # {} PROVE FALSE
  OBVIOUS
<1>2. Bad \in SUBSET Nat
  OBVIOUS
<1>3. PICK n \in Bad : \A m \in Bad : n <= m
  <2> HIDE DEF Bad
  <2> QED
    BY <1>1, <1>2, LeastOf
<1>4. n \in 1..N /\ n - 1 \in 0..N
  BY <1>3
<1>5. n - 1 \notin Bad
  BY <1>3, <1>4
<1> QED
  BY <1>3, <1>4, <1>5

-----------------------------------------------------------------------------
(* Concatenations of sequences.                                            *)

\* The concatenations of the first i sequences of s, for each i up to n.
Beginnings(x, s, n) == x = [i \in 1..n |-> IF i = 1 THEN s[i] ELSE x[i - 1] \o s[i]]

\* They are well defined.
LEMMA BeginningsExist ==
  ASSUME NEW s, NEW n \in Nat
  PROVE  \E x : Beginnings(x, s, n)
<1> DEFINE S == {k \in 0..n : \E x : Beginnings(x, s, k)}
<1>1. 0 \in S
  <2>1. PICK x : x = [i \in 1..0 |-> << >>]
    OBVIOUS
  <2>2. Beginnings(x, s, 0)
    BY <2>1 DEF Beginnings
  <2> QED
    BY <2>2
<1>2. ASSUME NEW k \in 1..n, k - 1 \in S
      PROVE  k \in S
  <2>1. PICK x : x = [i \in 1..(k - 1) |-> IF i = 1 THEN s[i] ELSE x[i - 1] \o s[i]]
    BY <1>2 DEF Beginnings
  <2>2. PICK y : y = [i \in 1..k |-> IF i < k THEN x[i] ELSE IF i = 1 THEN s[i] ELSE x[i - 1] \o s[i]]
    OBVIOUS
  <2>3. ASSUME NEW i \in 1..k
        PROVE  y[i] = IF i = 1 THEN s[i] ELSE y[i - 1] \o s[i]
    <3>1. i # 1 => i - 1 \in 1..k /\ i - 1 < k /\ y[i - 1] = x[i - 1]
      BY <2>2
    <3>2. CASE i < k
      <4>1. y[i] = x[i] /\ i \in 1..(k - 1)
        BY <2>2, <3>2
      <4>2. x[i] = IF i = 1 THEN s[i] ELSE x[i - 1] \o s[i]
        BY <2>1, <4>1
      <4> QED
        BY <3>1, <4>1, <4>2
    <3>3. CASE ~(i < k)
      BY <2>2, <3>1, <3>3
    <3> QED
      BY <3>2, <3>3
  <2>4. Beginnings(y, s, k)
    BY <2>2, <2>3 DEF Beginnings
  <2> QED
    BY <2>4
<1>3. 0..n \subseteq S
  <2> HIDE DEF S
  <2> QED
    BY <1>1, <1>2, UpTo
<1> QED
  BY <1>3

\* They are sequences, and depend on the sequences they are made of only.
LEMMA BeginningsAre ==
  ASSUME NEW X, NEW s \in Seq(Seq(X)), NEW t \in Seq(Seq(X)), NEW m \in 0..Len(s), NEW n \in m..Len(t),
         \A i \in 1..m : s[i] = t[i], NEW x, Beginnings(x, s, m), NEW y, Beginnings(y, t, n)
  PROVE  \A i \in 1..m : x[i] = y[i] /\ x[i] \in Seq(X)
<1> DEFINE S == {k \in 0..m : k # 0 => x[k] = y[k] /\ x[k] \in Seq(X)}
<1>1. 0 \in S
  OBVIOUS
<1>2. ASSUME NEW k \in 1..m, k - 1 \in S
      PROVE  k \in S
  <2>1. s[k] \in Seq(X) /\ s[k] = t[k]
    OBVIOUS
  <2>2. x[k] = IF k = 1 THEN s[k] ELSE x[k - 1] \o s[k]
    BY DEF Beginnings
  <2>3. y[k] = IF k = 1 THEN t[k] ELSE y[k - 1] \o t[k]
    <3>1. k \in 1..n
      OBVIOUS
    <3> QED
      BY <3>1 DEF Beginnings
  <2>4. CASE k = 1
    BY <2>1, <2>2, <2>3, <2>4
  <2>5. CASE k # 1
    <3>1. x[k - 1] = y[k - 1] /\ x[k - 1] \in Seq(X)
      BY <1>2, <2>5
    <3>2. x[k] = x[k - 1] \o s[k] /\ y[k] = x[k - 1] \o s[k]
      BY <2>1, <2>2, <2>3, <2>5, <3>1
    <3>3. x[k - 1] \o s[k] \in Seq(X)
      BY <2>1, <3>1, ConcatProperties
    <3>4. x[k] = y[k] /\ x[k] \in Seq(X)
      BY <3>2, <3>3
    <3> QED
      BY <3>4
  <2> QED
    BY <2>4, <2>5
<1>3. 0..m \subseteq S
  <2>1. m \in Nat
    OBVIOUS
  <2> HIDE DEF S
  <2> QED
    BY <1>1, <1>2, <2>1, UpTo
<1> QED
  BY <1>3

\* The concatenation is the last of them.
LEMMA FlattenIsLast ==
  ASSUME NEW X, NEW s \in Seq(Seq(X)), s # << >>
  PROVE  \E x : Beginnings(x, s, Len(s)) /\ FlattenSeq(s) = x[Len(s)]
<1>1. Len(s) \in Nat /\ Len(s) # 0
  OBVIOUS
<1> DEFINE x == CHOOSE y : Beginnings(y, s, Len(s))
<1>2. Beginnings(x, s, Len(s))
  BY <1>1, BeginningsExist
<1>3. FlattenSeq(s) = x[Len(s)]
  BY <1>1 DEF FlattenSeq, Beginnings
<1> QED
  BY <1>2, <1>3

\* A concatenation grows by what is appended.
LEMMA FlattenAppend ==
  ASSUME NEW X, NEW s \in Seq(Seq(X)), NEW e \in Seq(X)
  PROVE  /\ FlattenSeq(s) \in Seq(X)
         /\ FlattenSeq(<< >>) = << >>
         /\ FlattenSeq(Append(s, e)) = FlattenSeq(s) \o e
<1> DEFINE t == Append(s, e)
<1>1. t \in Seq(Seq(X)) /\ t # << >> /\ Len(t) = Len(s) + 1 /\ t[Len(t)] = e /\ \A i \in 1..Len(s) : t[i] = s[i]
  BY AppendProperties
<1>2. FlattenSeq(<< >>) = << >>
  BY DEF FlattenSeq
<1>3. PICK y : Beginnings(y, t, Len(t)) /\ FlattenSeq(t) = y[Len(t)]
  BY <1>1, FlattenIsLast
<1>4. Len(s) \in Nat /\ Len(t) \in 1..Len(t)
  BY <1>1
<1>5. y[Len(t)] = IF Len(t) = 1 THEN t[Len(t)] ELSE y[Len(t) - 1] \o t[Len(t)]
  BY <1>3, <1>4 DEF Beginnings
<1>6. CASE s = << >>
  <2>1. Len(t) = 1 /\ FlattenSeq(t) = e
    BY <1>1, <1>3, <1>5, <1>6
  <2>2. << >> \o e = e
    BY ConcatEmptySeq
  <2>3. FlattenSeq(s) = << >> /\ << >> \in Seq(X)
    BY <1>2, <1>6
  <2>4. FlattenSeq(t) = FlattenSeq(s) \o e
    BY <2>1, <2>2, <2>3
  <2> QED
    BY <1>2, <2>3, <2>4
<1>7. CASE s # << >>
  <2>1. PICK x : Beginnings(x, s, Len(s)) /\ FlattenSeq(s) = x[Len(s)]
    BY <1>7, FlattenIsLast
  <2>2. Len(s) \in 1..Len(s) /\ Len(s) \in 0..Len(s) /\ Len(t) \in Len(s)..Len(t)
    BY <1>1, <1>7
  <2>3. x[Len(s)] = y[Len(s)] /\ x[Len(s)] \in Seq(X)
    <3> HIDE DEF t
    <3>1. \A i \in 1..Len(s) : x[i] = y[i] /\ x[i] \in Seq(X)
      BY <1>1, <1>3, <2>1, <2>2, BeginningsAre
    <3> QED
      BY <2>2, <3>1
  <2>4. FlattenSeq(t) = FlattenSeq(s) \o e
    <3>1. Len(t) # 1 /\ Len(t) - 1 = Len(s) /\ t[Len(t)] = e
      BY <1>1, <1>4, <2>2
    <3> HIDE DEF t
    <3> QED
      BY <1>3, <1>5, <2>1, <2>3, <3>1
  <2>5. FlattenSeq(s) \in Seq(X)
    BY <2>1, <2>3
  <2> QED
    BY <1>2, <2>4, <2>5
<1> QED
  BY <1>6, <1>7

-----------------------------------------------------------------------------
(* Sums.                                                                   *)

Picked(s) == CHOOSE y \in s : TRUE

\* The sums of g over the subsets of its domain with up to n elements.
Sums(x, g, n) ==
  x = [s \in {s \in SUBSET DOMAIN g : Cardinality(s) <= n} |->
         IF s = {} THEN 0 ELSE g[Picked(s)] + x[s \ {Picked(s)}]]

\* Without the element that is picked there is one less.
LEMMA OneLess ==
  ASSUME NEW S, IsFiniteSet(S), NEW s \in SUBSET S, s # {}
  PROVE  /\ Picked(s) \in s
         /\ s \ {Picked(s)} \in SUBSET S
         /\ Cardinality(s) \in Nat \ {0}
         /\ Cardinality(s \ {Picked(s)}) = Cardinality(s) - 1
<1>1. IsFiniteSet(s) /\ Cardinality(s) \in Nat
  BY FS_Subset, FS_CardinalityType
<1>2. Picked(s) \in s
  BY DEF Picked
<1>3. Cardinality(s) # 0
  BY <1>1, FS_EmptySet
<1>4. Cardinality(s \ {Picked(s)}) = Cardinality(s) - 1
  BY <1>1, <1>2, FS_RemoveElement
<1> QED
  BY <1>1, <1>2, <1>3, <1>4

LEMMA SumsExist ==
  ASSUME NEW g, IsFiniteSet(DOMAIN g), NEW n \in Nat
  PROVE  \E x : Sums(x, g, n)
<1> DEFINE S == DOMAIN g
           K == {k \in 0..n : \E x : Sums(x, g, k)}
           Small(k) == {s \in SUBSET S : Cardinality(s) <= k}
<1>0. \A s \in SUBSET S : Cardinality(s) \in Nat
  BY FS_Subset, FS_CardinalityType
<1>1. 0 \in K
  <2>1. PICK x : x = [s \in Small(0) |-> 0]
    OBVIOUS
  <2>2. \A s \in Small(0) : s = {}
    <3> SUFFICES ASSUME NEW s \in Small(0), s # {} PROVE FALSE
      OBVIOUS
    <3>1. Cardinality(s) \in Nat \ {0}
      BY OneLess
    <3> QED
      BY <3>1
  <2>3. x = [s \in Small(0) |-> IF s = {} THEN 0 ELSE g[Picked(s)] + x[s \ {Picked(s)}]]
    BY <2>1, <2>2
  <2>4. Sums(x, g, 0)
    BY <2>3 DEF Sums
  <2> QED
    BY <2>4
<1>2. ASSUME NEW k \in 1..n, k - 1 \in K
      PROVE  k \in K
  <2>1. PICK x : x = [s \in Small(k - 1) |-> IF s = {} THEN 0 ELSE g[Picked(s)] + x[s \ {Picked(s)}]]
    BY <1>2 DEF Sums
  <2>2. PICK y : y = [s \in Small(k) |-> IF s \in Small(k - 1) THEN x[s]
                                        ELSE g[Picked(s)] + x[s \ {Picked(s)}]]
    OBVIOUS
  <2>3. ASSUME NEW s \in Small(k)
        PROVE  y[s] = IF s = {} THEN 0 ELSE g[Picked(s)] + y[s \ {Picked(s)}]
    <3>1. CASE s = {}
      <4>1. s \in Small(k - 1)
        BY <3>1, FS_EmptySet
      <4> QED
        BY <2>1, <2>2, <3>1, <4>1
    <3>2. CASE s # {}
      <4> DEFINE r == s \ {Picked(s)}
      <4>1. r \in SUBSET S /\ Cardinality(s) \in Nat /\ Cardinality(r) = Cardinality(s) - 1
        BY <3>2, OneLess
      <4>2. r \in Small(k - 1) /\ r \in Small(k)
        BY <4>1
      <4>3. y[r] = x[r]
        BY <2>2, <4>2
      <4>4. s \in Small(k - 1) => y[s] = x[s] /\ x[s] = g[Picked(s)] + x[r]
        BY <2>1, <2>2, <3>2
      <4>5. s \notin Small(k - 1) => y[s] = g[Picked(s)] + x[r]
        BY <2>2
      <4> QED
        BY <3>2, <4>3, <4>4, <4>5
    <3> QED
      BY <3>1, <3>2
  <2>4. Sums(y, g, k)
    BY <2>2, <2>3 DEF Sums
  <2> QED
    BY <2>4
<1>3. 0..n \subseteq K
  <2> HIDE DEF K
  <2> QED
    BY <1>1, <1>2, UpTo
<1> QED
  BY <1>3

\* A sum of natural numbers is one, and not less than any of them.
LEMMA SumBound ==
  ASSUME NEW n \in Nat, NEW g \in [1..n -> Nat]
  PROVE  SumFunction(g) \in Nat /\ \A i \in 1..n : g[i] <= SumFunction(g)
<1> DEFINE S == 1..n
           x == CHOOSE x : x = [s \in SUBSET S |-> IF s = {} THEN 0 ELSE g[Picked(s)] + x[s \ {Picked(s)}]]
<1>1. IsFiniteSet(S) /\ Cardinality(S) = n
  BY FS_Interval
<1>2. SumFunction(g) = x[S]
  BY DEF SumFunction, SumFunctionOnSet, FoldFunctionOnSet, MapThenFoldSet, Picked
<1>3. \A s \in SUBSET S : x[s] = IF s = {} THEN 0 ELSE g[Picked(s)] + x[s \ {Picked(s)}]
  <2>1. PICK y : Sums(y, g, n)
    BY <1>1, SumsExist
  <2>2. {s \in SUBSET S : Cardinality(s) <= n} = SUBSET S
    BY <1>1, FS_Subset
  <2>3. y = [s \in SUBSET S |-> IF s = {} THEN 0 ELSE g[Picked(s)] + y[s \ {Picked(s)}]]
    BY <2>1, <2>2 DEF Sums
  <2>4. x = [s \in SUBSET S |-> IF s = {} THEN 0 ELSE g[Picked(s)] + x[s \ {Picked(s)}]]
    BY <2>3
  <2> HIDE DEF x
  <2> QED
    BY <2>4
<1>8. x[{}] = 0 /\ \A s \in SUBSET S : s # {} => x[s] = g[Picked(s)] + x[s \ {Picked(s)}]
  <2> HIDE DEF x
  <2>1. {} \in SUBSET S
    OBVIOUS
  <2> QED
    BY <1>3, <2>1
<1> HIDE DEF x
<1> DEFINE Right(s) == x[s] \in Nat /\ \A i \in s : g[i] <= x[s]
           K == {k \in 0..n : \A s \in SUBSET S : Cardinality(s) <= k => Right(s)}
<1>4. 0 \in K
  <2> SUFFICES ASSUME NEW s \in SUBSET S, Cardinality(s) <= 0 PROVE Right(s)
    OBVIOUS
  <2>1. s = {}
    <3>1. s # {} => Cardinality(s) \in Nat \ {0}
      BY <1>1, OneLess
    <3> QED
      BY <3>1
  <2>2. x[s] = 0 /\ \A i \in s : FALSE
    BY <1>8, <2>1
  <2> QED
    BY <2>2
<1>5. ASSUME NEW k \in 1..n, k - 1 \in K
      PROVE  k \in K
  <2>0. k \in 0..n
    OBVIOUS
  <2> SUFFICES ASSUME NEW s \in SUBSET S, Cardinality(s) <= k PROVE Right(s)
    BY <2>0
  <2>1. CASE s = {}
    <3>1. x[s] = 0 /\ \A i \in s : FALSE
      BY <1>8, <2>1
    <3>2. x[s] \in Nat
      BY <3>1
    <3>3. \A i \in s : g[i] <= x[s]
      BY <3>1
    <3> QED
      BY <3>2, <3>3
  <2>2. CASE s # {}
    <3> DEFINE p == Picked(s)
               r == s \ {p}
    <3>1. p \in s /\ r \in SUBSET S /\ Cardinality(s) \in Nat \ {0} /\ Cardinality(r) = Cardinality(s) - 1
      BY <1>1, <2>2, OneLess
    <3>2. Right(r)
      <4>1. Cardinality(r) <= k - 1
        BY <3>1
      <4> HIDE DEF r
      <4> QED
        BY <1>5, <3>1, <4>1
    <3>3. x[s] = g[p] + x[r] /\ g[p] \in Nat
      BY <1>8, <2>2, <3>1
    <3>4. \A i \in s : g[i] \in Nat /\ (i = p \/ i \in r)
      OBVIOUS
    <3>5. x[r] \in Nat /\ \A i \in r : g[i] <= x[r]
      BY <3>2
    <3> HIDE DEF p, r
    <3>6. x[s] \in Nat
      BY <3>3, <3>5
    <3>7. \A i \in s : g[i] <= x[s]
      BY <3>3, <3>4, <3>5
    <3> QED
      BY <3>6, <3>7
  <2> QED
    BY <2>1, <2>2
<1>6. 0..n \subseteq K
  <2> HIDE DEF K
  <2> QED
    BY <1>4, <1>5, UpTo
<1>7. Right(S)
  <2>1. n \in K
    BY <1>6
  <2> QED
    BY <1>1, <2>1
<1> QED
  BY <1>2, <1>7

\* No chunk is longer than the file.
LEMMA LengthBound ==
  ASSUME NEW f \in Files, NEW i \in 1..Len(f.chunks)
  PROVE  Length(f.chunks[i]) \in Nat /\ Size(f) \in Nat /\ Length(f.chunks[i]) <= Size(f)
<1> DEFINE n == Len(f.chunks)
           g == [j \in 1..n |-> 1 + Length(f.chunks[j])]
<1>1. f.chunks \in Seq(Chunks) /\ n \in Nat /\ DOMAIN f.chunks = 1..n
  BY DEF Files
<1>2. \A c \in Chunks : Length(c) \in Nat
  <2> SUFFICES ASSUME NEW c \in Chunks PROVE Length(c) \in Nat
    OBVIOUS
  <2>1. DOMAIN c.v = 1..Len(c.v) /\ Len(c.v) \in Nat
    BY DEF Chunks
  <2>2. IsFiniteSet(DOMAIN c.v)
    <3>1. 1 \in Int /\ Len(c.v) \in Int
      BY <2>1
    <3>2. IsFiniteSet(1..Len(c.v))
      BY <3>1, FS_Interval
    <3> QED
      BY <2>1, <3>2
  <2> QED
    BY <2>2, FS_Subset, FS_CardinalityType DEF Length
<1>3. \A j \in 1..n : Length(f.chunks[j]) \in Nat
  BY <1>1, <1>2
<1>4. g \in [1..n -> Nat]
  BY <1>3
<1>5. Size(f) = SumFunction(g)
  BY <1>1 DEF Size
<1>6. g[i] = 1 + Length(f.chunks[i])
  OBVIOUS
<1>7. SumFunction(g) \in Nat /\ g[i] <= SumFunction(g)
  <2> HIDE DEF g
  <2> QED
    BY <1>1, <1>4, SumBound
<1> HIDE DEF g
<1> QED
  BY <1>3, <1>5, <1>6, <1>7

-----------------------------------------------------------------------------
(* Payloads.                                                               *)

LEMMA UncompressType ==
  ASSUME NEW v \in Bytes PROVE Uncompress(v) \in Bytes
<1>1. CASE v # << >> /\ v[1] > 0 /\ Len(v) > v[1]
  <2>1. Len(v) \in Nat /\ v \in [1..Len(v) -> Int] /\ 1 \in 1..Len(v) /\ v[1] \in Int
    BY <1>1 DEF Bytes
  <2>2. \A i \in 2..v[1] + 1 : v[i] \in Int
    BY <1>1, <2>1
  <2> QED
    BY <1>1, <2>1, <2>2, SubSeqProperties DEF Uncompress, Bytes
<1>2. CASE ~ (v # << >> /\ v[1] > 0 /\ Len(v) > v[1])
  BY <1>2 DEF Uncompress, Bytes
<1> QED
  BY <1>1, <1>2

LEMMA SkipNameType ==
  ASSUME NEW v \in Bytes PROVE SkipName(v) \in Bytes
<1>1. Len(v) \in Nat /\ \A i \in 1..Len(v) : v[i] \in Int
  BY DEF Bytes
<1>2. IsFiniteSet(1..Len(v))
  BY <1>1, FS_Interval
<1>3. Leading(v) \in Nat
  BY <1>2, FS_Subset, FS_CardinalityType DEF Leading
<1> DEFINE i == Leading(v) + 1
           j == IF i <= Len(v) /\ v[i] = NUL THEN i + 1 ELSE i
           k == IF j <= Len(v) /\ v[j] = NUL THEN j + 1 ELSE j
<1>4. k \in Nat /\ k >= 1
  BY <1>1, <1>3
<1>5. SkipName(v) = SubSeq(v, k, Len(v))
  BY DEF SkipName
<1>6. \A n \in k..Len(v) : v[n] \in Int
  BY <1>1, <1>4
<1> QED
  BY <1>1, <1>4, <1>5, <1>6, SubSeqProperties DEF Bytes

LEMMA CompressType ==
  ASSUME NEW v \in Bytes PROVE Compress(v) \in Bytes
  BY DEF Compress, Bytes

\* What m leaves in a non-empty buffer is not empty.
LEMMA PayloadType ==
  ASSUME NEW n \in Nat, NEW v \in Payloads(n)
  PROVE  v \in Bytes /\ (n # 0 => v # << >>)
<1>1. v \in [1..n -> Int]
  BY MutatorAssumption DEF Payloads
<1>2. v \in Seq(Int) /\ Len(v) = n
  BY <1>1
<1> QED
  BY <1>2 DEF Bytes

LEMMA MutationType ==
  ASSUME NEW n \in Nat, NEW v \in Mutations(n)
  PROVE  v \in Bytes /\ v # << >>
<1>1. PICK k \in 1..n : v \in Payloads(k)
  BY DEF Mutations
<1> QED
  BY <1>1, PayloadType

-----------------------------------------------------------------------------
(* Parsing and serializing.                                                *)

LEMMA OpenedSound ==
  ASSUME NEW f, SoundFile(f) PROVE SoundParser(Opened(f))
  BY DEF SoundFile, SoundParser, Opened, Files, Headers, Parsers

LEMMA StoreSound ==
  ASSUME NEW p, SoundParser(p), NEW c \in FullChunks
  PROVE  SoundParser(Store(p, c)) /\ Store(p, c).at = p.at
<1>0. /\ p \in Parsers /\ p.chunks \in Seq(FullChunks) /\ Len(p.chunks) \in Nat
      /\ c.type \in Types /\ c.v \in Bytes /\ c = [type |-> c.type, v |-> c.v]
  BY DEF SoundParser, FullChunks, Chunks, Bytes
<1>1. CASE c.type = "IDAT" /\ p.idat_idx # 0
  <2> DEFINE old == p.chunks[p.idat_idx]
             new == [old EXCEPT !.v = @ \o c.v]
             cs  == [p.chunks EXCEPT ![p.idat_idx] = new]
  <2>1. p.idat_idx \in 1..Len(p.chunks) /\ old \in FullChunks /\ old.type = "IDAT"
    BY <1>0, <1>1 DEF SoundParser
  <2>2. new \in FullChunks /\ new.type = "IDAT"
    BY <1>0, <2>1, ConcatProperties DEF FullChunks, Chunks, Bytes
  <2>3. cs \in Seq(FullChunks) /\ Len(cs) = Len(p.chunks) /\ cs[p.idat_idx] = new
    BY <1>0, <2>1, <2>2, ExceptSeq
  <2>4. Store(p, c) = [p EXCEPT !.chunks = cs]
    BY <1>1 DEF Store
  <2>5. cs \in Seq(Chunks)
    BY <2>3, SeqMonotonic DEF FullChunks
  <2> QED
    BY <1>0, <2>1, <2>2, <2>3, <2>4, <2>5 DEF SoundParser, Parsers
<1>2. CASE ~ (c.type = "IDAT" /\ p.idat_idx # 0)
  <2> DEFINE new == Loaded(c)
             cs  == Append(p.chunks, new)
             idx == IF c.type = "IDAT" THEN Len(p.chunks) + 1 ELSE p.idat_idx
  <2>1. new \in FullChunks /\ new.type = c.type
    BY <1>0, SkipNameType, UncompressType DEF Loaded, FullChunks, Chunks, Bytes
  <2>2. /\ cs \in Seq(FullChunks) /\ Len(cs) = Len(p.chunks) + 1 /\ cs[Len(p.chunks) + 1] = new
        /\ \A i \in 1..Len(p.chunks) : cs[i] = p.chunks[i]
    BY <1>0, <2>1, AppendProperties
  <2>3. cs \in Seq(Chunks)
    BY <2>2, SeqMonotonic DEF FullChunks
  <2>4. Store(p, c) = [p EXCEPT !.chunks = cs, !.idat_idx = idx]
    BY <1>2 DEF Store
  <2>5. idx \in Nat /\ (idx # 0 => idx \in 1..Len(cs) /\ cs[idx].type = "IDAT")
    BY <1>0, <2>1, <2>2 DEF SoundParser, Parsers
  <2> QED
    BY <1>0, <2>2, <2>3, <2>4, <2>5 DEF SoundParser, Parsers
<1> QED
  BY <1>1, <1>2

LEMMA FinishSound ==
  ASSUME NEW p, SoundParser(p) PROVE SoundParser(Finish(p))
<1>0. p \in Parsers /\ p.chunks \in Seq(FullChunks)
  BY DEF SoundParser
<1>1. CASE p.idat_idx = 0
  BY <1>0, <1>1 DEF Finish, SoundParser, Parsers
<1>2. CASE p.idat_idx # 0
  <2> DEFINE old == p.chunks[p.idat_idx]
             new == Uncompressed(old)
             cs  == [p.chunks EXCEPT ![p.idat_idx] = new]
  <2>1. p.idat_idx \in 1..Len(p.chunks) /\ old \in FullChunks /\ old.type = "IDAT"
    BY <1>0, <1>2 DEF SoundParser
  <2>2. new \in FullChunks /\ new.type = "IDAT"
    BY <2>1, UncompressType DEF Uncompressed, FullChunks, Chunks, Bytes
  <2>3. cs \in Seq(FullChunks) /\ Len(cs) = Len(p.chunks) /\ cs[p.idat_idx] = new
    BY <1>0, <2>1, <2>2, ExceptSeq
  <2>4. Finish(p) = [p EXCEPT !.reading = FALSE, !.chunks = cs]
    BY <1>2 DEF Finish, ReplaceAt
  <2>5. cs \in Seq(Chunks)
    BY <2>3, SeqMonotonic DEF FullChunks
  <2> QED
    BY <1>0, <2>1, <2>2, <2>3, <2>4, <2>5 DEF SoundParser, Parsers
<1> QED
  BY <1>1, <1>2

LEMMA AdvancedSound ==
  ASSUME NEW q, SoundParser(q) PROVE SoundParser(Advanced(q))
<1>1. q.at + 1 \in Nat \ {0} /\ q \in Parsers
  BY DEF SoundParser, Parsers
<1>2. Advanced(q) \in Parsers /\ Advanced(q).chunks = q.chunks /\ Advanced(q).idat_idx = q.idat_idx
  BY <1>1 DEF Advanced, Parsers
<1> QED
  BY <1>2 DEF SoundParser

LEMMA SerializeSound ==
  ASSUME NEW h \in Headers, NEW cs \in Seq(FullChunks)
  PROVE  SoundFile(Serialize(h, cs))
<1> DEFINE out == [i \in DOMAIN cs |-> WriteChunk(cs[i])]
<1>1. \A c \in FullChunks : WriteChunk(c) \in FullChunks
  <2> SUFFICES ASSUME NEW c \in FullChunks PROVE WriteChunk(c) \in FullChunks
    OBVIOUS
  <2>1. c.v \in Bytes /\ Compress(c.v) \in Bytes /\ << NAME, NUL, NUL >> \in Bytes
    BY CompressType DEF FullChunks, Chunks, Bytes, NAME, NUL
  <2>2. << NAME, NUL, NUL >> \o Compress(c.v) \in Bytes
    BY <2>1, ConcatProperties DEF Bytes
  <2> QED
    BY <2>1, <2>2 DEF WriteChunk, FullChunks, Chunks, Bytes
<1>2. out \in Seq(FullChunks)
  BY <1>1
<1>3. out \in Seq(Chunks)
  BY <1>2, SeqMonotonic DEF FullChunks
<1> QED
  BY <1>2, <1>3 DEF Serialize, SoundFile, Files, Ends

-----------------------------------------------------------------------------
(* The invariant is inductive.                                             *)

\* Every seed is sound.
LEMMA SeedSound ==
  ASSUME NEW f \in Seeds PROVE SoundFile(f)
<1>1. f \in Files /\ f.chunks \in Seq(Chunks)
  BY MutatorAssumption DEF Files
<1>2. \A i \in 1..Len(f.chunks) : f.chunks[i] \in FullChunks
  BY <1>1, HintsAssumption DEF FullChunks
<1>3. f.chunks \in Seq(FullChunks)
  BY <1>1, <1>2
<1> QED
  BY <1>1, <1>3 DEF SoundFile

LEMMA InvInit == Init => Inv
  BY SeedSound DEF Init, Inv

\* A call starts with one sound object for each input.
LEMMA CallSound ==
  ASSUME Inv, NEW entry \in {"Mutate", "CrossOver"}, NEW inputs, NEW f, NEW g,
         SoundFile(f), SoundFile(g),
         (inputs = << f >> /\ entry = "Mutate") \/ inputs = << f, g >>,
         Call(entry, inputs)
  PROVE  Inv'
<1>1. \A k \in DOMAIN inputs : SoundFile(inputs[k])
  OBVIOUS
<1>2. \A k \in DOMAIN inputs : SoundParser(Opened(inputs[k]))
  BY <1>1, OpenedSound
<1>3. 1 \in DOMAIN inputs /\ (entry = "CrossOver" => 2 \in DOMAIN inputs)
  OBVIOUS
<1>4. /\ parser' = [k \in DOMAIN inputs |-> Opened(inputs[k])]
      /\ in' = inputs /\ job' = entry /\ handed' = {} /\ file' = file
  BY DEF Call
<1>5. DOMAIN inputs = 1..1 \/ DOMAIN inputs = 1..2
  OBVIOUS
<1>6. \A k \in DOMAIN inputs : Opened(inputs[k]) \in Parsers
  BY <1>2 DEF SoundParser
<1>7. parser' \in Seq(Parsers)
  BY <1>4, <1>5, <1>6
<1> QED
  BY <1>1, <1>2, <1>3, <1>4, <1>7 DEF Inv

\* The parser of one input takes a step, the others stay.
LEMMA ParserStep ==
  ASSUME Inv, NEW k \in DOMAIN parser, NEW p, SoundParser(p),
         parser' = [parser EXCEPT ![k] = p], UNCHANGED << file, written, job, in, handed >>
  PROVE  Inv'
<1>1. parser \in Seq(Parsers) /\ p \in Parsers /\ k \in 1..Len(parser)
  BY DEF Inv, SoundParser
<1>2. parser' \in Seq(Parsers) /\ DOMAIN parser' = DOMAIN parser
  BY <1>1, ExceptSeq
<1>3. \A j \in DOMAIN parser' : SoundParser(parser'[j])
  BY <1>1, <1>2 DEF Inv
<1> QED
  BY <1>2, <1>3 DEF Inv

LEMMA ReadChunkSound ==
  ASSUME Inv, NEW k \in 1..2, ReadChunk(k) PROVE Inv'
<1>1. /\ k \in DOMAIN parser /\ SoundParser(parser[k]) /\ SoundFile(in[k])
      /\ parser[k].at \in 1..Len(in[k].chunks)
  BY DEF ReadChunk, Reading, Inv, SoundParser, Parsers, SoundFile
<1> DEFINE p == parser[k]
           c == in[k].chunks[p.at]
<1>2. c \in FullChunks
  BY <1>1 DEF SoundFile
<1>3. SoundParser(Finish(p))
  BY <1>1, FinishSound
<1>4. SoundParser(Stopped(p))
  BY <1>1 DEF Stopped, SoundParser, Parsers
<1>5. SoundParser(Advanced(Store(p, c)))
  BY <1>1, <1>2, StoreSound, AdvancedSound
<1>6. UNCHANGED << file, written, job, in, handed >>
  BY DEF ReadChunk
<1>7. \/ parser' = [parser EXCEPT ![k] = Finish(p)]
      \/ parser' = [parser EXCEPT ![k] = Stopped(p)]
      \/ parser' = [parser EXCEPT ![k] = Advanced(Store(p, c))]
  BY DEF ReadChunk
<1> QED
  BY <1>1, <1>3, <1>4, <1>5, <1>6, <1>7, ParserStep

LEMMA ReadEndSound ==
  ASSUME Inv, NEW k \in 1..2, ReadEnd(k) PROVE Inv'
<1>1. k \in DOMAIN parser /\ SoundParser(parser[k])
  BY DEF ReadEnd, Reading, Inv
<1> DEFINE p == parser[k]
<1>2. SoundParser(Finish(p))
  BY <1>1, FinishSound
<1>3. SoundParser(Finish(Store(p, Phantom)))
  <2>1. Phantom \in FullChunks
    BY DEF Phantom, FullChunks, Chunks, Types
  <2> QED
    BY <1>1, <2>1, StoreSound, FinishSound
<1>4. SoundParser(Stopped(p))
  BY <1>1 DEF Stopped, SoundParser, Parsers
<1>5. UNCHANGED << file, written, job, in, handed >>
  BY DEF ReadEnd
<1>6. \/ parser' = [parser EXCEPT ![k] = Finish(p)]
      \/ parser' = [parser EXCEPT ![k] = Finish(Store(p, Phantom))]
      \/ parser' = [parser EXCEPT ![k] = Stopped(p)]
  BY DEF ReadEnd
<1> QED
  BY <1>1, <1>2, <1>3, <1>4, <1>5, <1>6, ParserStep

\* Every way of returning keeps the invariant, if the chunks are full and no size is 0.
LEMMA ReturnSound ==
  ASSUME Inv, NEW h \in Headers, NEW cs \in Seq(FullChunks), NEW sizes, sizes \subseteq Nat \ {0},
         Return(h, cs, sizes)
  PROVE  Inv'
<1>1. SoundFile(file')
  <2>1. file' = file \/ file' = Serialize(h, cs)
    BY DEF Return
  <2> QED
    BY <2>1, SerializeSound DEF Inv
<1>2. in' = << >> /\ parser' = << >> /\ job' = "none" /\ handed' = sizes
  BY DEF Return
<1>3. DOMAIN in' = {} /\ DOMAIN parser' = {} /\ parser' \in Seq(Parsers)
  BY <1>2
<1>4. handed' \subseteq Nat \ {0} /\ job' \notin {"Mutate", "CrossOver"}
  BY <1>2
<1>5. QED
  BY <1>1, <1>3, <1>4 DEF Inv

\* What an object that has been parsed holds.
LEMMA ParsedSound ==
  ASSUME Inv, NEW k \in DOMAIN parser
  PROVE  /\ parser[k].ihdr \in Headers
         /\ parser[k].chunks \in Seq(FullChunks)
         /\ Len(parser[k].chunks) \in Nat
         /\ DOMAIN parser[k].chunks = 1..Len(parser[k].chunks)
  BY DEF Inv, SoundParser, Parsers

\* A chunk whose payload becomes v stays full, if v is not empty.
LEMMA RefillSound ==
  ASSUME NEW cs \in Seq(FullChunks), NEW i \in DOMAIN cs, NEW v \in Bytes, v # << >>
  PROVE  [cs EXCEPT ![i].v = v] \in Seq(FullChunks)
<1>1. i \in 1..Len(cs) /\ cs[i] \in FullChunks
  OBVIOUS
<1>2. [cs[i] EXCEPT !.v = v] \in FullChunks
  BY <1>1 DEF FullChunks, Chunks, Bytes
<1>3. [cs EXCEPT ![i].v = v] = [cs EXCEPT ![i] = [cs[i] EXCEPT !.v = v]]
  OBVIOUS
<1> QED
  BY <1>1, <1>2, <1>3, ExceptSeq

LEMMA InsertSound ==
  ASSUME NEW cs \in Seq(FullChunks), NEW pos \in 1..Len(cs) + 1, NEW c \in FullChunks
  PROVE  InsertAt(cs, pos, c) \in Seq(FullChunks)
<1>1. Len(cs) \in Nat /\ \A i \in 1..Len(cs) : cs[i] \in FullChunks
  OBVIOUS
<1>2. SubSeq(cs, 1, pos - 1) \in Seq(FullChunks) /\ SubSeq(cs, pos, Len(cs)) \in Seq(FullChunks)
  BY <1>1, SubSeqProperties
<1> QED
  BY <1>2, ConcatProperties DEF InsertAt

LEMMA RemoveSound ==
  ASSUME NEW cs \in Seq(FullChunks), NEW i \in 1..Len(cs)
  PROVE  RemoveAt(cs, i) \in Seq(FullChunks)
<1>1. Len(cs) \in Nat /\ \A j \in 1..Len(cs) : cs[j] \in FullChunks
  OBVIOUS
<1>2. SubSeq(cs, 1, i - 1) \in Seq(FullChunks) /\ SubSeq(cs, i + 1, Len(cs)) \in Seq(FullChunks)
  BY <1>1, SubSeqProperties
<1> QED
  BY <1>2, ConcatProperties DEF RemoveAt

\* What a call may return: a header, full chunks, and the sizes it has handed to m.
Returned ==
  \E h \in Headers, cs \in Seq(FullChunks), sizes \in SUBSET (Nat \ {0}) : Return(h, cs, sizes)

LEMMA ReturnedNow ==
  ASSUME NEW h \in Headers, NEW cs \in Seq(FullChunks), NEW sizes, sizes \subseteq Nat \ {0},
         Return(h, cs, sizes)
  PROVE  Returned
  BY DEF Returned

\* Every mutation and every cross-over returns in this way.
LEMMA Returns ==
  ASSUME Inv, Mutate \/ CrossOver
  PROVE  Returned
<1> DEFINE ih == parser[1].ihdr
           cs == parser[1].chunks
<1>1. CASE Mutate
  <2>1. job = "Mutate" /\ 1 \in DOMAIN parser
    BY <1>1 DEF Mutate, MutateHeader, MutateChunk, Shuffle, DeleteChunk, InsertChunk, MutateHints,
                NothingToMutate, Parsed, Inv
  <2>2. /\ ih \in Headers /\ cs \in Seq(FullChunks) /\ Len(cs) \in Nat
        /\ DOMAIN cs = 1..Len(cs) /\ \A i \in DOMAIN cs : cs[i] \in FullChunks
    BY <2>1, ParsedSound
  <2>3. \A i \in DOMAIN cs : cs[i].v \in Bytes /\ Len(cs[i].v) \in Nat
    BY <2>2 DEF FullChunks, Chunks, Bytes
  <2>4. CASE MutateHeader
    BY <2>2, <2>4, ReturnedNow DEF MutateHeader
  <2>5. CASE MutateChunk
    <3>1. PICK i \in DOMAIN cs : \E n \in IF cs[i].v = << >> THEN 1..MaxRandom ELSE {Len(cs[i].v)} :
            \E v \in Mutations(n) : Return(ih, [cs EXCEPT ![i].v = v], {n})
      BY <2>5 DEF MutateChunk
    <3>2. PICK n \in IF cs[i].v = << >> THEN 1..MaxRandom ELSE {Len(cs[i].v)} :
            \E v \in Mutations(n) : Return(ih, [cs EXCEPT ![i].v = v], {n})
      BY <3>1
    <3>3. n \in Nat /\ n # 0
      <4>1. cs[i].v # << >> => Len(cs[i].v) # 0
        BY <2>3 DEF Bytes
      <4> QED
        BY <2>3, <3>2, <4>1, MutatorAssumption
    <3>4. PICK v \in Mutations(n) : Return(ih, [cs EXCEPT ![i].v = v], {n})
      BY <3>2
    <3>5. [cs EXCEPT ![i].v = v] \in Seq(FullChunks)
      BY <2>2, <3>3, <3>4, MutationType, RefillSound
    <3> QED
      BY <2>2, <3>3, <3>4, <3>5, ReturnedNow
  <2>6. CASE Shuffle
    <3>1. PICK order \in Bijection(DOMAIN cs, DOMAIN cs) :
            Return(ih, [i \in DOMAIN cs |-> cs[order[i]]], {})
      BY <2>6 DEF Shuffle
    <3>2. order \in [DOMAIN cs -> DOMAIN cs]
      BY <3>1 DEF Bijection, Injection
    <3>3. [i \in DOMAIN cs |-> cs[order[i]]] \in Seq(FullChunks)
      BY <2>2, <3>2
    <3> DEFINE shuffled == [i \in DOMAIN cs |-> cs[order[i]]]
    <3>4. shuffled \in Seq(FullChunks) /\ Return(ih, shuffled, {})
      BY <3>1, <3>3
    <3> HIDE DEF shuffled, cs
    <3> QED
      BY <2>2, <3>4, ReturnedNow
  <2>7. CASE DeleteChunk
    BY <2>2, <2>7, RemoveSound, ReturnedNow DEF DeleteChunk
  <2>8. CASE InsertChunk
    <3>1. PICK t \in Types \ {"null"}, pos \in 1..Len(cs) + 1 :
            \E len \in NewLengths(t) : \E v \in Payloads(len) :
              Return(ih, InsertAt(cs, pos, [type |-> t, v |-> v]), {})
      BY <2>8 DEF InsertChunk
    <3>2. PICK len \in NewLengths(t) : \E v \in Payloads(len) :
            Return(ih, InsertAt(cs, pos, [type |-> t, v |-> v]), {})
      BY <3>1
    <3>3. PICK v \in Payloads(len) : Return(ih, InsertAt(cs, pos, [type |-> t, v |-> v]), {})
      BY <3>2
    <3>4. len \in Nat /\ (t = "fUZz" => len # 0)
      BY <3>2, MutatorAssumption DEF NewLengths
    <3>5. [type |-> t, v |-> v] \in FullChunks
      BY <3>3, <3>4, PayloadType DEF FullChunks, Chunks, Bytes
    <3> QED
      BY <2>2, <3>3, <3>5, InsertSound, ReturnedNow
  <2>9. CASE MutateHints
    <3>1. PICK i \in {j \in DOMAIN cs : cs[j].type = "fUZz"} :
            \E v \in Payloads(Len(cs[i].v)) :
              Return(ih, [cs EXCEPT ![i].v = v], {Len(cs[i].v)})
      BY <2>9 DEF MutateHints
    <3>2. PICK v \in Payloads(Len(cs[i].v)) : Return(ih, [cs EXCEPT ![i].v = v], {Len(cs[i].v)})
      BY <3>1
    <3>3. Len(cs[i].v) \in Nat /\ Len(cs[i].v) # 0
      BY <2>2, <2>3, <3>1 DEF FullChunks, Bytes
    <3>4. [cs EXCEPT ![i].v = v] \in Seq(FullChunks)
      BY <2>2, <3>1, <3>2, <3>3, PayloadType, RefillSound
    <3> QED
      BY <2>2, <3>2, <3>3, <3>4, ReturnedNow
  <2>10. CASE NothingToMutate
    BY <2>2, <2>10, ReturnedNow DEF NothingToMutate
  <2> QED
    BY <1>1, <2>4, <2>5, <2>6, <2>7, <2>8, <2>9, <2>10 DEF Mutate
<1>2. CASE CrossOver
  <2> DEFINE theirs == parser[2].chunks
  <2>1. 1 \in DOMAIN parser /\ 2 \in DOMAIN parser
    BY <1>2 DEF CrossOver, Parsed, Inv
  <2>2. /\ ih \in Headers /\ cs \in Seq(FullChunks) /\ Len(cs) \in Nat
        /\ theirs \in Seq(FullChunks) /\ \A i \in DOMAIN theirs : theirs[i] \in FullChunks
    BY <2>1, ParsedSound
  <2>3. CASE Return(ih, cs, {})
    BY <2>2, <2>3, ReturnedNow
  <2>4. ASSUME NEW i \in DOMAIN theirs, NEW pos \in 1..Len(cs) + 1,
               Return(ih, InsertAt(cs, pos, theirs[i]), {})
        PROVE  Returned
    BY <2>2, <2>4, InsertSound, ReturnedNow
  <2> QED
    BY <1>2, <2>3, <2>4 DEF CrossOver
<1> QED
  BY <1>1, <1>2

LEMMA InvStep == Inv /\ [Next]_vars => Inv'
<1> SUFFICES ASSUME Inv, [Next]_vars PROVE Inv'
  OBVIOUS
<1>1. CASE Pick
  <2>1. SoundFile(file')
    BY <1>1, SeedSound DEF Pick
  <2> QED
    BY <1>1, <2>1 DEF Pick, Inv
<1>2. CASE LLVMFuzzerCustomMutator
  BY <1>2, CallSound DEF LLVMFuzzerCustomMutator, Inv
<1>3. CASE LLVMFuzzerCustomCrossOver
  <2>1. PICK other \in Seeds \union {file} :
          Call("CrossOver", << file, other >>) \/ Call("CrossOver", << other, file >>)
    BY <1>3 DEF LLVMFuzzerCustomCrossOver
  <2>2. SoundFile(other) /\ SoundFile(file)
    BY SeedSound DEF Inv
  <2> QED
    BY <2>1, <2>2, CallSound
<1>4. CASE \E k \in 1..2 : ReadChunk(k) \/ ReadEnd(k)
  BY <1>4, ReadChunkSound, ReadEndSound
<1>5. CASE Mutate \/ CrossOver
  <2>1. PICK h \in Headers, cs \in Seq(FullChunks), sizes \in SUBSET (Nat \ {0}) :
          Return(h, cs, sizes)
    BY <1>5, Returns DEF Returned
  <2> QED
    BY <2>1, ReturnSound
<1>6. CASE UNCHANGED vars
  BY <1>6 DEF vars, Inv
<1> QED
  BY <1>1, <1>2, <1>3, <1>4, <1>5, <1>6 DEF Next

\* What the invariant does not say of the types: the size of the corpus element, and which
\* inputs a call has.
Calls ==
  /\ Size(file) <= MaxSize
  /\ written \in Seq(Seq(Chunks)) /\ Len(written) <= 1
  /\ job \in {"none", "Mutate", "CrossOver"}
  /\ job = "none" <=> in = << >>
  /\ in \in Seq(Files)

LEMMA ReturnCalls ==
  ASSUME Calls, NEW h, NEW cs \in Seq(FullChunks), NEW sizes, Return(h, cs, sizes)
  PROVE  Calls'
<1>1. cs \in Seq(Chunks)
  BY SeqMonotonic DEF FullChunks
<1>2. << cs >> \in Seq(Seq(Chunks)) /\ Len(<< cs >>) = 1
  BY <1>1
<1>3. CASE ~(Size(Serialize(h, cs)) <= MaxSize)
  <2>1. file' = file /\ written' = written
    BY <1>3 DEF Return
  <2> QED
    BY <2>1 DEF Calls, Return
<1>4. CASE Size(Serialize(h, cs)) <= MaxSize
  <2>1. file' = Serialize(h, cs) /\ written' = << cs >>
    BY <1>4 DEF Return
  <2> QED
    BY <1>2, <1>4, <2>1 DEF Calls, Return
<1> QED
  BY <1>3, <1>4

LEMMA CallsInit == Init => Calls
  BY MutatorAssumption DEF Init, Calls

\* A call has its inputs, and leaves the corpus alone until it returns.
LEMMA CallsStep == Inv /\ Calls /\ [Next]_vars => Calls'
<1> SUFFICES ASSUME Inv, Calls, [Next]_vars PROVE Calls'
  OBVIOUS
<1>1. CASE Pick
  BY <1>1, MutatorAssumption DEF Pick, Calls
<1>2. CASE LLVMFuzzerCustomMutator \/ LLVMFuzzerCustomCrossOver
  <2>1. file \in Files /\ Seeds \subseteq Files
    BY MutatorAssumption DEF Inv, SoundFile
  <2>2. ASSUME NEW entry \in {"Mutate", "CrossOver"}, NEW inputs \in Seq(Files), inputs # << >>,
               Call(entry, inputs)
        PROVE  Calls'
    BY <2>2 DEF Call, Calls
  <2>3. << file >> \in Seq(Files) /\ << file >> # << >>
    BY <2>1
  <2>4. \A other \in Seeds \union {file} :
          << file, other >> \in Seq(Files) /\ << other, file >> \in Seq(Files)
    BY <2>1
  <2>5. CASE LLVMFuzzerCustomMutator
    BY <2>2, <2>3, <2>5 DEF LLVMFuzzerCustomMutator
  <2>6. CASE LLVMFuzzerCustomCrossOver
    <3>1. PICK other \in Seeds \union {file} :
            Call("CrossOver", << file, other >>) \/ Call("CrossOver", << other, file >>)
      BY <2>6 DEF LLVMFuzzerCustomCrossOver
    <3>2. << file, other >> # << >> /\ << other, file >> # << >>
      OBVIOUS
    <3> QED
      BY <2>2, <2>4, <3>1, <3>2
  <2> QED
    BY <1>2, <2>5, <2>6
<1>3. CASE \E k \in 1..2 : ReadChunk(k) \/ ReadEnd(k)
  BY <1>3 DEF ReadChunk, ReadEnd, Calls
<1>4. ASSUME NEW h \in Headers, NEW cs \in Seq(FullChunks), NEW sizes, Return(h, cs, sizes)
      PROVE  Calls'
  BY <1>4, ReturnCalls
<1>5. CASE Mutate \/ CrossOver
  BY <1>4, <1>5, Returns DEF Returned
<1>6. CASE UNCHANGED vars
  BY <1>6 DEF vars, Calls
<1> QED
  BY <1>1, <1>2, <1>3, <1>5, <1>6 DEF Next

\* For every seed corpus, all limits and every number of mutations and cross-overs, every
\* variable stays in its range and no file of the corpus exceeds the limit (TypeOK).
THEOREM TypeCorrect == Spec => []TypeOK
<1>1. Inv /\ Calls => TypeOK
  <2> SUFFICES ASSUME Inv, Calls PROVE TypeOK
    OBVIOUS
  <2>1. \A k \in DOMAIN parser : parser[k].idat_idx \in 0..Len(parser[k].chunks)
    BY DEF Inv, SoundParser, Parsers
  <2> QED
    BY <2>1 DEF Inv, Calls, TypeOK, SoundFile
<1> QED
  BY <1>1, CallsInit, InvInit, InvStep, CallsStep, PTL DEF Spec

\* For every seed corpus without empty fUZz chunks, all limits and every number of mutations
\* and cross-overs, m is called with a size of at least 1 (NeverHandedEmpty).
THEOREM MutatorHandedBytes == Spec => []NeverHandedEmpty
<1>1. Inv => NeverHandedEmpty
  BY DEF Inv, NeverHandedEmpty
<1>2. Spec => []Inv
  BY InvInit, InvStep, PTL DEF Spec
<1> QED
  BY <1>1, <1>2, PTL

-----------------------------------------------------------------------------
(* What is read back.                                                      *)

\* The chunks cs of a file have been read into the object p: those that are not image data are
\* its chunks, in the same order; the image data is in one chunk, where the first of it was.
Follows(cs, p) ==
  /\ Others(p.chunks) = Others([i \in DOMAIN cs |-> Loaded(cs[i])])
  /\ p.idat_idx = 0 =>
       /\ Len(p.chunks) = Len(cs)
       /\ ImageData(cs) = << >>
       /\ \A i \in DOMAIN cs : cs[i].type # "IDAT"
  /\ p.idat_idx # 0 =>
       /\ p.idat_idx \in DOMAIN cs /\ cs[p.idat_idx].type = "IDAT"
       /\ \A i \in 1..p.idat_idx - 1 : cs[i].type # "IDAT"
       /\ p.chunks[p.idat_idx].v = ImageData(cs)
  /\ \A i \in DOMAIN p.chunks : p.chunks[i].type = "IDAT" => i = p.idat_idx

LEMMA ChunkSeq ==
  ASSUME NEW s \in Seq(Chunks)
  PROVE  /\ Len(s) \in Nat /\ DOMAIN s = 1..Len(s)
         /\ \A i \in 1..Len(s) : s[i] \in Chunks
  OBVIOUS

LEMMA OthersAppend ==
  ASSUME NEW s \in Seq(Chunks), NEW c \in Chunks
  PROVE  /\ Others(s) \in Seq(Chunks)
         /\ Others(Append(s, c)) = IF c.type = "IDAT" THEN Others(s) ELSE Append(Others(s), c)
<1> DEFINE Part(x) == IF x.type = "IDAT" THEN << >> ELSE << x >>
           t == Append(s, c)
           g == [i \in 1..Len(s) |-> Part(s[i])]
           h == [i \in 1..Len(s) + 1 |-> Part(t[i])]
<1>1. /\ Len(s) \in Nat /\ DOMAIN s = 1..Len(s) /\ t \in Seq(Chunks) /\ Len(t) = Len(s) + 1 /\ DOMAIN t = 1..Len(s) + 1
      /\ t[Len(s) + 1] = c /\ \A i \in 1..Len(s) : t[i] = s[i]
  BY AppendProperties, ChunkSeq
<1>2. \A x \in Chunks : Part(x) \in Seq(Chunks)
  OBVIOUS
<1>3. g \in Seq(Seq(Chunks)) /\ Len(g) = Len(s)
  BY <1>1, <1>2
<1>4. Part(c) \in Seq(Chunks)
  BY <1>2
<1>5. h \in Seq(Seq(Chunks)) /\ Len(h) = Len(s) + 1
  <2>1. \A i \in 1..Len(s) + 1 : t[i] \in Chunks
    BY <1>1, ChunkSeq
  <2> HIDE DEF t, Part
  <2> QED
    BY <1>1, <1>2, <2>1
<1>6. h = Append(g, Part(c))
  <2>1. Append(g, Part(c)) \in Seq(Seq(Chunks)) /\ Len(Append(g, Part(c))) = Len(s) + 1
    BY <1>3, <1>4, AppendProperties
  <2>2. ASSUME NEW i \in 1..Len(s) + 1
        PROVE  h[i] = Append(g, Part(c))[i]
    <3>1. CASE i = Len(s) + 1
      BY <1>1, <1>3, <1>4, <3>1, AppendProperties
    <3>2. CASE i # Len(s) + 1
      <4>1. i \in 1..Len(s)
        BY <1>1, <3>2
      <4> QED
        BY <1>1, <1>3, <1>4, <4>1, AppendProperties
    <3> QED
      BY <3>1, <3>2
  <2> HIDE DEF g, h, Part
  <2> QED
    BY <1>5, <2>1, <2>2, SeqEqual
<1>7. Others(s) = FlattenSeq(g) /\ Others(t) = FlattenSeq(h)
  BY <1>1 DEF Others
<1>8. FlattenSeq(g) \in Seq(Chunks) /\ FlattenSeq(h) = FlattenSeq(g) \o Part(c)
  <2> HIDE DEF g, h, Part
  <2> QED
    BY <1>3, <1>4, <1>6, FlattenAppend
<1> HIDE DEF g, h
<1>9. CASE c.type = "IDAT"
  BY <1>7, <1>8, <1>9, ConcatEmptySeq
<1>10. CASE c.type # "IDAT"
  BY <1>7, <1>8, <1>10, AppendIsConcat
<1> QED
  BY <1>9, <1>10

LEMMA ImageAppend ==
  ASSUME NEW s \in Seq(Chunks), NEW c \in Chunks
  PROVE  /\ ImageData(s) \in Seq(Int)
         /\ ImageData(Append(s, c)) = IF c.type = "IDAT" THEN ImageData(s) \o c.v ELSE ImageData(s)
<1> DEFINE Part(x) == IF x.type = "IDAT" THEN x.v ELSE << >>
           t == Append(s, c)
           g == [i \in 1..Len(s) |-> Part(s[i])]
           h == [i \in 1..Len(s) + 1 |-> Part(t[i])]
<1>1. /\ Len(s) \in Nat /\ DOMAIN s = 1..Len(s) /\ t \in Seq(Chunks) /\ Len(t) = Len(s) + 1 /\ DOMAIN t = 1..Len(s) + 1
      /\ t[Len(s) + 1] = c /\ \A i \in 1..Len(s) : t[i] = s[i]
  BY AppendProperties, ChunkSeq
<1>2. \A x \in Chunks : Part(x) \in Seq(Int)
  BY DEF Chunks
<1>3. g \in Seq(Seq(Int)) /\ Len(g) = Len(s)
  <2>1. \A i \in 1..Len(s) : s[i] \in Chunks
    BY ChunkSeq
  <2> HIDE DEF Part
  <2> QED
    BY <1>1, <1>2, <2>1
<1>4. Part(c) \in Seq(Int)
  BY <1>2
<1>5. h \in Seq(Seq(Int)) /\ Len(h) = Len(s) + 1
  <2>1. \A i \in 1..Len(s) + 1 : t[i] \in Chunks
    BY <1>1, ChunkSeq
  <2> HIDE DEF t, Part
  <2> QED
    BY <1>1, <1>2, <2>1
<1>6. h = Append(g, Part(c))
  <2>1. Append(g, Part(c)) \in Seq(Seq(Int)) /\ Len(Append(g, Part(c))) = Len(s) + 1
    BY <1>3, <1>4, AppendProperties
  <2>2. ASSUME NEW i \in 1..Len(s) + 1
        PROVE  h[i] = Append(g, Part(c))[i]
    <3>1. CASE i = Len(s) + 1
      <4>1. h[i] = Part(c)
        BY <1>1, <3>1
      <4> HIDE DEF g, h, Part
      <4> QED
        BY <1>3, <1>4, <3>1, <4>1, AppendProperties
    <3>2. CASE i # Len(s) + 1
      <4>1. i \in 1..Len(s)
        BY <1>1, <3>2
      <4>2. h[i] = g[i]
        BY <1>1, <4>1
      <4> HIDE DEF g, h, Part
      <4> QED
        BY <1>3, <1>4, <4>1, <4>2, AppendProperties
    <3> QED
      BY <3>1, <3>2
  <2> HIDE DEF g, h, Part
  <2> QED
    BY <1>5, <2>1, <2>2, SeqEqual
<1>7. ImageData(s) = FlattenSeq(g) /\ ImageData(t) = FlattenSeq(h)
  BY <1>1 DEF ImageData
<1>8. FlattenSeq(g) \in Seq(Int) /\ FlattenSeq(h) = FlattenSeq(g) \o Part(c)
  <2> HIDE DEF g, h, Part
  <2> QED
    BY <1>3, <1>4, <1>6, FlattenAppend
<1> HIDE DEF g, h
<1>9. CASE c.type = "IDAT"
  BY <1>7, <1>8, <1>9
<1>10. CASE c.type # "IDAT"
  BY <1>7, <1>8, <1>10, ConcatEmptySeq
<1> QED
  BY <1>9, <1>10

\* Of the image data it does not matter what it is.
LEMMA OthersSame ==
  ASSUME NEW s \in Seq(Chunks), NEW t \in Seq(Chunks), Len(s) = Len(t),
         \A i \in 1..Len(s) : s[i] = t[i] \/ (s[i].type = "IDAT" /\ t[i].type = "IDAT")
  PROVE  Others(s) = Others(t)
<1>1. DOMAIN s = 1..Len(s) /\ DOMAIN t = 1..Len(s)
  BY ChunkSeq
<1>2. \A i \in 1..Len(s) : (IF s[i].type = "IDAT" THEN << >> ELSE << s[i] >>)
                           = (IF t[i].type = "IDAT" THEN << >> ELSE << t[i] >>)
  OBVIOUS
<1>3. [i \in DOMAIN s |-> IF s[i].type = "IDAT" THEN << >> ELSE << s[i] >>]
      = [i \in DOMAIN t |-> IF t[i].type = "IDAT" THEN << >> ELSE << t[i] >>]
  BY <1>1, <1>2
<1> QED
  BY <1>3 DEF Others

LEMMA LoadedType ==
  ASSUME NEW c \in Chunks
  PROVE  Loaded(c) \in Chunks /\ Loaded(c).type = c.type /\ (c.type = "IDAT" => Loaded(c) = c)
<1>1. c.v \in Bytes /\ c.type \in Types /\ c = [type |-> c.type, v |-> c.v]
  BY DEF Chunks, Bytes
<1>2. Uncompress(SkipName(c.v)) \in Bytes
  BY <1>1, SkipNameType, UncompressType
<1> QED
  BY <1>1, <1>2 DEF Loaded, Chunks, Bytes

LEMMA LoadedSeq ==
  ASSUME NEW cs \in Seq(Chunks)
  PROVE  /\ [i \in DOMAIN cs |-> Loaded(cs[i])] \in Seq(Chunks)
         /\ Len([i \in DOMAIN cs |-> Loaded(cs[i])]) = Len(cs)
<1>1. Len(cs) \in Nat /\ DOMAIN cs = 1..Len(cs) /\ \A i \in 1..Len(cs) : cs[i] \in Chunks
  BY ChunkSeq
<1>2. \A i \in 1..Len(cs) : Loaded(cs[i]) \in Chunks
  BY <1>1, LoadedType
<1> QED
  BY <1>1, <1>2

LEMMA LoadedAppend ==
  ASSUME NEW cs \in Seq(Chunks), NEW c \in Chunks
  PROVE  LET t == Append(cs, c)
         IN  [i \in DOMAIN t |-> Loaded(t[i])] = Append([i \in DOMAIN cs |-> Loaded(cs[i])], Loaded(c))
<1> DEFINE t == Append(cs, c)
           g == [i \in DOMAIN cs |-> Loaded(cs[i])]
           h == [i \in DOMAIN t |-> Loaded(t[i])]
<1>1. /\ Len(cs) \in Nat /\ DOMAIN cs = 1..Len(cs) /\ t \in Seq(Chunks) /\ Len(t) = Len(cs) + 1 /\ DOMAIN t = 1..Len(cs) + 1
      /\ t[Len(cs) + 1] = c /\ \A i \in 1..Len(cs) : t[i] = cs[i]
  BY AppendProperties, ChunkSeq
<1>2. Loaded(c) \in Chunks
  BY LoadedType
<1>3. g \in Seq(Chunks) /\ Len(g) = Len(cs) /\ h \in Seq(Chunks) /\ Len(h) = Len(cs) + 1
  BY <1>1, LoadedSeq
<1>4. /\ Append(g, Loaded(c)) \in Seq(Chunks) /\ Len(Append(g, Loaded(c))) = Len(cs) + 1
      /\ Append(g, Loaded(c))[Len(cs) + 1] = Loaded(c) /\ \A i \in 1..Len(cs) : Append(g, Loaded(c))[i] = g[i]
  <2> HIDE DEF g
  <2> QED
    BY <1>2, <1>3, AppendProperties
<1>5. h[Len(cs) + 1] = Loaded(c) /\ \A i \in 1..Len(cs) : h[i] = g[i]
  BY <1>1
<1>6. ASSUME NEW i \in 1..Len(cs) + 1
      PROVE  h[i] = Append(g, Loaded(c))[i]
  <2>1. i = Len(cs) + 1 \/ i \in 1..Len(cs)
    BY <1>1
  <2> HIDE DEF g, h
  <2> QED
    BY <1>4, <1>5, <2>1
<1> HIDE DEF g, h
<1>7. h = Append(g, Loaded(c))
  BY <1>3, <1>4, <1>6, SeqEqual
<1> QED
  BY <1>7 DEF g, h

\* Before the first chunk.
LEMMA OpenedFollows ==
  ASSUME NEW f
  PROVE  Follows(<< >>, Opened(f))
<1>1. Opened(f).chunks = << >> /\ Opened(f).idat_idx = 0
  BY DEF Opened
<1>2. [i \in DOMAIN << >> |-> Loaded(<< >>[i])] = << >>
  OBVIOUS
<1>3. ImageData(<< >>) = << >>
  <2>1. [i \in DOMAIN << >> |-> IF << >>[i].type = "IDAT" THEN << >>[i].v ELSE << >>] = << >>
    OBVIOUS
  <2>2. FlattenSeq(<< >>) = << >>
    BY DEF FlattenSeq
  <2> QED
    BY <2>1, <2>2 DEF ImageData
<1> QED
  BY <1>1, <1>2, <1>3 DEF Follows

\* A chunk that is stored, or merged into the first IDAT (lines 57 to 75).
LEMMA StoreFollows ==
  ASSUME NEW p, SoundParser(p), NEW c \in FullChunks, NEW cs \in Seq(Chunks), Follows(cs, p)
  PROVE  Follows(Append(cs, c), Store(p, c))
<1> DEFINE t == Append(cs, c)
           q == Store(p, c)
           old == [i \in DOMAIN cs |-> Loaded(cs[i])]
           new == [i \in DOMAIN t |-> Loaded(t[i])]
<1>1. /\ Len(cs) \in Nat /\ DOMAIN cs = 1..Len(cs) /\ t \in Seq(Chunks) /\ Len(t) = Len(cs) + 1 /\ DOMAIN t = 1..Len(cs) + 1
      /\ t[Len(cs) + 1] = c /\ \A i \in 1..Len(cs) : t[i] = cs[i]
  BY AppendProperties, ChunkSeq DEF FullChunks
<1>2. /\ p \in Parsers /\ p.chunks \in Seq(Chunks) /\ Len(p.chunks) \in Nat /\ DOMAIN p.chunks = 1..Len(p.chunks)
      /\ p.idat_idx \in 0..Len(p.chunks) /\ (p.idat_idx # 0 => p.chunks[p.idat_idx].type = "IDAT")
      /\ c \in Chunks
  BY DEF SoundParser, Parsers, FullChunks
<1>3. Loaded(c) \in Chunks /\ Loaded(c).type = c.type /\ (c.type = "IDAT" => Loaded(c) = c)
  BY <1>2, LoadedType
<1>4. old \in Seq(Chunks) /\ new = Append(old, Loaded(c))
  BY <1>2, LoadedSeq, LoadedAppend
<1>5. Others(new) = IF c.type = "IDAT" THEN Others(old) ELSE Append(Others(old), Loaded(c))
  <2> HIDE DEF old, new
  <2> QED
    BY <1>3, <1>4, OthersAppend
<1>6. Others(p.chunks) = Others(old)
  BY DEF Follows
<1>7. ImageData(cs) \in Seq(Int) /\ ImageData(t) = IF c.type = "IDAT" THEN ImageData(cs) \o c.v ELSE ImageData(cs)
  BY <1>2, ImageAppend
<1>8. CASE c.type = "IDAT" /\ p.idat_idx # 0
  <2> DEFINE k == p.idat_idx
             merged == [p.chunks[k] EXCEPT !.v = @ \o c.v]
             chunks == [p.chunks EXCEPT ![k] = merged]
  <2>1. k \in 1..Len(p.chunks) /\ p.chunks[k] \in Chunks /\ p.chunks[k].type = "IDAT"
    BY <1>2, <1>8
  <2>2. merged \in Chunks /\ merged.type = "IDAT" /\ merged.v = p.chunks[k].v \o c.v
    BY <1>2, <2>1, ConcatProperties DEF Chunks
  <2>3. /\ chunks \in Seq(Chunks) /\ Len(chunks) = Len(p.chunks)
        /\ \A j \in 1..Len(p.chunks) : chunks[j] = IF j = k THEN merged ELSE p.chunks[j]
    BY <1>2, <2>1, <2>2, ExceptSeq
  <2>4. q = [p EXCEPT !.chunks = chunks]
    BY <1>8 DEF Store
  <2>5. q.chunks = chunks /\ q.idat_idx = k
    BY <1>2, <2>4 DEF Parsers
  <2>6. Others(chunks) = Others(p.chunks)
    <3>1. \A j \in 1..Len(chunks) : chunks[j] = p.chunks[j] \/ (chunks[j].type = "IDAT" /\ p.chunks[j].type = "IDAT")
      BY <2>1, <2>2, <2>3
    <3> HIDE DEF chunks
    <3> QED
      BY <1>2, <2>3, <3>1, OthersSame
  <2>7. Others(q.chunks) = Others(new)
    BY <1>5, <1>6, <1>8, <2>5, <2>6
  <2>8. chunks[k].v = ImageData(t)
    <3>1. p.chunks[k].v = ImageData(cs)
      BY <1>8 DEF Follows
    <3> QED
      BY <1>7, <1>8, <2>1, <2>2, <2>3, <3>1
  <2>9. k \in DOMAIN t /\ t[k].type = "IDAT" /\ \A i \in 1..k - 1 : t[i].type # "IDAT"
    <3>1. k \in 1..Len(cs) /\ cs[k].type = "IDAT" /\ \A i \in 1..k - 1 : cs[i].type # "IDAT"
      BY <1>1, <1>8 DEF Follows
    <3>2. \A i \in 1..k - 1 : i \in 1..Len(cs)
      BY <1>1, <3>1
    <3> QED
      BY <1>1, <3>1, <3>2
  <2>10. \A i \in DOMAIN chunks : chunks[i].type = "IDAT" => i = k
    <3>1. DOMAIN chunks = 1..Len(p.chunks)
      BY <2>3, ChunkSeq
    <3>2. \A i \in 1..Len(p.chunks) : p.chunks[i].type = "IDAT" => i = k
      BY <1>2 DEF Follows
    <3> QED
      BY <2>3, <3>1, <3>2
  <2> HIDE DEF chunks, merged, new, t, q
  <2>11. Follows(t, q)
    BY <1>8, <2>5, <2>7, <2>8, <2>9, <2>10 DEF Follows, new
  <2> QED
    BY <2>11 DEF t, q
<1>9. CASE ~(c.type = "IDAT" /\ p.idat_idx # 0)
  <2> DEFINE l == Loaded(c)
             chunks == Append(p.chunks, l)
             k == IF c.type = "IDAT" THEN Len(p.chunks) + 1 ELSE p.idat_idx
  <2>1. /\ chunks \in Seq(Chunks) /\ Len(chunks) = Len(p.chunks) + 1 /\ chunks[Len(p.chunks) + 1] = l
        /\ \A i \in 1..Len(p.chunks) : chunks[i] = p.chunks[i]
    BY <1>2, <1>3, AppendProperties
  <2>2. q = [p EXCEPT !.chunks = chunks, !.idat_idx = k]
    BY <1>9 DEF Store
  <2>3. q.chunks = chunks /\ q.idat_idx = k
    BY <1>2, <2>2 DEF Parsers
  <2>4. DOMAIN chunks = 1..Len(p.chunks) + 1
    BY <2>1, ChunkSeq
  <2>5. Others(chunks) = IF l.type = "IDAT" THEN Others(p.chunks) ELSE Append(Others(p.chunks), l)
    BY <1>2, <1>3, OthersAppend
  <2>6. Others(q.chunks) = Others(new)
    BY <1>3, <1>5, <1>6, <2>3, <2>5
  <2>7. \A i \in 1..Len(p.chunks) : p.chunks[i].type = "IDAT" => i = p.idat_idx
    BY <1>2 DEF Follows
  <2>8. CASE c.type = "IDAT"
    <3>1. p.idat_idx = 0 /\ l = c /\ k = Len(p.chunks) + 1
      BY <1>3, <1>9, <2>8
    <3>2. Len(p.chunks) = Len(cs) /\ ImageData(cs) = << >> /\ \A i \in DOMAIN cs : cs[i].type # "IDAT"
      BY <3>1 DEF Follows
    <3>3. ImageData(t) = c.v
      <4>1. c.v \in Seq(Int)
        BY <1>2 DEF Chunks
      <4> QED
        BY <1>7, <2>8, <3>2, <4>1, ConcatEmptySeq
    <3>4. k \in DOMAIN t /\ k # 0 /\ t[k].type = "IDAT" /\ \A i \in 1..k - 1 : t[i].type # "IDAT"
      <4>1. k - 1 = Len(cs) /\ k = Len(cs) + 1
        BY <1>1, <3>1, <3>2
      <4> HIDE DEF t, k
      <4> QED
        BY <1>1, <2>8, <3>2, <4>1
    <3>5. chunks[k].v = ImageData(t)
      BY <2>1, <3>1, <3>3
    <3>6. \A i \in DOMAIN chunks : chunks[i].type = "IDAT" => i = k
      <4>1. \A i \in 1..Len(p.chunks) : p.chunks[i].type # "IDAT"
        BY <2>7, <3>1
      <4>2. \A i \in DOMAIN chunks : i # k => i \in 1..Len(p.chunks)
        BY <1>2, <2>4, <3>1
      <4> HIDE DEF chunks, k
      <4> QED
        BY <2>1, <4>1, <4>2
    <3> HIDE DEF chunks, new, t, q, k, l
    <3>7. Follows(t, q)
      BY <2>3, <2>6, <3>4, <3>5, <3>6 DEF Follows, new
    <3> QED
      BY <3>7 DEF t, q
  <2>9. CASE c.type # "IDAT"
    <3>1. k = p.idat_idx /\ l.type # "IDAT"
      BY <1>3, <2>9
    <3>2. ImageData(t) = ImageData(cs)
      BY <1>7, <2>9
    <3>3. \A i \in DOMAIN chunks : chunks[i].type = "IDAT" => i = k
      <4>1. \A i \in DOMAIN chunks : i = Len(p.chunks) + 1 \/ i \in 1..Len(p.chunks)
        BY <1>2, <2>4
      <4> HIDE DEF chunks, k, l
      <4> QED
        BY <2>1, <2>7, <3>1, <4>1
    <3>4. k = 0 => Len(chunks) = Len(t) /\ ImageData(t) = << >> /\ \A i \in DOMAIN t : t[i].type # "IDAT"
      <4> SUFFICES ASSUME k = 0 PROVE Len(chunks) = Len(t) /\ ImageData(t) = << >> /\ \A i \in DOMAIN t : t[i].type # "IDAT"
        OBVIOUS
      <4>1. Len(p.chunks) = Len(cs) /\ ImageData(cs) = << >> /\ \A i \in 1..Len(cs) : cs[i].type # "IDAT"
        BY <1>1, <3>1 DEF Follows
      <4>2. \A i \in DOMAIN t : i = Len(cs) + 1 \/ i \in 1..Len(cs)
        BY <1>1
      <4> HIDE DEF chunks, t, k
      <4> QED
        BY <1>1, <2>1, <2>9, <3>2, <4>1, <4>2
    <3>5. k # 0 => /\ k \in DOMAIN t /\ t[k].type = "IDAT" /\ \A i \in 1..k - 1 : t[i].type # "IDAT"
                   /\ chunks[k].v = ImageData(t)
      <4> SUFFICES ASSUME k # 0
                   PROVE  /\ k \in DOMAIN t /\ t[k].type = "IDAT" /\ \A i \in 1..k - 1 : t[i].type # "IDAT"
                          /\ chunks[k].v = ImageData(t)
        OBVIOUS
      <4>1. /\ k \in 1..Len(cs) /\ cs[k].type = "IDAT" /\ \A i \in 1..k - 1 : cs[i].type # "IDAT"
            /\ p.chunks[k].v = ImageData(cs) /\ k \in 1..Len(p.chunks)
        BY <1>1, <1>2, <3>1 DEF Follows
      <4>2. k \in 1..Len(cs) + 1 /\ \A i \in 1..k - 1 : i \in 1..Len(cs)
        BY <1>1, <4>1
      <4> HIDE DEF chunks, t, k
      <4> QED
        BY <1>1, <2>1, <3>2, <4>1, <4>2
    <3> HIDE DEF chunks, new, t, q, k, l
    <3>6. Follows(t, q)
      BY <2>3, <2>6, <3>3, <3>4, <3>5 DEF Follows, new
    <3> QED
      BY <3>6 DEF t, q
  <2> QED
    BY <2>8, <2>9
<1> QED
  BY <1>8, <1>9

\* The chunks a file is read to: none of the first n is an IEND, and then there is one, or the end.
LEMMA VisibleIs ==
  ASSUME NEW s \in Seq(Chunks), NEW n \in 0..Len(s), \A i \in 1..n : s[i].type # "IEND",
         n = Len(s) \/ s[n + 1].type = "IEND"
  PROVE  Visible(s) = SubSeq(s, 1, n)
<1> DEFINE S == {i \in 1..Len(s) + 1 : i > Len(s) \/ s[i].type = "IEND"}
<1>1. Len(s) \in Nat
  OBVIOUS
<1>2. S \in SUBSET Nat /\ n + 1 \in S
  BY <1>1
<1>3. \A i \in S : i >= n + 1
  BY <1>1
<1>4. Min(S) \in S /\ \A i \in S : Min(S) <= i
  <2> HIDE DEF S
  <2> QED
    BY <1>2, LeastOf
<1>5. Min(S) = n + 1
  <2>1. Min(S) \in Nat /\ Min(S) <= n + 1 /\ Min(S) >= n + 1
    <3> HIDE DEF S
    <3> QED
      BY <1>2, <1>3, <1>4
  <2> HIDE DEF S
  <2> QED
    BY <2>1
<1>6. Visible(s) = SubSeq(s, 1, Min(S) - 1)
  BY DEF Visible
<1>7. Min(S) - 1 = n
  <2> HIDE DEF S
  <2> QED
    BY <1>5
<1> HIDE DEF S
<1> QED
  BY <1>6, <1>7

LEMMA VisiblePrefix ==
  ASSUME NEW s \in Seq(Chunks)
  PROVE  \E n \in 0..Len(s) : /\ Visible(s) = SubSeq(s, 1, n)
                              /\ \A i \in 1..n : s[i].type # "IEND"
                              /\ n = Len(s) \/ s[n + 1].type = "IEND"
<1> DEFINE S == {i \in 1..Len(s) + 1 : i > Len(s) \/ s[i].type = "IEND"}
           n == Min(S) - 1
<1>1. Len(s) \in Nat
  OBVIOUS
<1>2. S \in SUBSET Nat /\ Len(s) + 1 \in S
  BY <1>1
<1>3. Min(S) \in S /\ \A i \in S : Min(S) <= i
  <2> HIDE DEF S
  <2> QED
    BY <1>2, LeastOf
<1>4. n \in 0..Len(s) /\ n + 1 = Min(S)
  <2>1. Min(S) \in 1..Len(s) + 1
    BY <1>3
  <2> HIDE DEF S
  <2> QED
    BY <1>1, <2>1
<1>5. \A i \in 1..n : s[i].type # "IEND"
  <2> SUFFICES ASSUME NEW i \in 1..n, s[i].type = "IEND" PROVE FALSE
    OBVIOUS
  <2> HIDE DEF n
  <2>1. i \in 1..Len(s) + 1 /\ i < n + 1
    BY <1>1, <1>4
  <2>2. i \in S
    BY <2>1
  <2> HIDE DEF S
  <2> QED
    BY <1>3, <1>4, <2>1, <2>2
<1>6. n = Len(s) \/ s[n + 1].type = "IEND"
  <2>1. n + 1 > Len(s) \/ s[n + 1].type = "IEND"
    BY <1>3, <1>4
  <2> HIDE DEF n, S
  <2> QED
    BY <1>1, <1>4, <2>1
<1> HIDE DEF n, S
<1> QED
  BY <1>4, <1>5, <1>6, VisibleIs

\* One more chunk of a file.
LEMMA NextPrefix ==
  ASSUME NEW s \in Seq(Chunks), NEW n \in 1..Len(s)
  PROVE  /\ SubSeq(s, 1, n - 1) \in Seq(Chunks)
         /\ SubSeq(s, 1, n) = Append(SubSeq(s, 1, n - 1), s[n])
<1>1. Len(s) \in Nat /\ \A i \in 1..Len(s) : s[i] \in Chunks
  OBVIOUS
<1>2. SubSeq(s, 1, n - 1) \in Seq(Chunks)
  BY <1>1, SubSeqProperties
<1>3. SubSeq(s, 1, n) = SubSeq(s, 1, n - 1) \o << s[n] >>
  BY <1>1, SubSeqRecursiveSecond
<1>4. Append(SubSeq(s, 1, n - 1), s[n]) = SubSeq(s, 1, n - 1) \o << s[n] >>
  BY <1>1, <1>2, AppendIsConcat
<1> QED
  BY <1>2, <1>3, <1>4

\* Uncompressing the image data leaves the rest as it is (lines 78 and 79).
LEMMA FinishIs ==
  ASSUME NEW q, SoundParser(q)
  PROVE  LET p == Finish(q)
         IN  /\ p.chunks \in Seq(Chunks) /\ Len(p.chunks) = Len(q.chunks) /\ ~ p.reading
             /\ Others(p.chunks) = Others(q.chunks)
             /\ \A i \in 1..Len(q.chunks) : p.chunks[i].type = q.chunks[i].type
             /\ q.idat_idx # 0 => p.chunks[q.idat_idx].v = Uncompress(q.chunks[q.idat_idx].v)
<1> DEFINE p == Finish(q)
           k == q.idat_idx
<1>1. /\ q \in Parsers /\ q.chunks \in Seq(Chunks) /\ Len(q.chunks) \in Nat
      /\ k # 0 => k \in 1..Len(q.chunks) /\ q.chunks[k].type = "IDAT"
  BY DEF SoundParser, Parsers
<1>2. CASE k = 0
  <2>1. p.chunks = q.chunks /\ ~ p.reading
    BY <1>1, <1>2 DEF Finish, Parsers
  <2> QED
    BY <1>1, <1>2, <2>1
<1>3. CASE k # 0
  <2> DEFINE u == Uncompressed(q.chunks[k])
             chunks == [q.chunks EXCEPT ![k] = u]
  <2>1. k \in 1..Len(q.chunks) /\ q.chunks[k] \in Chunks /\ q.chunks[k].type = "IDAT"
    BY <1>1, <1>3
  <2>2. u \in Chunks /\ u.type = "IDAT" /\ u.v = Uncompress(q.chunks[k].v)
    BY <2>1, UncompressType DEF Uncompressed, Chunks, Bytes
  <2>3. /\ chunks \in Seq(Chunks) /\ Len(chunks) = Len(q.chunks)
        /\ \A j \in 1..Len(q.chunks) : chunks[j] = IF j = k THEN u ELSE q.chunks[j]
    BY <1>1, <2>1, <2>2, ExceptSeq
  <2>4. p.chunks = chunks /\ ~ p.reading
    BY <1>1, <1>3 DEF Finish, ReplaceAt, Parsers
  <2>5. Others(chunks) = Others(q.chunks)
    <3>1. \A j \in 1..Len(chunks) : chunks[j] = q.chunks[j] \/ (chunks[j].type = "IDAT" /\ q.chunks[j].type = "IDAT")
      BY <2>1, <2>2, <2>3
    <3> HIDE DEF chunks
    <3> QED
      BY <1>1, <2>3, <3>1, OthersSame
  <2>6. \A i \in 1..Len(q.chunks) : chunks[i].type = q.chunks[i].type
    BY <2>1, <2>2, <2>3
  <2>7. chunks[k].v = Uncompress(q.chunks[k].v)
    BY <2>1, <2>2, <2>3
  <2> HIDE DEF chunks, u, p
  <2> QED
    BY <2>3, <2>4, <2>5, <2>6, <2>7 DEF p
<1> QED
  BY <1>2, <1>3

\* What is written for a chunk is read as that chunk.
LEMMA LoadedWrite ==
  ASSUME NEW c \in Chunks
  PROVE  WriteChunk(c) \in Chunks /\ WriteChunk(c).type = c.type /\ Loaded(WriteChunk(c)) = c
<1>1. c.v \in Seq(Int) /\ c.type \in Types /\ c = [type |-> c.type, v |-> c.v]
  BY DEF Chunks
<1>2. CASE c.type # "iCCP"
  <2>1. WriteChunk(c) = c
    BY <1>1, <1>2 DEF WriteChunk
  <2>2. Loaded(c) = c
    BY <1>1, <1>2 DEF Loaded
  <2> QED
    BY <2>1, <2>2
<1>3. CASE c.type = "iCCP"
  <2> DEFINE z == Compress(c.v)
             w == << NAME, NUL, NUL >> \o z
  <2>1. z \in Seq(Int) /\ << NAME, NUL, NUL >> \in Seq(Int) /\ Len(<< NAME, NUL, NUL >>) = 3
    BY <1>1, CompressType DEF Bytes, NAME, NUL
  <2>2. w \in Seq(Int) /\ Len(w) = 3 + Len(z) /\ Len(z) \in Nat
    BY <2>1, ConcatProperties
  <2>3. /\ \A i \in 1..3 + Len(z) : w[i] = IF i <= 3 THEN << NAME, NUL, NUL >>[i] ELSE z[i - 3]
    BY <2>1, ConcatProperties
  <2>4. w[1] = NAME /\ w[2] = NUL /\ w[3] = NUL /\ \A i \in 1..Len(z) : w[3 + i] = z[i]
    <3>1. 1 \in 1..3 + Len(z) /\ 2 \in 1..3 + Len(z) /\ 3 \in 1..3 + Len(z)
      BY <2>2
    <3>2. \A i \in 1..Len(z) : 3 + i \in 1..3 + Len(z) /\ ~(3 + i <= 3) /\ 3 + i - 3 = i
      BY <2>2
    <3>3. << NAME, NUL, NUL >>[1] = NAME /\ << NAME, NUL, NUL >>[2] = NUL /\ << NAME, NUL, NUL >>[3] = NUL
      OBVIOUS
    <3> HIDE DEF w, z
    <3> QED
      BY <2>3, <3>1, <3>2, <3>3
  <2> HIDE DEF w, z
  <2>5. Leading(w) = 1
    <3>1. IsPrint(w[1]) /\ ~IsPrint(w[2])
      BY <2>4 DEF IsPrint, NAME, NUL
    <3>2. {n \in 1..Len(w) : \A m \in 1..n : IsPrint(w[m])} = {1}
      <4>1. 1 \in 1..Len(w) /\ Len(w) \in Nat
        BY <2>2
      <4>2. \A m \in 1..1 : IsPrint(w[m])
        BY <3>1
      <4>3. \A n \in 1..Len(w) : n # 1 => 2 \in 1..n
        BY <4>1
      <4> QED
        BY <3>1, <4>1, <4>2, <4>3
    <3> QED
      BY <3>2, FS_Singleton DEF Leading
  <2>6. SkipName(w) = SubSeq(w, 4, Len(w))
    BY <2>2, <2>4, <2>5 DEF SkipName
  <2>7. SubSeq(w, 4, Len(w)) = z
    <3>1. 4 \in Int /\ Len(w) \in Int /\ \A i \in 4..Len(w) : w[i] \in Int
      BY <2>2
    <3>2. /\ SubSeq(w, 4, Len(w)) \in Seq(Int)
          /\ Len(SubSeq(w, 4, Len(w))) = IF 4 <= Len(w) THEN Len(w) - 4 + 1 ELSE 0
          /\ \A i \in 1..Len(w) - 4 + 1 : SubSeq(w, 4, Len(w))[i] = w[4 + i - 1]
      BY <3>1, SubSeqProperties
    <3>3. Len(SubSeq(w, 4, Len(w))) = Len(z) /\ \A i \in 1..Len(z) : SubSeq(w, 4, Len(w))[i] = z[i]
      <4>1. Len(w) - 4 + 1 = Len(z) /\ Len(SubSeq(w, 4, Len(w))) = Len(z)
        BY <2>2, <3>2
      <4>2. \A i \in 1..Len(z) : 4 + i - 1 = 3 + i
        BY <2>2
      <4> QED
        BY <2>4, <3>2, <4>1, <4>2
    <3> QED
      BY <2>1, <3>2, <3>3, SeqEqual
  <2>8. Uncompress(z) = c.v
    <3>1. CASE c.v = << >>
      BY <3>1 DEF z, Compress, Uncompress
    <3>2. CASE c.v # << >>
      <4>1. Len(c.v) \in Nat \ {0}
        BY <1>1, <3>2, EmptySeq
      <4>2. z = << Len(c.v) >> \o c.v
        BY <3>2 DEF z, Compress
      <4>3. << Len(c.v) >> \in Seq(Int) /\ Len(<< Len(c.v) >>) = 1 /\ << Len(c.v) >>[1] = Len(c.v)
        BY <4>1
      <4>4. /\ Len(z) = 1 + Len(c.v)
            /\ \A i \in 1..1 + Len(c.v) : z[i] = IF i <= 1 THEN << Len(c.v) >>[i] ELSE c.v[i - 1]
        BY <1>1, <4>2, <4>3, ConcatProperties
      <4>5. z[1] = Len(c.v) /\ z # << >> /\ \A i \in 1..Len(c.v) : z[i + 1] = c.v[i]
        <5>1. z[1] = Len(c.v)
          <6>1. 1 \in 1..1 + Len(c.v)
            BY <4>1
          <6> QED
            BY <4>3, <4>4, <6>1
        <5>2. z # << >>
          BY <4>1, <4>4
        <5>3. \A i \in 1..Len(c.v) : i + 1 \in 1..1 + Len(c.v) /\ ~(i + 1 <= 1) /\ i + 1 - 1 = i
          BY <4>1
        <5>4. \A i \in 1..Len(c.v) : z[i + 1] = c.v[i]
          BY <4>4, <5>3
        <5> QED
          BY <5>1, <5>2, <5>4
      <4>6. Uncompress(z) = SubSeq(z, 2, Len(c.v) + 1)
        BY <4>1, <4>4, <4>5 DEF Uncompress
      <4>7. /\ SubSeq(z, 2, Len(c.v) + 1) \in Seq(Int)
            /\ Len(SubSeq(z, 2, Len(c.v) + 1)) = Len(c.v)
            /\ \A i \in 1..Len(c.v) : SubSeq(z, 2, Len(c.v) + 1)[i] = z[i + 1]
        <5>1. 2 \in Int /\ Len(c.v) + 1 \in Int /\ \A i \in 2..Len(c.v) + 1 : z[i] \in Int
          BY <2>1, <4>1, <4>4
        <5>2. /\ SubSeq(z, 2, Len(c.v) + 1) \in Seq(Int)
              /\ Len(SubSeq(z, 2, Len(c.v) + 1)) = IF 2 <= Len(c.v) + 1 THEN Len(c.v) + 1 - 2 + 1 ELSE 0
              /\ \A i \in 1..Len(c.v) + 1 - 2 + 1 : SubSeq(z, 2, Len(c.v) + 1)[i] = z[2 + i - 1]
          BY <5>1, SubSeqProperties
        <5>3. Len(c.v) + 1 - 2 + 1 = Len(c.v) /\ 2 <= Len(c.v) + 1 /\ \A i \in 1..Len(c.v) : 2 + i - 1 = i + 1
          BY <4>1
        <5> QED
          BY <5>2, <5>3
      <4>8. SubSeq(z, 2, Len(c.v) + 1) = c.v
        BY <1>1, <4>5, <4>7, SeqEqual
      <4> QED
        BY <4>6, <4>8
    <3> QED
      BY <3>1, <3>2
  <2>9. WriteChunk(c) = [type |-> "iCCP", v |-> w]
    <3>1. WriteChunk(c) = [c EXCEPT !.v = w]
      BY <1>3 DEF WriteChunk, w, z
    <3>2. c = [type |-> "iCCP", v |-> c.v]
      BY <1>1, <1>3
    <3> QED
      BY <3>1, <3>2
  <2>10. Loaded(WriteChunk(c)) = c
    <3>1. Uncompress(SkipName(w)) = c.v
      BY <2>6, <2>7, <2>8
    <3>2. Loaded([type |-> "iCCP", v |-> w]) = [type |-> "iCCP", v |-> Uncompress(SkipName(w))]
      BY DEF Loaded
    <3> QED
      BY <1>1, <1>3, <2>9, <3>1, <3>2
  <2>11. WriteChunk(c) \in Chunks
    <3>1. "iCCP" \in Types
      BY DEF Types
    <3> QED
      BY <2>2, <2>9, <3>1 DEF Chunks
  <2> QED
    BY <1>3, <2>9, <2>10, <2>11
<1> QED
  BY <1>2, <1>3

-----------------------------------------------------------------------------
(* What an object makes of its file.                                       *)

\* What is read of a file to its end: with the chunk that is found behind it, if there is no IEND.
ReadOf(f) == {Visible(f.chunks)} \union (IF f.end = "eof" THEN {Append(Visible(f.chunks), Phantom)} ELSE {})

\* The object p has read the first chunks of f; in the end it has read all of them.
Track(f, p) ==
  /\ p.reading =>
       /\ f.signed /\ p.at - 1 \in 0..Len(f.chunks)
       /\ \A i \in 1..p.at - 1 : f.chunks[i].type # "IEND"
       /\ Follows(SubSeq(f.chunks, 1, p.at - 1), p)
  /\ ~ p.reading /\ f.signed /\ f.end # "huge" =>
       \E q \in Parsers, cs \in ReadOf(f) : SoundParser(q) /\ Follows(cs, q) /\ p = Finish(q)

LEMMA OpenedTrack ==
  ASSUME NEW f, SoundFile(f)
  PROVE  Track(f, Opened(f))
<1> DEFINE p == Opened(f)
<1>1. p.at = 1 /\ p.reading = f.signed /\ f.signed \in BOOLEAN /\ f.chunks \in Seq(Chunks) /\ Len(f.chunks) \in Nat
  BY DEF Opened, SoundFile, Files
<1>2. SubSeq(f.chunks, 1, 0) = << >>
  BY <1>1, SubSeqEmpty
<1>3. Follows(SubSeq(f.chunks, 1, p.at - 1), p)
  <2>1. p.at - 1 = 0
    BY <1>1
  <2> QED
    BY <1>2, <2>1, OpenedFollows
<1>4. p.at - 1 \in 0..Len(f.chunks) /\ \A i \in 1..p.at - 1 : f.chunks[i].type # "IEND"
  BY <1>1
<1> HIDE DEF p
<1> QED
  BY <1>1, <1>3, <1>4 DEF Track, p

LEMMA AdvancedTrack ==
  ASSUME NEW f, SoundFile(f), Size(f) <= MaxSize, NEW p, SoundParser(p), p.reading, Track(f, p),
         p.at <= Len(f.chunks), f.chunks[p.at].type # "IEND"
  PROVE  /\ Length(f.chunks[p.at]) <= HugeLen
         /\ Track(f, Advanced(Store(p, f.chunks[p.at])))
<1> DEFINE n == p.at
           c == f.chunks[n]
           q == Store(p, c)
           r == Advanced(q)
           cs == SubSeq(f.chunks, 1, n - 1)
<1>1. /\ f \in Files /\ f.chunks \in Seq(Chunks) /\ f.chunks \in Seq(FullChunks) /\ Len(f.chunks) \in Nat
      /\ n \in Nat \ {0} /\ n \in 1..Len(f.chunks) /\ n - 1 \in 0..Len(f.chunks)
  BY DEF SoundFile, Files, SoundParser, Parsers
<1>2. c \in FullChunks /\ c \in Chunks
  BY <1>1 DEF FullChunks
<1>3. Length(c) <= HugeLen
  <2>1. Length(c) \in Nat /\ Size(f) \in Nat /\ Length(c) <= Size(f)
    BY <1>1, LengthBound
  <2> QED
    BY <2>1, MutatorAssumption, MaxLenAssumption
<1>4. /\ f.signed /\ Follows(cs, p) /\ \A i \in 1..n - 1 : f.chunks[i].type # "IEND"
  BY DEF Track
<1>5. cs \in Seq(Chunks) /\ SubSeq(f.chunks, 1, n) = Append(cs, c)
  BY <1>1, NextPrefix
<1>6. Follows(SubSeq(f.chunks, 1, n), q)
  BY <1>2, <1>4, <1>5, StoreFollows
<1>7. SoundParser(q) /\ q.at = n
  BY <1>2, StoreSound
<1>8. q.reading = p.reading
  BY DEF Store, SoundParser, Parsers
<1>9. r.at = n + 1 /\ r.reading /\ r.chunks = q.chunks /\ r.idat_idx = q.idat_idx
  BY <1>7, <1>8 DEF Advanced, SoundParser, Parsers
<1>10. Follows(SubSeq(f.chunks, 1, n), r)
  BY <1>6, <1>9 DEF Follows
<1>11. r.at - 1 \in 0..Len(f.chunks) /\ \A i \in 1..r.at - 1 : f.chunks[i].type # "IEND"
  <2>1. r.at - 1 = n /\ \A i \in 1..n : i = n \/ i \in 1..n - 1
    BY <1>1, <1>9
  <2> HIDE DEF r, n
  <2> QED
    BY <1>1, <1>4, <2>1 DEF n
<1>12. r.at - 1 = n
  BY <1>1, <1>9
<1> HIDE DEF r, q, n, c, cs
<1>13. Track(f, r)
  BY <1>4, <1>9, <1>10, <1>11, <1>12 DEF Track
<1> QED
  BY <1>3, <1>13 DEF r, q, c, n

LEMMA FinishTrack ==
  ASSUME NEW f, SoundFile(f), NEW p, SoundParser(p), p.reading, Track(f, p),
         p.at - 1 = Len(f.chunks) \/ f.chunks[p.at].type = "IEND"
  PROVE  Track(f, Finish(p)) /\ (f.end = "eof" => Track(f, Finish(Store(p, Phantom))))
<1> DEFINE n == p.at - 1
<1>1. /\ f.chunks \in Seq(Chunks) /\ p \in Parsers /\ n \in 0..Len(f.chunks) /\ n + 1 = p.at
      /\ \A i \in 1..n : f.chunks[i].type # "IEND"
      /\ Follows(SubSeq(f.chunks, 1, n), p)
  BY DEF Track, SoundFile, Files, SoundParser, Parsers
<1>2. Visible(f.chunks) = SubSeq(f.chunks, 1, n)
  <2> HIDE DEF n
  <2>1. n = Len(f.chunks) \/ f.chunks[n + 1].type = "IEND"
    BY <1>1 DEF n
  <2> QED
    BY <1>1, <2>1, VisibleIs
<1>3. Visible(f.chunks) \in Seq(Chunks)
  <2>1. \A i \in 1..n : f.chunks[i] \in Chunks
    BY <1>1
  <2> HIDE DEF n
  <2> QED
    BY <1>1, <1>2, <2>1, SubSeqProperties
<1>4. Follows(Visible(f.chunks), p)
  BY <1>1, <1>2
<1>5. Visible(f.chunks) \in ReadOf(f)
  BY DEF ReadOf
<1>6. ~ Finish(p).reading
  BY FinishIs
<1>7. Track(f, Finish(p))
  BY <1>1, <1>4, <1>5, <1>6 DEF Track
<1>8. ASSUME f.end = "eof"
      PROVE  Track(f, Finish(Store(p, Phantom)))
  <2>1. Phantom \in FullChunks
    BY DEF Phantom, FullChunks, Chunks, Types
  <2>2. SoundParser(Store(p, Phantom)) /\ Store(p, Phantom) \in Parsers
    BY <2>1, StoreSound DEF SoundParser
  <2>3. Follows(Append(Visible(f.chunks), Phantom), Store(p, Phantom))
    BY <1>3, <1>4, <2>1, StoreFollows
  <2>4. Append(Visible(f.chunks), Phantom) \in ReadOf(f)
    BY <1>8 DEF ReadOf
  <2>5. ~ Finish(Store(p, Phantom)).reading
    BY <2>2, FinishIs
  <2> QED
    BY <2>2, <2>3, <2>4, <2>5 DEF Track
<1> QED
  BY <1>7, <1>8

\* The chunks got hold the image data of f in one IDAT chunk.
MergedIn(f, got) ==
  LET seen  == Visible(f.chunks)
      idats == {i \in DOMAIN seen : seen[i].type = "IDAT"}
      mine  == {i \in DOMAIN got : got[i].type = "IDAT"}
  IN  /\ Cardinality(mine) = IF idats = {} THEN 0 ELSE 1
      /\ \A i \in mine : i = Min(idats) /\ got[i].v = Uncompress(ImageData(seen))

\* "merge the IDAT chunks into one vector", for one file that was read to its end.
LEMMA Merged ==
  ASSUME NEW f, SoundFile(f), NEW q, SoundParser(q), NEW cs \in ReadOf(f), Follows(cs, q)
  PROVE  MergedIn(f, Finish(q).chunks)
<1> DEFINE seen  == Visible(f.chunks)
           idats == {i \in DOMAIN seen : seen[i].type = "IDAT"}
           got   == Finish(q).chunks
           mine  == {i \in DOMAIN got : got[i].type = "IDAT"}
           k     == q.idat_idx
<1>1. seen \in Seq(Chunks) /\ Len(seen) \in Nat /\ DOMAIN seen = 1..Len(seen)
  <2>1. f.chunks \in Seq(Chunks) /\ \A i \in 1..Len(f.chunks) : f.chunks[i] \in Chunks
    BY DEF SoundFile, Files
  <2>2. PICK n \in 0..Len(f.chunks) : seen = SubSeq(f.chunks, 1, n)
    BY <2>1, VisiblePrefix
  <2>3. \A i \in 1..n : f.chunks[i] \in Chunks
    BY <2>1
  <2>4. seen \in Seq(Chunks)
    <3> HIDE DEF seen
    <3> QED
      BY <2>2, <2>3, SubSeqProperties
  <2> HIDE DEF seen
  <2> QED
    BY <2>4, ChunkSeq
<1>2. Phantom \in Chunks /\ Phantom.type # "IDAT"
  BY DEF Phantom, Chunks, Types
<1>3. /\ ImageData(cs) = ImageData(seen) /\ cs \in Seq(Chunks)
      /\ \A i \in 1..Len(seen) : i \in DOMAIN cs /\ cs[i] = seen[i]
      /\ \A i \in DOMAIN cs : cs[i].type = "IDAT" => i \in 1..Len(seen)
  <2>1. CASE cs = seen
    <3> HIDE DEF seen
    <3> QED
      BY <1>1, <2>1
  <2>2. CASE cs = Append(seen, Phantom)
    <3> HIDE DEF seen
    <3>1. /\ cs \in Seq(Chunks) /\ Len(cs) = Len(seen) + 1 /\ cs[Len(seen) + 1] = Phantom
          /\ \A i \in 1..Len(seen) : cs[i] = seen[i]
      BY <1>1, <1>2, <2>2, AppendProperties
    <3>2. DOMAIN cs = 1..Len(seen) + 1
      BY <3>1, ChunkSeq
    <3>3. ImageData(cs) = ImageData(seen)
      BY <1>1, <1>2, <2>2, ImageAppend
    <3>4. \A i \in 1..Len(seen) + 1 : i = Len(seen) + 1 \/ i \in 1..Len(seen)
      BY <1>1
    <3>5. \A i \in 1..Len(seen) : i \in 1..Len(seen) + 1
      BY <1>1
    <3> QED
      BY <1>2, <3>1, <3>2, <3>3, <3>4, <3>5
  <2> QED
    BY <2>1, <2>2 DEF ReadOf
<1>4. /\ got \in Seq(Chunks) /\ DOMAIN got = 1..Len(q.chunks) /\ q.chunks \in Seq(Chunks) /\ DOMAIN q.chunks = 1..Len(q.chunks)
      /\ \A i \in 1..Len(q.chunks) : got[i].type = q.chunks[i].type
      /\ k # 0 => got[k].v = Uncompress(q.chunks[k].v)
  BY FinishIs, ChunkSeq DEF SoundParser, Parsers
<1>5. k # 0 => k \in 1..Len(q.chunks) /\ q.chunks[k].type = "IDAT"
  BY DEF SoundParser
<1>6. \A i \in mine : k # 0 /\ i = k
  <2>1. \A i \in 1..Len(q.chunks) : q.chunks[i].type = "IDAT" => i = k
    BY <1>4 DEF Follows
  <2>2. 0 \notin 1..Len(q.chunks)
    OBVIOUS
  <2> QED
    BY <1>4, <2>1, <2>2
<1>7. CASE k = 0
  <2>1. \A i \in DOMAIN cs : cs[i].type # "IDAT"
    BY <1>7 DEF Follows
  <2> HIDE DEF seen, got, k
  <2>2. idats = {}
    BY <1>1, <1>3, <2>1
  <2>3. mine = {}
    BY <1>6, <1>7
  <2> HIDE DEF idats, mine
  <2>4. Cardinality(mine) = 0
    BY <2>3, FS_EmptySet
  <2> QED
    BY <2>2, <2>3, <2>4 DEF idats, mine, seen, got, MergedIn
<1>8. CASE k # 0
  <2>1. /\ k \in DOMAIN cs /\ cs[k].type = "IDAT" /\ \A i \in 1..k - 1 : cs[i].type # "IDAT"
        /\ q.chunks[k].v = ImageData(cs)
    BY <1>8 DEF Follows
  <2>2. k \in 1..Len(seen) /\ seen[k].type = "IDAT"
    <3> HIDE DEF seen, k
    <3> QED
      BY <1>3, <2>1
  <2>3. k \in idats
    BY <1>1, <2>2
  <2>4. \A i \in idats : i \in Nat /\ k <= i
    <3> SUFFICES ASSUME NEW i \in idats PROVE i \in Nat /\ k <= i
      OBVIOUS
    <3>1. i \in 1..Len(seen) /\ cs[i].type = "IDAT"
      BY <1>1, <1>3
    <3> HIDE DEF seen, k
    <3>2. i \in Nat /\ k \in Nat /\ ~(i \in 1..k - 1)
      BY <1>1, <2>1, <2>2, <3>1
    <3>3. k <= i
      BY <3>1, <3>2
    <3> QED
      BY <3>2, <3>3
  <2>5. Min(idats) = k
    <3>1. idats \in SUBSET Nat /\ idats # {}
      BY <2>3, <2>4
    <3> HIDE DEF idats, k
    <3>2. Min(idats) \in idats /\ Min(idats) <= k
      BY <2>3, <3>1, LeastOf
    <3>3. k \in Nat /\ Min(idats) \in Nat /\ k <= Min(idats)
      BY <2>3, <2>4, <3>2
    <3> QED
      BY <3>2, <3>3
  <2>6. mine = {k}
    <3>1. k \in mine
      BY <1>4, <1>5, <1>8
    <3> HIDE DEF mine, k
    <3> QED
      BY <1>6, <3>1
  <2>7. got[k].v = Uncompress(ImageData(seen))
    BY <1>3, <1>4, <1>8, <2>1
  <2> HIDE DEF idats, mine, seen, got, k
  <2>8. Cardinality(mine) = 1
    BY <2>6, FS_Singleton
  <2> QED
    BY <2>3, <2>5, <2>6, <2>7, <2>8 DEF idats, mine, seen, got, MergedIn
<1> QED
  BY <1>7, <1>8

\* What was written for chunks is read as those chunks in front of the first IEND.
LEMMA Reread ==
  ASSUME NEW w \in Seq(FullChunks), NEW h \in Headers, NEW q, SoundParser(q),
         NEW cs \in ReadOf(Serialize(h, w)), Follows(cs, q)
  PROVE  Others(Finish(q).chunks) = Others(Visible(w))
<1> DEFINE f == Serialize(h, w)
           s == f.chunks
<1>1. w \in Seq(Chunks) /\ Len(w) \in Nat /\ DOMAIN w = 1..Len(w) /\ \A i \in 1..Len(w) : w[i] \in Chunks
  <2>1. w \in Seq(Chunks)
    BY SeqMonotonic DEF FullChunks
  <2> QED
    BY <2>1, ChunkSeq
<1>2. s \in Seq(Chunks) /\ Len(s) = Len(w) /\ \A i \in 1..Len(w) : s[i] = WriteChunk(w[i])
  <2>1. s = [i \in 1..Len(w) |-> WriteChunk(w[i])]
    BY <1>1 DEF Serialize
  <2>2. \A i \in 1..Len(w) : WriteChunk(w[i]) \in Chunks
    BY <1>1, LoadedWrite
  <2> QED
    BY <1>1, <2>1, <2>2
<1>3. cs = Visible(s)
  BY DEF ReadOf, Serialize
<1>4. \A i \in 1..Len(w) : s[i].type = w[i].type /\ Loaded(s[i]) = w[i]
  BY <1>1, <1>2, LoadedWrite
<1> HIDE DEF s
<1>5. PICK n \in 0..Len(s) : /\ Visible(s) = SubSeq(s, 1, n)
                             /\ \A i \in 1..n : s[i].type # "IEND"
                             /\ n = Len(s) \/ s[n + 1].type = "IEND"
  BY <1>2, VisiblePrefix
<1>6. n \in 0..Len(w) /\ n \in Nat /\ \A i \in 1..n : i \in 1..Len(w)
  BY <1>1, <1>2, <1>5
<1>7. Visible(w) = SubSeq(w, 1, n)
  <2>1. \A i \in 1..n : w[i].type # "IEND"
    BY <1>4, <1>5, <1>6
  <2>2. n = Len(w) \/ w[n + 1].type = "IEND"
    <3> SUFFICES ASSUME n # Len(w) PROVE w[n + 1].type = "IEND"
      OBVIOUS
    <3>1. n + 1 \in 1..Len(w)
      <4>1. Len(w) \in Nat
        BY <1>1
      <4>2. n \in 0..Len(w)
        BY <1>6
      <4> DEFINE l == Len(w)
      <4> HIDE DEF l
      <4>3. l \in Nat /\ n \in 0..l /\ n # l
        BY <4>1, <4>2 DEF l
      <4>4. n + 1 \in 1..l
        BY <4>3
      <4> QED
        BY <4>4 DEF l
    <3>2. s[n + 1].type = "IEND"
      BY <1>2, <1>5
    <3> QED
      BY <1>4, <3>1, <3>2
  <2> QED
    BY <1>1, <1>6, <2>1, <2>2, VisibleIs
<1>8. cs \in Seq(Chunks) /\ Len(cs) = n /\ \A i \in 1..n : cs[i] = s[i]
  <2>1. \A i \in 1..n : s[i] \in Chunks
    BY <1>2, <1>5
  <2>2. /\ SubSeq(s, 1, n) \in Seq(Chunks) /\ Len(SubSeq(s, 1, n)) = IF 1 <= n THEN n - 1 + 1 ELSE 0
        /\ \A i \in 1..n - 1 + 1 : SubSeq(s, 1, n)[i] = s[1 + i - 1]
    BY <1>6, <2>1, SubSeqProperties
  <2> QED
    BY <1>3, <1>5, <1>6, <2>2
<1>9. SubSeq(w, 1, n) \in Seq(Chunks) /\ Len(SubSeq(w, 1, n)) = n /\ \A i \in 1..n : SubSeq(w, 1, n)[i] = w[i]
  <2>1. \A i \in 1..n : w[i] \in Chunks
    BY <1>1, <1>6
  <2>2. /\ SubSeq(w, 1, n) \in Seq(Chunks) /\ Len(SubSeq(w, 1, n)) = IF 1 <= n THEN n - 1 + 1 ELSE 0
        /\ \A i \in 1..n - 1 + 1 : SubSeq(w, 1, n)[i] = w[1 + i - 1]
    BY <1>6, <2>1, SubSeqProperties
  <2> QED
    BY <1>6, <2>2
<1>10. [i \in DOMAIN cs |-> Loaded(cs[i])] = SubSeq(w, 1, n)
  <2> DEFINE l == [i \in DOMAIN cs |-> Loaded(cs[i])]
  <2>1. l \in Seq(Chunks) /\ Len(l) = n /\ DOMAIN cs = 1..n
    BY <1>8, LoadedSeq, ChunkSeq
  <2>2. \A i \in 1..n : l[i] = w[i]
    BY <1>4, <1>6, <1>8, <2>1
  <2> HIDE DEF l
  <2>3. l = SubSeq(w, 1, n)
    BY <1>9, <2>1, <2>2, SeqEqual
  <2> QED
    BY <2>3 DEF l
<1>11. Others(Finish(q).chunks) = Others(q.chunks)
  BY FinishIs
<1> QED
  BY <1>7, <1>10, <1>11 DEF Follows

-----------------------------------------------------------------------------
(* Files are read to their end, and back as they were written.             *)

\* The file is what the chunks in written make.
Wrote == written # << >> =>
           /\ written[1] \in Seq(FullChunks)
           /\ \E h \in Headers : file = Serialize(h, written[1])

\* The inputs of a call fit, and its objects have read what they have read.
Tracked == \A k \in DOMAIN in : Size(in[k]) <= MaxSize /\ Track(in[k], parser[k])

ReadInv == Wrote /\ Tracked

LEMMA ReadInit == Init => ReadInv
  BY DEF Init, ReadInv, Wrote, Tracked

\* A new call: its objects have read nothing.
LEMMA CallTracked ==
  ASSUME ReadInv, NEW entry, NEW inputs, NEW f, NEW g, SoundFile(f), SoundFile(g),
         Size(f) <= MaxSize, Size(g) <= MaxSize, inputs = << f >> \/ inputs = << f, g >>,
         Call(entry, inputs)
  PROVE  ReadInv'
<1>1. /\ in' = inputs /\ parser' = [k \in DOMAIN inputs |-> Opened(inputs[k])]
      /\ file' = file /\ written' = written
  BY DEF Call
<1>2. \A k \in DOMAIN inputs : inputs[k] = f \/ inputs[k] = g
  OBVIOUS
<1>3. \A k \in DOMAIN inputs : Size(inputs[k]) <= MaxSize /\ Track(inputs[k], Opened(inputs[k]))
  BY <1>2, OpenedTrack
<1>4. \A k \in DOMAIN in' : Size(in'[k]) <= MaxSize /\ Track(in'[k], parser'[k])
  BY <1>1, <1>3
<1> QED
  BY <1>1, <1>4 DEF ReadInv, Wrote, Tracked

\* One object takes a step.
LEMMA ObjectTracked ==
  ASSUME Inv, ReadInv, NEW k \in DOMAIN parser, NEW p, Track(in[k], p),
         parser' = [parser EXCEPT ![k] = p], UNCHANGED << file, written, job, in, handed >>
  PROVE  ReadInv'
<1>1. DOMAIN in = DOMAIN parser /\ in' = in /\ written' = written /\ file' = file
  BY DEF Inv
<1>2. parser'[k] = p /\ \A j \in DOMAIN parser : j # k => parser'[j] = parser[j]
  OBVIOUS
<1>3. \A j \in DOMAIN in : Size(in[j]) <= MaxSize /\ Track(in[j], parser'[j])
  <2> SUFFICES ASSUME NEW j \in DOMAIN in PROVE Size(in[j]) <= MaxSize /\ Track(in[j], parser'[j])
    OBVIOUS
  <2>1. Size(in[j]) <= MaxSize /\ Track(in[j], parser[j])
    BY DEF ReadInv, Tracked
  <2>2. CASE j = k
    BY <1>2, <2>1, <2>2
  <2>3. CASE j # k
    BY <1>1, <1>2, <2>1, <2>3
  <2> QED
    BY <2>2, <2>3
<1> QED
  BY <1>1, <1>3 DEF ReadInv, Wrote, Tracked

LEMMA ReadChunkTracked ==
  ASSUME Inv, ReadInv, NEW k \in 1..2, ReadChunk(k) PROVE ReadInv'
<1> DEFINE f == in[k]
           p == parser[k]
           c == f.chunks[p.at]
<1>1. k \in DOMAIN parser /\ k \in DOMAIN in /\ p.reading /\ p.at <= Len(f.chunks)
  BY DEF ReadChunk, Reading, Inv
<1>2. SoundParser(p) /\ SoundFile(f) /\ Size(f) <= MaxSize /\ Track(f, p)
  BY <1>1 DEF Inv, ReadInv, Tracked
<1>3. UNCHANGED << file, written, job, in, handed >>
  BY DEF ReadChunk
<1>4. CASE c.type = "IEND"
  <2>1. parser' = [parser EXCEPT ![k] = Finish(p)]
    BY <1>4 DEF ReadChunk
  <2>2. Track(f, Finish(p))
    BY <1>1, <1>2, <1>4, FinishTrack
  <2> QED
    BY <1>1, <1>3, <2>1, <2>2, ObjectTracked
<1>5. CASE c.type # "IEND"
  <2>1. Length(c) <= HugeLen /\ Track(f, Advanced(Store(p, c)))
    BY <1>1, <1>2, <1>5, AdvancedTrack
  <2>2. ~(Length(c) > HugeLen)
    <3>1. f \in Files /\ p.at \in 1..Len(f.chunks)
      BY <1>1, <1>2 DEF SoundFile, Files, SoundParser, Parsers
    <3>2. Length(c) \in Nat
      BY <3>1, LengthBound
    <3> QED
      BY <2>1, <3>2, MutatorAssumption
  <2>3. parser' = [parser EXCEPT ![k] = Advanced(Store(p, c))]
    BY <1>5, <2>2 DEF ReadChunk
  <2> QED
    BY <1>1, <1>3, <2>1, <2>3, ObjectTracked
<1> QED
  BY <1>4, <1>5

LEMMA ReadEndTracked ==
  ASSUME Inv, ReadInv, NEW k \in 1..2, ReadEnd(k) PROVE ReadInv'
<1> DEFINE f == in[k]
           p == parser[k]
<1>1. k \in DOMAIN parser /\ k \in DOMAIN in /\ p.reading /\ p.at > Len(f.chunks)
  BY DEF ReadEnd, Reading, Inv
<1>2. SoundParser(p) /\ SoundFile(f) /\ Size(f) <= MaxSize /\ Track(f, p)
  BY <1>1 DEF Inv, ReadInv, Tracked
<1>3. UNCHANGED << file, written, job, in, handed >>
  BY DEF ReadEnd
<1>4. p.at - 1 = Len(f.chunks)
  BY <1>1, <1>2 DEF Track, SoundFile, Files, SoundParser, Parsers
<1>5. Track(f, Finish(p)) /\ (f.end = "eof" => Track(f, Finish(Store(p, Phantom))))
  BY <1>1, <1>2, <1>4, FinishTrack
<1>6. f.end = "huge" => Track(f, Stopped(p))
  <2>1. ~ Stopped(p).reading
    BY <1>2 DEF Stopped, SoundParser, Parsers
  <2> QED
    BY <2>1 DEF Track
<1>7. \/ parser' = [parser EXCEPT ![k] = Finish(p)]
      \/ f.end = "eof" /\ parser' = [parser EXCEPT ![k] = Finish(Store(p, Phantom))]
      \/ f.end = "huge" /\ parser' = [parser EXCEPT ![k] = Stopped(p)]
  BY DEF ReadEnd
<1> QED
  BY <1>1, <1>3, <1>5, <1>6, <1>7, ObjectTracked

LEMMA ReturnTracked ==
  ASSUME ReadInv, NEW h \in Headers, NEW cs \in Seq(FullChunks), NEW sizes, Return(h, cs, sizes)
  PROVE  ReadInv'
<1>1. in' = << >>
  BY DEF Return
<1>2. Tracked'
  BY <1>1 DEF Tracked
<1>3. CASE file' = file /\ written' = written
  BY <1>2, <1>3 DEF ReadInv, Wrote
<1>4. CASE file' = Serialize(h, cs) /\ written' = << cs >>
  <2>1. written'[1] = cs
    BY <1>4
  <2>2. Wrote'
    BY <1>4, <2>1 DEF Wrote
  <2> QED
    BY <1>2, <2>2 DEF ReadInv
<1> QED
  BY <1>3, <1>4 DEF Return

LEMMA ReadStep == Inv /\ Calls /\ ReadInv /\ [Next]_vars => ReadInv'
<1> SUFFICES ASSUME Inv, Calls, ReadInv, [Next]_vars PROVE ReadInv'
  OBVIOUS
<1>0. SoundFile(file) /\ Size(file) <= MaxSize /\ \A f \in Seeds : SoundFile(f) /\ Size(f) <= MaxSize
  BY SeedSound, MutatorAssumption DEF Inv, Calls
<1>1. CASE Pick
  <2>1. in' = in /\ parser' = parser /\ written' = << >>
    BY <1>1 DEF Pick
  <2> QED
    BY <2>1 DEF ReadInv, Wrote, Tracked
<1>2. CASE LLVMFuzzerCustomMutator
  BY <1>0, <1>2, CallTracked DEF LLVMFuzzerCustomMutator
<1>3. CASE LLVMFuzzerCustomCrossOver
  <2>1. PICK other \in Seeds \union {file} :
          Call("CrossOver", << file, other >>) \/ Call("CrossOver", << other, file >>)
    BY <1>3 DEF LLVMFuzzerCustomCrossOver
  <2>2. SoundFile(other) /\ Size(other) <= MaxSize
    BY <1>0
  <2> QED
    BY <1>0, <2>1, <2>2, CallTracked
<1>4. CASE \E k \in 1..2 : ReadChunk(k) \/ ReadEnd(k)
  BY <1>4, ReadChunkTracked, ReadEndTracked
<1>5. CASE Mutate \/ CrossOver
  <2>1. PICK h \in Headers, cs \in Seq(FullChunks), sizes \in SUBSET (Nat \ {0}) :
          Return(h, cs, sizes)
    BY <1>5, Returns DEF Returned
  <2> QED
    BY <2>1, ReturnTracked
<1>6. CASE UNCHANGED vars
  BY <1>6 DEF vars, ReadInv, Wrote, Tracked
<1> QED
  BY <1>1, <1>2, <1>3, <1>4, <1>5, <1>6 DEF Next

LEMMA ReadAlways == Spec => [](Inv /\ ReadInv)
  BY InvInit, InvStep, CallsInit, CallsStep, ReadInit, ReadStep, PTL DEF Spec

\* For every seed corpus, all limits and every number of mutations and cross-overs: except for
\* the image data, a file the mutator wrote is parsed into the chunks it was written from, up to
\* the first IEND, the iCCP profile included (RereadsWhatItWrote).
THEOREM WrittenIsReread == Spec => []RereadsWhatItWrote
<1>1. Inv /\ ReadInv => RereadsWhatItWrote
  <2> SUFFICES ASSUME Inv, ReadInv, written # << >>, NEW k \in DOMAIN in, in[k] = file, ~ parser[k].reading
               PROVE  Others(parser[k].chunks) = Others(Visible(written[1]))
    BY DEF RereadsWhatItWrote
  <2>1. PICK h \in Headers : file = Serialize(h, written[1])
    BY DEF ReadInv, Wrote
  <2>2. written[1] \in Seq(FullChunks)
    BY DEF ReadInv, Wrote
  <2>3. file.signed /\ file.end = "IEND"
    BY <2>1 DEF Serialize
  <2>4. Track(file, parser[k])
    BY DEF ReadInv, Tracked
  <2>5. PICK q \in Parsers, cs \in ReadOf(file) : SoundParser(q) /\ Follows(cs, q) /\ parser[k] = Finish(q)
    BY <2>3, <2>4 DEF Track
  <2> QED
    BY <2>1, <2>2, <2>5, Reread
<1> QED
  BY <1>1, ReadAlways, PTL

\* For every seed corpus, all limits and every number of mutations and cross-overs: a file that is
\* read to its end has one IDAT chunk in memory, where its first one was, with what all of
\* its image data uncompresses to (MergesImageData).
THEOREM ImageDataMerged == Spec => []MergesImageData
<1>1. Inv /\ ReadInv => MergesImageData
  <2> SUFFICES ASSUME Inv, ReadInv, NEW k \in DOMAIN in, ~ parser[k].reading, in[k].signed, in[k].end # "huge"
               PROVE  MergedIn(in[k], parser[k].chunks)
    BY DEF MergesImageData, MergedIn
  <2>1. SoundFile(in[k]) /\ Track(in[k], parser[k])
    BY DEF Inv, ReadInv, Tracked
  <2>2. PICK q \in Parsers, cs \in ReadOf(in[k]) : SoundParser(q) /\ Follows(cs, q) /\ parser[k] = Finish(q)
    BY <2>1 DEF Track
  <2> QED
    BY <2>1, <2>2, Merged
<1> QED
  BY <1>1, ReadAlways, PTL
=============================================================================
