----------------------------- MODULE PngMutator -----------------------------
(***************************************************************************)
(* libpng-1.2.56/png_mutator.h: libFuzzer's custom mutator and cross-over   *)
(* for PNG files.  Each call parses its input into chunks, changes the      *)
(* chunks, and serializes them into what becomes the next input.            *)
(*                                                                         *)
(* A payload is a sequence of bytes of which only what parsing looks at is  *)
(* kept: n > 0 is the header of a zlib stream of n bytes, NAME a printable  *)
(* byte, NUL a zero byte in an iCCP chunk, 0 any other byte.  The random    *)
(* generator is a free choice, and so is the raw mutator m.                 *)
(***************************************************************************)
EXTENDS Integers, Sequences, FiniteSets, SequencesExt

CONSTANTS
  Seeds,        \* the files of the seed corpus
  MaxSize,      \* the fuzzer's limit on the size of an input
  HugeLen,      \* 1 << 20: no chunk beyond this length is read
  FuzzLen,      \* 16: the length of a new fUZz chunk
  RandomBytes,  \* the bytes that rnd() and m produce
  MaxRandom     \* bound: the longest payload that rnd() asks for, 255 or 256 in the code

NAME == -1
NUL  == -2

Headers == {"zeros", "random"}                     \* the 13 bytes of IHDR
Types   == {"IDAT", "iCCP", "fUZz", "IEND", "other", "null"}
Ends    == {"IEND", "eof", "cut", "huge"}          \* how the file goes on after its chunks
Chunks  == [type : Types, v : Seq(Int)]
Files   == [signed : BOOLEAN, ihdr : Headers, chunks : Seq(Chunks), end : Ends]

\* Bytes of a chunk and of a file; the three bytes of an iCCP name are part of the overhead 1.
Length(c) == Cardinality({i \in DOMAIN c.v : c.v[i] >= 0})
Size(f)   == SumFunction([i \in DOMAIN f.chunks |-> 1 + Length(f.chunks[i])])

ASSUME MutatorAssumption ==
  /\ Seeds \subseteq Files
  /\ \A f \in Seeds : Size(f) <= MaxSize
  /\ MaxSize \in Nat /\ HugeLen \in Nat /\ MaxRandom \in Nat
  /\ FuzzLen \in Nat \ {0}
  /\ RandomBytes \subseteq Int

\* No seed has an empty fUZz chunk: nothing but this mutator makes fUZz chunks.
ASSUME HintsAssumption ==
  \A f \in Seeds : \A i \in DOMAIN f.chunks : f.chunks[i].type = "fUZz" => f.chunks[i].v # << >>

\* libFuzzer's -max_len does not exceed 1 << 20 by default.
ASSUME MaxLenAssumption == MaxSize <= HugeLen

VARIABLES
  file,     \* Data, Size: the corpus element being worked on
  written,  \* << chunks >> that file was serialized from, << >> when it is a seed
  job,      \* the entry point that runs
  in,       \* its inputs, one for each PngMutator object
  parser,   \* the objects: chunks_, ihdr_ and the locals of the constructor
  handed    \* the sizes handed to m by the last call

vars == << file, written, job, in, parser, handed >>

-----------------------------------------------------------------------------
\* zlib, a stream being << n >> followed by its n bytes.
Uncompress(v) ==
  IF v # << >> /\ v[1] > 0 /\ Len(v) > v[1] THEN SubSeq(v, 2, v[1] + 1) ELSE << >>

Compress(v) == IF v = << >> THEN << >> ELSE << Len(v) >> \o v

IsPrint(b) == b = NAME \/ b > 0            \* a zlib stream begins with 0x78, 'x'

\* The number of printable bytes v begins with.
Leading(v) == Cardinality({n \in 1..Len(v) : \A m \in 1..n : IsPrint(v[m])})

\* Mutant: SkipName with one of the two zeros skipped.
SkipName_one(v) ==
  LET i == Leading(v) + 1
  IN  SubSeq(v, IF i <= Len(v) /\ v[i] = NUL THEN i + 1 ELSE i, Len(v))

\* Lines 65 to 69: v without its printable bytes and up to two zeros.
SkipName(v) ==
  LET i == Leading(v) + 1
      j == IF i <= Len(v) /\ v[i] = NUL THEN i + 1 ELSE i
      k == IF j <= Len(v) /\ v[j] = NUL THEN j + 1 ELSE j
  IN  SubSeq(v, k, Len(v))

\* An object before the loop of the constructor: without IHDR it is finished.
Opened(f) ==
  [at |-> 1, ihdr |-> IF f.signed THEN f.ihdr ELSE "zeros", chunks |-> << >>, idat_idx |-> 0,
   reading |-> f.signed]

Loaded(c) == [c EXCEPT !.v = IF c.type = "iCCP" THEN Uncompress(SkipName(@)) ELSE @]

\* Mutant: Store appending to the last chunk instead of the first IDAT.
Store_late(p, c) ==
  IF c.type = "IDAT" /\ p.idat_idx # 0
  THEN [p EXCEPT !.chunks[Len(p.chunks)].v = @ \o c.v]
  ELSE [p EXCEPT !.chunks = Append(@, Loaded(c)),
                 !.idat_idx = IF c.type = "IDAT" THEN Len(p.chunks) + 1 ELSE @]

\* Lines 57 to 75: the chunk c is stored, or merged into the first IDAT.
Store(p, c) ==
  IF c.type = "IDAT" /\ p.idat_idx # 0
  THEN [p EXCEPT !.chunks[p.idat_idx].v = @ \o c.v]
  ELSE [p EXCEPT !.chunks = Append(@, Loaded(c)),
                 !.idat_idx = IF c.type = "IDAT" THEN Len(p.chunks) + 1 ELSE @]

Uncompressed(c) == [c EXCEPT !.v = Uncompress(@)]

\* Lines 78 and 79.
Finish(p) ==
  [p EXCEPT !.reading = FALSE,
            !.chunks = IF p.idat_idx = 0 THEN @
                       ELSE ReplaceAt(@, p.idat_idx, Uncompressed(p.chunks[p.idat_idx]))]

Stopped(p)  == [p EXCEPT !.reading = FALSE]
Advanced(p) == [p EXCEPT !.at = @ + 1]

Phantom == [type |-> "null", v |-> << >>]    \* what reading at the end of the file yields

WriteChunk(c) ==
  [c EXCEPT !.v = IF c.type = "iCCP" THEN << NAME, NUL, NUL >> \o Compress(@) ELSE @]

Serialize(ihdr, chunks) ==
  [signed |-> TRUE, ihdr |-> ihdr, chunks |-> [i \in DOMAIN chunks |-> WriteChunk(chunks[i])],
   end |-> "IEND"]

Payloads(n) == [1..n -> RandomBytes]

\* What m may leave in a buffer of n bytes: it returns a size from 1 to n.
Mutations(n) == UNION {Payloads(k) : k \in 1..n}

-----------------------------------------------------------------------------
Init ==
  /\ file \in Seeds
  /\ written = << >>
  /\ job = "none"
  /\ in = << >>
  /\ parser = << >>
  /\ handed = {}

\* The fuzzer turns to another element of the corpus.
Pick ==
  /\ job = "none"
  /\ file' \in Seeds
  /\ written' = << >>
  /\ UNCHANGED << job, in, parser, handed >>

Call(entry, inputs) ==
  /\ job = "none"
  /\ job' = entry
  /\ in' = inputs
  /\ parser' = [k \in DOMAIN inputs |-> Opened(inputs[k])]
  /\ handed' = {}
  /\ UNCHANGED << file, written >>

LLVMFuzzerCustomMutator == Call("Mutate", << file >>)

LLVMFuzzerCustomCrossOver ==
  \E other \in Seeds \union {file} :
    Call("CrossOver", << file, other >>) \/ Call("CrossOver", << other, file >>)

Reading(k) ==
  /\ k \in DOMAIN parser
  /\ parser[k].reading
  /\ \A j \in 1..k - 1 : ~ parser[j].reading

\* One turn of the loop that finds another chunk in the file.
ReadChunk(k) ==
  /\ Reading(k)
  /\ parser[k].at <= Len(in[k].chunks)
  /\ LET c == in[k].chunks[parser[k].at]
     IN  \/ /\ c.type = "IEND"
            /\ parser' = [parser EXCEPT ![k] = Finish(@)]
         \/ /\ c.type # "IEND"
            /\ parser' = [parser EXCEPT ![k] = IF Length(c) > HugeLen THEN Stopped(@)
                                               ELSE Advanced(Store(@, c))]
  /\ UNCHANGED << file, written, job, in, handed >>

\* The last turn: IEND, the end of the file, or a chunk that is too long (an early return).
ReadEnd(k) ==
  /\ Reading(k)
  /\ parser[k].at > Len(in[k].chunks)
  /\ \/ /\ in[k].end \in {"IEND", "cut"}
        /\ parser' = [parser EXCEPT ![k] = Finish(@)]
     \/ /\ in[k].end = "eof"
        /\ parser' = [parser EXCEPT ![k] = Finish(Store(@, Phantom))]
     \/ /\ in[k].end = "huge"
        /\ parser' = [parser EXCEPT ![k] = Stopped(@)]
  /\ UNCHANGED << file, written, job, in, handed >>

\* Mutant: Return without the comparison with MaxSize.
Return_unchecked(ihdr, chunks, sizes) ==
  /\ file' = Serialize(ihdr, chunks)
  /\ written' = << chunks >>
  /\ job' = "none"
  /\ in' = << >>
  /\ parser' = << >>
  /\ handed' = sizes

\* Serialize and return: a result that does not fit is dropped.
Return(ihdr, chunks, sizes) ==
  LET out == Serialize(ihdr, chunks)
  IN  /\ IF Size(out) <= MaxSize
         THEN file' = out /\ written' = << chunks >>
         ELSE UNCHANGED << file, written >>
      /\ job' = "none"
      /\ in' = << >>
      /\ parser' = << >>
      /\ handed' = sizes

Parsed(entry) == job = entry /\ \A k \in DOMAIN parser : ~ parser[k].reading

MutateHeader ==                                                        \* case 0
  /\ Parsed("Mutate")
  /\ \E h \in Headers : Return(h, parser[1].chunks, {13})

MutateChunk ==                                                         \* case 1
  LET chunks == parser[1].chunks
  IN  /\ Parsed("Mutate")
      /\ chunks # << >>
      /\ \E i \in DOMAIN chunks :
           \E n \in IF chunks[i].v = << >> THEN 1..MaxRandom ELSE {Len(chunks[i].v)} :
             \E v \in Mutations(n) :
               Return(parser[1].ihdr, [chunks EXCEPT ![i].v = v], {n})

Shuffle ==                                                             \* case 2
  LET chunks == parser[1].chunks
  IN  /\ Parsed("Mutate")
      /\ \E order \in Bijection(DOMAIN chunks, DOMAIN chunks) :
           Return(parser[1].ihdr, [i \in DOMAIN chunks |-> chunks[order[i]]], {})

DeleteChunk ==                                                         \* case 3
  LET chunks == parser[1].chunks
  IN  /\ Parsed("Mutate")
      /\ chunks # << >>
      /\ \E i \in DOMAIN chunks : Return(parser[1].ihdr, RemoveAt(chunks, i), {})

\* Cases 1 and 3 without a chunk, case 5 without a fUZz chunk.
NothingToMutate ==
  /\ Parsed("Mutate")
  /\ \A i \in DOMAIN parser[1].chunks : parser[1].chunks[i].type # "fUZz"
  /\ Return(parser[1].ihdr, parser[1].chunks, {})

\* Mutant: NewLengths without the line that makes hints 16 bytes long.
NewLengths_any(t) == 0..MaxRandom

\* The lengths of a new chunk of type t.
NewLengths(t) == IF t = "fUZz" THEN {FuzzLen} ELSE 0..MaxRandom

InsertChunk ==                                                         \* case 4
  LET chunks == parser[1].chunks
  IN  /\ Parsed("Mutate")
      /\ \E t \in Types \ {"null"}, pos \in 1..Len(chunks) + 1 :
           \E len \in NewLengths(t) :
             \E v \in Payloads(len) :
               Return(parser[1].ihdr, InsertAt(chunks, pos, [type |-> t, v |-> v]), {})

MutateHints ==                                                         \* case 5
  LET chunks == parser[1].chunks
      hints  == {i \in DOMAIN chunks : chunks[i].type = "fUZz"}
  IN  /\ Parsed("Mutate")
      /\ \E i \in hints :
           /\ \A j \in hints : i <= j
           /\ \E v \in Payloads(Len(chunks[i].v)) :
                Return(parser[1].ihdr, [chunks EXCEPT ![i].v = v], {Len(chunks[i].v)})

CrossOver ==
  LET mine   == parser[1].chunks
      theirs == parser[2].chunks
  IN  /\ Parsed("CrossOver")
      /\ \/ /\ theirs = << >>
            /\ Return(parser[1].ihdr, mine, {})
         \/ \E i \in DOMAIN theirs, pos \in 1..Len(mine) + 1 :
              Return(parser[1].ihdr, InsertAt(mine, pos, theirs[i]), {})

Mutate ==
  \/ MutateHeader \/ MutateChunk \/ Shuffle \/ DeleteChunk
  \/ InsertChunk \/ MutateHints \/ NothingToMutate

Next ==
  \/ Pick
  \/ LLVMFuzzerCustomMutator
  \/ LLVMFuzzerCustomCrossOver
  \/ \E k \in 1..2 : ReadChunk(k) \/ ReadEnd(k)
  \/ Mutate
  \/ CrossOver

Spec == Init /\ [][Next]_vars

-----------------------------------------------------------------------------
Parsers ==
  [at : Nat \ {0}, ihdr : Headers, chunks : Seq(Chunks), idat_idx : Nat, reading : BOOLEAN]

\* Types.  The corpus never holds a file beyond the limit (lines 302 and 321).
TypeOK ==
  /\ file \in Files /\ Size(file) <= MaxSize
  /\ written \in Seq(Seq(Chunks)) /\ Len(written) <= 1
  /\ job \in {"none", "Mutate", "CrossOver"}
  /\ in \in Seq(Files)
  /\ parser \in Seq(Parsers) /\ DOMAIN parser = DOMAIN in
  /\ \A k \in DOMAIN parser : parser[k].idat_idx \in 0..Len(parser[k].chunks)
  /\ handed \subseteq Nat
  /\ job = "none" <=> in = << >>

\* The raw mutator is never called on an empty buffer.  M grows an empty chunk first (lines
\* 113 and 114), but the mutation of the fUZz hints does not (line 162): it relies on every
\* fUZz chunk being created with 16 bytes and on m never returning 0, over any number of
\* mutations, cross-overs and passes through a file.
NeverHandedEmpty == 0 \notin handed

\* The chunks that are not image data, in order.
Others(chunks) ==
  FlattenSeq([i \in DOMAIN chunks |-> IF chunks[i].type = "IDAT" THEN << >> ELSE << chunks[i] >>])

\* The chunks in front of the first IEND, which ends a file wherever it stands.
Visible(chunks) ==
  SubSeq(chunks, 1, Min({i \in 1..Len(chunks) + 1 : i > Len(chunks) \/ chunks[i].type = "IEND"}) - 1)

\* What the mutator serialized it reads back: except for the image data, the chunks of a file it
\* wrote are parsed into the chunks it was written from, the iCCP profile included, which is
\* renamed and compressed on the way out (lines 89 to 96) and found behind its name and
\* uncompressed on the way in (lines 65 to 71).  Nothing is added, lost or moved.
RereadsWhatItWrote ==
  written # << >> =>
    \A k \in DOMAIN in :
      in[k] = file /\ ~ parser[k].reading =>
        Others(parser[k].chunks) = Others(Visible(written[1]))

\* The payloads of the IDAT chunks, one after the other.
ImageData(chunks) ==
  FlattenSeq([i \in DOMAIN chunks |-> IF chunks[i].type = "IDAT" THEN chunks[i].v ELSE << >>])

\* "merge the IDAT chunks into one vector" (line 32): a file that is read to its end has one
\* IDAT chunk in memory, where its first one was, holding what the concatenation of all its
\* IDAT chunks uncompresses to, wherever the others were.
MergesImageData ==
  \A k \in DOMAIN in :
    ~ parser[k].reading /\ in[k].signed /\ in[k].end # "huge" =>
      LET seen  == Visible(in[k].chunks)
          idats == {i \in DOMAIN seen : seen[i].type = "IDAT"}
          got   == parser[k].chunks
          mine  == {i \in DOMAIN got : got[i].type = "IDAT"}
      IN  /\ Cardinality(mine) = IF idats = {} THEN 0 ELSE 1
          /\ \A i \in mine : i = Min(idats) /\ got[i].v = Uncompress(ImageData(seen))

\* What a decoder makes of the image data of a file.
Image(f) == Uncompress(ImageData(Visible(f.chunks)))

\* "Write back the PNG file" (line 82): the file that is written for the parsed chunks shows
\* the image that the parsed file shows, as long as nothing has touched the chunks.
WritesBackTheImage ==
  \A k \in DOMAIN in :
    ~ parser[k].reading /\ in[k].signed =>
      Image(Serialize(parser[k].ihdr, parser[k].chunks)) = Image(in[k])

=============================================================================
