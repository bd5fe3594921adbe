---------------------------- MODULE MCPngMutator ----------------------------
(* A small corpus: an image in two IDAT chunks around another chunk, one   *)
(* with a colour profile, files that end early, and one that is no PNG.     *)
EXTENDS PngMutator

Chunk(t, bytes) == [type |-> t, v |-> bytes]
Png(chunks, end) == [signed |-> TRUE, ihdr |-> "random", chunks |-> chunks, end |-> end]

Split     == Png(<< Chunk("IDAT", << 1 >>), Chunk("other", << >>), Chunk("IDAT", << 0 >>) >>, "IEND")
Profile   == Png(<< Chunk("iCCP", << NAME, NUL, NUL, 1, 0 >>) >>, "eof")
Unnamed   == Png(<< Chunk("iCCP", << 1, 0 >>), Chunk("fUZz", << 0 >>) >>, "cut")
Oversized == Png(<< Chunk("IDAT", << 2, 0, 0 >>) >>, "huge")
NoPng     == [signed |-> FALSE, ihdr |-> "zeros", chunks |-> << >>, end |-> "cut"]

MCSeeds == {Split, Profile, Unnamed, Oversized, NoPng}
WholeImage == {Split}
=============================================================================
