------------------------------- MODULE MCWal -------------------------------
(* Instances of Wal. *)
EXTENDS Wal

CONSTANTS conn1, conn2, page1, page2

Interchangeable == Permutations(Pages) \union Permutations(Conns)
=============================================================================
