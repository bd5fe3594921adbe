------------------------------ MODULE MCPager ------------------------------
(* Instances of Pager: two connections, each in a process of its own, or both in one. *)
EXTENDS Pager, TLC

CONSTANTS conn1, conn2, proc1, proc2

MCOwner == [c \in Conns |-> IF c = conn1 THEN proc1 ELSE proc2]

MCSizes == [persist |-> {2}, delete |-> {1}, truncate |-> {1}]
MCTxns == [persist |-> 2, delete |-> 2, truncate |-> 1]
MCTroubles == [persist |-> 1, delete |-> 1, truncate |-> 2]

MCSameOwner == [c \in Conns |-> proc1]

Interchangeable == Permutations(Conns)
=============================================================================
