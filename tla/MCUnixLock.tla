----------------------------- MODULE MCUnixLock -----------------------------
(* An instance of UnixLock: a process with two files and one with one file. *)
EXTENDS UnixLock

CONSTANTS file1, file2, file3, proc1, proc2

MCOwner == [f \in Files |-> IF f = file3 THEN proc2 ELSE proc1]
=============================================================================
