----------------------------- MODULE MCTargets -----------------------------
(***************************************************************************)
(* Every target that has a module: a fuzzing process executes one of them,  *)
(* those of libssh execute theirs side by side.                             *)
(***************************************************************************)
EXTENDS PngTarget, SshTarget, Targets, Bignum

VARIABLE executable  \* which target is linked into the executable

targetsVars == << executable, vars, sshVars, libVars >>

TargetsInit ==
  /\ executable \in {"libpng", "libssh"} \union Benchmarks
  /\ Init /\ SshInit /\ LibInit
  /\ target = IF executable \in Benchmarks THEN executable ELSE CHOOSE t \in Benchmarks : TRUE

TargetsNext ==
  \/ executable = "libpng" /\ Next /\ UNCHANGED << executable, sshVars, libVars >>
  \/ executable = "libssh" /\ SshNext /\ UNCHANGED << executable, vars, libVars >>
  \/ executable \in Benchmarks /\ LibNext /\ UNCHANGED << executable, vars, sshVars >>

TargetsSpec == TargetsInit /\ [][TargetsNext]_targetsVars /\ Fairness

-----------------------------------------------------------------------------

\* Bytes at which the number of digits or the padding changes.
Edges == {0, 1, 15, 16, 127, 128, 255}

\* Numbers of up to three bytes, zero among them.
MCSamples ==
  {<< >>} \union {<< x >> : x \in 1..255}
    \union UNION {{<< x, y >>, << x, y, z >>} : x \in Edges \ {0}, y, z \in Edges}

MCLengths == 5..20

BignumCalled == executable = "openssl102d" /\ line = 1

\* The assertion on line 145 compares the texts of two libraries: whatever the number a call
\* computes, they are equal when the numbers are.
PrintsAlike == BignumCalled => \A v \in Samples : gcrytostring(v) = BN_bn2hex(v)

\* Whatever the length of the input and its first two bytes, the three numbers lie side by side
\* and fill the rest of it.
SlicesTile == BignumCalled => \A len \in Lengths : \A d1, d2 \in Byte : Tile(len, d1, d2)
=============================================================================
