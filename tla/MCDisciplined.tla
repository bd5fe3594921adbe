--------------------------- MODULE MCDisciplined ---------------------------
(* Instances of Benchmark and Disciplined with the scripts of the repository. *)
EXTENDS Disciplined, Scripts

\* Every benchmark with the default engine, and four with an archive: one that checks whether
\* it was built and hands it to make, one that does not check and links it, and two more that
\* are linked from objects.
MCBenchmarks ==
  (AllDirectories \X {"fsanitize_fuzzer"})
    \union ({"libssh", "openssl-1.1.0c", "sqlite", "wpantund"} \X {"archive"})

Heartbleed == {<< "openssl-1.0.1f", "fsanitize_fuzzer" >>}

\* (TLC evaluates the scripts once when the definitions that a .cfg names refer to others.)
BuildScripts == [b \in Benchmarks |-> BuildOf(b)]
TestScripts  == [b \in Benchmarks |-> TestOf(b)]

MCBuildScript == BuildScripts
MCTestScript  == TestScripts
MCExecutables == [b \in Benchmarks |-> ExecutablesOf(b)]

\* The benchmarks that do not follow the discipline: a command after the link decides the
\* exit status (libpng, openssl-1.0.1f, openssl-1.1.0c, openthread), or what a failed command
\* should have replaced is linked again (sqlite, vorbis).
Unreliable ==
  {"libpng", "openssl-1.0.1f", "openssl-1.1.0c", "openthread", "sqlite", "vorbis"}

\* Every test that there is makes the logs it greps.
ASSUME OwnLogBenchmarks == LogKeepers = Benchmarks

\* Every build.sh makes or fetches all it reads.
ASSUME BuildableBenchmarks == Buildable = Benchmarks

\* An archive that an earlier invocation has left is linked again when its build fails.
ASSUME ReliableBenchmarks ==
  Reliable = {b \in Benchmarks : b[2] = "fsanitize_fuzzer" /\ b[1] \notin Unreliable}
=============================================================================
