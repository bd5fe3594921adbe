---------------------------- MODULE Disciplined ----------------------------
(***************************************************************************)
(* What a benchmark's two scripts must be like for an exit status of 0 to   *)
(* mean something.  18 of the repository's 24 benchmarks follow this        *)
(* discipline with the default engine, and none with an engine that is an   *)
(* archive (module MCDisciplined lists them); module BenchmarkProofs        *)
(* proves what it buys, for every pair of scripts that do.                  *)
(***************************************************************************)
EXTENDS Benchmark

Fetchers == {"clone", "clone-n", "reset", "svn", "wget", "tar", "mkdir"}

Makers == {"make", "cc", "link", "cp"}

Tests == {"unless", "if"}

\* Step n is not inside a block that an earlier test may skip, nor after &&.
Unconditional(script, n) ==
  /\ script[n].cond = "always"
  /\ \A i \in 1..(n - 1) : script[i].op \in Tests => i + 1 + script[i].skip <= n

\* Some unconditional step before n removes p, or has the shell truncate it.
Renewed(script, n, p) ==
  \E i \in 1..(n - 1) :
    /\ i <= Len(script)
    /\ Unconditional(script, i)
    /\ \/ script[i].op = "remove" /\ p \in script[i].src
       \/ script[i].op = "redirect" /\ p = script[i].dst

\* No step fetches an artifact, and one that reads an artifact other than those given
\* finds it renewed.
ReadsRenewed(script, given) ==
  \A i \in 1..Len(script) :
    /\ script[i].op \in Fetchers => script[i].dst \notin Artifacts
    /\ script[i].op # "remove" =>
         \A p \in (script[i].src \intersect Artifacts) \ given : Renewed(script, i, p)

\* The exit status of the script is that of its last command, which always runs.
EndsWith(script, ops) ==
  /\ script # << >>
  /\ Unconditional(script, Len(script))
  /\ \A i \in 1..Len(script) : script[i].op \in Tests => i + 1 + script[i].skip <= Len(script)
  /\ script[Len(script)].op \in ops

DisciplinedBuild(b) ==
  /\ ReadsRenewed(BuildScript[b], {})
  /\ EndsWith(BuildScript[b], Makers)
  /\ Executables[b] = {BuildScript[b][Len(BuildScript[b])].dst}
  /\ Executables[b] \subseteq Artifacts
  /\ \A i \in 1..Len(BuildScript[b]) : BuildScript[b][i].op \notin {"fuzz", "redirect", "grep"}

\* The script renews, in a step that always runs, every log it greps, leaves the executable
\* alone, and ends with a grep.
OwnLogTest(b) ==
  /\ "exe" \in Artifacts
  /\ ReadsRenewed(TestScript[b], {"exe"})
  /\ EndsWith(TestScript[b], {"grep"})
  /\ \A i \in 1..Len(TestScript[b]) :
       /\ TestScript[b][i].op \in Writers => TestScript[b][i].dst # "exe"
       /\ TestScript[b][i].op = "remove" =>
            "exe" \notin TestScript[b][i].src /\ Unconditional(TestScript[b], i)
       /\ TestScript[b][i].op = "grep" => TestScript[b][i].src \subseteq Artifacts \ {"exe"}

DisciplinedTest(b) ==
  /\ Executables[b] = {"exe"}
  /\ OwnLogTest(b)
  /\ \A i \in 1..Len(TestScript[b]) :
       TestScript[b][i].op \in {"fuzz", "redirect"} =>
         TestScript[b][i].src \intersect Artifacts \subseteq {"exe"}

\* The benchmarks whose exit status can be relied on.
Reliable ==
  {b \in Benchmarks : DisciplinedBuild(b) /\ (TestScript[b] # << >> => DisciplinedTest(b))}

\* The benchmarks whose test passes only on logs it made: their build greps nothing, but may
\* be undisciplined otherwise.
LogKeepers ==
  {b \in Benchmarks :
     /\ TestScript[b] # << >> => OwnLogTest(b)
     /\ \A i \in 1..Len(BuildScript[b]) : BuildScript[b][i].op # "grep"}

-----------------------------------------------------------------------------
(* What a build.sh must be like to succeed on its own: every command finds  *)
(* what it reads, because an earlier command always makes it, or because it  *)
(* is fetched unless it is there.                                           *)

\* Commands that succeed when all they read is complete.
Derivers == Makers \union {"engine", "copy", "jobs"}

\* Commands whose success, or what they write, depends on what they read.
Relying == Derivers \union {"svn", "wget", "tar"}

\* Between steps i and n only these operations write p, and none removes it.
Kept(script, i, n, p, ops) ==
  \A j \in (i + 1)..(n - 1) :
    j <= Len(script) =>
      /\ script[j].op \in Writers /\ script[j].dst = p => script[j].op \in ops
      /\ script[j].op = "remove" => p \notin script[j].src

\* Step n finds p made from what the steps before it have read.
Provided(script, n, p) ==
  \E i \in 1..(n - 1) :
    /\ i <= Len(script) /\ Unconditional(script, i)
    /\ script[i].op \in Derivers /\ script[i].dst = p
    /\ Kept(script, i, n, p, Derivers)

\* Step n finds p, which an earlier invocation has fetched or this one has.
Obtained(script, n, p) ==
  \E i \in 1..(n - 2) :
    /\ i < Len(script) /\ Unconditional(script, i) /\ script[i].op \in Tests /\ script[i].dst = p
    /\ script[i + 1].op \in {"clone", "clone-n", "svn", "wget", "tar"}
    /\ script[i + 1].dst = p /\ script[i + 1].cond = "always"
    /\ Kept(script, i, n, p, Fetchers)

\* What the commands before step n of the script rely on and no invocation makes again.
Sources(script, n) ==
  {p \in Paths \ Artifacts :
     \E i \in 1..(n - 1) : i <= Len(script) /\ script[i].op \in Relying /\ p \in script[i].src}

\* Step n comes after a test that passes over it when p is there.
Guarded(script, n, p) ==
  \E k \in 1..(n - 1) :
    /\ n <= Len(script) /\ Unconditional(script, k)
    /\ script[k].op \in Tests /\ script[k].dst = p /\ n <= k + script[k].skip

\* Nothing changes a source once it has been read.
SourcesStay(script) ==
  \A i \in 1..Len(script) : \A p \in Sources(script, i + 1) :
    /\ script[i].op \in Writers => script[i].dst # p
    /\ script[i].op = "remove" => p \notin script[i].src

SelfSufficient(b) ==
  LET script == BuildScript[b] IN
  /\ EndsWith(script, Derivers)
  /\ SourcesStay(script)
  /\ \A i \in 1..Len(script) :
       /\ script[i].strict => script[i].op \in Derivers
       /\ script[i].op \in Relying =>
            \A p \in script[i].src :
              Provided(script, i, p) \/ (p \notin Artifacts /\ Obtained(script, i, p))
  /\ \A x \in Executables[b] : Provided(script, Len(script) + 1, x)

\* The test leaves alone what build.sh promises, and what it read unless it is missing.
HarmlessTest(b) ==
  LET script == TestScript[b]
      sources == Sources(BuildScript[b], Len(BuildScript[b]) + 1)
  IN  \A i \in 1..Len(script) :
        /\ script[i].op \in Writers =>
             /\ script[i].dst \notin Executables[b]
             /\ script[i].dst \in sources => Guarded(script, i, script[i].dst)
        /\ script[i].op = "remove" => script[i].src \intersect (Executables[b] \union sources) = {}

\* The benchmarks that a clean invocation builds.
Buildable == {b \in Benchmarks : SelfSufficient(b) /\ HarmlessTest(b)}

-----------------------------------------------------------------------------
(* The inductive invariant.                                                *)

\* p is of this invocation, or not there at all.
Fresh(p) == Exists(p) => fs[p].run = run /\ fs[p].from = run

\* Every promised executable is there, and of this invocation.
Linked ==
  \A x \in Executables[bench] : Exists(x) /\ fs[x].run = run /\ fs[x].from = run

\* While a script runs, what its steps have renewed so far is fresh.
RenewedIsFresh ==
  pc <= Len(Script) => \A p \in Artifacts : Renewed(Script, pc, p) => Fresh(p)

Own(logs) == \A log \in logs : log.run = run /\ log.from = run

PhaseInv ==
  /\ phase # "idle" => verdict = "none"
  /\ phase = "build" => evidence = {}

BuildInv ==
  phase = "build" =>
    /\ RenewedIsFresh
    /\ pc > Len(Script) /\ status => Linked

TestInv ==
  phase = "test" /\ mode = "both" =>
    /\ Linked
    /\ RenewedIsFresh
    /\ Own(evidence)
    /\ pc > Len(Script) /\ status => evidence # {}

EndInv ==
  /\ verdict = "built" \/ (mode = "both" /\ verdict \in {"pass", "fail"}) => Linked
  /\ verdict = "pass" /\ mode = "both" => evidence # {} /\ Own(evidence)

\* The inductive invariant behind the first two properties below.
Inv == TypeOK /\ bench \in Reliable /\ PhaseInv /\ BuildInv /\ TestInv /\ EndInv

\* Some step before n that always runs removes p.
Removed(script, n, p) ==
  \E i \in 1..(n - 1) :
    /\ i <= Len(script)
    /\ Unconditional(script, i)
    /\ script[i].op = "remove" /\ p \in script[i].src

\* p is a file of this invocation, whatever it was made from, or not there at all.
Recent(p) == Exists(p) => fs[p].run = run

\* What the test has removed is recent, and with an executable to run so is what its shell
\* has truncated: the command is not run without one.
LogsRecent ==
  pc <= Len(Script) =>
    \A p \in Artifacts \ {"exe"} :
      Removed(Script, pc, p) \/ (Exists("exe") /\ Renewed(Script, pc, p)) => Recent(p)

\* What has been found so far was found in logs of this invocation.
OwnEvidence ==
  Exists("exe") \/ RemovesLogs => \A log \in evidence : log.run = run

LogInv ==
  /\ TypeOK
  /\ phase # "idle" => verdict = "none"
  /\ phase = "build" => evidence = {}
  /\ phase = "test" => LogsRecent /\ OwnEvidence /\ (pc > Len(Script) /\ status => evidence # {})
  /\ verdict = "pass" => evidence # {} /\ OwnEvidence

\* What the commands so far have read of what was fetched is complete and pinned.
Trusted == \A p \in Sources(BuildScript[bench], pc) : fs[p].rev \in {"none", "pinned"}

Pinned(p) == fs[p].rev = "pinned"

\* While nothing fails and what was read is sound, what the steps so far provide is pinned and
\* new, what they fetch is there, and a script that has ended has succeeded.
Supplies ==
  /\ pc <= Len(Script) + 1
  /\ \A p \in Paths : Provided(Script, pc, p) => Supplied(p)
  /\ \A p \in Paths : Obtained(Script, pc, p) => Exists(p)
  /\ pc > Len(Script) => status

\* A source that was not sound is still there: the test does not fetch it again.
Spoiled ==
  \E p \in Sources(BuildScript[bench], Len(BuildScript[bench]) + 1) :
    fs[p].rev \notin {"none", "pinned"} /\ (phase = "test" => ~Guarded(Script, pc, p))

CleanInv ==
  /\ TypeOK
  /\ bench \in Buildable
  /\ phase # "idle" => verdict = "none"
  /\ phase = "build" /\ clean /\ Trusted => Supplies
  /\ phase = "test" /\ mode = "both" /\ clean =>
       (\A x \in Executables[bench] : Supplied(x)) \/ Spoiled
  /\ CleanRunBuilds

-----------------------------------------------------------------------------
(* Properties.                                                             *)

\* The exit status 0 of a reliable build.sh means that this very invocation linked the
\* executable, from a library, objects and an engine that it also made itself.
ReliableBuild == bench \in Reliable => ExitZeroMeansBuilt

\* The exit status 0 of build-and-test.sh for a reliable benchmark rests on logs that this
\* invocation's fuzzer wrote, running the executable this invocation built.
ReliablePass == bench \in Reliable => PassIsOwnBuild

\* What the scripts of a reliable benchmark, and of one that keeps its logs, maintain at every
\* step, whatever has failed.
DisciplineInv ==
  /\ bench \in Reliable => Inv
  /\ bench \in LogKeepers => LogInv
  /\ bench \in Buildable => CleanInv
=============================================================================
