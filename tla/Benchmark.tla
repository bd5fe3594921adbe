----------------------------- MODULE Benchmark -----------------------------
(***************************************************************************)
(* One run directory (RUNDIR-<benchmark>) of the suite across successive    *)
(* invocations of build-and-test.sh, of build.sh alone or of                *)
(* test-libfuzzer.sh alone.  bash executes the steps of a script in order,  *)
(* without set -e: a command that fails only sets the exit status, unless   *)
(* `|| exit 1' or `&&' looks at it, and the exit status of a script is that *)
(* of its last command.  Every command may fail and the whole invocation    *)
(* may be killed; the directory keeps whatever was there.                   *)
(***************************************************************************)
EXTENDS Naturals, Sequences

CONSTANTS
  Benchmarks,    \* the benchmarks whose run directory is considered
  BuildScript,   \* [Benchmarks -> sequence of steps]: build.sh
  TestScript,    \* [Benchmarks -> sequence of steps]: test-libfuzzer.sh, <<>> if there is none
  Executables,   \* [Benchmarks -> set of paths build.sh promises]
  Paths,         \* the paths the scripts use
  Artifacts,     \* the paths an invocation makes again each time, the logs included
  Faults,        \* the operations that may fail, and "kill" if an invocation may be killed
  MaxRuns        \* bound: invocations per behaviour

Steps ==
  [op : STRING, src : SUBSET Paths, dst : Paths \union {""}, cond : {"always", "ok"},
   strict : BOOLEAN, skip : Nat]

ASSUME ScriptsAssumption ==
  /\ BuildScript \in [Benchmarks -> Seq(Steps)]
  /\ TestScript \in [Benchmarks -> Seq(Steps)]
  /\ Executables \in [Benchmarks -> SUBSET Paths]
  /\ Artifacts \subseteq Paths
  /\ MaxRuns \in Nat

\* Operations that write Step.dst.
Writers ==
  {"clone", "clone-n", "reset", "svn", "wget", "tar", "copy", "fill", "mkdir", "engine",
   "make", "cc", "link", "cp", "jobs", "fuzz", "redirect"}

ASSUME WritersAssumption ==
  \A b \in Benchmarks :
    /\ \A i \in DOMAIN BuildScript[b] : BuildScript[b][i].op \in Writers => BuildScript[b][i].dst \in Paths
    /\ \A i \in DOMAIN TestScript[b] : TestScript[b][i].op \in Writers => TestScript[b][i].dst \in Paths

VARIABLES
  bench,     \* $1
  mode,      \* "both": build-and-test.sh, "build" or "test": one script by hand
  fs,        \* the run directory: path -> file
  phase,     \* the script that runs, or "idle"
  pc,        \* the next step of that script
  status,    \* $? = 0
  run,       \* number of the current invocation
  clean,     \* no fault has hit the current invocation
  evidence,  \* the log files in which a grep of this invocation found its pattern
  verdict    \* how the last invocation ended

vars == << bench, mode, fs, phase, pc, status, run, clean, evidence, verdict >>

-----------------------------------------------------------------------------
(* Files.  rev is the revision of the sources a file stems from: "pinned"   *)
(* for the one the script names, "tip" for whatever the repository's head   *)
(* is; "partial" when some of it is missing.  run is the invocation that    *)
(* wrote an artifact or log, from is run when all the artifacts it was made *)
(* from stem from that invocation too and 0 when they do not.  hit says     *)
(* that a log holds the line its test greps for.                            *)

Revs == {"none", "empty", "partial", "tip", "pinned"}

File == [rev : Revs, run : Nat, from : Nat, hit : BOOLEAN]

Fetched(rev) == [rev |-> rev, run |-> 0, from |-> 0, hit |-> FALSE]

NoFile == Fetched("none")

\* What a killed command leaves of the file it was writing.
Cut == [rev |-> "partial", run |-> run, from |-> run, hit |-> FALSE]

Exists(p) == fs[p].rev # "none"

Usable(S) == \A p \in S : fs[p].rev \notin {"none", "empty"}

Worst(S) ==
  IF \E p \in S : fs[p].rev = "partial" THEN "partial"
  ELSE IF \E p \in S : fs[p].rev = "tip" THEN "tip" ELSE "pinned"

Oldest(S) == IF \A p \in S \intersect Artifacts : fs[p].from = run THEN run ELSE 0

Made(S, hit) == [rev |-> Worst(S), run |-> run, from |-> Oldest(S), hit |-> hit]

-----------------------------------------------------------------------------
(* The shell.                                                              *)

Script == IF phase = "build" THEN BuildScript[bench] ELSE TestScript[bench]

Running == phase # "idle" /\ pc \in 1..Len(Script)

Step == Script[pc]

Due == Step.cond = "always" \/ status

At(op) == Running /\ Due /\ Step.op = op

\* Mutant: || exit 0.
Done_zero(ok) ==
  /\ status' = (ok \/ Step.strict)
  /\ pc' = IF Step.strict /\ ~ok THEN Len(Script) + 1 ELSE pc + 1

Done(ok) ==
  /\ status' = ok
  /\ pc' = IF Step.strict /\ ~ok THEN Len(Script) + 1 ELSE pc + 1

Put(f) == fs' = [fs EXCEPT ![Step.dst] = f]

\* The command failed although it could have succeeded.
Fault == Step.op \in Faults /\ clean' = FALSE

Sound == clean' = clean

Untouched == UNCHANGED << bench, mode, phase, run, verdict >>

Init ==
  /\ bench \in Benchmarks
  /\ mode = "both"
  /\ fs = [p \in Paths |-> NoFile]
  /\ phase = "idle"
  /\ pc = 1
  /\ status = TRUE
  /\ run = 0
  /\ clean = TRUE
  /\ evidence = {}
  /\ verdict = "none"

\* Mutant: no test for the two scripts.
Start_unchecked(m) ==
  /\ phase = "idle"
  /\ run < MaxRuns
  /\ mode' = m
  /\ phase' = IF m = "test" THEN "test" ELSE "build"
  /\ pc' = 1
  /\ status' = TRUE
  /\ run' = run + 1
  /\ clean' = TRUE
  /\ evidence' = {}
  /\ verdict' = "none"
  /\ UNCHANGED << bench, fs >>

\* build-and-test.sh refuses a benchmark that lacks one of the two scripts.
Start(m) ==
  /\ phase = "idle"
  /\ run < MaxRuns
  /\ m # "test" => BuildScript[bench] # << >>
  /\ m # "build" => TestScript[bench] # << >>
  /\ mode' = m
  /\ phase' = IF m = "test" THEN "test" ELSE "build"
  /\ pc' = 1
  /\ status' = TRUE
  /\ run' = run + 1
  /\ clean' = TRUE
  /\ evidence' = {}
  /\ verdict' = "none"
  /\ UNCHANGED << bench, fs >>

\* cmd1 && cmd2 after cmd1 failed: the status stays that of cmd1.
SkipAnd ==
  /\ Running
  /\ ~Due
  /\ pc' = pc + 1
  /\ UNCHANGED << bench, mode, fs, phase, status, run, clean, evidence, verdict >>

\* Mutant: [ -e D ] && ...
Test_inverted ==
  /\ Running
  /\ Due
  /\ Step.op \in {"unless", "if"}
  /\ IF ~Exists(Step.dst)
     THEN pc' = pc + 1 + Step.skip /\ status' = (Step.op = "if")
     ELSE pc' = pc + 1 /\ status' = TRUE
  /\ UNCHANGED << fs, clean, evidence >>
  /\ Untouched

\* [ ! -e D ] && ..., and if [[ ! -d D ]]
Test ==
  /\ Running
  /\ Due
  /\ Step.op \in {"unless", "if"}
  /\ IF Exists(Step.dst)
     THEN pc' = pc + 1 + Step.skip /\ status' = (Step.op = "if")
     ELSE pc' = pc + 1 /\ status' = TRUE
  /\ UNCHANGED << fs, clean, evidence >>
  /\ Untouched

\* git clone: refuses a directory that is there, and removes what it made when it fails.
Clone ==
  /\ At("clone") \/ At("clone-n")
  /\ \/ /\ ~Exists(Step.dst)
        /\ Put(Fetched(IF Step.op = "clone" THEN "tip" ELSE "empty"))
        /\ Done(TRUE)
        /\ Sound
     \/ Exists(Step.dst) /\ UNCHANGED fs /\ Done(FALSE) /\ Sound
     \/ UNCHANGED fs /\ Done(FALSE) /\ Fault
  /\ UNCHANGED evidence
  /\ Untouched

\* (cd D && git reset --hard REV), or git checkout.
Reset ==
  /\ At("reset")
  /\ \/ /\ Exists(Step.dst)
        /\ Put(Fetched("pinned"))
        /\ Done(TRUE)
        /\ Sound
     \/ fs[Step.dst].rev \in {"none", "partial"} /\ UNCHANGED fs /\ Done(FALSE) /\ Sound
     \/ UNCHANGED fs /\ Done(FALSE) /\ Fault
  /\ UNCHANGED evidence
  /\ Untouched

\* svn co, wget and tar may leave part of what they write when they fail.
Download ==
  /\ At("svn") \/ At("wget") \/ At("tar")
  /\ \/ /\ Usable(Step.src)
        /\ Put(Fetched(Worst(Step.src)))
        /\ Done(TRUE)
        /\ Sound
     \/ ~Usable(Step.src) /\ UNCHANGED fs /\ Done(FALSE) /\ Sound
     \/ /\ \E f \in {fs[Step.dst], Fetched("partial")} : Put(f)
        /\ Done(FALSE)
        /\ Fault
  /\ UNCHANGED evidence
  /\ Untouched

\* rm -rf succeeds whether or not the files are there.
Remove ==
  /\ At("remove")
  /\ fs' = [p \in Paths |-> IF p \in Step.src THEN NoFile ELSE fs[p]]
  /\ Done(TRUE)
  /\ Sound
  /\ UNCHANGED evidence
  /\ Untouched

\* mkdir fails when the directory is there.
Mkdir ==
  /\ At("mkdir")
  /\ IF Exists(Step.dst)
     THEN UNCHANGED fs /\ Done(FALSE)
     ELSE Put(Fetched("empty")) /\ Done(TRUE)
  /\ Sound
  /\ UNCHANGED evidence
  /\ Untouched

\* cp -r A B ("copy") and cp A/* B/ ("fill", which needs B).
Copy ==
  /\ At("copy") \/ At("fill")
  /\ LET possible == /\ Usable(Step.src)
                     /\ Step.op = "fill" => Exists(Step.dst)
     IN  \/ possible /\ Put(Made(Step.src, FALSE)) /\ Done(TRUE) /\ Sound
         \/ ~possible /\ UNCHANGED fs /\ Done(FALSE) /\ Sound
         \/ /\ possible
            /\ \E f \in {fs[Step.dst], Cut} : Put(f)
            /\ Done(FALSE)
            /\ Fault
  /\ UNCHANGED evidence
  /\ Untouched

\* configure && make, a compilation, a link: sources that are only partly there may suffice.
\* build_afl and build_coverage end with rm *.o, so that a failed ar may go unnoticed.
Derive ==
  /\ At("engine") \/ At("make") \/ At("cc") \/ At("link") \/ At("cp")
  /\ \/ Usable(Step.src) /\ Put(Made(Step.src, FALSE)) /\ Done(TRUE) /\ Sound
     \/ /\ \E p \in Step.src : fs[p].rev \in {"none", "empty", "partial"}
        /\ \E f \in {fs[Step.dst], NoFile} : Put(f)
        /\ Done(FALSE)
        /\ Sound
     \/ /\ \E f \in {fs[Step.dst], NoFile} : Put(f)
        /\ Done(FALSE) \/ (Step.op = "engine" /\ Done(TRUE))
        /\ Fault
  /\ UNCHANGED evidence
  /\ Untouched

\* cmd & ... ; wait: the status of a background compilation is lost.
Jobs ==
  /\ At("jobs")
  /\ \/ Usable(Step.src) /\ Put(Made(Step.src, FALSE)) /\ Sound
     \/ /\ \E p \in Step.src : fs[p].rev \in {"none", "empty", "partial"}
        /\ UNCHANGED fs
        /\ Sound
     \/ UNCHANGED fs /\ Fault
  /\ Done(TRUE)
  /\ UNCHANGED evidence
  /\ Untouched

\* [ -e exe ] && ./exe ...: with -jobs the fuzzer makes the log, with tee or > the shell does.
Fuzz ==
  /\ At("fuzz") \/ At("redirect")
  /\ \/ "exe" \in Step.src /\ ~Exists("exe") /\ UNCHANGED fs /\ Done(FALSE) /\ Sound
     \/ /\ "exe" \in Step.src => Exists("exe")
        /\ \E hit \in BOOLEAN :
             /\ hit => \A p \in Step.src : Exists(p)
             /\ Put(Made(Step.src, hit))
        /\ \E ok \in BOOLEAN : Done(ok)
        /\ Sound
     \/ /\ "exe" \in Step.src => Exists("exe")
        /\ IF Step.op = "fuzz" THEN UNCHANGED fs ELSE Put(Made(Step.src, FALSE))
        /\ Done(FALSE)
        /\ Fault
  /\ UNCHANGED evidence
  /\ Untouched

Grep ==
  /\ At("grep")
  /\ LET logs == {fs[p] : p \in {q \in Step.src : Exists(q) /\ fs[q].hit}}
     IN  Done(logs # {}) /\ evidence' = evidence \union logs
  /\ Sound
  /\ UNCHANGED fs
  /\ Untouched

\* Mutant: $BUILD ; $TEST
EndBuild_regardless ==
  /\ phase = "build"
  /\ pc > Len(Script)
  /\ IF mode = "both"
     THEN phase' = "test" /\ pc' = 1 /\ UNCHANGED verdict
     ELSE /\ phase' = "idle"
          /\ verdict' = IF status THEN "built" ELSE "failed"
          /\ UNCHANGED pc
  /\ UNCHANGED << bench, mode, fs, status, run, clean, evidence >>

\* $BUILD && $TEST
EndBuild ==
  /\ phase = "build"
  /\ pc > Len(Script)
  /\ IF mode = "both" /\ status
     THEN phase' = "test" /\ pc' = 1 /\ UNCHANGED verdict
     ELSE /\ phase' = "idle"
          /\ verdict' = IF status THEN "built" ELSE "failed"
          /\ UNCHANGED pc
  /\ UNCHANGED << bench, mode, fs, status, run, clean, evidence >>

EndTest ==
  /\ phase = "test"
  /\ pc > Len(Script)
  /\ phase' = "idle"
  /\ verdict' = IF status THEN "pass" ELSE "fail"
  /\ UNCHANGED << bench, mode, fs, pc, status, run, clean, evidence >>

\* Ctrl-C, a reboot: the step under way may have written part of its file.
Kill ==
  /\ "kill" \in Faults
  /\ phase # "idle"
  /\ phase' = "idle"
  /\ verdict' = "killed"
  /\ clean' = FALSE
  /\ \/ UNCHANGED fs
     \/ Running /\ Due /\ Step.op \in Writers /\ Put(Cut)
     \/ /\ Running /\ Due /\ Step.op = "remove"
        /\ fs' = [p \in Paths |-> IF p \in Step.src /\ Exists(p) THEN Cut ELSE fs[p]]
  /\ UNCHANGED << bench, mode, pc, status, run, evidence >>

Next ==
  \/ \E m \in {"both", "build", "test"} : Start(m)
  \/ SkipAnd \/ Test
  \/ Clone \/ Reset \/ Download \/ Remove \/ Mkdir \/ Copy
  \/ Derive \/ Jobs \/ Fuzz \/ Grep
  \/ EndBuild \/ EndTest \/ Kill

Spec == Init /\ [][Next]_vars

-----------------------------------------------------------------------------
(* Properties.                                                             *)

\* Every variable stays in its range, and only a script that exists is run: a benchmark without
\* a test-libfuzzer.sh is not even built by build-and-test.sh (lines 8 and 9).
TypeOK ==
  /\ bench \in Benchmarks
  /\ mode \in {"both", "build", "test"}
  /\ phase = "build" => mode # "test" /\ BuildScript[bench] # << >>
  /\ phase = "test" => mode # "build"
  /\ phase # "idle" /\ mode # "build" => TestScript[bench] # << >>
  /\ fs \in [Paths -> File]
  /\ phase \in {"idle", "build", "test"}
  /\ pc \in Nat \ {0}
  /\ status \in BOOLEAN
  /\ run \in 0..MaxRuns
  /\ clean \in BOOLEAN
  /\ evidence \subseteq File
  /\ verdict \in {"none", "built", "failed", "pass", "fail", "killed"}

\* The build script of this invocation has exited 0.
Built == verdict = "built" \/ (mode = "both" /\ (phase = "test" \/ verdict \in {"pass", "fail"}))

\* build.sh exits 0 only when this very invocation linked every executable, from libraries,
\* objects and an engine that it also made itself: the failure of the link is not masked by
\* a later command, and nothing left over from an earlier invocation is linked in.  That the
\* copy of the sources was complete is not said, only that it is new.  (Module Disciplined
\* says of which scripts this holds.)
ExitZeroMeansBuilt ==
  Built => \A x \in Executables[bench] : fs[x].run = run /\ fs[x].from = run

\* build-and-test.sh says PASS (exit 0) only on the strength of logs this invocation's
\* fuzzer wrote, running an executable this invocation built.
PassIsOwnBuild ==
  verdict = "pass" /\ mode = "both" =>
    /\ evidence # {}
    /\ \A log \in evidence : log.run = run /\ log.from = run

\* The test script removes every log it greps before it greps it.
RemovesLogs ==
  \A i \in DOMAIN TestScript[bench] :
    TestScript[bench][i].op = "grep" =>
      \A log \in TestScript[bench][i].src :
        \E j \in 1..(i - 1) :
          TestScript[bench][j].op = "remove" /\ log \in TestScript[bench][j].src

\* However test-libfuzzer.sh is started, it passes only on a log of this invocation: when
\* there is an executable to run, or when it removes the old logs itself.
PassIsOwnLog ==
  verdict = "pass" /\ (Exists("exe") \/ RemovesLogs) =>
    /\ evidence # {}
    /\ \A log \in evidence : log.run = run

\* What build.sh reads of what it fetched, in this invocation or an earlier one, is complete
\* and at the revision it names.
SourcesSound ==
  \A i \in DOMAIN BuildScript[bench] :
    \A p \in BuildScript[bench][i].src \ Artifacts : fs[p].rev \in {"none", "pinned"}

\* p was made in this invocation, of nothing older, from sources at the revision that the
\* script names.
Supplied(p) == fs[p].rev = "pinned" /\ fs[p].run = run /\ fs[p].from = run

\* An invocation that meets no fault and has sound sources succeeds in building, from the
\* pinned revision, and links in none of what failed or killed invocations left behind: no
\* object, library or engine that should have been made again.
CleanRunBuilds ==
  clean /\ SourcesSound =>
    /\ verdict # "failed"
    /\ Built => \A x \in Executables[bench] : Supplied(x)
=============================================================================
