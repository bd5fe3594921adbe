-------------------------- MODULE BenchmarkProofs --------------------------
(***************************************************************************)
(* What the steps of module Benchmark guarantee for every set of scripts,   *)
(* and what the discipline of module Disciplined adds.                      *)
(***************************************************************************)
EXTENDS Disciplined, TLAPS

\* The actions that execute one step of a script.
Exec ==
  \/ SkipAnd \/ Test
  \/ Clone \/ Reset \/ Download \/ Remove \/ Mkdir \/ Copy
  \/ Derive \/ Jobs \/ Fuzz \/ Grep

-----------------------------------------------------------------------------
(* Types.                                                                  *)

\* A script is a sequence of steps.
LEMMA ScriptType == TypeOK => Script \in Seq(Steps)
  BY ScriptsAssumption DEF TypeOK, Script

\* The step under way is a step of a script of the benchmark, and a writer has a path to write.
LEMMA StepType ==
  ASSUME TypeOK, Running
  PROVE  /\ Step \in Steps
         /\ pc \in 1..Len(Script)
         /\ Len(Script) \in Nat
         /\ Step.op \in Writers => Step.dst \in Paths
<1>1. Script \in Seq(Steps)
  BY ScriptType
<1>2. pc \in 1..Len(Script) /\ Len(Script) \in Nat /\ pc \in DOMAIN Script
  BY <1>1 DEF Running
<1>3. Step \in Steps
  BY <1>1, <1>2 DEF Step
<1>4. Step.op \in Writers => Step.dst \in Paths
  BY <1>2, WritersAssumption DEF Step, Script, TypeOK
<1> QED
  BY <1>2, <1>3, <1>4

\* What the commands write is a file.
LEMMA FileType ==
  ASSUME TypeOK, NEW S, NEW hit \in BOOLEAN, NEW rev \in Revs
  PROVE  /\ Made(S, hit) \in File
         /\ Fetched(rev) \in File
         /\ NoFile \in File
         /\ Cut \in File
         /\ Worst(S) \in Revs
<1>1. Worst(S) \in {"partial", "tip", "pinned"}
  BY DEF Worst
<1>2. run \in Nat /\ Oldest(S) \in Nat
  BY ScriptsAssumption DEF TypeOK, Oldest
<1> QED
  BY <1>1, <1>2 DEF Made, Fetched, NoFile, Cut, File, Revs

\* Writing a file at the step's path keeps the type of the directory.
LEMMA PutType ==
  ASSUME TypeOK, NEW f \in File, Put(f)
  PROVE  fs' \in [Paths -> File]
  BY DEF TypeOK, Put

\* Every step advances the program counter within the positive numbers.
LEMMA DoneType ==
  ASSUME TypeOK, Running, NEW ok \in BOOLEAN, Done(ok)
  PROVE  pc' \in Nat \ {0} /\ status' \in BOOLEAN
  BY StepType DEF Done

\* Each command leaves a directory of files behind.
LEMMA ExecType ==
  ASSUME TypeOK, Exec
  PROVE  /\ fs' \in [Paths -> File]
         /\ pc' \in Nat \ {0} /\ status' \in BOOLEAN
         /\ clean' \in BOOLEAN
         /\ evidence' \subseteq File
         /\ Untouched
<1> USE DEF Sound, Fault, Untouched
<1>0. Running /\ fs \in [Paths -> File] /\ clean \in BOOLEAN /\ evidence \subseteq File
  BY DEF Exec, SkipAnd, Test, Clone, Reset, Download, Remove, Mkdir, Copy, Derive, Jobs, Fuzz,
         Grep, At, TypeOK
<1>a. Step \in Steps /\ (Step.op \in Writers => Step.dst \in Paths) /\ pc \in Nat \ {0}
  BY <1>0, StepType DEF TypeOK
<1>b. ASSUME NEW f \in File, Put(f) PROVE fs' \in [Paths -> File]
  BY <1>b, PutType
<1>c. ASSUME NEW ok \in BOOLEAN, Done(ok) PROVE pc' \in Nat \ {0} /\ status' \in BOOLEAN
  BY <1>c, <1>0, DoneType
<1>d. \A S : \A hit \in BOOLEAN : Made(S, hit) \in File
  BY FileType DEF Revs
<1>e. \A rev \in Revs : Fetched(rev) \in File
  BY FileType DEF Revs
<1>f. NoFile \in File /\ Cut \in File /\ \A S : Worst(S) \in Revs
  BY FileType DEF Revs
<1>g. Step.op \in Writers => fs[Step.dst] \in File
  BY <1>0, <1>a
<1>1. CASE SkipAnd
  BY <1>1, <1>0, <1>a DEF SkipAnd, TypeOK
<1>2. CASE Test
  <2>1. Step.skip \in Nat
    BY <1>a DEF Steps
  <2>2. pc' \in Nat \ {0}
    BY <1>2, <1>a, <2>1 DEF Test
  <2>3. status' \in BOOLEAN
    <3>1. status' = (Step.op = "if") \/ status' = TRUE
      BY <1>2 DEF Test
    <3> QED
      BY <3>1
  <2> QED
    BY <1>2, <1>0, <2>2, <2>3 DEF Test
<1>3. CASE Clone
  BY <1>3, <1>0, <1>b, <1>c, <1>e DEF Clone, Revs
<1>4. CASE Reset
  BY <1>4, <1>0, <1>b, <1>c, <1>e DEF Reset, Revs
<1>5. CASE Download
  <2>1. Step.op \in Writers
    BY <1>5 DEF Download, At, Writers
  <2> QED
    BY <1>5, <1>0, <1>b, <1>c, <1>e, <1>f, <1>g, <2>1 DEF Download, Revs
<1>6. CASE Remove
  BY <1>6, <1>0, <1>c, <1>f DEF Remove
<1>7. CASE Mkdir
  BY <1>7, <1>0, <1>b, <1>c, <1>e DEF Mkdir, Revs
<1>8. CASE Copy
  <2>1. Step.op \in Writers
    BY <1>8 DEF Copy, At, Writers
  <2> QED
    BY <1>8, <1>0, <1>b, <1>c, <1>d, <1>f, <1>g, <2>1 DEF Copy
<1>9. CASE Derive
  <2>1. Step.op \in Writers
    BY <1>9 DEF Derive, At, Writers
  <2> QED
    BY <1>9, <1>0, <1>b, <1>c, <1>d, <1>f, <1>g, <2>1 DEF Derive
<1>10. CASE Jobs
  BY <1>10, <1>0, <1>b, <1>c, <1>d DEF Jobs
<1>11. CASE Fuzz
  BY <1>11, <1>0, <1>b, <1>c, <1>d DEF Fuzz
<1>12. CASE Grep
  <2>1. Step.src \subseteq Paths
    BY <1>a DEF Steps
  <2>2. {fs[p] : p \in {q \in Step.src : Exists(q) /\ fs[q].hit}} \subseteq File
    BY <2>1, <1>0
  <2> QED
    BY <1>12, <1>0, <1>c, <2>2 DEF Grep
<1> QED
  BY <1>1, <1>2, <1>3, <1>4, <1>5, <1>6, <1>7, <1>8, <1>9, <1>10, <1>11, <1>12 DEF Exec

LEMMA TypeStep == TypeOK /\ [Next]_vars => TypeOK'
<1> SUFFICES ASSUME TypeOK, [Next]_vars PROVE TypeOK'
  OBVIOUS
<1>1. CASE Exec
  BY <1>1, ExecType DEF TypeOK, Untouched
<1>2. ASSUME NEW m \in {"both", "build", "test"}, Start(m) PROVE TypeOK'
  <2>1. run' \in 0..MaxRuns /\ run' = run + 1
    BY <1>2, ScriptsAssumption DEF TypeOK, Start
  <2>2. /\ phase' = IF m = "test" THEN "test" ELSE "build"
        /\ mode' = m /\ bench' = bench
        /\ m # "test" => BuildScript[bench] # << >>
        /\ m # "build" => TestScript[bench] # << >>
    BY <1>2 DEF Start
  <2> QED
    BY <1>2, <2>1, <2>2 DEF TypeOK, Start
<1>3. CASE EndBuild
  BY <1>3 DEF TypeOK, EndBuild
<1>4. CASE EndTest
  BY <1>4 DEF TypeOK, EndTest
<1>5. CASE Kill
  <2>1. fs' \in [Paths -> File]
    <3>1. Cut \in File /\ fs \in [Paths -> File]
      BY FileType DEF TypeOK, Revs
    <3>2. CASE Put(Cut)
      BY <3>1, <3>2, PutType
    <3> QED
      BY <1>5, <3>1, <3>2 DEF Kill
  <2> QED
    BY <1>5, <2>1 DEF TypeOK, Kill
<1>6. CASE UNCHANGED vars
  BY <1>6 DEF TypeOK, vars
<1> QED
  BY <1>1, <1>2, <1>3, <1>4, <1>5, <1>6 DEF Next, Exec

LEMMA TypeInit == Init => TypeOK
<1> SUFFICES ASSUME Init PROVE TypeOK
  OBVIOUS
<1>1. fs \in [Paths -> File]
  BY DEF Init, NoFile, Fetched, File, Revs
<1> QED
  BY <1>1, ScriptsAssumption DEF Init, TypeOK

\* Whatever the scripts are and whichever commands fail, every variable stays in its range.
THEOREM TypeCorrect == Spec => []TypeOK
  BY TypeInit, TypeStep, PTL DEF Spec

-----------------------------------------------------------------------------
(* What a step does to the artifacts.                                      *)

\* The step fetches no artifact, and those it reads are of this invocation.
SourcesFresh ==
  /\ Step.op \in Fetchers => Step.dst \notin Artifacts
  /\ Step.op # "remove" => \A p \in Step.src \intersect Artifacts : Fresh(p)
  /\ Step.op \in {"fuzz", "redirect"} => \A p \in Step.src \intersect Artifacts : Exists(p)

\* What is made from artifacts of this invocation that exist is of this invocation.
LEMMA MadeFresh ==
  ASSUME NEW S, NEW hit, \A p \in S \intersect Artifacts : Fresh(p) /\ Exists(p)
  PROVE  Made(S, hit).run = run /\ Made(S, hit).from = run /\ Made(S, hit).rev # "none"
<1>1. Oldest(S) = run
  BY DEF Oldest, Fresh
<1>2. Worst(S) # "none"
  BY DEF Worst
<1> QED
  BY <1>1, <1>2 DEF Made

\* Writing the step's path leaves every other path alone, and puts the file there.
LEMMA PutEffect ==
  ASSUME TypeOK, Step.dst \in Paths, NEW f, Put(f)
  PROVE  /\ fs'[Step.dst] = f
         /\ \A p \in Paths : p # Step.dst => fs'[p] = fs[p]
  BY DEF TypeOK, Put

\* A fresh file written at the step's path, or the file that was there, keeps artifacts fresh.
LEMMA PutFresh ==
  ASSUME TypeOK, Step.dst \in Paths, run' = run,
         NEW f, Put(f),
         Step.dst \in Artifacts =>
            (f.rev # "none" => f.run = run /\ f.from = run) \/ f = fs[Step.dst],
         NEW p \in Artifacts, Fresh(p)
  PROVE  Fresh(p)'
<1>1. p \in Paths
  BY ScriptsAssumption
<1>2. CASE p = Step.dst
  BY <1>2, PutEffect DEF Fresh, Exists
<1>3. CASE p # Step.dst
  BY <1>1, <1>3, PutEffect DEF Fresh, Exists
<1> QED
  BY <1>2, <1>3

\* Every command keeps the artifacts of this invocation fresh.
LEMMA ExecFresh ==
  ASSUME TypeOK, Exec, SourcesFresh, NEW p \in Artifacts, Fresh(p)
  PROVE  Fresh(p)'
<1>0. Running /\ run' = run
  BY DEF Exec, SkipAnd, Test, Clone, Reset, Download, Remove, Mkdir, Copy, Derive, Jobs, Fuzz,
         Grep, At, Untouched
<1>a. Step.op \in Writers => Step.dst \in Paths
  BY <1>0, StepType
<1>b. CASE UNCHANGED fs
  BY <1>b, <1>0 DEF Fresh, Exists
<1>c. ASSUME Step.op \in Writers,
             NEW f, Put(f),
             Step.dst \in Artifacts =>
               (f.rev # "none" => f.run = run /\ f.from = run) \/ f = fs[Step.dst]
      PROVE  Fresh(p)'
  BY <1>c, <1>a, <1>0, PutFresh
<1>d. ASSUME Usable(Step.src), Step.op # "remove", NEW hit
      PROVE  Made(Step.src, hit).run = run /\ Made(Step.src, hit).from = run
  <2>1. \A q \in Step.src \intersect Artifacts : Fresh(q) /\ Exists(q)
    BY <1>d DEF Usable, Exists, SourcesFresh
  <2> QED
    BY <2>1, MadeFresh
<1>1. CASE SkipAnd
  BY <1>1, <1>b DEF SkipAnd
<1>2. CASE Test
  BY <1>2, <1>b DEF Test
<1>3. CASE Clone
  <2>1. Step.op \in {"clone", "clone-n"} /\ Step.dst \notin Artifacts /\ Step.op \in Writers
    BY <1>3 DEF Clone, At, SourcesFresh, Fetchers, Writers
  <2> QED
    BY <1>3, <2>1, <1>b, <1>c DEF Clone
<1>4. CASE Reset
  <2>1. Step.dst \notin Artifacts /\ Step.op \in Writers
    BY <1>4 DEF Reset, At, SourcesFresh, Fetchers, Writers
  <2> QED
    BY <1>4, <2>1, <1>b, <1>c DEF Reset
<1>5. CASE Download
  <2>1. Step.dst \notin Artifacts /\ Step.op \in Writers
    BY <1>5 DEF Download, At, SourcesFresh, Fetchers, Writers
  <2> QED
    BY <1>5, <2>1, <1>b, <1>c DEF Download
<1>6. CASE Remove
  <2>1. p \in Paths /\ fs'[p] \in {NoFile, fs[p]}
    BY <1>6, ScriptsAssumption DEF Remove
  <2> QED
    BY <2>1, <1>0 DEF Fresh, Exists, NoFile, Fetched
<1>7. CASE Mkdir
  <2>1. Step.dst \notin Artifacts /\ Step.op \in Writers
    BY <1>7 DEF Mkdir, At, SourcesFresh, Fetchers, Writers
  <2> QED
    BY <1>7, <2>1, <1>b, <1>c DEF Mkdir
<1>8. CASE Copy
  <2>1. Step.op \in Writers /\ Step.op # "remove"
    BY <1>8 DEF Copy, At, Writers
  <2>2. Cut.run = run /\ Cut.from = run
    BY DEF Cut
  <2>3. \/ UNCHANGED fs
        \/ Usable(Step.src) /\ Put(Made(Step.src, FALSE))
        \/ Put(fs[Step.dst]) \/ Put(Cut)
    BY <1>8 DEF Copy
  <2> QED
    BY <2>1, <2>2, <2>3, <1>b, <1>c, <1>d
<1>9. CASE Derive
  <2>1. Step.op \in Writers /\ Step.op # "remove"
    BY <1>9 DEF Derive, At, Writers
  <2>2. NoFile.rev = "none"
    BY DEF NoFile, Fetched
  <2>3. \/ Usable(Step.src) /\ Put(Made(Step.src, FALSE))
        \/ Put(fs[Step.dst]) \/ Put(NoFile)
    BY <1>9 DEF Derive
  <2> QED
    BY <2>1, <2>2, <2>3, <1>c, <1>d
<1>10. CASE Jobs
  <2>1. Step.op \in Writers /\ Step.op # "remove"
    BY <1>10 DEF Jobs, At, Writers
  <2> QED
    BY <1>10, <2>1, <1>b, <1>c, <1>d DEF Jobs
<1>11. CASE Fuzz
  <2>1. Step.op \in Writers /\ Step.op # "remove" /\ Step.op \in {"fuzz", "redirect"}
    BY <1>11 DEF Fuzz, At, Writers
  <2>2. \A hit : Made(Step.src, hit).run = run /\ Made(Step.src, hit).from = run
    BY <2>1, MadeFresh DEF SourcesFresh
  <2>3. UNCHANGED fs \/ \E hit \in BOOLEAN : Put(Made(Step.src, hit))
    BY <1>11 DEF Fuzz
  <2> QED
    BY <2>1, <2>2, <2>3, <1>b, <1>c
<1>12. CASE Grep
  BY <1>12, <1>b DEF Grep
<1> QED
  BY <1>1, <1>2, <1>3, <1>4, <1>5, <1>6, <1>7, <1>8, <1>9, <1>10, <1>11, <1>12 DEF Exec

\* The step makes p anew, or removes it.
Renews(step, p) ==
  \/ step.op = "remove" /\ p \in step.src
  \/ step.op = "redirect" /\ p = step.dst

\* A step that always runs and removes or truncates an artifact leaves none of an earlier
\* invocation, if there is an executable to run.
LEMMA ExecRenews ==
  ASSUME TypeOK, Exec, SourcesFresh, NEW p \in Artifacts,
         Step.cond = "always", Renews(Step, p),
         Step.op = "redirect" => Exists("exe")
  PROVE  Fresh(p)'
<1>0. run' = run /\ p \in Paths /\ Running
  BY ScriptsAssumption DEF Exec, SkipAnd, Test, Clone, Reset, Download, Remove, Mkdir, Copy,
     Derive, Jobs, Fuzz, Grep, At, Untouched
<1>1. CASE Step.op = "remove"
  <2>1. Remove
    BY <1>1 DEF Exec, SkipAnd, Due, Test, Clone, Reset, Download, Mkdir, Copy, Derive, Jobs, Fuzz,
                Grep, At
  <2>2. fs'[p] = NoFile
    BY <1>0, <1>1, <2>1 DEF Remove, Renews
  <2> QED
    BY <2>2 DEF Fresh, Exists, NoFile, Fetched
<1>2. CASE Step.op = "redirect"
  <2>1. Fuzz
    BY <1>2 DEF Exec, SkipAnd, Due, Test, Clone, Reset, Download, Remove, Mkdir, Copy, Derive,
                Jobs, Grep, At
  <2>2. \E hit \in BOOLEAN : Put(Made(Step.src, hit))
    BY <1>2, <2>1 DEF Fuzz
  <2>3. Step.dst \in Paths /\ p = Step.dst
    BY <1>0, <1>2, StepType DEF Writers, Renews
  <2>4. \A hit : Made(Step.src, hit).run = run /\ Made(Step.src, hit).from = run
    BY <1>2, MadeFresh DEF SourcesFresh
  <2> QED
    BY <1>0, <2>2, <2>3, <2>4, PutEffect DEF Fresh, Exists
<1> QED
  BY <1>1, <1>2 DEF Renews

-----------------------------------------------------------------------------
(* Where the next step is.                                                 *)

\* A step leads to the next one, past the block it guards, or out of the script in failure.
Reaches(step, n, m) ==
  m = n + 1 \/ (step.op \in Tests /\ m = n + 1 + step.skip)

LEMMA Advance ==
  ASSUME TypeOK, Exec
  PROVE  /\ Reaches(Step, pc, pc') \/ (pc' = Len(Script) + 1 /\ ~status')
         /\ Script' = Script
<1>1. Untouched
  BY ExecType
<1>2. Script' = Script
  BY <1>1 DEF Untouched, Script
<1>3. ASSUME NEW ok \in BOOLEAN, Done(ok)
      PROVE  pc' = pc + 1 \/ (pc' = Len(Script) + 1 /\ ~status')
  BY <1>3 DEF Done
<1>4. CASE SkipAnd
  BY <1>2, <1>4 DEF SkipAnd, Reaches
<1>5. CASE Test
  BY <1>2, <1>5 DEF Test, Reaches, Tests
<1>6. CASE \E ok \in BOOLEAN : Done(ok)
  BY <1>2, <1>3, <1>6 DEF Reaches
<1> QED
  BY <1>4, <1>5, <1>6 DEF Exec, Clone, Reset, Download, Remove, Mkdir, Copy, Derive, Jobs, Fuzz, Grep

\* What is renewed before the next step is renewed before this one, or by it.
LEMMA RenewedStep ==
  ASSUME NEW script \in Seq(Steps), NEW n \in 1..Len(script), NEW m \in Nat,
         Reaches(script[n], n, m), NEW p, Renewed(script, m, p)
  PROVE  Renewed(script, n, p) \/ (script[n].cond = "always" /\ Renews(script[n], p))
<1>1. PICK i \in 1..(m - 1) :
        i <= Len(script) /\ Unconditional(script, i) /\ Renews(script[i], p)
  BY DEF Renewed, Renews
<1>2. CASE i < n
  BY <1>1, <1>2 DEF Renewed, Renews
<1>3. CASE i = n
  BY <1>1, <1>3 DEF Unconditional
<1>4. CASE i > n
  <2>1. script[n].op \in Tests /\ m = n + 1 + script[n].skip
    BY <1>1, <1>4 DEF Reaches
  <2>2. n \in 1..(i - 1) /\ n + 1 + script[n].skip <= i
    BY <1>1, <1>4, <2>1 DEF Unconditional
  <2> QED
    BY <1>1, <2>1, <2>2
<1> QED
  BY <1>2, <1>3, <1>4

\* A script whose last step always runs is left with status 0 only through that step.
LEMMA LastStep ==
  ASSUME TypeOK, Exec, NEW ops, EndsWith(Script, ops), pc' > Len(Script), status'
  PROVE  pc = Len(Script) /\ Step.op \in ops /\ Step.cond = "always"
<1>1. pc \in 1..Len(Script) /\ Step \in Steps /\ Len(Script) \in Nat
  <2>1. Running
    BY DEF Exec, SkipAnd, Test, Clone, Reset, Download, Remove, Mkdir, Copy, Derive, Jobs, Fuzz,
           Grep, At
  <2> QED
    BY <2>1, StepType
<1>2. Reaches(Step, pc, pc')
  BY Advance
<1>3. pc' = pc + 1
  <2>1. Step.op \in Tests => pc + 1 + Step.skip <= Len(Script)
    BY <1>1 DEF EndsWith, Step
  <2>2. Step.skip \in Nat /\ pc \in Nat
    BY <1>1 DEF Steps, TypeOK
  <2> QED
    BY <1>1, <1>2, <2>1, <2>2 DEF Reaches
<1>4. pc = Len(Script)
  BY <1>1, <1>3
<1> QED
  BY <1>4 DEF EndsWith, Unconditional, Step

-----------------------------------------------------------------------------
(* The steps of a build script preserve the invariant of module Disciplined. *)

\* In a disciplined build the sources of the step under way are fresh.
LEMMA BuildSources ==
  ASSUME Inv, Running, phase = "build"
  PROVE  SourcesFresh /\ Step.op \notin {"fuzz", "redirect", "grep"}
<1>1. DisciplinedBuild(bench) /\ Script = BuildScript[bench] /\ pc \in 1..Len(Script)
  BY DEF Inv, Reliable, TypeOK, Script, Running
<1>2. Step.op \notin {"fuzz", "redirect", "grep"}
  BY <1>1 DEF DisciplinedBuild, Step
<1>3. Step.op \in Fetchers => Step.dst \notin Artifacts
  BY <1>1 DEF DisciplinedBuild, ReadsRenewed, Step
<1>4. ASSUME Step.op # "remove", NEW p \in Step.src \intersect Artifacts
      PROVE  Fresh(p)
  <2>1. Renewed(Script, pc, p)
    BY <1>1, <1>4 DEF DisciplinedBuild, ReadsRenewed, Step
  <2> QED
    BY <1>1, <2>1 DEF Inv, BuildInv, RenewedIsFresh
<1> QED
  BY <1>2, <1>3, <1>4 DEF SourcesFresh

\* What a step renews is fresh at the next one, in either script.
LEMMA RenewedIsFreshStep ==
  ASSUME TypeOK, RenewedIsFresh, Exec, SourcesFresh, Step.op = "redirect" => Exists("exe"),
         pc' <= Len(Script)
  PROVE  \A p \in Artifacts : Renewed(Script, pc', p) => Fresh(p)'
<1> SUFFICES ASSUME NEW p \in Artifacts, Renewed(Script, pc', p) PROVE Fresh(p)'
  OBVIOUS
<1>1. Running
  BY DEF Exec, SkipAnd, Test, Clone, Reset, Download, Remove, Mkdir, Copy, Derive, Jobs, Fuzz,
         Grep, At
<1>2. pc \in 1..Len(Script) /\ Len(Script) \in Nat /\ pc' \in Nat /\ Script \in Seq(Steps)
  BY <1>1, StepType, ScriptType, ExecType
<1>3. Reaches(Step, pc, pc')
  BY <1>2, Advance
<1>4. Renewed(Script, pc, p) \/ (Step.cond = "always" /\ Renews(Step, p))
  BY <1>2, <1>3, RenewedStep DEF Step
<1>5. CASE Renewed(Script, pc, p)
  BY <1>2, <1>5, ExecFresh DEF RenewedIsFresh
<1>6. CASE Step.cond = "always" /\ Renews(Step, p)
  BY <1>6, ExecRenews
<1> QED
  BY <1>4, <1>5, <1>6

\* The last command of a disciplined build succeeds only by linking the executable.
LEMMA LastLinks ==
  ASSUME Inv, phase = "build", Exec, pc' > Len(Script), status'
  PROVE  Linked'
<1>1. DisciplinedBuild(bench) /\ Script = BuildScript[bench] /\ bench' = bench /\ run' = run
  BY ExecType DEF Inv, Reliable, TypeOK, Script, Untouched
<1>2. pc = Len(Script) /\ Step.op \in Makers /\ Step.cond = "always"
  BY <1>1, LastStep DEF DisciplinedBuild, Inv
<1>3. Derive
  BY <1>2 DEF Exec, SkipAnd, Due, Test, Clone, Reset, Download, Remove, Mkdir, Copy, Jobs, Fuzz,
              Grep, At, Makers
<1>4. Usable(Step.src) /\ Put(Made(Step.src, FALSE))
  BY <1>2, <1>3 DEF Derive, Done, Makers
<1>5. Running /\ Step.op # "remove"
  BY <1>2, <1>3 DEF Derive, At, Makers
<1>6. \A p \in Step.src \intersect Artifacts : Fresh(p) /\ Exists(p)
  BY <1>4, <1>5, BuildSources DEF SourcesFresh, Usable, Exists
<1>7. Step.dst \in Paths
  BY <1>2, <1>5, StepType DEF Makers, Writers, Inv
<1>8. fs'[Step.dst] = Made(Step.src, FALSE)
  BY <1>4, <1>7, PutEffect DEF Inv
<1>9. Executables[bench] = {Step.dst}
  BY <1>1, <1>2 DEF DisciplinedBuild, Step
<1>10. /\ Made(Step.src, FALSE).run = run
       /\ Made(Step.src, FALSE).from = run
       /\ Made(Step.src, FALSE).rev # "none"
  BY <1>6, MadeFresh
<1>11. Executables[bench'] = {Step.dst}
  BY <1>1, <1>9
<1> QED
  BY <1>1, <1>8, <1>10, <1>11 DEF Linked, Exists

LEMMA BuildStep ==
  ASSUME Inv, phase = "build", Exec
  PROVE  Inv'
<1>1. TypeOK' /\ Untouched /\ TypeOK
  BY ExecType, TypeStep DEF Inv, Next, Exec
<1>2. Running
  BY DEF Exec, SkipAnd, Test, Clone, Reset, Download, Remove, Mkdir, Copy, Derive, Jobs, Fuzz,
         Grep, At
<1>3. SourcesFresh /\ Step.op \notin {"fuzz", "redirect", "grep"}
  BY <1>2, BuildSources
<1>4. RenewedIsFresh'
  <2>1. RenewedIsFresh /\ Script' = Script
    BY <1>1, Advance DEF Inv, BuildInv
  <2> QED
    BY <1>1, <1>3, <2>1, RenewedIsFreshStep DEF RenewedIsFresh
<1>5. BuildInv'
  <2>1. Script' = Script
    BY <1>1, Advance
  <2> QED
    BY <1>4, <2>1, LastLinks DEF BuildInv
<1>6. evidence' = evidence
  <2>1. ~Grep
    BY <1>3 DEF Grep, At
  <2> QED
    BY <2>1 DEF Exec, SkipAnd, Test, Clone, Reset, Download, Remove, Mkdir, Copy, Derive, Jobs, Fuzz
<1>7. PhaseInv' /\ TestInv' /\ EndInv'
  BY <1>1, <1>6 DEF Inv, PhaseInv, TestInv, EndInv, Untouched
<1> QED
  BY <1>1, <1>5, <1>7 DEF Inv, Untouched

-----------------------------------------------------------------------------
(* The steps of a test script preserve it.                                 *)

\* In a disciplined test that follows its own build, the sources are fresh.
LEMMA TestSources ==
  ASSUME Inv, Running, phase = "test", mode = "both"
  PROVE  SourcesFresh /\ Exists("exe") /\ DisciplinedTest(bench) /\ Script = TestScript[bench]
<1>1. TestScript[bench] # << >> /\ Script = TestScript[bench] /\ pc \in 1..Len(Script)
  BY DEF Inv, TypeOK, Script, Running
<1>2. DisciplinedTest(bench)
  BY <1>1 DEF Inv, Reliable, TypeOK
<1>3. Executables[bench] = {"exe"} /\ Exists("exe") /\ Fresh("exe")
  BY <1>2 DEF DisciplinedTest, OwnLogTest, Inv, TestInv, Linked, Fresh
<1>4. Step.op \in Fetchers => Step.dst \notin Artifacts
  BY <1>1, <1>2 DEF DisciplinedTest, OwnLogTest, ReadsRenewed, Step
<1>5. ASSUME Step.op # "remove", NEW p \in Step.src \intersect Artifacts
      PROVE  Fresh(p)
  <2>1. p = "exe" \/ Renewed(Script, pc, p)
    BY <1>1, <1>2, <1>5 DEF DisciplinedTest, OwnLogTest, ReadsRenewed, Step
  <2> QED
    BY <1>1, <1>3, <2>1 DEF Inv, TestInv, RenewedIsFresh
<1>6. Step.op \in {"fuzz", "redirect"} => \A p \in Step.src \intersect Artifacts : Exists(p)
  BY <1>1, <1>2, <1>3 DEF DisciplinedTest, OwnLogTest, Step
<1> QED
  BY <1>1, <1>2, <1>3, <1>4, <1>5, <1>6 DEF SourcesFresh

\* A command touches only the path it writes and those it removes.
LEMMA ExecLeaves ==
  ASSUME TypeOK, Exec, NEW p \in Paths,
         Step.op \in Writers => Step.dst # p, Step.op = "remove" => p \notin Step.src
  PROVE  fs'[p] = fs[p]
<1>1. Running
  BY DEF Exec, SkipAnd, Test, Clone, Reset, Download, Remove, Mkdir, Copy, Derive, Jobs, Fuzz,
         Grep, At
<1>2. Step.op \in Writers => Step.dst \in Paths
  BY <1>1, StepType
<1>3. CASE Remove
  BY <1>3 DEF Remove, At
<1>4. CASE UNCHANGED fs
  BY <1>4
<1>5. CASE Step.op \in Writers /\ \E f : Put(f)
  BY <1>2, <1>5, PutEffect
<1> QED
  <2>1. CASE SkipAnd \/ Test \/ Grep
    BY <1>4, <2>1 DEF SkipAnd, Test, Grep
  <2>2. CASE Clone \/ Reset \/ Mkdir
    BY <1>4, <1>5, <2>2 DEF Clone, Reset, Mkdir, At, Writers
  <2>3. CASE Download
    BY <1>4, <1>5, <2>3 DEF Download, At, Writers
  <2>4. CASE Copy
    BY <1>4, <1>5, <2>4 DEF Copy, At, Writers
  <2>5. CASE Derive
    BY <1>4, <1>5, <2>5 DEF Derive, At, Writers
  <2>6. CASE Jobs
    BY <1>4, <1>5, <2>6 DEF Jobs, At, Writers
  <2>7. CASE Fuzz
    BY <1>4, <1>5, <2>7 DEF Fuzz, At, Writers
  <2> QED
    BY <1>3, <2>1, <2>2, <2>3, <2>4, <2>5, <2>6, <2>7 DEF Exec

\* The evidence of a test that follows its own build is of this invocation.
LEMMA EvidenceStep ==
  ASSUME Inv, Exec, phase = "test", mode = "both"
  PROVE  Own(evidence)' /\ (Grep /\ status' => evidence' # {})
<1>1. Running /\ run' = run
  BY DEF Exec, SkipAnd, Test, Clone, Reset, Download, Remove, Mkdir, Copy, Derive, Jobs, Fuzz,
         Grep, At, Untouched
<1>2. Own(evidence)
  BY DEF Inv, TestInv
<1>3. CASE Grep
  <2> DEFINE found == {q \in Step.src : Exists(q) /\ fs[q].hit}
             logs == {fs[p] : p \in found}
  <2>1. Step.op = "grep" /\ evidence' = evidence \union logs /\ status' = (logs # {})
    BY <1>3 DEF Grep, At, Done
  <2>2. Step.src \subseteq Artifacts
    BY <1>1, <2>1, TestSources DEF DisciplinedTest, OwnLogTest, Step, Running
  <2>3. \A q \in found : fs[q].run = run /\ fs[q].from = run
    BY <1>1, <2>1, <2>2, TestSources DEF SourcesFresh, Fresh
  <2>4. Own(logs)
    BY <2>3 DEF Own
  <2> HIDE DEF logs, found
  <2> QED
    BY <1>1, <1>2, <2>1, <2>4 DEF Own
<1>4. CASE ~Grep
  <2>1. evidence' = evidence
    BY <1>4 DEF Exec, SkipAnd, Test, Clone, Reset, Download, Remove, Mkdir, Copy, Derive, Jobs, Fuzz
  <2> QED
    BY <1>1, <1>2, <1>4, <2>1 DEF Own
<1> QED
  BY <1>3, <1>4

LEMMA TestStep ==
  ASSUME Inv, phase = "test", Exec
  PROVE  Inv'
<1>1. TypeOK' /\ Untouched /\ TypeOK /\ Script' = Script
  BY ExecType, TypeStep, Advance DEF Inv, Next, Exec
<1>2. Running
  BY DEF Exec, SkipAnd, Test, Clone, Reset, Download, Remove, Mkdir, Copy, Derive, Jobs, Fuzz,
         Grep, At
<1>3. PhaseInv' /\ BuildInv' /\ EndInv'
  BY <1>1 DEF Inv, PhaseInv, BuildInv, EndInv, Untouched
<1>4. ASSUME mode = "both"
      PROVE  TestInv'
  <2>1. SourcesFresh /\ Exists("exe") /\ DisciplinedTest(bench) /\ Script = TestScript[bench]
    BY <1>2, <1>4, TestSources
  <2>2. Linked'
    <3>1. Executables[bench] = {"exe"} /\ "exe" \in Paths
      BY <1>1, <2>1, ScriptsAssumption DEF DisciplinedTest, OwnLogTest, DisciplinedBuild, TypeOK, Inv, Reliable
    <3>2. fs'["exe"] = fs["exe"]
      BY <1>1, <1>2, <2>1, <3>1, ExecLeaves DEF DisciplinedTest, OwnLogTest, Step, Running
    <3>3. Linked
      BY <1>4 DEF Inv, TestInv
    <3> QED
      BY <1>1, <3>1, <3>2, <3>3 DEF Linked, Exists, Untouched
  <2>3. RenewedIsFresh'
    BY <1>1, <1>4, <2>1, RenewedIsFreshStep DEF RenewedIsFresh, Inv, TestInv
  <2>4. ASSUME pc' > Len(Script), status' PROVE evidence' # {}
    <3>1. Step.op = "grep" /\ Step.cond = "always"
      BY <1>1, <2>1, <2>4, LastStep DEF DisciplinedTest, OwnLogTest
    <3>2. Grep
      BY <3>1 DEF Exec, SkipAnd, Due, Test, Clone, Reset, Download, Remove, Mkdir, Copy, Derive,
                  Jobs, Fuzz, At
    <3> QED
      BY <1>4, <2>4, <3>2, EvidenceStep
  <2> QED
    BY <1>1, <1>4, <2>2, <2>3, <2>4, EvidenceStep DEF TestInv
<1> QED
  BY <1>1, <1>3, <1>4 DEF Inv, TestInv, Untouched

-----------------------------------------------------------------------------
(* The invariant, and what follows from it.                                *)

\* Nothing is renewed before the first step.
LEMMA NothingRenewed ==
  ASSUME NEW script, NEW p
  PROVE  ~Renewed(script, 1, p)
  BY DEF Renewed

LEMMA InvInit == Init /\ bench \in Reliable => Inv
  BY TypeInit DEF Init, Inv, PhaseInv, BuildInv, TestInv, EndInv

LEMMA InvStep == Inv /\ [Next]_vars => Inv'
<1> SUFFICES ASSUME Inv, [Next]_vars PROVE Inv'
  OBVIOUS
<1>0. TypeOK /\ TypeOK' /\ bench' \in Reliable
  <2>1. bench' = bench
    BY DEF Next, vars, SkipAnd, Test, Clone, Reset, Download, Remove, Mkdir, Copy, Derive, Jobs,
           Fuzz, Grep, Untouched, Start, EndBuild, EndTest, Kill
  <2> QED
    BY <2>1, TypeStep DEF Inv
<1>1. CASE Exec
  <2>1. phase \in {"build", "test"}
    BY <1>0, <1>1 DEF TypeOK, Exec, SkipAnd, Test, Clone, Reset, Download, Remove, Mkdir, Copy,
                      Derive, Jobs, Fuzz, Grep, At, Running
  <2> QED
    BY <1>1, <2>1, BuildStep, TestStep
<1>2. ASSUME NEW m \in {"both", "build", "test"}, Start(m) PROVE Inv'
  <2>1. /\ phase' = IF m = "test" THEN "test" ELSE "build"
        /\ pc' = 1 /\ mode' = m /\ verdict' = "none" /\ evidence' = {} /\ bench' = bench
        /\ m # "test" => BuildScript[bench] # << >>
        /\ m # "build" => TestScript[bench] # << >>
    BY <1>2 DEF Start
  <2>2. PhaseInv' /\ EndInv'
    BY <2>1 DEF PhaseInv, EndInv
  <2>3. BuildInv'
    <3>1. \A p \in Artifacts : ~Renewed(Script', pc', p)
      BY <2>1, NothingRenewed
    <3>2. ASSUME phase' = "build" PROVE pc' <= Len(Script')
      <4>1. m # "test" /\ Script' = BuildScript[bench] /\ Script' # << >>
        BY <2>1, <3>2 DEF Script
      <4>2. Script' \in Seq(Steps)
        BY <4>1, <1>0, ScriptsAssumption DEF TypeOK
      <4> QED
        BY <2>1, <4>1, <4>2
    <3>3. ASSUME phase' = "build" PROVE ~(pc' > Len(Script'))
      <4>1. Script' \in Seq(Steps)
        BY <2>1, <3>3, <1>0, ScriptsAssumption DEF TypeOK, Script
      <4>2. Len(Script') \in Nat
        BY <4>1
      <4> QED
        BY <2>1, <3>3, <3>2, <4>2
    <3> QED
      BY <3>1, <3>3 DEF BuildInv, RenewedIsFresh
  <2>4. TestInv'
    BY <2>1 DEF TestInv
  <2> QED
    BY <1>0, <2>2, <2>3, <2>4 DEF Inv
<1>3. CASE EndBuild
  <2>1. PhaseInv'
    BY <1>3 DEF EndBuild, Inv, PhaseInv
  <2>2. Linked' <=> Linked
    BY <1>3 DEF EndBuild, Linked, Exists
  <2>3. status => Linked
    BY <1>3 DEF EndBuild, Inv, BuildInv
  <2>4. BuildInv'
    BY <1>3 DEF EndBuild, BuildInv
  <2>5. EndInv'
    BY <1>3, <2>2, <2>3 DEF EndBuild, EndInv, Inv, PhaseInv
  <2>6. TestInv'
    <3> SUFFICES ASSUME phase' = "test", mode' = "both" PROVE TestInv'
      BY DEF TestInv
    <3>1. status /\ mode = "both" /\ pc' = 1 /\ evidence' = {} /\ bench' = bench
      BY <1>3 DEF EndBuild, Inv, PhaseInv
    <3>2. Script' = TestScript[bench] /\ Script' # << >> /\ Script' \in Seq(Steps)
      BY <1>0, <1>3, <3>1, ScriptsAssumption DEF EndBuild, Inv, PhaseInv, Script, TypeOK
    <3>3. ~(pc' > Len(Script'))
      BY <3>1, <3>2
    <3>4. \A p \in Artifacts : ~Renewed(Script', pc', p)
      BY <3>1, NothingRenewed
    <3>5. Own(evidence)'
      BY <3>1 DEF Own
    <3> QED
      BY <2>2, <2>3, <3>1, <3>3, <3>4, <3>5 DEF TestInv, RenewedIsFresh
  <2> QED
    BY <1>0, <2>1, <2>4, <2>5, <2>6 DEF Inv
<1>4. CASE EndTest
  <2>1. Linked' <=> Linked
    BY <1>4 DEF EndTest, Linked, Exists
  <2>2. Own(evidence)' <=> Own(evidence)
    BY <1>4 DEF EndTest, Own
  <2>3. PhaseInv' /\ BuildInv' /\ TestInv'
    BY <1>4 DEF EndTest, PhaseInv, BuildInv, TestInv
  <2>4. EndInv'
    BY <1>4, <2>1, <2>2 DEF EndTest, EndInv, Inv, TestInv
  <2> QED
    BY <1>0, <2>3, <2>4 DEF Inv
<1>5. CASE Kill
  BY <1>0, <1>5 DEF Kill, Inv, PhaseInv, BuildInv, TestInv, EndInv
<1>6. CASE UNCHANGED vars
  BY <1>0, <1>6 DEF vars, Inv, PhaseInv, BuildInv, TestInv, EndInv, RenewedIsFresh, Linked, Own,
                    Fresh, Exists, Script
<1> QED
  BY <1>1, <1>2, <1>3, <1>4, <1>5, <1>6 DEF Next, Exec

-----------------------------------------------------------------------------
(* What a test finds in its logs.                                          *)

\* A test that keeps its logs: where it is, and what it does next.
LEMMA LogTest ==
  ASSUME LogInv, bench \in LogKeepers, Exec, phase = "test"
  PROVE  /\ Running /\ Script = TestScript[bench] /\ OwnLogTest(bench)
         /\ run' = run /\ bench' = bench /\ phase' = phase
         /\ pc \in 1..Len(Script) /\ Len(Script) \in Nat /\ Script \in Seq(Steps)
         /\ Step.op \in Writers => Step.dst \in Paths \ {"exe"}
         /\ Step.op \in Fetchers => Step.dst \notin Artifacts
         /\ "exe" \in Paths
<1>1. Running
  BY DEF Exec, SkipAnd, Test, Clone, Reset, Download, Remove, Mkdir, Copy, Derive, Jobs, Fuzz,
         Grep, At
<1>2. Script = TestScript[bench] /\ TestScript[bench] # << >>
  BY DEF LogInv, TypeOK, Script
<1>3. OwnLogTest(bench) /\ TypeOK
  BY <1>2 DEF LogInv, LogKeepers
<1>4. pc \in 1..Len(Script) /\ Len(Script) \in Nat /\ Script \in Seq(Steps)
  BY <1>1, <1>3, StepType, ScriptType
<1>5. Untouched
  BY <1>3, ExecType
<1>6. Step.op \in Fetchers => Step.dst \notin Artifacts
  BY <1>2, <1>3, <1>4 DEF OwnLogTest, ReadsRenewed, Step
<1>7. Step.op \in Writers => Step.dst \in Paths \ {"exe"}
  BY <1>1, <1>2, <1>3, <1>4, StepType DEF OwnLogTest, Step
<1>8. "exe" \in Paths
  BY <1>3, ScriptsAssumption DEF OwnLogTest
<1> QED
  BY <1>1, <1>2, <1>3, <1>4, <1>5, <1>6, <1>7, <1>8 DEF Untouched

\* The executable is what it was.
LEMMA ExecutableStays ==
  ASSUME LogInv, bench \in LogKeepers, Exec, phase = "test"
  PROVE  Exists("exe")' <=> Exists("exe")
<1>1. Step.op = "remove" => "exe" \notin Step.src
  BY LogTest DEF OwnLogTest, Step
<1>2. fs'["exe"] = fs["exe"]
  BY <1>1, LogTest, ExecLeaves DEF LogInv
<1> QED
  BY <1>2 DEF Exists

\* No command brings back a log of an earlier invocation.
LEMMA ExecRecent ==
  ASSUME LogInv, bench \in LogKeepers, Exec, phase = "test", NEW p \in Artifacts, Recent(p)
  PROVE  Recent(p)'
<1>0. TypeOK /\ run' = run /\ p \in Paths /\ (Step.op \in Writers => Step.dst \in Paths)
  BY LogTest, ScriptsAssumption DEF LogInv
<1>a. CASE fs'[p] = fs[p]
  BY <1>0, <1>a DEF Recent, Exists
<1>b. ASSUME Step.op \in Writers, NEW f, Put(f), f = fs[Step.dst] \/ f.run = run \/ f.rev = "none"
      PROVE  Recent(p)'
  <2>1. CASE p = Step.dst
    BY <1>0, <1>b, <2>1, PutEffect DEF Recent, Exists
  <2>2. CASE p # Step.dst
    BY <1>0, <1>a, <1>b, <2>2, PutEffect
  <2> QED
    BY <2>1, <2>2
<1>c. Cut.run = run /\ NoFile.rev = "none" /\ \A S, hit : Made(S, hit).run = run
  BY DEF Cut, NoFile, Fetched, Made
<1>1. CASE Remove
  <2>1. fs'[p] = NoFile \/ fs'[p] = fs[p]
    BY <1>0, <1>1 DEF Remove
  <2> QED
    BY <2>1, <1>a, <1>c DEF Recent, Exists
<1>2. CASE Step.op \in Fetchers
  <2>1. fs'[p] = fs[p]
    BY <1>0, <1>2, LogTest, ExecLeaves DEF Fetchers
  <2> QED
    BY <1>a, <2>1
<1>3. CASE SkipAnd \/ Test \/ Grep
  BY <1>a, <1>3 DEF SkipAnd, Test, Grep
<1>4. CASE Copy
  <2>1. Step.op \in Writers
    BY <1>4 DEF Copy, At, Writers
  <2>2. \/ UNCHANGED fs \/ Put(Made(Step.src, FALSE)) \/ Put(fs[Step.dst]) \/ Put(Cut)
    BY <1>4 DEF Copy
  <2> QED
    BY <2>1, <2>2, <1>a, <1>b, <1>c
<1>5. CASE Derive
  <2>1. Step.op \in Writers
    BY <1>5 DEF Derive, At, Writers
  <2>2. \/ Put(Made(Step.src, FALSE)) \/ Put(fs[Step.dst]) \/ Put(NoFile)
    BY <1>5 DEF Derive
  <2> QED
    BY <2>1, <2>2, <1>b, <1>c
<1>6. CASE Jobs
  <2>1. Step.op \in Writers
    BY <1>6 DEF Jobs, At, Writers
  <2>2. UNCHANGED fs \/ Put(Made(Step.src, FALSE))
    BY <1>6 DEF Jobs
  <2> QED
    BY <2>1, <2>2, <1>a, <1>b, <1>c
<1>7. CASE Fuzz
  <2>1. Step.op \in Writers
    BY <1>7 DEF Fuzz, At, Writers
  <2>2. UNCHANGED fs \/ \E hit \in BOOLEAN : Put(Made(Step.src, hit))
    BY <1>7 DEF Fuzz
  <2> QED
    BY <2>1, <2>2, <1>a, <1>b, <1>c
<1> QED
  BY <1>1, <1>2, <1>3, <1>4, <1>5, <1>6, <1>7
  DEF Exec, Clone, Reset, Download, Mkdir, At, Fetchers

\* A step that always runs leaves no old log where it removes one, or has the shell truncate
\* one for a command that it runs.
LEMMA ExecTruncates ==
  ASSUME LogInv, bench \in LogKeepers, Exec, phase = "test", NEW p \in Artifacts,
         Step.cond = "always", Renews(Step, p), Step.op = "redirect" => Exists("exe")
  PROVE  Recent(p)'
<1>0. run' = run /\ p \in Paths /\ Running /\ TypeOK
  BY LogTest, ScriptsAssumption DEF LogInv
<1>1. CASE Step.op = "remove"
  <2>1. Remove
    BY <1>1 DEF Exec, SkipAnd, Due, Test, Clone, Reset, Download, Mkdir, Copy, Derive, Jobs, Fuzz,
                Grep, At
  <2>2. fs'[p] = NoFile
    BY <1>0, <1>1, <2>1 DEF Remove, Renews
  <2> QED
    BY <2>2 DEF Recent, Exists, NoFile, Fetched
<1>2. CASE Step.op = "redirect"
  <2>1. Fuzz
    BY <1>2 DEF Exec, SkipAnd, Due, Test, Clone, Reset, Download, Remove, Mkdir, Copy, Derive,
                Jobs, Grep, At
  <2>2. \E hit \in BOOLEAN : Put(Made(Step.src, hit))
    BY <1>2, <2>1 DEF Fuzz
  <2>3. Step.dst \in Paths /\ p = Step.dst
    BY <1>0, <1>2, StepType DEF Writers, Renews
  <2>4. \A hit : Made(Step.src, hit).run = run
    BY DEF Made
  <2> QED
    BY <1>0, <2>2, <2>3, <2>4, PutEffect DEF Recent
<1> QED
  BY <1>1, <1>2 DEF Renews

\* What is removed before the next step is removed before this one, or by it.
LEMMA RemovedStep ==
  ASSUME NEW script \in Seq(Steps), NEW n \in 1..Len(script), NEW m \in Nat,
         Reaches(script[n], n, m), NEW p, Removed(script, m, p)
  PROVE  \/ Removed(script, n, p)
         \/ script[n].cond = "always" /\ script[n].op = "remove" /\ p \in script[n].src
<1>1. PICK i \in 1..(m - 1) :
        i <= Len(script) /\ Unconditional(script, i) /\ script[i].op = "remove" /\ p \in script[i].src
  BY DEF Removed
<1>2. CASE i < n
  BY <1>1, <1>2 DEF Removed
<1>3. CASE i = n
  BY <1>1, <1>3 DEF Unconditional
<1>4. CASE i > n
  <2>1. script[n].op \in Tests /\ m = n + 1 + script[n].skip
    BY <1>1, <1>4 DEF Reaches
  <2>2. n \in 1..(i - 1) /\ n + 1 + script[n].skip <= i
    BY <1>1, <1>4, <2>1 DEF Unconditional
  <2> QED
    BY <1>1, <2>1, <2>2
<1> QED
  BY <1>2, <1>3, <1>4

LEMMA LogsRecentStep ==
  ASSUME LogInv, bench \in LogKeepers, Exec, phase = "test"
  PROVE  LogsRecent'
<1>0. /\ TypeOK /\ LogsRecent /\ Script' = Script
      /\ pc \in 1..Len(Script) /\ Len(Script) \in Nat /\ Script \in Seq(Steps) /\ pc' \in Nat
  BY LogTest, Advance, ExecType DEF LogInv
<1> SUFFICES ASSUME pc' <= Len(Script), NEW p \in Artifacts \ {"exe"},
                    Removed(Script, pc', p) \/ (Exists("exe")' /\ Renewed(Script, pc', p))
             PROVE  Recent(p)'
  BY <1>0 DEF LogsRecent
<1>1. Reaches(Script[pc], pc, pc') /\ Step = Script[pc]
  BY <1>0, Advance DEF Step
<1>2. CASE Removed(Script, pc', p)
  <2>1. CASE Removed(Script, pc, p)
    BY <1>0, <2>1, ExecRecent DEF LogsRecent
  <2>2. CASE Step.cond = "always" /\ Step.op = "remove" /\ p \in Step.src
    BY <2>2, ExecTruncates DEF Renews
  <2> QED
    BY <1>0, <1>1, <1>2, <2>1, <2>2, RemovedStep
<1>3. CASE Exists("exe")' /\ Renewed(Script, pc', p)
  <2>1. Exists("exe")
    BY <1>3, ExecutableStays
  <2>2. CASE Renewed(Script, pc, p)
    BY <1>0, <2>1, <2>2, ExecRecent DEF LogsRecent
  <2>3. CASE Step.cond = "always" /\ Renews(Step, p)
    BY <2>1, <2>3, ExecTruncates
  <2> QED
    BY <1>0, <1>1, <1>3, <2>2, <2>3, RenewedStep
<1> QED
  BY <1>2, <1>3

\* With an executable, or when the script removes them itself, the logs a grep reads are recent.
LEMMA GreppedRecent ==
  ASSUME LogInv, bench \in LogKeepers, Exec, phase = "test", Step.op = "grep",
         Exists("exe") \/ RemovesLogs, NEW p \in Step.src
  PROVE  Recent(p)
<1>1. /\ OwnLogTest(bench) /\ Script = TestScript[bench] /\ pc \in 1..Len(Script)
      /\ Len(Script) \in Nat /\ LogsRecent /\ Step = Script[pc] /\ Script \in Seq(Steps)
  BY LogTest DEF LogInv, Step
<1>2. p \in Artifacts \ {"exe"}
  BY <1>1 DEF OwnLogTest
<1>3. CASE Exists("exe")
  <2>1. Renewed(Script, pc, p)
    BY <1>1, <1>2 DEF OwnLogTest, ReadsRenewed
  <2> QED
    BY <1>1, <1>2, <1>3, <2>1 DEF LogsRecent
<1>4. CASE RemovesLogs
  <2>1. PICK j \in 1..(pc - 1) : Script[j].op = "remove" /\ p \in Script[j].src
    BY <1>1, <1>4 DEF RemovesLogs
  <2>2. j \in 1..Len(Script)
    BY <1>1
  <2>3. Unconditional(Script, j)
    BY <1>1, <2>1, <2>2 DEF OwnLogTest
  <2>4. Removed(Script, pc, p)
    BY <1>1, <2>1, <2>2, <2>3 DEF Removed
  <2> QED
    BY <1>1, <1>2, <2>4 DEF LogsRecent
<1> QED
  BY <1>3, <1>4

LEMMA OwnEvidenceStep ==
  ASSUME LogInv, bench \in LogKeepers, Exec, phase = "test"
  PROVE  OwnEvidence' /\ (Grep /\ status' => evidence' # {})
<1>1. run' = run /\ bench' = bench /\ OwnEvidence
  BY LogTest DEF LogInv
<1>2. (Exists("exe") \/ RemovesLogs)' <=> Exists("exe") \/ RemovesLogs
  BY <1>1, ExecutableStays DEF RemovesLogs
<1>3. CASE Grep
  <2> DEFINE found == {q \in Step.src : Exists(q) /\ fs[q].hit}
             logs == {fs[p] : p \in found}
  <2>1. Step.op = "grep" /\ evidence' = evidence \union logs /\ status' = (logs # {})
    BY <1>3 DEF Grep, At, Done
  <2>2. Exists("exe") \/ RemovesLogs => \A q \in found : fs[q].run = run
    BY <2>1, GreppedRecent DEF Recent
  <2>3. Exists("exe") \/ RemovesLogs => \A log \in logs : log.run = run
    BY <2>2
  <2> HIDE DEF logs, found
  <2> QED
    BY <1>1, <1>2, <2>1, <2>3 DEF OwnEvidence
<1>4. CASE ~Grep
  <2>1. evidence' = evidence
    BY <1>4 DEF Exec, SkipAnd, Test, Clone, Reset, Download, Remove, Mkdir, Copy, Derive, Jobs, Fuzz
  <2> QED
    BY <1>1, <1>2, <1>4, <2>1 DEF OwnEvidence
<1> QED
  BY <1>3, <1>4

\* A disciplined test is left with status 0 only through its last grep.
LEMMA LastGreps ==
  ASSUME LogInv, bench \in LogKeepers, Exec, phase = "test", pc' > Len(Script), status'
  PROVE  evidence' # {}
<1>1. Step.op = "grep" /\ Step.cond = "always"
  BY LogTest, LastStep DEF OwnLogTest, LogInv
<1>2. Grep
  BY <1>1 DEF Exec, SkipAnd, Due, Test, Clone, Reset, Download, Remove, Mkdir, Copy, Derive,
              Jobs, Fuzz, At
<1> QED
  BY <1>2, OwnEvidenceStep

\* When a test starts nothing is renewed yet.
LEMMA TestStarts ==
  ASSUME TypeOK', phase' = "test", pc' = 1, TestScript[bench'] # << >>
  PROVE  LogsRecent' /\ ~(pc' > Len(Script'))
<1>1. Script' = TestScript[bench'] /\ bench' \in Benchmarks
  BY DEF Script, TypeOK
<1>2. Script' \in Seq(Steps) /\ Script' # << >>
  BY <1>1, ScriptsAssumption
<1>3. Len(Script') \in Nat \ {0}
  BY <1>2
<1>4. \A p : ~Renewed(Script', 1, p) /\ ~Removed(Script', 1, p)
  BY NothingRenewed DEF Removed
<1>5. LogsRecent'
  BY <1>4 DEF LogsRecent
<1> QED
  BY <1>3, <1>5

LEMMA LogInvStep ==
  ASSUME LogInv, bench \in LogKeepers, [Next]_vars
  PROVE  LogInv'
<1>0. TypeOK /\ TypeOK'
  BY TypeStep DEF LogInv
<1>1. CASE Exec
  <2>1. Untouched /\ phase \in {"build", "test"} /\ Script' = Script
    BY <1>0, <1>1, ExecType, Advance
    DEF TypeOK, Exec, SkipAnd, Test, Clone, Reset, Download, Remove, Mkdir, Copy, Derive, Jobs,
        Fuzz, Grep, At, Running
  <2>2. CASE phase = "test"
    <3>1. LogsRecent' /\ OwnEvidence' /\ (pc' > Len(Script') /\ status' => evidence' # {})
      BY <1>1, <2>1, <2>2, LogsRecentStep, OwnEvidenceStep, LastGreps
    <3> QED
      BY <1>0, <2>1, <2>2, <3>1 DEF LogInv, Untouched
  <2>3. CASE phase = "build"
    <3>1. Running /\ pc \in 1..Len(Script) /\ Script = BuildScript[bench] /\ bench \in LogKeepers
      BY <1>1, <2>3 DEF Script, Running, Exec, SkipAnd, Test, Clone, Reset, Download, Remove, Mkdir,
                        Copy, Derive, Jobs, Fuzz, Grep, At
    <3>2. Step.op # "grep"
      BY <3>1 DEF LogKeepers, Step
    <3>3. evidence' = evidence
      BY <1>1, <3>2 DEF Exec, SkipAnd, Test, Clone, Reset, Download, Remove, Mkdir, Copy, Derive,
                        Jobs, Fuzz, Grep, At
    <3> QED
      BY <1>0, <2>1, <2>3, <3>3 DEF LogInv, Untouched
  <2> QED
    BY <2>1, <2>2, <2>3
<1>2. ASSUME NEW m \in {"both", "build", "test"}, Start(m) PROVE LogInv'
  <2>1. /\ phase' = IF m = "test" THEN "test" ELSE "build"
        /\ pc' = 1 /\ mode' = m /\ verdict' = "none" /\ evidence' = {} /\ bench' = bench
        /\ m # "build" => TestScript[bench] # << >>
    BY <1>2 DEF Start
  <2>2. OwnEvidence'
    BY <2>1 DEF OwnEvidence
  <2>3. phase' = "test" => LogsRecent' /\ ~(pc' > Len(Script'))
    <3> SUFFICES ASSUME phase' = "test" PROVE LogsRecent' /\ ~(pc' > Len(Script'))
      OBVIOUS
    <3> QED
      BY <1>0, <2>1, TestStarts
  <2> QED
    BY <1>0, <2>1, <2>2, <2>3 DEF LogInv
<1>3. CASE EndBuild
  <2>1. /\ bench' = bench /\ evidence' = evidence /\ verdict' # "pass" /\ evidence = {}
        /\ phase' = "idle" \/ (phase' = "test" /\ pc' = 1 /\ mode' = "both" /\ verdict' = "none")
        /\ TestScript[bench] # << >> \/ phase' = "idle"
    BY <1>0, <1>3 DEF EndBuild, LogInv, TypeOK
  <2>2. OwnEvidence'
    BY <2>1 DEF OwnEvidence
  <2>3. phase' = "test" => LogsRecent' /\ ~(pc' > Len(Script'))
    BY <1>0, <2>1, TestStarts
  <2> QED
    BY <1>0, <2>1, <2>2, <2>3 DEF LogInv
<1>4. CASE EndTest
  <2>1. OwnEvidence' <=> OwnEvidence
    BY <1>4 DEF EndTest, OwnEvidence, Exists, RemovesLogs
  <2> QED
    BY <1>0, <1>4, <2>1 DEF EndTest, LogInv
<1>5. CASE Kill
  BY <1>0, <1>5 DEF Kill, LogInv
<1>6. CASE UNCHANGED vars
  <2>1. (OwnEvidence' <=> OwnEvidence) /\ (LogsRecent' <=> LogsRecent)
    BY <1>6 DEF vars, OwnEvidence, LogsRecent, Recent, Exists, RemovesLogs, Script
  <2> QED
    BY <1>0, <1>6, <2>1 DEF vars, LogInv, Script
<1> QED
  BY <1>1, <1>2, <1>3, <1>4, <1>5, <1>6 DEF Next, Exec

-----------------------------------------------------------------------------
(* What a clean invocation builds.                                         *)

LEMMA ExecRuns == Exec => Running
  BY DEF Exec, SkipAnd, Test, Clone, Reset, Download, Remove, Mkdir, Copy, Derive, Jobs, Fuzz,
         Grep, At

\* No step leads past one that always runs.
LEMMA NotOver ==
  ASSUME NEW script \in Seq(Steps), NEW n \in 1..Len(script), NEW m \in Nat,
         Reaches(script[n], n, m),
         NEW i \in 1..(m - 1), i <= Len(script), Unconditional(script, i)
  PROVE  i <= n
<1>1. CASE m = n + 1
  BY <1>1
<1>2. CASE script[n].op \in Tests /\ m = n + 1 + script[n].skip
  <2>1. ASSUME n < i PROVE FALSE
    <3>1. n \in 1..(i - 1)
      BY <2>1
    <3>2. n + 1 + script[n].skip <= i
      BY <1>2, <3>1 DEF Unconditional
    <3> QED
      BY <1>2, <3>2
  <2> QED
    BY <2>1
<1> QED
  BY <1>1, <1>2 DEF Reaches

\* What is kept up to a later step is kept by this one.
LEMMA KeptStep ==
  ASSUME NEW script \in Seq(Steps), NEW n \in 1..Len(script), NEW m \in Nat, n < m,
         NEW i \in 1..(n - 1), NEW p, NEW ops, Kept(script, i, m, p, ops)
  PROVE  /\ Kept(script, i, n, p, ops)
         /\ script[n].op \in Writers /\ script[n].dst = p => script[n].op \in ops
         /\ script[n].op = "remove" => p \notin script[n].src
<1>1. n \in (i + 1)..(m - 1) /\ \A j \in (i + 1)..(n - 1) : j \in (i + 1)..(m - 1)
  OBVIOUS
<1> QED
  BY <1>1 DEF Kept

\* A step goes forwards.
LEMMA Forwards ==
  ASSUME NEW script \in Seq(Steps), NEW n \in 1..Len(script), NEW m \in Nat, Reaches(script[n], n, m)
  PROVE  n < m
<1>1. script[n] \in Steps /\ script[n].skip \in Nat
  <2>1. script[n] \in Steps
    OBVIOUS
  <2> QED
    BY <2>1 DEF Steps
<1> QED
  BY <1>1 DEF Reaches

\* What the next step finds provided, this one did, and does not disturb it, or makes it.
LEMMA ProvidedStep ==
  ASSUME NEW script \in Seq(Steps), NEW n \in 1..Len(script), NEW m \in Nat,
         Reaches(script[n], n, m), NEW p, Provided(script, m, p)
  PROVE  \/ /\ Provided(script, n, p)
            /\ script[n].op \in Writers /\ script[n].dst = p => script[n].op \in Derivers
            /\ script[n].op = "remove" => p \notin script[n].src
         \/ script[n].cond = "always" /\ script[n].op \in Derivers /\ script[n].dst = p
<1>1. PICK i \in 1..(m - 1) :
        /\ i <= Len(script) /\ Unconditional(script, i)
        /\ script[i].op \in Derivers /\ script[i].dst = p
        /\ Kept(script, i, m, p, Derivers)
  BY DEF Provided
<1>2. i <= n /\ n < m
  BY <1>1, NotOver, Forwards
<1>3. CASE i = n
  BY <1>1, <1>3 DEF Unconditional
<1>4. CASE i < n
  <2>1. i \in 1..(n - 1)
    BY <1>4
  <2> QED
    BY <1>1, <1>2, <2>1, KeptStep DEF Provided
<1> QED
  BY <1>2, <1>3, <1>4

\* What the next step finds obtained, this one did, and does not remove it, or fetches it, or
\* passes over the command that would.
LEMMA ObtainedStep ==
  ASSUME NEW script \in Seq(Steps), NEW n \in 1..Len(script), NEW m \in Nat,
         Reaches(script[n], n, m), NEW p, Obtained(script, m, p)
  PROVE  \/ /\ Obtained(script, n, p)
            /\ script[n].op \in Writers /\ script[n].dst = p => script[n].op \in Fetchers
            /\ script[n].op = "remove" => p \notin script[n].src
         \/ /\ script[n].op \in {"clone", "clone-n", "svn", "wget", "tar"}
            /\ script[n].dst = p /\ script[n].cond = "always"
         \/ /\ script[n].op \in Tests /\ script[n].dst = p /\ script[n].cond = "always"
            /\ m # n + 1
<1>1. PICK i \in 1..(m - 2) :
        /\ i < Len(script) /\ Unconditional(script, i) /\ script[i].op \in Tests /\ script[i].dst = p
        /\ script[i + 1].op \in {"clone", "clone-n", "svn", "wget", "tar"}
        /\ script[i + 1].dst = p /\ script[i + 1].cond = "always"
        /\ Kept(script, i, m, p, Fetchers)
  BY DEF Obtained
<1>2. i <= n /\ n < m
  <2>1. i \in 1..(m - 1) /\ i <= Len(script)
    BY <1>1
  <2> QED
    BY <1>1, <2>1, NotOver, Forwards
<1>3. CASE i = n
  <2>1. m # n + 1
    BY <1>3
  <2> QED
    BY <1>1, <1>3, <2>1 DEF Unconditional
<1>4. CASE i = n - 1
  <2>1. i + 1 = n
    BY <1>4
  <2> QED
    BY <1>1, <2>1
<1>5. CASE i < n - 1
  <2>1. i \in 1..(n - 1) /\ i \in 1..(n - 2)
    BY <1>5
  <2> QED
    BY <1>1, <1>2, <2>1, KeptStep DEF Obtained
<1> QED
  BY <1>2, <1>3, <1>4, <1>5

\* A path that is there is still not fetched again at the next step.
LEMMA GuardedStep ==
  ASSUME NEW script \in Seq(Steps), NEW n \in 1..Len(script), NEW m \in Nat,
         Reaches(script[n], n, m), NEW p, Guarded(script, m, p)
  PROVE  \/ Guarded(script, n, p)
         \/ /\ script[n].op \in Tests /\ script[n].dst = p /\ script[n].cond = "always"
            /\ m # n + 1 + script[n].skip
<1>1. PICK k \in 1..(m - 1) :
        /\ m <= Len(script) /\ Unconditional(script, k)
        /\ script[k].op \in Tests /\ script[k].dst = p /\ m <= k + script[k].skip
  BY DEF Guarded
<1>2. k \in 1..Len(script) /\ script[k].skip \in Nat
  <2>1. k \in 1..Len(script)
    BY <1>1
  <2>2. script[k] \in Steps
    BY <2>1
  <2> QED
    BY <2>1, <2>2 DEF Steps
<1>3. k <= n /\ n < m
  BY <1>1, <1>2, NotOver, Forwards
<1>4. CASE k = n
  <2>1. m # n + 1 + script[n].skip
    BY <1>1, <1>2, <1>4
  <2> QED
    BY <1>1, <1>4, <2>1 DEF Unconditional
<1>5. CASE k < n
  <2>1. k \in 1..(n - 1) /\ n <= Len(script) /\ n <= k + script[k].skip
    BY <1>1, <1>2, <1>3, <1>5
  <2> QED
    BY <1>1, <2>1 DEF Guarded
<1> QED
  BY <1>3, <1>4, <1>5

\* What has been read by an earlier step has been read by a later one, or by the whole script.
LEMMA SourcesGrow ==
  ASSUME NEW script \in Seq(Steps), NEW n \in Nat, NEW m \in Nat, n <= m
  PROVE  /\ Sources(script, n) \subseteq Sources(script, m)
         /\ Sources(script, n) \subseteq Sources(script, Len(script) + 1)
<1>1. \A i \in 1..(n - 1) : i \in 1..(m - 1)
  OBVIOUS
<1>2. \A i \in 1..(n - 1) : i <= Len(script) => i \in 1..(Len(script) + 1 - 1)
  OBVIOUS
<1> QED
  BY <1>1, <1>2 DEF Sources

-----------------------------------------------------------------------------
(* What the steps of a clean invocation do.                                *)

\* A test passes over its block if the path is there, and only then; it changes nothing.
LEMMA TestPasses ==
  ASSUME Exec, Step.op \in Tests, Step.cond = "always"
  PROVE  /\ pc' # pc + 1 => Exists(Step.dst)
         /\ Exists(Step.dst) => pc' = pc + 1 + Step.skip
         /\ fs' = fs
<1>1. Test
  BY DEF Exec, SkipAnd, Due, Clone, Reset, Download, Remove, Mkdir, Copy, Derive, Jobs, Fuzz, Grep,
         At, Tests
<1> QED
  BY <1>1 DEF Test

\* No command that fetches removes what is there.
LEMMA FetchKeeps ==
  ASSUME TypeOK, Exec, Step.op \in Fetchers, NEW p \in Paths, Step.dst = p, Exists(p)
  PROVE  Exists(p)'
<1>1. SkipAnd \/ Clone \/ Reset \/ Download \/ Mkdir
  BY DEF Exec, Test, Remove, Copy, Derive, Jobs, Fuzz, Grep, At, Fetchers
<1>2. CASE fs' = fs
  BY <1>2 DEF Exists
<1>3. ASSUME NEW f, Put(f), f = fs[p] \/ f.rev # "none" PROVE Exists(p)'
  BY <1>3, PutEffect DEF Exists
<1>4. (\A rev : Fetched(rev).rev = rev) /\ \A S : Worst(S) # "none"
  BY DEF Fetched, Worst
<1>5. CASE SkipAnd
  BY <1>2, <1>5 DEF SkipAnd
<1>6. CASE Clone
  BY <1>2, <1>3, <1>4, <1>6 DEF Clone
<1>7. CASE Reset
  BY <1>2, <1>3, <1>4, <1>7 DEF Reset
<1>8. CASE Download
  BY <1>2, <1>3, <1>4, <1>8 DEF Download
<1>9. CASE Mkdir
  BY <1>2, <1>3, <1>4, <1>9 DEF Mkdir
<1> QED
  BY <1>1, <1>5, <1>6, <1>7, <1>8, <1>9

\* p is pinned, and not from an earlier invocation if this one should have made it.
Fit(p) == Pinned(p) /\ (p \in Artifacts => fs[p].from = run)

\* A command that makes something from fit files succeeds and makes it anew, and so does one that
\* unpacks them, unless a fault hits it; a clone leaves something in any case.
LEMMA CleanCommand ==
  ASSUME TypeOK, Exec, clean', Due, Step.dst \in Paths,
         Step.op \in Relying => \A p \in Step.src : Fit(p)
  PROVE  /\ Step.op \in Derivers =>
              /\ fs'[Step.dst].rev = "pinned" /\ fs'[Step.dst].run = run /\ fs'[Step.dst].from = run
              /\ status' /\ pc' = pc + 1
         /\ Step.op \in {"clone", "clone-n", "svn", "wget", "tar"} => fs'[Step.dst].rev # "none"
<1>1. \A f : Put(f) => fs'[Step.dst] = f
  BY PutEffect
<1>2. ~Fault
  BY DEF Fault
<1>3. Step.op \in Relying =>
        /\ Usable(Step.src) /\ Worst(Step.src) = "pinned"
        /\ \A p \in Step.src : fs[p].rev \notin {"none", "empty", "partial"}
  BY DEF Usable, Worst, Fit, Pinned
<1>4. /\ Made(Step.src, FALSE).rev = Worst(Step.src)
      /\ Made(Step.src, FALSE).run = run
      /\ Step.op \in Relying => Made(Step.src, FALSE).from = run
  BY DEF Made, Oldest, Fit
<1>5. Done(TRUE) => status' /\ pc' = pc + 1
  BY DEF Done
<1>6. CASE Step.op \in {"copy"}
  <2>1. Copy
    BY <1>6 DEF Exec, SkipAnd, Test, Clone, Reset, Download, Remove, Mkdir, Derive, Jobs, Fuzz, Grep,
                At
  <2>2. Put(Made(Step.src, FALSE)) /\ Done(TRUE)
    BY <1>2, <1>3, <1>6, <2>1 DEF Copy, Relying, Derivers
  <2> QED
    BY <1>1, <1>3, <1>4, <1>5, <1>6, <2>2 DEF Relying, Derivers
<1>7. CASE Step.op \in Makers \union {"engine"}
  <2>1. Derive
    BY <1>7 DEF Exec, SkipAnd, Test, Clone, Reset, Download, Remove, Mkdir, Copy, Jobs, Fuzz, Grep,
                At, Makers
  <2>2. Put(Made(Step.src, FALSE)) /\ Done(TRUE)
    BY <1>2, <1>3, <1>7, <2>1 DEF Derive, Relying, Derivers
  <2> QED
    BY <1>1, <1>3, <1>4, <1>5, <1>7, <2>2 DEF Relying, Derivers, Makers
<1>8. CASE Step.op = "jobs"
  <2>1. Jobs
    BY <1>8 DEF Exec, SkipAnd, Test, Clone, Reset, Download, Remove, Mkdir, Copy, Derive, Fuzz, Grep,
                At
  <2>2. Put(Made(Step.src, FALSE)) /\ Done(TRUE)
    BY <1>2, <1>3, <1>8, <2>1 DEF Jobs, Relying, Derivers
  <2> QED
    BY <1>1, <1>3, <1>4, <1>5, <1>8, <2>2 DEF Relying, Derivers
<1>9. CASE Step.op \in {"clone", "clone-n"}
  <2>1. Clone
    BY <1>9 DEF Exec, SkipAnd, Test, Reset, Download, Remove, Mkdir, Copy, Derive, Jobs, Fuzz, Grep,
                At
  <2>2. (\E rev \in {"tip", "empty"} : Put(Fetched(rev))) \/ (Exists(Step.dst) /\ fs' = fs)
    BY <1>2, <2>1 DEF Clone
  <2>3. fs'[Step.dst].rev # "none"
    BY <1>1, <2>2 DEF Fetched, Exists
  <2> QED
    BY <1>9, <2>3 DEF Derivers, Makers
<1>10. CASE Step.op \in {"svn", "wget", "tar"}
  <2>1. Download
    BY <1>10 DEF Exec, SkipAnd, Test, Clone, Reset, Remove, Mkdir, Copy, Derive, Jobs, Fuzz, Grep,
                 At
  <2>2. Put(Fetched(Worst(Step.src)))
    BY <1>2, <1>3, <1>10, <2>1 DEF Download, Relying
  <2>3. fs'[Step.dst].rev # "none"
    BY <1>1, <1>3, <1>10, <2>2 DEF Fetched, Relying
  <2> QED
    BY <1>10, <2>3 DEF Derivers, Makers
<1> QED
  BY <1>6, <1>7, <1>8, <1>9, <1>10 DEF Derivers

\* An invocation that is still clean has been so before.
LEMMA CleanBefore == ASSUME TypeOK, Exec, clean' PROVE clean
<1>1. Sound \/ Fault \/ clean' = clean
  BY DEF Exec, SkipAnd, Test, Clone, Reset, Download, Remove, Mkdir, Copy, Derive, Jobs, Fuzz, Grep
<1> QED
  BY <1>1 DEF Sound, Fault

\* The step under way of a build that suffices itself.
LEMMA BuildContext ==
  ASSUME CleanInv, Exec, phase = "build"
  PROVE  /\ TypeOK /\ SelfSufficient(bench) /\ Script = BuildScript[bench] /\ Script \in Seq(Steps)
         /\ pc \in 1..Len(Script) /\ Len(Script) \in Nat /\ pc' \in Nat /\ pc' > pc
         /\ Step = Script[pc] /\ Step \in Steps
         /\ Script' = Script /\ Untouched
         /\ Step.op \in Writers => Step.dst \in Paths
<1>1. TypeOK /\ SelfSufficient(bench) /\ Script = BuildScript[bench] /\ Running
  BY ExecRuns DEF CleanInv, Buildable, TypeOK, Script
<1>2. /\ Script \in Seq(Steps) /\ pc \in 1..Len(Script) /\ Len(Script) \in Nat /\ Step \in Steps
      /\ Step.op \in Writers => Step.dst \in Paths
  BY <1>1, ScriptType, StepType
<1>3. pc' \in Nat /\ Untouched /\ Script' = Script
  BY <1>1, ExecType, Advance
<1>4. pc' > pc
  <2>1. CASE Reaches(Step, pc, pc')
    BY <1>2, <1>3, <2>1, Forwards DEF Step
  <2>2. CASE pc' = Len(Script) + 1
    BY <1>2, <2>2
  <2> QED
    BY <1>1, <2>1, <2>2, Advance
<1> QED
  BY <1>1, <1>2, <1>3, <1>4 DEF Step

\* No step changes a source that it or an earlier one has read.
LEMMA SourceStays ==
  ASSUME CleanInv, Exec, phase = "build", NEW p \in Sources(Script, pc + 1)
  PROVE  fs'[p] = fs[p]
<1>1. p \in Paths
  BY DEF Sources
<1>2. /\ Step.op \in Writers => Step.dst # p
      /\ Step.op = "remove" => p \notin Step.src
  BY BuildContext DEF SelfSufficient, SourcesStay
<1> QED
  BY <1>1, <1>2, BuildContext, ExecLeaves

\* If what the script will have read is sound, what it has read is, and what the step under way reads.
LEMMA TrustedBefore ==
  ASSUME CleanInv, Exec, phase = "build", Trusted'
  PROVE  /\ Trusted
         /\ \A p \in Sources(Script, pc + 1) : fs[p].rev \in {"none", "pinned"}
<1>1. \A p \in Sources(Script, pc') : fs'[p].rev \in {"none", "pinned"}
  BY BuildContext DEF Trusted, Untouched
<1>2. Sources(Script, pc + 1) \subseteq Sources(Script, pc')
  <2>1. pc + 1 \in Nat /\ pc + 1 <= pc'
    BY BuildContext
  <2> QED
    BY <2>1, BuildContext, SourcesGrow
<1>3. Sources(Script, pc) \subseteq Sources(Script, pc + 1)
  <2>1. pc \in Nat /\ pc + 1 \in Nat /\ pc <= pc + 1
    BY BuildContext
  <2> QED
    BY <2>1, BuildContext, SourcesGrow
<1>4. \A p \in Sources(Script, pc + 1) : fs[p].rev \in {"none", "pinned"}
  BY <1>1, <1>2, SourceStays
<1> QED
  BY <1>3, <1>4, BuildContext DEF Trusted

\* What a command relies on is pinned, and new where it should be.
LEMMA ReliesOnFit ==
  ASSUME CleanInv, Exec, phase = "build", clean', Trusted', Step.op \in Relying
  PROVE  \A p \in Step.src : Fit(p)
<1>1. Supplies
  BY CleanBefore, TrustedBefore DEF CleanInv
<1> SUFFICES ASSUME NEW p \in Step.src PROVE Fit(p)
  OBVIOUS
<1>2. p \in Paths
  BY BuildContext DEF Steps
<1>3. Provided(Script, pc, p) \/ (p \notin Artifacts /\ Obtained(Script, pc, p))
  BY BuildContext DEF SelfSufficient
<1>4. CASE Provided(Script, pc, p)
  BY <1>1, <1>2, <1>4 DEF Supplies, Supplied, Fit, Pinned
<1>5. CASE p \notin Artifacts /\ Obtained(Script, pc, p)
  <2>1. p \in Sources(Script, pc + 1)
    <3>1. pc \in 1..(pc + 1 - 1) /\ pc <= Len(Script)
      BY BuildContext
    <3> QED
      BY <1>2, <1>5, <3>1, BuildContext DEF Sources
  <2>2. fs[p].rev \in {"none", "pinned"}
    BY <2>1, TrustedBefore
  <2> QED
    BY <1>1, <1>2, <1>5, <2>2 DEF Supplies, Exists, Fit, Pinned
<1> QED
  BY <1>3, <1>4, <1>5

\* The step under way of a clean build succeeds if the script may not end without it.
LEMMA NoFailure ==
  ASSUME CleanInv, Exec, phase = "build", clean', Trusted'
  PROVE  Reaches(Step, pc, pc')
<1>1. ASSUME ~Reaches(Step, pc, pc') PROVE FALSE
  <2>1. ~status' /\ pc' # pc + 1
    BY <1>1, Advance, BuildContext DEF Reaches
  <2>2. ~SkipAnd /\ ~Test
    BY <1>1, <2>1 DEF SkipAnd, Test, Reaches, Tests
  <2>3. Due /\ \E ok : Done(ok)
    BY <2>2 DEF Exec, Clone, Reset, Download, Remove, Mkdir, Copy, Derive, Jobs, Fuzz, Grep, At
  <2>4. Step.strict
    BY <2>1, <2>3 DEF Done
  <2>5. Step.op \in Derivers
    BY <2>4, BuildContext DEF SelfSufficient
  <2>6. Step.dst \in Paths /\ Step.op \in Relying
    BY <2>5, BuildContext DEF Derivers, Makers, Writers, Relying
  <2> QED
    BY <2>1, <2>3, <2>5, <2>6, CleanCommand, ReliesOnFit, BuildContext
<1> QED
  BY <1>1

\* In a clean build from sound sources each step leaves the next one what it needs.
LEMMA SuppliesStep ==
  ASSUME CleanInv, Exec, phase = "build", clean', Trusted'
  PROVE  Supplies'
<1>1. /\ Script \in Seq(Steps) /\ pc \in 1..Len(Script) /\ Len(Script) \in Nat /\ pc' \in Nat
      /\ Step = Script[pc] /\ Script' = Script /\ TypeOK
      /\ Step.op \in Writers => Step.dst \in Paths
  BY BuildContext
<1>2. Reaches(Script[pc], pc, pc')
  BY <1>1, NoFailure
<1>3. Supplies
  BY CleanBefore, TrustedBefore, <1>1 DEF CleanInv
<1>4. Step.op \in Relying => \A p \in Step.src : Fit(p)
  BY ReliesOnFit
<1>5. pc' <= Len(Script) + 1
  <2>1. Step.op \in Tests => pc + 1 + Step.skip <= Len(Script)
    BY <1>1, BuildContext DEF SelfSufficient, EndsWith
  <2> QED
    BY <1>1, <1>2, <2>1 DEF Reaches
<1>6. ASSUME NEW p \in Paths, Provided(Script, pc', p)
      PROVE  fs'[p].rev = "pinned" /\ fs'[p].run = run /\ fs'[p].from = run
  <2>1. CASE Step.cond = "always" /\ Step.op \in Derivers /\ Step.dst = p
    BY <1>1, <1>4, <2>1, CleanCommand DEF Due
  <2>2. CASE /\ Provided(Script, pc, p)
             /\ Step.op \in Writers /\ Step.dst = p => Step.op \in Derivers
             /\ Step.op = "remove" => p \notin Step.src
    <3>1. fs[p].rev = "pinned" /\ fs[p].run = run /\ fs[p].from = run
      BY <1>3, <2>2 DEF Supplies, Supplied
    <3>2. CASE Step.op \in Writers /\ Step.dst = p
      <4>1. CASE Due
        BY <1>1, <1>4, <2>2, <3>2, <4>1, CleanCommand
      <4>2. CASE ~Due
        <5>1. fs' = fs
          BY <2>2, <3>2, <4>2 DEF Exec, SkipAnd, Test, Clone, Reset, Download, Remove, Mkdir, Copy,
                                  Derive, Jobs, Fuzz, Grep, At
        <5> QED
          BY <3>1, <5>1
      <4> QED
        BY <4>1, <4>2
    <3>3. CASE ~(Step.op \in Writers /\ Step.dst = p)
      BY <1>1, <2>2, <3>1, <3>3, ExecLeaves
    <3> QED
      BY <3>2, <3>3
  <2> QED
    BY <1>1, <1>2, <1>6, <2>1, <2>2, ProvidedStep
<1>7. ASSUME NEW p \in Paths, Obtained(Script, pc', p) PROVE Exists(p)'
  <2>1. CASE /\ Step.op \in {"clone", "clone-n", "svn", "wget", "tar"}
             /\ Step.dst = p /\ Step.cond = "always"
    <3>1. fs'[p].rev # "none"
      BY <1>1, <1>4, <2>1, CleanCommand DEF Due
    <3> QED
      BY <3>1 DEF Exists
  <2>2. CASE Step.op \in Tests /\ Step.dst = p /\ Step.cond = "always" /\ pc' # pc + 1
    BY <2>2, TestPasses DEF Exists
  <2>3. CASE /\ Obtained(Script, pc, p)
             /\ Step.op \in Writers /\ Step.dst = p => Step.op \in Fetchers
             /\ Step.op = "remove" => p \notin Step.src
    <3>1. Exists(p)
      BY <1>3, <2>3 DEF Supplies
    <3>2. CASE Step.op \in Writers /\ Step.dst = p
      BY <1>1, <2>3, <3>1, <3>2, FetchKeeps
    <3>3. CASE ~(Step.op \in Writers /\ Step.dst = p)
      BY <1>1, <2>3, <3>1, <3>3, ExecLeaves DEF Exists
    <3> QED
      BY <3>2, <3>3
  <2> QED
    BY <1>1, <1>2, <1>7, <2>1, <2>2, <2>3, ObtainedStep
<1>8. ASSUME pc' > Len(Script) PROVE status'
  <2>1. pc' = pc + 1 /\ pc = Len(Script)
    <3>1. Step.op \in Tests => pc + 1 + Step.skip <= Len(Script)
      BY <1>1, BuildContext DEF SelfSufficient, EndsWith
    <3>2. Reaches(Step, pc, pc') /\ Step.skip \in Nat
      BY <1>1, <1>2, BuildContext DEF Steps
    <3>3. pc' = pc + 1
      BY <1>1, <1>8, <3>1, <3>2 DEF Reaches
    <3> QED
      BY <1>1, <1>8, <3>3
  <2>2. Step.op \in Derivers /\ Step.cond = "always"
    BY <1>1, <2>1, BuildContext DEF SelfSufficient, EndsWith, Unconditional
  <2>3. Step.dst \in Paths
    BY <1>1, <2>2 DEF Derivers, Makers, Writers
  <2> QED
    BY <1>1, <1>4, <2>2, <2>3, CleanCommand DEF Due
<1> QED
  BY <1>1, <1>5, <1>6, <1>7, <1>8, BuildContext DEF Supplies, Supplied, Untouched

-----------------------------------------------------------------------------
(* The test that follows, and the invariant.                               *)

\* The test leaves alone what was built, or one of the sources it was built from that was not
\* sound.
LEMMA SpoiledStep ==
  ASSUME CleanInv, Exec, phase = "test", mode = "both", clean'
  PROVE  (\A x \in Executables[bench] : Supplied(x)') \/ Spoiled'
<1> DEFINE sources == Sources(BuildScript[bench], Len(BuildScript[bench]) + 1)
<1>1. /\ TypeOK /\ HarmlessTest(bench) /\ Script = TestScript[bench] /\ Running /\ clean
      /\ Untouched /\ Script' = Script /\ pc' \in Nat
  BY ExecRuns, CleanBefore, ExecType, Advance DEF CleanInv, Buildable, TypeOK, Script
<1>2. /\ Script \in Seq(Steps) /\ pc \in 1..Len(Script) /\ Len(Script) \in Nat
      /\ Step = Script[pc]
  BY <1>1, ScriptType, StepType DEF Step
<1>3. CASE \A x \in Executables[bench] : Supplied(x)
  <2>1. ASSUME NEW x \in Executables[bench] PROVE fs'[x] = fs[x]
    <3>1. x \in Paths
      BY <1>1, ScriptsAssumption DEF TypeOK
    <3>2. /\ Step.op \in Writers => Step.dst # x
          /\ Step.op = "remove" => x \notin Step.src
      BY <1>1, <1>2 DEF HarmlessTest
    <3> QED
      BY <1>1, <3>1, <3>2, ExecLeaves
  <2> QED
    BY <1>1, <1>3, <2>1 DEF Supplied, Untouched
<1>4. ASSUME NEW p \in sources, fs[p].rev \notin {"none", "pinned"}, ~Guarded(Script, pc, p)
      PROVE  Spoiled'
  <2>1. p \in Paths /\ Exists(p)
    BY <1>4 DEF Sources, Exists
  <2>2. /\ Step.op \in Writers => Step.dst # p
        /\ Step.op = "remove" => p \notin Step.src
    BY <1>1, <1>2, <1>4 DEF HarmlessTest
  <2>3. fs'[p] = fs[p]
    BY <1>1, <2>1, <2>2, ExecLeaves
  <2>4. ~Guarded(Script, pc', p)
    <3>1. ASSUME Guarded(Script, pc', p) PROVE FALSE
      <4>1. CASE Reaches(Step, pc, pc')
        <5>1. /\ Step.op \in Tests /\ Step.dst = p /\ Step.cond = "always"
              /\ pc' # pc + 1 + Step.skip
          BY <1>1, <1>2, <1>4, <3>1, <4>1, GuardedStep
        <5> QED
          BY <2>1, <5>1, TestPasses
      <4>2. CASE pc' = Len(Script) + 1
        BY <1>2, <3>1, <4>2 DEF Guarded
      <4> QED
        BY <1>1, <4>1, <4>2, Advance
    <3> QED
      BY <3>1
  <2>5. p \in Sources(BuildScript[bench'], Len(BuildScript[bench']) + 1)
    BY <1>1, <1>4 DEF Untouched
  <2> QED
    BY <1>1, <1>4, <2>3, <2>4, <2>5 DEF Spoiled
<1>5. (\A x \in Executables[bench] : Supplied(x)) \/ Spoiled
  BY <1>1 DEF CleanInv
<1> QED
  BY <1>3, <1>4, <1>5 DEF Spoiled

\* Sound sources are those of every command, so none is spoiled.
LEMMA SoundSources ==
  ASSUME NEW b \in Benchmarks, NEW files,
         \A i \in DOMAIN BuildScript[b] :
           \A p \in BuildScript[b][i].src \ Artifacts : files[p].rev \in {"none", "pinned"},
         NEW n \in Nat, NEW p \in Sources(BuildScript[b], n)
  PROVE  files[p].rev \in {"none", "pinned"}
<1>1. BuildScript[b] \in Seq(Steps)
  BY ScriptsAssumption
<1>2. PICK i \in 1..(n - 1) : i <= Len(BuildScript[b]) /\ p \in BuildScript[b][i].src
  BY DEF Sources
<1>3. i \in DOMAIN BuildScript[b]
  BY <1>1, <1>2
<1>4. p \notin Artifacts
  BY DEF Sources
<1> QED
  BY <1>2, <1>3, <1>4

\* A build that has ended cleanly has made what it promises, or had a source that was not sound.
LEMMA BuildEnds ==
  ASSUME CleanInv, EndBuild, clean
  PROVE  \/ status /\ \A x \in Executables[bench] : Supplied(x)
         \/ \E p \in Sources(BuildScript[bench], Len(BuildScript[bench]) + 1) :
              fs[p].rev \notin {"none", "pinned"}
<1>1. /\ TypeOK /\ SelfSufficient(bench) /\ phase = "build" /\ Script = BuildScript[bench]
      /\ Script \in Seq(Steps) /\ pc \in Nat /\ pc > Len(Script) /\ Len(Script) \in Nat
  <2>1. TypeOK /\ phase = "build" /\ pc > Len(Script) /\ bench \in Buildable
    BY DEF EndBuild, CleanInv
  <2>2. Script \in Seq(Steps)
    BY <2>1, ScriptType
  <2> QED
    BY <2>1, <2>2 DEF Buildable, TypeOK, Script
<1>2. CASE Trusted
  <2>1. Supplies
    BY <1>1, <1>2 DEF CleanInv
  <2>2. pc = Len(Script) + 1 /\ status
    BY <1>1, <2>1 DEF Supplies
  <2>3. ASSUME NEW x \in Executables[bench] PROVE Supplied(x)
    <3>1. x \in Paths /\ Provided(Script, pc, x)
      BY <1>1, <2>2, ScriptsAssumption DEF TypeOK, SelfSufficient
    <3> QED
      BY <2>1, <3>1 DEF Supplies
  <2> QED
    BY <2>2, <2>3
<1>3. CASE ~Trusted
  <2>1. PICK p \in Sources(BuildScript[bench], pc) : fs[p].rev \notin {"none", "pinned"}
    BY <1>3 DEF Trusted
  <2>2. p \in Sources(BuildScript[bench], Len(BuildScript[bench]) + 1)
    BY <1>1, <2>1, SourcesGrow
  <2> QED
    BY <2>1, <2>2
<1> QED
  BY <1>2, <1>3

LEMMA CleanInvStep == ASSUME CleanInv, [Next]_vars PROVE CleanInv'
<1>0. TypeOK /\ TypeOK' /\ bench' \in Buildable
  <2>1. bench' = bench
    BY DEF Next, vars, SkipAnd, Test, Clone, Reset, Download, Remove, Mkdir, Copy, Derive, Jobs,
           Fuzz, Grep, Untouched, Start, EndBuild, EndTest, Kill
  <2> QED
    BY <2>1, TypeStep DEF CleanInv
<1> DEFINE promised == \A x \in Executables[bench] : Supplied(x)
           unsound == \E p \in Sources(BuildScript[bench], Len(BuildScript[bench]) + 1) :
                        fs[p].rev \notin {"none", "pinned"}
<1>b. bench \in Benchmarks /\ bench' \in Benchmarks
  BY <1>0 DEF TypeOK
<1>c. \A b \in Benchmarks : Len(BuildScript[b]) + 1 \in Nat
  BY ScriptsAssumption
<1>a. unsound => ~SourcesSound
  BY <1>b, <1>c, SoundSources DEF SourcesSound
<1>1. CASE Exec
  <2>1. Running /\ phase \in {"build", "test"} /\ Untouched /\ Script' = Script
    BY <1>0, <1>1, ExecRuns, ExecType, Advance DEF TypeOK, Running
  <2>2. verdict' = "none" /\ phase' = phase /\ mode' = mode /\ bench' = bench
    BY <2>1 DEF CleanInv, Untouched
  <2>3. CASE phase = "build"
    <3>1. clean' /\ Trusted' => Supplies'
      BY <1>1, <2>3, SuppliesStep
    <3>2. CleanRunBuilds'
      BY <2>2, <2>3 DEF CleanRunBuilds, Built
    <3> QED
      BY <1>0, <2>2, <2>3, <3>1, <3>2 DEF CleanInv
  <2>4. CASE phase = "test"
    <3>1. mode = "both" /\ clean' => (\A x \in Executables[bench] : Supplied(x)') \/ Spoiled'
      BY <1>1, <2>4, SpoiledStep
    <3>2. Spoiled' => ~SourcesSound'
      <4>1. SourcesSound' =>
              \A p \in Sources(BuildScript[bench'], Len(BuildScript[bench']) + 1) :
                fs'[p].rev \in {"none", "pinned"}
        BY <1>b, <1>c, SoundSources DEF SourcesSound
      <4> QED
        BY <4>1 DEF Spoiled
    <3>3. CleanRunBuilds'
      BY <2>2, <2>4, <3>1, <3>2 DEF CleanRunBuilds, Built
    <3> QED
      BY <1>0, <2>2, <2>4, <3>1, <3>3 DEF CleanInv, Supplied
  <2> QED
    BY <2>1, <2>3, <2>4
<1>2. ASSUME NEW m \in {"both", "build", "test"}, Start(m) PROVE CleanInv'
  <2>1. /\ phase' = IF m = "test" THEN "test" ELSE "build"
        /\ pc' = 1 /\ mode' = m /\ verdict' = "none" /\ bench' = bench
    BY <1>2 DEF Start
  <2>2. CleanRunBuilds'
    BY <2>1 DEF CleanRunBuilds, Built
  <2>3. ASSUME phase' = "build" PROVE Supplies'
    <3>1. Script' = BuildScript[bench] /\ SelfSufficient(bench) /\ Script' \in Seq(Steps)
      BY <1>0, <2>1, <2>3, ScriptsAssumption DEF Script, CleanInv, Buildable, TypeOK
    <3>2. Len(Script') \in Nat /\ Len(Script') >= 1
      <4>1. Len(Script') \in Nat /\ (Len(Script') = 0 => Script' = << >>)
        BY <3>1
      <4>2. Script' # << >>
        BY <3>1 DEF SelfSufficient, EndsWith
      <4> QED
        BY <4>1, <4>2
    <3>3. \A p : ~Provided(Script', 1, p) /\ ~Obtained(Script', 1, p)
      BY DEF Provided, Obtained
    <3> QED
      BY <2>1, <3>2, <3>3 DEF Supplies
  <2> QED
    BY <1>0, <2>1, <2>2, <2>3 DEF CleanInv
<1>3. CASE EndBuild
  <2>1. /\ phase = "build" /\ fs' = fs /\ bench' = bench /\ mode' = mode /\ clean' = clean
        /\ verdict = "none" /\ phase' \in {"test", "idle"} /\ run' = run
        /\ phase' = "test" => status /\ mode = "both" /\ pc' = 1 /\ verdict' = verdict
        /\ phase' = "idle" => verdict' = IF status THEN "built" ELSE "failed"
    BY <1>3 DEF EndBuild, CleanInv
  <2>2. clean => (status /\ promised) \/ unsound
    BY <1>3, BuildEnds
  <2>3. (promised' <=> promised) /\ (SourcesSound' <=> SourcesSound)
    BY <2>1 DEF Supplied, SourcesSound
  <2>4. CleanRunBuilds'
    BY <1>a, <2>1, <2>2, <2>3 DEF CleanRunBuilds, Built, Supplied
  <2>5. phase' = "test" /\ clean' => promised' \/ Spoiled'
    <3>1. \A p : ~Guarded(Script', 1, p)
      BY DEF Guarded
    <3>2. phase' = "test" /\ unsound => Spoiled'
      BY <2>1, <3>1 DEF Spoiled
    <3> QED
      BY <2>1, <2>2, <2>3, <3>2
  <2> QED
    BY <1>0, <2>1, <2>4, <2>5 DEF CleanInv
<1>4. CASE EndTest
  <2>1. /\ phase = "test" /\ phase' = "idle" /\ fs' = fs /\ bench' = bench /\ mode' = mode
        /\ clean' = clean /\ run' = run /\ verdict = "none" /\ verdict' \in {"pass", "fail"}
    BY <1>4 DEF EndTest, CleanInv
  <2>2. mode = "both" /\ clean => promised \/ unsound
    BY <2>1 DEF CleanInv, Spoiled
  <2>3. (promised' <=> promised) /\ (SourcesSound' <=> SourcesSound)
    BY <2>1 DEF Supplied, SourcesSound
  <2>4. CleanRunBuilds'
    BY <1>a, <2>1, <2>2, <2>3 DEF CleanRunBuilds, Built, Supplied
  <2> QED
    BY <1>0, <2>1, <2>4 DEF CleanInv
<1>5. CASE Kill
  BY <1>0, <1>5 DEF Kill, CleanInv, CleanRunBuilds
<1>6. CASE UNCHANGED vars
  <2>1. /\ Trusted' <=> Trusted
        /\ Supplies' <=> Supplies
        /\ Spoiled' <=> Spoiled
        /\ CleanRunBuilds' <=> CleanRunBuilds
    BY <1>6 DEF vars, Trusted, Supplies, Spoiled, CleanRunBuilds, SourcesSound, Built, Supplied, Exists,
                Script
  <2> QED
    BY <1>0, <1>6, <2>1 DEF vars, CleanInv, Supplied
<1> QED
  BY <1>1, <1>2, <1>3, <1>4, <1>5, <1>6 DEF Next, Exec

LEMMA CleanInvInit == Init /\ bench \in Buildable => CleanInv
  BY TypeInit DEF Init, CleanInv, CleanRunBuilds, Built

-----------------------------------------------------------------------------
(* The theorems.                                                           *)

\* The discipline is enough: from the start on, whatever fails and whenever an invocation is
\* killed, a reliable benchmark keeps what a step has renewed fresh until it is used, and one
\* that keeps its logs finds nothing in those of an earlier invocation.
THEOREM Invariance == Spec => []DisciplineInv
<1>1. Init => DisciplineInv
  BY InvInit, CleanInvInit, TypeInit DEF DisciplineInv, LogInv, Init
<1>2. DisciplineInv /\ [Next]_vars => DisciplineInv'
  <2> SUFFICES ASSUME DisciplineInv, [Next]_vars PROVE DisciplineInv'
    OBVIOUS
  <2>1. bench' = bench
    BY DEF Next, vars, SkipAnd, Test, Clone, Reset, Download, Remove, Mkdir, Copy, Derive, Jobs,
           Fuzz, Grep, Untouched, Start, EndBuild, EndTest, Kill
  <2>2. bench' \in Reliable => Inv'
    BY <2>1, InvStep DEF DisciplineInv
  <2>3. bench' \in LogKeepers => LogInv'
    BY <2>1, LogInvStep DEF DisciplineInv
  <2>4. bench' \in Buildable => CleanInv'
    BY <2>1, CleanInvStep DEF DisciplineInv
  <2> QED
    BY <2>2, <2>3, <2>4 DEF DisciplineInv
<1> QED
  BY <1>1, <1>2, PTL DEF Spec

\* For every disciplined pair of scripts, whatever fails and whenever it is killed: build.sh
\* exits 0 only when this invocation linked the executable, and made all the libraries, objects
\* and the engine that went into it as well.
THEOREM ExitZero == Spec => []ReliableBuild
<1>1. Inv => ExitZeroMeansBuilt
  <2> SUFFICES ASSUME Inv, Built PROVE Linked
    BY DEF ExitZeroMeansBuilt, Linked
  <2> QED
    BY DEF Built, Inv, TestInv, EndInv
<1>2. DisciplineInv => ReliableBuild
  BY <1>1 DEF DisciplineInv, ReliableBuild
<1> QED
  BY <1>2, Invariance, PTL

\* For every disciplined pair of scripts: build-and-test.sh passes only on logs this
\* invocation's fuzzer wrote, with the executable this invocation built.
THEOREM OwnBuild == Spec => []ReliablePass
<1>1. DisciplineInv => ReliablePass
  BY DEF Inv, EndInv, Own, PassIsOwnBuild, DisciplineInv, ReliablePass
<1> QED
  BY <1>1, Invariance, PTL

\* For every test script that renews what it greps, after any build, alone or not: the test
\* passes only on logs this invocation's fuzzer wrote, when there is an executable to run or
\* the script removes the old logs itself (PassIsOwnLog).
THEOREM OwnLog == Spec => [](bench \in LogKeepers => PassIsOwnLog)
<1>1. DisciplineInv => (bench \in LogKeepers => PassIsOwnLog)
  BY DEF DisciplineInv, LogInv, OwnEvidence, PassIsOwnLog
<1> QED
  BY <1>1, Invariance, PTL

\* For every build.sh that makes or fetches all it reads, and a test that leaves that alone: an
\* invocation that meets no fault and has sound sources builds, from the pinned revision, with
\* no object, library or engine that earlier invocations have left behind.
THEOREM CleanRuns == Spec => [](bench \in Buildable => CleanRunBuilds)
<1>1. DisciplineInv => (bench \in Buildable => CleanRunBuilds)
  BY DEF DisciplineInv, CleanInv
<1> QED
  BY <1>1, Invariance, PTL
=============================================================================
