------------------------ MODULE TestEverythingProofs ------------------------
(***************************************************************************)
(* Proofs about test-everything.sh for any set of benchmarks and any number *)
(* of invocations: an invocation that starts when no job of an earlier one  *)
(* is alive gives each of its jobs a run directory of its own.              *)
(***************************************************************************)
EXTENDS TestEverything, TLAPS

\* A job that has entered $PARENT_DIR found one, and only a job at work is inside a run directory.
Entered ==
  \A j \in Jobs :
    /\ job[j] \in {"redirect", "mkdir", "enter", "work", "report"} => cwd[j] # 0
    /\ j \in inside => job[j] \in {"work", "report"}

\* Only jobs of the last invocation are alive, and they have been started by its loop.
OnlyOwnJobs ==
  \A j \in Jobs : Alive(j) => j[1] = inv /\ step \in {"loop", "idle"}

\* rm has listed all there is, and mkdir finds nothing.
Cleared ==
  /\ step = "rm" => \A b \in Benchmarks : Present(b) => b \in listed
  /\ step = "mkdir" => parent = 0 /\ \A b \in Benchmarks : ~Present(b)

\* What is in the directory is of the last invocation.
OwnFiles ==
  step = "loop" \/ (\E j \in Jobs : Alive(j)) =>
    /\ parent = inv
    /\ \A b \in Benchmarks :
         /\ HasRunDir(b) => rundir[b] \subseteq {inv}
         /\ out[b] # NoOut => out[b].by = {inv}

Started == step # "idle" => inv # 0

IInv == TypeOK /\ Started /\ Entered /\ (quiet => OnlyOwnJobs /\ Cleared /\ OwnFiles)

-----------------------------------------------------------------------------
LEMMA InitIInv == Init => IInv
BY RunsAssumption DEF Init, IInv, TypeOK, Started, Entered, OnlyOwnJobs, Cleared, OwnFiles, Alive,
   HasRunDir, Present, NoDir, NoOut, Jobs, Runs, Linked

\* What every step needs to know of a job.
LEMMA JobParts ==
  ASSUME NEW j \in Jobs
  PROVE  j[1] \in Runs /\ j[2] \in Benchmarks /\ j[1] # 0 /\ j[1] \in 0..MaxRuns /\ j = << j[1], j[2] >>
BY RunsAssumption DEF Jobs, Runs

\* A run directory that a job has written into is there.
LEMMA WrittenExists ==
  ASSUME NEW S, NEW i \in Runs
  PROVE  S \union {i} # NoDir
BY RunsAssumption DEF Runs, NoDir

-----------------------------------------------------------------------------
(* The script.                                                             *)

LEMMA StartKeeps == IInv /\ Start => IInv'
<1> SUFFICES ASSUME IInv, Start PROVE IInv'
  OBVIOUS
<1> USE RunsAssumption
<1>1. TypeOK' /\ Started'
  BY DEF IInv, TypeOK, Start, Started, Linked, HasRunDir, Runs, Present
<1>2. Entered'
  BY DEF IInv, Entered, Start
<1>3. quiet' => OnlyOwnJobs' /\ Cleared' /\ OwnFiles'
  <2> SUFFICES ASSUME quiet' PROVE OnlyOwnJobs' /\ Cleared' /\ OwnFiles'
    OBVIOUS
  <2>1. \A j \in Jobs : ~Alive(j)'
    BY DEF Start, Alive
  <2>2. Cleared'
    BY DEF Start, Cleared, Present, HasRunDir
  <2> QED
    BY <2>1, <2>2 DEF Start, OnlyOwnJobs, OwnFiles
<1> QED
  BY <1>1, <1>2, <1>3 DEF IInv

LEMMA RemoveEntriesKeeps ==
  ASSUME IInv, NEW b \in Benchmarks, RemoveEntries(b)
  PROVE  IInv'
<1> USE RunsAssumption
<1> DEFINE here == {j \in inside : j[2] = b /\ cwd[j] = parent}
<1>1. CASE rundir' = [rundir EXCEPT ![b] = NoDir] /\ inside' = inside \ here
  <2>1. \A j \in inside' : j \in inside /\ j[2] # b /\ j \in Jobs
    BY <1>1 DEF IInv, TypeOK, Linked
  <2>2. TypeOK'
    BY <1>1, <2>1, JobParts DEF IInv, TypeOK, RemoveEntries, Linked, HasRunDir, NoDir, NoOut
  <2>3. Entered' /\ Started'
    BY <2>1 DEF IInv, Entered, Started, RemoveEntries
  <2>4. quiet' => OnlyOwnJobs' /\ Cleared' /\ OwnFiles'
    BY <1>1 DEF IInv, TypeOK, RemoveEntries, OnlyOwnJobs, Cleared, OwnFiles, Alive, Present, HasRunDir
  <2> QED
    BY <2>2, <2>3, <2>4 DEF IInv
<1>2. CASE here # {} /\ UNCHANGED << rundir, inside >>
  <2>1. ~quiet
    <3>1. PICK j \in here : TRUE
      BY <1>2
    <3>2. j \in Jobs /\ Alive(j)
      BY <3>1 DEF IInv, TypeOK, Entered, Alive
    <3> QED
      BY <3>2 DEF IInv, OnlyOwnJobs, RemoveEntries
  <2>2. TypeOK'
    BY <1>2 DEF IInv, TypeOK, RemoveEntries, Linked, HasRunDir, NoOut
  <2>3. Entered' /\ Started'
    BY <1>2 DEF IInv, Entered, Started, RemoveEntries
  <2> QED
    BY <2>1, <2>2, <2>3 DEF IInv, RemoveEntries
<1> QED
  BY <1>1, <1>2 DEF RemoveEntries

LEMMA RemoveParentKeeps == IInv /\ RemoveParent => IInv'
<1> SUFFICES ASSUME IInv, RemoveParent PROVE IInv'
  OBVIOUS
<1> USE RunsAssumption
<1>1. TypeOK'
  <2>1. \A j \in inside : j[2] \in Benchmarks /\ Present(j[2])
    BY JobParts DEF IInv, TypeOK, Present
  <2>2. inside # {} => parent' = parent
    BY <2>1 DEF RemoveParent
  <2> QED
    BY <2>2 DEF IInv, TypeOK, RemoveParent, Linked, HasRunDir
<1>2. Entered' /\ Started'
  BY DEF IInv, Entered, Started, RemoveParent
<1>3. quiet' => OnlyOwnJobs' /\ Cleared' /\ OwnFiles'
  BY DEF IInv, TypeOK, RemoveParent, OnlyOwnJobs, Cleared, OwnFiles, Alive, Present, HasRunDir
<1> QED
  BY <1>1, <1>2, <1>3 DEF IInv

LEMMA MakeParentKeeps == IInv /\ MakeParent => IInv'
<1> SUFFICES ASSUME IInv, MakeParent PROVE IInv'
  OBVIOUS
<1> USE RunsAssumption
<1>1. TypeOK'
  <2>1. inside # {} => parent' = parent
    BY DEF IInv, TypeOK, Entered, Linked, MakeParent
  <2> QED
    BY <2>1 DEF IInv, TypeOK, MakeParent, Linked, HasRunDir
<1>2. Entered' /\ Started'
  BY DEF IInv, Entered, Started, MakeParent
<1>3. quiet' => OnlyOwnJobs' /\ Cleared' /\ OwnFiles'
  BY DEF IInv, TypeOK, MakeParent, OnlyOwnJobs, Cleared, OwnFiles, Alive, Present, HasRunDir
<1> QED
  BY <1>1, <1>2, <1>3 DEF IInv

LEMMA LaunchKeeps ==
  ASSUME IInv, NEW b \in Benchmarks, Launch(b)
  PROVE  IInv'
<1> USE RunsAssumption
<1>0. << inv, b >> \in Jobs /\ << inv, b >>[1] = inv
  BY DEF IInv, TypeOK, Started, Launch, Jobs, Runs
<1>1. TypeOK'
  BY <1>0 DEF IInv, TypeOK, Launch, Linked, HasRunDir
<1>2. Entered' /\ Started'
  BY <1>0 DEF IInv, TypeOK, Entered, Started, Launch
<1>3. quiet' => OnlyOwnJobs' /\ Cleared' /\ OwnFiles'
  BY <1>0 DEF IInv, TypeOK, Launch, OnlyOwnJobs, Cleared, OwnFiles, Alive, Present, HasRunDir
<1> QED
  BY <1>1, <1>2, <1>3 DEF IInv

LEMMA EndLoopKeeps == IInv /\ EndLoop => IInv'
<1> SUFFICES ASSUME IInv, EndLoop PROVE IInv'
  OBVIOUS
<1> USE RunsAssumption
<1>1. TypeOK' /\ Entered' /\ Started'
  BY DEF IInv, TypeOK, Entered, Started, EndLoop, Linked, HasRunDir
<1>2. quiet' => OnlyOwnJobs' /\ Cleared' /\ OwnFiles'
  BY DEF IInv, TypeOK, EndLoop, OnlyOwnJobs, Cleared, OwnFiles, Alive, Present, HasRunDir
<1> QED
  BY <1>1, <1>2 DEF IInv

-----------------------------------------------------------------------------
(* The jobs.                                                               *)

LEMMA CdKeeps ==
  ASSUME IInv, NEW j \in Jobs, Cd(j)
  PROVE  IInv'
<1> USE RunsAssumption, JobParts
<1>1. j \notin inside
  BY DEF IInv, Entered, Cd
<1>2. TypeOK' /\ Started'
  BY <1>1 DEF IInv, TypeOK, Started, Cd, Goes, Linked, HasRunDir
<1>3. Entered'
  BY <1>1 DEF IInv, TypeOK, Entered, Cd, Goes
<1>4. quiet' => OnlyOwnJobs' /\ Cleared' /\ OwnFiles'
  BY DEF IInv, TypeOK, Cd, Goes, OnlyOwnJobs, Cleared, OwnFiles, Alive, Present, HasRunDir
<1> QED
  BY <1>2, <1>3, <1>4 DEF IInv

LEMMA RedirectKeeps ==
  ASSUME IInv, NEW j \in Jobs, Redirect(j)
  PROVE  IInv'
<1> USE RunsAssumption, JobParts
<1>1. j \notin inside
  BY DEF IInv, Entered, Redirect
<1>2. TypeOK'
  <2>1. out' \in [Benchmarks -> [by : SUBSET (0..MaxRuns), done : SUBSET Runs]]
    <3>1. out[j[2]].by \subseteq 0..MaxRuns
      BY DEF IInv, TypeOK
    <3>2. [by |-> (out[j[2]].by \ {0}) \union {j[1]}, done |-> {}]
            \in [by : SUBSET (0..MaxRuns), done : SUBSET Runs]
      BY <3>1
    <3> QED
      BY <3>2 DEF IInv, TypeOK, Redirect
  <2> QED
    BY <1>1, <2>1 DEF IInv, TypeOK, Redirect, Goes, Linked, HasRunDir
<1>4. Started' /\ Entered'
  BY <1>1 DEF IInv, TypeOK, Started, Entered, Redirect, Goes
<1>3. quiet' => OnlyOwnJobs' /\ Cleared' /\ OwnFiles'
  <2> SUFFICES ASSUME quiet' PROVE OnlyOwnJobs' /\ Cleared' /\ OwnFiles'
    OBVIOUS
  <2>1. quiet /\ j[1] = inv /\ step \in {"loop", "idle"} /\ parent = inv
    BY DEF IInv, Redirect, OnlyOwnJobs, OwnFiles, Alive
  <2>2. OnlyOwnJobs' /\ Cleared'
    BY <2>1 DEF IInv, TypeOK, Redirect, Goes, OnlyOwnJobs, Cleared, Alive
  <2>3. \A b \in Benchmarks : out'[b] # NoOut => out'[b].by = {inv}
    <3> SUFFICES ASSUME NEW b \in Benchmarks, out'[b] # NoOut PROVE out'[b].by = {inv}
      OBVIOUS
    <3>1. out[b] # NoOut => out[b].by = {inv}
      BY <2>1 DEF IInv, Redirect, OwnFiles, Alive
    <3>2. (out[b].by \ {0}) \union {inv} = {inv}
      BY <3>1 DEF NoOut
    <3> QED
      BY <2>1, <3>1, <3>2 DEF IInv, TypeOK, Redirect
  <2>4. OwnFiles'
    BY <2>1, <2>3 DEF IInv, Redirect, OwnFiles, Alive, HasRunDir
  <2> QED
    BY <2>2, <2>4
<1> QED
  BY <1>2, <1>3, <1>4 DEF IInv

LEMMA MakeRunDirKeeps ==
  ASSUME IInv, NEW j \in Jobs, MakeRunDir(j)
  PROVE  IInv'
<1> USE RunsAssumption, JobParts
<1>1. j \notin inside
  BY DEF IInv, Entered, MakeRunDir
<1>2. TypeOK' /\ Started' /\ Entered'
  BY <1>1 DEF IInv, TypeOK, Started, Entered, MakeRunDir, Goes, Linked, HasRunDir, NoDir
<1>3. quiet' => OnlyOwnJobs' /\ Cleared' /\ OwnFiles'
  BY DEF IInv, TypeOK, MakeRunDir, Goes, OnlyOwnJobs, Cleared, OwnFiles, Alive, Present, HasRunDir
<1> QED
  BY <1>2, <1>3 DEF IInv

LEMMA NoSuchFileKeeps ==
  ASSUME IInv, NEW j \in Jobs, NoSuchFile(j)
  PROVE  IInv'
<1> USE RunsAssumption, JobParts
<1>1. TypeOK' /\ Started' /\ Entered'
  BY DEF IInv, TypeOK, Started, Entered, NoSuchFile, Goes, Linked, HasRunDir
<1>2. quiet' => OnlyOwnJobs' /\ Cleared' /\ OwnFiles'
  BY DEF IInv, TypeOK, NoSuchFile, Goes, OnlyOwnJobs, Cleared, OwnFiles, Alive, Present, HasRunDir
<1> QED
  BY <1>1, <1>2 DEF IInv

LEMMA EnterKeeps ==
  ASSUME IInv, NEW j \in Jobs, Enter(j)
  PROVE  IInv'
<1> USE RunsAssumption, JobParts
<1>1. TypeOK' /\ Started' /\ Entered'
  BY DEF IInv, TypeOK, Started, Entered, Enter, Goes, Linked, HasRunDir
<1>2. quiet' => OnlyOwnJobs' /\ Cleared' /\ OwnFiles'
  BY DEF IInv, TypeOK, Enter, Goes, OnlyOwnJobs, Cleared, OwnFiles, Alive, Present, HasRunDir
<1> QED
  BY <1>1, <1>2 DEF IInv

LEMMA WorkKeeps ==
  ASSUME IInv, NEW j \in Jobs, Work(j)
  PROVE  IInv'
<1> USE RunsAssumption, JobParts
<1>1. \A b \in Benchmarks : HasRunDir(b) => HasRunDir(b)'
  BY WrittenExists DEF IInv, TypeOK, Work, HasRunDir
<1>2. TypeOK' /\ Started' /\ Entered'
  BY <1>1 DEF IInv, TypeOK, Started, Entered, Work, Goes, Linked
<1>3. quiet' => OnlyOwnJobs' /\ Cleared' /\ OwnFiles'
  <2> SUFFICES ASSUME quiet' PROVE OnlyOwnJobs' /\ Cleared' /\ OwnFiles'
    OBVIOUS
  <2>1. quiet /\ j[1] = inv /\ step \in {"loop", "idle"} /\ parent = inv
    BY DEF IInv, Work, OnlyOwnJobs, OwnFiles, Alive
  <2>2. OnlyOwnJobs' /\ Cleared'
    BY <2>1 DEF IInv, TypeOK, Work, Goes, OnlyOwnJobs, Cleared, Alive
  <2>3. OwnFiles'
    BY <2>1 DEF IInv, TypeOK, Work, OwnFiles, Alive, HasRunDir
  <2> QED
    BY <2>2, <2>3
<1> QED
  BY <1>2, <1>3 DEF IInv

LEMMA ReportKeeps ==
  ASSUME IInv, NEW j \in Jobs, Report(j)
  PROVE  IInv'
<1> USE RunsAssumption, JobParts
<1>1. TypeOK' /\ Started' /\ Entered'
  BY DEF IInv, TypeOK, Started, Entered, Report, Goes, Linked, HasRunDir
<1>2. quiet' => OnlyOwnJobs' /\ Cleared' /\ OwnFiles'
  <2> SUFFICES ASSUME quiet' PROVE OnlyOwnJobs' /\ Cleared' /\ OwnFiles'
    OBVIOUS
  <2>1. quiet /\ step \in {"loop", "idle"} /\ parent = inv
    BY DEF IInv, Report, OnlyOwnJobs, OwnFiles, Alive
  <2>2. OnlyOwnJobs' /\ Cleared'
    BY <2>1 DEF IInv, TypeOK, Report, Goes, OnlyOwnJobs, Cleared, Alive
  <2>3. \A b \in Benchmarks : out'[b] # NoOut => out'[b].by = {inv}
    <3> SUFFICES ASSUME NEW b \in Benchmarks, out'[b] # NoOut PROVE out'[b].by = {inv}
      OBVIOUS
    <3>1. out[b] # NoOut => out[b].by = {inv}
      BY <2>1 DEF IInv, Report, OwnFiles, Alive
    <3>2. out'[b].by = out[b].by
      BY DEF IInv, TypeOK, Report
    <3>3. out[b] # NoOut
      <4>1. NoOut.by = {0}
        BY DEF NoOut
      <4>2. out[b] = NoOut => out'[b] = out[b]
        BY <4>1 DEF IInv, TypeOK, Report
      <4> QED
        BY <4>2
    <3> QED
      BY <3>1, <3>2, <3>3 DEF Report
  <2>4. OwnFiles'
    BY <2>1, <2>3 DEF IInv, Report, OwnFiles, Alive, HasRunDir
  <2> QED
    BY <2>2, <2>4
<1> QED
  BY <1>1, <1>2 DEF IInv

LEMMA RebootKeeps == IInv /\ Reboot => IInv'
<1> SUFFICES ASSUME IInv, Reboot PROVE IInv'
  OBVIOUS
<1> USE RunsAssumption
<1>1. \A j \in Jobs : ~Alive(j)'
  BY DEF IInv, TypeOK, Reboot, Alive
<1>2. TypeOK' /\ Started' /\ Entered'
  BY <1>1 DEF IInv, TypeOK, Started, Entered, Reboot, Alive
<1>3. OnlyOwnJobs' /\ Cleared' /\ OwnFiles'
  BY <1>1 DEF OnlyOwnJobs, Cleared, OwnFiles, Reboot
<1> QED
  BY <1>2, <1>3 DEF IInv

-----------------------------------------------------------------------------
LEMMA NextKeeps == IInv /\ [Next]_vars => IInv'
<1> SUFFICES ASSUME IInv, [Next]_vars PROVE IInv'
  OBVIOUS
<1>1. CASE Start
  BY <1>1, StartKeeps
<1>2. CASE Script
  BY <1>2, RemoveEntriesKeeps, RemoveParentKeeps, MakeParentKeeps, LaunchKeeps, EndLoopKeeps DEF Script
<1>3. ASSUME NEW j \in Jobs, Job(j) PROVE IInv'
  BY <1>3, CdKeeps, RedirectKeeps, NoSuchFileKeeps, MakeRunDirKeeps, EnterKeeps, WorkKeeps, ReportKeeps DEF Job
<1>4. CASE Reboot
  BY <1>4, RebootKeeps
<1>5. CASE UNCHANGED vars
  BY <1>5 DEF vars, IInv, TypeOK, Started, Entered, OnlyOwnJobs, Cleared, OwnFiles, Alive, Present,
     HasRunDir, Linked
<1> QED
  BY <1>1, <1>2, <1>3, <1>4, <1>5 DEF Next

LEMMA Invariance == Spec => []IInv
BY InitIInv, NextKeeps, PTL DEF Spec

\* Every variable stays in its range, and every job that is inside a run directory is inside one
\* that exists, whatever overlaps and whenever the machine stops.
THEOREM TypeCorrect == Spec => []TypeOK
<1>1. IInv => TypeOK
  BY DEF IInv
<1> QED
  BY <1>1, Invariance, PTL

\* test-everything.sh: when no job of an earlier invocation was alive at its start, every job finds
\* its run directory empty and has it to itself, however many invocations a reboot has cut short.
THEOREM RunDirsAreFresh == Spec => []FreshRunDirs
<1>1. IInv => FreshRunDirs
  <2> SUFFICES ASSUME IInv, quiet, NEW j \in inside
               PROVE  rundir[j[2]] \subseteq {j[1]} /\ j[1] = inv
    BY DEF FreshRunDirs
  <2>1. j \in Jobs /\ Alive(j) /\ HasRunDir(j[2])
    BY DEF IInv, TypeOK, Entered, Alive
  <2> QED
    BY <2>1, JobParts DEF IInv, OnlyOwnJobs, OwnFiles
<1> QED
  BY <1>1, Invariance, PTL

\* test-everything.sh: under the same condition, what the from-B.out files say while the jobs run
\* comes from this invocation.
THEOREM OwnReports == Spec => []ReportsAreOwn
<1>1. IInv => ReportsAreOwn
  BY DEF IInv, ReportsAreOwn, OwnFiles
<1> QED
  BY <1>1, Invariance, PTL
=============================================================================
