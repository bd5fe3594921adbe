--------------------------- MODULE TestEverything ---------------------------
(***************************************************************************)
(* test-everything.sh: it removes and remakes the directory $PARENT_DIR and *)
(* starts build-and-test.sh of every benchmark there, each in the           *)
(* background, (cd P && build-and-test.sh B > from-B.out &).  Nothing waits *)
(* for these jobs, no status is looked at, and the user may start the       *)
(* script again, or the machine may stop, at any moment.                    *)
(*                                                                          *)
(* A directory that is removed lives on for the processes inside it, but    *)
(* nothing can be created in it any more.  So a directory is known by the   *)
(* invocation that made it, not by its name.                                *)
(***************************************************************************)
EXTENDS Naturals

CONSTANTS
  Benchmarks,  \* the directories with a build.sh, ...
  Tested,      \* ... with a test-libfuzzer.sh as well
  MaxRuns      \* bound: invocations per behaviour

ASSUME RunsAssumption == MaxRuns \in Nat

Runs == 1..MaxRuns

Jobs == Runs \X Benchmarks

VARIABLES
  inv,      \* the last invocation
  step,     \* where it is: "rm", "mkdir", "loop", or "idle" when it has ended
  parent,   \* the invocation that made the directory now named $PARENT_DIR, 0: there is none
  listed,   \* the benchmarks whose entries rm has still to remove
  rundir,   \* [Benchmarks -> who wrote into its RUNDIR-B in $PARENT_DIR; NoDir: there is none]
  out,      \* [Benchmarks -> what its from-B.out there says; NoOut: there is none]
  job,      \* [Jobs -> where the job is]
  cwd,      \* [Jobs -> the $PARENT_DIR it has entered, by its maker]
  inside,   \* the jobs whose working directory is the RUNDIR that has its name
  quiet     \* history: no job of an earlier invocation was alive when this one started

vars == << inv, step, parent, listed, rundir, out, job, cwd, inside, quiet >>

\* What a RUNDIR holds: the invocations that wrote into it, {0} when it is not there.
NoDir == {0}

\* What a from-B.out holds: who has opened it since it was made, and who has finished.
NoOut == [by |-> {0}, done |-> {}]

\* The job runs.
Alive(j) == job[j] \notin {"none", "done", "killed"}

\* Files can still be created in the $PARENT_DIR the job has entered.
Linked(j) == cwd[j] = parent

HasRunDir(b) == rundir[b] # NoDir

Init ==
  /\ inv = 0 /\ step = "idle" /\ parent = 0 /\ listed = {}
  /\ rundir = [b \in Benchmarks |-> NoDir]
  /\ out = [b \in Benchmarks |-> NoOut]
  /\ job = [j \in Jobs |-> "none"]
  /\ cwd = [j \in Jobs |-> 0]
  /\ inside = {}
  /\ quiet = TRUE

-----------------------------------------------------------------------------
(* The script.                                                             *)

Present(b) == HasRunDir(b) \/ out[b] # NoOut

\* Mutant: no rm -rf.
Start_keeps ==
  /\ step = "idle" /\ inv < MaxRuns
  /\ inv' = inv + 1
  /\ step' = "mkdir"
  /\ quiet' = \A j \in Jobs : ~Alive(j)
  /\ UNCHANGED << parent, listed, rundir, out, job, cwd, inside >>

\* rm -rf $PARENT_DIR reads the directory.
Start ==
  /\ step = "idle" /\ inv < MaxRuns
  /\ inv' = inv + 1
  /\ step' = "rm"
  /\ listed' = {b \in Benchmarks : Present(b)}
  /\ quiet' = \A j \in Jobs : ~Alive(j)
  /\ UNCHANGED << parent, rundir, out, job, cwd, inside >>

\* rm removes RUNDIR-B and from-B.out, those of a job it did not list perhaps.  A job that
\* creates a file in a RUNDIR while it is emptied keeps it from being removed.
RemoveEntries(b) ==
  /\ step = "rm" /\ Present(b)
  /\ LET here == {j \in inside : j[2] = b /\ cwd[j] = parent}
     IN  \/ /\ rundir' = [rundir EXCEPT ![b] = NoDir]
            /\ inside' = inside \ here
         \/ here # {} /\ UNCHANGED << rundir, inside >>
  /\ out' = [out EXCEPT ![b] = NoOut]
  /\ listed' = listed \ {b}
  /\ UNCHANGED << inv, step, parent, job, cwd, quiet >>

\* Mutant: mkdir before rm -rf.
RemoveParent_late ==
  /\ step = "rm" /\ listed = {}
  /\ parent' = IF \E b \in Benchmarks : Present(b) THEN parent ELSE 0
  /\ step' = "loop"
  /\ UNCHANGED << inv, listed, rundir, out, job, cwd, inside, quiet >>

\* rmdir at the end of rm -rf: only when nothing new is there.
RemoveParent ==
  /\ step = "rm" /\ listed = {}
  /\ parent' = IF \E b \in Benchmarks : Present(b) THEN parent ELSE 0
  /\ step' = "mkdir"
  /\ UNCHANGED << inv, listed, rundir, out, job, cwd, inside, quiet >>

\* mkdir $PARENT_DIR fails when the directory is still there.
MakeParent ==
  /\ step = "mkdir"
  /\ parent' = IF parent = 0 THEN inv ELSE parent
  /\ step' = "loop"
  /\ UNCHANGED << inv, listed, rundir, out, job, cwd, inside, quiet >>

\* One turn of the loop.
Launch(b) ==
  /\ step = "loop" /\ job[<<inv, b>>] = "none"
  /\ job' = [job EXCEPT ![<<inv, b>>] = "cd"]
  /\ UNCHANGED << inv, step, parent, listed, rundir, out, cwd, inside, quiet >>

EndLoop ==
  /\ step = "loop" /\ \A b \in Benchmarks : job[<<inv, b>>] # "none"
  /\ step' = "idle"
  /\ UNCHANGED << inv, parent, listed, rundir, out, job, cwd, inside, quiet >>

-----------------------------------------------------------------------------
(* A job.                                                                  *)

Goes(j, to) == job' = [job EXCEPT ![j] = to]

\* cd $PARENT_DIR && ...
Cd(j) ==
  /\ job[j] = "cd"
  /\ cwd' = [cwd EXCEPT ![j] = parent]
  /\ Goes(j, IF parent = 0 THEN "done" ELSE "redirect")
  /\ UNCHANGED << inv, step, parent, listed, rundir, out, inside, quiet >>

\* > from-B.out: truncates it; in a directory that is gone the command is not started.
Redirect(j) ==
  /\ job[j] = "redirect"
  /\ IF Linked(j)
     THEN out' = [out EXCEPT ![j[2]] = [by |-> (@.by \ {0}) \union {j[1]}, done |-> {}]]
     ELSE UNCHANGED out
  /\ Goes(j, IF Linked(j) THEN "mkdir" ELSE "done")
  /\ UNCHANGED << inv, step, parent, listed, rundir, cwd, inside, quiet >>

\* NO SUCH FILE: build-and-test.sh wants both scripts, and ends before it makes a directory.
NoSuchFile(j) ==
  /\ job[j] = "mkdir" /\ j[2] \notin Tested
  /\ Goes(j, "report")
  /\ UNCHANGED << inv, step, parent, listed, rundir, out, cwd, inside, quiet >>

\* mkdir -p $RUNDIR
MakeRunDir(j) ==
  /\ job[j] = "mkdir" /\ j[2] \in Tested
  /\ IF Linked(j) /\ ~HasRunDir(j[2])
     THEN rundir' = [rundir EXCEPT ![j[2]] = {}]
     ELSE UNCHANGED rundir
  /\ Goes(j, "enter")
  /\ UNCHANGED << inv, step, parent, listed, out, cwd, inside, quiet >>

\* Mutant: takes the job to be in its run directory although cd failed.
Enter_blind(j) ==
  /\ job[j] = "enter"
  /\ inside' = inside \union {j}
  /\ Goes(j, "work")
  /\ UNCHANGED << inv, step, parent, listed, rundir, out, cwd, quiet >>

\* cd $RUNDIR; when it fails the build starts where the job is.
Enter(j) ==
  /\ job[j] = "enter"
  /\ inside' = IF Linked(j) /\ HasRunDir(j[2]) THEN inside \union {j} ELSE inside
  /\ Goes(j, "work")
  /\ UNCHANGED << inv, step, parent, listed, rundir, out, cwd, quiet >>

\* $BUILD && $TEST: writes into the run directory, as long as it has a name.
Work(j) ==
  /\ job[j] = "work"
  /\ rundir' = IF j \in inside THEN [rundir EXCEPT ![j[2]] = @ \union {j[1]}] ELSE rundir
  /\ Goes(j, "report")
  /\ UNCHANGED << inv, step, parent, listed, out, cwd, inside, quiet >>

\* The last lines of the output, if from-B.out is still the file the job has open.
Report(j) ==
  /\ job[j] = "report"
  /\ out' = IF Linked(j) /\ j[1] \in out[j[2]].by
            THEN [out EXCEPT ![j[2]] = [by |-> @.by, done |-> @.done \union {j[1]}]]
            ELSE out
  /\ inside' = inside \ {j}
  /\ Goes(j, "done")
  /\ UNCHANGED << inv, step, parent, listed, rundir, cwd, quiet >>

\* The machine stops: the script and all jobs with it, the files stay.
Reboot ==
  /\ step # "idle" \/ \E j \in Jobs : Alive(j)
  /\ step' = "idle"
  /\ listed' = {}
  /\ job' = [j \in Jobs |-> IF Alive(j) THEN "killed" ELSE job[j]]
  /\ inside' = {}
  /\ UNCHANGED << inv, parent, rundir, out, cwd, quiet >>

Script ==
  \/ \E b \in Benchmarks : RemoveEntries(b) \/ Launch(b)
  \/ RemoveParent \/ MakeParent \/ EndLoop

Job(j) ==
  Cd(j) \/ Redirect(j) \/ NoSuchFile(j) \/ MakeRunDir(j) \/ Enter(j) \/ Work(j) \/ Report(j)

Next == Start \/ Script \/ (\E j \in Jobs : Job(j)) \/ Reboot

\* The scheduler runs the script and every job; build-and-test.sh itself ends.
Fairness == WF_vars(Script) /\ \A j \in Jobs : WF_vars(Job(j))

Spec == Init /\ [][Next]_vars /\ Fairness

-----------------------------------------------------------------------------
(* Properties.                                                             *)

\* Every variable stays in its range, and a job is inside a run directory that exists.
TypeOK ==
  /\ inv \in 0..MaxRuns /\ parent \in 0..inv
  /\ step \in {"idle", "rm", "mkdir", "loop"}
  /\ listed \subseteq Benchmarks
  /\ rundir \in [Benchmarks -> SUBSET (0..MaxRuns)]
  /\ out \in [Benchmarks -> [by : SUBSET (0..MaxRuns), done : SUBSET Runs]]
  /\ job \in [Jobs -> {"none", "cd", "redirect", "mkdir", "enter", "work", "report", "done", "killed"}]
  /\ cwd \in [Jobs -> 0..MaxRuns]
  /\ inside \subseteq {j \in Jobs : Linked(j) /\ HasRunDir(j[2])}
  /\ quiet \in BOOLEAN

\* What rm -rf is for: when no job of an earlier invocation was alive, every job finds its
\* run directory empty and has it to itself, whatever a reboot left there.
FreshRunDirs ==
  quiet => \A j \in inside : rundir[j[2]] \subseteq {j[1]} /\ j[1] = inv

\* ... while the jobs run they are in a directory of their own invocation, and what a
\* from-B.out says comes from the job of this invocation.
ReportsAreOwn ==
  quiet /\ (step = "loop" \/ \E j \in Jobs : j[1] = inv /\ Alive(j)) =>
    /\ parent = inv
    /\ \A b \in Benchmarks : out[b] # NoOut => out[b].by = {inv}

\* ... and every benchmark is reported, unless the machine stops or the user starts the
\* script again before.
EveryBenchmarkReports ==
  \A i \in Runs : \A b \in Benchmarks :
    (inv = i /\ quiet /\ job[<<i, b>>] = "cd") ~>
      \/ parent = i /\ i \in out[b].done
      \/ inv # i
      \/ job[<<i, b>>] = "killed"
=============================================================================
