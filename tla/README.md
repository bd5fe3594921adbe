# Verification of fuzzer-test-suite

fuzzer-test-suite is a set of benchmarks for fuzzing engines: for each of 24 old revisions of a
library there is a `build.sh` that fetches it and builds it with a fuzz target, and for 21 of them a
`test-libfuzzer.sh` that fuzzes it until a known bug or source line is reached. The suite's own code
is about 1100 lines of shell and 1200 lines of C and C++: the scripts, the fuzz targets, a
structure-aware PNG mutator and an example of coverage hooks. It also vendors the amalgamation of
SQLite (`sqlite3.c`, 200,000 lines), the one library whose source is in the repository. This
directory holds TLA+ models of the suite's code and of the storage layer of that SQLite,
configurations that model-check them with TLC, and proofs for TLAPS.

    tlc -config MCDisciplined.cfg MCDisciplined     # one run; PROJECT.json lists all of them
    tlapm TargetProofs.tla                          # the proofs of one component

`PROJECT.json` maps each definition to the source lines it stands for, and lists runs, mutants
(an operator whose comment begins with "Mutant:" is a plausible bug; a property is worth having only
if it notices one), hazards, findings and theorems.

## Inventory

**`build-and-test.sh <benchmark>`** makes `RUNDIR-<benchmark>`, enters it and runs
`$BUILD && $TEST`. Its only state is the directory, which survives every invocation, failed and
killed ones too. *Hard:* the scripts run without `set -e`, so that a failed command sets a status
that the next command overwrites; what an earlier invocation left behind looks like what this one
should have made. *Correct when:* an exit status of 0 means that this invocation built the
executable and all that went into it, and that its own fuzzer found what the benchmark is about; and
when one bad invocation does not spoil the later ones.

**`<benchmark>/build.sh`** fetches (git, svn, wget; once), copies the sources to BUILD, makes the
library, builds the fuzzing engine, prepares seeds (once), links. *Hard:* the guards `[ ! -e D ]`
and `[[ ! -d seeds ]]` take a directory for a finished job; `&` and `wait` lose a status; the last
command decides the status of the script.

**`<benchmark>/test-libfuzzer.sh`** clears corpus and logs, runs the fuzzer if the executable is
there, greps the logs for the expected line. *Hard:* whose logs are these, if the fuzzer did not run?

**`common.sh`** is sourced by all of them: it names executable, engine and corpus after the
directory of the script and `FUZZING_ENGINE`, and defines `get_git_revision`, `get_git_tag`,
`get_svn_revision` and `build_<engine>`. **`custom-build.sh`** turns a mode (asan, ubsan, hooks)
into an engine and flags, for `build.sh` only.

**`test-everything.sh`** removes and makes `RUN_EVERY_BENCHMARK` and starts build-and-test.sh for
every benchmark in the background. *Hard:* it waits for nothing; a second invocation removes the
directory under the jobs of the first. *Correct when:* every job has a fresh run directory to
itself and its report stays.

**Fuzz targets** (`target.cc`, `*_fuzzer.c*`, `ossfuzz.c`) are called by the engine with one input
after the other, millions of times in one process, in several processes at once (`-jobs`,
`-workers`). Between calls there should be nothing but statics. *Hard:* every way out of a call
has to give back what was obtained; an error of libpng is a `longjmp`; the libssh target shares a
file in `/tmp` with all other processes and talks to itself over a socket pair; the bignum target of
openssl-1.0.2d cuts its input by two bytes of it and compares the texts of two libraries.
*Correct when:* nothing accumulates, nothing is used after its release or released twice, the work
per input is bounded, calls return, and a difference the target reports is one of the libraries.

**`png_mutator.h`** is the custom mutator and cross-over of libpng: it parses a file into chunks,
changes the chunks and serializes them. Its output becomes its input. *Hard:* what a call may rely
on (no empty `fUZz` chunk, for instance) depends on all calls before. *Correct when:* the engine's
mutator is never called with an empty buffer, writing and reading are inverse to each other, and
IDAT chunks are merged as they should be.

**`examples/example-hooks.cc`** prints the arguments of the coverage hooks and runs the target on
the files given on the command line.

**SQLite's storage layer** (`sqlite3.c`: `os_unix.c`, `pager.c`, `wal.c`). *Locks:* `unixLock`,
`posixUnlock` and `unixClose` build five lock levels from POSIX advisory locks on three byte ranges,
which belong to processes; each process counts the locks of its connections in a `unixInodeInfo`.
*Pager:* a transaction saves the original of each page in a journal before it writes the database;
whoever finds a journal without a writer rolls it back. *Write-ahead log:* transactions are
appended to a log; readers find pages through an index in shared memory, and a checkpoint copies
the log back. *Hard:* every interleaving of processes, threads and their system calls; death, power
failure or an error of a call between any two of them. *Correct when:* the connections of all
processes together are an atomic database, readers see one committed state, no connection reads a
stale cache, a waiting writer is not starved.

The repository also has seeds, dictionaries and two tutorials; they hold no logic of the suite.

How the parts interact: test-everything.sh starts build-and-test.sh, which starts the two scripts of
a benchmark one after the other; these share the run directory and the functions of common.sh.
build.sh links target, library and engine; test-libfuzzer.sh starts the result as several
processes. The engine calls the target, and for libpng the mutator, whose output it hands to the
target. Within SQLite the pager uses the locks, and reads and writes through the log instead of the
journal when the database says so.

## Modules

| module | models | uses |
|---|---|---|
| `Scripts` | the 24 + 21 scripts and the helpers of common.sh, as sequences of steps | |
| `Benchmark` | bash, git, make and the fuzzer: one run directory over successive invocations | |
| `Disciplined` | what scripts must be like for their exit status to be reliable and for a clean invocation to build; the inductive invariant | `Benchmark` |
| `BenchmarkProofs` | proofs about every set of scripts | `Disciplined` |
| `TestEverything`, `TestEverythingProofs` | test-everything.sh and its background jobs over successive invocations | |
| `PngMutator`, `PngMutatorProofs` | `libpng-1.2.56/png_mutator.h` | |
| `PngTarget` | `libpng-1.2.56/target.cc` | |
| `SshTarget` | `libssh-2017-1272/libssh_server_fuzzer.cc`, in several processes | |
| `Targets` | nine more targets and the hooks example: the library objects of a call | |
| `Bignum` | the arithmetic of `openssl-1.0.2d/target.cc` | |
| `MCTargets` | a fuzzing process executes one of the targets; the instance for TLC | `PngTarget`, `SshTarget`, `Targets`, `Bignum` |
| `TargetProofs` | proofs about libpng, libssh and openssl-1.0.2d: what is read, done, shared and left behind | `MCTargets` |
| `FileLocks` | abstract: the five lock levels, each change in one step | |
| `UnixLock`, `UnixLockProofs` | SQLite's locks on top of `fcntl`; implements `FileLocks` | `FileLocks` |
| `AtomicDatabase` | abstract: atomic transactions and readers of one committed state | |
| `Pager` | transactions with a rollback journal | `FileLocks`, `AtomicDatabase` |
| `PagerProofs` | the proof that `Pager` implements `AtomicDatabase` | `Pager` |
| `Wal`, `WalProofs` | transactions with a write-ahead log | `AtomicDatabase` |
| `WalRefinement` | the proof that `Wal` implements `AtomicDatabase` | `WalProofs` |
| the other `MC...` | instances for TLC | |

### Benchmark, Scripts, Disciplined

`fs` is the run directory, a function from the paths the scripts use to files. Of a file the model
keeps which revision of the sources it stems from (`pinned`, `tip` for a clone whose reset did not
happen, `partial`, `empty`, `none`), which invocation wrote it, whether everything it was made from
is of that invocation too, and, for a log, whether it holds the line the test looks for. `phase`,
`pc` and `status` are bash: the script, the next command, `$? = 0`. `mode` tells
`build-and-test.sh` from a script started by hand. `evidence` collects the logs in which a `grep`
of this invocation found something; `clean` says that no fault has hit this invocation. Both are
history that no step reads, as are the numbers of invocations.

A script is a sequence of steps; a step has an operation, what it reads, what it writes, whether it
comes after `&&` or before `|| exit 1`, and, for a test, how many steps it guards. There is one
action per kind of operation: `Clone`, `Reset`, `Download` (svn, wget, tar), `Remove`, `Mkdir`,
`Copy`, `Derive` (make, a compilation, a link), `Jobs` (`&` and `wait`), `Fuzz`, `Grep`, `Test`,
`SkipAnd`; `Start`, `EndBuild` (`$BUILD && $TEST`), `EndTest` are the driver, and `Kill` stops the
invocation in the middle of a step. Each action says what the command does when it succeeds, when it
cannot (a directory that is there, sources that are missing) and when it fails although it could
succeed, which is a fault: `Faults` names the operations that may. A failed git clone removes what it
made; a failed svn, wget, tar or cp may leave a part; a failed compiler leaves the old output, or none.
`Start` is also the test of build-and-test.sh for both scripts: a benchmark without a
`test-libfuzzer.sh` is not built by it.

A benchmark is a directory with a fuzzing engine, the same for both scripts: the default,
`-fsanitize=fuzzer`, which is a flag and leaves no file (`fsanitize_fuzzer`), or one of those that
`build_fuzzer` makes into an archive in the run directory. Nothing removes the archive or looks at
the status of the commands that make it (`common.sh:75-106`), and two of the engines end with
`rm *.o`, which hides a failed `ar` altogether.

`Disciplined` says what a reliable pair of scripts looks like: no step reads what no step of the
same script has renewed, and the last command decides about every promised executable. `Reliable`
is the set of benchmarks whose scripts are like that; TLC computes it to be 18 of the 24 with the
default engine and none with an archive, which an earlier invocation may have left
(`ReliableBenchmarks` of `MCDisciplined`). Less is
asked of `LogKeepers`: the build script greps nothing, and the test renews what it greps; these are
all 24, which `OwnLogBenchmarks` of `MCDisciplined` states. `Buildable` asks what a build needs on a
clean machine: every command relies only on what an unconditional command before it makes, or on
sources that are fetched unless they are there; nothing changes sources that have been read; the test
leaves sources and promised executables alone, or looks first. Again all 24 are
(`BuildableBenchmarks`).

Flags of compilers, `set -x`, `echo` and the length of a fuzzing session are left out; the fuzzer
may or may not find what it looks for. `seeds` also stands for the `seeds-radio` of openthread. A copy
of sources that breaks off is new and a part; a link that succeeds with it all the same counts as built now
(`ReliableBuild` speaks of when, `CleanRunBuilds` also of what from).

### TestEverything

The script removes the directory (`Start`, `RemoveEntries`, `RemoveParent`: `rm` reads the
directory, empties it, and removes it if nothing new is there), makes it and starts a job per
benchmark. A job enters the directory by name, opens `from-B.out`, makes and enters `RUNDIR-B`,
works and reports; for a benchmark without a test (not in `Tested`) it reports at once (`NoSuchFile`). A directory that was removed lives on for the processes inside, so the model
knows it by the invocation that made it, not by its name. One user starts one invocation after
the other; `Reboot` stops the script and all jobs and leaves the files.

The properties hold of an invocation at whose start no job of an earlier one was alive (`quiet`).
Without that `FreshRunDirs` fails within a few steps: a job of the first invocation that starts late enters
the directory of the second and writes into the `RUNDIR` of its namesake. Nothing in the repository
promises otherwise, so this is a limit of the script and not a finding.

### PngMutator

One variable holds the corpus element being worked on. A call of the custom mutator or of the
cross-over opens one or two parsers (`parser`), which read a chunk per step (`ReadChunk`,
`ReadEnd`), merging IDAT chunks and uncompressing IDAT and iCCP chunks as the constructor does; then
one action per case of the `switch` changes the chunks and serializes them, all in one step because
nothing runs in between. Results longer than `MaxSize` are dropped, as in lines 302 and 321. The corpus is
the seeds and the file at hand: a cross-over takes its second parent from these, and not from
results of which the model has moved on.
Payloads keep only what parsing looks at: the header of a zlib stream and its length, the bytes of a
name, zeros. `Uncompress` and `Compress` stand for zlib, which is external, as is the raw mutator
`m`, any function to non-empty payloads that are not longer.

### PngTarget

One call after the other: `Create` (objects, position behind the signature, `setjmp`), `ReadInfo`,
`CheckSize`, `AllocateRow`, `png_read_row`, `Return` (the destructor of `ScopedPngObject`).
`user_read_data` may be called at any point inside libpng for any number of bytes; `Fail` is libpng
calling `png_error` at any point. After the `longjmp`, `O.row` may have its old value or `NULL`: it is
modified after `setjmp` and not volatile, so that its value is indeterminate.

### SshTarget

One process per worker, interleaved step by step. The key file is the set of its pieces; `open`
without `O_TRUNC` leaves them, `write` adds one piece per step, as readers may see a write halfway.
The input is a number of packets in the socket; the key exchange and the message loop take them, or
see the end of the stream, and block otherwise. `Die` is any failed assertion, crash or kill inside
a call, `Restart` the next process. `ssh_bind_accept_fd` can only go on when the key is whole.

### Targets, Bignum

A fuzzing process executes one target, so `MCTargets` chooses one and lets nothing of the others move.

Each target is a short table: which object a step makes, needs, releases or hands over, and by how
many steps the code may jump (an early return, a `goto`, a loop). A library call may fail where
the code tests for it. `objects` are the objects that exist, live, `NULL` or owned by another one.
Two objects are known to be lost (`KnownLeaks`): what the comment "unknown leak here" of
`openssl-1.0.2d/target.cc:67` speaks of, which is made once and given back by nothing, and the
connection of finding 4.
`hooks` is the `main` of the hooks example over any number of files. `Bignum` adds the values of
openssl-1.0.2d: the lengths that two divisor bytes cut from the input, and the text `gcrytostring`
makes of what libgcrypt prints, beside that of `BN_bn2hex`. A number is the sequence of its bytes, a
text the sequence of its hexadecimal digits; `Samples` and `Lengths` are the numbers and lengths that a
run looks at.

### FileLocks, UnixLock

`UnixLock` has one action per stretch of code between two `fcntl` calls. The mutex of `os_unix.c`
makes a call atomic within a process, so `call[p]` remembers the call that is under way and other
processes go on between its steps. `os` is the kernel's table (a process, a byte range, read or
write), `inode` the `unixInodeInfo` of a process with its counts and the number of descriptors that
are kept open (`pUnused`), since closing any of them drops all locks of the process (`EndClose`).
`Die` is a process that ends: the kernel drops its locks. `Faults` lets `fcntl` fail without a
conflict; `intact` remembers whether one has.

The refinement maps a file to the set of locks it holds; while `posixUnlock` is under way the level
of the inode counts (`Level`). `FileLocks` says what the levels promise, that PENDING keeps new readers
out among them. The code makes an exception, which `FileLocks` has beside its next-state relation
(`Beside`): a file may become SHARED beside a PENDING lock of another process if its process reads already
(`ShareInside`, line 31002, does not look at the PENDING byte). `ImplementsFileLocks` allows for it,
`KeepsReadersOut` does not and is finding 5. `OpenFails` is `findInodeInfo` without memory for a
`unixInodeInfo`; a failing `fstat`, of which the comment at line 34716 says that "things are not so safe",
is left out.

### Pager

`held` are the locks of `FileLocks`, here taken in one step. `pager[c]` holds the fields of a `Pager`
object that the algorithm reads, with `at` for the place between two system calls. The database
file and the journal exist twice: what the operating system shows, and for each page or slot what a
power failure may leave (`dbDisk`, `jrnl.disk`: any of the values written since the last sync, or
garbage). A journal is a row of slots, a header or the record of a page each; page 1 is the change
counter and every other page a stamp that names the transaction that wrote it. The actions follow
`pagerSharedLock`, `hasHotJournal` (its three system calls are three steps), `pager_playback`,
`pager_write`, `pagerStress`, `sqlite3PagerCommitPhaseOne` and `Two`, `syncJournal` (its two writes
and two syncs are four steps, `PrepareJournal` to `SyncHeader`), `pager_unlock` and the rollback;
`Crash`, `PowerFails` and the failure of a write, sync, truncation or removal of a commit, a spill or a
rollback (`IoError`) are the troubles. Opening the journal and appending to it in `pager_write` (lines
52006-52018 and 52123-52137) and reading do not fail in the model, and a write that
fails has not written a part.

How a journal is read is a definition of its own, which playback and the refinement mapping share:
`Headers` are the headers that `readJournalHdr` finds, each where the records of the one before end,
`Played` the records that follow them and have a good checksum, `Replayed` what they make of a file.
`own` is the header that a rollback by the writer itself believes without looking for a magic,
the one that is being filled (line 47924).

What is coarser than the code: finalizing a journal is one step with its sync; one stamp per
transaction stands for the checksum nonce; all slots have one size; pages are evicted from the cache
only by a spill, and page 1 is never spilled; a device on which a sync has failed promises nothing
when the power fails later (`sound`). There are no savepoints, master journals, memory mapping,
exclusive mode or shrinking transactions.

### Wal

`conn[c]` is the `Wal` object of a connection, `shm` the index (two copies of its header, `nBackfill`,
the read marks, the page of each frame), `wal` and `walDisk` the log and what a power failure may
leave of it. One step per access to shared memory that other connections can tell: the two header
copies are written and read apart, choosing a read mark, locking it and looking at it again are
three steps (`Mark`, `LockMark`, `CheckMark`), a restart of the log three, a checkpoint as many as it
has marks and pages, recovery three. A lock is acquired in the step that first relies on it. Two stretches are
coarser than the accesses: taking the first free mark, setting it and unlocking it (`SetMark`, lines
56135-56145), and reading `nBackfill`, locking slot 0 and comparing the header (`Pick`, lines 56075-56087) are
one step each. `Crash` is the death of a connection's process, `PowerFails` also loses the index.

### AtomicDatabase

The promise of both: `image` is the committed content, `view` what each connection reads, and a
commit replaces the image at once. `Forgets` lets a power failure take the last commit back where
the code does not sync the directory after an unlink (synchronous below EXTRA); `Offers` lets a
commit whose system call failed be in doubt until the next recovery settles it, but never half of it.

## Runs

| run | instance | shows |
|---|---|---|
| `all_faults` | all 24 benchmarks with the default engine, four with an archive, every fault, kills, 2 invocations | in the 18 reliable benchmarks exit status 0 means executable, libraries, objects and engine are made now, PASS rests on own logs; in all of them a test passes only on a log of its own, and an invocation without faults builds from nothing old |
| `heartbleed_masked` | openssl-1.0.1f, failing links | finding 1 |
| `test_everything` | 2 benchmarks, one without a test, 2 invocations, reboots | fresh run directories, own reports, every benchmark reports |
| `png_mutator` | 5 seed files, `MaxSize` 5 | the raw mutator gets bytes; files are read back as written; IDAT chunks are merged |
| `targets` | libpng: inputs up to 3 bytes, images up to 3 x 3, limit 4; libssh: 3 processes, key of 2 pieces; all tables; numbers of three bytes, inputs of 5 to 20 bytes | libpng: reads stay inside the input, bounded work, only a row buffer is lost, only by an error; libssh: the key is whole when read, nothing outlives a call, every call returns; the others: what a call obtains is used while it exists and given back once, known leaks excepted; slices tile the input; equal numbers print alike |
| `sqlite_unclosed` | the table of sqlite | finding 4 |
| `unix_lock` | 3 files, 2 processes, failing `fcntl`, deaths | the `fcntl` calls implement `FileLocks` and `Beside`, closing loses no lock, a waiting writer gets in |
| `pending_passed` | the same, no failures | finding 5 |
| `pager` | 2 connections, 2 processes, 3 journal modes, crashes, power failures, failing calls of a commit, spill or rollback | `Pager` implements `AtomicDatabase`; caches are current |
| `hot_missed` | 2 connections of one process | finding 2 |
| `wal` | 2 connections that write and checkpoint, deaths and power failures | `Wal` implements `AtomicDatabase`; a checkpoint waits for its readers |
| `wal_reset` | the same, with a restart of the log during a checkpoint | finding 3 |

Two properties of `all_faults` have a condition. `PassIsOwnLog` is claimed when there is an executable
or when the test removes the logs it greps: c-ares and openssl-1.0.1f write and grep `log` but
remove `fuzz-*.log`. `CleanRunBuilds` is claimed when no part of a download or of a reset checkout is
lying around (`SourcesSound`): nothing but the existence of the directory is looked at (`common.sh:51`),
so nothing repairs it.

### Bounds

- `MaxRuns`: 2 invocations are enough for anything an earlier one can leave to a later one; the
  proofs have no bound. The archives are on four directories that use them in different ways: wpantund checks
  that it was built and hands it to make, libssh links it unchecked, openssl-1.1.0c and sqlite link it to
  objects. `TestEverything` with 1 benchmark and 3 invocations passes as well.
- `PngMutator`: `MaxSize` 5 (the size of the largest seed) makes results that do not fit a
  common case, and keeps files to five chunks; `FuzzLen` 1 for 16, `RandomBytes` {0, 1} because a byte
  either starts a zlib stream or does not, `MaxRandom` 2 for the 255 random bytes of the code: 0, 1
  and more. The seeds have image data split around another chunk, a named profile, one without a
  name, hints, a chunk beyond `HugeLen` and a file that is no PNG.
- `PngTarget`: `MaxRead` 3 reaches beyond the end of every input; `Limit` 4 lies between 1 x 1 and
  3 x 3; interlaced images are read seven times as in libpng.
- `SshTarget`: three processes give a reader, a writer in the middle and one that dies; two pieces
  make a partial key possible; one packet, so that the input can end in each of the two loops.
- `Targets` is finite as it stands, `openssl102d`'s leak being counted once. `Bignum`: every pair of divisor bytes for 16 lengths, and
  numbers of up to three bytes, zero and those where the count of digits or the padding changes among
  them (`Edges`); the theorems have neither bound.
- `UnixLock`: a process with two files and one with one file have every conflict: within a process,
  between processes, and both at once. Counters are bounded by the number of files.
- `Pager`: two pages, so that a transaction changes the counter and another page, which it adds to the
  file in modes delete and truncate and overwrites in mode persist (`SizesIn`). Journals of six slots:
  a header and a record for each page, as a spill writes them, and one more pair, so that none is ever
  full (`PagerAssumption`). Persist mode has two transactions, since a journal must be left behind, be
  longer than the next and be looked at, and one trouble, as has delete mode; truncate mode has one
  transaction and two troubles, so that a rollback is itself interrupted. The theorems have no bounds.
- `Wal`: two frames are the least that make a transaction of two pages, a log that is full and a
  restart; three read marks, slot 0 and two, let a mark be in use and another be stolen; two
  transactions write the log before and after a restart. With three transactions and no troubles, and
  with three frames, one writer and one checkpointer, it passes as well.

`CHECK_DEADLOCK FALSE` is said of the runs of `Benchmark` and `TestEverything`, which stop after
`MaxRuns` invocations. The other runs check for deadlock.

### Fairness

- `SshTarget`: `WF_vars(Call(w))` for each process, that is, the operating system goes on with a
  process that is inside a call and not blocked on a socket. It does not promise that the engine
  calls again, that a process dies or is restarted. `CallsReturn` then says that libssh never waits for
  input nobody can send: `shutdown` of the other end comes first (line 67).
- `TestEverything`: weak fairness of the script and of each job; the user need not start it again.
- `UnixLock`: weak fairness of the steps of a call that has begun and of a writer that retries
  (`pager_wait_on_lock`, as long as the busy handler says); strong fairness of leaving SHARED and of a
  rollback or close, that is, a reader is done some day. That the retry of a PENDING writer meets a
  moment without readers is *not* assumed: `WriterIsNotStarved` holds because the PENDING byte
  keeps new readers out, and fails without it. It is claimed of writers whose rivals are
  processes with one file, for the reason given under `UnixLock`.

`Pager` and `Wal` state safety only: SQLite answers SQLITE_BUSY and promises no progress of its own.
`Benchmark` and the other targets state no liveness: their loops end by counting, or depend
on libraries that are not in the repository (the loops of libarchive), and a script ends when its
commands do.

## Proofs

`TLAPS` proves the following for all values of the constants that satisfy the named assumptions; TLC
has checked the invariants on the instances above first.

- **`BenchmarkProofs`: `TypeCorrect`, `Invariance`, `ExitZero`, `OwnBuild`, `OwnLog`, `CleanRuns`** for every set of
  benchmarks (with `ScriptsAssumption`, `WritersAssumption`), any set of faults,
  any number of invocations. `ExitZero`: a reliable build.sh exits 0 only if this invocation linked the
  executable and made all libraries, objects and engine archives that went into it; `CleanRuns`: without a
  fault, and with sound sources, it does exit 0, with an executable made of nothing old and of the pinned revision. `ExitZero` and `OwnBuild` about those in `Reliable`, `CleanRuns` about those in
  `Buildable`. `ExitZeroMeansBuilt` alone is not
  inductive: it says nothing until the last command. `Inv` adds what holds in the middle of a script:
  every artifact that an unconditional `rm` (or a redirection) before the current step has renewed is
  either absent or of this invocation (`RenewedIsFresh`). The discipline says that steps read only
  renewed artifacts and that the script ends with the one command that makes the executable, so the
  status 0 of that command makes the executable of this invocation. One lemma per action shows what
  the action does to renewed artifacts. `OwnLog` is about those in `LogKeepers`, whose builds may
  do anything: a log is of this invocation once the test has removed it (`LogsRecent`), so what has
  been found is (`OwnEvidence`); a shell that truncates a log does so only if there is an executable.
  For `CleanRuns` the invariant is `CleanInv`. During the build, unless a fault has hit the invocation or
  a command has read broken sources (`Trusted`), what the commands so far provide is new and of the
  pinned revision (`Supplied`), what they fetch is there, and a script that has ended has succeeded (`Supplies`). During the test, the
  promised executables are pinned and new, or sources that were broken still are, because the test fetches
  nothing that is there (`Spoiled`). What `&&` and the tests of the scripts may skip is never what a
  later command relies on; lemmas say where a step leads (`KeptStep`, `ProvidedStep`, `GuardedStep`).
- **`TestEverythingProofs`: `TypeCorrect`, `RunDirsAreFresh`, `OwnReports`** for any set of
  benchmarks and any number of invocations and reboots (`RunsAssumption`). Added to `quiet`: only jobs
  of this invocation are alive, and only after its loop has begun (`OnlyOwnJobs`); `rm` has listed
  everything and `mkdir` finds nothing (`Cleared`); what is in the directory while jobs run is of this
  invocation (`OwnFiles`).
- **`PngMutatorProofs`: `MutatorHandedBytes`, `TypeCorrect`, `WrittenIsReread`, `ImageDataMerged`** for every corpus without empty `fUZz` chunks and every
  limit (`MutatorAssumption`, `HintsAssumption`, `MaxLenAssumption`). The invariant is that
  no file, no parser and no serialized result has an empty `fUZz` chunk; lemmas show that storing,
  merging, uncompressing, writing, inserting, deleting and permuting chunks keep that. `TypeCorrect` adds what a call has for inputs and that it returns
  nothing beyond `MaxSize` (`Calls`). The other two need
  `ReadInv`: the file is what the last chunks written make (`Wrote`), and an object in the middle of
  its file has made of the chunks before its position what one should (`Tracked`, `Follows`): the same
  chunks in the same order, except that the IDAT chunks after the first are appended to it; in the
  end it has done so with all of them. That writing and reading a chunk undo each other is then a
  matter of one chunk. `FlattenSeq`, which puts the image data together, is a recursive function; what it
  yields is shown by a least counterexample.
- **`TargetProofs`: `TypeCorrect`, `InputOnly`, `WorkIsBounded`, `ErrorsLeakRows`** (`SizesAssumption`,
  `WordAssumption`: `png_uint_32` is a 64-bit `unsigned long`, and libpng refuses sides beyond
  `MaxDim` as well as empty ones). `InputInv` balances bytes taken and left; `WorkInv` carries the test of line
  117 to the loops behind it, by two lemmas on products; `RowInv` says that `O.row` tells the truth
  about the buffer except after a `longjmp`.
- **`TargetProofs`: `SshTypeCorrect`, `KeyIsWhole`, `CallsLeaveNothing`** for any number of processes and any length
  of the key (`TargetAssumption`). The invariant says that what a process has written in its current
  call is in the file (`OwnKeyStays`): all processes write the same bytes from offset 0 and
  nobody truncates, so no other process can take it away.
- **`TargetProofs`: `Tiling`, `SlicesFill`** for every length from 5 on and all divisor bytes: no length
  wraps around and the three numbers fill the input. **`SameText`, `TextsAgree`** for every number
  (`SamplesAssumption`: the highest byte is not 0): what `gcrytostring` leaves of the padded text is,
  digit by digit, what `BN_bn2hex` prints. The loop over leading zeros takes
  at most two digits; the two lines after it put back the half of a byte it took too much, and leave one digit of zero.
- **`UnixLockProofs`: `TypeCorrect`, `LocksBacked`, `ExclusiveAlone`, `CountsAreRight`** for any
  number of processes and files (`UnixAssumption`), any `fcntl` of which may fail. `IInv` describes a
  process between any two of its `fcntl` calls: its counts and the files that read or are open
  (`Counts`), at most one file above SHARED and the inode at the same level except in the second half
  of an unlock (`Levels`), the inode never above what the kernel knows (`Backed`), and what each call
  under way has done so far (`Calls`). Between processes there are only the rules of POSIX (`Posix`) and
  one fact that is not obvious: while an unlock turns the shared range of an EXCLUSIVE file back into a
  read lock, nobody else reads yet (`ExclusiveInside`), since a new reader passes the pending byte
  first. A step of a process leaves the others alone (`Frame`), so `StepKeeps` asks only for its own.
- **`UnixLockProofs`: `Implementation`, `ReservedSeen`**: for any number of processes and files every step of
  `UnixLock` is a step of `FileLocks`, of its exception `Beside`, or none, as long as no `fcntl` has failed without a conflict
  (`ImplementsFileLocks`). One lemma per action says which lock it takes or gives back. The invariant
  adds that a process has the reserved byte if it is RESERVED and has given it back at or below SHARED,
  and that a level above SHARED is that of one of its files (`Clean`): this is what
  fails after an unlock that fails, and why both properties are conditional. `ReservedSeen` follows:
  the byte that `unixCheckReservedLock` asks for is held exactly when some file reserves.
- **`WalProofs`: `WalTypeCorrect`, `BackfillWaits`, `BackfillStaysWithinLog`** for any number of
  connections, read marks, pages, frames and transactions (`WalAssumption`), processes that die and
  power that fails. `BackfillWaitsForReaders` is about a checkpoint and the readers it has already
  passed, and says nothing of the steps before. `IInv` therefore describes every step of a connection:
  the locks it holds there (`Locks`), how far its loop over the marks has come (`Numbers`); of two
  connections, that their locks exclude each other (`Excludes`) and that a checkpoint that has looked
  at the mark of a reader goes no further than the reader (`Waits`); and of a connection and the
  index, that the WRITE lock keeps the header as its holder knows it (`Writer`), that a
  reader's mark is not beyond its snapshot (`Reader`), that the log does not become shorter under a checkpoint
  (`Behind`), and that the header is a commit of the log and `nBackfill` no greater (`Header`). TLC has
  checked `IInv` on the instance of the run `wal` first. The step that needs most of it is the
  choice of a mark (`CheckMark`): the header is still the one the reader began with, so that a
  checkpoint that has passed the mark knew at most that header. The theorems assume that
  `Troubles` has neither `"race"` nor `"halfRestart"`: with the first, finding 3 is a counterexample,
  with the second the death described at `sqlite3.c:55507` under Observations.
- **`WalRefinement`: `Refinement`**, under the same assumptions: `Wal` implements `AtomicDatabase`
  (`ImplementsDatabase`) for any number of connections, pages, frames and transactions. To `IInv`, which
  knows locks and numbers only, `DInv` adds contents. *Shared:* the index is that of the log (`Shown`,
  `Contiguous`), the header belongs to this log or to the next one, which nobody has begun (`Epoch`), what
  `nBackfill` says is copied has been copied (`Copied`), a page that a power failure may spoil is in
  every log it may leave (`Doubts`), and after a complete copy no page is (`Synced`). *Of each
  connection (`Data`):* a reader's frames from `minFrame` on, with the database file below them, are its
  snapshot (`Sees`); a writer's frames beyond the public header have its stamp and no commit but the
  last (`OwnFrames`); a checkpoint knows the last frame of each page and copies none that an older reader must not
  see (`Finds`, `Copies`); a cache that goes with the public header is the database (`Cached`); one that recovers has
  counted whole commits (`Recovers`). `Apply` is the database that the first frames of a log amount to; the
  lemmas on it (`ApplySame`, `ApplyMore`, `AllCopied`, `LookupIs`) say which changes of the log or of the
  database file it does not notice. From `DInv` follows what each connection sees (`ViewInv`), and
  then each action is named as a step of the database: `Publish2` commits, `WriteFrames` offers, a power failure
  restarts, `CheckMark` begins to read, and most steps change nothing anybody can see. TLC has checked `DInv`
  on the instance of the run `wal` and on one with three frames before it was proved.
- **`PagerProofs`: `Invariance`, `TypeCorrect`, `CachesCurrent`, `ReadersCommitted`, `Atomicity`** for any number
  of connections, pages, journal slots and transactions (`PagerAssumption`), in every journal mode, with
  and without the sync of the directory, with any number of crashes, power failures and failing calls of a commit, a spill or a rollback.
  `CachesCurrent` is about connections that read, those that have begun to write and changed nothing yet, and those
  without a lock whose change counter still matches (`CountsOnCache`): what is in their caches is what the committed
  database holds. `Atomicity` says that `Pager` implements `AtomicDatabase` (`ImplementsDatabase`): a transaction takes effect
  when its journal is finalized, as a whole, or not at all.
  `ImplementsDatabase` speaks of `Image`, what a rollback of a hot journal would make of the file, so the
  inductive invariant, `IInv`, says how file and journal together amount to it. *A writer (`Writes`):* the
  journal up to `journalOff` is its own, in segments of a header and its records (`Written`,
  `Segment`), what lies behind is older (`Left`) and does not continue it (`Ends`); every page of the file
  is as it was or as the transaction makes it, and in the latter case has been journaled before the
  last header (`Changed`); page 1 with the change counter is written last (`Planned`), and a rollback has a record
  left for whatever is not yet as it was (`Undone`, `Recovers`). *Others (`Knows`, `Passed`):* who reads
  has made sure that the journal is not hot, and a cache with the right change counter has the right
  pages. *The disk (`Safe`):* of any file and journal that a power failure may leave (`MayBe`: each
  page and slot on its own is old, new or torn), a rollback restores `Image` (`Survives`), since what
  a header counts has been synced before the header, and the header before any page
  (`FirmWriter`); likewise for an unlinked journal that comes back (`ghost`). *Locks:* two connections exclude each
  other (`Exclude`), so that only the steps of one need be followed, and the rest are bystanders (`Bystander`).
  The journal is read by a recursive function; `HeaderRecursion` and `HeaderInduction` state once what
  that means (a header is the first slot or follows from an earlier header; what each header hands on to
  the next is true of all), by well-founded choice of a least counterexample, and nothing else looks inside. The lemma that takes most
  is `FinishJournalStep`: with one write the journal becomes hot, and from then on, whether or not
  the write reaches the disk, `Image` must stay what it was. TLC has checked `IInv` on all 414,278 states of
  the run `pager` before it was proved.
  From `IInv`, `StepOutcome` gives each step one of five outcomes for what anybody can see: nothing
  changes, somebody begins to read, somebody stops (an error too), a commit, a restart after a power failure; and
  these are the steps of `AtomicDatabase` (`OutcomeImplements`, `RestartImplements`).
  There are two conditions. `Apart`: each connection is in a process of its own; without it
  `ReadersCommitted` is false, which is finding 2, so the run `hot_missed` shows that the condition is
  needed. `Unaligned`: no records end where a header may begin; see the observation on
  `sqlite3.c:47924`.

- **`TargetProofs`: `Components`**: a behaviour of `MCTargets`, where one target runs, is one of `PngTarget`, of
  `SshTarget` and of `Targets`, so that what is proved of each holds of it.

Only model-checked: liveness (`CallsReturn`, `EveryBenchmarkReports`, `WriterIsNotStarved`), which is
beyond the prover, and `AllGivenBack`, `NothingUsedTooLate` and `ReleasedOnce` of `Targets`, whose tables
are finite, so that the run is exhaustive and there is no larger instance to prove them for.

## Findings

1. **`heartbleed_masked`** (`openssl-1.0.1f/build.sh:24`): the link is followed by `cp -rf runtime`,
   so its failure is lost; the test then greps a `log` that nothing removes, and passes on the log
   of an earlier invocation. In libpng the second of two links hides the failure of the first.
2. **`hot_missed`** (`sqlite3.c:51332`): two connections of one process. One is about to roll a hot
   journal back and waits in PENDING for the other, which has SHARED and is about to check for a hot
   journal; `unixCheckReservedLock` takes the PENDING of the own process for a live writer, and the
   other connection reads pages of a transaction that never committed.
3. **`wal_reset`** (`sqlite3.c:55569`): a checkpoint goes on with a header it read before a writer
   restarted the log, and stores in `nBackfill` a number of frames that the new log does not have;
   what is committed next is taken to be in the database file and is lost.
4. **`sqlite_unclosed`** (`ossfuzz.c:57`): when `sqlite3_open_v2` fails it may still leave a connection; the target
   returns without `sqlite3_close`, which `sqlite3.h:2841` asks for "whether or not an error occurs when it
   is opened". An in-memory database fails to open only for want of memory.
5. **`pending_passed`** (`sqlite3.c:31002`): PENDING "ensures that no new SHARED locks can be obtained" (line
   30940), but a process one of whose files reads lets another one read as well, without a look at what other
   processes have pending. So two connections of a process that read in turn can keep a writer of another
   waiting; `WriterIsNotStarved` is claimed of writers whose rivals have one file.

Eight more observations on behaviour that no run is spent on:

- `common.sh:75-106`: no command that makes an engine is checked, the archive stays in the run directory, and
  `rm *.o` at the end of two engines hides a failed `ar`. When an engine cannot be built, build.sh links the archive of
  an earlier invocation and exits 0. That is why no benchmark with an archive is `Reliable`.
- `libxml2-v2.9.2/test-libfuzzer.sh:7` clones another fork of afl than line 14 of its build.sh, to the
  same directory and at a revision of its own: which dictionary a test uses depends on which script came first.
- `openssl-1.0.2d/target.cc:67` says "unknown leak here" of the libgcrypt half; the model has one object that is
  made there once and never given back, since the source does not say what is lost and how often.
- `freetype2-2017/build.sh:17`: `mkdir seeds` comes before the clone that fills it; after one failed
  clone every later invocation fuzzes without the "provided seeds" of its README.
- `openthread-2018-02-27/build.sh:45`: a `REVISION` that cannot be checked out is ignored, and the
  head of the repository is built with status 0.
- `png_mutator.h:98`: IDAT is uncompressed on reading and written back uncompressed, so that every
  mutated file loses its image (`WritesBackTheImage` in `PngMutator` says it, no run checks it).
- `sqlite3.c:55507`: a process that dies after storing the header of a restarted log and before
  setting `nBackfill` to 0 hides later commits (`"halfRestart"` among the `Troubles` of `Wal`, with
  three transactions, violates `ImplementsDatabase`); nothing in the source speaks of this death.
- `sqlite3.c:47924`: a rollback by the writer itself does not look for the magic of a header at `journalHdr`,
  where it expects the one it was filling. After the `syncJournal` of a commit `journalHdr` is the end of
  the records (line 50617). If the commit then fails, and the number of records is such that a header may begin
  right there (a multiple of an eighth of the sector size), the rollback takes a header of an
  older transaction for its own, although `syncJournal` has just overwritten its magic "to prevent it
  from being recognized" (line 50561), and plays old records into the cache. `"aligned"` among the
  `Troubles` of `Pager` lets records end there: with one connection in mode persist, two pages to start with, a spill
  in the first transaction and a failing write in the second, TLC finds a reader that does not see what
  is committed (`ReadersSeeCommitted`).

## Not modelled

- The environment that custom-build.sh and common.sh resolve, but for the choice between the default engine and an
  archive: the models take both scripts to see the same one. `build.sh asan` followed by `test-libfuzzer.sh`
  without a mode looks for an executable of another name.
- What the hooks of the hooks example print. The targets of re2 and woff2, whose objects are automatic.
  `DetectLargeSize` in the libpng target, which nothing calls.
- What the libraries, zlib, the compilers and the fuzzing engines do beyond what the suite's code can
  tell apart. Corpora, dictionaries and tutorials.
- SQLite above the storage layer: the SQL compiler, B-trees, the virtual machine, FTS, RTREE, about
  180,000 lines, which are vendored and sequential, and whose inputs are SQL texts. `sqlite3.h` is its
  interface. They are why the models cover a small share of all lines in the repository.
- Within the storage layer: the other locking styles (dot-file, flock, AFP, proxy), a failing `fstat`, failing reads, partial
  writes and failures of `pager_write`, savepoints,
  master journals, memory mapping, exclusive and memory journals, vacuum, backup, an empty database
  file beside a journal (line 51356), closing the last connection; in the log, frames that are written twice
  (`iReCksum`), FULL, RESTART and TRUNCATE checkpoints, snapshots, heap memory instead of shared
  memory, I/O errors, synchronous below FULL.

## Plan

1. Savepoints and master journals in `Pager` (several databases commit together).
2. FULL and RESTART checkpoints and rewritten frames in `Wal`.
3. Proofs: the refinement of `Pager` for several connections of one process, with the readers that
   finding 2 is about set apart.
