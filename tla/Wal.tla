-------------------------------- MODULE Wal --------------------------------
(***************************************************************************)
(* The write-ahead log of SQLite (sqlite3.c, wal.c): connections that read, *)
(* append transactions to the log and copy it back into the database file, *)
(* which coordinate through a wal-index in shared memory.  Full             *)
(* synchronisation and PASSIVE checkpoints; a transaction writes no page    *)
(* twice, so that no frame is rewritten in place.                          *)
(*                                                                         *)
(* The content of a page is the stamp of the transaction that wrote it.  A  *)
(* lock is acquired in the step that first relies on it.                    *)
(***************************************************************************)
EXTENDS Integers, FiniteSets, Sequences, FiniteSetsExt, SequencesExt

CONSTANTS
  Conns,
  Writers, Checkpointers,             \* the connections that write and that checkpoint
  Troubles,       \* what may go wrong: "crash", "power", and a restart of the log that goes
                  \* unnoticed by a checkpoint ("race") or is cut short ("halfRestart")
  NReader,                            \* WAL_NREADER: read locks and read marks
  Pages,
  MaxFrame, MaxTxn, MaxTrouble        \* bounds

ASSUME WalAssumption ==
  /\ Writers \subseteq Conns /\ Checkpointers \subseteq Conns
  /\ NReader \in Nat /\ NReader >= 2
  /\ IsFiniteSet(Pages) /\ Pages # {} /\ 0 \notin Pages
  /\ MaxFrame \in Nat /\ MaxFrame >= Cardinality(Pages)
  /\ MaxTxn \in Nat

Marks == 1..(NReader - 1)

VARIABLES
  conn,       \* the Wal object of each connection
  shm,        \* the wal-index: two copies of its header, nBackfill, aReadMark, the page of each frame
  wal,        \* the log file: the salt of its header and the frames that are valid
  walDisk,    \* what a power failure may make of its frames
  db, dbDisk, \* the database file, and what a power failure may make of each page
  txn, trouble

log == << wal, walDisk >>
file == << db, dbDisk >>
history == << txn, trouble >>
vars == << conn, shm, log, file, history >>

NoHdr == [isInit |-> FALSE, mxFrame |-> 0, salt |-> 0]
NoMark == MaxFrame + 1          \* READMARK_NOT_USED
Garbage == MaxTxn + 1
NotCached == << >>

NoShm ==
  [hdr |-> << NoHdr, NoHdr >>, nBackfill |-> 0,
   mark |-> [i \in Marks |-> 0], index |-> [k \in 1..MaxFrame |-> {}]]

Fresh ==
  [on |-> TRUE, at |-> "idle", hdr |-> NoHdr, changed |-> FALSE, cache |-> NotCached,
   readLock |-> -1, exRead |-> {}, writeLock |-> FALSE, ckptLock |-> FALSE, mark |-> 0, minFrame |-> 0,
   stamp |-> 0, written |-> {}, todo |-> {}, commit |-> FALSE,
   iter |-> << >>, i |-> 0, safe |-> 0]

Closed == [Fresh EXCEPT !.on = FALSE]

At(c, step) == conn[c].on /\ conn[c].at = step
Become(c, new) == conn' = [conn EXCEPT ![c] = new]
Goto(c, step) == conn' = [conn EXCEPT ![c].at = step]

Recovering(d) == conn[d].at \in {"recover2", "recover3"}

CanShareRead(c, i) == \A d \in Conns \ {c} : i \notin conn[d].exRead
CanExcludeRead(c, i) == CanShareRead(c, i) /\ \A d \in Conns \ {c} : conn[d].readLock # i
CanWrite(c) == \A d \in Conns \ {c} : ~conn[d].writeLock
CanCheckpoint(c) == \A d \in Conns \ {c} : ~conn[d].ckptLock /\ ~Recovering(d)

-----------------------------------------------------------------------------
(* The log.                                                                *)

Commits(frames) == {k \in DOMAIN frames : frames[k].commit}

\* The database with the first frames of the log applied.
Overlay(frames, n) ==
  [p \in Pages |-> LET fs == {k \in 1..n : k \in DOMAIN frames /\ frames[k].pg = p}
                   IN  IF fs = {} THEN db[p] ELSE frames[Max(fs)].val]

Durable(frames) == Overlay(frames, Max(Commits(frames) \union {0}))

\* sqlite3WalFindFrame, and the read that follows it.
Lookup(K, p) ==
  LET fs == {k \in K.minFrame..K.hdr.mxFrame : p \in shm.index[k]}
  IN  IF K.readLock = 0 \/ fs = {} THEN db[p]
      ELSE IF Max(fs) \in DOMAIN wal.frames THEN wal.frames[Max(fs)].val ELSE Garbage

Content(K) == IF K.cache = NotCached THEN [p \in Pages |-> Lookup(K, p)] ELSE K.cache

\* Frames written after the n-th make the rest of the file invalid, for the checksums run through
\* all of them; the disk may hold what was there before, or what has been written so far.
Appended(frames, n, new) == SubSeq(frames, 1, n) \o new

OnDisk(frames, n, new) == {Appended(frames, n, SubSeq(new, 1, j)) : j \in 0..Len(new)}

\* walIndexAppend, which begins a table by clearing it and removes what it finds in its way.
Indexed(index, k, p, mxFrame) ==
  [j \in DOMAIN index |-> IF j = k THEN {p}
                          ELSE IF k = 1 \/ (index[k] # {} /\ mxFrame # 0 /\ j > mxFrame) THEN {} ELSE index[j]]

\* walCleanupHash
Cleaned(index, mxFrame) == [j \in DOMAIN index |-> IF mxFrame # 0 /\ j > mxFrame THEN {} ELSE index[j]]

-----------------------------------------------------------------------------
(* Reading the header: walIndexReadHdr, for a reader or a checkpoint.       *)

\* The reader drops its cache; a checkpoint remembers to do so.
Accepted(K, hdr) ==
  [K EXCEPT !.hdr = hdr, !.changed = K.ckptLock /\ hdr # K.hdr,
            !.cache = IF ~K.ckptLock /\ hdr # K.hdr THEN NotCached ELSE K.cache,
            !.at = IF K.ckptLock THEN "start" ELSE "pick"]

\* Back to where the connection has no transaction; without a cache, the header is of no use.
Left(K) ==
  [K EXCEPT !.hdr = IF K.cache = NotCached THEN NoHdr ELSE K.hdr, !.at = "idle", !.ckptLock = FALSE, !.readLock = -1, !.mark = 0, !.minFrame = 0,
            !.iter = << >>, !.i = 0, !.safe = 0, !.changed = FALSE]

\* walIndexTryHdr: the two copies have to agree.  They are written one after the other, and read in
\* the reverse order: they were equal at one moment.
GoodHdr == shm.hdr[1] = shm.hdr[2] /\ shm.hdr[1].isInit

Tried(K) == IF GoodHdr THEN Accepted(K, shm.hdr[1]) ELSE [K EXCEPT !.at = "bad"]

Open(c) ==
  /\ ~conn[c].on
  /\ Become(c, Fresh)
  /\ shm' = IF \E d \in Conns : conn[d].on THEN shm ELSE NoShm
  /\ UNCHANGED << log, file, history >>

BeginRead(c) ==
  /\ At(c, "idle")
  /\ Become(c, Tried(conn[c]))
  /\ UNCHANGED << shm, log, file, history >>

BeginCkpt(c) ==
  /\ At(c, "idle")
  /\ c \in Checkpointers
  /\ CanCheckpoint(c)
  /\ Become(c, Tried([conn[c] EXCEPT !.ckptLock = TRUE]))
  /\ UNCHANGED << shm, log, file, history >>

\* With the WRITE lock, once more.
TryAgain(c) ==
  /\ At(c, "bad")
  /\ IF CanWrite(c) /\ GoodHdr
     THEN Become(c, Accepted(conn[c], shm.hdr[1]))
     ELSE ~CanWrite(c) /\ Become(c, Left(conn[c]))
  /\ UNCHANGED << shm, log, file, history >>

\* walIndexRecover: with every lock there is, the wal-index is made anew from the log.
Recover(c) ==
  LET mx == Max(Commits(wal.frames) \union {0})
      hdr == [isInit |-> TRUE, mxFrame |-> mx, salt |-> wal.salt]
      locked == CanCheckpoint(c) /\ \A i \in {0} \union Marks : CanExcludeRead(c, i)
  IN  /\ At(c, "bad") /\ CanWrite(c) /\ ~GoodHdr
      /\ IF locked
         THEN /\ Become(c, [conn[c] EXCEPT !.at = "recover2", !.hdr = hdr, !.writeLock = TRUE,
                                           !.exRead = {0} \union Marks])
              /\ shm' = [shm EXCEPT !.hdr[2] = hdr,
                                    !.index = [k \in DOMAIN shm.index |->
                                                 IF k \in DOMAIN wal.frames THEN {wal.frames[k].pg}
                                                 ELSE IF wal.frames # << >> THEN {} ELSE shm.index[k]]]
         ELSE Become(c, Left(conn[c])) /\ UNCHANGED shm
      /\ UNCHANGED << log, file, history >>

Recover2(c) ==
  /\ At(c, "recover2")
  /\ shm' = [shm EXCEPT !.hdr[1] = conn[c].hdr]
  /\ Goto(c, "recover3")
  /\ UNCHANGED << log, file, history >>

Recover3(c) ==
  LET K == conn[c]
  IN  /\ At(c, "recover3")
      /\ shm' = [shm EXCEPT !.nBackfill = 0,
                            !.mark = [i \in Marks |-> IF i = 1 /\ K.hdr.mxFrame # 0 THEN K.hdr.mxFrame ELSE NoMark]]
      /\ Become(c, [K EXCEPT !.at = IF K.ckptLock THEN "start" ELSE "pick", !.writeLock = FALSE, !.exRead = {},
                             !.cache = IF K.ckptLock THEN K.cache ELSE NotCached, !.changed = K.ckptLock])
      /\ UNCHANGED << log, file, history >>

-----------------------------------------------------------------------------
(* walTryBeginRead                                                         *)

\* If the whole log is in the database file it is ignored, unless it has grown by now.
Pick(c) ==
  LET K == conn[c]
  IN  /\ At(c, "pick")
      /\ Become(c, IF shm.nBackfill # K.hdr.mxFrame \/ ~CanShareRead(c, 0) THEN [K EXCEPT !.at = "mark"]
                   ELSE IF shm.hdr[1] = K.hdr THEN [K EXCEPT !.at = "read", !.readLock = 0]
                   ELSE Left(K))
      /\ UNCHANGED << shm, log, file, history >>

\* Mutant: the lock on the mark is not given back.
Retry_locked(K) ==
  IF K.writeLock THEN [K EXCEPT !.at = "mark", !.mark = 0, !.minFrame = 0]
  ELSE [Left(K) EXCEPT !.readLock = K.readLock]

\* A writer that starts again has its header.
Retry(K) == IF K.writeLock THEN [K EXCEPT !.at = "mark", !.readLock = -1, !.mark = 0, !.minFrame = 0] ELSE Left(K)

\* The largest mark that does not exceed the header; the last of equal ones.
Mark(c) ==
  LET K == conn[c]
      fit == {i \in Marks : shm.mark[i] <= K.hdr.mxFrame}
      best == CHOOSE i \in fit : \A j \in fit \ {i} : shm.mark[j] < shm.mark[i] \/ (shm.mark[j] = shm.mark[i] /\ j < i)
  IN  /\ At(c, "mark")
      /\ Become(c, IF fit = {} THEN [K EXCEPT !.at = "setMark", !.i = 0]
                   ELSE [K EXCEPT !.at = IF shm.mark[best] < K.hdr.mxFrame THEN "setMark" ELSE "lockMark",
                                  !.i = best, !.mark = shm.mark[best]])
      /\ UNCHANGED << shm, log, file, history >>

\* The first mark that nobody uses is moved.
SetMark(c) ==
  LET K == conn[c]
      free == {i \in Marks : CanExcludeRead(c, i)}
  IN  /\ At(c, "setMark")
      /\ IF free # {}
         THEN /\ shm' = [shm EXCEPT !.mark[Min(free)] = K.hdr.mxFrame]
              /\ Become(c, [K EXCEPT !.at = "lockMark", !.i = Min(free), !.mark = K.hdr.mxFrame])
         ELSE /\ Become(c, IF K.i = 0 THEN Retry(K) ELSE [K EXCEPT !.at = "lockMark"])
              /\ UNCHANGED shm
      /\ UNCHANGED << log, file, history >>

LockMark(c) ==
  LET K == conn[c]
  IN  /\ At(c, "lockMark")
      /\ Become(c, IF CanShareRead(c, K.i)
                   THEN [K EXCEPT !.at = "check", !.readLock = K.i, !.i = 0, !.minFrame = shm.nBackfill + 1]
                   ELSE Retry([K EXCEPT !.i = 0]))
      /\ UNCHANGED << shm, log, file, history >>

\* Mutant: the mark is locked, but not looked at again.
CheckMark_locked(c) ==
  LET K == conn[c]
  IN  /\ At(c, "check")
      /\ Become(c, IF shm.hdr[1] = K.hdr
                   THEN [K EXCEPT !.at = IF K.writeLock THEN "frame" ELSE "read", !.mark = 0]
                   ELSE Retry(K))
      /\ UNCHANGED << shm, log, file, history >>

\* Neither the mark nor the header may have changed before the lock was held.
CheckMark(c) ==
  LET K == conn[c]
  IN  /\ At(c, "check")
      /\ Become(c, IF shm.mark[K.readLock] = K.mark /\ shm.hdr[1] = K.hdr
                   THEN [K EXCEPT !.at = IF K.writeLock THEN "frame" ELSE "read", !.mark = 0]
                   ELSE Retry(K))
      /\ UNCHANGED << shm, log, file, history >>

\* The pages that have been read may stay in the cache.
EndRead(c) ==
  LET K == conn[c]
  IN  /\ At(c, "read") /\ ~K.writeLock
      /\ \E cache \in {NotCached, Content(K)} : Become(c, Left([K EXCEPT !.cache = cache]))
      /\ UNCHANGED << shm, log, file, history >>

-----------------------------------------------------------------------------
(* Writing.                                                                *)

\* sqlite3WalBeginWriteTransaction; SQLITE_BUSY_SNAPSHOT if the log has grown.
BeginWrite(c) ==
  /\ At(c, "read") /\ ~conn[c].writeLock
  /\ c \in Writers
  /\ CanWrite(c)
  /\ shm.hdr[1] = conn[c].hdr
  /\ Become(c, [conn[c] EXCEPT !.writeLock = TRUE])
  /\ UNCHANGED << shm, log, file, history >>

\* sqlite3WalFrames, for a commit or to make room in the cache: first walRestartLog.
Frames(c, pages, commit) ==
  LET K == conn[c]
      first == K.stamp = 0
      restart == K.readLock = 0 /\ shm.nBackfill > 0
  IN  /\ At(c, "read") /\ K.writeLock
      /\ pages # {} /\ pages \intersect K.written = {}
      /\ commit \/ pages \union K.written # Pages
      /\ restart \/ K.hdr.mxFrame + Cardinality(pages) <= MaxFrame
      /\ first => txn < MaxTxn
      /\ txn' = IF first THEN txn + 1 ELSE txn
      /\ Become(c, [K EXCEPT !.at = IF K.readLock # 0 THEN "frame" ELSE IF restart THEN "restart" ELSE "mark",
                             !.readLock = IF K.readLock = 0 /\ ~restart THEN -1 ELSE K.readLock,
                             !.stamp = IF first THEN txn + 1 ELSE K.stamp,
                             !.todo = pages,
                             !.commit = commit])
      /\ UNCHANGED << shm, log, file, trouble >>

\* Between its look at the header and READ(0), a checkpoint does not notice a restart.
Unaware(d) == conn[d].ckptLock /\ conn[d].at \in {"start", "readMark", "lockMark_i", "copyLock"}

\* walRestartHdr, if nobody reads the log.
Restart(c) ==
  LET K == conn[c]
      hdr == [K.hdr EXCEPT !.mxFrame = 0, !.salt = K.hdr.salt + 1]
  IN  /\ At(c, "restart")
      /\ IF \A i \in Marks : CanExcludeRead(c, i)
         THEN /\ Become(c, [K EXCEPT !.at = "restart2", !.hdr = hdr, !.exRead = Marks])
              /\ shm' = [shm EXCEPT !.hdr[2] = hdr]
              /\ (\E d \in Conns : Unaware(d)) => "race" \in Troubles
         ELSE /\ K.hdr.mxFrame + Cardinality(K.todo) <= MaxFrame
              /\ Become(c, [K EXCEPT !.at = "mark", !.readLock = -1])
              /\ UNCHANGED shm
      /\ UNCHANGED << log, file, history >>

Restart2(c) ==
  /\ At(c, "restart2")
  /\ shm' = [shm EXCEPT !.hdr[1] = conn[c].hdr]
  /\ Goto(c, "restart3")
  /\ UNCHANGED << log, file, history >>

Restart3(c) ==
  /\ At(c, "restart3")
  /\ shm' = [shm EXCEPT !.nBackfill = 0, !.mark = [i \in Marks |-> IF i = 1 THEN 0 ELSE NoMark]]
  /\ Become(c, [conn[c] EXCEPT !.at = "mark", !.readLock = -1, !.exRead = {}])
  /\ UNCHANGED << log, file, history >>

\* A log begins with a header, which is synced; the first of all logs has salts of its own.
\* Then the frames, the last of which carries the commit.
WriteFrames(c) ==
  LET K == conn[c]
      mx == K.hdr.mxFrame
      salt == IF K.hdr.salt = 0 THEN 1 ELSE K.hdr.salt
      frames == IF mx # 0 \/ (salt > 1 /\ wal.salt = salt) THEN wal.frames ELSE << >>
  IN  /\ At(c, "frame")
      /\ \E order \in SetToSeqs(K.todo) :
           LET new == [j \in DOMAIN order |->
                         [pg |-> order[j], val |-> K.stamp, commit |-> K.commit /\ j = Len(order)]]
           IN  /\ wal' = [salt |-> salt, frames |-> Appended(frames, mx, new)]
               /\ walDisk' = (IF mx = 0 THEN {frames} ELSE walDisk) \union OnDisk(frames, mx, new)
      /\ Become(c, [K EXCEPT !.at = "append", !.hdr.salt = salt, !.written = K.written \union K.todo])
      /\ UNCHANGED << shm, file, history >>

\* A commit is synced.  Then the index, then the header: both copies, the second one first.
AppendIndex(c) ==
  LET K == conn[c]
      mx == K.hdr.mxFrame
      n == Cardinality(K.todo)
      index[j \in 0..n] == IF j = 0 THEN shm.index ELSE Indexed(index[j - 1], mx + j, wal.frames[mx + j].pg, mx)
      hdr == [K.hdr EXCEPT !.isInit = TRUE, !.mxFrame = mx + n]
  IN  /\ At(c, "append")
      /\ shm' = [shm EXCEPT !.index = index[n]]
      /\ walDisk' = IF K.commit THEN {wal.frames} ELSE walDisk
      /\ Become(c, [K EXCEPT !.hdr = hdr, !.todo = {}, !.commit = FALSE,
                             !.at = IF K.commit THEN "publish" ELSE "read"])
      /\ UNCHANGED << wal, file, history >>

Publish(c) ==
  /\ At(c, "publish")
  /\ shm' = [shm EXCEPT !.hdr[2] = conn[c].hdr]
  /\ Goto(c, "publish2")
  /\ UNCHANGED << log, file, history >>

\* And sqlite3WalEndWriteTransaction.
Publish2(c) ==
  LET K == conn[c]
  IN  /\ At(c, "publish2")
      /\ shm' = [shm EXCEPT !.hdr[1] = K.hdr]
      /\ Become(c, [K EXCEPT !.at = "read", !.writeLock = FALSE, !.stamp = 0, !.written = {},
                             !.cache = IF K.cache = NotCached THEN NotCached
                                       ELSE [p \in Pages |-> IF p \in K.written THEN K.stamp ELSE K.cache[p]]])
      /\ UNCHANGED << log, file, history >>

\* sqlite3WalUndo: the frames stay in the file.
Rollback(c) ==
  LET K == conn[c]
  IN  /\ At(c, "read") /\ K.writeLock
      /\ shm' = IF shm.hdr[1].mxFrame # K.hdr.mxFrame
                THEN [shm EXCEPT !.index = Cleaned(shm.index, shm.hdr[1].mxFrame)] ELSE shm
      /\ Become(c, [K EXCEPT !.hdr = shm.hdr[1], !.writeLock = FALSE, !.stamp = 0, !.written = {}])
      /\ UNCHANGED << log, file, history >>

-----------------------------------------------------------------------------
(* walCheckpoint                                                           *)

\* A header that the cache does not know of is forgotten.
Ended(K) == [Left(K) EXCEPT !.hdr = IF K.changed THEN NoHdr ELSE Left(K).hdr]

\* walIteratorInit: the last frame of each page, as far as the header reaches.
CkptStart(c) ==
  LET K == conn[c]
      frames(p) == {k \in 1..K.hdr.mxFrame : p \in shm.index[k]}
  IN  /\ At(c, "start")
      /\ Become(c, IF shm.nBackfill < K.hdr.mxFrame
                   THEN [K EXCEPT !.at = "readMark", !.i = 1, !.safe = K.hdr.mxFrame,
                                  !.iter = [p \in Pages |-> Max(frames(p) \union {0})]]
                   ELSE Ended(K))
      /\ UNCHANGED << shm, log, file, history >>

Next_i(K) == [K EXCEPT !.i = K.i + 1, !.mark = 0, !.at = IF K.i + 1 \in Marks THEN "readMark" ELSE "copyLock"]

\* A reader that needs the database file as it was holds the checkpoint back; ...
CkptReadMark(c) ==
  LET K == conn[c]
      y == shm.mark[K.i]
  IN  /\ At(c, "readMark")
      /\ Become(c, IF K.safe > y THEN [K EXCEPT !.at = "lockMark_i", !.mark = y] ELSE Next_i(K))
      /\ UNCHANGED << shm, log, file, history >>

\* Mutant: a mark that cannot be moved is passed by.
CkptLockMark_past(c) ==
  LET K == conn[c]
  IN  /\ At(c, "lockMark_i")
      /\ IF CanExcludeRead(c, K.i)
         THEN /\ shm' = [shm EXCEPT !.mark[K.i] = IF K.i = 1 THEN K.safe ELSE NoMark]
              /\ Become(c, Next_i(K))
         ELSE Become(c, Next_i(K)) /\ UNCHANGED shm
      /\ UNCHANGED << log, file, history >>

\* ... a mark that nobody uses is moved out of the way.
CkptLockMark(c) ==
  LET K == conn[c]
  IN  /\ At(c, "lockMark_i")
      /\ IF CanExcludeRead(c, K.i)
         THEN /\ shm' = [shm EXCEPT !.mark[K.i] = IF K.i = 1 THEN K.safe ELSE NoMark]
              /\ Become(c, Next_i(K))
         ELSE Become(c, Next_i([K EXCEPT !.safe = K.mark])) /\ UNCHANGED shm
      /\ UNCHANGED << log, file, history >>

\* Nobody may be reading the database file alone.  The log is synced before it is copied.
CkptCopyLock(c) ==
  LET K == conn[c]
      b == shm.nBackfill
      copied == {p \in Pages : K.iter[p] > b /\ K.iter[p] <= K.safe}
  IN  /\ At(c, "copyLock")
      /\ IF b < K.safe /\ CanExcludeRead(c, 0)
         THEN /\ Become(c, [K EXCEPT !.at = "copy", !.exRead = {0}, !.todo = copied])
              /\ walDisk' = {wal.frames}
         ELSE Become(c, Ended(K)) /\ UNCHANGED walDisk
      /\ UNCHANGED << shm, wal, file, history >>

Copy(c, p) ==
  LET K == conn[c]
      k == K.iter[p]
      val == IF k \in DOMAIN wal.frames THEN wal.frames[k].val ELSE Garbage
  IN  /\ At(c, "copy") /\ p \in K.todo
      /\ db' = [db EXCEPT ![p] = val]
      /\ dbDisk' = [dbDisk EXCEPT ![p] = dbDisk[p] \union {val}]
      /\ Become(c, [K EXCEPT !.todo = K.todo \ {p}])
      /\ UNCHANGED << shm, log, history >>

\* The database file is synced when it holds the whole log, which may then be restarted.
CkptDone(c) ==
  LET K == conn[c]
  IN  /\ At(c, "copy") /\ K.todo = {}
      /\ dbDisk' = IF K.safe = shm.hdr[1].mxFrame THEN [p \in Pages |-> {db[p]}] ELSE dbDisk
      /\ shm' = [shm EXCEPT !.nBackfill = K.safe]
      /\ Become(c, [Ended(K) EXCEPT !.exRead = {}])
      /\ UNCHANGED << log, db, history >>

-----------------------------------------------------------------------------
(* What goes wrong.                                                        *)

Strikes(what) == what \in Troubles /\ trouble < MaxTrouble /\ trouble' = trouble + 1

\* Some of the frames may not have been written.
Crash(c) ==
  LET K == conn[c]
  IN  /\ Strikes("crash")
      /\ K.at # "idle"
      /\ conn' = [conn EXCEPT ![c] = Closed]
      /\ \/ UNCHANGED log
         \/ /\ At(c, "append")
            /\ \E frames \in walDisk :
                 /\ Len(frames) >= K.hdr.mxFrame /\ IsStrictPrefix(frames, wal.frames)
                 /\ wal' = [wal EXCEPT !.frames = frames]
                 /\ walDisk' = {f \in walDisk : ~(IsStrictPrefix(frames, f) /\ IsPrefix(f, wal.frames))}
      /\ K.at = "restart3" => "halfRestart" \in Troubles
      /\ UNCHANGED << shm, file, txn >>

Outcomes(disk) == IF Cardinality(disk) > 1 THEN disk \union {Garbage} ELSE disk

\* The log on the disk ends where a frame is missing.
PowerFails ==
  /\ Strikes("power")
  /\ conn' = [c \in Conns |-> Closed]
  /\ \E frames \in walDisk : wal' = [wal EXCEPT !.frames = frames] /\ walDisk' = {frames}
  /\ \E f \in [Pages -> UNION {Outcomes(dbDisk[p]) : p \in Pages}] :
       /\ \A p \in Pages : f[p] \in Outcomes(dbDisk[p])
       /\ db' = f
       /\ dbDisk' = [p \in Pages |-> {f[p]}]
  /\ UNCHANGED << shm, txn >>

-----------------------------------------------------------------------------
Init ==
  /\ conn = [c \in Conns |-> Fresh]
  /\ shm = NoShm
  /\ wal = [salt |-> 0, frames |-> << >>]
  /\ walDisk = {<< >>}
  /\ db = [p \in Pages |-> 0]
  /\ dbDisk = [p \in Pages |-> {0}]
  /\ txn = 0
  /\ trouble = 0

Next ==
  \/ \E c \in Conns :
       \/ Open(c) \/ BeginRead(c) \/ BeginCkpt(c) \/ TryAgain(c)
       \/ Recover(c) \/ Recover2(c) \/ Recover3(c)
       \/ Pick(c) \/ Mark(c) \/ SetMark(c) \/ LockMark(c) \/ CheckMark(c) \/ EndRead(c)
       \/ BeginWrite(c) \/ Restart(c) \/ Restart2(c) \/ Restart3(c)
       \/ WriteFrames(c) \/ AppendIndex(c) \/ Publish(c) \/ Publish2(c) \/ Rollback(c)
       \/ CkptStart(c) \/ CkptReadMark(c) \/ CkptLockMark(c) \/ CkptCopyLock(c)
       \/ CkptDone(c)
       \/ Crash(c)
       \/ \E p \in Pages : Copy(c, p)
       \/ \E pages \in SUBSET Pages, commit \in BOOLEAN : Frames(c, pages, commit)
  \/ PowerFails

Spec == Init /\ [][Next]_vars

-----------------------------------------------------------------------------
(* Properties.                                                             *)

\* What the database amounts to: as the first copy of the header says, which is the last to be
\* written; if there is none, as recovery will find it.
Image ==
  IF shm.hdr[1].isInit /\ \E c \in Conns : conn[c].on
  THEN Overlay(wal.frames, shm.hdr[1].mxFrame) ELSE Durable(wal.frames)

\* A writer sees what it has written once that is committed.
View(c) ==
  LET K == conn[c]
  IN  IF (~K.writeLock /\ K.at # "read") \/ Recovering(c) THEN << >>
      ELSE IF K.at # "read" THEN Image
      ELSE [p \in Pages |-> IF p \in K.written THEN Image[p] ELSE Content(K)[p]]

Abstract ==
  INSTANCE AtomicDatabase WITH
    Counter <- 0,
    Stamps <- 0..MaxTxn,
    Forgets <- FALSE,
    Offers <- TRUE,
    image <- Image,
    others <- {Durable(frames) : frames \in walDisk \union {wal.frames}},
    view <- [c \in Conns |-> View(c)]

\* As long as no restart has gone wrong, a reader sees one committed state from its first page to
\* its last, whatever is appended or copied meanwhile; a transaction builds on the last commit;
\* and a crash or a power failure leaves whole transactions, every one that was reported done.
ImplementsDatabase == Abstract!Spec

\* walCheckpoint goes no further than the oldest reader of the log: what has been copied is in the
\* snapshot of everybody who reads from it.
BackfillWaitsForReaders ==
  \A c \in Conns :
    At(c, "read") /\ conn[c].readLock > 0 =>
      shm.nBackfill <= conn[c].hdr.mxFrame /\ shm.mark[conn[c].readLock] <= conn[c].hdr.mxFrame

\* "The nBackfill number is never greater than WalIndexHdr.mxFrame", but for the moment in which
\* walRestartHdr resets one after the other.
BackfillWithinLog ==
  GoodHdr /\ (\A c \in Conns : conn[c].at # "restart3") => shm.nBackfill <= shm.hdr[1].mxFrame

Steps ==
  {"idle", "bad", "recover2", "recover3", "pick", "mark", "setMark", "lockMark", "check", "read",
   "restart", "restart2", "restart3", "frame", "append", "publish", "publish2",
   "start", "readMark", "lockMark_i", "copyLock", "copy"}

\* The shape of the state, and which locks a connection holds at which of its steps.
TypeOK ==
  /\ wal.frames \in walDisk
  /\ \A p \in Pages : db[p] \in dbDisk[p] /\ db[p] \in 0..Garbage
  /\ shm.nBackfill \in 0..MaxFrame /\ \A i \in Marks : shm.mark[i] \in 0..NoMark
  /\ \A c \in Conns :
       LET K == conn[c]
       IN  /\ K.at \in Steps /\ K.hdr.mxFrame \in 0..MaxFrame
           /\ K.at \in {"read", "check", "frame", "append", "publish", "publish2"} <=> K.readLock >= 0 /\ K.at \notin {"restart", "restart2", "restart3"}
           /\ K.at \in {"restart2", "restart3"} => K.exRead = Marks /\ K.readLock = 0
           /\ K.at = "copy" <=> K.exRead = {0}
           /\ K.written # {} => K.writeLock
           /\ K.ckptLock => ~K.writeLock \/ Recovering(c)
=============================================================================
