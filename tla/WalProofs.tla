----------------------------- MODULE WalProofs -----------------------------
(***************************************************************************)
(* Proofs about the write-ahead log for any number of connections, read    *)
(* marks and pages, whose processes may die and whose power may fail: as   *)
(* long as no restart of the log goes unnoticed by a checkpoint or is cut  *)
(* short, a checkpoint copies nothing that a reader of the log must not    *)
(* see in the database file yet. IInv, about locks and numbers, is all that *)
(* takes; DInv, at the end, adds what log, index, database file and caches *)
(* contain, for WalRefinement, and what begins to read and to write keeps   *)
(* of it.                                                                  *)
(***************************************************************************)
EXTENDS Wal, FiniteSetTheorems, SequenceTheorems, WellFoundedInduction, TLAPS

Recovery == {"recover2", "recover3"}
Choosing == {"mark", "setMark", "lockMark", "check"}
Resting == {"idle", "bad", "pick", "mark", "setMark", "lockMark"}
Restarting == {"restart", "restart2", "restart3"}
Closing == {"frame", "append", "publish", "publish2"}
Copying == {"readMark", "lockMark_i", "copyLock", "copy"}

Hdr == [isInit : BOOLEAN, mxFrame : 0..MaxFrame, salt : Nat]
Frame == [pg : Pages, val : 0..MaxTxn, commit : BOOLEAN]

\* Their ranges have names, which the provers need not open.
Cache == {NotCached} \union [Pages -> 0..Garbage]
Iter == {<< >>} \union [Pages -> 0..MaxFrame]
Frames0 == 0..MaxFrame
MarkValues == 0..NoMark
Stamps == 0..MaxTxn
Readers == -1..(NReader - 1)
Numbers0 == 0..NReader

Conn ==
  [on : BOOLEAN, at : Steps, hdr : Hdr, changed : BOOLEAN, cache : Cache,
   readLock : Readers, exRead : SUBSET (0..(NReader - 1)), writeLock : BOOLEAN, ckptLock : BOOLEAN,
   mark : MarkValues, minFrame : MarkValues, stamp : Stamps, written : SUBSET Pages,
   todo : SUBSET Pages, commit : BOOLEAN, iter : Iter, i : Numbers0, safe : Frames0]

\* The shape of everything but the connections.  The index is built by folds, and nothing that is
\* proved here depends on it.
ShmType ==
  shm \in [hdr : [1..2 -> Hdr], nBackfill : Frames0, mark : [Marks -> MarkValues], index : {shm.index}]

LogType ==
  /\ wal \in [salt : Nat, frames : Seq(Frame)] /\ walDisk \subseteq Seq(Frame) /\ wal.frames \in walDisk
  /\ \A f \in walDisk : Len(f) <= MaxFrame

FileType ==
  /\ db \in [Pages -> 0..Garbage] /\ dbDisk \in [Pages -> SUBSET (0..Garbage)]
  /\ \A p \in Pages : db[p] \in dbDisk[p]

Typed == conn \in [Conns -> Conn] /\ ShmType /\ LogType /\ FileType /\ txn \in 0..MaxTxn

-----------------------------------------------------------------------------
(* What is true of one connection, ...                                     *)

Held(at) ==
  CASE at \in Recovery -> {0} \union Marks
    [] at \in {"restart2", "restart3"} -> Marks
    [] at = "copy" -> {0}
    [] OTHER -> {}

\* The locks it holds at each of its steps.
Locks(K) ==
  /\ ~K.on => K.at = "idle"
  /\ K.readLock >= 0 <=> K.at \in {"read", "check"} \union Closing \union Restarting
  /\ K.at \in Restarting => K.readLock = 0
  /\ K.at \in {"check"} \union Closing => K.readLock \in Marks
  /\ K.exRead = Held(K.at)
  /\ K.at \in Recovery \union Closing \union Restarting => K.writeLock
  /\ K.writeLock => K.at \in {"read"} \union Recovery \union Choosing \union Closing \union Restarting
  /\ K.at \in {"start"} \union Copying => K.ckptLock
  /\ K.ckptLock => K.at \in {"bad", "start"} \union Recovery \union Copying
  /\ K.written # {} => K.writeLock /\ K.at \notin Recovery

\* What it is about to write, and how far its loop over the marks has come.
Prepared(K) == K.writeLock /\ K.at \in {"frame", "append"} \union Choosing \union Restarting

Numbers(K) ==
  /\ K.at = "lockMark" => K.i \in Marks
  /\ K.at = "setMark" => K.i < NReader
  /\ K.at \in {"lockMark", "check"} \/ (K.at = "setMark" /\ K.i # 0) => K.mark <= K.hdr.mxFrame
  /\ K.at \in {"readMark", "lockMark_i"} => K.i \in Marks
  /\ K.at \in {"copyLock", "copy"} => K.i = NReader
  /\ K.at \in Copying => K.safe <= K.hdr.mxFrame
  /\ K.at = "lockMark_i" => K.mark < K.safe
  /\ Prepared(K) => K.todo # {} /\ (K.at # "restart" => K.hdr.mxFrame + Cardinality(K.todo) <= MaxFrame)

Alone(K) == Locks(K) /\ Numbers(K)

\* ... of two of them: locks that exclude each other, ...
Excludes(K, D) ==
  /\ ~(K.writeLock /\ D.writeLock)
  /\ ~((K.ckptLock \/ K.at \in Recovery) /\ (D.ckptLock \/ D.at \in Recovery))
  /\ K.exRead \intersect D.exRead = {}
  /\ K.readLock \notin D.exRead /\ D.readLock \notin K.exRead

Reads(K) == K.at \in {"read"} \union Closing /\ K.readLock > 0

\* ... and a checkpoint K that has seen the mark of a reader D of the log goes no further than D.
Waits(K, D) ==
  K.at \in {"start"} \union Copying =>
    /\ D.at # "restart2"
    /\ Reads(D) /\ K.at # "start" =>
         /\ D.readLock < K.i => K.safe <= D.hdr.mxFrame
         /\ K.at = "lockMark_i" /\ D.readLock = K.i => K.mark <= D.hdr.mxFrame

Pair(K, D) == Excludes(K, D) /\ Waits(K, D) /\ Waits(D, K)

\* ... and of one of them and what they share.
Committed(n) == n = 0 \/ (n \in DOMAIN wal.frames /\ wal.frames[n].commit)

\* The WRITE lock keeps the header as its holder knows it.
Writer(K) ==
  K.writeLock =>
    /\ K.at \in {"read"} \union Closing => shm.hdr[1].mxFrame <= K.hdr.mxFrame
    /\ K.at \in {"read", "frame"} => K.hdr.mxFrame <= Len(wal.frames)
    /\ K.at \in {"restart"} \union Choosing \/ (K.at = "read" /\ K.readLock = 0) => shm.hdr[1] = K.hdr
    /\ K.at = "restart2" => shm.hdr[2] = K.hdr /\ shm.hdr[1].salt # K.hdr.salt
    /\ K.at \in {"restart3", "recover3"} => shm.hdr[1] = K.hdr
    /\ K.at \in {"restart2", "restart3"} => K.hdr.mxFrame = 0
    /\ K.at = "append" =>
         /\ Len(wal.frames) = K.hdr.mxFrame + Cardinality(K.todo)
         /\ K.commit => wal.frames[Len(wal.frames)].commit
    /\ K.at \in {"publish", "publish2"} \union Recovery => Committed(K.hdr.mxFrame)
    /\ K.at = "recover2" => shm.nBackfill <= K.hdr.mxFrame
    /\ Reads(K) => shm.mark[K.readLock] <= shm.hdr[1].mxFrame

Reader(K) == Reads(K) => shm.nBackfill <= K.hdr.mxFrame /\ shm.mark[K.readLock] <= K.hdr.mxFrame

\* The log does not become shorter under a checkpoint.
Behind(K) == K.at \in {"start"} \union Copying => K.hdr.mxFrame <= shm.hdr[1].mxFrame

Agrees(K) == Writer(K) /\ Reader(K) /\ Behind(K)

\* The first copy of the header is a commit of the log, and no more than that has been copied.
Header ==
  (\E c \in Conns : conn[c].on) =>
    /\ Committed(shm.hdr[1].mxFrame)
    /\ (\A c \in Conns : conn[c].at # "restart3") => shm.nBackfill <= shm.hdr[1].mxFrame

IInv ==
  /\ Typed
  /\ \A c \in Conns : Alone(conn[c]) /\ Agrees(conn[c])
  /\ \A c, d \in Conns : c # d => Pair(conn[c], conn[d])
  /\ Header

-----------------------------------------------------------------------------
(* Numbers and sequences.                                                  *)

LEMMA MinIsLeast ==
  ASSUME NEW S \in SUBSET Nat, S # {}
  PROVE  Min(S) \in S /\ \A y \in S : Min(S) <= y
<1>1. PICK x \in S : \A y \in S : << y, x >> \notin OpToRel(<, Nat)
  BY NatLessThanWellFounded, WFMin
<1>2. x \in Nat /\ \A y \in S : y \in Nat /\ ~(y < x)
  BY <1>1 DEF OpToRel
<1>3. \A y \in S : x <= y
  BY <1>2
<1>4. \E m \in S : \A y \in S : m =< y
  BY <1>3
<1> QED
  BY <1>4 DEF Min

LEMMA MaxIsGreatest ==
  ASSUME NEW n \in Nat, NEW S \in SUBSET (0..n), S # {}
  PROVE  Max(S) \in S /\ \A y \in S : y <= Max(S)
<1> DEFINE T == {n - x : x \in S}
<1>1. T \in SUBSET Nat /\ T # {}
  <2>1. \A x \in S : x \in Nat /\ n - x \in Nat
    OBVIOUS
  <2> QED
    BY <2>1
<1>2. Min(T) \in T /\ \A y \in T : Min(T) <= y
  BY <1>1, MinIsLeast
<1>3. PICK m \in S : Min(T) = n - m
  BY <1>2
<1>4. \A y \in S : n - m <= n - y
  BY <1>2, <1>3
<1>5. \A y \in S : m >= y
  BY <1>4
<1> QED
  BY <1>5 DEF Max

LEMMA MarksType == Marks \subseteq Nat /\ Marks # {} /\ 1 \in Marks /\ 0 \notin Marks /\ \A i \in Marks : i < NReader
<1>1. NReader \in Nat /\ NReader >= 2
  BY WalAssumption
<1>2. \A i \in 1..(NReader - 1) : i \in Nat /\ i # 0 /\ i < NReader
  BY <1>1
<1>3. 1 \in 1..(NReader - 1)
  BY <1>1
<1> QED
  BY <1>2, <1>3 DEF Marks

LEMMA HeldType == \A at : Held(at) \subseteq 0..(NReader - 1)
BY WalAssumption DEF Held, Marks

\* The fields of a connection.
LEMMA ConnFields ==
  ASSUME NEW K \in Conn
  PROVE  /\ K.at \in Steps /\ K.hdr \in Hdr /\ K.hdr.mxFrame \in 0..MaxFrame /\ K.hdr.mxFrame \in Nat
         /\ K.safe \in 0..MaxFrame /\ K.safe \in Nat /\ K.mark \in 0..NoMark /\ K.mark \in Nat
         /\ K.readLock \in -1..(NReader - 1) /\ K.readLock \in Int /\ K.i \in 0..NReader /\ K.i \in Nat
         /\ K.exRead \subseteq 0..(NReader - 1)
<1>1. K.at \in Steps /\ K.hdr \in Hdr /\ K.exRead \subseteq 0..(NReader - 1)
  BY DEF Conn
<1>2. K.safe \in Frames0 /\ K.mark \in MarkValues /\ K.readLock \in Readers /\ K.i \in Numbers0
  BY DEF Conn
<1>3. K.hdr.mxFrame \in 0..MaxFrame
  BY <1>1 DEF Hdr
<1> QED
  BY <1>1, <1>2, <1>3, WalAssumption DEF Frames0, MarkValues, Readers, Numbers0, NoMark

LEMMA ShmFields ==
  ASSUME ShmType
  PROVE  /\ \A j \in 1..2 : shm.hdr[j] \in Hdr /\ shm.hdr[j].mxFrame \in 0..MaxFrame /\ shm.hdr[j].mxFrame \in Nat
         /\ shm.nBackfill \in Frames0 /\ shm.nBackfill \in Nat
         /\ \A i \in Marks : shm.mark[i] \in MarkValues /\ shm.mark[i] \in 0..NoMark /\ shm.mark[i] \in Nat /\ i \in 0..NReader
         /\ NoMark \in Nat /\ NReader \in Nat /\ MaxFrame \in Nat
<1>1. NoMark \in Nat /\ NReader \in Nat /\ MaxFrame \in Nat
  BY WalAssumption DEF NoMark
<1>2. \A j \in 1..2 : shm.hdr[j] \in Hdr
  BY DEF ShmType
<1>3. \A h \in Hdr : h.mxFrame \in 0..MaxFrame
  BY DEF Hdr
<1>4. shm.nBackfill \in Frames0 /\ \A i \in Marks : shm.mark[i] \in MarkValues
  BY DEF ShmType
<1>5. \A i \in Marks : i \in 0..NReader
  BY <1>1 DEF Marks
<1>6. \A i \in Marks : shm.mark[i] \in 0..NoMark /\ shm.mark[i] \in Nat
  BY <1>1, <1>4 DEF MarkValues
<1>7. shm.nBackfill \in Nat
  BY <1>1, <1>4 DEF Frames0
<1>8. \A j \in 1..2 : shm.hdr[j].mxFrame \in 0..MaxFrame /\ shm.hdr[j].mxFrame \in Nat
  BY <1>1, <1>2, <1>3
<1> QED
  BY <1>1, <1>2, <1>4, <1>5, <1>6, <1>7, <1>8

LEMMA RangeTypes ==
  /\ 0 \in Frames0 /\ 0 \in MarkValues /\ 0 \in Stamps /\ 0 \in Readers /\ -1 \in Readers /\ 0 \in Numbers0
  /\ << >> \in Iter /\ NotCached \in Cache /\ NoHdr \in Hdr
  /\ Marks \subseteq Readers /\ Marks \subseteq Numbers0
<1>1. NReader \in Nat /\ NReader >= 2 /\ MaxFrame \in Nat /\ MaxTxn \in Nat
  BY WalAssumption
<1>2. /\ 0 \in Frames0 /\ 0 \in MarkValues /\ 0 \in Stamps /\ 0 \in Readers /\ -1 \in Readers /\ 0 \in Numbers0
  BY <1>1 DEF Frames0, MarkValues, Stamps, Readers, Numbers0, NoMark
<1>3. << >> \in Iter /\ NotCached \in Cache
  BY DEF Iter, Cache
<1>4. NoHdr \in Hdr
  BY <1>1 DEF NoHdr, Hdr
<1>5. Marks \subseteq Readers /\ Marks \subseteq Numbers0
  BY <1>1 DEF Marks, Readers, Numbers0
<1> QED
  BY <1>2, <1>3, <1>4, <1>5

LEMMA StepNames ==
  /\ Resting \union {"read", "start"} \union Recovery \union Choosing \union Restarting \union Closing \union Copying \subseteq Steps
BY DEF Steps, Resting, Recovery, Choosing, Restarting, Closing, Copying

-----------------------------------------------------------------------------
(* What a step of one connection leaves of the invariant.                  *)

LEMMA Known ==
  ASSUME IInv, NEW c \in Conns
  PROVE  /\ conn[c] \in Conn /\ Alone(conn[c]) /\ Agrees(conn[c])
         /\ \A d \in Conns \ {c} : conn[d] \in Conn /\ Alone(conn[d]) /\ Agrees(conn[d]) /\ Pair(conn[c], conn[d])
BY DEF IInv, Typed

LEMMA PairIsSymmetric == \A K, D : Pair(K, D) => Pair(D, K)
BY DEF Pair, Excludes

LEMMA OneMoves ==
  ASSUME IInv, NEW c \in Conns, Typed', Header', \A d \in Conns \ {c} : conn'[d] = conn[d],
         Alone(conn'[c]), \A d \in Conns : Agrees(conn[d])', \A d \in Conns \ {c} : Pair(conn'[c], conn'[d])
  PROVE  IInv'
<1>1. \A d \in Conns : Alone(conn'[d])
  BY DEF IInv
<1>2. ASSUME NEW d \in Conns, NEW e \in Conns, d # e
      PROVE  Pair(conn'[d], conn'[e])
  <2>1. CASE d = c
    BY <1>2, <2>1
  <2>2. CASE e = c
    BY <1>2, <2>2, PairIsSymmetric
  <2>3. CASE d # c /\ e # c
    BY <1>2, <2>3 DEF IInv
  <2> QED
    BY <2>1, <2>2, <2>3
<1> QED
  BY <1>1, <1>2 DEF IInv

\* The same if nothing else changes but what the disk may hold, the database file and the counters.
LEMMA OneMovesAndFiles ==
  ASSUME IInv, NEW c \in Conns, NEW N \in Conn, Become(c, N), UNCHANGED << shm, wal >>, LogType', FileType', txn' \in 0..MaxTxn,
         N.on => \E d \in Conns : conn[d].on, conn[c].at = "restart3" => N.at = "restart3",
         Alone(N), Agrees(N), \A d \in Conns \ {c} : Pair(N, conn[d])
  PROVE  IInv'
<1>1. conn \in [Conns -> Conn]
  BY DEF IInv, Typed
<1>2. conn' \in [Conns -> Conn] /\ conn'[c] = N /\ \A d \in Conns \ {c} : conn'[d] = conn[d]
  BY <1>1 DEF Become
<1>3. Typed'
  BY <1>2 DEF IInv, Typed, ShmType
<1>4. Header'
  <2>1. (\E d \in Conns : conn'[d].on) => \E d \in Conns : conn[d].on
    BY <1>2
  <2>2. (\A d \in Conns : conn'[d].at # "restart3") => \A d \in Conns : conn[d].at # "restart3"
    BY <1>2
  <2> QED
    BY <2>1, <2>2 DEF IInv, Header, Committed
<1>5. ASSUME NEW d \in Conns
      PROVE  Agrees(conn[d])'
  <2>1. Agrees(conn'[d])
    BY <1>2 DEF IInv
  <2> QED
    BY <2>1 DEF Agrees, Writer, Reader, Behind, Committed
<1>6. \A d \in Conns \ {c} : Pair(conn'[c], conn'[d])
  BY <1>2
<1> QED
  BY <1>2, <1>3, <1>4, <1>5, <1>6, OneMoves

LEMMA OneMovesAndCounts ==
  ASSUME IInv, NEW c \in Conns, NEW N \in Conn, Become(c, N), UNCHANGED << shm, log, file >>, txn' \in 0..MaxTxn,
         N.on => conn[c].on, conn[c].at = "restart3" => N.at = "restart3",
         Alone(N), Agrees(N), \A d \in Conns \ {c} : Pair(N, conn[d])
  PROVE  IInv'
<1>1. LogType' /\ FileType' /\ UNCHANGED << shm, wal >>
  BY DEF IInv, Typed, LogType, FileType, log, file
<1>2. N.on => \E d \in Conns : conn[d].on
  OBVIOUS
<1> QED
  BY <1>1, <1>2, OneMovesAndFiles

LEMMA OnlyOneMoves ==
  ASSUME IInv, NEW c \in Conns, NEW N \in Conn, Become(c, N), UNCHANGED << shm, log, file, history >>,
         N.on => conn[c].on, conn[c].at = "restart3" => N.at = "restart3",
         Alone(N), Agrees(N), \A d \in Conns \ {c} : Pair(N, conn[d])
  PROVE  IInv'
<1>1. txn' \in 0..MaxTxn
  BY DEF IInv, Typed, history
<1> QED
  BY <1>1, OneMovesAndCounts

\* A connection that takes no lock, ...
LEMMA FewerLocks ==
  ASSUME NEW K \in Conn, NEW N \in Conn, NEW D \in Conn, Alone(D), Excludes(K, D),
         N.writeLock => K.writeLock,
         N.ckptLock \/ N.at \in Recovery => K.ckptLock \/ K.at \in Recovery,
         N.exRead \subseteq K.exRead,
         N.readLock = K.readLock \/ N.readLock = -1
  PROVE  Excludes(N, D)
<1>1. -1 \notin D.exRead
  BY ConnFields, WalAssumption
<1> QED
  BY <1>1 DEF Excludes

\* ... and reads no more than before.
LEMMA StillWaits ==
  ASSUME NEW K \in Conn, NEW N \in Conn, NEW D \in Conn, Waits(D, K), N.at # "restart2",
         Reads(N) => Reads(K) /\ N.readLock = K.readLock /\ K.hdr.mxFrame <= N.hdr.mxFrame
  PROVE  Waits(D, N)
<1>1. K.hdr.mxFrame \in Nat /\ N.hdr.mxFrame \in Nat /\ D.safe \in Nat /\ D.mark \in Nat
  BY ConnFields
<1> SUFFICES ASSUME D.at \in {"start"} \union Copying, Reads(N), D.at # "start"
             PROVE  /\ N.readLock < D.i => D.safe <= N.hdr.mxFrame
                    /\ D.at = "lockMark_i" /\ N.readLock = D.i => D.mark <= N.hdr.mxFrame
  BY DEF Waits
<1>2. /\ K.readLock < D.i => D.safe <= K.hdr.mxFrame
      /\ D.at = "lockMark_i" /\ K.readLock = D.i => D.mark <= K.hdr.mxFrame
  BY DEF Waits
<1> QED
  BY <1>1, <1>2

\* One that has the header of now is not in the way of a checkpoint.
LEMMA WaitsForNobody ==
  ASSUME NEW D \in Conn, NEW N \in Conn, ShmType, Alone(D), Behind(D), N.at # "restart2", N.hdr.mxFrame = shm.hdr[1].mxFrame
  PROVE  Waits(D, N)
<1>1. D.hdr.mxFrame \in Nat /\ N.hdr.mxFrame \in Nat /\ D.safe \in Nat /\ D.mark \in Nat
  BY ConnFields
<1>2. D.at \in Copying => D.hdr.mxFrame <= N.hdr.mxFrame /\ D.safe <= D.hdr.mxFrame /\ (D.at = "lockMark_i" => D.mark < D.safe)
  BY DEF Behind, Alone, Numbers, Copying
<1>3. D.at \in Copying => D.safe <= N.hdr.mxFrame /\ (D.at = "lockMark_i" => D.mark <= N.hdr.mxFrame)
  BY <1>1, <1>2
<1> QED
  BY <1>1, <1>3 DEF Waits

LEMMA NoCheckpoint ==
  ASSUME NEW N \in Conn, N.at \notin {"start"} \union Copying
  PROVE  Behind(N) /\ \A D : Waits(N, D)
BY DEF Waits, Behind

\* A connection that gives up whatever it has, or goes on without a lock or a snapshot.
LEMMA Rests ==
  ASSUME IInv, NEW c \in Conns, NEW N \in Conn, N.at \in Resting, Become(c, N), UNCHANGED << shm, log, file, history >>,
         N.on => conn[c].on, conn[c].at # "restart3",
         Alone(N), Writer(N), N.writeLock => conn[c].writeLock, N.ckptLock => conn[c].ckptLock, N.readLock = -1
  PROVE  IInv'
<1>1. conn[c] \in Conn /\ \A d \in Conns \ {c} : conn[d] \in Conn /\ Alone(conn[d]) /\ Pair(conn[c], conn[d])
  BY Known
<1>2. N.at \notin {"start"} \union Copying \union Recovery \union Restarting \union Closing \union {"read", "copy"}
  BY DEF Resting, Copying, Recovery, Restarting, Closing
<1>3. ~Reads(N) /\ N.at # "restart2" /\ N.exRead = {}
  BY <1>2 DEF Reads, Alone, Locks, Held, Restarting
<1>4. Agrees(N) /\ \A D : Waits(N, D)
  BY <1>2, <1>3, NoCheckpoint DEF Agrees, Reader
<1>5. ASSUME NEW d \in Conns \ {c}
      PROVE  Pair(N, conn[d])
  <2>1. Excludes(N, conn[d])
    BY <1>1, <1>2, <1>3, FewerLocks DEF Pair
  <2>2. Waits(conn[d], N)
    BY <1>1, <1>3, StillWaits DEF Pair
  <2> QED
    BY <2>1, <2>2, <1>4 DEF Pair
<1> QED
  BY <1>4, <1>5, OnlyOneMoves

-----------------------------------------------------------------------------
(* Reading the header.                                                     *)

LEMMA LeftType ==
  ASSUME NEW K \in Conn
  PROVE  /\ Left(K) \in Conn /\ Left(K).at = "idle" /\ Left(K).on = K.on /\ Left(K).ckptLock = FALSE
         /\ Left(K).readLock = -1 /\ Left(K).writeLock = K.writeLock /\ Left(K).exRead = K.exRead
         /\ Left(K).written = K.written
<1> DEFINE h == IF K.cache = NotCached THEN NoHdr ELSE K.hdr
<1>1. h \in Hdr /\ "idle" \in Steps
  BY RangeTypes, StepNames DEF Conn, Resting
<1> HIDE DEF h
<1>2. PICK L \in Conn : L = [K EXCEPT !.hdr = h, !.at = "idle", !.ckptLock = FALSE, !.readLock = -1, !.mark = 0]
  BY <1>1, RangeTypes DEF Conn
<1>3. PICK M \in Conn : M = [L EXCEPT !.minFrame = 0, !.iter = << >>, !.i = 0, !.safe = 0, !.changed = FALSE]
  BY RangeTypes DEF Conn
<1>4. Left(K) = M
  BY <1>2, <1>3 DEF Left, h
<1>5. /\ L.at = "idle" /\ L.on = K.on /\ L.ckptLock = FALSE /\ L.readLock = -1 /\ L.writeLock = K.writeLock
      /\ L.exRead = K.exRead /\ L.written = K.written
  BY <1>2 DEF Conn
<1>6. /\ M.at = L.at /\ M.on = L.on /\ M.ckptLock = L.ckptLock /\ M.readLock = L.readLock
      /\ M.writeLock = L.writeLock /\ M.exRead = L.exRead /\ M.written = L.written
  BY <1>3 DEF Conn
<1> QED
  BY <1>4, <1>5, <1>6

LEMMA AcceptedType ==
  ASSUME NEW K \in Conn, NEW hdr \in Hdr
  PROVE  /\ Accepted(K, hdr) \in Conn /\ Accepted(K, hdr).at = (IF K.ckptLock THEN "start" ELSE "pick")
         /\ Accepted(K, hdr).hdr = hdr
         /\ \A f \in {"on", "readLock", "exRead", "writeLock", "ckptLock", "written"} : Accepted(K, hdr)[f] = K[f]
<1> DEFINE cache == IF ~K.ckptLock /\ hdr # K.hdr THEN NotCached ELSE K.cache
           at == IF K.ckptLock THEN "start" ELSE "pick"
           changed == K.ckptLock /\ hdr # K.hdr
<1>1. cache \in Cache /\ at \in Steps /\ changed \in BOOLEAN
  BY RangeTypes, StepNames DEF Conn, Resting
<1>2. Accepted(K, hdr) = [K EXCEPT !.hdr = hdr, !.changed = changed, !.cache = cache, !.at = at]
  BY DEF Accepted
<1> HIDE DEF cache, at, changed
<1>3. PICK A \in Conn : A = Accepted(K, hdr)
  BY <1>1, <1>2 DEF Conn
<1>4. A.at = at /\ A.hdr = hdr /\ \A f \in {"on", "readLock", "exRead", "writeLock", "ckptLock", "written"} : A[f] = K[f]
  BY <1>2, <1>3 DEF Conn
<1> QED
  BY <1>3, <1>4 DEF at

\* A connection that has gone back to where it has no transaction.
LEMMA Leaves ==
  ASSUME IInv, NEW c \in Conns, NEW K \in Conn, Become(c, Left(K)), UNCHANGED << shm, log, file, history >>,
         K.on => conn[c].on, conn[c].at # "restart3",
         ~K.writeLock, K.exRead = {}, K.written = {}
  PROVE  IInv'
<1>1. PICK N \in Conn : N = Left(K)
  BY LeftType
<1>2. /\ N.at = "idle" /\ N.on = K.on /\ N.ckptLock = FALSE /\ N.readLock = -1 /\ N.writeLock = FALSE
      /\ N.exRead = {} /\ N.written = {}
  BY <1>1, LeftType DEF Conn
<1>3. Alone(N) /\ Writer(N) /\ N.at \in Resting
  BY <1>2 DEF Alone, Locks, Numbers, Prepared, Writer, Held, Resting, Recovery, Choosing, Restarting, Closing, Copying
<1> QED
  BY <1>1, <1>2, <1>3, Rests

LEMMA AtRest ==
  ASSUME NEW K \in Conn, Alone(K), K.at \in {"idle", "bad", "pick"}
  PROVE  /\ K.writeLock = FALSE /\ K.readLock = -1 /\ K.exRead = {} /\ K.written = {}
         /\ K.at # "bad" => K.ckptLock = FALSE
<1>1. K.at \notin {"read", "check", "start", "copy"} \union Recovery \union Choosing \union Restarting \union Closing \union Copying
  BY DEF Recovery, Choosing, Restarting, Closing, Copying
<1>2. ~(K.readLock >= 0) /\ K.exRead = {} /\ ~K.writeLock /\ K.written = {} /\ (K.at # "bad" => ~K.ckptLock)
  BY <1>1 DEF Alone, Locks, Held, Restarting, Copying
<1>3. K.readLock \in -1..(NReader - 1) /\ K.writeLock \in BOOLEAN /\ K.ckptLock \in BOOLEAN
  BY ConnFields DEF Conn
<1>4. K.readLock = -1
  BY <1>2, <1>3, WalAssumption
<1> QED
  BY <1>2, <1>3, <1>4

\* A connection that has no lock but that of a checkpoint accepts the header or calls it bad.
LEMMA Tries ==
  ASSUME IInv, NEW c \in Conns, NEW K \in Conn, UNCHANGED << shm, log, file, history >>,
         K.on => conn[c].on, conn[c].at # "restart3",
         K.writeLock = FALSE, K.readLock = -1, K.exRead = {}, K.written = {},
         K.ckptLock => \A d \in Conns \ {c} : ~conn[d].ckptLock /\ conn[d].at \notin Recovery,
         \/ GoodHdr /\ Become(c, Accepted(K, shm.hdr[1])) /\ K.on
         \/ Become(c, [K EXCEPT !.at = "bad"]) /\ K.on
  PROVE  IInv'
<1>1. shm.hdr[1] \in Hdr /\ shm.hdr[1].mxFrame \in Nat
  BY WalAssumption DEF IInv, Typed, ShmType, Hdr
<1>2. PICK N \in Conn :
        /\ Become(c, N)
        /\ \/ GoodHdr /\ N.at = (IF K.ckptLock THEN "start" ELSE "pick") /\ N.hdr = shm.hdr[1]
           \/ N.at = "bad"
        /\ N.on = K.on /\ N.readLock = -1 /\ N.exRead = {} /\ N.writeLock = FALSE /\ N.ckptLock = K.ckptLock /\ N.written = {}
        /\ N.on
  <2>1. CASE GoodHdr /\ Become(c, Accepted(K, shm.hdr[1])) /\ K.on
    <3>1. PICK N \in Conn : N = Accepted(K, shm.hdr[1])
      BY <1>1, AcceptedType
    <3>2. N.at = (IF K.ckptLock THEN "start" ELSE "pick") /\ N.hdr = shm.hdr[1]
      BY <1>1, <3>1, AcceptedType
    <3>3. \A f \in {"on", "readLock", "exRead", "writeLock", "ckptLock", "written"} : N[f] = K[f]
      BY <1>1, <3>1, AcceptedType
    <3>4. N.on = K.on /\ N.readLock = -1 /\ N.exRead = {} /\ N.writeLock = FALSE /\ N.ckptLock = K.ckptLock /\ N.written = {}
      BY <3>3
    <3> QED
      BY <2>1, <3>1, <3>2, <3>4
  <2>2. CASE Become(c, [K EXCEPT !.at = "bad"]) /\ K.on
    <3>1. PICK N \in Conn : N = [K EXCEPT !.at = "bad"]
      BY StepNames DEF Conn, Resting
    <3>2. N.at = "bad" /\ N.on = K.on /\ N.readLock = -1 /\ N.exRead = {} /\ N.writeLock = FALSE /\ N.ckptLock = K.ckptLock /\ N.written = {}
      BY <3>1 DEF Conn
    <3> QED
      BY <2>2, <3>1, <3>2
  <2> QED
    BY <2>1, <2>2
<1>3. N.at \in {"start", "bad", "pick"} /\ (N.at = "pick" => ~N.ckptLock) /\ (N.at = "start" => N.ckptLock)
  BY <1>2
<1>4. N.at \notin {"copy", "read", "check", "restart2", "idle"} \union Recovery \union Choosing \union Restarting \union Closing \union Copying
  BY <1>3 DEF Recovery, Choosing, Restarting, Closing, Copying
<1>5. Alone(N) /\ Writer(N) /\ ~Reads(N) /\ Reader(N)
  BY <1>2, <1>3, <1>4 DEF Alone, Locks, Numbers, Prepared, Held, Writer, Reads, Reader, Restarting, Copying
<1>6. Behind(N)
  BY <1>1, <1>2, <1>4 DEF Behind
<1>7. ASSUME NEW d \in Conns \ {c}
      PROVE  Pair(N, conn[d])
  <2> DEFINE D == conn[d]
  <2>1. D \in Conn /\ Alone(D) /\ Writer(D) /\ Pair(conn[c], D) /\ conn[c] \in Conn /\ D.readLock \in Int
    BY Known, ConnFields DEF Agrees
  <2>2. Excludes(N, D)
    <3>1. -1 \notin D.exRead
      BY <2>1, ConnFields, WalAssumption
    <3> QED
      BY <1>2, <1>4, <3>1 DEF Excludes
  <2>3. Waits(D, N)
    BY <2>1, <1>5, <1>4, StillWaits DEF Pair
  <2>4. Waits(N, D)
    <3>1. N.at = "start" => GoodHdr
      BY <1>2
    <3>2. D.at = "restart2" => ~GoodHdr
      <4>1. D.at = "restart2" => D.writeLock
        BY <2>1 DEF Alone, Locks, Restarting
      <4> QED
        BY <2>1, <4>1 DEF Writer, GoodHdr
    <3> QED
      BY <1>4, <3>1, <3>2 DEF Waits
  <2> QED
    BY <2>2, <2>3, <2>4 DEF Pair
<1> QED
  BY <1>2, <1>5, <1>6, <1>7, OnlyOneMoves DEF Agrees

LEMMA HeaderSteps ==
  ASSUME IInv, NEW c \in Conns, BeginRead(c) \/ BeginCkpt(c) \/ TryAgain(c)
  PROVE  IInv'
<1> DEFINE K == conn[c]
<1>1. K \in Conn /\ Alone(K) /\ Agrees(K)
  BY Known
<1>2. CASE BeginRead(c)
  <2>1. K.on /\ K.at = "idle" /\ K.writeLock = FALSE /\ K.readLock = -1 /\ K.exRead = {} /\ K.written = {} /\ K.ckptLock = FALSE
    BY <1>1, <1>2, AtRest DEF BeginRead, At
  <2> QED
    BY <1>1, <1>2, <2>1, Tries DEF BeginRead, Tried
<1>3. CASE BeginCkpt(c)
  <2>1. K.on /\ K.at = "idle" /\ K.writeLock = FALSE /\ K.readLock = -1 /\ K.exRead = {} /\ K.written = {} /\ CanCheckpoint(c)
    BY <1>1, <1>3, AtRest DEF BeginCkpt, At
  <2>2. PICK L \in Conn : L = [K EXCEPT !.ckptLock = TRUE]
    BY <1>1 DEF Conn
  <2>3. L.on /\ L.at = "idle" /\ L.writeLock = FALSE /\ L.readLock = -1 /\ L.exRead = {} /\ L.written = {} /\ L.ckptLock
    BY <1>1, <2>1, <2>2 DEF Conn
  <2>4. \A d \in Conns \ {c} : ~conn[d].ckptLock /\ conn[d].at \notin Recovery
    BY <2>1 DEF CanCheckpoint, Recovering, Recovery
  <2>5. Become(c, Tried(L)) /\ UNCHANGED << shm, log, file, history >>
    BY <1>3, <2>2 DEF BeginCkpt
  <2> QED
    BY <2>1, <2>3, <2>4, <2>5, Tries DEF Tried
<1>4. CASE TryAgain(c)
  <2>1. K.on /\ K.at = "bad" /\ K.writeLock = FALSE /\ K.readLock = -1 /\ K.exRead = {} /\ K.written = {}
    BY <1>1, <1>4, AtRest DEF TryAgain, At
  <2>2. K.ckptLock => \A d \in Conns \ {c} : ~conn[d].ckptLock /\ conn[d].at \notin Recovery
    BY Known DEF Pair, Excludes
  <2>3. UNCHANGED << shm, log, file, history >>
    BY <1>4 DEF TryAgain
  <2>4. CASE GoodHdr /\ Become(c, Accepted(K, shm.hdr[1]))
    BY <1>1, <2>1, <2>2, <2>3, <2>4, Tries
  <2>5. CASE Become(c, Left(K))
    BY <1>1, <2>1, <2>3, <2>5, Leaves
  <2> QED
    BY <1>4, <2>4, <2>5 DEF TryAgain
<1> QED
  BY <1>2, <1>3, <1>4

-----------------------------------------------------------------------------
(* Choosing a snapshot.                                                    *)

\* A connection that has a shared lock, but does not read the log yet.
LEMMA Shares ==
  ASSUME IInv, NEW c \in Conns, NEW N \in Conn, N.at \in {"read", "check"}, ~Reads(N), Become(c, N),
         UNCHANGED << shm, log, file, history >>,
         N.on => conn[c].on, conn[c].at # "restart3", CanShareRead(c, N.readLock),
         Alone(N), Writer(N), N.writeLock => conn[c].writeLock
  PROVE  IInv'
<1>1. conn[c] \in Conn /\ \A d \in Conns \ {c} : conn[d] \in Conn /\ Alone(conn[d]) /\ Pair(conn[c], conn[d])
  BY Known
<1>2. N.at \notin {"start", "copy", "restart2"} \union Copying \union Recovery \union Restarting
  BY DEF Copying, Recovery, Restarting
<1>3. N.exRead = {} /\ ~N.ckptLock
  BY <1>2 DEF Alone, Locks, Held, Copying
<1>4. Agrees(N) /\ \A D : Waits(N, D)
  BY <1>2, NoCheckpoint DEF Agrees, Reader
<1>5. ASSUME NEW d \in Conns \ {c}
      PROVE  Pair(N, conn[d])
  <2>1. N.readLock \notin conn[d].exRead
    BY DEF CanShareRead
  <2>2. Excludes(N, conn[d])
    BY <1>1, <1>2, <1>3, <2>1 DEF Pair, Excludes
  <2>3. Waits(conn[d], N)
    BY <1>1, <1>2, StillWaits DEF Pair
  <2> QED
    BY <2>2, <2>3, <1>4 DEF Pair
<1> QED
  BY <1>2, <1>4, <1>5, OnlyOneMoves

LEMMA PickStep ==
  ASSUME IInv, NEW c \in Conns, Pick(c)
  PROVE  IInv'
<1> DEFINE K == conn[c]
<1>1. K \in Conn /\ Alone(K) /\ Agrees(K) /\ K.on /\ K.at = "pick" /\ UNCHANGED << shm, log, file, history >>
  BY Known DEF Pick, At
<1>2. K.writeLock = FALSE /\ K.readLock = -1 /\ K.exRead = {} /\ K.written = {} /\ K.ckptLock = FALSE
  BY <1>1, AtRest
<1>3. CASE Become(c, [K EXCEPT !.at = "mark"])
  <2>1. PICK N \in Conn : N = [K EXCEPT !.at = "mark"]
    BY <1>1, StepNames DEF Conn, Resting
  <2>2. N.on /\ N.at = "mark" /\ N.writeLock = FALSE /\ N.readLock = -1 /\ N.exRead = {} /\ N.written = {} /\ N.ckptLock = FALSE
    BY <1>1, <1>2, <2>1 DEF Conn
  <2>3. Alone(N) /\ Writer(N) /\ N.at \in Resting
    BY <2>2 DEF Alone, Locks, Numbers, Prepared, Writer, Held, Resting, Recovery, Choosing, Restarting, Closing, Copying
  <2> QED
    BY <1>1, <1>3, <2>1, <2>2, <2>3, Rests
<1>4. CASE CanShareRead(c, 0) /\ Become(c, [K EXCEPT !.at = "read", !.readLock = 0])
  <2>1. PICK N \in Conn : N = [K EXCEPT !.at = "read", !.readLock = 0]
    BY <1>1, StepNames, RangeTypes DEF Conn
  <2>2. N.on /\ N.at = "read" /\ N.writeLock = FALSE /\ N.readLock = 0 /\ N.exRead = {} /\ N.written = {} /\ N.ckptLock = FALSE
    BY <1>1, <1>2, <2>1 DEF Conn
  <2>3. Alone(N) /\ Writer(N) /\ ~Reads(N)
    BY <2>2 DEF Alone, Locks, Numbers, Prepared, Writer, Reads, Held, Recovery, Choosing, Restarting, Closing, Copying
  <2> QED
    BY <1>1, <1>4, <2>1, <2>2, <2>3, Shares
<1>5. CASE Become(c, Left(K))
  BY <1>1, <1>2, <1>5, Leaves
<1> QED
  BY <1>3, <1>4, <1>5 DEF Pick

\* The mark that walTryBeginRead chooses: the largest, and among equal ones the last.
LEMMA BestMark ==
  ASSUME ShmType, NEW fit \in SUBSET Marks, fit # {},
         NEW best, best = CHOOSE i \in fit : \A j \in fit \ {i} : shm.mark[j] < shm.mark[i] \/ (shm.mark[j] = shm.mark[i] /\ j < i)
  PROVE  best \in fit
<1> DEFINE values == {shm.mark[i] : i \in fit}
<1>1. NoMark \in Nat /\ NReader \in Nat /\ \A i \in Marks : shm.mark[i] \in 0..NoMark /\ i \in 0..NReader
  BY ShmFields
<1>2. values \in SUBSET (0..NoMark) /\ values # {}
  BY <1>1
<1>3. Max(values) \in values /\ \A y \in values : y <= Max(values)
  BY <1>1, <1>2, MaxIsGreatest
<1>4. PICK m \in values : \A y \in values : y <= m
  BY <1>3
<1> DEFINE last == {i \in fit : shm.mark[i] = m}
<1>5. last \in SUBSET (0..NReader) /\ last # {}
  BY <1>1, <1>4
<1>6. Max(last) \in last /\ \A y \in last : y <= Max(last)
  BY <1>1, <1>5, MaxIsGreatest
<1>7. PICK b \in last : \A y \in last : y <= b
  BY <1>6
<1>8. ASSUME NEW j \in fit, j # b
      PROVE  shm.mark[j] < shm.mark[b] \/ (shm.mark[j] = shm.mark[b] /\ j < b)
  <2>1. shm.mark[j] \in Int /\ shm.mark[b] \in Int /\ j \in Int /\ b \in Int /\ shm.mark[j] <= shm.mark[b] /\ shm.mark[b] = m
    BY <1>1, <1>4, <1>7
  <2>2. shm.mark[j] = m => j <= b
    BY <1>7
  <2> QED
    BY <1>8, <2>1, <2>2
<1>9. b \in fit /\ \A j \in fit \ {b} : shm.mark[j] < shm.mark[b] \/ (shm.mark[j] = shm.mark[b] /\ j < b)
  BY <1>8
<1> QED
  BY <1>9

\* A connection without a read lock chooses one, or is about to.
LEMMA ChoosingFields ==
  ASSUME NEW K \in Conn, Alone(K), K.at \in {"mark", "setMark", "lockMark"}
  PROVE  K.readLock = -1 /\ K.exRead = {} /\ ~K.ckptLock /\ (K.written # {} => K.writeLock) /\ ~Reads(K)
<1>1. K.at \notin {"read", "check", "copy", "start", "bad"} \union Closing \union Restarting \union Recovery \union Copying
  BY DEF Closing, Restarting, Recovery, Copying
<1>2. ~(K.readLock >= 0) /\ K.exRead = {} /\ ~K.ckptLock /\ ~Reads(K)
  BY <1>1 DEF Alone, Locks, Held, Restarting, Reads
<1>3. K.readLock = -1
  BY <1>2, ConnFields, WalAssumption
<1> QED
  BY <1>2, <1>3 DEF Alone, Locks

\* It goes on with what it has written, and with its header.
LEMMA ChoosingOn ==
  ASSUME NEW K \in Conn, NEW N \in Conn, Alone(K), Writer(K), K.at \in Choosing,
         N.at \in {"mark", "setMark", "lockMark"}, N.readLock = -1, N.exRead = {}, N.ckptLock = FALSE,
         N.on = K.on, N.writeLock = K.writeLock, N.written = K.written, N.hdr = K.hdr, N.todo = K.todo, K.on,
         N.at = "lockMark" => N.i \in Marks, N.at = "setMark" => N.i < NReader,
         N.at = "lockMark" \/ (N.at = "setMark" /\ N.i # 0) => N.mark <= N.hdr.mxFrame
  PROVE  Alone(N) /\ Writer(N) /\ N.at \in Resting
<1>1. K.at \notin {"read", "append", "restart", "restart2", "restart3", "frame", "publish", "publish2", "recover2", "recover3"}
  BY DEF Choosing
<1>2. N.at \notin {"read", "check", "append", "restart", "restart2", "restart3", "frame", "publish", "publish2", "recover2", "recover3", "idle",
                   "start", "copy", "copyLock", "readMark", "lockMark_i"} /\ N.at \in Choosing /\ N.at \in Resting
  BY DEF Choosing, Resting
<1>3. Locks(N)
  BY <1>1, <1>2 DEF Alone, Locks, Held, Recovery, Restarting, Closing, Copying
<1>4. Numbers(N)
  <2>1. Prepared(N) => Prepared(K)
    BY <1>2 DEF Prepared
  <2>2. Prepared(N) => N.todo # {} /\ (N.at # "restart" => N.hdr.mxFrame + Cardinality(N.todo) <= MaxFrame)
    BY <1>1, <2>1 DEF Alone, Numbers
  <2> QED
    BY <1>2, <2>2 DEF Numbers, Copying
<1>5. Writer(N)
  BY <1>1, <1>2 DEF Writer, Reads, Recovery, Closing
<1> QED
  BY <1>2, <1>3, <1>4, <1>5 DEF Alone

LEMMA MarkStep ==
  ASSUME IInv, NEW c \in Conns, Mark(c)
  PROVE  IInv'
<1> DEFINE K == conn[c]
           fit == {i \in Marks : shm.mark[i] <= K.hdr.mxFrame}
           best == CHOOSE i \in fit : \A j \in fit \ {i} : shm.mark[j] < shm.mark[i] \/ (shm.mark[j] = shm.mark[i] /\ j < i)
<1>1. K \in Conn /\ Alone(K) /\ Agrees(K) /\ K.on /\ K.at = "mark" /\ UNCHANGED << shm, log, file, history >> /\ ShmType
  BY Known DEF Mark, At, IInv, Typed
<1>2. K.readLock = -1 /\ K.exRead = {} /\ K.ckptLock = FALSE
  BY <1>1, ChoosingFields DEF Conn
<1>3. PICK N \in Conn :
        /\ Become(c, N)
        /\ N.at \in {"setMark", "lockMark"} /\ N.readLock = -1 /\ N.exRead = {} /\ N.ckptLock = FALSE
        /\ N.on = K.on /\ N.writeLock = K.writeLock /\ N.written = K.written /\ N.hdr = K.hdr /\ N.todo = K.todo
        /\ (N.i \in Marks /\ N.mark <= N.hdr.mxFrame) \/ (N.i = 0 /\ N.at = "setMark")
  <2>1. CASE fit = {}
    <3>1. PICK N \in Conn : N = [K EXCEPT !.at = "setMark", !.i = 0]
      BY <1>1, StepNames, RangeTypes DEF Conn, Resting
    <3>2. /\ N.at = "setMark" /\ N.readLock = -1 /\ N.exRead = {} /\ N.ckptLock = FALSE
          /\ N.on = K.on /\ N.writeLock = K.writeLock /\ N.written = K.written /\ N.hdr = K.hdr /\ N.todo = K.todo /\ N.i = 0
      BY <1>1, <1>2, <3>1 DEF Conn
    <3>3. Become(c, N)
      BY <2>1, <3>1 DEF Mark
    <3> QED
      BY <3>2, <3>3
  <2>2. CASE fit # {}
    <3>1. PICK b \in fit : b = best
      BY <1>1, <2>2, BestMark
    <3>2. b \in Marks /\ b \in Numbers0 /\ shm.mark[b] \in MarkValues /\ shm.mark[b] <= K.hdr.mxFrame
      BY <1>1, ShmFields, RangeTypes
    <3> DEFINE at == IF shm.mark[b] < K.hdr.mxFrame THEN "setMark" ELSE "lockMark"
    <3>3. at \in {"setMark", "lockMark"} /\ at \in Steps
      BY StepNames DEF Resting
    <3>4. Become(c, [K EXCEPT !.at = at, !.i = b, !.mark = shm.mark[b]])
      BY <2>2, <3>1 DEF Mark
    <3> HIDE DEF at
    <3>5. PICK N \in Conn : N = [K EXCEPT !.at = at, !.i = b, !.mark = shm.mark[b]]
      BY <1>1, <3>2, <3>3 DEF Conn
    <3>6. /\ N.at = at /\ N.readLock = -1 /\ N.exRead = {} /\ N.ckptLock = FALSE /\ N.i = b /\ N.mark = shm.mark[b]
          /\ N.on = K.on /\ N.writeLock = K.writeLock /\ N.written = K.written /\ N.hdr = K.hdr /\ N.todo = K.todo
      BY <1>1, <1>2, <3>5 DEF Conn
    <3>7. N.mark <= N.hdr.mxFrame /\ N.i \in Marks /\ N.at \in {"setMark", "lockMark"} /\ Become(c, N)
      BY <3>2, <3>3, <3>4, <3>5, <3>6
    <3>8. /\ Become(c, N)
          /\ N.at \in {"setMark", "lockMark"} /\ N.readLock = -1 /\ N.exRead = {} /\ N.ckptLock = FALSE
          /\ N.on = K.on /\ N.writeLock = K.writeLock /\ N.written = K.written /\ N.hdr = K.hdr /\ N.todo = K.todo
          /\ (N.i \in Marks /\ N.mark <= N.hdr.mxFrame) \/ (N.i = 0 /\ N.at = "setMark")
      BY <3>6, <3>7
    <3> QED
      BY <3>8
  <2> QED
    BY <2>1, <2>2
<1>4. N.at = "setMark" => N.i < NReader
  BY <1>3, WalAssumption DEF Marks
<1>5. N.at = "lockMark" \/ (N.at = "setMark" /\ N.i # 0) => N.mark <= N.hdr.mxFrame
  BY <1>3
<1>6. Alone(N) /\ Writer(N) /\ N.at \in Resting
  BY <1>1, <1>3, <1>4, <1>5, ChoosingOn DEF Agrees, Choosing
<1> QED
  BY <1>1, <1>2, <1>3, <1>6, Rests

\* A mark that nobody holds is changed.
LEMMA MarkMoves ==
  ASSUME IInv, NEW c \in Conns, NEW N \in Conn, NEW i \in Marks, NEW v \in MarkValues, Become(c, N),
         shm' = [shm EXCEPT !.mark[i] = v], UNCHANGED << log, file, history >>, CanExcludeRead(c, i),
         N.on => conn[c].on, conn[c].at # "restart3",
         Alone(N), ~Reads(N), Writer(N), Behind(N), \A d \in Conns \ {c} : Pair(N, conn[d])
  PROVE  IInv'
<1>1. conn \in [Conns -> Conn] /\ ShmType
  BY DEF IInv, Typed
<1>2. conn' \in [Conns -> Conn] /\ conn'[c] = N /\ \A d \in Conns \ {c} : conn'[d] = conn[d]
  BY <1>1 DEF Become
<1>3. /\ shm' \in [hdr : [1..2 -> Hdr], nBackfill : Frames0, mark : [Marks -> MarkValues], index : {shm'.index}]
      /\ shm'.hdr = shm.hdr /\ shm'.nBackfill = shm.nBackfill
      /\ \A j \in Marks \ {i} : shm'.mark[j] = shm.mark[j]
  BY <1>1 DEF ShmType
<1>4. Typed'
  BY <1>2, <1>3 DEF IInv, Typed, ShmType, LogType, FileType, log, file, history
<1>5. Header'
  <2>1. (\E d \in Conns : conn'[d].on) => \E d \in Conns : conn[d].on
    BY <1>2
  <2>2. (\A d \in Conns : conn'[d].at # "restart3") => \A d \in Conns : conn[d].at # "restart3"
    BY <1>2
  <2> QED
    BY <1>3, <2>1, <2>2 DEF IInv, Header, Committed, log
<1>6. Agrees(conn[c])'
  <2>1. Writer(N)' /\ Reader(N)' /\ Behind(N)'
    BY <1>3 DEF Writer, Reader, Behind, Committed, log
  <2> QED
    BY <1>2, <2>1 DEF Agrees, Writer, Reader, Behind, Committed
<1>7. ASSUME NEW d \in Conns \ {c}
      PROVE  Agrees(conn[d])'
  <2> DEFINE D == conn[d]
  <2>1. D \in Conn /\ Alone(D) /\ Agrees(D)
    BY Known
  <2>2. Reads(D) => D.readLock \in Marks \ {i}
    <3>1. D.readLock # i
      BY DEF CanExcludeRead
    <3>2. Reads(D) => D.readLock \in Marks
      BY <2>1, ConnFields, WalAssumption DEF Reads, Marks
    <3> QED
      BY <3>1, <3>2
  <2>3. /\ shm'.hdr = shm.hdr /\ shm'.nBackfill = shm.nBackfill /\ wal' = wal
        /\ Reads(D) => shm'.mark[D.readLock] = shm.mark[D.readLock]
    BY <1>3, <2>2 DEF log
  <2>4. Writer(conn[d])'
    BY <1>2, <2>1, <2>3 DEF Agrees, Writer, Committed
  <2>5. Reader(conn[d])' /\ Behind(conn[d])'
    BY <1>2, <2>1, <2>3 DEF Agrees, Reader, Behind
  <2> QED
    BY <2>4, <2>5 DEF Agrees
<1>8. \A d \in Conns : Agrees(conn[d])'
  BY <1>6, <1>7
<1> QED
  BY <1>2, <1>4, <1>5, <1>8, OneMoves

LEMMA ChoosingLocks ==
  ASSUME NEW K \in Conn, Alone(K), K.at \in Choosing
  PROVE  K.exRead = {} /\ K.ckptLock = FALSE /\ (K.written # {} => K.writeLock) /\ ~Reads(K) /\ K.at # "restart3"
<1>1. K.at \notin {"read", "copy", "start", "bad", "restart2", "restart3"} \union Closing \union Recovery \union Copying
  BY DEF Choosing, Closing, Recovery, Copying
<1>2. K.exRead = {} /\ ~K.ckptLock /\ ~Reads(K)
  BY <1>1 DEF Alone, Locks, Held, Reads
<1> QED
  BY <1>1, <1>2 DEF Alone, Locks, Conn

LEMMA Retries ==
  ASSUME IInv, NEW c \in Conns, conn[c].at \in Choosing, conn[c].on, NEW L \in Conn,
         \A f \in {"on", "hdr", "exRead", "writeLock", "ckptLock", "written", "todo"} : L[f] = conn[c][f],
         Become(c, Retry(L)), UNCHANGED << shm, log, file, history >>
  PROVE  IInv'
<1> DEFINE K == conn[c]
<1>1. K \in Conn /\ Alone(K) /\ Agrees(K)
  BY Known
<1>2. K.exRead = {} /\ K.ckptLock = FALSE /\ (K.written # {} => K.writeLock) /\ K.at # "restart3"
  BY <1>1, ChoosingLocks
<1>3. /\ L.on = K.on /\ L.hdr = K.hdr /\ L.exRead = K.exRead /\ L.writeLock = K.writeLock
      /\ L.ckptLock = K.ckptLock /\ L.written = K.written /\ L.todo = K.todo
  OBVIOUS
<1>4. CASE L.writeLock
  <2>1. PICK N \in Conn : N = [L EXCEPT !.at = "mark", !.readLock = -1, !.mark = 0, !.minFrame = 0]
    BY StepNames, RangeTypes DEF Conn, Resting
  <2>2. /\ N.at = "mark" /\ N.readLock = -1 /\ N.on = L.on /\ N.hdr = L.hdr /\ N.exRead = L.exRead
        /\ N.writeLock = L.writeLock /\ N.ckptLock = L.ckptLock /\ N.written = L.written /\ N.todo = L.todo
    BY <2>1 DEF Conn
  <2>3. Become(c, N)
    BY <1>4, <2>1 DEF Retry
  <2>4. Alone(N) /\ Writer(N) /\ N.at \in Resting
    BY <1>1, <1>2, <1>3, <2>2, ChoosingOn DEF Agrees
  <2> QED
    BY <1>2, <1>3, <2>2, <2>3, <2>4, Rests
<1>5. CASE ~L.writeLock
  <2>1. Become(c, Left(L))
    BY <1>5 DEF Retry
  <2> QED
    BY <1>2, <1>3, <1>5, <2>1, Leaves
<1> QED
  BY <1>4, <1>5

LEMMA SetMarkStep ==
  ASSUME IInv, NEW c \in Conns, SetMark(c)
  PROVE  IInv'
<1> DEFINE K == conn[c]
           free == {i \in Marks : CanExcludeRead(c, i)}
<1>1. /\ K \in Conn /\ Alone(K) /\ Agrees(K) /\ K.on /\ K.at = "setMark" /\ UNCHANGED << log, file, history >>
      /\ K.at \in Choosing
  BY Known DEF SetMark, At, Choosing
<1>2. K.readLock = -1 /\ K.exRead = {} /\ K.ckptLock = FALSE
  BY <1>1, ChoosingFields DEF Conn
<1>3. K.i < NReader /\ (K.i # 0 => K.mark <= K.hdr.mxFrame)
  BY <1>1 DEF Alone, Numbers
<1>4. CASE free # {}
  <2>1. free \in SUBSET Nat
    BY MarksType
  <2>2. PICK m \in free : m = Min(free)
    BY <1>4, <2>1, MinIsLeast
  <2>3. m \in Marks /\ m \in Numbers0 /\ CanExcludeRead(c, m) /\ K.hdr.mxFrame \in MarkValues
    BY <1>1, <2>2, RangeTypes, ConnFields, WalAssumption DEF MarkValues, NoMark
  <2>4. shm' = [shm EXCEPT !.mark[m] = K.hdr.mxFrame] /\ Become(c, [K EXCEPT !.at = "lockMark", !.i = m, !.mark = K.hdr.mxFrame])
    BY <1>4, <2>2 DEF SetMark
  <2>5. PICK v \in MarkValues : v = K.hdr.mxFrame
    BY <2>3
  <2>6. PICK N \in Conn : N = [K EXCEPT !.at = "lockMark", !.i = m, !.mark = v]
    BY <1>1, <2>3, StepNames DEF Conn, Resting
  <2>7. /\ N.at = "lockMark" /\ N.readLock = -1 /\ N.on = K.on /\ N.hdr = K.hdr /\ N.exRead = {} /\ N.i = m /\ N.mark = v
        /\ N.writeLock = K.writeLock /\ N.ckptLock = FALSE /\ N.written = K.written /\ N.todo = K.todo
    BY <1>1, <1>2, <2>6 DEF Conn
  <2>8. Alone(N) /\ Writer(N) /\ N.at \in Resting
    <3>1. N.mark <= N.hdr.mxFrame
      BY <1>1, <2>5, <2>7, ConnFields
    <3> QED
      BY <1>1, <2>3, <2>7, <3>1, ChoosingOn DEF Agrees
  <2>9. ~Reads(N) /\ Behind(N) /\ \A D : Waits(N, D)
    BY <2>7, NoCheckpoint DEF Reads, Closing, Copying
  <2>10. ASSUME NEW d \in Conns \ {c}
         PROVE  Pair(N, conn[d])
    <3>1. conn[d] \in Conn /\ Alone(conn[d]) /\ Pair(K, conn[d])
      BY Known
    <3>2. Excludes(N, conn[d])
      BY <1>1, <2>7, <3>1, FewerLocks DEF Pair, Recovery
    <3>3. Waits(conn[d], N)
      BY <1>1, <2>7, <2>9, <3>1, StillWaits DEF Pair
    <3> QED
      BY <2>9, <3>2, <3>3 DEF Pair
  <2> QED
    BY <1>1, <2>3, <2>4, <2>5, <2>6, <2>8, <2>9, <2>10, MarkMoves
<1>5. CASE free = {} /\ K.i = 0
  <2>1. Become(c, Retry(K)) /\ UNCHANGED shm
    BY <1>5 DEF SetMark
  <2> QED
    BY <1>1, <2>1, Retries
<1>6. CASE free = {} /\ K.i # 0
  <2>1. Become(c, [K EXCEPT !.at = "lockMark"]) /\ UNCHANGED shm
    BY <1>6 DEF SetMark
  <2>2. PICK N \in Conn : N = [K EXCEPT !.at = "lockMark"]
    BY <1>1, StepNames DEF Conn, Resting
  <2>3. /\ N.at = "lockMark" /\ N.readLock = -1 /\ N.on = K.on /\ N.hdr = K.hdr /\ N.exRead = {} /\ N.i = K.i /\ N.mark = K.mark
        /\ N.writeLock = K.writeLock /\ N.ckptLock = FALSE /\ N.written = K.written /\ N.todo = K.todo
    BY <1>1, <1>2, <2>2 DEF Conn
  <2>4. N.i \in Marks
    BY <1>1, <1>3, <1>6, <2>3, ConnFields, WalAssumption DEF Marks
  <2>5. Alone(N) /\ Writer(N) /\ N.at \in Resting
    BY <1>1, <1>3, <1>6, <2>3, <2>4, ChoosingOn DEF Agrees
  <2> QED
    BY <1>1, <1>2, <2>1, <2>2, <2>3, <2>5, Rests
<1> QED
  BY <1>4, <1>5, <1>6

LEMMA LockMarkStep ==
  ASSUME IInv, NEW c \in Conns, LockMark(c)
  PROVE  IInv'
<1> DEFINE K == conn[c]
<1>1. /\ K \in Conn /\ Alone(K) /\ Agrees(K) /\ K.on /\ K.at = "lockMark" /\ UNCHANGED << shm, log, file, history >>
      /\ K.at \in Choosing /\ ShmType
  BY Known DEF LockMark, At, Choosing, IInv, Typed
<1>2. K.readLock = -1 /\ K.exRead = {} /\ K.ckptLock = FALSE /\ (K.written # {} => K.writeLock)
  BY <1>1, ChoosingFields DEF Conn
<1>3. K.i \in Marks /\ K.mark <= K.hdr.mxFrame /\ K.i \in Readers
  BY <1>1, RangeTypes DEF Alone, Numbers
<1>4. CASE CanShareRead(c, K.i)
  <2>1. shm.nBackfill + 1 \in MarkValues
    BY <1>1, ShmFields DEF MarkValues, Frames0, NoMark
  <2>2. PICK N \in Conn : N = [K EXCEPT !.at = "check", !.readLock = K.i, !.i = 0, !.minFrame = shm.nBackfill + 1]
    BY <1>1, <1>3, <2>1, StepNames, RangeTypes DEF Conn, Choosing
  <2>3. /\ N.at = "check" /\ N.readLock = K.i /\ N.on = K.on /\ N.hdr = K.hdr /\ N.exRead = {} /\ N.mark = K.mark
        /\ N.writeLock = K.writeLock /\ N.ckptLock = FALSE /\ N.written = K.written /\ N.todo = K.todo
    BY <1>1, <1>2, <2>2 DEF Conn
  <2>4. Become(c, N)
    BY <1>4, <2>2 DEF LockMark
  <2>5. N.readLock \in Marks /\ N.readLock >= 0 /\ ~Reads(N)
    <3>1. N.readLock \in Marks /\ N.readLock \in Nat
      BY <1>3, <2>3, MarksType
    <3>2. ~Reads(N)
      BY <2>3 DEF Reads, Closing
    <3> QED
      BY <3>1, <3>2
  <2>6. Locks(N)
    BY <1>1, <1>2, <2>3, <2>5 DEF Alone, Locks, Held, Recovery, Choosing, Restarting, Closing, Copying
  <2>7. Numbers(N)
    <3>1. Prepared(N) => Prepared(K)
      BY <1>1, <2>3 DEF Prepared
    <3>2. Prepared(N) => N.todo # {} /\ (N.at # "restart" => N.hdr.mxFrame + Cardinality(N.todo) <= MaxFrame)
      BY <1>1, <2>3, <3>1 DEF Alone, Numbers
    <3> QED
      BY <1>3, <2>3, <3>2 DEF Numbers, Copying
  <2>8. Writer(N)
    BY <1>1, <2>3, <2>5 DEF Agrees, Writer, Recovery, Closing
  <2> QED
    BY <1>1, <1>4, <2>3, <2>4, <2>5, <2>6, <2>7, <2>8, Shares DEF Alone
<1>5. CASE ~CanShareRead(c, K.i)
  <2>1. Become(c, Retry([K EXCEPT !.i = 0]))
    BY <1>5 DEF LockMark
  <2>2. PICK L \in Conn : L = [K EXCEPT !.i = 0]
    BY <1>1, RangeTypes DEF Conn
  <2>3. \A f \in {"on", "hdr", "exRead", "writeLock", "ckptLock", "written", "todo"} : L[f] = K[f]
    BY <1>1, <2>2 DEF Conn
  <2> QED
    BY <1>1, <2>1, <2>2, <2>3, Retries
<1> QED
  BY <1>4, <1>5

LEMMA CheckMarkStep ==
  ASSUME IInv, NEW c \in Conns, CheckMark(c)
  PROVE  IInv'
<1> DEFINE K == conn[c]
<1>1. /\ K \in Conn /\ Alone(K) /\ Agrees(K) /\ K.on /\ K.at = "check" /\ UNCHANGED << shm, log, file, history >>
      /\ K.at \in Choosing /\ ShmType
  BY Known DEF CheckMark, At, Choosing, IInv, Typed
<1>2. K.readLock \in Marks /\ K.exRead = {} /\ K.ckptLock = FALSE /\ (K.written # {} => K.writeLock)
  BY <1>1, ChoosingLocks DEF Alone, Locks
<1>3. CASE shm.mark[K.readLock] = K.mark /\ shm.hdr[1] = K.hdr
  <2> DEFINE at == IF K.writeLock THEN "frame" ELSE "read"
  <2>0. at \in Steps
    BY StepNames DEF Closing
  <2>1. Become(c, [K EXCEPT !.at = at, !.mark = 0])
    BY <1>3 DEF CheckMark
  <2>2. at = (IF K.writeLock THEN "frame" ELSE "read")
    OBVIOUS
  <2> HIDE DEF at
  <2>3. PICK N \in Conn : N = [K EXCEPT !.at = at, !.mark = 0]
    BY <1>1, <2>0, RangeTypes DEF Conn
  <2>4. /\ N.at = at /\ N.readLock = K.readLock /\ N.on = K.on /\ N.hdr = K.hdr /\ N.exRead = {}
        /\ N.writeLock = K.writeLock /\ N.ckptLock = FALSE /\ N.written = K.written /\ N.todo = K.todo
    BY <1>1, <1>2, <2>3 DEF Conn
  <2>5. N.readLock \in Marks /\ N.readLock \in Nat /\ N.readLock > 0 /\ K.mark <= K.hdr.mxFrame
    <3>1. \A j \in Marks : j \in Nat /\ j > 0
      BY WalAssumption DEF Marks
    <3> QED
      BY <1>1, <1>2, <2>4, <3>1 DEF Alone, Numbers
  <2>6. Locks(N)
    BY <1>1, <1>2, <2>2, <2>4, <2>5 DEF Alone, Locks, Held, Recovery, Choosing, Restarting, Closing, Copying
  <2>7. Numbers(N)
    <3>1. Prepared(N) => Prepared(K)
      BY <1>1, <2>4 DEF Prepared
    <3>2. Prepared(N) => N.todo # {} /\ (N.at # "restart" => N.hdr.mxFrame + Cardinality(N.todo) <= MaxFrame)
      BY <1>1, <2>4, <3>1 DEF Alone, Numbers
    <3> QED
      BY <2>2, <2>4, <3>2 DEF Numbers, Copying
  <2>8. shm.mark[N.readLock] <= N.hdr.mxFrame /\ shm.hdr[1] = N.hdr /\ shm.nBackfill <= N.hdr.mxFrame
    <3>1. ASSUME NEW d \in Conns
          PROVE  conn[d].at # "restart3"
      <4>1. CASE d = c
        BY <1>1, <4>1
      <4>2. CASE d # c
        <5>1. Alone(conn[d]) /\ Pair(K, conn[d])
          BY <4>2, Known
        <5>2. K.readLock \notin conn[d].exRead
          BY <5>1 DEF Pair, Excludes
        <5> QED
          BY <1>2, <5>1, <5>2 DEF Alone, Locks, Held, Recovery
      <4> QED
        BY <4>1, <4>2
    <3>2. shm.nBackfill <= shm.hdr[1].mxFrame
      BY <1>1, <3>1 DEF IInv, Header
    <3> QED
      BY <1>3, <2>4, <2>5, <3>2
  <2>9. N.hdr.mxFrame <= Len(wal.frames)
    <3>1. Committed(N.hdr.mxFrame) /\ wal.frames \in Seq(Frame)
      BY <1>1, <2>8 DEF IInv, Typed, LogType, Header
    <3>2. Len(wal.frames) \in Nat /\ DOMAIN wal.frames = 1..Len(wal.frames)
      BY <3>1, LenProperties
    <3> QED
      BY <3>1, <3>2 DEF Committed
  <2>10. Agrees(N)
    <3>1. N.hdr.mxFrame \in Nat /\ shm.hdr[1].mxFrame = N.hdr.mxFrame
      BY <2>8, ConnFields
    <3>2. Writer(N)
      BY <2>2, <2>4, <2>5, <2>8, <2>9, <3>1 DEF Writer, Recovery, Choosing, Closing
    <3> QED
      BY <2>2, <2>4, <2>8, <3>2 DEF Agrees, Reader, Behind, Copying
  <2>11. ASSUME NEW d \in Conns \ {c}
         PROVE  Pair(N, conn[d])
    <3> DEFINE D == conn[d]
    <3>1. D \in Conn /\ Alone(D) /\ Agrees(D) /\ Pair(K, D)
      BY Known
    <3>2. Excludes(N, D)
      BY <1>1, <2>2, <2>4, <3>1, FewerLocks DEF Pair, Recovery
    <3>3. \A E : Waits(N, E)
      BY <2>2, <2>4, NoCheckpoint DEF Copying
    <3>4. Waits(D, N)
      BY <1>1, <2>2, <2>4, <2>8, <3>1, WaitsForNobody DEF Agrees
    <3> QED
      BY <3>2, <3>3, <3>4 DEF Pair
  <2>12. Become(c, N) /\ N.at # "restart3"
    BY <2>1, <2>2, <2>3, <2>4
  <2> QED
    BY <1>1, <2>4, <2>6, <2>7, <2>10, <2>11, <2>12, OnlyOneMoves DEF Alone
<1>4. CASE ~(shm.mark[K.readLock] = K.mark /\ shm.hdr[1] = K.hdr)
  <2>1. Become(c, Retry(K))
    BY <1>4 DEF CheckMark
  <2> QED
    BY <1>1, <2>1, Retries
<1> QED
  BY <1>3, <1>4

LEMMA ContentType ==
  ASSUME Typed, NEW K \in Conn
  PROVE  Content(K) \in Cache
<1>1. CASE K.cache # NotCached
  BY <1>1 DEF Content, Conn
<1>2. CASE K.cache = NotCached
  <2>1. ASSUME NEW p \in Pages
        PROVE  Lookup(K, p) \in 0..Garbage
    <3> DEFINE fs == {k \in K.minFrame..K.hdr.mxFrame : p \in shm.index[k]}
    <3>1. db[p] \in 0..Garbage /\ Garbage \in 0..Garbage
      BY WalAssumption DEF Typed, FileType, Garbage
    <3>2. ASSUME Max(fs) \in DOMAIN wal.frames
          PROVE  wal.frames[Max(fs)].val \in 0..Garbage
      <4>1. wal.frames[Max(fs)] \in Frame
        BY <3>2, ElementOfSeq, LenProperties DEF Typed, LogType
      <4>2. wal.frames[Max(fs)].val \in 0..MaxTxn
        BY <4>1 DEF Frame
      <4> QED
        BY <4>2, WalAssumption DEF Garbage
    <3> QED
      BY <3>1, <3>2 DEF Lookup
  <2>2. [p \in Pages |-> Lookup(K, p)] \in [Pages -> 0..Garbage]
    BY <2>1
  <2> QED
    BY <1>2, <2>2 DEF Content, Cache
<1> QED
  BY <1>1, <1>2

\* A connection that reads without having begun to write.
LEMMA ReadingLocks ==
  ASSUME NEW K \in Conn, Alone(K), K.at = "read"
  PROVE  /\ K.readLock \in 0..(NReader - 1) /\ K.exRead = {} /\ K.ckptLock = FALSE /\ (K.written # {} => K.writeLock)
         /\ Reads(K) <=> K.readLock # 0
<1>1. K.readLock >= 0 /\ K.exRead = {} /\ ~K.ckptLock /\ (K.written # {} => K.writeLock)
  BY DEF Alone, Locks, Held, Recovery, Copying
<1>2. K.readLock \in 0..(NReader - 1)
  BY <1>1, ConnFields, WalAssumption
<1>3. Reads(K) <=> K.readLock # 0
  BY <1>2, WalAssumption DEF Reads
<1> QED
  BY <1>1, <1>2, <1>3 DEF Conn

LEMMA EndReadStep ==
  ASSUME IInv, NEW c \in Conns, EndRead(c)
  PROVE  IInv'
<1> DEFINE K == conn[c]
<1>1. /\ K \in Conn /\ Alone(K) /\ K.on /\ K.at = "read" /\ K.writeLock = FALSE /\ UNCHANGED << shm, log, file, history >> /\ Typed
  BY Known DEF EndRead, At, IInv, Conn
<1>2. K.exRead = {} /\ K.written = {}
  BY <1>1, ReadingLocks
<1>3. PICK cache \in {NotCached, Content(K)} : Become(c, Left([K EXCEPT !.cache = cache]))
  BY DEF EndRead
<1>4. cache \in Cache
  BY <1>1, RangeTypes, ContentType
<1>5. PICK L \in Conn : L = [K EXCEPT !.cache = cache]
  BY <1>1, <1>4 DEF Conn
<1>6. L.on = K.on /\ L.writeLock = FALSE /\ L.exRead = {} /\ L.written = {}
  BY <1>1, <1>2, <1>5 DEF Conn
<1> QED
  BY <1>1, <1>3, <1>5, <1>6, Leaves

-----------------------------------------------------------------------------
(* Writing.                                                                *)

LEMMA BeginWriteStep ==
  ASSUME IInv, NEW c \in Conns, BeginWrite(c)
  PROVE  IInv'
<1> DEFINE K == conn[c]
<1>1. /\ K \in Conn /\ Alone(K) /\ Agrees(K) /\ K.on /\ K.at = "read" /\ UNCHANGED << shm, log, file, history >>
      /\ ShmType /\ CanWrite(c) /\ shm.hdr[1] = K.hdr /\ K.hdr.mxFrame \in Nat
  BY Known, ConnFields DEF BeginWrite, At, IInv, Typed
<1>2. K.readLock \in 0..(NReader - 1) /\ K.exRead = {} /\ K.ckptLock = FALSE
  BY <1>1, ReadingLocks
<1>3. PICK N \in Conn : N = [K EXCEPT !.writeLock = TRUE]
  BY <1>1 DEF Conn
<1>4. /\ N.at = "read" /\ N.readLock = K.readLock /\ N.on = K.on /\ N.hdr = K.hdr /\ N.exRead = {}
      /\ N.writeLock = TRUE /\ N.ckptLock = FALSE
  BY <1>1, <1>2, <1>3 DEF Conn
<1>5. Alone(N)
  BY <1>1, <1>4 DEF Alone, Locks, Numbers, Prepared, Held, Recovery, Choosing, Restarting, Closing, Copying
<1>6. Agrees(N)
  <2>1. N.hdr.mxFrame <= Len(wal.frames)
    <3>1. Committed(N.hdr.mxFrame) /\ wal.frames \in Seq(Frame)
      BY <1>1, <1>4 DEF IInv, Typed, LogType, Header
    <3>2. Len(wal.frames) \in Nat /\ DOMAIN wal.frames = 1..Len(wal.frames)
      BY <3>1, LenProperties
    <3> QED
      BY <3>1, <3>2 DEF Committed
  <2>2. Reads(N) => Reads(K)
    BY <1>1, <1>4 DEF Reads
  <2>3. Reads(N) => shm.mark[N.readLock] <= shm.hdr[1].mxFrame
    BY <1>1, <1>4, <2>2 DEF Agrees, Reader
  <2>4. Writer(N)
    BY <1>1, <1>4, <2>1, <2>3 DEF Writer, Recovery, Choosing, Closing
  <2> QED
    BY <1>1, <1>4, <2>2, <2>4 DEF Agrees, Reader, Behind, Copying
<1>7. ASSUME NEW d \in Conns \ {c}
      PROVE  Pair(N, conn[d])
  <2> DEFINE D == conn[d]
  <2>1. D \in Conn /\ Alone(D) /\ Agrees(D) /\ Pair(K, D) /\ ~D.writeLock
    BY <1>1, Known DEF CanWrite
  <2>2. Excludes(N, D)
    BY <1>1, <1>4, <2>1 DEF Pair, Excludes, Recovery
  <2>3. \A E : Waits(N, E)
    BY <1>4, NoCheckpoint DEF Copying
  <2>4. Waits(D, N)
    BY <1>1, <1>4, <2>1, WaitsForNobody DEF Agrees
  <2> QED
    BY <2>2, <2>3, <2>4 DEF Pair
<1>8. Become(c, N)
  BY <1>3 DEF BeginWrite
<1> QED
  BY <1>1, <1>4, <1>5, <1>6, <1>7, <1>8, OnlyOneMoves

LEMMA FramesStep ==
  ASSUME IInv, NEW c \in Conns, NEW pages \in SUBSET Pages, NEW commit \in BOOLEAN, Frames(c, pages, commit)
  PROVE  IInv'
<1> DEFINE K == conn[c]
           first == K.stamp = 0
           restart == K.readLock = 0 /\ shm.nBackfill > 0
           at == IF K.readLock # 0 THEN "frame" ELSE IF restart THEN "restart" ELSE "mark"
           readLock == IF K.readLock = 0 /\ ~restart THEN -1 ELSE K.readLock
           stamp == IF first THEN txn + 1 ELSE K.stamp
<1>1. /\ K \in Conn /\ Alone(K) /\ Agrees(K) /\ K.on /\ K.at = "read" /\ K.writeLock = TRUE /\ UNCHANGED << shm, log, file >>
      /\ pages # {} /\ (restart \/ K.hdr.mxFrame + Cardinality(pages) <= MaxFrame)
  BY Known DEF Frames, At, Conn
<1>2. K.readLock \in 0..(NReader - 1) /\ K.exRead = {} /\ K.ckptLock = FALSE
  BY <1>1, ReadingLocks
<1>3. txn' \in 0..MaxTxn /\ stamp \in Stamps
  <2>1. txn \in 0..MaxTxn /\ (first => txn < MaxTxn) /\ txn' = (IF first THEN txn + 1 ELSE txn)
    BY DEF IInv, Typed, Frames
  <2>2. first => txn + 1 \in 0..MaxTxn
    BY <2>1, WalAssumption
  <2> QED
    BY <1>1, <2>1, <2>2 DEF Stamps, Conn
<1>4. at \in Steps /\ readLock \in Readers
  BY <1>1, StepNames, RangeTypes DEF Closing, Restarting, Choosing, Conn
<1>5. Become(c, [K EXCEPT !.at = at, !.readLock = readLock, !.stamp = stamp, !.todo = pages, !.commit = commit])
  BY DEF Frames
<1>6. /\ K.readLock # 0 => at = "frame" /\ readLock = K.readLock
      /\ restart => at = "restart" /\ readLock = 0
      /\ K.readLock = 0 /\ ~restart => at = "mark" /\ readLock = -1
  OBVIOUS
<1> HIDE DEF at, readLock, stamp
<1>7. PICK N \in Conn : N = [K EXCEPT !.at = at, !.readLock = readLock, !.stamp = stamp, !.todo = pages, !.commit = commit]
  BY <1>1, <1>3, <1>4 DEF Conn
<1>8. /\ N.at = at /\ N.readLock = readLock /\ N.on = K.on /\ N.hdr = K.hdr /\ N.exRead = {} /\ N.todo = pages
      /\ N.writeLock = TRUE /\ N.ckptLock = FALSE
  BY <1>1, <1>2, <1>7 DEF Conn
<1>9. /\ N.at = "frame" => N.readLock \in Marks /\ N.readLock > 0 /\ Reads(K)
      /\ N.at = "restart" => N.readLock = 0 /\ K.readLock = 0
      /\ N.at = "mark" => N.readLock = -1 /\ K.readLock = 0
      /\ N.at \in {"frame", "restart", "mark"}
      /\ N.at # "restart" => ~restart
  BY <1>1, <1>2, <1>6, <1>8, WalAssumption DEF Marks, Reads
<1>10. Locks(N)
  <2>1. N.readLock >= 0 <=> N.at \in {"frame", "restart"}
    <3>1. N.readLock \in Int
      BY ConnFields
    <3>2. CASE N.at = "frame"
      BY <1>9, <3>1, <3>2
    <3>3. CASE N.at # "frame"
      BY <1>9, <3>1, <3>3
    <3> QED
      BY <3>2, <3>3
  <2> QED
    BY <1>1, <1>8, <1>9, <2>1 DEF Locks, Held, Recovery, Choosing, Restarting, Closing, Copying
<1>11. Numbers(N)
  <2>1. N.todo # {} /\ (N.at # "restart" => N.hdr.mxFrame + Cardinality(N.todo) <= MaxFrame)
    BY <1>1, <1>8, <1>9
  <2> QED
    BY <1>9, <2>1 DEF Numbers, Copying
<1>12. Agrees(N)
  <2>1. Writer(N)
    <3>1. N.at = "frame" => shm.hdr[1].mxFrame <= N.hdr.mxFrame /\ N.hdr.mxFrame <= Len(wal.frames) /\ shm.mark[N.readLock] <= shm.hdr[1].mxFrame
      BY <1>1, <1>6, <1>8, <1>9 DEF Agrees, Writer
    <3>2. N.at \in {"restart", "mark"} => shm.hdr[1] = N.hdr
      BY <1>1, <1>8, <1>9 DEF Agrees, Writer
    <3>3. N.at \notin {"read", "append", "publish", "publish2", "restart2", "restart3", "recover2", "recover3"}
      BY <1>9
    <3>4. Reads(N) => N.at = "frame"
      BY <1>9 DEF Reads, Closing
    <3> QED
      BY <1>9, <3>1, <3>2, <3>3, <3>4 DEF Writer, Recovery, Choosing, Closing
  <2>2. Reader(N)
    BY <1>1, <1>6, <1>8, <1>9 DEF Agrees, Reader, Reads, Closing
  <2>3. Behind(N)
    BY <1>9 DEF Behind, Copying
  <2> QED
    BY <2>1, <2>2, <2>3 DEF Agrees
<1>13. ASSUME NEW d \in Conns \ {c}
       PROVE  Pair(N, conn[d])
  <2> DEFINE D == conn[d]
  <2>1. D \in Conn /\ Alone(D) /\ Agrees(D) /\ Pair(K, D)
    BY Known
  <2>2. Excludes(N, D)
    <3>1. N.readLock = K.readLock \/ N.readLock = -1
      BY <1>6, <1>8
    <3> QED
      BY <1>1, <1>8, <1>9, <2>1, <3>1, FewerLocks DEF Pair, Recovery
  <2>3. \A E : Waits(N, E)
    BY <1>9, NoCheckpoint DEF Copying
  <2>4. Waits(D, N)
    <3>1. N.at # "restart2" /\ (Reads(N) => Reads(K) /\ N.readLock = K.readLock /\ K.hdr.mxFrame <= N.hdr.mxFrame)
      BY <1>1, <1>6, <1>8, <1>9, ConnFields DEF Reads, Closing
    <3> QED
      BY <1>1, <2>1, <3>1, StillWaits DEF Pair
  <2> QED
    BY <2>2, <2>3, <2>4 DEF Pair
<1> QED
  BY <1>1, <1>3, <1>5, <1>7, <1>8, <1>10, <1>11, <1>12, <1>13, OneMovesAndCounts DEF Alone

\* The connection that holds WRITE, or takes it, changes what they share.
LEMMA WriterMoves ==
  ASSUME IInv, NEW c \in Conns, NEW N \in Conn, conn[c].writeLock \/ CanWrite(c), Become(c, N),
         ShmType', LogType', FileType', txn' = txn, Header', Alone(N), Writer(N)', Reader(N)', Behind(N)',
         \A d \in Conns \ {c} : Pair(N, conn[d]),
         \A d \in Conns \ {c} : Reads(conn[d]) =>
             shm'.nBackfill <= conn[d].hdr.mxFrame /\ shm'.mark[conn[d].readLock] = shm.mark[conn[d].readLock],
         \A d \in Conns \ {c} : conn[d].at \in {"start"} \union Copying => conn[d].hdr.mxFrame <= shm'.hdr[1].mxFrame
  PROVE  IInv'
<1>1. conn \in [Conns -> Conn] /\ txn \in 0..MaxTxn
  BY DEF IInv, Typed
<1>2. conn' \in [Conns -> Conn] /\ conn'[c] = N /\ \A d \in Conns \ {c} : conn'[d] = conn[d]
  BY <1>1 DEF Become
<1>3. Typed'
  BY <1>1, <1>2 DEF Typed
<1>4. Agrees(conn[c])'
  BY <1>2 DEF Agrees, Writer, Reader, Behind, Committed
<1>5. ASSUME NEW d \in Conns \ {c}
      PROVE  Agrees(conn[d])'
  <2>1. Agrees(conn[d]) /\ Pair(conn[c], conn[d])
    BY Known
  <2>2. ~conn[d].writeLock
    BY <2>1 DEF Pair, Excludes, CanWrite
  <2>3. Writer(conn[d])' /\ Reader(conn[d])' /\ Behind(conn[d])'
    BY <1>2, <2>1, <2>2 DEF Agrees, Writer, Reader, Behind
  <2> QED
    BY <2>3 DEF Agrees
<1>6. \A d \in Conns : Agrees(conn[d])'
  BY <1>4, <1>5
<1> QED
  BY <1>2, <1>3, <1>6, OneMoves

LEMMA NextHdrType ==
  ASSUME NEW h \in Hdr, NEW hdr, hdr = [h EXCEPT !.mxFrame = 0, !.salt = h.salt + 1]
  PROVE  hdr \in Hdr /\ hdr.mxFrame = 0 /\ hdr.salt = h.salt + 1 /\ hdr.salt # h.salt
<1>1. h.salt + 1 \in Nat /\ h.salt + 1 # h.salt /\ 0 \in 0..MaxFrame
  BY WalAssumption DEF Hdr
<1> QED
  BY <1>1 DEF Hdr

LEMMA RestartStep ==
  ASSUME IInv, NEW c \in Conns, Restart(c), "race" \notin Troubles
  PROVE  IInv'
<1> DEFINE K == conn[c]
           hdr == [K.hdr EXCEPT !.mxFrame = 0, !.salt = K.hdr.salt + 1]
<1>1. /\ K \in Conn /\ Alone(K) /\ Agrees(K) /\ K.on /\ K.at = "restart" /\ UNCHANGED << log, file, history >>
      /\ K.writeLock = TRUE /\ K.readLock = 0 /\ K.ckptLock = FALSE /\ K.exRead = {} /\ ShmType /\ K.hdr \in Hdr
  <2>1. K \in Conn /\ Alone(K) /\ Agrees(K) /\ K.on /\ K.at = "restart" /\ UNCHANGED << log, file, history >> /\ ShmType
    BY Known DEF Restart, At, IInv, Typed
  <2> QED
    BY <2>1, ConnFields DEF Alone, Locks, Held, Recovery, Restarting, Copying, Conn
<1>2. hdr \in Hdr /\ hdr.mxFrame = 0 /\ hdr.salt = K.hdr.salt + 1 /\ hdr.salt # K.hdr.salt
  BY <1>1, NextHdrType
<1>3. CASE \A i \in Marks : CanExcludeRead(c, i)
  <2>1. /\ Become(c, [K EXCEPT !.at = "restart2", !.hdr = hdr, !.exRead = Marks])
        /\ shm' = [shm EXCEPT !.hdr[2] = hdr]
        /\ \A d \in Conns : ~Unaware(d)
    BY <1>3 DEF Restart
  <2> HIDE DEF hdr
  <2>2. Marks \in SUBSET (0..(NReader - 1))
    BY WalAssumption DEF Marks
  <2>3. PICK N \in Conn : N = [K EXCEPT !.at = "restart2", !.hdr = hdr, !.exRead = Marks]
    BY <1>1, <1>2, <2>2, StepNames DEF Conn, Restarting
  <2>4. /\ N.at = "restart2" /\ N.readLock = 0 /\ N.on = K.on /\ N.hdr = hdr /\ N.exRead = Marks /\ N.todo = K.todo
        /\ N.writeLock = TRUE /\ N.ckptLock = FALSE
    BY <1>1, <2>3 DEF Conn
  <2>5. /\ shm' \in [hdr : [1..2 -> Hdr], nBackfill : Frames0, mark : [Marks -> MarkValues], index : {shm'.index}]
        /\ shm'.hdr[1] = shm.hdr[1] /\ shm'.hdr[2] = hdr /\ shm'.nBackfill = shm.nBackfill /\ shm'.mark = shm.mark
    BY <1>1, <1>2, <2>1 DEF ShmType
  <2>6. ShmType' /\ LogType' /\ FileType' /\ txn' = txn
    BY <1>1, <2>5 DEF IInv, Typed, ShmType, LogType, FileType, log, file, history
  <2>7. conn'[c] = N /\ \A d \in Conns \ {c} : conn'[d] = conn[d]
    BY <2>1, <2>3 DEF Become, IInv, Typed
  <2>8. Header'
    <3>1. (\A d \in Conns : conn'[d].at # "restart3") => \A d \in Conns : conn[d].at # "restart3"
      BY <1>1, <2>7
    <3> QED
      BY <1>1, <2>5, <3>1 DEF IInv, Header, Committed, log
  <2>9. Alone(N)
    <3>1. Locks(N)
      BY <1>1, <2>4 DEF Alone, Locks, Held, Recovery, Choosing, Restarting, Closing, Copying
    <3>2. Numbers(N)
      <4>1. K.todo # {}
        BY <1>1 DEF Alone, Numbers, Prepared, Restarting
      <4>2. N.todo \subseteq Pages /\ Cardinality(N.todo) \in Nat /\ Cardinality(N.todo) <= Cardinality(Pages) /\ Cardinality(Pages) \in Nat
        BY FS_Subset, FS_CardinalityType, WalAssumption DEF Conn
      <4>3. N.hdr.mxFrame + Cardinality(N.todo) <= MaxFrame
        BY <1>2, <2>4, <4>2, WalAssumption
      <4> QED
        BY <2>4, <4>1, <4>3 DEF Numbers, Copying
    <3> QED
      BY <3>1, <3>2 DEF Alone
  <2>10. Writer(N)' /\ Reader(N)' /\ Behind(N)'
    <3>1. shm.hdr[1] = K.hdr
      BY <1>1 DEF Agrees, Writer
    <3> QED
      BY <1>2, <2>4, <2>5, <3>1 DEF Writer, Reader, Behind, Reads, Recovery, Choosing, Closing, Copying
  <2>11. ASSUME NEW d \in Conns \ {c}
         PROVE  Pair(N, conn[d])
    <3> DEFINE D == conn[d]
    <3>1. D \in Conn /\ Alone(D) /\ Agrees(D) /\ Pair(K, D)
      BY Known
    <3>2. \A i \in Marks : i \notin D.exRead /\ D.readLock # i
      BY <1>3 DEF CanExcludeRead, CanShareRead
    <3>3. Excludes(N, D)
      BY <1>1, <2>4, <3>1, <3>2 DEF Pair, Excludes, Recovery
    <3>4. \A E : Waits(N, E)
      BY <2>4, NoCheckpoint DEF Copying
    <3>5. D.at \notin {"start"} \union Copying
      <4>1. D.at \in {"start"} \union Copying => D.ckptLock
        BY <3>1 DEF Alone, Locks
      <4>2. D.at \notin {"start", "readMark", "lockMark_i", "copyLock"}
        BY <2>1, <4>1 DEF Unaware, Copying
      <4>3. D.at # "copy"
        BY <1>1, <3>1 DEF Pair, Excludes, Alone, Locks, Held, Recovery
      <4> QED
        BY <4>2, <4>3 DEF Copying
    <3>6. Waits(D, N)
      BY <3>5 DEF Waits
    <3> QED
      BY <3>3, <3>4, <3>6 DEF Pair
  <2>12. \A d \in Conns \ {c} : Reads(conn[d]) =>
             shm'.nBackfill <= conn[d].hdr.mxFrame /\ shm'.mark[conn[d].readLock] = shm.mark[conn[d].readLock]
    BY <2>5, Known DEF Agrees, Reader
  <2>13. \A d \in Conns \ {c} : conn[d].at \in {"start"} \union Copying => conn[d].hdr.mxFrame <= shm'.hdr[1].mxFrame
    BY <2>5, Known DEF Agrees, Behind
  <2> QED
    BY <1>1, <2>1, <2>3, <2>6, <2>8, <2>9, <2>10, <2>11, <2>12, <2>13, WriterMoves
<1>4. CASE ~\A i \in Marks : CanExcludeRead(c, i)
  <2>1. Become(c, [K EXCEPT !.at = "mark", !.readLock = -1]) /\ UNCHANGED shm /\ K.hdr.mxFrame + Cardinality(K.todo) <= MaxFrame
    BY <1>4 DEF Restart
  <2>2. PICK N \in Conn : N = [K EXCEPT !.at = "mark", !.readLock = -1]
    <3>1. "mark" \in Steps /\ -1 \in Readers
      BY StepNames, RangeTypes DEF Resting
    <3> QED
      BY <1>1, <3>1 DEF Conn
  <2>3. /\ N.at = "mark" /\ N.readLock = -1 /\ N.on = K.on /\ N.hdr = K.hdr /\ N.exRead = {} /\ N.todo = K.todo
        /\ N.writeLock = TRUE /\ N.ckptLock = FALSE
    BY <1>1, <2>2 DEF Conn
  <2>4. Alone(N)
    <3>1. K.todo # {}
      BY <1>1 DEF Alone, Numbers, Prepared, Restarting
    <3>2. Locks(N)
      BY <1>1, <2>3 DEF Locks, Held, Recovery, Choosing, Restarting, Closing, Copying
    <3>3. Numbers(N)
      BY <2>1, <2>3, <3>1 DEF Numbers, Copying
    <3> QED
      BY <3>2, <3>3 DEF Alone
  <2>5. Writer(N) /\ N.at \in Resting
    BY <1>1, <2>3 DEF Agrees, Writer, Reads, Resting, Recovery, Choosing, Closing
  <2> QED
    BY <1>1, <2>1, <2>2, <2>3, <2>4, <2>5, Rests
<1> QED
  BY <1>3, <1>4

LEMMA GotoIsBecome ==
  ASSUME NEW c \in Conns, NEW step, Goto(c, step)
  PROVE  Become(c, [conn[c] EXCEPT !.at = step])
BY DEF Goto, Become

LEMMA Restart2Step ==
  ASSUME IInv, NEW c \in Conns, Restart2(c)
  PROVE  IInv'
<1> DEFINE K == conn[c]
<1>1. /\ K \in Conn /\ Alone(K) /\ Agrees(K) /\ K.on /\ K.at = "restart2" /\ UNCHANGED << log, file, history >> /\ ShmType /\ Typed
      /\ shm' = [shm EXCEPT !.hdr[1] = K.hdr] /\ Become(c, [K EXCEPT !.at = "restart3"])
  BY Known, GotoIsBecome DEF Restart2, At, IInv, Typed
<1>2. K.writeLock = TRUE /\ K.readLock = 0 /\ K.ckptLock = FALSE /\ K.exRead = Marks /\ K.hdr \in Hdr /\ K.hdr.mxFrame = 0
  BY <1>1, ConnFields DEF Alone, Locks, Held, Recovery, Restarting, Copying, Conn, Agrees, Writer
<1>3. PICK N \in Conn : N = [K EXCEPT !.at = "restart3"]
  BY <1>1, StepNames DEF Conn, Restarting
<1>4. /\ N.at = "restart3" /\ N.readLock = 0 /\ N.on = K.on /\ N.hdr = K.hdr /\ N.exRead = Marks /\ N.todo = K.todo
      /\ N.writeLock = TRUE /\ N.ckptLock = FALSE
  BY <1>1, <1>2, <1>3 DEF Conn
<1>5. /\ shm' \in [hdr : [1..2 -> Hdr], nBackfill : Frames0, mark : [Marks -> MarkValues], index : {shm'.index}]
      /\ shm'.hdr[1] = K.hdr /\ shm'.nBackfill = shm.nBackfill /\ shm'.mark = shm.mark
  BY <1>1, <1>2 DEF ShmType
<1>6. ShmType' /\ LogType' /\ FileType' /\ txn' = txn
  BY <1>1, <1>5 DEF Typed, ShmType, LogType, FileType, log, file, history
<1>7. conn'[c] = N
  BY <1>1, <1>3 DEF Become, Typed
<1>8. Header'
  BY <1>2, <1>4, <1>5, <1>7 DEF Header, Committed
<1>9. Alone(N)
  <2>1. Prepared(K)
    BY <1>1, <1>2 DEF Prepared, Restarting
  <2>2. Locks(N)
    BY <1>1, <1>4 DEF Alone, Locks, Held, Recovery, Choosing, Restarting, Closing, Copying
  <2>3. Numbers(N)
    BY <1>1, <1>4, <2>1 DEF Alone, Numbers, Copying
  <2> QED
    BY <2>2, <2>3 DEF Alone
<1>10. Writer(N)' /\ Reader(N)' /\ Behind(N)'
  BY <1>2, <1>4, <1>5 DEF Writer, Reader, Behind, Reads, Recovery, Choosing, Closing, Copying
<1>11. ASSUME NEW d \in Conns \ {c}
       PROVE  Pair(N, conn[d]) /\ conn[d].at \notin {"start"} \union Copying
  <2> DEFINE D == conn[d]
  <2>1. D \in Conn /\ Alone(D) /\ Agrees(D) /\ Pair(K, D)
    BY Known
  <2>2. Excludes(N, D)
    BY <1>1, <1>2, <1>4, <2>1, FewerLocks DEF Pair, Recovery
  <2>3. \A E : Waits(N, E)
    BY <1>4, NoCheckpoint DEF Copying
  <2>4. D.at \notin {"start"} \union Copying
    BY <1>1, <2>1 DEF Pair, Waits
  <2> QED
    BY <2>2, <2>3, <2>4 DEF Pair, Waits
<1>12. \A d \in Conns \ {c} : Reads(conn[d]) =>
           shm'.nBackfill <= conn[d].hdr.mxFrame /\ shm'.mark[conn[d].readLock] = shm.mark[conn[d].readLock]
  BY <1>5, Known DEF Agrees, Reader
<1> QED
  BY <1>1, <1>2, <1>3, <1>6, <1>8, <1>9, <1>10, <1>11, <1>12, WriterMoves

\* Whoever reads the log has a lock on a mark.
LEMMA ReaderHasMark ==
  ASSUME NEW D \in Conn, Alone(D), Reads(D)
  PROVE  D.readLock \in Marks
BY ConnFields, WalAssumption DEF Reads, Marks

LEMMA Restart3Step ==
  ASSUME IInv, NEW c \in Conns, Restart3(c)
  PROVE  IInv'
<1> DEFINE K == conn[c]
           mark == [i \in Marks |-> IF i = 1 THEN 0 ELSE NoMark]
<1>1. /\ K \in Conn /\ Alone(K) /\ Agrees(K) /\ K.on /\ K.at = "restart3" /\ UNCHANGED << log, file, history >> /\ ShmType /\ Typed
      /\ shm' = [shm EXCEPT !.nBackfill = 0, !.mark = mark] /\ Become(c, [K EXCEPT !.at = "mark", !.readLock = -1, !.exRead = {}])
  BY Known DEF Restart3, At, IInv, Typed
<1>2. K.writeLock = TRUE /\ K.readLock = 0 /\ K.ckptLock = FALSE /\ K.exRead = Marks
  BY <1>1 DEF Alone, Locks, Held, Recovery, Restarting, Copying, Conn
<1>3. PICK N \in Conn : N = [K EXCEPT !.at = "mark", !.readLock = -1, !.exRead = {}]
  BY <1>1, StepNames, RangeTypes DEF Conn, Resting
<1>4. /\ N.at = "mark" /\ N.readLock = -1 /\ N.on = K.on /\ N.hdr = K.hdr /\ N.exRead = {} /\ N.todo = K.todo
      /\ N.writeLock = TRUE /\ N.ckptLock = FALSE
  BY <1>1, <1>2, <1>3 DEF Conn
<1>5. mark \in [Marks -> MarkValues]
  BY ShmFields, <1>1, RangeTypes DEF MarkValues
<1> HIDE DEF mark
<1>6. /\ shm' \in [hdr : [1..2 -> Hdr], nBackfill : Frames0, mark : [Marks -> MarkValues], index : {shm'.index}]
      /\ shm'.hdr = shm.hdr /\ shm'.nBackfill = 0
  BY <1>1, <1>5, RangeTypes DEF ShmType
<1>7. ShmType' /\ LogType' /\ FileType' /\ txn' = txn
  BY <1>1, <1>6 DEF Typed, ShmType, LogType, FileType, log, file, history
<1>8. Header'
  <2>1. Committed(shm.hdr[1].mxFrame) /\ shm.hdr[1].mxFrame \in Nat
    BY <1>1, ShmFields DEF IInv, Header
  <2> QED
    BY <1>1, <1>6, <2>1 DEF Header, Committed, log
<1>9. Alone(N)
  <2>1. Prepared(K)
    BY <1>1, <1>2 DEF Prepared, Restarting
  <2>2. Locks(N)
    BY <1>1, <1>4 DEF Alone, Locks, Held, Recovery, Choosing, Restarting, Closing, Copying
  <2>3. Numbers(N)
    BY <1>1, <1>4, <2>1 DEF Alone, Numbers, Copying
  <2> QED
    BY <2>2, <2>3 DEF Alone
<1>10. Writer(N)' /\ Reader(N)' /\ Behind(N)'
  <2>1. shm.hdr[1] = K.hdr
    BY <1>1, <1>2 DEF Agrees, Writer
  <2> QED
    BY <1>4, <1>6, <2>1 DEF Writer, Reader, Behind, Reads, Recovery, Choosing, Closing, Copying
<1>11. ASSUME NEW d \in Conns \ {c}
       PROVE  Pair(N, conn[d]) /\ ~Reads(conn[d])
  <2> DEFINE D == conn[d]
  <2>1. D \in Conn /\ Alone(D) /\ Agrees(D) /\ Pair(K, D)
    BY Known
  <2>2. Excludes(N, D)
    BY <1>1, <1>2, <1>4, <2>1, FewerLocks DEF Pair, Recovery
  <2>3. \A E : Waits(N, E)
    BY <1>4, NoCheckpoint DEF Copying
  <2>4. Waits(D, N)
    <3>1. N.at # "restart2" /\ ~Reads(N)
      BY <1>4 DEF Reads, Closing
    <3> QED
      BY <1>1, <2>1, <3>1, StillWaits DEF Pair
  <2>5. ~Reads(D)
    BY <1>2, <2>1, ReaderHasMark DEF Pair, Excludes
  <2> QED
    BY <2>2, <2>3, <2>4, <2>5 DEF Pair
<1>12. \A d \in Conns \ {c} : conn[d].at \in {"start"} \union Copying => conn[d].hdr.mxFrame <= shm'.hdr[1].mxFrame
  BY <1>6, Known DEF Agrees, Behind
<1> QED
  BY <1>1, <1>2, <1>3, <1>7, <1>8, <1>9, <1>10, <1>11, <1>12, WriterMoves

LEMMA AppendedFrames ==
  ASSUME NEW f \in Seq(Frame), NEW new \in Seq(Frame), NEW n \in Nat, n <= Len(f)
  PROVE  /\ Appended(f, n, new) \in Seq(Frame)
         /\ Len(Appended(f, n, new)) = n + Len(new)
         /\ \A k \in 1..n : Appended(f, n, new)[k] = f[k]
         /\ \A k \in 1..Len(new) : Appended(f, n, new)[n + k] = new[k]
<1> DEFINE s == SubSeq(f, 1, n)
<1>1. Len(f) \in Nat /\ Len(new) \in Nat
  BY LenProperties
<1>2. \A k \in 1..n : f[k] \in Frame
  BY <1>1, ElementOfSeq
<1>3. s \in Seq(Frame) /\ Len(s) = n /\ \A k \in 1..n : s[k] = f[k]
  <2>1. /\ s \in Seq(Frame) /\ Len(s) = (IF 1 <= n THEN n - 1 + 1 ELSE 0)
        /\ \A k \in 1..(n - 1 + 1) : s[k] = f[1 + k - 1]
    BY <1>2, SubSeqProperties
  <2>2. \A k \in 1..n : k \in 1..(n - 1 + 1) /\ 1 + k - 1 = k
    OBVIOUS
  <2>3. Len(s) = n
    BY <2>1
  <2> QED
    BY <2>1, <2>2, <2>3
<1> HIDE DEF s
<1>4. /\ s \o new \in Seq(Frame) /\ Len(s \o new) = Len(s) + Len(new)
      /\ \A i \in 1..(Len(s) + Len(new)) : (s \o new)[i] = IF i <= Len(s) THEN s[i] ELSE new[i - Len(s)]
  BY <1>3, ConcatProperties
<1>5. \A k \in 1..n : k \in 1..(n + Len(new)) /\ (s \o new)[k] = f[k]
  BY <1>1, <1>3, <1>4
<1>6. \A k \in 1..Len(new) : n + k \in 1..(n + Len(new)) /\ ~(n + k <= n) /\ n + k - n = k
  BY <1>1
<1>7. \A k \in 1..Len(new) : (s \o new)[n + k] = new[k]
  BY <1>3, <1>4, <1>6
<1> QED
  BY <1>3, <1>4, <1>5, <1>7 DEF Appended, s

\* What the disk may hold, while frames are written, is a log, and the file is one of those.
LEMMA OnDiskType ==
  ASSUME NEW f \in Seq(Frame), NEW new \in Seq(Frame), NEW n \in Nat, n <= Len(f)
  PROVE  /\ OnDisk(f, n, new) \subseteq Seq(Frame) /\ Appended(f, n, new) \in OnDisk(f, n, new)
         /\ \A g \in OnDisk(f, n, new) : Len(g) <= n + Len(new)
<1>1. Len(new) \in Nat /\ \A k \in 1..Len(new) : new[k] \in Frame
  BY LenProperties, ElementOfSeq
<1>2. ASSUME NEW j \in 0..Len(new)
      PROVE  Appended(f, n, SubSeq(new, 1, j)) \in Seq(Frame) /\ Len(Appended(f, n, SubSeq(new, 1, j))) <= n + Len(new)
  <2>1. SubSeq(new, 1, j) \in Seq(Frame) /\ Len(SubSeq(new, 1, j)) = (IF 1 <= j THEN j - 1 + 1 ELSE 0)
    BY <1>1, SubSeqProperties
  <2>2. Len(SubSeq(new, 1, j)) = j
    BY <2>1
  <2>3. PICK s \in Seq(Frame) : s = SubSeq(new, 1, j) /\ Len(s) = j
    BY <2>1, <2>2
  <2>4. Appended(f, n, s) \in Seq(Frame) /\ Len(Appended(f, n, s)) = n + Len(s)
    BY AppendedFrames
  <2> QED
    BY <1>1, <2>3, <2>4
<1>3. SubSeq(new, 1, Len(new)) = new
  BY SubSeqFull
<1>4. Len(new) \in 0..Len(new)
  BY <1>1
<1>5. Appended(f, n, new) \in {Appended(f, n, SubSeq(new, 1, j)) : j \in 0..Len(new)}
  BY <1>3, <1>4
<1> QED
  BY <1>2, <1>5 DEF OnDisk

LEMMA WriteFramesStep ==
  ASSUME IInv, NEW c \in Conns, WriteFrames(c)
  PROVE  IInv'
<1> DEFINE K == conn[c]
           mx == K.hdr.mxFrame
           salt == IF K.hdr.salt = 0 THEN 1 ELSE K.hdr.salt
           frames == IF mx # 0 \/ (salt > 1 /\ wal.salt = salt) THEN wal.frames ELSE << >>
           News(order) == [j \in DOMAIN order |-> [pg |-> order[j], val |-> K.stamp, commit |-> K.commit /\ j = Len(order)]]
<1>1. /\ K \in Conn /\ Alone(K) /\ Agrees(K) /\ K.on /\ K.at = "frame" /\ UNCHANGED << shm, file, history >> /\ ShmType /\ Typed
      /\ Become(c, [K EXCEPT !.at = "append", !.hdr.salt = salt, !.written = K.written \union K.todo])
  BY Known DEF WriteFrames, At, IInv, Typed
<1>2. /\ K.writeLock = TRUE /\ K.readLock \in Marks /\ K.ckptLock = FALSE /\ K.exRead = {} /\ K.hdr \in Hdr /\ mx \in Nat
      /\ K.todo \subseteq Pages /\ K.todo # {} /\ mx + Cardinality(K.todo) <= MaxFrame /\ mx <= Len(wal.frames)
      /\ shm.hdr[1].mxFrame <= mx /\ shm.hdr[1].mxFrame \in Nat
  <2>1. K.writeLock = TRUE /\ K.readLock \in Marks /\ K.ckptLock = FALSE /\ K.exRead = {}
    BY <1>1 DEF Alone, Locks, Held, Recovery, Restarting, Closing, Copying, Conn
  <2>2. Prepared(K)
    BY <1>1, <2>1 DEF Prepared
  <2>3. K.todo # {} /\ mx + Cardinality(K.todo) <= MaxFrame
    BY <1>1, <2>2 DEF Alone, Numbers
  <2>4. mx <= Len(wal.frames) /\ shm.hdr[1].mxFrame <= mx
    BY <1>1, <2>1 DEF Agrees, Writer, Closing
  <2>5. shm.hdr[1].mxFrame \in Nat
    BY <1>1, ShmFields
  <2>6. K.hdr \in Hdr /\ mx \in Nat
    BY <1>1, ConnFields
  <2>7. K.todo \subseteq Pages
    BY <1>1 DEF Conn
  <2> QED
    BY <2>1, <2>3, <2>4, <2>5, <2>6, <2>7
<1>3. salt \in Nat /\ K.hdr.salt \in Nat
  BY <1>2 DEF Hdr
<1>4. frames \in Seq(Frame) /\ mx <= Len(frames) /\ \A k \in 1..mx : frames[k] = wal.frames[k]
  <2>1. wal.frames \in Seq(Frame)
    BY <1>1 DEF Typed, LogType
  <2>2. << >> \in Seq(Frame) /\ Len(<< >>) = 0
    BY EmptySeq
  <2> QED
    BY <1>2, <2>1, <2>2
<1>5. PICK order \in SetToSeqs(K.todo) :
        /\ wal' = [salt |-> salt, frames |-> Appended(frames, mx, News(order))]
        /\ walDisk' = (IF mx = 0 THEN {frames} ELSE walDisk) \union OnDisk(frames, mx, News(order))
  BY DEF WriteFrames
<1>6. PICK n \in Nat : n = Cardinality(K.todo) /\ n > 0
  <2>1. IsFiniteSet(K.todo)
    BY <1>2, FS_Subset, WalAssumption
  <2>2. Cardinality(K.todo) \in Nat /\ Cardinality(K.todo) # 0
    BY <1>2, <2>1, FS_CardinalityType, FS_EmptySet
  <2> QED
    BY <2>2
<1>7. order \in [1..n -> K.todo] /\ DOMAIN order = 1..n /\ order \in Seq(K.todo) /\ Len(order) = n
  <2>1. order \in [1..n -> K.todo]
    BY <1>6 DEF SetToSeqs
  <2> QED
    BY <2>1
<1>8. PICK new : new = News(order)
  OBVIOUS
<1>9. new \in Seq(Frame) /\ Len(new) = n /\ (K.commit => new[n].commit)
  <2>1. \A j \in 1..n : [pg |-> order[j], val |-> K.stamp, commit |-> K.commit /\ j = Len(order)] \in Frame
    <3>1. K.stamp \in 0..MaxTxn
      BY <1>1 DEF Conn, Stamps
    <3> QED
      BY <1>2, <1>7, <3>1 DEF Frame
  <2>2. new = [j \in 1..n |-> [pg |-> order[j], val |-> K.stamp, commit |-> K.commit /\ j = Len(order)]]
    BY <1>7, <1>8
  <2>3. new \in [1..n -> Frame]
    BY <2>1, <2>2
  <2>4. new[n].commit = (K.commit /\ n = Len(order))
    BY <1>6, <2>2
  <2>5. new \in Seq(Frame) /\ Len(new) = n
    BY <2>3
  <2>6. K.commit => new[n].commit
    BY <1>7, <2>4
  <2> QED
    BY <2>5, <2>6
<1> HIDE DEF salt, frames, News
<1>10. PICK F \in Seq(Frame) :
         /\ F = Appended(frames, mx, new) /\ Len(F) = mx + n
         /\ \A k \in 1..mx : F[k] = wal.frames[k]
         /\ \A k \in 1..n : F[mx + k] = new[k]
  <2>1. mx \in Nat /\ mx <= Len(frames) /\ frames \in Seq(Frame) /\ new \in Seq(Frame) /\ Len(new) = n
    BY <1>2, <1>4, <1>9
  <2>2. /\ Appended(frames, mx, new) \in Seq(Frame)
        /\ Len(Appended(frames, mx, new)) = mx + Len(new)
        /\ \A k \in 1..mx : Appended(frames, mx, new)[k] = frames[k]
        /\ \A k \in 1..Len(new) : Appended(frames, mx, new)[mx + k] = new[k]
    BY <2>1, AppendedFrames
  <2> QED
    BY <1>4, <2>1, <2>2
<1>11. wal' = [salt |-> salt, frames |-> F] /\ walDisk' = (IF mx = 0 THEN {frames} ELSE walDisk) \union OnDisk(frames, mx, new)
  BY <1>5, <1>8, <1>10
<1>12. LogType' /\ ShmType' /\ FileType' /\ txn' = txn /\ shm' = shm
  <2>1. /\ OnDisk(frames, mx, new) \subseteq Seq(Frame) /\ F \in OnDisk(frames, mx, new)
        /\ \A g \in OnDisk(frames, mx, new) : Len(g) <= mx + n
    BY <1>2, <1>4, <1>9, <1>10, OnDiskType
  <2>2. \A g \in OnDisk(frames, mx, new) : Len(g) <= MaxFrame
    <3>1. mx + n <= MaxFrame
      BY <1>2, <1>6
    <3>2. \A g \in OnDisk(frames, mx, new) : Len(g) \in Nat
      BY <2>1, LenProperties
    <3> QED
      BY <1>2, <2>1, <3>1, <3>2, WalAssumption
  <2>3. Len(frames) <= MaxFrame
    <3>1. Len(<< >>) = 0
      OBVIOUS
    <3> QED
      BY <1>1, <3>1, WalAssumption DEF Typed, LogType, frames
  <2>4. LogType'
    BY <1>1, <1>3, <1>4, <1>11, <2>1, <2>2, <2>3 DEF Typed, LogType
  <2> QED
    BY <1>1, <2>4 DEF Typed, ShmType, FileType, file, history
<1>13. PICK N \in Conn : N = [K EXCEPT !.at = "append", !.hdr.salt = salt, !.written = K.written \union K.todo]
  <2>1. [K.hdr EXCEPT !.salt = salt] \in Hdr
    BY <1>2, <1>3 DEF Hdr
  <2>2. K.written \union K.todo \in SUBSET Pages
    BY <1>1, <1>2 DEF Conn
  <2> QED
    BY <1>1, <2>1, <2>2, StepNames DEF Conn, Closing
<1>14. /\ N.at = "append" /\ N.readLock = K.readLock /\ N.on = K.on /\ N.hdr.mxFrame = mx /\ N.exRead = {} /\ N.todo = K.todo
       /\ N.writeLock = TRUE /\ N.ckptLock = FALSE /\ N.commit = K.commit
  BY <1>1, <1>2, <1>13 DEF Conn, Hdr
<1>15. conn'[c] = N /\ \A d \in Conns \ {c} : conn'[d] = conn[d]
  BY <1>1, <1>13 DEF Become, Typed
<1>16. wal'.frames = F /\ DOMAIN F = 1..(mx + n)
  BY <1>10, <1>11, LenProperties
<1>17. Header'
  <2>1. (\A d \in Conns : conn'[d].at # "restart3") => \A d \in Conns : conn[d].at # "restart3"
    BY <1>1, <1>15
  <2>2. Committed(shm.hdr[1].mxFrame)
    BY <1>1 DEF IInv, Header
  <2>3. ASSUME NEW m, m = shm.hdr[1].mxFrame
        PROVE  Committed(m)'
    <3>1. CASE m = 0
      BY <3>1 DEF Committed
    <3>2. CASE m # 0
      <4>1. m \in 1..mx /\ m \in 1..(mx + n) /\ wal.frames[m].commit
        BY <1>2, <1>6, <2>2, <2>3, <3>2 DEF Committed
      <4> QED
        BY <1>10, <1>16, <4>1 DEF Committed
    <3> QED
      BY <3>1, <3>2
  <2> QED
    BY <1>1, <1>12, <2>1, <2>3 DEF IInv, Header, Committed
<1>18. Alone(N)
  <2>1. K.readLock >= 0
    BY <1>2, MarksType
  <2>2. Locks(N)
    BY <1>1, <1>2, <1>14, <2>1 DEF Locks, Held, Recovery, Choosing, Restarting, Closing, Copying
  <2>3. Numbers(N)
    BY <1>2, <1>14 DEF Numbers, Copying
  <2> QED
    BY <2>2, <2>3 DEF Alone
<1>19. Reads(N) /\ Reads(K) /\ N.readLock = K.readLock
  BY <1>1, <1>2, <1>14, WalAssumption DEF Reads, Marks, Closing
<1>20. Writer(N)' /\ Reader(N)' /\ Behind(N)'
  <2>1. shm.mark[N.readLock] <= shm.hdr[1].mxFrame /\ shm.mark[N.readLock] <= mx /\ shm.nBackfill <= mx
    BY <1>1, <1>2, <1>19 DEF Agrees, Writer, Reader
  <2>2. N.commit => F[Len(F)].commit
    BY <1>6, <1>9, <1>10, <1>14
  <2>3. Writer(N)'
    BY <1>2, <1>6, <1>10, <1>12, <1>14, <1>16, <2>1, <2>2 DEF Writer, Recovery, Choosing
  <2> QED
    BY <1>12, <1>14, <2>1, <2>3 DEF Reader, Behind, Copying
<1>21. ASSUME NEW d \in Conns \ {c}
       PROVE  Pair(N, conn[d])
  <2> DEFINE D == conn[d]
  <2>1. D \in Conn /\ Alone(D) /\ Agrees(D) /\ Pair(K, D)
    BY Known
  <2>2. Excludes(N, D)
    BY <1>1, <1>2, <1>14, <2>1, FewerLocks DEF Pair, Recovery
  <2>3. \A E : Waits(N, E)
    BY <1>14, NoCheckpoint DEF Copying
  <2>4. Waits(D, N)
    <3>1. N.at # "restart2" /\ K.hdr.mxFrame <= N.hdr.mxFrame
      BY <1>2, <1>14
    <3> QED
      BY <1>1, <1>19, <2>1, <3>1, StillWaits DEF Pair
  <2> QED
    BY <2>2, <2>3, <2>4 DEF Pair
<1>22. \A d \in Conns \ {c} : Reads(conn[d]) =>
           shm'.nBackfill <= conn[d].hdr.mxFrame /\ shm'.mark[conn[d].readLock] = shm.mark[conn[d].readLock]
  BY <1>12, Known DEF Agrees, Reader
<1>23. \A d \in Conns \ {c} : conn[d].at \in {"start"} \union Copying => conn[d].hdr.mxFrame <= shm'.hdr[1].mxFrame
  BY <1>12, Known DEF Agrees, Behind
<1> QED
  BY <1>1, <1>2, <1>12, <1>13, <1>17, <1>18, <1>20, <1>21, <1>22, <1>23, WriterMoves

\* The holder of WRITE, once its frames are in the log.
LEMMA ClosingLocks ==
  ASSUME NEW K \in Conn, Alone(K), K.at \in Closing
  PROVE  K.writeLock = TRUE /\ K.readLock \in Marks /\ K.readLock >= 0 /\ K.readLock > 0 /\ K.ckptLock = FALSE /\ K.exRead = {} /\ Reads(K)
<1>1. K.writeLock = TRUE /\ K.readLock \in Marks /\ K.ckptLock = FALSE /\ K.exRead = {}
  BY DEF Alone, Locks, Held, Recovery, Restarting, Closing, Copying, Conn
<1>2. K.readLock >= 0 /\ K.readLock > 0
  BY <1>1, WalAssumption DEF Marks
<1> QED
  BY <1>1, <1>2 DEF Reads

LEMMA AppendIndexStep ==
  ASSUME IInv, NEW c \in Conns, AppendIndex(c)
  PROVE  IInv'
<1> DEFINE K == conn[c]
           mx == K.hdr.mxFrame
           at == IF K.commit THEN "publish" ELSE "read"
<1>1. /\ K \in Conn /\ Alone(K) /\ Agrees(K) /\ K.on /\ K.at = "append" /\ UNCHANGED << wal, file, history >> /\ ShmType /\ Typed
      /\ K.at \in Closing
  BY Known DEF AppendIndex, At, IInv, Typed, Closing
<1>2. K.writeLock = TRUE /\ K.readLock \in Marks /\ K.readLock >= 0 /\ K.readLock > 0 /\ K.ckptLock = FALSE /\ K.exRead = {} /\ Reads(K)
  BY <1>1, ClosingLocks
<1>3. PICK n \in Nat : n = Cardinality(K.todo)
  <2>1. IsFiniteSet(K.todo)
    BY <1>1, FS_Subset, WalAssumption DEF Conn
  <2> QED
    BY <2>1, FS_CardinalityType
<1>4. mx + n <= MaxFrame /\ mx \in Nat /\ K.hdr \in Hdr /\ mx + n \in 0..MaxFrame
  <2>1. Prepared(K)
    BY <1>1, <1>2 DEF Prepared
  <2> QED
    BY <1>1, <1>3, <2>1, ConnFields, WalAssumption DEF Alone, Numbers
<1>5. PICK hdr \in Hdr : hdr = [K.hdr EXCEPT !.isInit = TRUE, !.mxFrame = mx + n] /\ hdr.mxFrame = mx + n
  <2>1. PICK m \in 0..MaxFrame : m = mx + n
    BY <1>4
  <2>2. [K.hdr EXCEPT !.isInit = TRUE, !.mxFrame = m] \in Hdr /\ [K.hdr EXCEPT !.isInit = TRUE, !.mxFrame = m].mxFrame = m
    BY <1>4 DEF Hdr
  <2> QED
    BY <2>1, <2>2
<1>6. PICK index : shm' = [shm EXCEPT !.index = index]
  BY DEF AppendIndex
<1>7. Become(c, [K EXCEPT !.hdr = hdr, !.todo = {}, !.commit = FALSE, !.at = at])
  BY <1>3, <1>5 DEF AppendIndex
<1>8. at \in {"publish", "read"} /\ at \in Steps /\ (at = "publish" => K.commit)
  BY StepNames DEF Closing
<1> HIDE DEF at
<1>9. PICK N \in Conn : N = [K EXCEPT !.hdr = hdr, !.todo = {}, !.commit = FALSE, !.at = at]
  BY <1>1, <1>8 DEF Conn
<1>10. /\ N.at = at /\ N.readLock = K.readLock /\ N.on = K.on /\ N.hdr = hdr /\ N.exRead = {}
       /\ N.writeLock = TRUE /\ N.ckptLock = FALSE
  BY <1>1, <1>2, <1>9 DEF Conn
<1>11. /\ shm' \in [hdr : [1..2 -> Hdr], nBackfill : Frames0, mark : [Marks -> MarkValues], index : {shm'.index}]
       /\ shm'.hdr = shm.hdr /\ shm'.nBackfill = shm.nBackfill /\ shm'.mark = shm.mark
  BY <1>1, <1>6 DEF ShmType
<1>12. ShmType' /\ LogType' /\ FileType' /\ txn' = txn /\ wal' = wal
  <2>1. walDisk' = {wal.frames} \/ walDisk' = walDisk
    BY DEF AppendIndex
  <2> QED
    BY <1>1, <1>11, <2>1 DEF Typed, ShmType, LogType, FileType, file, history
<1>13. conn'[c] = N /\ \A d \in Conns \ {c} : conn'[d] = conn[d]
  BY <1>1, <1>7, <1>9 DEF Become, Typed
<1>14. Header'
  <2>1. (\A d \in Conns : conn'[d].at # "restart3") => \A d \in Conns : conn[d].at # "restart3"
    BY <1>1, <1>13
  <2> QED
    BY <1>1, <1>11, <1>12, <2>1 DEF IInv, Header, Committed
<1>15. Alone(N)
  <2>1. N.at \in {"publish", "read"} /\ N.on /\ N.readLock >= 0 /\ N.readLock \in Marks
    BY <1>1, <1>2, <1>8, <1>10
  <2>2. Locks(N)
    BY <1>10, <2>1 DEF Locks, Held, Recovery, Choosing, Restarting, Closing, Copying
  <2>3. Numbers(N)
    BY <2>1 DEF Numbers, Prepared, Choosing, Restarting, Copying
  <2> QED
    BY <2>2, <2>3 DEF Alone
<1>16. Reads(N) /\ N.hdr.mxFrame = mx + n
  BY <1>2, <1>5, <1>8, <1>10 DEF Reads, Closing
<1>17. Writer(N)' /\ Reader(N)' /\ Behind(N)'
  <2>1. /\ shm.hdr[1].mxFrame <= mx /\ shm.nBackfill <= mx /\ shm.mark[K.readLock] <= mx /\ shm.mark[K.readLock] <= shm.hdr[1].mxFrame
        /\ Len(wal.frames) = mx + n /\ (K.commit => wal.frames[Len(wal.frames)].commit)
    BY <1>1, <1>2, <1>3 DEF Agrees, Writer, Reader
  <2>2. shm.hdr[1].mxFrame \in Nat /\ shm.nBackfill \in Nat /\ shm.mark[K.readLock] \in Nat
    BY <1>1, <1>2, ShmFields
  <2>3. shm.hdr[1].mxFrame <= mx + n /\ shm.nBackfill <= mx + n /\ shm.mark[K.readLock] <= mx + n
    BY <1>4, <2>1, <2>2
  <2>4. K.commit => Committed(mx + n)
    <3>1. wal.frames \in Seq(Frame)
      BY <1>1 DEF Typed, LogType
    <3>2. DOMAIN wal.frames = 1..(mx + n)
      BY <2>1, <3>1, LenProperties
    <3> QED
      BY <1>4, <2>1, <3>2 DEF Committed
  <2>5. Writer(N)'
    BY <1>8, <1>10, <1>11, <1>12, <1>16, <2>1, <2>3, <2>4, <1>2, <1>4 DEF Writer, Committed, Recovery, Choosing, Closing
  <2> QED
    BY <1>8, <1>10, <1>11, <1>16, <2>3, <2>5 DEF Reader, Behind, Copying
<1>18. ASSUME NEW d \in Conns \ {c}
       PROVE  Pair(N, conn[d])
  <2> DEFINE D == conn[d]
  <2>1. D \in Conn /\ Alone(D) /\ Agrees(D) /\ Pair(K, D)
    BY Known
  <2>2. Excludes(N, D)
    BY <1>1, <1>2, <1>8, <1>10, <2>1, FewerLocks DEF Pair, Recovery
  <2>3. \A E : Waits(N, E)
    BY <1>8, <1>10, NoCheckpoint DEF Copying
  <2>4. Waits(D, N)
    <3>1. N.at # "restart2" /\ K.hdr.mxFrame <= N.hdr.mxFrame
      BY <1>4, <1>8, <1>10, <1>16
    <3> QED
      BY <1>1, <1>2, <1>10, <2>1, <3>1, StillWaits DEF Pair
  <2> QED
    BY <2>2, <2>3, <2>4 DEF Pair
<1>19. \A d \in Conns \ {c} : Reads(conn[d]) =>
           shm'.nBackfill <= conn[d].hdr.mxFrame /\ shm'.mark[conn[d].readLock] = shm.mark[conn[d].readLock]
  BY <1>11, Known DEF Agrees, Reader
<1>20. \A d \in Conns \ {c} : conn[d].at \in {"start"} \union Copying => conn[d].hdr.mxFrame <= shm'.hdr[1].mxFrame
  BY <1>11, Known DEF Agrees, Behind
<1> QED
  BY <1>2, <1>7, <1>9, <1>12, <1>14, <1>15, <1>17, <1>18, <1>19, <1>20, WriterMoves

LEMMA PublishStep ==
  ASSUME IInv, NEW c \in Conns, Publish(c)
  PROVE  IInv'
<1> DEFINE K == conn[c]
<1>1. /\ K \in Conn /\ Alone(K) /\ Agrees(K) /\ K.on /\ K.at = "publish" /\ UNCHANGED << log, file, history >> /\ ShmType /\ Typed
      /\ K.at \in Closing /\ shm' = [shm EXCEPT !.hdr[2] = K.hdr] /\ Become(c, [K EXCEPT !.at = "publish2"])
  BY Known, GotoIsBecome DEF Publish, At, IInv, Typed, Closing
<1>2. K.writeLock = TRUE /\ K.readLock \in Marks /\ K.readLock >= 0 /\ K.readLock > 0 /\ K.ckptLock = FALSE /\ K.exRead = {} /\ Reads(K)
  BY <1>1, ClosingLocks
<1>3. PICK N \in Conn : N = [K EXCEPT !.at = "publish2"]
  BY <1>1, StepNames DEF Conn, Closing
<1>4. /\ N.at = "publish2" /\ N.readLock = K.readLock /\ N.on = K.on /\ N.hdr = K.hdr /\ N.exRead = {}
      /\ N.writeLock = TRUE /\ N.ckptLock = FALSE
  BY <1>1, <1>2, <1>3 DEF Conn
<1>5. K.hdr \in Hdr /\ K.hdr.mxFrame \in Nat
  BY <1>1, ConnFields
<1>6. /\ shm' \in [hdr : [1..2 -> Hdr], nBackfill : Frames0, mark : [Marks -> MarkValues], index : {shm'.index}]
      /\ shm'.hdr[1] = shm.hdr[1] /\ shm'.nBackfill = shm.nBackfill /\ shm'.mark = shm.mark
  BY <1>1, <1>5 DEF ShmType
<1>7. ShmType' /\ LogType' /\ FileType' /\ txn' = txn /\ wal' = wal
  BY <1>1, <1>6 DEF Typed, ShmType, LogType, FileType, log, file, history
<1>8. conn'[c] = N /\ \A d \in Conns \ {c} : conn'[d] = conn[d]
  BY <1>1, <1>3 DEF Become, Typed
<1>9. Header'
  <2>1. (\A d \in Conns : conn'[d].at # "restart3") => \A d \in Conns : conn[d].at # "restart3"
    BY <1>1, <1>8
  <2> QED
    BY <1>1, <1>6, <1>7, <2>1 DEF IInv, Header, Committed
<1>10. Alone(N)
  BY <1>1, <1>2, <1>4 DEF Alone, Locks, Numbers, Prepared, Held, Recovery, Choosing, Restarting, Closing, Copying
<1>11. Writer(N)' /\ Reader(N)' /\ Behind(N)'
  BY <1>1, <1>2, <1>4, <1>6, <1>7 DEF Agrees, Writer, Reader, Behind, Committed, Recovery, Choosing, Closing, Copying
<1>12. ASSUME NEW d \in Conns \ {c}
       PROVE  Pair(N, conn[d])
  <2> DEFINE D == conn[d]
  <2>1. D \in Conn /\ Alone(D) /\ Agrees(D) /\ Pair(K, D)
    BY Known
  <2>2. Excludes(N, D)
    BY <1>1, <1>2, <1>4, <2>1, FewerLocks DEF Pair, Recovery
  <2>3. \A E : Waits(N, E)
    BY <1>4, NoCheckpoint DEF Copying
  <2>4. Waits(D, N)
    BY <1>1, <1>2, <1>4, <1>5, <2>1, StillWaits DEF Pair
  <2> QED
    BY <2>2, <2>3, <2>4 DEF Pair
<1>13. \A d \in Conns \ {c} : Reads(conn[d]) =>
           shm'.nBackfill <= conn[d].hdr.mxFrame /\ shm'.mark[conn[d].readLock] = shm.mark[conn[d].readLock]
  BY <1>6, Known DEF Agrees, Reader
<1>14. \A d \in Conns \ {c} : conn[d].at \in {"start"} \union Copying => conn[d].hdr.mxFrame <= shm'.hdr[1].mxFrame
  BY <1>6, Known DEF Agrees, Behind
<1> QED
  BY <1>1, <1>2, <1>3, <1>7, <1>9, <1>10, <1>11, <1>12, <1>13, <1>14, WriterMoves

LEMMA Publish2Step ==
  ASSUME IInv, NEW c \in Conns, Publish2(c)
  PROVE  IInv'
<1> DEFINE K == conn[c]
           cache == IF K.cache = NotCached THEN NotCached
                    ELSE [p \in Pages |-> IF p \in K.written THEN K.stamp ELSE K.cache[p]]
<1>1. /\ K \in Conn /\ Alone(K) /\ Agrees(K) /\ K.on /\ K.at = "publish2" /\ UNCHANGED << log, file, history >> /\ ShmType /\ Typed
      /\ K.at \in Closing /\ shm' = [shm EXCEPT !.hdr[1] = K.hdr]
      /\ Become(c, [K EXCEPT !.at = "read", !.writeLock = FALSE, !.stamp = 0, !.written = {}, !.cache = cache])
  BY Known DEF Publish2, At, IInv, Typed, Closing
<1>2. K.writeLock = TRUE /\ K.readLock \in Marks /\ K.readLock >= 0 /\ K.readLock > 0 /\ K.ckptLock = FALSE /\ K.exRead = {} /\ Reads(K)
  BY <1>1, ClosingLocks
<1>3. cache \in Cache
  <2>1. K.cache \in Cache /\ K.stamp \in 0..Garbage
    BY <1>1, WalAssumption DEF Conn, Stamps, Garbage
  <2>2. CASE K.cache = NotCached
    BY <2>2, RangeTypes
  <2>3. CASE K.cache # NotCached
    <3>1. K.cache \in [Pages -> 0..Garbage]
      BY <2>1, <2>3 DEF Cache
    <3>2. [p \in Pages |-> IF p \in K.written THEN K.stamp ELSE K.cache[p]] \in [Pages -> 0..Garbage]
      BY <2>1, <3>1
    <3> QED
      BY <2>3, <3>2 DEF Cache
  <2> QED
    BY <2>2, <2>3
<1> HIDE DEF cache
<1>4. PICK N \in Conn : N = [K EXCEPT !.at = "read", !.writeLock = FALSE, !.stamp = 0, !.written = {}, !.cache = cache]
  <2>1. "read" \in Steps /\ 0 \in Stamps /\ {} \in SUBSET Pages
    BY StepNames, RangeTypes
  <2>2. PICK L \in Conn : L = [K EXCEPT !.at = "read", !.writeLock = FALSE, !.stamp = 0]
    BY <1>1, <2>1 DEF Conn
  <2>3. [L EXCEPT !.written = {}, !.cache = cache] \in Conn
    BY <1>3, <2>1, <2>2 DEF Conn
  <2>4. [L EXCEPT !.written = {}, !.cache = cache]
          = [K EXCEPT !.at = "read", !.writeLock = FALSE, !.stamp = 0, !.written = {}, !.cache = cache]
    BY <2>2
  <2> QED
    BY <2>3, <2>4
<1>5. /\ N.at = "read" /\ N.readLock = K.readLock /\ N.on = K.on /\ N.hdr = K.hdr /\ N.exRead = {}
      /\ N.writeLock = FALSE /\ N.ckptLock = FALSE /\ N.written = {}
  BY <1>1, <1>2, <1>4 DEF Conn
<1>6. K.hdr \in Hdr /\ K.hdr.mxFrame \in Nat
  BY <1>1, ConnFields
<1>7. /\ shm' \in [hdr : [1..2 -> Hdr], nBackfill : Frames0, mark : [Marks -> MarkValues], index : {shm'.index}]
      /\ shm'.hdr[1] = K.hdr /\ shm'.nBackfill = shm.nBackfill /\ shm'.mark = shm.mark
  BY <1>1, <1>6 DEF ShmType
<1>8. ShmType' /\ LogType' /\ FileType' /\ txn' = txn /\ wal' = wal
  BY <1>1, <1>7 DEF Typed, ShmType, LogType, FileType, log, file, history
<1>9. /\ shm.nBackfill <= K.hdr.mxFrame /\ shm.mark[K.readLock] <= K.hdr.mxFrame /\ Committed(K.hdr.mxFrame)
      /\ shm.hdr[1].mxFrame <= K.hdr.mxFrame
  BY <1>1, <1>2 DEF Agrees, Writer, Reader, Closing
<1>10. Header'
  BY <1>7, <1>8, <1>9 DEF Header, Committed
<1>11. Alone(N)
  BY <1>1, <1>2, <1>5 DEF Alone, Locks, Numbers, Prepared, Held, Recovery, Choosing, Restarting, Closing, Copying
<1>12. Writer(N)' /\ Reader(N)' /\ Behind(N)'
  BY <1>5, <1>7, <1>9 DEF Writer, Reader, Behind, Copying
<1>13. ASSUME NEW d \in Conns \ {c}
       PROVE  Pair(N, conn[d])
  <2> DEFINE D == conn[d]
  <2>1. D \in Conn /\ Alone(D) /\ Agrees(D) /\ Pair(K, D)
    BY Known
  <2>2. Excludes(N, D)
    BY <1>1, <1>2, <1>5, <2>1, FewerLocks DEF Pair, Recovery
  <2>3. \A E : Waits(N, E)
    BY <1>5, NoCheckpoint DEF Copying
  <2>4. Waits(D, N)
    BY <1>1, <1>2, <1>5, <1>6, <2>1, StillWaits DEF Pair
  <2> QED
    BY <2>2, <2>3, <2>4 DEF Pair
<1>14. \A d \in Conns \ {c} : Reads(conn[d]) =>
           shm'.nBackfill <= conn[d].hdr.mxFrame /\ shm'.mark[conn[d].readLock] = shm.mark[conn[d].readLock]
  BY <1>7, Known DEF Agrees, Reader
<1>15. ASSUME NEW d \in Conns \ {c}, conn[d].at \in {"start"} \union Copying
       PROVE  conn[d].hdr.mxFrame <= shm'.hdr[1].mxFrame
  <2>1. conn[d] \in Conn /\ conn[d].hdr.mxFrame <= shm.hdr[1].mxFrame
    BY <1>15, Known DEF Agrees, Behind
  <2>2. conn[d].hdr.mxFrame \in Nat /\ shm.hdr[1].mxFrame \in Nat
    BY <1>1, <2>1, ConnFields, ShmFields
  <2> QED
    BY <1>6, <1>7, <1>9, <2>1, <2>2
<1> QED
  BY <1>1, <1>2, <1>4, <1>8, <1>10, <1>11, <1>12, <1>13, <1>14, <1>15, WriterMoves

\* A writer that gives up has never been seen by anybody.
LEMMA RollbackStep ==
  ASSUME IInv, NEW c \in Conns, Rollback(c)
  PROVE  IInv'
<1> DEFINE K == conn[c]
<1>1. /\ K \in Conn /\ Alone(K) /\ Agrees(K) /\ K.on /\ K.at = "read" /\ K.writeLock /\ UNCHANGED << log, file, history >> /\ ShmType /\ Typed
      /\ Become(c, [K EXCEPT !.hdr = shm.hdr[1], !.writeLock = FALSE, !.stamp = 0, !.written = {}])
  BY Known DEF Rollback, At, IInv, Typed
<1>2. K.readLock \in 0..(NReader - 1) /\ K.exRead = {} /\ K.ckptLock = FALSE /\ (Reads(K) <=> K.readLock # 0)
  BY <1>1, ReadingLocks
<1>3. shm.hdr[1] \in Hdr /\ shm.hdr[1].mxFrame \in Nat
  BY <1>1, ShmFields
<1>4. PICK N \in Conn : N = [K EXCEPT !.hdr = shm.hdr[1], !.writeLock = FALSE, !.stamp = 0, !.written = {}]
  BY <1>1, <1>3, RangeTypes DEF Conn
<1>5. /\ N.at = "read" /\ N.readLock = K.readLock /\ N.on = K.on /\ N.hdr = shm.hdr[1] /\ N.exRead = {}
      /\ N.writeLock = FALSE /\ N.ckptLock = FALSE /\ N.written = {}
  BY <1>1, <1>2, <1>4 DEF Conn
<1>6. PICK index : shm' = [shm EXCEPT !.index = index]
  <2>1. shm = [shm EXCEPT !.index = shm.index]
    BY <1>1 DEF ShmType
  <2> QED
    BY <2>1 DEF Rollback
<1>7. /\ shm' \in [hdr : [1..2 -> Hdr], nBackfill : Frames0, mark : [Marks -> MarkValues], index : {shm'.index}]
      /\ shm'.hdr = shm.hdr /\ shm'.nBackfill = shm.nBackfill /\ shm'.mark = shm.mark
  BY <1>1, <1>6 DEF ShmType
<1>8. ShmType' /\ LogType' /\ FileType' /\ txn' = txn /\ wal' = wal
  BY <1>1, <1>7 DEF Typed, ShmType, LogType, FileType, log, file, history
<1>9. \A d \in Conns : conn[d].at # "restart3"
  <2>1. ASSUME NEW d \in Conns \ {c}
        PROVE  conn[d].at # "restart3"
    BY <1>1, Known DEF Alone, Locks, Pair, Excludes, Restarting
  <2> QED
    BY <1>1, <2>1
<1>10. Committed(shm.hdr[1].mxFrame) /\ shm.nBackfill <= shm.hdr[1].mxFrame
  BY <1>1, <1>9 DEF IInv, Header
<1>11. Header'
  BY <1>7, <1>8, <1>10 DEF Header, Committed
<1>12. Alone(N)
  BY <1>1, <1>2, <1>5 DEF Alone, Locks, Numbers, Prepared, Held, Recovery, Choosing, Restarting, Closing, Copying
<1>13. Writer(N)' /\ Reader(N)' /\ Behind(N)'
  <2>1. Reads(N) => shm.mark[N.readLock] <= shm.hdr[1].mxFrame
    BY <1>1, <1>5 DEF Agrees, Writer, Reads
  <2> QED
    BY <1>5, <1>7, <1>10, <2>1 DEF Writer, Reader, Behind, Copying
<1>14. ASSUME NEW d \in Conns \ {c}
       PROVE  Pair(N, conn[d])
  <2> DEFINE D == conn[d]
  <2>1. D \in Conn /\ Alone(D) /\ Agrees(D) /\ Pair(K, D)
    BY Known
  <2>2. Excludes(N, D)
    BY <1>1, <1>2, <1>5, <2>1, FewerLocks DEF Pair, Recovery
  <2>3. \A E : Waits(N, E)
    BY <1>5, NoCheckpoint DEF Copying
  <2>4. Waits(D, N)
    BY <1>1, <1>5, <2>1, WaitsForNobody DEF Agrees
  <2> QED
    BY <2>2, <2>3, <2>4 DEF Pair
<1>15. \A d \in Conns \ {c} : Reads(conn[d]) =>
           shm'.nBackfill <= conn[d].hdr.mxFrame /\ shm'.mark[conn[d].readLock] = shm.mark[conn[d].readLock]
  BY <1>7, Known DEF Agrees, Reader
<1>16. \A d \in Conns \ {c} : conn[d].at \in {"start"} \union Copying => conn[d].hdr.mxFrame <= shm'.hdr[1].mxFrame
  BY <1>7, Known DEF Agrees, Behind
<1> QED
  BY <1>1, <1>4, <1>8, <1>11, <1>12, <1>13, <1>14, <1>15, <1>16, WriterMoves

-----------------------------------------------------------------------------
(* Recovery.                                                               *)

LEMMA LastCommit ==
  ASSUME LogType
  PROVE  LET mx == Max(Commits(wal.frames) \union {0})
         IN  mx \in 0..MaxFrame /\ Committed(mx) /\ \A n : Committed(n) => n <= mx
<1> DEFINE S == Commits(wal.frames) \union {0}
<1>1. wal.frames \in Seq(Frame) /\ Len(wal.frames) <= MaxFrame /\ MaxFrame \in Nat
  BY WalAssumption DEF LogType
<1>2. DOMAIN wal.frames = 1..Len(wal.frames) /\ Len(wal.frames) \in Nat
  BY <1>1, LenProperties
<1>3. S \in SUBSET (0..MaxFrame) /\ S # {}
  BY <1>1, <1>2 DEF Commits
<1>4. Max(S) \in S /\ \A y \in S : y <= Max(S)
  BY <1>1, <1>3, MaxIsGreatest
<1>5. \A n : Committed(n) <=> n \in S
  BY DEF Committed, Commits
<1> QED
  BY <1>3, <1>4, <1>5

LEMMA RecoverStep ==
  ASSUME IInv, NEW c \in Conns, Recover(c)
  PROVE  IInv'
<1> DEFINE K == conn[c]
           mx == Max(Commits(wal.frames) \union {0})
           hdr == [isInit |-> TRUE, mxFrame |-> mx, salt |-> wal.salt]
           locked == CanCheckpoint(c) /\ \A i \in {0} \union Marks : CanExcludeRead(c, i)
<1>1. K \in Conn /\ Alone(K) /\ Agrees(K) /\ K.on /\ K.at = "bad" /\ UNCHANGED << log, file, history >> /\ ShmType /\ Typed /\ CanWrite(c)
  BY Known DEF Recover, At, IInv, Typed
<1>2. K.writeLock = FALSE /\ K.readLock = -1 /\ K.exRead = {} /\ K.written = {}
  BY <1>1, AtRest
<1>3. mx \in 0..MaxFrame /\ mx \in Nat /\ Committed(mx) /\ \A n : Committed(n) => n <= mx
  <2>1. LogType
    BY <1>1 DEF Typed
  <2>2. mx \in 0..MaxFrame /\ Committed(mx) /\ \A n : Committed(n) => n <= mx
    BY <2>1, LastCommit
  <2> QED
    BY <2>2, WalAssumption
<1>4. hdr \in Hdr /\ hdr.mxFrame = mx
  BY <1>1, <1>3 DEF Hdr, Typed, LogType
<1>5. CASE locked
  <2>1. PICK index : shm' = [shm EXCEPT !.hdr[2] = hdr, !.index = index]
    BY <1>5 DEF Recover
  <2>2. Become(c, [K EXCEPT !.at = "recover2", !.hdr = hdr, !.writeLock = TRUE, !.exRead = {0} \union Marks])
    BY <1>5 DEF Recover
  <2>3. {0} \union Marks \in SUBSET (0..(NReader - 1))
    BY WalAssumption DEF Marks
  <2> HIDE DEF hdr, mx
  <2>4. PICK N \in Conn : N = [K EXCEPT !.at = "recover2", !.hdr = hdr, !.writeLock = TRUE, !.exRead = {0} \union Marks]
    BY <1>1, <1>4, <2>3, StepNames DEF Conn, Recovery
  <2>5. /\ N.at = "recover2" /\ N.readLock = -1 /\ N.on = K.on /\ N.hdr = hdr /\ N.exRead = {0} \union Marks
        /\ N.writeLock = TRUE /\ N.written = {}
    BY <1>1, <1>2, <2>4 DEF Conn
  <2>6. /\ shm' \in [hdr : [1..2 -> Hdr], nBackfill : Frames0, mark : [Marks -> MarkValues], index : {shm'.index}]
        /\ shm'.hdr[1] = shm.hdr[1] /\ shm'.nBackfill = shm.nBackfill
    <3>1. PICK S : S = [shm EXCEPT !.hdr[2] = hdr]
      OBVIOUS
    <3>2. /\ S \in [hdr : [1..2 -> Hdr], nBackfill : Frames0, mark : [Marks -> MarkValues], index : {shm.index}]
          /\ S.hdr[1] = shm.hdr[1] /\ S.nBackfill = shm.nBackfill
      BY <1>1, <1>4, <3>1 DEF ShmType
    <3>3. shm' = [S EXCEPT !.index = index]
      BY <2>1, <3>1
    <3> QED
      BY <3>2, <3>3
  <2>7. ShmType' /\ LogType' /\ FileType' /\ txn' = txn /\ wal' = wal
    BY <1>1, <2>6 DEF Typed, ShmType, LogType, FileType, log, file, history
  <2>8. \A d \in Conns : conn[d].at # "restart3"
    <3>1. ASSUME NEW d \in Conns \ {c}
          PROVE  conn[d].at # "restart3"
      BY <1>1, Known DEF Alone, Locks, CanWrite, Restarting
    <3> QED
      BY <1>1, <3>1
  <2>9. Committed(shm.hdr[1].mxFrame) /\ shm.nBackfill <= shm.hdr[1].mxFrame
    BY <1>1, <2>8 DEF IInv, Header
  <2>10. shm.nBackfill <= mx
    <3>1. shm.nBackfill \in Nat /\ shm.hdr[1].mxFrame \in Nat
      BY <1>1, ShmFields
    <3> QED
      BY <1>3, <2>9, <3>1
  <2>11. Header'
    BY <2>6, <2>7, <2>9 DEF Header, Committed
  <2>12. Alone(N)
    <3>1. Locks(N)
      BY <1>1, <2>5 DEF Locks, Held, Recovery, Choosing, Restarting, Closing, Copying
    <3>2. Numbers(N)
      BY <2>5 DEF Numbers, Prepared, Choosing, Restarting, Copying
    <3> QED
      BY <3>1, <3>2 DEF Alone
  <2>13. Writer(N)' /\ Reader(N)' /\ Behind(N)'
    BY <1>3, <1>4, <2>5, <2>6, <2>7, <2>10 DEF Writer, Reader, Behind, Reads, Committed, Recovery, Choosing, Closing, Copying
  <2>14. ASSUME NEW d \in Conns \ {c}
         PROVE  Pair(N, conn[d]) /\ ~Reads(conn[d]) /\ conn[d].at \notin {"start"} \union Copying
    <3> DEFINE D == conn[d]
    <3>1. D \in Conn /\ Alone(D) /\ Agrees(D) /\ Pair(K, D) /\ ~D.writeLock
      BY <1>1, Known DEF CanWrite
    <3>2. ~D.ckptLock /\ D.at \notin Recovery /\ \A i \in {0} \union Marks : i \notin D.exRead /\ D.readLock # i
      BY <1>5 DEF CanCheckpoint, Recovering, Recovery, CanExcludeRead, CanShareRead
    <3>3. Excludes(N, D)
      <4>1. -1 \notin D.exRead
        BY <3>1, ConnFields, WalAssumption
      <4> QED
        BY <2>5, <3>1, <3>2, <4>1 DEF Excludes
    <3>4. \A E : Waits(N, E)
      BY <2>5, NoCheckpoint DEF Copying
    <3>5. D.at \notin {"start"} \union Copying
      BY <3>1, <3>2 DEF Alone, Locks
    <3>6. ~Reads(D)
      BY <3>1, <3>2, ReaderHasMark
    <3> QED
      BY <3>3, <3>4, <3>5, <3>6 DEF Pair, Waits
  <2> QED
    BY <1>1, <2>2, <2>4, <2>7, <2>11, <2>12, <2>13, <2>14, WriterMoves
<1>6. CASE ~locked
  <2>1. Become(c, Left(K)) /\ UNCHANGED shm
    BY <1>6 DEF Recover
  <2> QED
    BY <1>1, <1>2, <2>1, Leaves
<1> QED
  BY <1>5, <1>6

\* Whoever recovers the index is alone with it.
LEMMA RecoveryLocks ==
  ASSUME IInv, NEW c \in Conns, conn[c].at \in Recovery
  PROVE  /\ conn[c].writeLock = TRUE /\ conn[c].readLock = -1 /\ conn[c].exRead = {0} \union Marks /\ conn[c].written = {}
         /\ \A d \in Conns \ {c} :
              ~conn[d].writeLock /\ ~conn[d].ckptLock /\ ~Reads(conn[d]) /\ conn[d].at \notin {"start", "restart2"} \union Copying
<1> DEFINE K == conn[c]
<1>1. K \in Conn /\ Alone(K)
  BY Known
<1>2. K.writeLock = TRUE /\ ~(K.readLock >= 0) /\ K.exRead = {0} \union Marks /\ K.written = {}
  BY <1>1 DEF Alone, Locks, Held, Recovery, Restarting, Closing, Conn
<1>3. K.readLock = -1
  BY <1>1, <1>2, ConnFields, WalAssumption
<1>4. ASSUME NEW d \in Conns \ {c}
      PROVE  ~conn[d].writeLock /\ ~conn[d].ckptLock /\ ~Reads(conn[d]) /\ conn[d].at \notin {"start", "restart2"} \union Copying
  <2>1. conn[d] \in Conn /\ Alone(conn[d]) /\ Pair(K, conn[d])
    BY Known
  <2>2. ~conn[d].writeLock /\ ~conn[d].ckptLock /\ conn[d].readLock \notin {0} \union Marks
    BY <1>2, <2>1 DEF Pair, Excludes
  <2>3. ~Reads(conn[d])
    BY <2>1, <2>2, ReaderHasMark
  <2>4. conn[d].at \notin {"start", "restart2"} \union Copying
    BY <2>1, <2>2 DEF Alone, Locks, Restarting
  <2> QED
    BY <2>2, <2>3, <2>4
<1> QED
  BY <1>2, <1>3, <1>4

LEMMA Recover2Step ==
  ASSUME IInv, NEW c \in Conns, Recover2(c)
  PROVE  IInv'
<1> DEFINE K == conn[c]
<1>1. /\ K \in Conn /\ Alone(K) /\ Agrees(K) /\ K.on /\ K.at = "recover2" /\ UNCHANGED << log, file, history >> /\ ShmType /\ Typed
      /\ shm' = [shm EXCEPT !.hdr[1] = K.hdr] /\ Become(c, [K EXCEPT !.at = "recover3"]) /\ K.at \in Recovery
  BY Known, GotoIsBecome DEF Recover2, At, IInv, Typed, Recovery
<1>2. /\ K.writeLock = TRUE /\ K.readLock = -1 /\ K.exRead = {0} \union Marks /\ K.written = {}
      /\ \A d \in Conns \ {c} :
           ~conn[d].writeLock /\ ~conn[d].ckptLock /\ ~Reads(conn[d]) /\ conn[d].at \notin {"start", "restart2"} \union Copying
  BY <1>1, RecoveryLocks
<1>3. PICK N \in Conn : N = [K EXCEPT !.at = "recover3"]
  BY <1>1, StepNames DEF Conn, Recovery
<1>4. /\ N.at = "recover3" /\ N.readLock = -1 /\ N.on = K.on /\ N.hdr = K.hdr /\ N.exRead = K.exRead
      /\ N.writeLock = TRUE /\ N.written = {} /\ N.ckptLock = K.ckptLock
  BY <1>1, <1>2, <1>3 DEF Conn
<1>5. K.hdr \in Hdr /\ K.hdr.mxFrame \in Nat /\ Committed(K.hdr.mxFrame) /\ shm.nBackfill <= K.hdr.mxFrame
  BY <1>1, <1>2, ConnFields DEF Agrees, Writer
<1>6. /\ shm' \in [hdr : [1..2 -> Hdr], nBackfill : Frames0, mark : [Marks -> MarkValues], index : {shm'.index}]
      /\ shm'.hdr[1] = K.hdr /\ shm'.nBackfill = shm.nBackfill
  BY <1>1, <1>5 DEF ShmType
<1>7. ShmType' /\ LogType' /\ FileType' /\ txn' = txn /\ wal' = wal
  BY <1>1, <1>6 DEF Typed, ShmType, LogType, FileType, log, file, history
<1>8. Header'
  BY <1>5, <1>6, <1>7 DEF Header, Committed
<1>9. Alone(N)
  <2>1. Locks(N)
    BY <1>1, <1>2, <1>4 DEF Locks, Held, Recovery, Choosing, Restarting, Closing, Copying
  <2>2. Numbers(N)
    BY <1>4 DEF Numbers, Prepared, Choosing, Restarting, Copying
  <2> QED
    BY <2>1, <2>2 DEF Alone
<1>10. Writer(N)' /\ Reader(N)' /\ Behind(N)'
  BY <1>4, <1>5, <1>6, <1>7 DEF Writer, Reader, Behind, Reads, Committed, Recovery, Choosing, Closing, Copying
<1>11. ASSUME NEW d \in Conns \ {c}
       PROVE  Pair(N, conn[d])
  <2> DEFINE D == conn[d]
  <2>1. D \in Conn /\ Alone(D) /\ Pair(K, D)
    BY Known
  <2>2. Excludes(N, D)
    BY <1>1, <1>2, <1>4, <2>1, FewerLocks DEF Pair
  <2>3. \A E : Waits(N, E)
    BY <1>4, NoCheckpoint DEF Copying
  <2> QED
    BY <1>2, <2>2, <2>3 DEF Pair, Waits
<1> QED
  BY <1>1, <1>2, <1>3, <1>7, <1>8, <1>9, <1>10, <1>11, WriterMoves

LEMMA Recover3Step ==
  ASSUME IInv, NEW c \in Conns, Recover3(c)
  PROVE  IInv'
<1> DEFINE K == conn[c]
           mark == [i \in Marks |-> IF i = 1 /\ K.hdr.mxFrame # 0 THEN K.hdr.mxFrame ELSE NoMark]
           at == IF K.ckptLock THEN "start" ELSE "pick"
           cache == IF K.ckptLock THEN K.cache ELSE NotCached
<1>1. /\ K \in Conn /\ Alone(K) /\ Agrees(K) /\ K.on /\ K.at = "recover3" /\ UNCHANGED << log, file, history >> /\ ShmType /\ Typed
      /\ shm' = [shm EXCEPT !.nBackfill = 0, !.mark = mark] /\ K.at \in Recovery
      /\ Become(c, [K EXCEPT !.at = at, !.writeLock = FALSE, !.exRead = {}, !.cache = cache, !.changed = K.ckptLock])
  BY Known DEF Recover3, At, IInv, Typed, Recovery
<1>2. /\ K.writeLock = TRUE /\ K.readLock = -1 /\ K.exRead = {0} \union Marks /\ K.written = {}
      /\ \A d \in Conns \ {c} :
           ~conn[d].writeLock /\ ~conn[d].ckptLock /\ ~Reads(conn[d]) /\ conn[d].at \notin {"start", "restart2"} \union Copying
  BY <1>1, RecoveryLocks
<1>3. at \in Steps /\ at \in {"start", "pick"} /\ (at = "start" <=> K.ckptLock) /\ cache \in Cache /\ K.ckptLock \in BOOLEAN
  BY <1>1, StepNames, RangeTypes DEF Conn, Resting
<1> HIDE DEF at, cache
<1>4. PICK N \in Conn : N = [K EXCEPT !.at = at, !.writeLock = FALSE, !.exRead = {}, !.cache = cache, !.changed = K.ckptLock]
  BY <1>1, <1>3 DEF Conn
<1>5. /\ N.at = at /\ N.readLock = -1 /\ N.on = K.on /\ N.hdr = K.hdr /\ N.exRead = {}
      /\ N.writeLock = FALSE /\ N.written = {} /\ N.ckptLock = K.ckptLock
  BY <1>1, <1>2, <1>4 DEF Conn
<1>6. mark \in [Marks -> MarkValues]
  <2>1. K.hdr.mxFrame \in MarkValues /\ NoMark \in MarkValues
    BY <1>1, ConnFields, WalAssumption DEF MarkValues, NoMark
  <2> QED
    BY <2>1
<1> HIDE DEF mark
<1>7. /\ shm' \in [hdr : [1..2 -> Hdr], nBackfill : Frames0, mark : [Marks -> MarkValues], index : {shm'.index}]
      /\ shm'.hdr = shm.hdr /\ shm'.nBackfill = 0
  BY <1>1, <1>6, RangeTypes DEF ShmType
<1>8. ShmType' /\ LogType' /\ FileType' /\ txn' = txn /\ wal' = wal
  BY <1>1, <1>7 DEF Typed, ShmType, LogType, FileType, log, file, history
<1>9. shm.hdr[1] = K.hdr /\ K.hdr.mxFrame \in Nat /\ Committed(K.hdr.mxFrame)
  BY <1>1, <1>2, ConnFields DEF Agrees, Writer
<1>10. Header'
  BY <1>7, <1>8, <1>9 DEF Header, Committed
<1>11. Alone(N)
  <2>1. N.at \notin {"read", "check", "idle", "copy"} \union Closing \union Restarting \union Recovery \union Choosing \union Copying
    BY <1>3, <1>5 DEF Closing, Restarting, Recovery, Choosing, Copying
  <2>2. Locks(N)
    BY <1>1, <1>3, <1>5, <2>1 DEF Locks, Held, Restarting
  <2>3. Numbers(N)
    BY <1>5, <2>1 DEF Numbers, Prepared, Choosing, Copying
  <2> QED
    BY <2>2, <2>3 DEF Alone
<1>12. Writer(N)' /\ Reader(N)' /\ Behind(N)'
  BY <1>3, <1>5, <1>7, <1>9 DEF Writer, Reader, Behind, Reads, Closing
<1>13. ASSUME NEW d \in Conns \ {c}
       PROVE  Pair(N, conn[d])
  <2> DEFINE D == conn[d]
  <2>1. D \in Conn /\ Alone(D) /\ Pair(K, D)
    BY Known
  <2>2. Excludes(N, D)
    BY <1>1, <1>2, <1>5, <2>1, FewerLocks DEF Pair
  <2>3. Waits(N, D)
    BY <1>2 DEF Waits
  <2> QED
    BY <1>2, <2>2, <2>3 DEF Pair, Waits
<1> QED
  BY <1>1, <1>2, <1>4, <1>8, <1>10, <1>11, <1>12, <1>13, WriterMoves

-----------------------------------------------------------------------------
(* Checkpoints.                                                            *)

LEMMA CkptLocks ==
  ASSUME NEW K \in Conn, Alone(K), K.at \in {"start"} \union Copying
  PROVE  /\ K.ckptLock = TRUE /\ K.writeLock = FALSE /\ K.readLock = -1 /\ K.written = {}
         /\ K.exRead = (IF K.at = "copy" THEN {0} ELSE {}) /\ K.on = TRUE
<1>1. K.at \notin {"idle", "read", "check", "restart2", "restart3"} \union Recovery \union Choosing \union Closing \union Restarting
  BY DEF Recovery, Choosing, Closing, Restarting, Copying
<1>2. /\ K.ckptLock /\ ~K.writeLock /\ ~(K.readLock >= 0) /\ K.written = {} /\ K.on
      /\ K.exRead = (IF K.at = "copy" THEN {0} ELSE {})
  BY <1>1 DEF Alone, Locks, Held
<1>3. K.readLock = -1
  BY <1>2, ConnFields, WalAssumption
<1> QED
  BY <1>2, <1>3 DEF Conn

LEMMA EndedType ==
  ASSUME NEW K \in Conn, Alone(K), K.at \in {"start"} \union Copying
  PROVE  /\ Ended(K) \in Conn /\ Ended(K).at = "idle" /\ Ended(K).on = K.on /\ Ended(K).ckptLock = FALSE
         /\ Ended(K).readLock = -1 /\ Ended(K).writeLock = FALSE /\ Ended(K).exRead = K.exRead /\ Ended(K).written = {}
<1>1. K.writeLock = FALSE /\ K.written = {}
  BY CkptLocks
<1>2. PICK L \in Conn : L = Left(K)
  BY LeftType
<1>3. /\ L.at = "idle" /\ L.on = K.on /\ L.ckptLock = FALSE /\ L.readLock = -1 /\ L.writeLock = FALSE
      /\ L.exRead = K.exRead /\ L.written = {}
  BY <1>1, <1>2, LeftType
<1>4. PICK h \in Hdr : h = (IF K.changed THEN NoHdr ELSE L.hdr)
  BY RangeTypes, ConnFields
<1>5. PICK N \in Conn : N = [L EXCEPT !.hdr = h]
  BY DEF Conn
<1>6. /\ N.at = "idle" /\ N.on = K.on /\ N.ckptLock = FALSE /\ N.readLock = -1 /\ N.writeLock = FALSE
      /\ N.exRead = K.exRead /\ N.written = {}
  BY <1>3, <1>5 DEF Conn
<1>7. N = Ended(K)
  BY <1>2, <1>4, <1>5 DEF Ended
<1> QED
  BY <1>5, <1>6, <1>7

\* Nothing has been copied.
LEMMA Ends ==
  ASSUME IInv, NEW c \in Conns, conn[c].at \in {"start"} \union Copying, conn[c].at # "copy",
         Become(c, Ended(conn[c])), UNCHANGED << shm, log, file, history >>
  PROVE  IInv'
<1> DEFINE K == conn[c]
<1>1. K \in Conn /\ Alone(K) /\ K.exRead = {} /\ K.on /\ K.at # "restart3"
  BY Known, CkptLocks DEF Copying
<1>2. PICK N \in Conn : N = Ended(K)
  BY <1>1, EndedType
<1>3. N.at = "idle" /\ N.on = K.on /\ N.ckptLock = FALSE /\ N.readLock = -1 /\ N.writeLock = FALSE /\ N.exRead = {} /\ N.written = {}
  BY <1>1, <1>2, EndedType
<1>4. Alone(N) /\ Writer(N) /\ N.at \in Resting
  BY <1>3 DEF Alone, Locks, Numbers, Prepared, Writer, Held, Resting, Recovery, Choosing, Restarting, Closing, Copying
<1> QED
  BY <1>1, <1>2, <1>3, <1>4, Rests

\* A checkpoint that goes on with its locks and its header, as far as the readers' marks allow.
LEMMA GoesOn ==
  ASSUME IInv, NEW c \in Conns, conn[c].at \in {"start"} \union Copying, conn[c].at # "copy", NEW N \in Conn,
         N.at \in {"readMark", "lockMark_i", "copyLock"},
         \A f \in {"on", "hdr", "readLock", "exRead", "writeLock", "ckptLock", "written"} : N[f] = conn[c][f],
         Numbers(N),
         \A d \in Conns \ {c} : Reads(conn[d]) =>
           /\ conn[d].readLock < N.i => N.safe <= conn[d].hdr.mxFrame
           /\ N.at = "lockMark_i" /\ conn[d].readLock = N.i => N.mark <= conn[d].hdr.mxFrame
  PROVE  /\ N.on /\ conn[c].on /\ Alone(N) /\ Agrees(N) /\ ~Reads(N) /\ conn[c].at # "restart3"
         /\ \A d \in Conns \ {c} : Pair(N, conn[d])
<1> DEFINE K == conn[c]
<1>1. K \in Conn /\ Alone(K) /\ Agrees(K)
  BY Known
<1>2. K.ckptLock = TRUE /\ K.writeLock = FALSE /\ K.readLock = -1 /\ K.written = {} /\ K.exRead = {} /\ K.on = TRUE
  BY <1>1, CkptLocks
<1>3. N.on = K.on /\ N.hdr = K.hdr /\ N.readLock = -1 /\ N.exRead = {} /\ N.writeLock = FALSE /\ N.ckptLock = TRUE /\ N.written = {}
  BY <1>2
<1>4. N.at \notin {"idle", "read", "check", "copy", "start", "restart2", "restart3"} \union Recovery \union Choosing \union Closing \union Restarting /\ N.at \in Copying
  BY DEF Recovery, Choosing, Closing, Restarting, Copying
<1>5. Alone(N)
  BY <1>2, <1>3, <1>4 DEF Alone, Locks, Held
<1>6. Agrees(N) /\ ~Reads(N)
  BY <1>1, <1>3, <1>4 DEF Agrees, Writer, Reader, Behind, Reads
<1>7. ASSUME NEW d \in Conns \ {c}
      PROVE  Pair(N, conn[d])
  <2> DEFINE D == conn[d]
  <2>1. D \in Conn /\ Alone(D) /\ Pair(K, D)
    BY Known
  <2>2. Excludes(N, D)
    BY <1>1, <1>2, <1>3, <1>4, <2>1, FewerLocks DEF Pair
  <2>3. Waits(N, D)
    BY <2>1 DEF Pair, Waits
  <2>4. Waits(D, N)
    BY <1>1, <1>4, <1>6, <2>1, StillWaits DEF Pair
  <2> QED
    BY <2>2, <2>3, <2>4 DEF Pair
<1>8. K.at # "restart3"
  BY DEF Copying
<1> QED
  BY <1>2, <1>3, <1>5, <1>6, <1>7, <1>8

LEMMA CkptStartStep ==
  ASSUME IInv, NEW c \in Conns, CkptStart(c)
  PROVE  IInv'
<1> DEFINE K == conn[c]
           mx == K.hdr.mxFrame
           frames(p) == {k \in 1..mx : p \in shm.index[k]}
           iter == [p \in Pages |-> Max(frames(p) \union {0})]
<1>1. K \in Conn /\ Alone(K) /\ Agrees(K) /\ K.on /\ K.at = "start" /\ UNCHANGED << shm, log, file, history >> /\ mx \in Frames0 /\ mx \in Nat
  BY Known, ConnFields DEF CkptStart, At, Frames0
<1>2. CASE shm.nBackfill < mx
  <2>1. iter \in Iter
    <3>1. ASSUME NEW p \in Pages
          PROVE  Max(frames(p) \union {0}) \in 0..MaxFrame
      <4>1. frames(p) \union {0} \in SUBSET (0..mx) /\ frames(p) \union {0} # {}
        BY <1>1
      <4>2. Max(frames(p) \union {0}) \in frames(p) \union {0}
        BY <1>1, <4>1, MaxIsGreatest
      <4> QED
        BY <1>1, <4>1, <4>2, WalAssumption DEF Frames0
    <3> QED
      BY <3>1 DEF Iter
  <2>2. Become(c, [K EXCEPT !.at = "readMark", !.i = 1, !.safe = mx, !.iter = iter])
    BY <1>2 DEF CkptStart
  <2> HIDE DEF iter, mx
  <2>3. PICK N \in Conn : N = [K EXCEPT !.at = "readMark", !.i = 1, !.safe = mx, !.iter = iter]
    BY <1>1, <2>1, StepNames, RangeTypes, MarksType DEF Conn, Copying
  <2>4. /\ N.at = "readMark" /\ N.i = 1 /\ N.safe = mx /\ N.hdr = K.hdr
        /\ \A f \in {"on", "hdr", "readLock", "exRead", "writeLock", "ckptLock", "written"} : N[f] = K[f]
    BY <1>1, <2>3 DEF Conn
  <2>5. Numbers(N)
    BY <1>1, <2>4, MarksType DEF Numbers, Prepared, Choosing, Restarting, mx
  <2>6. \A d \in Conns \ {c} : Reads(conn[d]) => ~(conn[d].readLock < N.i)
    BY <2>4, Known, ConnFields DEF Reads
  <2>7. Become(c, N)
    BY <2>2, <2>3
  <2>8. N.on /\ K.on /\ Alone(N) /\ Agrees(N) /\ K.at # "restart3" /\ \A d \in Conns \ {c} : Pair(N, conn[d])
    BY <1>1, <2>4, <2>5, <2>6, GoesOn
  <2> QED
    BY <1>1, <2>7, <2>8, OnlyOneMoves
<1>3. CASE ~(shm.nBackfill < mx)
  <2>1. Become(c, Ended(K))
    BY <1>3 DEF CkptStart
  <2> QED
    BY <1>1, <2>1, Ends
<1> QED
  BY <1>2, <1>3

LEMMA NextType ==
  ASSUME NEW K \in Conn, K.i \in Marks, K.safe <= K.hdr.mxFrame
  PROVE  /\ Next_i(K) \in Conn /\ Next_i(K).i = K.i + 1 /\ Next_i(K).safe = K.safe
         /\ Next_i(K).at \in {"readMark", "copyLock"} /\ Numbers(Next_i(K))
         /\ \A f \in {"on", "hdr", "readLock", "exRead", "writeLock", "ckptLock", "written"} : Next_i(K)[f] = K[f]
<1> DEFINE i == K.i + 1
           at == IF i \in Marks THEN "readMark" ELSE "copyLock"
<1>1. i \in Numbers0 /\ (i \notin Marks => i = NReader)
  BY WalAssumption DEF Marks, Numbers0
<1>2. at \in Steps /\ at \in {"readMark", "copyLock"} /\ (at = "readMark" => i \in Marks) /\ (at = "copyLock" => i = NReader)
  BY <1>1, StepNames DEF Copying
<1>3. Next_i(K) = [K EXCEPT !.i = i, !.mark = 0, !.at = at]
  BY DEF Next_i
<1> HIDE DEF at, i
<1>4. PICK N \in Conn : N = [K EXCEPT !.i = i, !.mark = 0, !.at = at]
  BY <1>1, <1>2, RangeTypes DEF Conn
<1>5. /\ N.at = at /\ N.i = i /\ N.safe = K.safe
      /\ \A f \in {"on", "hdr", "readLock", "exRead", "writeLock", "ckptLock", "written"} : N[f] = K[f]
  BY <1>4 DEF Conn
<1>6. Numbers(N)
  BY <1>2, <1>5 DEF Numbers, Prepared, Choosing, Restarting
<1> QED
  BY <1>2, <1>3, <1>4, <1>5, <1>6 DEF i

LEMMA CkptReadMarkStep ==
  ASSUME IInv, NEW c \in Conns, CkptReadMark(c)
  PROVE  IInv'
<1> DEFINE K == conn[c]
<1>1. /\ K \in Conn /\ Alone(K) /\ K.on /\ K.at = "readMark" /\ UNCHANGED << shm, log, file, history >> /\ ShmType
      /\ K.at \in Copying
  BY Known DEF CkptReadMark, At, IInv, Typed, Copying
<1>2. K.i \in Marks /\ K.i \in Nat /\ K.safe <= K.hdr.mxFrame
  BY <1>1, ConnFields DEF Alone, Numbers
<1>3. PICK y \in MarkValues : y = shm.mark[K.i] /\ y \in Nat
  BY <1>1, <1>2, ShmFields
<1>4. \A d \in Conns \ {c} : Reads(conn[d]) =>
        /\ conn[d].readLock < K.i => K.safe <= conn[d].hdr.mxFrame
        /\ conn[d].readLock = K.i => y <= conn[d].hdr.mxFrame
  BY <1>1, <1>3, Known DEF Pair, Waits, Agrees, Reader
<1>5. PICK N \in Conn :
        /\ Become(c, N) /\ N.at \in {"readMark", "lockMark_i", "copyLock"} /\ Numbers(N)
        /\ \A f \in {"on", "hdr", "readLock", "exRead", "writeLock", "ckptLock", "written"} : N[f] = K[f]
        /\ \/ N.at = "lockMark_i" /\ N.i = K.i /\ N.safe = K.safe /\ N.mark = y
           \/ N.at # "lockMark_i" /\ N.i = K.i + 1 /\ N.safe = K.safe /\ K.safe <= y
  <2>1. CASE K.safe > y
    <3>1. PICK N \in Conn : N = [K EXCEPT !.at = "lockMark_i", !.mark = y]
      BY <1>1, StepNames DEF Conn, Copying
    <3>2. /\ N.at = "lockMark_i" /\ N.i = K.i /\ N.safe = K.safe /\ N.mark = y /\ N.hdr = K.hdr
          /\ \A f \in {"on", "hdr", "readLock", "exRead", "writeLock", "ckptLock", "written"} : N[f] = K[f]
      BY <1>1, <3>1 DEF Conn
    <3>3. Numbers(N)
      <4>1. N.mark < N.safe
        BY <1>1, <1>3, <2>1, <3>2, ConnFields
      <4> QED
        BY <1>2, <3>2, <4>1 DEF Numbers, Prepared, Choosing, Restarting
    <3>4. Become(c, N)
      BY <1>3, <2>1, <3>1 DEF CkptReadMark
    <3> QED
      BY <3>2, <3>3, <3>4
  <2>2. CASE ~(K.safe > y)
    <3>1. PICK N \in Conn : N = Next_i(K)
      BY <1>1, <1>2, NextType
    <3>2. /\ N.i = K.i + 1 /\ N.safe = K.safe /\ N.at \in {"readMark", "copyLock"} /\ Numbers(N)
          /\ \A f \in {"on", "hdr", "readLock", "exRead", "writeLock", "ckptLock", "written"} : N[f] = K[f]
      BY <1>1, <1>2, <3>1, NextType
    <3>3. K.safe <= y
      BY <1>1, <1>3, <2>2, ConnFields
    <3>4. Become(c, N)
      BY <1>3, <2>2, <3>1 DEF CkptReadMark
    <3> QED
      BY <3>2, <3>3, <3>4
  <2> QED
    BY <2>1, <2>2
<1>6. ASSUME NEW d \in Conns \ {c}, Reads(conn[d])
      PROVE  /\ conn[d].readLock < N.i => N.safe <= conn[d].hdr.mxFrame
             /\ N.at = "lockMark_i" /\ conn[d].readLock = N.i => N.mark <= conn[d].hdr.mxFrame
  <2>1. conn[d] \in Conn
    BY Known
  <2>2. conn[d].readLock \in Int /\ conn[d].hdr.mxFrame \in Nat /\ K.safe \in Nat
    BY <1>1, <2>1, ConnFields
  <2>3. CASE N.at = "lockMark_i"
    BY <1>4, <1>5, <1>6, <2>3
  <2>4. CASE N.at # "lockMark_i"
    BY <1>2, <1>3, <1>4, <1>5, <1>6, <2>2, <2>4
  <2> QED
    BY <2>3, <2>4
<1>7. N.on /\ K.on /\ Alone(N) /\ Agrees(N) /\ K.at # "restart3" /\ \A d \in Conns \ {c} : Pair(N, conn[d])
  BY <1>1, <1>5, <1>6, GoesOn
<1> QED
  BY <1>1, <1>5, <1>7, OnlyOneMoves

LEMMA CkptLockMarkStep ==
  ASSUME IInv, NEW c \in Conns, CkptLockMark(c)
  PROVE  IInv'
<1> DEFINE K == conn[c]
<1>1. /\ K \in Conn /\ Alone(K) /\ K.on /\ K.at = "lockMark_i" /\ UNCHANGED << log, file, history >> /\ ShmType
      /\ K.at \in Copying
  BY Known DEF CkptLockMark, At, IInv, Typed, Copying
<1>2. K.i \in Marks /\ K.i \in Nat /\ K.safe <= K.hdr.mxFrame /\ K.mark < K.safe
  BY <1>1, ConnFields DEF Alone, Numbers, Copying
<1>3. K.safe \in Nat /\ K.mark \in Nat /\ K.hdr.mxFrame \in Nat /\ K.safe \in MarkValues /\ K.mark \in Frames0 /\ NoMark \in MarkValues
  BY <1>1, <1>2, ConnFields, WalAssumption DEF MarkValues, Frames0, NoMark
<1>4. \A d \in Conns \ {c} : Reads(conn[d]) =>
        /\ conn[d].readLock < K.i => K.safe <= conn[d].hdr.mxFrame
        /\ conn[d].readLock = K.i => K.mark <= conn[d].hdr.mxFrame
  BY <1>1, Known DEF Pair, Waits
<1>5. CASE CanExcludeRead(c, K.i)
  <2>1. PICK v \in MarkValues : shm' = [shm EXCEPT !.mark[K.i] = v]
    BY <1>3, <1>5 DEF CkptLockMark
  <2>2. PICK N \in Conn : N = Next_i(K)
    BY <1>1, <1>2, NextType
  <2>3. /\ N.i = K.i + 1 /\ N.safe = K.safe /\ N.at \in {"readMark", "copyLock"} /\ Numbers(N)
        /\ \A f \in {"on", "hdr", "readLock", "exRead", "writeLock", "ckptLock", "written"} : N[f] = K[f]
    BY <1>1, <1>2, <2>2, NextType
  <2>4. Become(c, N)
    BY <1>5, <2>2 DEF CkptLockMark
  <2>5. ASSUME NEW d \in Conns \ {c}, Reads(conn[d])
        PROVE  conn[d].readLock < N.i => N.safe <= conn[d].hdr.mxFrame
    <3>1. conn[d] \in Conn /\ conn[d].readLock # K.i
      BY <1>5, Known DEF CanExcludeRead
    <3>2. conn[d].readLock \in Int
      BY <3>1, ConnFields
    <3> QED
      BY <1>2, <1>4, <2>3, <2>5, <3>1, <3>2
  <2>6. N.on /\ K.on /\ Alone(N) /\ Agrees(N) /\ ~Reads(N) /\ K.at # "restart3" /\ \A d \in Conns \ {c} : Pair(N, conn[d])
    BY <1>1, <2>3, <2>5, GoesOn
  <2> QED
    BY <1>1, <1>2, <1>5, <2>1, <2>4, <2>6, MarkMoves DEF Agrees
<1>6. CASE ~CanExcludeRead(c, K.i)
  <2>1. Become(c, Next_i([K EXCEPT !.safe = K.mark])) /\ UNCHANGED shm
    BY <1>6 DEF CkptLockMark
  <2>2. PICK L \in Conn : L = [K EXCEPT !.safe = K.mark]
    BY <1>1, <1>3 DEF Conn
  <2>3. /\ L.i = K.i /\ L.safe = K.mark /\ L.hdr = K.hdr
        /\ \A f \in {"on", "hdr", "readLock", "exRead", "writeLock", "ckptLock", "written"} : L[f] = K[f]
    BY <1>1, <2>2 DEF Conn
  <2>4. L.safe <= L.hdr.mxFrame /\ L.i \in Marks
    BY <1>2, <1>3, <2>3
  <2>5. PICK N \in Conn : N = Next_i(L)
    BY <2>4, NextType
  <2>6. /\ N.i = L.i + 1 /\ N.safe = L.safe /\ N.at \in {"readMark", "copyLock"} /\ Numbers(N)
        /\ \A f \in {"on", "hdr", "readLock", "exRead", "writeLock", "ckptLock", "written"} : N[f] = L[f]
    BY <2>4, <2>5, NextType
  <2>7. \A f \in {"on", "hdr", "readLock", "exRead", "writeLock", "ckptLock", "written"} : N[f] = K[f]
    BY <2>3, <2>6
  <2>8. ASSUME NEW d \in Conns \ {c}, Reads(conn[d])
        PROVE  conn[d].readLock < N.i => N.safe <= conn[d].hdr.mxFrame
    <3>1. conn[d] \in Conn
      BY Known
    <3>2. conn[d].readLock \in Int /\ conn[d].hdr.mxFrame \in Nat
      BY <3>1, ConnFields
    <3> QED
      BY <1>2, <1>3, <1>4, <2>3, <2>6, <2>8, <3>2
  <2>9. N.on /\ K.on /\ Alone(N) /\ Agrees(N) /\ K.at # "restart3" /\ \A d \in Conns \ {c} : Pair(N, conn[d])
    BY <1>1, <2>6, <2>7, <2>8, GoesOn
  <2>10. Become(c, N)
    BY <2>1, <2>2, <2>5
  <2> QED
    BY <1>1, <2>1, <2>9, <2>10, OnlyOneMoves
<1> QED
  BY <1>5, <1>6

\* A checkpoint that copies: it holds READ(0), and waits for readers of every mark.
LEMMA CopiesOn ==
  ASSUME IInv, NEW c \in Conns, conn[c].at \in {"copyLock", "copy"}, NEW N \in Conn, N.at = "copy", N.exRead = {0},
         conn[c].at = "copyLock" => CanExcludeRead(c, 0),
         \A f \in {"on", "hdr", "readLock", "writeLock", "ckptLock", "written", "i", "safe"} : N[f] = conn[c][f]
  PROVE  N.on /\ conn[c].on /\ Alone(N) /\ Agrees(N) /\ conn[c].at # "restart3" /\ \A d \in Conns \ {c} : Pair(N, conn[d])
<1> DEFINE K == conn[c]
<1>1. K \in Conn /\ Alone(K) /\ Agrees(K) /\ K.at \in Copying
  BY Known DEF Copying
<1>2. K.ckptLock = TRUE /\ K.writeLock = FALSE /\ K.readLock = -1 /\ K.written = {} /\ K.on = TRUE /\ (K.at = "copy" => K.exRead = {0})
  BY <1>1, CkptLocks
<1>3. /\ N.on /\ N.hdr = K.hdr /\ N.readLock = -1 /\ N.writeLock = FALSE /\ N.ckptLock = TRUE /\ N.written = {}
      /\ N.i = K.i /\ N.safe = K.safe
  BY <1>2
<1>4. Alone(N)
  <2>1. Locks(N)
    BY <1>3 DEF Locks, Held, Recovery, Choosing, Closing, Restarting, Copying
  <2>2. K.i = NReader /\ K.safe <= K.hdr.mxFrame
    BY <1>1 DEF Alone, Numbers
  <2>3. Numbers(N)
    BY <1>3, <2>2 DEF Numbers, Prepared, Choosing, Restarting, Copying
  <2> QED
    BY <2>1, <2>3 DEF Alone
<1>5. Agrees(N) /\ ~Reads(N)
  BY <1>1, <1>3 DEF Agrees, Writer, Reader, Behind, Reads, Closing, Copying
<1>6. ASSUME NEW d \in Conns \ {c}
      PROVE  Pair(N, conn[d])
  <2> DEFINE D == conn[d]
  <2>1. D \in Conn /\ Alone(D) /\ Pair(K, D)
    BY Known
  <2>2. D.readLock # 0 /\ 0 \notin D.exRead /\ -1 \notin D.exRead
    <3>1. CASE K.at = "copyLock"
      BY <2>1, <3>1, ConnFields, WalAssumption DEF CanExcludeRead, CanShareRead
    <3>2. CASE K.at = "copy"
      BY <1>2, <2>1, <3>2, ConnFields, WalAssumption DEF Pair, Excludes
    <3> QED
      BY <3>1, <3>2
  <2>3. Excludes(N, D)
    BY <1>2, <1>3, <2>1, <2>2 DEF Pair, Excludes, Recovery
  <2>4. Waits(N, D)
    BY <1>1, <1>3, <2>1 DEF Pair, Waits
  <2>5. Waits(D, N)
    BY <1>1, <1>5, <2>1, StillWaits DEF Pair
  <2> QED
    BY <2>3, <2>4, <2>5 DEF Pair
<1> QED
  BY <1>2, <1>3, <1>4, <1>5, <1>6

LEMMA CkptCopyLockStep ==
  ASSUME IInv, NEW c \in Conns, CkptCopyLock(c)
  PROVE  IInv'
<1> DEFINE K == conn[c]
           copied == {p \in Pages : K.iter[p] > shm.nBackfill /\ K.iter[p] <= K.safe}
<1>1. K \in Conn /\ Alone(K) /\ K.on /\ K.at = "copyLock" /\ UNCHANGED << shm, wal, file, history >> /\ Typed /\ K.at \in Copying
  BY Known DEF CkptCopyLock, At, IInv, Copying
<1>2. CASE shm.nBackfill < K.safe /\ CanExcludeRead(c, 0)
  <2>1. Become(c, [K EXCEPT !.at = "copy", !.exRead = {0}, !.todo = copied]) /\ walDisk' = {wal.frames}
    BY <1>2 DEF CkptCopyLock
  <2>2. copied \in SUBSET Pages
    OBVIOUS
  <2> HIDE DEF copied
  <2>3. {0} \in SUBSET (0..(NReader - 1))
    BY WalAssumption
  <2>4. PICK N \in Conn : N = [K EXCEPT !.at = "copy", !.exRead = {0}, !.todo = copied]
    BY <1>1, <2>2, <2>3, StepNames DEF Conn, Copying
  <2>5. /\ N.at = "copy" /\ N.exRead = {0}
        /\ \A f \in {"on", "hdr", "readLock", "writeLock", "ckptLock", "written", "i", "safe"} : N[f] = K[f]
    BY <1>1, <2>4 DEF Conn
  <2>6. N.on /\ Alone(N) /\ Agrees(N) /\ K.at # "restart3" /\ \A d \in Conns \ {c} : Pair(N, conn[d])
    BY <1>1, <1>2, <2>5, CopiesOn
  <2>7. LogType' /\ FileType' /\ txn' \in 0..MaxTxn /\ UNCHANGED << shm, wal >> /\ Become(c, N)
    BY <1>1, <2>1, <2>4 DEF Typed, LogType, FileType, file, history
  <2> QED
    BY <1>1, <2>6, <2>7, OneMovesAndFiles
<1>3. CASE ~(shm.nBackfill < K.safe /\ CanExcludeRead(c, 0))
  <2>1. Become(c, Ended(K)) /\ UNCHANGED walDisk
    BY <1>3 DEF CkptCopyLock
  <2> QED
    BY <1>1, <2>1, Ends DEF log
<1> QED
  BY <1>2, <1>3

LEMMA CopyStep ==
  ASSUME IInv, NEW c \in Conns, NEW p \in Pages, Copy(c, p)
  PROVE  IInv'
<1> DEFINE K == conn[c]
           val == IF K.iter[p] \in DOMAIN wal.frames THEN wal.frames[K.iter[p]].val ELSE Garbage
<1>1. /\ K \in Conn /\ Alone(K) /\ K.on /\ K.at = "copy" /\ UNCHANGED << shm, log, history >> /\ Typed /\ K.at \in Copying
      /\ db' = [db EXCEPT ![p] = val] /\ dbDisk' = [dbDisk EXCEPT ![p] = dbDisk[p] \union {val}]
      /\ Become(c, [K EXCEPT !.todo = K.todo \ {p}])
  BY Known DEF Copy, At, IInv, Copying
<1>2. val \in 0..Garbage
  <2>1. CASE K.iter[p] \in DOMAIN wal.frames
    <3>1. wal.frames[K.iter[p]] \in Frame
      BY <1>1, <2>1, ElementOfSeq, LenProperties DEF Typed, LogType
    <3>2. val \in 0..MaxTxn
      BY <2>1, <3>1 DEF Frame
    <3> QED
      BY <3>2, WalAssumption DEF Garbage
  <2>2. CASE K.iter[p] \notin DOMAIN wal.frames
    BY <2>2, WalAssumption DEF Garbage
  <2> QED
    BY <2>1, <2>2
<1> HIDE DEF val
<1>3. FileType'
  BY <1>1, <1>2 DEF Typed, FileType
<1>4. LogType' /\ txn' \in 0..MaxTxn /\ UNCHANGED << shm, wal >>
  BY <1>1 DEF Typed, LogType, log, history
<1>5. PICK N \in Conn : N = [K EXCEPT !.todo = K.todo \ {p}]
  BY <1>1 DEF Conn
<1>6. /\ N.at = "copy" /\ N.exRead = K.exRead
      /\ \A f \in {"on", "hdr", "readLock", "writeLock", "ckptLock", "written", "i", "safe"} : N[f] = K[f]
  BY <1>1, <1>5 DEF Conn
<1>7. K.exRead = {0}
  BY <1>1, CkptLocks
<1>8. N.on /\ Alone(N) /\ Agrees(N) /\ K.at # "restart3" /\ \A d \in Conns \ {c} : Pair(N, conn[d])
  BY <1>1, <1>6, <1>7, CopiesOn
<1> QED
  BY <1>1, <1>3, <1>4, <1>5, <1>8, OneMovesAndFiles

\* It tells how far it has come: everybody who reads the log has these frames in the snapshot.
LEMMA CkptDoneStep ==
  ASSUME IInv, NEW c \in Conns, CkptDone(c)
  PROVE  IInv'
<1> DEFINE K == conn[c]
<1>1. /\ K \in Conn /\ Alone(K) /\ Agrees(K) /\ K.on /\ K.at = "copy" /\ UNCHANGED << log, db, history >> /\ ShmType /\ Typed
      /\ K.at \in Copying /\ shm' = [shm EXCEPT !.nBackfill = K.safe]
      /\ Become(c, [Ended(K) EXCEPT !.exRead = {}])
      /\ dbDisk' = IF K.safe = shm.hdr[1].mxFrame THEN [p \in Pages |-> {db[p]}] ELSE dbDisk
  BY Known DEF CkptDone, At, IInv, Typed, Copying
<1>2. K.ckptLock = TRUE /\ K.writeLock = FALSE /\ K.readLock = -1 /\ K.exRead = {0}
  BY <1>1, CkptLocks
<1>3. K.safe \in Frames0 /\ K.safe \in Nat /\ K.safe <= K.hdr.mxFrame /\ K.hdr.mxFrame \in Nat /\ K.i = NReader
  BY <1>1, ConnFields DEF Alone, Numbers, Frames0
<1>4. PICK L \in Conn : L = Ended(K)
  BY <1>1, EndedType
<1>5. L.at = "idle" /\ L.on = K.on /\ L.ckptLock = FALSE /\ L.readLock = -1 /\ L.writeLock = FALSE /\ L.written = {}
  BY <1>1, <1>4, EndedType
<1>6. PICK N \in Conn : N = [L EXCEPT !.exRead = {}]
  BY DEF Conn
<1>7. /\ N.at = "idle" /\ N.on = K.on /\ N.ckptLock = FALSE /\ N.readLock = -1 /\ N.writeLock = FALSE /\ N.exRead = {}
      /\ N.written = {}
  BY <1>5, <1>6 DEF Conn
<1>8. /\ shm' \in [hdr : [1..2 -> Hdr], nBackfill : Frames0, mark : [Marks -> MarkValues], index : {shm'.index}]
      /\ shm'.hdr = shm.hdr /\ shm'.nBackfill = K.safe /\ shm'.mark = shm.mark
  BY <1>1, <1>3 DEF ShmType
<1>9. conn' \in [Conns -> Conn] /\ conn'[c] = N /\ \A d \in Conns \ {c} : conn'[d] = conn[d]
  BY <1>1, <1>4, <1>6 DEF Become, Typed
<1>10. Typed'
  <2>1. FileType'
    BY <1>1 DEF Typed, FileType
  <2> QED
    BY <1>1, <1>8, <1>9, <2>1 DEF Typed, ShmType, LogType, log, history
<1>11. K.safe <= shm.hdr[1].mxFrame
  <2>1. K.hdr.mxFrame <= shm.hdr[1].mxFrame /\ shm.hdr[1].mxFrame \in Nat
    BY <1>1, ShmFields DEF Agrees, Behind
  <2> QED
    BY <1>3, <2>1
<1>12. Header'
  <2>1. Committed(shm.hdr[1].mxFrame)
    BY <1>1 DEF IInv, Header
  <2> QED
    BY <1>1, <1>8, <1>11, <2>1 DEF Header, Committed, log
<1>13. Alone(N)
  BY <1>1, <1>7 DEF Alone, Locks, Numbers, Prepared, Held, Recovery, Choosing, Restarting, Closing, Copying
<1>14. Agrees(conn[c])'
  BY <1>7, <1>9 DEF Agrees, Writer, Reader, Behind, Reads, Closing, Copying
<1>15. ASSUME NEW d \in Conns \ {c}
       PROVE  Agrees(conn[d])' /\ Pair(N, conn[d])
  <2> DEFINE D == conn[d]
  <2>1. D \in Conn /\ Alone(D) /\ Agrees(D) /\ Pair(K, D)
    BY Known
  <2>2. D.at \notin Recovery
    BY <1>2, <2>1 DEF Pair, Excludes
  <2>3. Reads(D) => K.safe <= D.hdr.mxFrame
    <3>1. Reads(D) => D.readLock < K.i
      BY <1>3, <2>1, ReaderHasMark, MarksType
    <3> QED
      BY <1>1, <2>1, <3>1 DEF Pair, Waits
  <2>4. Writer(conn[d])'
    BY <1>1, <1>8, <1>9, <2>1, <2>2 DEF Agrees, Writer, Committed, Recovery, log
  <2>5. Reader(conn[d])' /\ Behind(conn[d])'
    BY <1>8, <1>9, <2>1, <2>3 DEF Agrees, Reader, Behind
  <2>6. Excludes(N, D)
    BY <1>1, <1>2, <1>7, <2>1, FewerLocks DEF Pair, Recovery
  <2>7. \A E : Waits(N, E)
    BY <1>7, NoCheckpoint DEF Copying
  <2>8. Waits(D, N)
    BY <1>1, <1>7, <2>1, StillWaits DEF Pair, Reads, Closing
  <2> QED
    BY <2>4, <2>5, <2>6, <2>7, <2>8 DEF Agrees, Pair
<1>16. (\A d \in Conns : Agrees(conn[d])') /\ \A d \in Conns \ {c} : Pair(conn'[c], conn'[d])
  BY <1>9, <1>14, <1>15
<1> QED
  BY <1>9, <1>10, <1>12, <1>13, <1>16, OneMoves

-----------------------------------------------------------------------------
(* Connections that come and go.                                           *)

LEMMA FreshType ==
  /\ Fresh \in Conn /\ Closed \in Conn
  /\ \A K \in {Fresh, Closed} : /\ K.at = "idle" /\ K.readLock = -1 /\ K.exRead = {} /\ K.writeLock = FALSE
                                /\ K.ckptLock = FALSE /\ K.written = {}
<1>1. Fresh \in Conn
  BY RangeTypes, StepNames DEF Fresh, Conn, Resting
<1>2. Closed \in Conn
  BY <1>1 DEF Closed, Conn
<1>3. /\ Fresh.at = "idle" /\ Fresh.readLock = -1 /\ Fresh.exRead = {} /\ Fresh.writeLock = FALSE
      /\ Fresh.ckptLock = FALSE /\ Fresh.written = {}
  BY DEF Fresh
<1>4. /\ Closed.at = "idle" /\ Closed.readLock = -1 /\ Closed.exRead = {} /\ Closed.writeLock = FALSE
      /\ Closed.ckptLock = FALSE /\ Closed.written = {}
  BY DEF Closed, Fresh
<1> QED
  BY <1>1, <1>2, <1>3, <1>4

\* A connection that does nothing agrees with everything.
LEMMA IdleHolds ==
  ASSUME NEW K \in Conn, K.at = "idle", K.readLock = -1, K.exRead = {}, K.writeLock = FALSE, K.ckptLock = FALSE, K.written = {}
  PROVE  Alone(K) /\ Agrees(K) /\ Agrees(K)' /\ ~Reads(K) /\ (\A D : Waits(K, D)) /\ \A D : Waits(D, K)
<1>1. ~Reads(K) /\ K.at \notin {"start", "restart2"} \union Copying
  BY DEF Reads, Closing, Copying
<1>2. Alone(K)
  BY DEF Alone, Locks, Numbers, Prepared, Held, Recovery, Choosing, Restarting, Closing, Copying
<1>3. Agrees(K) /\ Agrees(K)'
  BY <1>1 DEF Agrees, Writer, Reader, Behind
<1>4. (\A D : Waits(K, D)) /\ \A D : Waits(D, K)
  BY <1>1 DEF Waits
<1> QED
  BY <1>1, <1>2, <1>3, <1>4

LEMMA IdleExcludes ==
  ASSUME NEW K \in Conn, K.at = "idle", K.readLock = -1, K.exRead = {}, K.writeLock = FALSE, K.ckptLock = FALSE, K.written = {},
         NEW D \in Conn
  PROVE  Pair(K, D)
<1>1. -1 \notin D.exRead
  BY ConnFields, WalAssumption
<1>2. Excludes(K, D)
  BY <1>1 DEF Excludes, Recovery
<1> QED
  BY <1>2, IdleHolds DEF Pair

LEMMA NoShmType ==
  /\ NoShm \in [hdr : [1..2 -> Hdr], nBackfill : Frames0, mark : [Marks -> MarkValues], index : {NoShm.index}]
  /\ NoShm.hdr[1].mxFrame = 0 /\ NoShm.nBackfill = 0
<1>1. PICK h \in [1..2 -> Hdr] : h = << NoHdr, NoHdr >>
  <2>1. PICK n \in Hdr : n = NoHdr
    BY RangeTypes
  <2>2. << n, n >> = [j \in 1..2 |-> n]
    OBVIOUS
  <2>3. [j \in 1..2 |-> n] \in [1..2 -> Hdr]
    OBVIOUS
  <2> QED
    BY <2>1, <2>2, <2>3
<1>2. PICK mark \in [Marks -> MarkValues] : mark = [i \in Marks |-> 0]
  BY RangeTypes
<1>3. PICK index : index = [k \in 1..MaxFrame |-> {}]
  OBVIOUS
<1>4. NoShm = [hdr |-> h, nBackfill |-> 0, mark |-> mark, index |-> index]
  BY <1>1, <1>2, <1>3 DEF NoShm
<1>5. h[1].mxFrame = 0
  BY <1>1 DEF NoHdr
<1> QED
  BY <1>4, <1>5, RangeTypes

LEMMA OpenStep ==
  ASSUME IInv, NEW c \in Conns, Open(c)
  PROVE  IInv'
<1>1. /\ ~conn[c].on /\ Become(c, Fresh) /\ UNCHANGED << log, file, history >> /\ Typed /\ conn[c].at = "idle"
  BY Known DEF Open, IInv, Alone, Locks
<1>2. PICK N \in Conn : N = Fresh
  BY FreshType
<1>3. N.at = "idle" /\ N.readLock = -1 /\ N.exRead = {} /\ N.writeLock = FALSE /\ N.ckptLock = FALSE /\ N.written = {}
  BY <1>2, FreshType
<1>4. Alone(N) /\ Agrees(N) /\ Agrees(N)' /\ \A d \in Conns \ {c} : Pair(N, conn[d])
  BY <1>3, IdleHolds, IdleExcludes, Known
<1>5. CASE \E d \in Conns : conn[d].on
  <2>1. shm' = shm
    BY <1>5 DEF Open
  <2>2. UNCHANGED << shm, wal >> /\ LogType' /\ FileType' /\ txn' \in 0..MaxTxn /\ Become(c, N)
    BY <1>1, <1>2, <2>1 DEF Typed, LogType, FileType, log, file, history
  <2>3. conn[c].at # "restart3"
    BY <1>1
  <2> QED
    BY <1>4, <1>5, <2>2, <2>3, OneMovesAndFiles
<1>6. CASE ~\E d \in Conns : conn[d].on
  <2>1. shm' = NoShm
    BY <1>6 DEF Open
  <2>2. /\ shm' \in [hdr : [1..2 -> Hdr], nBackfill : Frames0, mark : [Marks -> MarkValues], index : {shm'.index}]
        /\ shm'.hdr[1].mxFrame = 0 /\ shm'.nBackfill = 0
    BY <2>1, NoShmType
  <2>3. conn' \in [Conns -> Conn] /\ conn'[c] = N /\ \A d \in Conns \ {c} : conn'[d] = conn[d]
    BY <1>1, <1>2 DEF Become, Typed
  <2>4. Typed'
    BY <1>1, <2>2, <2>3 DEF Typed, ShmType, LogType, FileType, log, file, history
  <2>5. Header'
    BY <2>2 DEF Header, Committed
  <2>6. ASSUME NEW d \in Conns \ {c}
        PROVE  Agrees(conn[d])'
    <3>1. conn[d] \in Conn /\ Alone(conn[d]) /\ ~conn[d].on
      BY <1>6, Known
    <3>2. conn[d].at = "idle"
      BY <3>1 DEF Alone, Locks
    <3>3. conn[d].writeLock = FALSE /\ ~Reads(conn[d]) /\ conn[d].at \notin {"start"} \union Copying
      BY <3>1, <3>2, AtRest DEF Reads, Closing, Copying
    <3> QED
      BY <2>3, <3>3 DEF Agrees, Writer, Reader, Behind
  <2>7. Agrees(conn[c])'
    BY <1>4, <2>3 DEF Agrees, Writer, Reader, Behind, Committed
  <2>8. (\A d \in Conns : Agrees(conn[d])') /\ \A d \in Conns \ {c} : Pair(conn'[c], conn'[d])
    BY <1>4, <2>3, <2>6, <2>7
  <2> QED
    BY <1>4, <2>3, <2>4, <2>5, <2>8, OneMoves
<1> QED
  BY <1>5, <1>6

\* A process that dies gives up its locks.  What it has not committed nobody knows of.
LEMMA CrashStep ==
  ASSUME IInv, NEW c \in Conns, Crash(c), "halfRestart" \notin Troubles
  PROVE  IInv'
<1> DEFINE K == conn[c]
<1>1. K \in Conn /\ Alone(K) /\ Agrees(K) /\ UNCHANGED << shm, file, txn >> /\ Typed /\ Become(c, Closed) /\ K.at # "restart3"
  BY Known DEF Crash, IInv, Become
<1>2. PICK N \in Conn : N = Closed
  BY FreshType
<1>3. N.at = "idle" /\ N.readLock = -1 /\ N.exRead = {} /\ N.writeLock = FALSE /\ N.ckptLock = FALSE /\ N.written = {} /\ ~N.on
  BY <1>2, FreshType DEF Closed, Fresh
<1>4. Alone(N) /\ Agrees(N) /\ Agrees(N)' /\ \A d \in Conns \ {c} : Pair(N, conn[d])
  BY <1>3, IdleHolds, IdleExcludes, Known
<1>5. CASE UNCHANGED log
  <2>1. UNCHANGED << shm, wal >> /\ LogType' /\ FileType' /\ txn' \in 0..MaxTxn /\ Become(c, N)
    BY <1>1, <1>2, <1>5 DEF Typed, LogType, FileType, log, file
  <2> QED
    BY <1>1, <1>3, <1>4, <2>1, OneMovesAndFiles
<1>6. ASSUME K.at = "append",
             NEW frames \in walDisk, Len(frames) >= K.hdr.mxFrame, IsStrictPrefix(frames, wal.frames),
             wal' = [wal EXCEPT !.frames = frames],
             walDisk' = {f \in walDisk : ~(IsStrictPrefix(frames, f) /\ IsPrefix(f, wal.frames))}
      PROVE  IInv'
  <2>1. frames \in Seq(Frame) /\ wal.frames \in Seq(Frame) /\ Len(frames) <= MaxFrame
    BY <1>1 DEF Typed, LogType
  <2>2. wal' \in [salt : Nat, frames : Seq(Frame)] /\ wal'.frames = frames
    BY <1>1, <1>6, <2>1 DEF Typed, LogType
  <2>3. frames \in walDisk' /\ walDisk' \subseteq walDisk
    BY <1>6 DEF IsStrictPrefix
  <2>4. LogType' /\ ShmType' /\ FileType' /\ txn' = txn
    BY <1>1, <2>2, <2>3 DEF Typed, LogType, ShmType, FileType, file
  <2>5. K.writeLock = TRUE
    BY <1>1, <1>6, ClosingLocks DEF Closing
  <2>6. shm.hdr[1].mxFrame <= K.hdr.mxFrame /\ K.hdr.mxFrame \in Nat /\ shm.hdr[1].mxFrame \in Nat
    BY <1>1, <1>6, <2>5, ConnFields, ShmFields DEF Agrees, Writer, Closing, Typed
  <2>7. \A k \in 1..Len(frames) : k \in DOMAIN wal.frames /\ wal.frames[k] = frames[k]
    <3>1. IsPrefix(frames, wal.frames)
      BY <1>6 DEF IsStrictPrefix
    <3>2. Len(frames) <= Len(wal.frames) /\ \A k \in 1..Len(frames) : frames[k] = wal.frames[k]
      BY <2>1, <3>1, LenProperties DEF IsPrefix
    <3> QED
      BY <2>1, <3>2, LenProperties
  <2>8. conn'[c] = N /\ \A d \in Conns \ {c} : conn'[d] = conn[d]
    BY <1>1, <1>2 DEF Become, Typed
  <2>9. Header'
    <3>1. (\E d \in Conns : conn'[d].on) => \E d \in Conns : conn[d].on
      BY <1>3, <2>8
    <3>2. (\A d \in Conns : conn'[d].at # "restart3") => \A d \in Conns : conn[d].at # "restart3"
      BY <1>1, <2>8
    <3>3. ASSUME NEW m, m = shm.hdr[1].mxFrame, Committed(m)
          PROVE  Committed(m)'
      <4>1. CASE m = 0
        BY <4>1 DEF Committed
      <4>2. CASE m # 0
        <5>1. m \in 1..Len(frames) /\ DOMAIN frames = 1..Len(frames)
          BY <1>6, <2>1, <2>6, <3>3, <4>2, LenProperties
        <5> QED
          BY <2>2, <2>7, <3>3, <4>2, <5>1 DEF Committed
      <4> QED
        BY <4>1, <4>2
    <3> QED
      BY <1>1, <3>1, <3>2, <3>3 DEF IInv, Header, Committed
  <2>10. Writer(N)' /\ Reader(N)' /\ Behind(N)'
    BY <1>4 DEF Agrees
  <2>11. \A d \in Conns \ {c} : Reads(conn[d]) =>
             shm'.nBackfill <= conn[d].hdr.mxFrame /\ shm'.mark[conn[d].readLock] = shm.mark[conn[d].readLock]
    BY <1>1, Known DEF Agrees, Reader
  <2>12. \A d \in Conns \ {c} : conn[d].at \in {"start"} \union Copying => conn[d].hdr.mxFrame <= shm'.hdr[1].mxFrame
    BY <1>1, Known DEF Agrees, Behind
  <2> QED
    BY <1>1, <1>2, <1>4, <2>4, <2>5, <2>9, <2>10, <2>11, <2>12, WriterMoves
<1> QED
  BY <1>5, <1>6 DEF Crash, At

\* After a power failure the index is made anew.
LEMMA PowerFailsStep ==
  ASSUME IInv, PowerFails
  PROVE  IInv'
<1>1. Typed /\ UNCHANGED << shm, txn >> /\ conn' = [c \in Conns |-> Closed]
  BY DEF PowerFails, IInv
<1>2. PICK N \in Conn : N = Closed
  BY FreshType
<1>3. N.at = "idle" /\ N.readLock = -1 /\ N.exRead = {} /\ N.writeLock = FALSE /\ N.ckptLock = FALSE /\ N.written = {} /\ ~N.on
  BY <1>2, FreshType DEF Closed, Fresh
<1>4. conn' \in [Conns -> Conn] /\ \A c \in Conns : conn'[c] = N
  BY <1>1, <1>2
<1>5. LogType'
  <2>1. PICK frames \in walDisk : wal' = [wal EXCEPT !.frames = frames] /\ walDisk' = {frames}
    BY DEF PowerFails
  <2> QED
    BY <1>1, <2>1 DEF Typed, LogType
<1>6. FileType'
  <2>1. PICK f \in [Pages -> UNION {Outcomes(dbDisk[p]) : p \in Pages}] :
          (\A p \in Pages : f[p] \in Outcomes(dbDisk[p])) /\ db' = f /\ dbDisk' = [p \in Pages |-> {f[p]}]
    BY DEF PowerFails
  <2>2. \A p \in Pages : Outcomes(dbDisk[p]) \subseteq 0..Garbage
    BY <1>1, WalAssumption DEF Typed, FileType, Outcomes, Garbage
  <2>3. \A p \in Pages : f[p] \in 0..Garbage
    BY <2>1, <2>2
  <2>4. f \in [Pages -> 0..Garbage]
    BY <2>1, <2>3
  <2> QED
    BY <2>1, <2>3, <2>4 DEF FileType
<1>7. Typed'
  BY <1>1, <1>4, <1>5, <1>6 DEF Typed, ShmType
<1>8. Header'
  BY <1>3, <1>4 DEF Header
<1>9. Alone(N) /\ Agrees(N)' /\ Pair(N, N)
  BY <1>3, IdleHolds, IdleExcludes
<1>10. \A c \in Conns : Agrees(conn[c])'
  BY <1>4, <1>9 DEF Agrees, Writer, Reader, Behind, Committed
<1> QED
  BY <1>4, <1>7, <1>8, <1>9, <1>10 DEF IInv

-----------------------------------------------------------------------------
LEMMA Initially ==
  ASSUME Init
  PROVE  IInv
<1>1. PICK N \in Conn : N = Fresh
  BY FreshType
<1>2. N.at = "idle" /\ N.readLock = -1 /\ N.exRead = {} /\ N.writeLock = FALSE /\ N.ckptLock = FALSE /\ N.written = {}
  BY <1>1, FreshType
<1>3. conn \in [Conns -> Conn] /\ \A c \in Conns : conn[c] = N
  BY <1>1 DEF Init
<1>4. ShmType /\ shm.hdr[1].mxFrame = 0 /\ shm.nBackfill = 0
  BY NoShmType DEF Init, ShmType
<1>5. LogType
  <2>1. << >> \in Seq(Frame) /\ Len(<< >>) = 0
    BY EmptySeq
  <2> QED
    BY <2>1, WalAssumption DEF Init, LogType
<1>6. FileType /\ txn \in 0..MaxTxn
  BY WalAssumption DEF Init, FileType, Garbage
<1>7. Header
  BY <1>4 DEF Header, Committed
<1>8. Alone(N) /\ Agrees(N) /\ Pair(N, N)
  BY <1>2, IdleHolds, IdleExcludes
<1> QED
  BY <1>3, <1>4, <1>5, <1>6, <1>7, <1>8 DEF IInv, Typed

LEMMA InductiveStep ==
  ASSUME IInv, [Next]_vars, "race" \notin Troubles, "halfRestart" \notin Troubles
  PROVE  IInv'
<1>1. CASE UNCHANGED vars
  <2>1. UNCHANGED << conn, shm, wal, walDisk, db, dbDisk, txn >>
    BY <1>1 DEF vars, log, file, history
  <2>2. Typed'
    BY <2>1 DEF IInv, Typed, ShmType, LogType, FileType
  <2>3. Header' /\ \A c \in Conns : Agrees(conn[c])'
    BY <2>1 DEF IInv, Header, Agrees, Writer, Reader, Behind, Committed
  <2> QED
    BY <2>1, <2>2, <2>3 DEF IInv
<1>2. ASSUME NEW c \in Conns, BeginRead(c) \/ BeginCkpt(c) \/ TryAgain(c)
      PROVE  IInv'
  BY <1>2, HeaderSteps
<1>3. ASSUME NEW c \in Conns, Recover(c) \/ Recover2(c) \/ Recover3(c)
      PROVE  IInv'
  BY <1>3, RecoverStep, Recover2Step, Recover3Step
<1>4. ASSUME NEW c \in Conns, Pick(c) \/ Mark(c) \/ SetMark(c) \/ LockMark(c) \/ CheckMark(c) \/ EndRead(c)
      PROVE  IInv'
  BY <1>4, PickStep, MarkStep, SetMarkStep, LockMarkStep, CheckMarkStep, EndReadStep
<1>5. ASSUME NEW c \in Conns, BeginWrite(c) \/ Restart(c) \/ Restart2(c) \/ Restart3(c)
      PROVE  IInv'
  BY <1>5, BeginWriteStep, RestartStep, Restart2Step, Restart3Step
<1>6. ASSUME NEW c \in Conns, WriteFrames(c) \/ AppendIndex(c) \/ Publish(c) \/ Publish2(c) \/ Rollback(c)
      PROVE  IInv'
  BY <1>6, WriteFramesStep, AppendIndexStep, PublishStep, Publish2Step, RollbackStep
<1>7. ASSUME NEW c \in Conns, CkptStart(c) \/ CkptReadMark(c) \/ CkptLockMark(c) \/ CkptCopyLock(c) \/ CkptDone(c)
      PROVE  IInv'
  BY <1>7, CkptStartStep, CkptReadMarkStep, CkptLockMarkStep, CkptCopyLockStep, CkptDoneStep
<1>8. ASSUME NEW c \in Conns, Open(c) \/ Crash(c)
      PROVE  IInv'
  BY <1>8, OpenStep, CrashStep
<1> QED
  BY <1>1, <1>2, <1>3, <1>4, <1>5, <1>6, <1>7, <1>8, CopyStep, FramesStep, PowerFailsStep DEF Next

LEMMA IInvHolds ==
  ASSUME "race" \notin Troubles, "halfRestart" \notin Troubles
  PROVE  Spec => []IInv
<1>1. Init => IInv
  BY Initially
<1>2. IInv /\ [Next]_vars => IInv'
  BY InductiveStep
<1> QED
  BY <1>1, <1>2, PTL DEF Spec

\* Any number of connections agree on the shape of the files and of the index they share, and hold
\* at each of their steps the locks that wal.c takes for it.
THEOREM WalTypeCorrect ==
  ASSUME "race" \notin Troubles, "halfRestart" \notin Troubles
  PROVE  Spec => []TypeOK
<1>1. ASSUME IInv, NEW c \in Conns
      PROVE  LET K == conn[c]
             IN  /\ K.at \in Steps /\ K.hdr.mxFrame \in 0..MaxFrame
                 /\ K.at \in {"read", "check", "frame", "append", "publish", "publish2"} <=> K.readLock >= 0 /\ K.at \notin {"restart", "restart2", "restart3"}
                 /\ K.at \in {"restart2", "restart3"} => K.exRead = Marks /\ K.readLock = 0
                 /\ K.at = "copy" <=> K.exRead = {0}
                 /\ K.written # {} => K.writeLock
                 /\ K.ckptLock => ~K.writeLock \/ Recovering(c)
  <2> DEFINE K == conn[c]
  <2>1. K \in Conn /\ Locks(K) /\ 1 \in Marks /\ 0 \notin Marks
    BY <1>1, Known, MarksType DEF Alone
  <2>2. K.at \in Steps /\ K.hdr.mxFrame \in 0..MaxFrame
    BY <2>1, ConnFields
  <2>3. K.at \in {"read", "check", "frame", "append", "publish", "publish2"} <=> K.readLock >= 0 /\ K.at \notin {"restart", "restart2", "restart3"}
    BY <2>1 DEF Locks, Closing, Restarting
  <2>4. K.at \in {"restart2", "restart3"} => K.exRead = Marks /\ K.readLock = 0
    BY <2>1 DEF Locks, Held, Recovery, Restarting
  <2>5. K.at = "copy" <=> K.exRead = {0}
    BY <2>1 DEF Locks, Held, Recovery
  <2>6. (K.written # {} => K.writeLock) /\ (K.ckptLock => ~K.writeLock \/ Recovering(c))
    BY <2>1 DEF Locks, Recovering, Recovery, Choosing, Closing, Restarting, Copying
  <2> QED
    BY <2>2, <2>3, <2>4, <2>5, <2>6
<1>2. ASSUME IInv
      PROVE  wal.frames \in walDisk /\ \A p \in Pages : db[p] \in dbDisk[p] /\ db[p] \in 0..Garbage
  BY <1>2 DEF IInv, Typed, LogType, FileType
<1>3. ASSUME IInv
      PROVE  shm.nBackfill \in 0..MaxFrame /\ \A i \in Marks : shm.mark[i] \in 0..NoMark
  BY <1>3, ShmFields DEF IInv, Typed, Frames0
<1>4. IInv => TypeOK
  BY <1>1, <1>2, <1>3 DEF TypeOK
<1> QED
  BY <1>4, IInvHolds, PTL

\* walCheckpoint never goes beyond the snapshot of a connection that reads the log, whatever the
\* order in which readers choose their marks, writers restart the log and processes die.
THEOREM BackfillWaits ==
  ASSUME "race" \notin Troubles, "halfRestart" \notin Troubles
  PROVE  Spec => []BackfillWaitsForReaders
<1>1. IInv => BackfillWaitsForReaders
  <2> SUFFICES ASSUME IInv, NEW c \in Conns, At(c, "read"), conn[c].readLock > 0
               PROVE  shm.nBackfill <= conn[c].hdr.mxFrame /\ shm.mark[conn[c].readLock] <= conn[c].hdr.mxFrame
    BY DEF BackfillWaitsForReaders
  <2>1. Reader(conn[c]) /\ Reads(conn[c])
    BY Known DEF Agrees, Reads, At
  <2> QED
    BY <2>1 DEF Reader
<1> QED
  BY <1>1, IInvHolds, PTL

\* As long as no restart goes wrong and somebody has the index open, what the comment on nBackfill
\* says is true.
THEOREM BackfillStaysWithinLog ==
  ASSUME "race" \notin Troubles, "halfRestart" \notin Troubles
  PROVE  Spec => []((\E c \in Conns : conn[c].on) => BackfillWithinLog)
<1>1. IInv => ((\E c \in Conns : conn[c].on) => BackfillWithinLog)
  BY DEF IInv, Header, BackfillWithinLog
<1> QED
  BY <1>1, IInvHolds, PTL

-----------------------------------------------------------------------------
(* What the log, its index, the database file and the caches contain.       *)

\* The header that everybody goes by; there is one as long as a connection is open that has read it.
Public == shm.hdr[1]
Opened == \E c \in Conns : conn[c].on
Live == Opened /\ Public.isInit

\* The largest frame number of a page among the first n frames of a log.
IsLast(frames, n, p, k) ==
  k \in 1..n /\ frames[k].pg = p /\ \A j \in (k + 1)..n : frames[j].pg # p

-----------------------------------------------------------------------------
(* What the connections share.                                             *)

\* The index knows the first n frames.
Shown(n) == n <= Len(wal.frames) /\ \A k \in 1..n : shm.index[k] = {wal.frames[k].pg}

\* It has no gaps, so that a frame in the way of a new one is noticed.
Contiguous ==
  /\ DOMAIN shm.index = 1..MaxFrame
  /\ \E m \in 0..MaxFrame : \A k \in 1..MaxFrame : shm.index[k] # {} <=> k <= m

\* The header is one of this log, or of the next one, which has not been begun.
Epoch ==
  /\ wal.salt = 0 => walDisk = {<< >>}
  /\ Live =>
       /\ Shown(Public.mxFrame)
       /\ Public.mxFrame > 0 => Public.salt = wal.salt
       /\ Public.salt <= wal.salt \/ (Public.mxFrame = 0 /\ shm.hdr[2] = Public)
  /\ Opened /\ ~Public.isInit => Public = NoHdr /\ shm.nBackfill = 0

\* A page that has no frame beyond nBackfill is in the database file as the log has it.
Copied ==
  Opened =>
    \A p \in Pages : \A k \in 1..shm.nBackfill :
      IsLast(wal.frames, Public.mxFrame, p, k) => db[p] = wal.frames[k].val

\* A page whose place in the database file a power failure may spoil is in the log, on the disk.
Doubtful(p) == dbDisk[p] # {db[p]} \/ db[p] = Garbage
Covers(frames, p) == \E n \in Commits(frames) : \E k \in 1..n : frames[k].pg = p

Doubts ==
  \A p \in Pages :
    Doubtful(p) =>
      /\ \A f \in walDisk : Covers(f, p)
      /\ Live => \E k \in 1..Public.mxFrame : wal.frames[k].pg = p

\* A log that may be restarted is in the database file, on the disk.
Synced == Live /\ shm.nBackfill >= Public.mxFrame => \A p \in Pages : dbDisk[p] = {db[p]}

\* Nobody has written what is to come.
Past ==
  /\ \A f \in walDisk : \A k \in 1..Len(f) : f[k].val <= txn
  /\ \A p \in Pages : \A v \in dbDisk[p] : v <= txn \/ v = Garbage

-----------------------------------------------------------------------------
(* What each of them knows.                                                *)

NotAfter(h, g) ==
  h.isInit => g.isInit /\ (h.salt < g.salt \/ (h.salt = g.salt /\ h.mxFrame <= g.mxFrame))

\* Headers only go forward, and only a writer is ahead of the public one.
Knows(K) ==
  /\ K.on /\ K.at \notin {"idle", "bad"} => K.hdr.isInit
  /\ ~K.writeLock => NotAfter(K.hdr, Public)

Owns(K) == K.writeLock /\ K.at \notin Recovery
Announces(K) == K.at \in {"publish", "publish2"}

\* How far its own frames reach.
Top(K) == IF K.at = "append" THEN Len(wal.frames) ELSE K.hdr.mxFrame

\* The header of a writer, ...
Leads(K) ==
  /\ Public.isInit /\ Shown(K.hdr.mxFrame) /\ Public.salt <= K.hdr.salt
  /\ K.hdr.mxFrame > 0 \/ K.at = "append" \/ Announces(K) => K.hdr.salt = wal.salt
  /\ Announces(K) => Public.mxFrame < K.hdr.mxFrame /\ walDisk = {wal.frames} /\ Len(wal.frames) = K.hdr.mxFrame

\* ... its frames, which have one stamp and no commit before the last, ...
OwnFrames(K) ==
  /\ K.written = {wal.frames[k].pg : k \in (Public.mxFrame + 1)..Top(K)}
  /\ K.at = "append" => K.todo = {wal.frames[k].pg : k \in (K.hdr.mxFrame + 1)..Top(K)}
  /\ \A k \in (Public.mxFrame + 1)..Top(K) :
       /\ wal.frames[k].val = K.stamp
       /\ wal.frames[k].commit <=> k = Top(K) /\ ((K.at = "append" /\ K.commit) \/ Announces(K))

\* ... and that stamp, which nobody has seen.
NewStamp(K) ==
  /\ K.at # "read" \/ K.written # {} => K.stamp # 0
  /\ K.stamp # 0 =>
       /\ K.stamp = txn
       /\ \A k \in 1..Public.mxFrame : wal.frames[k].val # txn
       /\ \A p \in Pages : db[p] # txn

Own(K) == IF Owns(K) THEN Leads(K) /\ OwnFrames(K) /\ NewStamp(K) ELSE K.stamp = 0

Recovers(K) ==
  K.at \in Recovery =>
    /\ K.hdr.isInit /\ K.hdr.salt = wal.salt /\ Shown(K.hdr.mxFrame)
    /\ K.hdr.mxFrame = Max(Commits(wal.frames) \union {0})
    /\ NotAfter(Public, K.hdr)

\* What a reader skips of the log is in the database file.
Sees(K) ==
  /\ K.at \in {"check", "read"} \union Closing /\ K.readLock > 0 => K.minFrame \in 1..(shm.nBackfill + 1)
  /\ Reads(K) =>
       /\ \A p \in Pages : \A k \in 1..(K.minFrame - 1) :
            IsLast(wal.frames, K.hdr.mxFrame, p, k) => db[p] = wal.frames[k].val
       /\ ~K.writeLock => K.hdr.mxFrame <= Public.mxFrame
  /\ K.at = "read" /\ K.readLock = 0 /\ K.hdr = Public => shm.nBackfill = Public.mxFrame
  /\ K.at \in {"restart", "restart2"} => shm.nBackfill = Public.mxFrame /\ shm.nBackfill > 0

\* A checkpoint knows the last frame of each page, ...
Finds(K) ==
  K.at \in Copying =>
    \A p \in Pages : IF K.iter[p] = 0 THEN \A k \in 1..K.hdr.mxFrame : wal.frames[k].pg # p
                     ELSE IsLast(wal.frames, K.hdr.mxFrame, p, K.iter[p])

\* ... and has copied what it no longer has to, once the log is on the disk.
InReach(K, p) == shm.nBackfill < K.iter[p] /\ K.iter[p] <= K.safe

Copies(K) ==
  K.at = "copy" =>
    /\ shm.nBackfill < K.safe
    /\ \A p \in K.todo : InReach(K, p)
    /\ \A p \in Pages \ K.todo : InReach(K, p) => db[p] = wal.frames[K.iter[p]].val
    /\ \A f \in walDisk : K.hdr.mxFrame <= Len(f) /\ \A k \in 1..K.hdr.mxFrame : f[k] = wal.frames[k]

Checkpoints(K) ==
  /\ K.changed => K.at \in {"start"} \union Copying
  /\ K.at \in {"start"} \union Copying => Committed(K.hdr.mxFrame)
  /\ Finds(K) /\ Copies(K)

\* A cache that goes with the public header is the database.
Current(K) == Owns(K) \/ (~K.writeLock /\ ~K.changed /\ K.hdr = Public)

Cached(K) == K.cache # NotCached /\ Public.isInit /\ Current(K) => K.cache = Overlay(wal.frames, Public.mxFrame)

Data(K) == Knows(K) /\ Own(K) /\ Recovers(K) /\ Sees(K) /\ Checkpoints(K) /\ Cached(K)

Shared == Contiguous /\ Epoch /\ Copied /\ Doubts /\ Synced /\ Past

DInv == Shared /\ \A c \in Conns : conn[c].on => Data(conn[c])

-----------------------------------------------------------------------------
(* The database that the first n frames of a log amount to.                *)

\* Overlay, with the database file as an argument.
Apply(frames, n, base) ==
  [p \in Pages |-> LET fs == {k \in 1..n : k \in DOMAIN frames /\ frames[k].pg = p}
                   IN  IF fs = {} THEN base[p] ELSE frames[Max(fs)].val]

LEMMA OverlayIsApply == \A frames, n : Overlay(frames, n) = Apply(frames, n, db)
BY DEF Overlay, Apply

\* A page has a last frame or none.
LEMMA SomeLast ==
  ASSUME NEW f \in Seq(Frame), NEW n \in Nat, n <= Len(f), NEW p
  PROVE  (\E k \in 1..n : IsLast(f, n, p, k)) \/ (\A k \in 1..n : f[k].pg # p)
<1> DEFINE S == {k \in 1..n : f[k].pg = p}
<1>1. CASE S = {}
  BY <1>1
<1>2. CASE S # {}
  <2>1. S \in SUBSET (0..n)
    OBVIOUS
  <2>2. PICK m \in S : \A y \in S : y <= m
    BY <1>2, <2>1, MaxIsGreatest
  <2>3. \A j \in (m + 1)..n : j \notin S /\ j \in 1..n
    BY <2>2
  <2> QED
    BY <2>2, <2>3 DEF IsLast
<1> QED
  BY <1>1, <1>2

LEMMA ApplyIs ==
  ASSUME NEW f \in Seq(Frame), NEW n \in Nat, n <= Len(f), NEW base, NEW p \in Pages
  PROVE  /\ (\A k \in 1..n : f[k].pg # p) => Apply(f, n, base)[p] = base[p]
         /\ \A k : IsLast(f, n, p, k) => Apply(f, n, base)[p] = f[k].val
<1> DEFINE S == {k \in 1..n : k \in DOMAIN f /\ f[k].pg = p}
<1>1. Apply(f, n, base)[p] = IF S = {} THEN base[p] ELSE f[Max(S)].val
  BY DEF Apply
<1>2. \A k \in 1..n : k \in DOMAIN f
  BY LenProperties
<1>3. ASSUME NEW k, IsLast(f, n, p, k)
      PROVE  S # {} /\ Max(S) = k
  <2>1. k \in S /\ S \in SUBSET (0..n) /\ k \in Nat
    BY <1>2, <1>3 DEF IsLast
  <2>2. PICK m \in 1..n : m = Max(S) /\ m \in S /\ k <= m
    BY <2>1, MaxIsGreatest
  <2>3. m \notin (k + 1)..n
    BY <1>3, <2>2 DEF IsLast
  <2>4. m = k
    BY <2>1, <2>2, <2>3
  <2> QED
    BY <2>1, <2>2, <2>4
<1>4. (\A k \in 1..n : f[k].pg # p) => S = {}
  OBVIOUS
<1> HIDE DEF S
<1> QED
  BY <1>1, <1>3, <1>4

\* Two logs begin with the same n frames.
SameStart(f, g, n) == n <= Len(f) /\ n <= Len(g) /\ \A k \in 1..n : f[k] = g[k]

\* Two database files differ in pages only that the first n frames have.
Hides(f, n, b1, b2) == \A p \in Pages : b1[p] = b2[p] \/ \E k \in 1..n : f[k].pg = p

\* It depends on these frames, and on the file only for pages that have none.
LEMMA ApplySame ==
  ASSUME NEW f \in Seq(Frame), NEW g \in Seq(Frame), NEW n \in Nat, SameStart(f, g, n),
         NEW b1, NEW b2, Hides(f, n, b1, b2)
  PROVE  Apply(f, n, b1) = Apply(g, n, b2)
<1>0. n <= Len(f) /\ n <= Len(g) /\ (\A k \in 1..n : f[k] = g[k]) /\ \A p \in Pages : b1[p] = b2[p] \/ \E k \in 1..n : f[k].pg = p
  BY DEF SameStart, Hides
<1>1. ASSUME NEW p \in Pages
      PROVE  Apply(f, n, b1)[p] = Apply(g, n, b2)[p]
  <2>1. CASE \E k \in 1..n : IsLast(f, n, p, k)
    <3>1. PICK k \in 1..n : IsLast(f, n, p, k)
      BY <2>1
    <3>2. IsLast(g, n, p, k) /\ f[k].val = g[k].val
      BY <1>0, <3>1 DEF IsLast
    <3>3. Apply(f, n, b1)[p] = f[k].val /\ Apply(g, n, b2)[p] = g[k].val
      BY <1>0, <3>1, <3>2, ApplyIs
    <3> QED
      BY <3>2, <3>3
  <2>2. CASE \A k \in 1..n : f[k].pg # p
    <3>1. (\A k \in 1..n : g[k].pg # p) /\ b1[p] = b2[p]
      BY <1>0, <2>2
    <3>2. Apply(f, n, b1)[p] = b1[p] /\ Apply(g, n, b2)[p] = b2[p]
      BY <1>0, <2>2, <3>1, ApplyIs
    <3> QED
      BY <3>1, <3>2
  <2>3. PICK len \in Nat : len = Len(f) /\ n <= len
    BY <1>0, LenProperties
  <2>4. (\E k \in 1..n : IsLast(f, n, p, k)) \/ (\A k \in 1..n : f[k].pg # p)
    <3> HIDE <1>0
    <3> QED
      BY <2>3, SomeLast, Zenon
  <2> QED
    BY <2>1, <2>2, <2>4
<1>2. Apply(f, n, b1) = [p \in Pages |-> Apply(f, n, b1)[p]] /\ Apply(g, n, b2) = [p \in Pages |-> Apply(g, n, b2)[p]]
  BY DEF Apply
<1> QED
  BY <1>1, <1>2

LEMMA SameLog ==
  ASSUME NEW f \in Seq(Frame), NEW g \in Seq(Frame), NEW n \in Nat, SameStart(f, g, n), NEW base
  PROVE  Apply(f, n, base) = Apply(g, n, base)
<1>1. Hides(f, n, base, base)
  BY DEF Hides
<1> QED
  BY <1>1, ApplySame

\* Some more frames, on top of what was there.
LEMMA ApplyMore ==
  ASSUME NEW f \in Seq(Frame), NEW m \in Nat, NEW n \in Nat, m <= n, n <= Len(f), NEW base, NEW p \in Pages
  PROVE  \/ \E k \in (m + 1)..n : f[k].pg = p /\ Apply(f, n, base)[p] = f[k].val
         \/ (\A k \in (m + 1)..n : f[k].pg # p) /\ Apply(f, n, base)[p] = Apply(f, m, base)[p]
<1>1. CASE \A k \in 1..n : f[k].pg # p
  <2>1. (\A k \in 1..m : f[k].pg # p) /\ (\A k \in (m + 1)..n : f[k].pg # p)
    BY <1>1
  <2> QED
    BY <1>1, <2>1, ApplyIs
<1>2. ASSUME NEW k \in 1..n, IsLast(f, n, p, k)
      PROVE  \/ \E j \in (m + 1)..n : f[j].pg = p /\ Apply(f, n, base)[p] = f[j].val
             \/ (\A j \in (m + 1)..n : f[j].pg # p) /\ Apply(f, n, base)[p] = Apply(f, m, base)[p]
  <2>1. Apply(f, n, base)[p] = f[k].val
    BY <1>2, ApplyIs
  <2>2. CASE k > m
    <3>1. k \in (m + 1)..n /\ f[k].pg = p
      BY <1>2, <2>2 DEF IsLast
    <3> QED
      BY <2>1, <3>1
  <2>3. CASE k <= m
    <3>1. IsLast(f, m, p, k)
      BY <1>2, <2>3 DEF IsLast
    <3>2. ASSUME NEW j \in (m + 1)..n
          PROVE  f[j].pg # p
      <4>1. j \in (k + 1)..n
        BY <2>3
      <4> QED
        BY <1>2, <4>1 DEF IsLast
    <3>3. m <= Len(f)
      BY LenProperties
    <3>4. Apply(f, m, base)[p] = f[k].val
      BY <3>1, <3>3, ApplyIs
    <3> QED
      BY <2>1, <3>2, <3>4
  <2> QED
    BY <2>2, <2>3
<1> QED
  BY <1>1, <1>2, SomeLast

\* What a reader of the log finds is the database of its header.
LEMMA LookupIs ==
  ASSUME NEW K, NEW p \in Pages, wal.frames \in Seq(Frame), K.hdr.mxFrame \in Nat, K.minFrame \in Nat \ {0},
         Shown(K.hdr.mxFrame), K.readLock # 0,
         \A k \in 1..(K.minFrame - 1) : IsLast(wal.frames, K.hdr.mxFrame, p, k) => db[p] = wal.frames[k].val
  PROVE  Lookup(K, p) = Apply(wal.frames, K.hdr.mxFrame, db)[p]
<1> DEFINE F == wal.frames
           mx == K.hdr.mxFrame
           S == {k \in K.minFrame..mx : p \in shm.index[k]}
<1>1. Lookup(K, p) = IF S = {} THEN db[p] ELSE IF Max(S) \in DOMAIN F THEN F[Max(S)].val ELSE Garbage
  BY DEF Lookup
<1>2. mx <= Len(F) /\ \A k \in K.minFrame..mx : k \in 1..mx /\ (p \in shm.index[k] <=> F[k].pg = p)
  BY DEF Shown
<1>3. (\E k \in 1..mx : IsLast(F, mx, p, k)) \/ (\A k \in 1..mx : F[k].pg # p)
  BY <1>2, SomeLast
<1>4. CASE \A k \in 1..mx : F[k].pg # p
  <2>1. S = {}
    BY <1>2, <1>4
  <2>2. Apply(F, mx, db)[p] = db[p]
    BY <1>2, <1>4, ApplyIs
  <2> QED
    BY <1>1, <2>1, <2>2
<1>5. ASSUME NEW k \in 1..mx, IsLast(F, mx, p, k)
      PROVE  Lookup(K, p) = Apply(F, mx, db)[p]
  <2>1. Apply(F, mx, db)[p] = F[k].val
    BY <1>2, <1>5, ApplyIs
  <2>2. CASE k < K.minFrame
    <3>1. S = {}
      <4>1. ASSUME NEW j \in S
            PROVE  FALSE
        <5>1. j \in (k + 1)..mx /\ F[j].pg = p
          BY <1>2, <2>2
        <5> QED
          BY <1>5, <5>1 DEF IsLast
      <4> QED
        BY <4>1
    <3>2. db[p] = F[k].val
      BY <1>5, <2>2
    <3> QED
      BY <1>1, <2>1, <3>1, <3>2
  <2>3. CASE k >= K.minFrame
    <3>1. k \in S /\ S \in SUBSET (0..mx)
      BY <1>2, <1>5, <2>3 DEF IsLast
    <3>2. PICK m \in 1..mx : m = Max(S) /\ m \in S /\ k <= m
      BY <1>2, <3>1, MaxIsGreatest
    <3>3. m \notin (k + 1)..mx
      BY <1>2, <1>5, <3>2 DEF IsLast
    <3>4. m = k
      BY <3>2, <3>3
    <3>5. k \in DOMAIN F
      BY <1>2, LenProperties
    <3> QED
      BY <1>1, <2>1, <3>1, <3>2, <3>4, <3>5
  <2> QED
    BY <2>2, <2>3
<1> QED
  BY <1>3, <1>4, <1>5

-----------------------------------------------------------------------------
(* What a step of one connection leaves of the invariant.                  *)

\* Nothing but the second copy of the header, the marks and the connections has changed.
Still == shm'.hdr[1] = shm.hdr[1] /\ shm'.nBackfill = shm.nBackfill /\ shm'.index = shm.index /\ UNCHANGED << log, file, txn >>

LEMMA OwnStays ==
  ASSUME Still, NEW K
  PROVE  Own(K)' <=> Own(K)
<1>1. /\ shm'.hdr[1] = shm.hdr[1] /\ shm'.nBackfill = shm.nBackfill /\ shm'.index = shm.index
      /\ wal' = wal /\ walDisk' = walDisk /\ db' = db /\ txn' = txn
  BY DEF Still, log, file
<1>2. Leads(K)' <=> Leads(K)
  BY <1>1 DEF Leads, Public, Shown, Announces
<1>3. OwnFrames(K)' <=> OwnFrames(K)
  BY <1>1 DEF OwnFrames, Public, Announces, Top
<1>4. NewStamp(K)' <=> NewStamp(K)
  BY <1>1 DEF NewStamp, Public
<1> QED
  BY <1>2, <1>3, <1>4 DEF Own, Owns

LEMMA DataStays ==
  ASSUME Still, NEW K
  PROVE  Data(K)' <=> Data(K)
<1>1. /\ shm'.hdr[1] = shm.hdr[1] /\ shm'.nBackfill = shm.nBackfill /\ shm'.index = shm.index
      /\ wal' = wal /\ walDisk' = walDisk /\ db' = db /\ txn' = txn
  BY DEF Still, log, file
<1>2. Knows(K)' <=> Knows(K)
  BY <1>1 DEF Knows, Public
<1>3. Recovers(K)' <=> Recovers(K)
  BY <1>1 DEF Recovers, Public, Shown
<1>4. Sees(K)' <=> Sees(K)
  BY <1>1 DEF Sees, Public
<1>5. Checkpoints(K)' <=> Checkpoints(K)
  BY <1>1 DEF Checkpoints, Finds, Copies, InReach, Committed
<1>6. Cached(K)' <=> Cached(K)
  BY <1>1 DEF Cached, Current, Public, Overlay
<1> QED
  BY <1>2, <1>3, <1>4, <1>5, <1>6, OwnStays DEF Data

LEMMA SharedStays ==
  ASSUME Shared, Still, Opened' => Opened, shm'.hdr = shm.hdr \/ Epoch'
  PROVE  Shared'
<1>1. /\ shm'.hdr[1] = shm.hdr[1] /\ shm'.nBackfill = shm.nBackfill /\ shm'.index = shm.index
      /\ wal' = wal /\ walDisk' = walDisk /\ db' = db /\ dbDisk' = dbDisk /\ txn' = txn
  BY DEF Still, log, file
<1>2. Public' = Public /\ (Live' => Live)
  BY <1>1 DEF Public, Live
<1>3. Contiguous' /\ Past'
  BY <1>1 DEF Shared, Contiguous, Past
<1>4. Epoch'
  BY <1>1, <1>2 DEF Shared, Epoch, Shown
<1>5. Copied'
  BY <1>1, <1>2 DEF Shared, Copied
<1>6. Doubts' /\ Synced'
  BY <1>1, <1>2 DEF Shared, Doubts, Doubtful, Synced
<1> QED
  BY <1>3, <1>4, <1>5, <1>6 DEF Shared

LEMMA Quiet ==
  ASSUME DInv, Typed, NEW c \in Conns, NEW N, Become(c, N), Still, shm'.hdr = shm.hdr \/ Epoch', N.on => conn[c].on, Data(N)
  PROVE  DInv'
<1>1. conn'[c] = N /\ \A d \in Conns \ {c} : conn'[d] = conn[d]
  BY DEF Become, Typed
<1>2. Opened' => Opened
  BY <1>1 DEF Opened
<1>3. Shared'
  BY <1>2, SharedStays DEF DInv
<1>4. \A d \in Conns : conn'[d].on => Data(conn'[d])
  BY <1>1 DEF DInv
<1>5. \A d \in Conns : Data(conn'[d]) => Data(conn[d])'
  BY DataStays
<1> QED
  BY <1>3, <1>4, <1>5 DEF DInv

-----------------------------------------------------------------------------
(* Connections without a transaction.                                      *)

LEMMA Facts ==
  ASSUME IInv, DInv, NEW c \in Conns
  PROVE  /\ Typed /\ ShmType /\ Shared
         /\ conn[c] \in Conn /\ Alone(conn[c]) /\ Agrees(conn[c]) /\ (conn[c].on => Data(conn[c]))
         /\ \A d \in Conns \ {c} : conn[d] \in Conn /\ Alone(conn[d]) /\ Agrees(conn[d]) /\ Pair(conn[c], conn[d])
         /\ \A d \in Conns : conn[d].on => Data(conn[d])
BY Known DEF DInv, IInv, Typed

Fits(cache, hdr) ==
  cache # NotCached /\ Public.isInit /\ hdr = Public => cache = Overlay(wal.frames, Public.mxFrame)

LEMMA RestingData ==
  ASSUME NEW N, N.at \in Resting, N.writeLock = FALSE, N.changed = FALSE, N.stamp = 0, N.readLock = -1,
         Knows(N), Fits(N.cache, N.hdr)
  PROVE  Data(N)
<1>1. N.at \notin {"check", "read", "start", "copy", "restart", "restart2"} \union Recovery \union Closing \union Copying
  BY DEF Resting, Recovery, Closing, Copying
<1>2. Own(N) /\ Recovers(N)
  BY <1>1 DEF Own, Owns, Recovers
<1>3. Sees(N) /\ Checkpoints(N)
  BY <1>1 DEF Sees, Reads, Checkpoints, Finds, Copies
<1>4. Cached(N)
  BY DEF Cached, Current, Owns, Fits
<1> QED
  BY <1>2, <1>3, <1>4 DEF Data

\* What a connection without a transaction has.
LEMMA RestingFields ==
  ASSUME NEW K \in Conn, Alone(K), Data(K), K.at \in {"idle", "bad", "pick"}
  PROVE  /\ K.writeLock = FALSE /\ K.readLock = -1 /\ K.changed = FALSE /\ K.stamp = 0
         /\ NotAfter(K.hdr, Public) /\ Fits(K.cache, K.hdr)
<1>1. K.writeLock = FALSE /\ K.readLock = -1 /\ K.changed \in BOOLEAN
  BY AtRest DEF Conn
<1>2. K.changed = FALSE
  BY <1>1 DEF Data, Checkpoints, Copying
<1> QED
  BY <1>1, <1>2 DEF Data, Own, Owns, Knows, Cached, Current, Fits

LEMMA LeftFields ==
  ASSUME NEW K \in Conn
  PROVE  /\ Left(K).hdr = (IF K.cache = NotCached THEN NoHdr ELSE K.hdr) /\ Left(K).cache = K.cache
         /\ Left(K).changed = FALSE /\ Left(K).stamp = K.stamp
<1> DEFINE h == IF K.cache = NotCached THEN NoHdr ELSE K.hdr
<1>1. h \in Hdr /\ "idle" \in Steps
  BY RangeTypes, StepNames DEF Conn, Resting
<1> HIDE DEF h
<1>2. PICK L \in Conn : L = [K EXCEPT !.hdr = h, !.at = "idle", !.ckptLock = FALSE, !.readLock = -1, !.mark = 0]
  BY <1>1, RangeTypes DEF Conn
<1>3. PICK M \in Conn : M = [L EXCEPT !.minFrame = 0, !.iter = << >>, !.i = 0, !.safe = 0, !.changed = FALSE]
  BY RangeTypes DEF Conn
<1>4. Left(K) = M
  BY <1>2, <1>3 DEF Left, h
<1>5. L.hdr = h /\ L.cache = K.cache /\ L.stamp = K.stamp
  BY <1>2 DEF Conn
<1>6. M.hdr = L.hdr /\ M.cache = L.cache /\ M.stamp = L.stamp /\ M.changed = FALSE
  BY <1>3 DEF Conn
<1> QED
  BY <1>4, <1>5, <1>6 DEF h

LEMMA LeftData ==
  ASSUME NEW K \in Conn, K.writeLock = FALSE, K.stamp = 0, NotAfter(K.hdr, Public), Fits(K.cache, K.hdr)
  PROVE  Data(Left(K))
<1>1. PICK N \in Conn : N = Left(K)
  BY LeftType
<1>2. /\ N.at = "idle" /\ N.readLock = -1 /\ N.writeLock = FALSE /\ N.stamp = 0 /\ N.changed = FALSE /\ N.cache = K.cache
      /\ N.hdr = IF K.cache = NotCached THEN NoHdr ELSE K.hdr
  BY <1>1, LeftType, LeftFields
<1>3. N.at \in Resting
  BY <1>2 DEF Resting
<1>4. Knows(N)
  <2>1. NotAfter(NoHdr, Public)
    BY DEF NotAfter, NoHdr
  <2> QED
    BY <1>2, <2>1 DEF Knows
<1>5. Fits(N.cache, N.hdr)
  BY <1>2 DEF Fits
<1> QED
  BY <1>1, <1>2, <1>3, <1>4, <1>5, RestingData

\* A checkpoint that has met a new header does not say so, and forgets it.
LEMMA EndedData ==
  ASSUME NEW K \in Conn, K.writeLock = FALSE, K.stamp = 0, NotAfter(K.hdr, Public), K.changed \/ Fits(K.cache, K.hdr)
  PROVE  Data(Ended(K))
<1>1. CASE ~K.changed
  <2>1. Ended(K) = Left(K)
    BY <1>1, LeftType DEF Ended, Conn
  <2> QED
    BY <1>1, <2>1, LeftData
<1>2. CASE K.changed
  <2>1. PICK L \in Conn : L = Left(K)
    BY LeftType
  <2>2. L.at = "idle" /\ L.readLock = -1 /\ L.writeLock = FALSE /\ L.stamp = 0 /\ L.changed = FALSE
    BY <2>1, LeftType, LeftFields
  <2>3. PICK N : N = [L EXCEPT !.hdr = NoHdr] /\ N = Ended(K)
    BY <1>2, <2>1 DEF Ended
  <2>4. N.at = "idle" /\ N.readLock = -1 /\ N.writeLock = FALSE /\ N.stamp = 0 /\ N.changed = FALSE /\ N.hdr = NoHdr
    BY <2>2, <2>3 DEF Conn
  <2>5. N.at \in Resting
    BY <2>4 DEF Resting
  <2>6. Knows(N) /\ Fits(N.cache, N.hdr)
    <3>1. NoHdr.isInit = FALSE
      BY DEF NoHdr
    <3> QED
      BY <2>4, <3>1 DEF Knows, NotAfter, Fits
  <2> QED
    BY <2>3, <2>4, <2>5, <2>6, RestingData
<1> QED
  BY <1>1, <1>2

LEMMA AcceptedFields ==
  ASSUME NEW K \in Conn, NEW hdr \in Hdr
  PROVE  /\ Accepted(K, hdr).changed = (K.ckptLock /\ hdr # K.hdr) /\ Accepted(K, hdr).stamp = K.stamp
         /\ Accepted(K, hdr).cache = IF ~K.ckptLock /\ hdr # K.hdr THEN NotCached ELSE K.cache
         /\ Accepted(K, hdr).writeLock = K.writeLock /\ Accepted(K, hdr).readLock = K.readLock
<1> DEFINE cache == IF ~K.ckptLock /\ hdr # K.hdr THEN NotCached ELSE K.cache
           at == IF K.ckptLock THEN "start" ELSE "pick"
           changed == K.ckptLock /\ hdr # K.hdr
<1>1. cache \in Cache /\ at \in Steps /\ changed \in BOOLEAN
  BY RangeTypes, StepNames DEF Conn, Resting
<1>2. Accepted(K, hdr) = [K EXCEPT !.hdr = hdr, !.changed = changed, !.cache = cache, !.at = at]
  BY DEF Accepted
<1> HIDE DEF cache, at, changed
<1>3. /\ Accepted(K, hdr).changed = changed /\ Accepted(K, hdr).stamp = K.stamp /\ Accepted(K, hdr).cache = cache
      /\ Accepted(K, hdr).writeLock = K.writeLock /\ Accepted(K, hdr).readLock = K.readLock
  BY <1>1, <1>2 DEF Conn
<1> QED
  BY <1>3 DEF cache, changed

LEMMA AcceptedData ==
  ASSUME NEW K \in Conn, ShmType, GoodHdr, Committed(Public.mxFrame),
         K.writeLock = FALSE, K.readLock = -1, K.stamp = 0, Fits(K.cache, K.hdr)
  PROVE  Data(Accepted(K, shm.hdr[1]))
<1>1. Public \in Hdr /\ Public.mxFrame \in Nat /\ Public.isInit /\ Public = shm.hdr[1]
  BY ShmFields DEF GoodHdr, Public, ShmType
<1>2. PICK N \in Conn : N = Accepted(K, shm.hdr[1])
  BY <1>1, AcceptedType
<1>3. /\ N.at = (IF K.ckptLock THEN "start" ELSE "pick") /\ N.hdr = Public
      /\ N.writeLock = FALSE /\ N.readLock = -1 /\ N.stamp = 0 /\ N.changed = (K.ckptLock /\ Public # K.hdr)
      /\ N.cache = IF ~K.ckptLock /\ Public # K.hdr THEN NotCached ELSE K.cache
  BY <1>1, <1>2, AcceptedType, AcceptedFields
<1>4. Knows(N)
  BY <1>1, <1>3 DEF Knows, NotAfter, Hdr
<1>5. N.changed \/ Fits(N.cache, N.hdr)
  BY <1>3 DEF Fits
<1>6. CASE ~K.ckptLock
  <2>1. N.at \in Resting /\ N.changed = FALSE
    BY <1>3, <1>6 DEF Resting
  <2> QED
    BY <1>2, <1>3, <1>4, <1>5, <2>1, RestingData
<1>7. CASE K.ckptLock
  <2>1. N.at = "start" /\ N.at \notin {"check", "read", "copy", "restart", "restart2"} \union Recovery \union Closing \union Copying
    BY <1>3, <1>7 DEF Recovery, Closing, Copying
  <2>2. Own(N) /\ Recovers(N) /\ Sees(N)
    BY <1>3, <2>1 DEF Own, Owns, Recovers, Sees, Reads
  <2>3. Checkpoints(N)
    BY <1>3, <2>1 DEF Checkpoints, Finds, Copies
  <2>4. Cached(N)
    BY <1>3, <1>5 DEF Cached, Current, Owns, Fits
  <2> QED
    BY <1>2, <1>4, <2>2, <2>3, <2>4 DEF Data
<1> QED
  BY <1>6, <1>7

-----------------------------------------------------------------------------
(* Beginning to read.                                                      *)

LEMMA OnlyConnIsStill == UNCHANGED << shm, log, file, history >> => Still /\ shm'.hdr = shm.hdr
BY DEF Still, history

LEMMA OpenHeader ==
  ASSUME IInv, NEW c \in Conns, conn[c].on
  PROVE  Opened /\ Committed(Public.mxFrame)
BY DEF IInv, Header, Opened, Public

LEMMA TriesData ==
  ASSUME IInv, DInv, NEW c \in Conns, BeginRead(c) \/ BeginCkpt(c) \/ TryAgain(c)
  PROVE  DInv'
<1>1. /\ conn[c] \in Conn /\ Alone(conn[c]) /\ Data(conn[c]) /\ Typed /\ ShmType /\ Still /\ shm'.hdr = shm.hdr /\ conn[c].on
      /\ conn[c].at \in {"idle", "bad"}
  BY Facts, OnlyConnIsStill DEF BeginRead, BeginCkpt, TryAgain, At
<1>2. PICK K \in Conn :
        /\ K = conn[c] \/ K = [conn[c] EXCEPT !.ckptLock = TRUE]
        /\ \/ GoodHdr /\ Become(c, Accepted(K, shm.hdr[1]))
           \/ Become(c, [K EXCEPT !.at = "bad"])
           \/ Become(c, Left(K))
  <2>1. [conn[c] EXCEPT !.ckptLock = TRUE] \in Conn
    BY <1>1 DEF Conn
  <2> QED
    BY <1>1, <2>1 DEF BeginRead, BeginCkpt, TryAgain, Tried
<1>3. conn[c].writeLock = FALSE /\ conn[c].readLock = -1 /\ conn[c].changed = FALSE /\ conn[c].stamp = 0
      /\ NotAfter(conn[c].hdr, Public) /\ Fits(conn[c].cache, conn[c].hdr)
  BY <1>1, RestingFields
<1>4. K.writeLock = FALSE /\ K.readLock = -1 /\ K.changed = FALSE /\ K.stamp = 0 /\ NotAfter(K.hdr, Public) /\ Fits(K.cache, K.hdr)
      /\ K.on
  BY <1>1, <1>2, <1>3 DEF Conn
<1>5. CASE GoodHdr /\ Become(c, Accepted(K, shm.hdr[1]))
  BY <1>1, <1>4, <1>5, AcceptedData, OpenHeader, Quiet
<1>6. CASE Become(c, [K EXCEPT !.at = "bad"])
  <2>1. PICK N : N = [K EXCEPT !.at = "bad"]
    OBVIOUS
  <2>2. N.at = "bad" /\ N.writeLock = FALSE /\ N.readLock = -1 /\ N.changed = FALSE /\ N.stamp = 0 /\ N.hdr = K.hdr /\ N.cache = K.cache
    BY <1>4, <2>1 DEF Conn
  <2>3. N.at \in Resting /\ Knows(N) /\ Fits(N.cache, N.hdr)
    BY <1>4, <2>2 DEF Resting, Knows
  <2>4. Data(N)
    BY <2>2, <2>3, RestingData
  <2> QED
    BY <1>1, <1>6, <2>1, <2>4, Quiet
<1>7. CASE Become(c, Left(K))
  BY <1>1, <1>4, <1>7, LeftData, Quiet
<1> QED
  BY <1>2, <1>5, <1>6, <1>7

\* Steps at which only the WRITE lock decides what a connection has to know.
Plain == Choosing \union {"pick", "read", "restart", "frame"}

LEMMA Carries ==
  ASSUME NEW K, NEW N, Data(K), K.at \in Plain, N.at \in Plain, K.at # "read" \/ N.at = "read" \/ ~K.writeLock,
         N.hdr = K.hdr, N.writeLock = K.writeLock, N.changed = K.changed, N.cache = K.cache, N.stamp = K.stamp,
         N.written = K.written, K.on, Sees(N)
  PROVE  Data(N)
<1>1. \A at \in Plain : at \notin {"idle", "bad", "append", "publish", "publish2", "start"} \union Copying \union Recovery
  BY DEF Plain, Choosing, Copying, Recovery
<1>2. Knows(N)
  BY <1>1 DEF Data, Knows
<1>3. Own(N)
  <2>1. CASE ~K.writeLock
    BY <1>1, <2>1 DEF Data, Own, Owns
  <2>2. CASE K.writeLock
    <3>1. Owns(K) /\ Owns(N) /\ ~Announces(K) /\ ~Announces(N) /\ Top(K) = K.hdr.mxFrame /\ Top(N) = K.hdr.mxFrame
      BY <1>1, <2>2 DEF Owns, Announces, Top
    <3>2. Leads(K) /\ OwnFrames(K) /\ NewStamp(K)
      BY <3>1 DEF Data, Own
    <3>3. Leads(N)
      BY <1>1, <3>1, <3>2 DEF Leads
    <3>4. OwnFrames(N)
      BY <1>1, <3>1, <3>2 DEF OwnFrames
    <3>5. NewStamp(N)
      BY <2>2, <3>2 DEF NewStamp
    <3> QED
      BY <3>1, <3>3, <3>4, <3>5 DEF Own
  <2> QED
    BY <2>1, <2>2
<1>4. Recovers(N)
  BY <1>1 DEF Recovers
<1>5. Checkpoints(N)
  BY <1>1 DEF Data, Checkpoints, Finds, Copies, Copying
<1>6. Cached(N)
  BY <1>1 DEF Data, Cached, Current, Owns
<1> QED
  BY <1>2, <1>3, <1>4, <1>5, <1>6 DEF Data

LEMMA PlainFields ==
  ASSUME NEW K \in Conn, Data(K), K.at \in Plain, K.writeLock = FALSE
  PROVE  K.changed = FALSE /\ K.stamp = 0 /\ NotAfter(K.hdr, Public) /\ Fits(K.cache, K.hdr)
<1>1. K.at \notin {"start"} \union Copying /\ K.changed \in BOOLEAN
  BY DEF Conn, Plain, Choosing, Copying
<1>2. K.changed = FALSE
  BY <1>1 DEF Data, Checkpoints
<1> QED
  BY <1>2 DEF Data, Own, Owns, Knows, Cached, Current, Fits

\* A reader without a lock skips nothing yet.
LEMMA SeesNothing ==
  ASSUME NEW N, N.at \in Resting
  PROVE  Sees(N)
<1>1. N.at \notin {"check", "read", "restart", "restart2"} \union Closing
  BY DEF Resting, Closing
<1> QED
  BY <1>1 DEF Sees, Reads

LEMMA PickData ==
  ASSUME IInv, DInv, NEW c \in Conns, Pick(c)
  PROVE  DInv'
<1> DEFINE K == conn[c]
<1>1. /\ K \in Conn /\ Alone(K) /\ Data(K) /\ Typed /\ Still /\ shm'.hdr = shm.hdr /\ K.on /\ K.at = "pick" /\ K.at \in Plain
  BY Facts, OnlyConnIsStill DEF Pick, At, Plain
<1>2. K.writeLock = FALSE /\ K.stamp = 0 /\ NotAfter(K.hdr, Public) /\ Fits(K.cache, K.hdr)
  BY <1>1, RestingFields
<1>3. CASE Become(c, [K EXCEPT !.at = "mark"])
  <2>1. PICK N : N = [K EXCEPT !.at = "mark"]
    OBVIOUS
  <2>2. /\ N.at = "mark" /\ N.hdr = K.hdr /\ N.writeLock = K.writeLock /\ N.changed = K.changed /\ N.cache = K.cache
        /\ N.stamp = K.stamp /\ N.written = K.written /\ N.on = K.on
    BY <1>1, <2>1 DEF Conn
  <2>3. N.at \in Plain /\ N.at \in Resting
    BY <2>2 DEF Plain, Choosing, Resting
  <2>4. Data(N)
    BY <1>1, <1>2, <2>2, <2>3, SeesNothing, Carries
  <2> QED
    BY <1>1, <1>3, <2>1, <2>4, Quiet
<1>4. CASE shm.nBackfill = K.hdr.mxFrame /\ shm.hdr[1] = K.hdr /\ Become(c, [K EXCEPT !.at = "read", !.readLock = 0])
  <2>1. PICK N : N = [K EXCEPT !.at = "read", !.readLock = 0]
    OBVIOUS
  <2>2. /\ N.at = "read" /\ N.readLock = 0 /\ N.hdr = K.hdr /\ N.writeLock = K.writeLock /\ N.changed = K.changed /\ N.cache = K.cache
        /\ N.stamp = K.stamp /\ N.written = K.written /\ N.on = K.on
    BY <1>1, <2>1 DEF Conn
  <2>3. N.at \in Plain /\ Sees(N)
    BY <1>4, <2>2 DEF Plain, Sees, Reads, Public
  <2>4. Data(N)
    BY <1>1, <1>2, <2>2, <2>3, Carries
  <2> QED
    BY <1>1, <1>4, <2>1, <2>4, Quiet
<1>5. CASE Become(c, Left(K))
  BY <1>1, <1>2, <1>5, LeftData, Quiet
<1> QED
  BY <1>3, <1>4, <1>5 DEF Pick

LEMMA RetryData ==
  ASSUME NEW K \in Conn, NEW L \in Conn, Data(K), K.at \in Choosing, K.on,
         \A f \in {"on", "hdr", "writeLock", "changed", "cache", "stamp", "written"} : L[f] = K[f]
  PROVE  Data(Retry(L))
<1>1. /\ L.on = K.on /\ L.hdr = K.hdr /\ L.writeLock = K.writeLock /\ L.changed = K.changed /\ L.cache = K.cache
      /\ L.stamp = K.stamp /\ L.written = K.written /\ K.at \in Plain /\ K.at # "read" /\ K.writeLock \in BOOLEAN
  BY DEF Plain, Choosing, Conn
<1>2. CASE L.writeLock
  <2>1. PICK N : N = [L EXCEPT !.at = "mark", !.readLock = -1, !.mark = 0, !.minFrame = 0]
    OBVIOUS
  <2>2. /\ N.at = "mark" /\ N.hdr = L.hdr /\ N.writeLock = L.writeLock /\ N.changed = L.changed /\ N.cache = L.cache
        /\ N.stamp = L.stamp /\ N.written = L.written /\ N.on = L.on
    BY <2>1 DEF Conn
  <2>3. N.at \in Plain /\ N.at \in Resting
    BY <2>2 DEF Plain, Choosing, Resting
  <2>4. Data(N)
    BY <1>1, <2>2, <2>3, SeesNothing, Carries
  <2> QED
    BY <1>2, <2>1, <2>4 DEF Retry
<1>3. CASE ~L.writeLock
  <2>1. K.writeLock = FALSE
    BY <1>1, <1>3
  <2>2. K.stamp = 0 /\ NotAfter(K.hdr, Public) /\ Fits(K.cache, K.hdr)
    BY <1>1, <2>1, PlainFields
  <2> QED
    BY <1>1, <1>3, <2>1, <2>2, LeftData DEF Retry
<1> QED
  BY <1>2, <1>3

LEMMA MarkData ==
  ASSUME IInv, DInv, NEW c \in Conns, Mark(c)
  PROVE  DInv'
<1> DEFINE K == conn[c]
<1>1. /\ K \in Conn /\ Data(K) /\ Typed /\ Still /\ shm'.hdr = shm.hdr /\ K.on /\ K.at = "mark" /\ K.at \in Plain
  BY Facts, OnlyConnIsStill DEF Mark, At, Plain, Choosing
<1>20. PICK at \in {"setMark", "lockMark"} : \E i, m : Become(c, [K EXCEPT !.at = at, !.i = i, !.mark = m])
  <2> DEFINE fit == {i \in Marks : shm.mark[i] <= K.hdr.mxFrame}
             best == CHOOSE i \in fit : \A j \in fit \ {i} : shm.mark[j] < shm.mark[i] \/ (shm.mark[j] = shm.mark[i] /\ j < i)
  <2>1. CASE fit = {}
    <3>1. Become(c, [K EXCEPT !.at = "setMark", !.i = 0])
      BY <2>1 DEF Mark
    <3>2. [K EXCEPT !.at = "setMark", !.i = 0] = [K EXCEPT !.at = "setMark", !.i = 0, !.mark = K.mark]
      BY <1>1 DEF Conn
    <3> QED
      BY <3>1, <3>2
  <2>2. CASE fit # {}
    <3>1. Become(c, [K EXCEPT !.at = IF shm.mark[best] < K.hdr.mxFrame THEN "setMark" ELSE "lockMark",
                              !.i = best, !.mark = shm.mark[best]])
      BY <2>2 DEF Mark
    <3> HIDE DEF best
    <3> QED
      BY <3>1
  <2> QED
    BY <2>1, <2>2
<1>2. PICK i, m : Become(c, [K EXCEPT !.at = at, !.i = i, !.mark = m])
  BY <1>20
<1>3. PICK N : N = [K EXCEPT !.at = at, !.i = i, !.mark = m]
  OBVIOUS
<1>4. /\ N.at = at /\ N.hdr = K.hdr /\ N.writeLock = K.writeLock /\ N.changed = K.changed /\ N.cache = K.cache
      /\ N.stamp = K.stamp /\ N.written = K.written /\ N.on = K.on
  BY <1>1, <1>3 DEF Conn
<1>5. N.at \in Plain /\ N.at \in Resting
  BY <1>2, <1>4 DEF Plain, Choosing, Resting
<1>6. Data(N)
  BY <1>1, <1>4, <1>5, SeesNothing, Carries
<1> QED
  BY <1>1, <1>2, <1>3, <1>6, Quiet

LEMMA SetMarkData ==
  ASSUME IInv, DInv, NEW c \in Conns, SetMark(c)
  PROVE  DInv'
<1> DEFINE K == conn[c]
           free == {i \in Marks : CanExcludeRead(c, i)}
<1>1. /\ K \in Conn /\ Data(K) /\ Typed /\ ShmType /\ K.on /\ K.at = "setMark" /\ K.at \in Plain /\ K.at \in Choosing
  BY Facts DEF SetMark, At, Plain, Choosing
<1>2. Still /\ shm'.hdr = shm.hdr
  BY <1>1 DEF SetMark, Still, history, ShmType
<1>3. CASE free = {} /\ K.i = 0
  <2>1. Become(c, Retry(K))
    BY <1>3 DEF SetMark
  <2> QED
    BY <1>1, <1>2, <2>1, RetryData, Quiet
<1>4. CASE ~(free = {} /\ K.i = 0)
  <2>1. PICK i, m : Become(c, [K EXCEPT !.at = "lockMark", !.i = i, !.mark = m])
    <3>1. CASE free # {}
      BY <3>1 DEF SetMark
    <3>2. CASE free = {}
      <4>1. Become(c, [K EXCEPT !.at = "lockMark"])
        BY <1>4, <3>2 DEF SetMark
      <4>2. [K EXCEPT !.at = "lockMark"] = [K EXCEPT !.at = "lockMark", !.i = K.i, !.mark = K.mark]
        BY <1>1 DEF Conn
      <4> QED
        BY <4>1, <4>2
    <3> QED
      BY <3>1, <3>2
  <2>2. PICK N : N = [K EXCEPT !.at = "lockMark", !.i = i, !.mark = m]
    OBVIOUS
  <2>3. /\ N.at = "lockMark" /\ N.hdr = K.hdr /\ N.writeLock = K.writeLock /\ N.changed = K.changed /\ N.cache = K.cache
        /\ N.stamp = K.stamp /\ N.written = K.written /\ N.on = K.on
    BY <1>1, <2>2 DEF Conn
  <2>4. N.at \in Plain /\ N.at \in Resting
    BY <2>3 DEF Plain, Choosing, Resting
  <2>5. Data(N)
    BY <1>1, <2>3, <2>4, SeesNothing, Carries
  <2> QED
    BY <1>1, <1>2, <2>1, <2>2, <2>5, Quiet
<1> QED
  BY <1>3, <1>4

LEMMA LockMarkData ==
  ASSUME IInv, DInv, NEW c \in Conns, LockMark(c)
  PROVE  DInv'
<1> DEFINE K == conn[c]
<1>1. /\ K \in Conn /\ Data(K) /\ Typed /\ ShmType /\ Still /\ shm'.hdr = shm.hdr /\ K.on
      /\ K.at = "lockMark" /\ K.at \in Plain /\ K.at \in Choosing
  BY Facts, OnlyConnIsStill DEF LockMark, At, Plain, Choosing
<1>2. CASE Become(c, [K EXCEPT !.at = "check", !.readLock = K.i, !.i = 0, !.minFrame = shm.nBackfill + 1])
  <2>1. PICK min : min = shm.nBackfill + 1 /\ min \in 1..(shm.nBackfill + 1)
    BY <1>1, ShmFields
  <2>2. PICK N : N = [K EXCEPT !.at = "check", !.readLock = K.i, !.i = 0, !.minFrame = min]
    OBVIOUS
  <2>3. /\ N.at = "check" /\ N.hdr = K.hdr /\ N.writeLock = K.writeLock /\ N.changed = K.changed /\ N.cache = K.cache
        /\ N.stamp = K.stamp /\ N.written = K.written /\ N.on = K.on /\ N.minFrame = min
    BY <1>1, <2>2 DEF Conn
  <2>4. N.at \in Plain
    BY <2>3 DEF Plain, Choosing
  <2>5. Sees(N)
    <3>1. ~Reads(N)
      BY <2>3 DEF Reads, Closing
    <3> QED
      BY <2>1, <2>3, <3>1 DEF Sees
  <2>6. Data(N)
    BY <1>1, <2>3, <2>4, <2>5, Carries
  <2> QED
    BY <1>1, <1>2, <2>1, <2>2, <2>6, Quiet
<1>3. CASE Become(c, Retry([K EXCEPT !.i = 0]))
  <2>1. PICK L \in Conn : L = [K EXCEPT !.i = 0]
    BY <1>1, RangeTypes DEF Conn
  <2>2. \A f \in {"on", "hdr", "writeLock", "changed", "cache", "stamp", "written"} : L[f] = K[f]
    BY <1>1, <2>1 DEF Conn
  <2>3. Data(Retry(L))
    BY <1>1, <2>2, RetryData
  <2> QED
    BY <1>1, <1>3, <2>1, <2>3, Quiet
<1> QED
  BY <1>2, <1>3 DEF LockMark

LEMMA CheckMarkData ==
  ASSUME IInv, DInv, NEW c \in Conns, CheckMark(c)
  PROVE  DInv'
<1> DEFINE K == conn[c]
<1>1. /\ K \in Conn /\ Alone(K) /\ Data(K) /\ Typed /\ ShmType /\ Shared /\ Still /\ shm'.hdr = shm.hdr /\ K.on /\ Opened
      /\ K.at = "check" /\ K.at \in Plain /\ K.at \in Choosing
  BY Facts, OnlyConnIsStill, OpenHeader DEF CheckMark, At, Plain, Choosing
<1>2. CASE Public = K.hdr /\ Become(c, [K EXCEPT !.at = IF K.writeLock THEN "frame" ELSE "read", !.mark = 0])
  <2>1. PICK at \in {"frame", "read"} : at = IF K.writeLock THEN "frame" ELSE "read"
    OBVIOUS
  <2>2. PICK N : N = [K EXCEPT !.at = at, !.mark = 0]
    OBVIOUS
  <2>3. /\ N.at = at /\ N.hdr = K.hdr /\ N.writeLock = K.writeLock /\ N.changed = K.changed /\ N.cache = K.cache
        /\ N.stamp = K.stamp /\ N.written = K.written /\ N.on = K.on /\ N.minFrame = K.minFrame /\ N.readLock = K.readLock
    BY <1>1, <2>2 DEF Conn
  <2>4. N.at \in Plain
    BY <2>3 DEF Plain
  <2>5. Sees(N)
    <3>1. K.readLock \in Marks
      BY <1>1 DEF Alone, Locks
    <3>2. K.readLock \in Nat /\ K.readLock > 0
      BY <3>1, WalAssumption DEF Marks
    <3>3. K.minFrame \in 1..(shm.nBackfill + 1) /\ shm.nBackfill \in Nat /\ Public.mxFrame \in Nat
      BY <1>1, <3>2, ShmFields DEF Data, Sees, Public
    <3>4. \A k \in 1..(K.minFrame - 1) : k \in 1..shm.nBackfill
      BY <3>3
    <3>5. \A p \in Pages : \A k \in 1..(K.minFrame - 1) : IsLast(wal.frames, Public.mxFrame, p, k) => db[p] = wal.frames[k].val
      BY <1>1, <3>4 DEF Shared, Copied
    <3>6. N.at \notin {"restart", "restart2"} /\ N.readLock # 0
      BY <2>3, <3>2
    <3> QED
      BY <1>2, <2>3, <3>3, <3>5, <3>6 DEF Sees
  <2>6. Data(N)
    BY <1>1, <2>3, <2>4, <2>5, Carries
  <2> QED
    BY <1>1, <1>2, <2>1, <2>2, <2>6, Quiet
<1>3. CASE Become(c, Retry(K))
  BY <1>1, <1>3, RetryData, Quiet
<1> QED
  BY <1>2, <1>3 DEF CheckMark, Public

\* The log of a header that the index shows.
LEMMA LogFields ==
  ASSUME Typed
  PROVE  /\ wal.frames \in Seq(Frame) /\ Len(wal.frames) \in Nat /\ Len(wal.frames) <= MaxFrame /\ MaxFrame \in Nat
         /\ DOMAIN wal.frames = 1..Len(wal.frames) /\ \A k \in 1..Len(wal.frames) : wal.frames[k] \in Frame
         /\ wal.salt \in Nat /\ txn \in Nat /\ txn <= MaxTxn /\ MaxTxn \in Nat /\ Garbage = MaxTxn + 1
         /\ \A p \in Pages : db[p] \in 0..Garbage /\ db[p] \in dbDisk[p]
         /\ wal.frames \in walDisk /\ \A f \in walDisk : f \in Seq(Frame) /\ Len(f) \in Nat
<1>1. wal.frames \in Seq(Frame) /\ wal.salt \in Nat /\ wal.frames \in walDisk /\ walDisk \subseteq Seq(Frame)
  BY DEF Typed, LogType
<1>2. Len(wal.frames) \in Nat /\ DOMAIN wal.frames = 1..Len(wal.frames) /\ \A f \in walDisk : Len(f) \in Nat
  BY <1>1, LenProperties
<1>3. \A k \in 1..Len(wal.frames) : wal.frames[k] \in Frame
  BY <1>1, <1>2, ElementOfSeq
<1>4. Len(wal.frames) <= MaxFrame /\ MaxFrame \in Nat /\ MaxTxn \in Nat
  BY <1>1, WalAssumption DEF Typed, LogType
<1>5. txn \in Nat /\ txn <= MaxTxn
  BY <1>4 DEF Typed
<1>6. \A p \in Pages : db[p] \in 0..Garbage /\ db[p] \in dbDisk[p]
  BY DEF Typed, FileType
<1> QED
  BY <1>1, <1>2, <1>3, <1>4, <1>5, <1>6 DEF Garbage

\* When the whole log has been copied, the database file is the database.
LEMMA AllCopied ==
  ASSUME Typed, ShmType, Copied, Opened, Public.mxFrame <= shm.nBackfill, Public.mxFrame <= Len(wal.frames)
  PROVE  Overlay(wal.frames, Public.mxFrame) = db
<1> DEFINE F == wal.frames
           mx == Public.mxFrame
<1>1. F \in Seq(Frame) /\ mx \in Nat /\ mx <= Len(F) /\ shm.nBackfill \in Nat
  BY LogFields, ShmFields DEF Public
<1>2. ASSUME NEW p \in Pages
      PROVE  Apply(F, mx, db)[p] = db[p]
  <2>1. (\E k \in 1..mx : IsLast(F, mx, p, k)) \/ (\A k \in 1..mx : F[k].pg # p)
    BY <1>1, SomeLast
  <2>2. ASSUME NEW k \in 1..mx, IsLast(F, mx, p, k)
        PROVE  Apply(F, mx, db)[p] = db[p]
    <3>1. k \in 1..shm.nBackfill
      BY <1>1
    <3>2. db[p] = F[k].val
      BY <2>2, <3>1 DEF Copied
    <3>3. Apply(F, mx, db)[p] = F[k].val
      BY <1>1, <2>2, ApplyIs
    <3> QED
      BY <3>2, <3>3
  <2> QED
    BY <1>1, <2>1, <2>2, ApplyIs
<1>3. Apply(F, mx, db) = [p \in Pages |-> Apply(F, mx, db)[p]] /\ db = [p \in Pages |-> db[p]]
  BY DEF Apply, Typed, FileType
<1>4. Overlay(F, mx) = Apply(F, mx, db)
  BY OverlayIsApply
<1> QED
  BY <1>2, <1>3, <1>4

\* A reader that has just begun finds the database.
LEMMA FindsImage ==
  ASSUME IInv, DInv, NEW c \in Conns, At(c, "read"), conn[c].hdr = Public, Public.isInit, NEW p \in Pages
  PROVE  Lookup(conn[c], p) = Overlay(wal.frames, Public.mxFrame)[p]
<1> DEFINE K == conn[c]
<1>1. K \in Conn /\ Alone(K) /\ Data(K) /\ Typed /\ ShmType /\ Shared /\ K.on /\ K.at = "read" /\ Opened
  BY Facts, OpenHeader DEF At
<1>2. Shown(K.hdr.mxFrame) /\ Public.mxFrame <= Len(wal.frames) /\ Public.mxFrame \in Nat /\ wal.frames \in Seq(Frame)
  BY <1>1, ShmFields, LogFields DEF Shared, Epoch, Shown, Live, Public
<1>3. CASE K.readLock = 0
  <2>1. shm.nBackfill = Public.mxFrame
    BY <1>1, <1>3 DEF Data, Sees
  <2>2. Overlay(wal.frames, Public.mxFrame) = db
    BY <1>1, <1>2, <2>1, AllCopied DEF Shared
  <2> QED
    BY <1>3, <2>2 DEF Lookup
<1>4. CASE K.readLock # 0
  <2>1. Reads(K) /\ K.readLock > 0
    BY <1>1, <1>4, ReadingLocks DEF Reads
  <2>2. K.minFrame \in 1..(shm.nBackfill + 1)
    BY <1>1, <2>1 DEF Data, Sees
  <2>3. K.minFrame \in Nat \ {0}
    BY <1>1, <2>2, ShmFields
  <2>4. \A k \in 1..(K.minFrame - 1) : IsLast(wal.frames, K.hdr.mxFrame, p, k) => db[p] = wal.frames[k].val
    BY <1>1, <2>1 DEF Data, Sees
  <2>5. Lookup(K, p) = Apply(wal.frames, K.hdr.mxFrame, db)[p]
    BY <1>2, <1>4, <2>3, <2>4, LookupIs
  <2> QED
    BY <2>5, OverlayIsApply
<1> QED
  BY <1>3, <1>4

LEMMA EndReadData ==
  ASSUME IInv, DInv, NEW c \in Conns, EndRead(c)
  PROVE  DInv'
<1> DEFINE K == conn[c]
<1>1. /\ K \in Conn /\ Alone(K) /\ Data(K) /\ Typed /\ ShmType /\ Shared /\ Still /\ shm'.hdr = shm.hdr /\ K.on
      /\ At(c, "read") /\ K.writeLock = FALSE /\ K.at = "read" /\ K.at \in Plain
  BY Facts, OnlyConnIsStill DEF EndRead, At, Plain, Conn
<1>2. K.stamp = 0 /\ NotAfter(K.hdr, Public) /\ Fits(K.cache, K.hdr)
  BY <1>1, PlainFields
<1>3. PICK cache \in {NotCached, Content(K)} : Become(c, Left([K EXCEPT !.cache = cache]))
  BY DEF EndRead
<1>4. Fits(cache, K.hdr)
  <2>1. CASE cache # K.cache /\ cache # NotCached /\ Public.isInit /\ K.hdr = Public
    <3>1. cache = [p \in Pages |-> Lookup(K, p)]
      BY <1>3, <2>1 DEF Content
    <3>2. \A p \in Pages : Lookup(K, p) = Overlay(wal.frames, Public.mxFrame)[p]
      BY <1>1, <2>1, FindsImage
    <3>3. Overlay(wal.frames, Public.mxFrame) = [p \in Pages |-> Overlay(wal.frames, Public.mxFrame)[p]]
      BY DEF Overlay
    <3>4. cache = Overlay(wal.frames, Public.mxFrame)
      BY <3>1, <3>2, <3>3
    <3> QED
      BY <3>4 DEF Fits
  <2> QED
    BY <1>2, <2>1 DEF Fits
<1>5. cache \in Cache
  BY <1>1, <1>3, RangeTypes, ContentType
<1>6. PICK L \in Conn : L = [K EXCEPT !.cache = cache]
  BY <1>1, <1>5 DEF Conn
<1>7. L.writeLock = FALSE /\ L.stamp = 0 /\ L.hdr = K.hdr /\ L.cache = cache
  BY <1>1, <1>2, <1>6 DEF Conn
<1>8. Data(Left(L))
  BY <1>2, <1>4, <1>7, LeftData
<1> QED
  BY <1>1, <1>3, <1>6, <1>8, Quiet

-----------------------------------------------------------------------------
(* Beginning to write.                                                     *)

LEMMA BeginWriteData ==
  ASSUME IInv, DInv, NEW c \in Conns, BeginWrite(c)
  PROVE  DInv'
<1> DEFINE K == conn[c]
<1>1. /\ K \in Conn /\ Alone(K) /\ Data(K) /\ Typed /\ ShmType /\ Shared /\ Still /\ shm'.hdr = shm.hdr /\ K.on /\ Opened
      /\ K.at = "read" /\ K.writeLock = FALSE /\ Public = K.hdr
  BY Facts, OnlyConnIsStill, OpenHeader DEF BeginWrite, At, Conn, Public
<1>2. K.stamp = 0 /\ K.changed = FALSE /\ K.written = {}
  BY <1>1, PlainFields, ReadingLocks DEF Plain
<1>3. PICK N : N = [K EXCEPT !.writeLock = TRUE]
  OBVIOUS
<1>4. /\ N.at = "read" /\ N.writeLock = TRUE /\ N.hdr = K.hdr /\ N.readLock = K.readLock /\ N.minFrame = K.minFrame
      /\ N.cache = K.cache /\ N.changed = FALSE /\ N.stamp = 0 /\ N.written = {} /\ N.on
  BY <1>1, <1>2, <1>3 DEF Conn
<1>5. Knows(N) /\ Public.isInit
  BY <1>1, <1>4 DEF Data, Knows
<1>6. Own(N)
  <2>1. ~Announces(N) /\ N.at # "append" /\ Top(N) = Public.mxFrame /\ N.at \notin Recovery
    BY <1>1, <1>4 DEF Announces, Top, Recovery
  <2>2. Live /\ Public.mxFrame \in Nat /\ Public.salt \in Nat
    <3>1. Public \in Hdr
      BY <1>1, ShmFields DEF Public
    <3> QED
      BY <1>1, <1>5, <3>1, ShmFields DEF Live, Hdr, Public
  <2>3. Shown(Public.mxFrame) /\ (Public.mxFrame > 0 => Public.salt = wal.salt)
    BY <1>1, <2>2 DEF Shared, Epoch
  <2>4. Leads(N)
    BY <1>1, <1>4, <1>5, <2>1, <2>2, <2>3 DEF Leads
  <2>5. OwnFrames(N)
    <3>1. (Public.mxFrame + 1)..Top(N) = {}
      BY <2>1, <2>2
    <3> QED
      BY <1>4, <2>1, <3>1 DEF OwnFrames
  <2>6. NewStamp(N)
    BY <1>4 DEF NewStamp
  <2> QED
    BY <1>4, <2>4, <2>5, <2>6 DEF Own
<1>7. Sees(N)
  BY <1>1, <1>4 DEF Data, Sees, Reads
<1>8. Recovers(N) /\ Checkpoints(N)
  BY <1>4 DEF Recovers, Checkpoints, Finds, Copies, Recovery, Copying
<1>9. Cached(N)
  BY <1>1, <1>2, <1>4 DEF Data, Cached, Current
<1>10. Data(N)
  BY <1>5, <1>6, <1>7, <1>8, <1>9 DEF Data
<1> QED
  BY <1>1, <1>3, <1>10, Quiet DEF BeginWrite

-----------------------------------------------------------------------------
(* Checkpoints: finding the last frame of each page, and the oldest reader. *)

LEMMA CkptFields ==
  ASSUME NEW K \in Conn, Alone(K), Data(K), K.at \in {"start"} \union Copying
  PROVE  /\ K.writeLock = FALSE /\ K.readLock = -1 /\ K.stamp = 0 /\ K.on /\ K.hdr.isInit /\ NotAfter(K.hdr, Public)
         /\ K.changed \/ Fits(K.cache, K.hdr)
<1>1. K.writeLock = FALSE /\ K.readLock = -1 /\ K.on /\ K.at \notin {"idle", "bad"} /\ K.changed \in BOOLEAN
  BY CkptLocks DEF Copying, Conn
<1> QED
  BY <1>1 DEF Data, Own, Owns, Knows, Cached, Current, Fits

LEMMA CkptGoesOn ==
  ASSUME NEW K \in Conn, Alone(K), Data(K), K.at \in {"start"} \union Copying, NEW N, N.at \in Copying,
         \A f \in {"on", "hdr", "writeLock", "changed", "cache", "stamp"} : N[f] = K[f], Finds(N), Copies(N)
  PROVE  Data(N)
<1>1. /\ N.on = K.on /\ N.hdr = K.hdr /\ N.writeLock = K.writeLock /\ N.changed = K.changed /\ N.cache = K.cache /\ N.stamp = K.stamp
      /\ N.at \notin {"idle", "bad", "check", "read", "restart", "restart2"} \union Closing \union Recovery
  BY DEF Copying, Closing, Recovery
<1>2. K.writeLock = FALSE /\ K.stamp = 0 /\ K.on /\ K.hdr.isInit /\ NotAfter(K.hdr, Public) /\ (K.changed \/ Fits(K.cache, K.hdr))
  BY CkptFields
<1>3. Knows(N) /\ Own(N) /\ Recovers(N) /\ Sees(N)
  BY <1>1, <1>2 DEF Knows, Own, Owns, Recovers, Sees, Reads
<1>4. Checkpoints(N)
  BY <1>1 DEF Data, Checkpoints
<1>5. Cached(N)
  BY <1>1, <1>2 DEF Cached, Current, Owns, Fits
<1> QED
  BY <1>3, <1>4, <1>5 DEF Data

LEMMA NextFields ==
  ASSUME NEW K \in Conn
  PROVE  \A f \in {"on", "hdr", "writeLock", "changed", "cache", "stamp", "iter"} : Next_i(K)[f] = K[f]
<1> DEFINE i == K.i + 1
           at == IF i \in Marks THEN "readMark" ELSE "copyLock"
<1>1. Next_i(K) = [K EXCEPT !.i = i, !.mark = 0, !.at = at]
  BY DEF Next_i
<1> HIDE DEF at, i
<1> QED
  BY <1>1 DEF Conn

\* walIteratorInit finds the frames that matter.
LEMMA CkptStartData ==
  ASSUME IInv, DInv, NEW c \in Conns, CkptStart(c)
  PROVE  DInv'
<1> DEFINE K == conn[c]
           F == wal.frames
           mx == K.hdr.mxFrame
           S(p) == {k \in 1..mx : p \in shm.index[k]}
           iter == [p \in Pages |-> Max(S(p) \union {0})]
<1>1. /\ K \in Conn /\ Alone(K) /\ Agrees(K) /\ Data(K) /\ Typed /\ ShmType /\ Shared /\ Still /\ shm'.hdr = shm.hdr /\ K.on /\ Opened
      /\ K.at = "start" /\ mx \in Nat
  BY Facts, OnlyConnIsStill, OpenHeader, ConnFields DEF CkptStart, At
<1>2. K.writeLock = FALSE /\ K.stamp = 0 /\ K.hdr.isInit /\ NotAfter(K.hdr, Public) /\ (K.changed \/ Fits(K.cache, K.hdr))
  BY <1>1, CkptFields
<1>3. CASE Become(c, Ended(K))
  BY <1>1, <1>2, <1>3, EndedData, Quiet
<1>4. CASE Become(c, [K EXCEPT !.at = "readMark", !.i = 1, !.safe = mx, !.iter = iter])
  <2>1. Live /\ mx <= Public.mxFrame /\ Public.mxFrame \in Nat
    BY <1>1, <1>2, ShmFields DEF Live, NotAfter, Agrees, Behind, Public
  <2>2. Shown(Public.mxFrame)
    BY <1>1, <2>1 DEF Shared, Epoch
  <2>3. \A k \in 1..mx : k \in 1..Public.mxFrame
    BY <1>1, <2>1
  <2>4. \A k \in 1..mx : shm.index[k] = {F[k].pg}
    BY <2>2, <2>3 DEF Shown
  <2>5. ASSUME NEW p \in Pages
        PROVE  IF iter[p] = 0 THEN \A k \in 1..mx : F[k].pg # p ELSE IsLast(F, mx, p, iter[p])
    <3>1. S(p) \union {0} \in SUBSET (0..mx) /\ S(p) \union {0} # {}
      BY <1>1
    <3>2. PICK m \in S(p) \union {0} : m = Max(S(p) \union {0}) /\ \A y \in S(p) \union {0} : y <= m
      BY <1>1, <3>1, MaxIsGreatest
    <3>3. \A k \in 1..mx : F[k].pg = p => k <= m
      BY <2>4, <3>2
    <3>4. iter[p] = m
      BY <3>2
    <3>5. CASE m = 0
      <4>1. \A k \in 1..mx : ~(k <= m)
        BY <3>5
      <4> QED
        BY <3>3, <3>4, <3>5, <4>1
    <3>6. CASE m # 0
      <4>1. m \in 1..mx /\ F[m].pg = p
        BY <2>4, <3>2, <3>6
      <4>2. \A j \in (m + 1)..mx : j \in 1..mx /\ ~(j <= m)
        BY <1>1, <4>1
      <4> HIDE DEF iter
      <4> QED
        BY <3>3, <3>4, <3>6, <4>1, <4>2 DEF IsLast
    <3> QED
      BY <3>5, <3>6
  <2> HIDE DEF iter
  <2>6. PICK N : N = [K EXCEPT !.at = "readMark", !.i = 1, !.safe = mx, !.iter = iter]
    OBVIOUS
  <2>7. /\ N.at = "readMark" /\ N.iter = iter /\ N.hdr = K.hdr
        /\ \A f \in {"on", "hdr", "writeLock", "changed", "cache", "stamp"} : N[f] = K[f]
    BY <1>1, <2>6 DEF Conn
  <2>8. Finds(N) /\ Copies(N) /\ N.at \in Copying
    BY <2>5, <2>7 DEF Finds, Copies, Copying
  <2>9. Data(N)
    BY <1>1, <2>7, <2>8, CkptGoesOn
  <2> QED
    BY <1>1, <1>4, <2>6, <2>9, Quiet
<1> QED
  BY <1>3, <1>4 DEF CkptStart

LEMMA CkptReadMarkData ==
  ASSUME IInv, DInv, NEW c \in Conns, CkptReadMark(c)
  PROVE  DInv'
<1> DEFINE K == conn[c]
<1>1. /\ K \in Conn /\ Alone(K) /\ Data(K) /\ Typed /\ ShmType /\ Still /\ shm'.hdr = shm.hdr /\ K.on
      /\ K.at = "readMark" /\ K.at \in Copying /\ Finds(K)
  BY Facts, OnlyConnIsStill DEF CkptReadMark, At, Copying, Data, Checkpoints
<1>2. K.i \in Marks /\ K.safe <= K.hdr.mxFrame
  BY <1>1 DEF Alone, Numbers
<1>3. PICK N :
        /\ Become(c, N) /\ N.at \in {"readMark", "lockMark_i", "copyLock"}
        /\ \A f \in {"on", "hdr", "writeLock", "changed", "cache", "stamp", "iter"} : N[f] = K[f]
  <2>1. CASE Become(c, Next_i(K))
    BY <1>1, <1>2, <2>1, NextType, NextFields
  <2>2. CASE Become(c, [K EXCEPT !.at = "lockMark_i", !.mark = shm.mark[K.i]])
    <3>1. PICK N : N = [K EXCEPT !.at = "lockMark_i", !.mark = shm.mark[K.i]]
      OBVIOUS
    <3>2. N.at = "lockMark_i" /\ \A f \in {"on", "hdr", "writeLock", "changed", "cache", "stamp", "iter"} : N[f] = K[f]
      BY <1>1, <3>1 DEF Conn
    <3> QED
      BY <2>2, <3>1, <3>2
  <2> QED
    BY <2>1, <2>2 DEF CkptReadMark
<1>4. Finds(N) /\ Copies(N) /\ N.at \in Copying
  BY <1>1, <1>3 DEF Finds, Copies, Copying
<1>5. Data(N)
  BY <1>1, <1>3, <1>4, CkptGoesOn
<1> QED
  BY <1>1, <1>3, <1>5, Quiet

LEMMA CkptLockMarkData ==
  ASSUME IInv, DInv, NEW c \in Conns, CkptLockMark(c)
  PROVE  DInv'
<1> DEFINE K == conn[c]
<1>1. /\ K \in Conn /\ Alone(K) /\ Data(K) /\ Typed /\ ShmType /\ K.on
      /\ K.at = "lockMark_i" /\ K.at \in Copying /\ Finds(K)
  BY Facts DEF CkptLockMark, At, Copying, Data, Checkpoints
<1>2. Still /\ shm'.hdr = shm.hdr
  BY <1>1 DEF CkptLockMark, Still, history, ShmType
<1>3. K.i \in Marks /\ K.safe <= K.hdr.mxFrame /\ K.mark < K.safe /\ K.safe \in Nat /\ K.mark \in Nat /\ K.hdr.mxFrame \in Nat
      /\ K.mark \in Frames0
  BY <1>1, ConnFields, WalAssumption DEF Alone, Numbers, Frames0
<1>4. PICK L \in Conn :
        /\ Become(c, Next_i(L)) /\ L.i \in Marks /\ L.safe <= L.hdr.mxFrame
        /\ \A f \in {"on", "hdr", "writeLock", "changed", "cache", "stamp", "iter"} : L[f] = K[f]
  <2>1. CASE Become(c, Next_i(K))
    BY <1>1, <1>3, <2>1
  <2>2. CASE Become(c, Next_i([K EXCEPT !.safe = K.mark]))
    <3>1. PICK L \in Conn : L = [K EXCEPT !.safe = K.mark]
      BY <1>1, <1>3 DEF Conn
    <3>2. L.i = K.i /\ L.safe = K.mark /\ \A f \in {"on", "hdr", "writeLock", "changed", "cache", "stamp", "iter"} : L[f] = K[f]
      BY <1>1, <3>1 DEF Conn
    <3>3. L.safe <= L.hdr.mxFrame
      BY <1>3, <3>2
    <3> QED
      BY <1>3, <2>2, <3>1, <3>2, <3>3
  <2> QED
    BY <2>1, <2>2 DEF CkptLockMark
<1>5. PICK N : N = Next_i(L)
  OBVIOUS
<1>6. N.at \in {"readMark", "copyLock"} /\ \A f \in {"on", "hdr", "writeLock", "changed", "cache", "stamp", "iter"} : N[f] = K[f]
  BY <1>4, <1>5, NextType, NextFields
<1>7. Finds(N) /\ Copies(N) /\ N.at \in Copying
  BY <1>1, <1>6 DEF Finds, Copies, Copying
<1>8. Data(N)
  BY <1>1, <1>6, <1>7, CkptGoesOn
<1> QED
  BY <1>1, <1>2, <1>4, <1>5, <1>8, Quiet

-----------------------------------------------------------------------------
(* Steps of the connection that holds the WRITE lock.                      *)

LEMMA Moves ==
  ASSUME Typed, NEW c \in Conns, NEW N, Become(c, N), Shared', N.on => Data(N)',
         \A d \in Conns \ {c} : \A D : D = conn[d] /\ D.on => Data(D)'
  PROVE  DInv'
<1>1. conn'[c] = N /\ \A d \in Conns \ {c} : conn'[d] = conn[d]
  BY DEF Become, Typed
<1>2. ASSUME NEW d \in Conns, conn'[d].on
      PROVE  Data(conn[d])'
  <2>1. PICK D : D = conn'[d]
    OBVIOUS
  <2>2. Data(D)'
    BY <1>1, <1>2, <2>1
  <2> QED
    BY <2>1, <2>2
<1> QED
  BY <1>2 DEF DInv

\* Nobody else writes.
LEMMA OnlyWriter ==
  ASSUME IInv, NEW c \in Conns, conn[c].writeLock, NEW d \in Conns \ {c}
  PROVE  conn[d].writeLock = FALSE /\ conn[d].at \notin Recovery \union Closing \union Restarting
<1>1. conn[d] \in Conn /\ Alone(conn[d]) /\ Pair(conn[c], conn[d])
  BY Known
<1>2. conn[d].writeLock = FALSE
  BY <1>1 DEF Pair, Excludes, Conn
<1> QED
  BY <1>1, <1>2 DEF Alone, Locks

\* What is true of everybody else, ...
LEMMA Others ==
  ASSUME IInv, DInv, NEW c \in Conns, conn[c].writeLock, NEW d \in Conns \ {c}, conn[d].on
  PROVE  /\ conn[d] \in Conn /\ Alone(conn[d]) /\ Agrees(conn[d]) /\ Pair(conn[c], conn[d]) /\ Data(conn[d])
         /\ conn[d].writeLock = FALSE /\ conn[d].at \notin Recovery \union Closing \union Restarting
         /\ conn[d].stamp = 0 /\ NotAfter(conn[d].hdr, Public)
         /\ (conn[d].on /\ conn[d].at \notin {"idle", "bad"} => conn[d].hdr.isInit)
         /\ Sees(conn[d]) /\ Checkpoints(conn[d])
<1> DEFINE D == conn[d]
<1>1. D \in Conn /\ Alone(D) /\ Agrees(D) /\ Pair(conn[c], D) /\ Data(D)
  BY Facts
<1>2. D.writeLock = FALSE /\ D.at \notin Recovery \union Closing \union Restarting
  BY OnlyWriter
<1> QED
  BY <1>1, <1>2 DEF Data, Own, Owns, Knows

\* ... and what of that has to be seen again.
LEMMA OtherLater ==
  ASSUME NEW D, D.writeLock = FALSE, D.at \notin Recovery \union Closing \union Restarting, D.stamp = 0,
         D.on /\ D.at \notin {"idle", "bad"} => D.hdr.isInit,
         NotAfter(D.hdr, Public'), Sees(D)', Checkpoints(D)', Cached(D)'
  PROVE  Data(D)'
<1>1. Knows(D)'
  BY DEF Knows
<1>2. Own(D)' /\ Recovers(D)'
  BY DEF Own, Owns, Recovers
<1> QED
  BY <1>1, <1>2 DEF Data

\* A new transaction gets its number.
LEMMA FramesData ==
  ASSUME IInv, DInv, NEW c \in Conns, NEW pages \in SUBSET Pages, NEW commit \in BOOLEAN, Frames(c, pages, commit)
  PROVE  DInv'
<1> DEFINE K == conn[c]
           restart == K.readLock = 0 /\ shm.nBackfill > 0
           at == IF K.readLock # 0 THEN "frame" ELSE IF restart THEN "restart" ELSE "mark"
           lock == IF K.readLock = 0 /\ ~restart THEN -1 ELSE K.readLock
           stamp == IF K.stamp = 0 THEN txn + 1 ELSE K.stamp
<1>1. /\ K \in Conn /\ Alone(K) /\ Agrees(K) /\ Data(K) /\ Typed /\ ShmType /\ Shared /\ K.on /\ K.at = "read" /\ K.writeLock = TRUE
      /\ shm' = shm /\ wal' = wal /\ walDisk' = walDisk /\ db' = db /\ dbDisk' = dbDisk /\ Opened /\ K.stamp \in Nat
  BY Facts, OpenHeader, WalAssumption DEF Frames, At, log, file, Conn, Stamps
<1>2. /\ txn' = (IF K.stamp = 0 THEN txn + 1 ELSE txn) /\ (K.stamp = 0 => txn < MaxTxn)
      /\ Become(c, [K EXCEPT !.at = at, !.readLock = lock, !.stamp = stamp, !.todo = pages, !.commit = commit])
  BY DEF Frames
<1>3. txn \in Nat /\ MaxTxn \in Nat /\ Garbage = MaxTxn + 1 /\ txn' >= txn /\ wal.frames \in walDisk /\ stamp # 0 /\ at \in {"frame", "restart", "mark"}
      /\ txn' < Garbage
  BY <1>1, <1>2, LogFields
<1>4. PICK N : N = [K EXCEPT !.at = at, !.readLock = lock, !.stamp = stamp, !.todo = pages, !.commit = commit]
  OBVIOUS
<1>5. /\ N.at = at /\ N.readLock = lock /\ N.stamp = stamp /\ N.hdr = K.hdr /\ N.written = K.written /\ N.writeLock = TRUE
      /\ N.minFrame = K.minFrame /\ N.cache = K.cache /\ N.changed = K.changed /\ N.on
  BY <1>1, <1>4 DEF Conn
<1>6. Public' = Public
  BY <1>1 DEF Public
<1>7. Shared'
  <2>1. Past'
    <3>1. \A f \in walDisk : f \in Seq(Frame) /\ \A k \in 1..Len(f) : f[k].val <= txn /\ f[k].val \in Nat
      <4>1. ASSUME NEW f \in walDisk, NEW k \in 1..Len(f)
            PROVE  f[k].val \in Nat
        <5>1. f \in Seq(Frame)
          BY <1>1, LogFields
        <5>2. f[k] \in Frame
          BY <5>1, ElementOfSeq
        <5> QED
          BY <1>3, <5>2 DEF Frame
      <4> QED
        BY <1>1, <4>1, LogFields DEF Shared, Past
    <3>2. \A f \in walDisk : \A k \in 1..Len(f) : f[k].val <= txn'
      BY <1>2, <1>3, <3>1
    <3>3. \A p \in Pages : \A v \in dbDisk[p] : v \in Nat /\ (v <= txn \/ v = Garbage)
      BY <1>1, <1>3 DEF Shared, Past, Typed, FileType
    <3>4. \A p \in Pages : \A v \in dbDisk[p] : v <= txn' \/ v = Garbage
      BY <1>2, <1>3, <3>3
    <3> QED
      BY <1>1, <3>2, <3>4 DEF Past
  <2>2. Contiguous' /\ (Opened' => Opened)
    BY <1>1, OpenHeader DEF Shared, Contiguous
  <2>3. (Live' => Live) /\ Live
    BY <1>1, <2>2, <1>6 DEF Live, Opened, Data, Own, Owns, Leads, Recovery
  <2>4. Epoch' /\ Copied' /\ Doubts' /\ Synced'
    BY <1>1, <1>6, <2>2, <2>3 DEF Shared, Epoch, Shown, Copied, Doubts, Doubtful, Synced
  <2> QED
    BY <2>1, <2>2, <2>4 DEF Shared
<1>8. ASSUME NEW d \in Conns \ {c}, NEW D, D = conn[d], D.on
      PROVE  Data(D)'
  <2>1. /\ D.writeLock = FALSE /\ D.at \notin Recovery \union Closing \union Restarting /\ D.stamp = 0 /\ NotAfter(D.hdr, Public)
        /\ (D.on /\ D.at \notin {"idle", "bad"} => D.hdr.isInit) /\ Sees(D) /\ Checkpoints(D) /\ Cached(D)
    BY <1>1, <1>8, Others DEF Data
  <2>2. Sees(D)'
    BY <1>1, <1>6, <2>1 DEF Sees
  <2>3. Checkpoints(D)' /\ Cached(D)'
    BY <1>1, <1>6, <2>1 DEF Checkpoints, Finds, Copies, InReach, Committed, Cached, Current, Overlay
  <2> QED
    BY <1>6, <2>1, <2>2, <2>3, OtherLater
<1>9. Data(N)'
  <2> HIDE DEF at, lock, stamp
  <2>1. Owns(K) /\ Owns(N) /\ ~Announces(K) /\ ~Announces(N) /\ Top(K) = K.hdr.mxFrame /\ N.at # "append" /\ Top(N) = K.hdr.mxFrame /\ Top(N)' = K.hdr.mxFrame
        /\ N.at \notin Recovery \union Copying \union {"idle", "bad", "start", "read"} /\ Public.mxFrame \in Nat /\ K.hdr.mxFrame \in Nat
    <3>1. K.hdr.mxFrame \in Nat /\ Public.mxFrame \in Nat
      BY <1>1, ShmFields, ConnFields DEF Public
    <3> QED
      BY <1>1, <1>3, <1>5, <3>1 DEF Owns, Announces, Top, Recovery, Copying
  <2>2. Leads(K) /\ OwnFrames(K) /\ NewStamp(K)
    BY <1>1, <2>1 DEF Data, Own
  <2>3. Leads(N)'
    BY <1>1, <1>5, <1>6, <2>1, <2>2 DEF Leads, Shown, Announces
  <2>4. K.stamp = 0 => (Public.mxFrame + 1)..K.hdr.mxFrame = {}
    BY <2>1, <2>2 DEF OwnFrames, NewStamp
  <2>5. OwnFrames(N)'
    <3>1. K.written = {wal.frames[k].pg : k \in (Public.mxFrame + 1)..K.hdr.mxFrame}
      BY <2>1, <2>2 DEF OwnFrames
    <3>2. \A k \in (Public.mxFrame + 1)..K.hdr.mxFrame : wal.frames[k].val = stamp /\ wal.frames[k].commit = wal.frames[k].commit
          /\ ~wal.frames[k].commit
      BY <1>1, <2>1, <2>2, <2>4 DEF OwnFrames, stamp
    <3> QED
      BY <1>1, <1>5, <1>6, <2>1, <3>1, <3>2 DEF OwnFrames, Announces
  <2>6. NewStamp(N)'
    <3>1. CASE K.stamp # 0
      BY <1>1, <1>2, <1>5, <1>6, <2>2, <3>1 DEF NewStamp, stamp
    <3>2. CASE K.stamp = 0
      <4>1. stamp = txn' /\ txn' = txn + 1
        BY <1>2, <3>2 DEF stamp
      <4>2. ASSUME NEW k \in 1..Public.mxFrame
            PROVE  wal.frames[k].val # txn'
        <5>1. Shown(Public.mxFrame)
          BY <1>1, <2>2 DEF Shared, Epoch, Live, Leads
        <5>2. k \in 1..Len(wal.frames)
          BY <1>1, <2>1, <5>1, LogFields DEF Shown
        <5>3. wal.frames[k] \in Frame /\ wal.frames[k].val <= txn
          BY <1>1, <1>3, <5>2, LogFields DEF Shared, Past
        <5>4. wal.frames[k].val \in 0..MaxTxn
          BY <5>3 DEF Frame
        <5> QED
          BY <1>3, <4>1, <5>3, <5>4
      <4>3. ASSUME NEW p \in Pages
            PROVE  db[p] # txn'
        <5>1. db[p] \in dbDisk[p] /\ db[p] \in 0..Garbage
          BY <1>1, LogFields
        <5>2. db[p] <= txn \/ db[p] = Garbage
          BY <1>1, <5>1 DEF Shared, Past
        <5> QED
          BY <1>3, <4>1, <5>1, <5>2
      <4> QED
        BY <1>1, <1>3, <1>5, <1>6, <4>1, <4>2, <4>3 DEF NewStamp
    <3> QED
      BY <3>1, <3>2
  <2>7. Sees(N)'
    <3>1. CASE N.at = "frame"
      <4>1. lock = K.readLock /\ (Reads(N) => Reads(K))
        BY <1>1, <1>5, <3>1 DEF at, lock, Reads, Closing
      <4>2. K.readLock > 0 => K.minFrame \in 1..(shm.nBackfill + 1)
        BY <1>1 DEF Data, Sees
      <4>3. Reads(N)' => Reads(N)
        BY DEF Reads
      <4> QED
        BY <1>1, <1>5, <1>6, <3>1, <4>1, <4>2, <4>3 DEF Data, Sees
    <3>2. CASE N.at = "restart"
      <4>1. K.readLock = 0 /\ shm.nBackfill > 0
        BY <1>5, <3>2 DEF at
      <4>2. Public = K.hdr
        BY <1>1, <4>1 DEF Agrees, Writer, Public
      <4>3. shm.nBackfill = Public.mxFrame
        BY <1>1, <4>1, <4>2 DEF Data, Sees
      <4>4. ~Reads(N)
        BY <3>2 DEF Reads, Closing
      <4>5. ~Reads(N)'
        BY <3>2 DEF Reads, Closing
      <4>6. N.at \notin Closing
        BY <3>2 DEF Closing
      <4> QED
        BY <1>1, <1>6, <3>2, <4>1, <4>3, <4>5, <4>6 DEF Sees
    <3>3. CASE N.at = "mark"
      BY <3>3 DEF Sees, Reads, Closing
    <3> QED
      BY <1>3, <1>5, <3>1, <3>2, <3>3
  <2>8. Knows(N)' /\ Recovers(N)' /\ Checkpoints(N)' /\ Cached(N)'
    <3>1. ~K.changed
      BY <1>1 DEF Data, Checkpoints, Copying
    <3>2. Knows(N)' /\ Recovers(N)'
      BY <1>1, <1>5, <1>6, <2>1 DEF Data, Knows, Recovers
    <3>3. Checkpoints(N)'
      BY <1>5, <2>1, <3>1 DEF Checkpoints, Finds, Copies, Copying
    <3>4. Cached(N)'
      BY <1>1, <1>5, <1>6, <2>1 DEF Data, Cached, Current, Overlay
    <3> QED
      BY <3>2, <3>3, <3>4
  <2> QED
    BY <2>1, <2>3, <2>5, <2>6, <2>7, <2>8 DEF Data, Own, Owns
<1> HIDE DEF at, lock, stamp
<1> QED
  BY <1>1, <1>2, <1>4, <1>7, <1>8, <1>9, Moves
=============================================================================
