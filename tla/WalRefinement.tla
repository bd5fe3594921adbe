--------------------------- MODULE WalRefinement ---------------------------
(***************************************************************************)
(* The write-ahead log implements an atomic database, for any number of    *)
(* connections, read marks, pages and frames, whose processes may die and  *)
(* whose power may fail, as long as no restart of the log goes wrong.       *)
(* First the other steps keep DInv; then what everybody sees is read off   *)
(* it (ViewInv), and every step is shown to be one of AtomicDatabase.       *)
(***************************************************************************)
EXTENDS WalProofs

-----------------------------------------------------------------------------
(* Restarting the log.                                                     *)

\* Nothing is in doubt when the whole log has been copied.
LEMMA NoDoubt ==
  ASSUME Typed, ShmType, Shared, Live, Public.mxFrame <= shm.nBackfill
  PROVE  \A p \in Pages : ~Doubtful(p) /\ dbDisk[p] = {db[p]} /\ db[p] # Garbage
<1> DEFINE F == wal.frames
           mx == Public.mxFrame
<1>1. F \in Seq(Frame) /\ mx \in Nat /\ mx <= Len(F) /\ shm.nBackfill \in Nat /\ Opened
  BY LogFields, ShmFields DEF Public, Shared, Epoch, Shown, Live
<1>2. ASSUME NEW p \in Pages
      PROVE  dbDisk[p] = {db[p]} /\ db[p] # Garbage
  <2>1. dbDisk[p] = {db[p]}
    BY <1>1 DEF Shared, Synced
  <2>2. CASE db[p] = Garbage
    <3>1. PICK k \in 1..mx : F[k].pg = p
      BY <2>2 DEF Shared, Doubts, Doubtful
    <3>2. PICK j \in 1..mx : IsLast(F, mx, p, j)
      BY <1>1, <3>1, SomeLast
    <3>3. j \in 1..shm.nBackfill /\ j \in 1..Len(F)
      BY <1>1
    <3>4. db[p] = F[j].val
      BY <1>1, <3>2, <3>3 DEF Shared, Copied
    <3>5. F[j] \in Frame /\ Garbage = MaxTxn + 1 /\ MaxTxn \in Nat
      BY <3>3, LogFields
    <3>6. F[j].val \in 0..MaxTxn /\ Garbage \notin 0..MaxTxn
      BY <3>5 DEF Frame
    <3> QED
      BY <2>2, <3>4, <3>6
  <2> QED
    BY <2>1, <2>2
<1> QED
  BY <1>2 DEF Doubtful

\* Nobody reads the log that is restarted, and no checkpoint copies it.
LEMMA Alone2 ==
  ASSUME IInv, NEW c \in Conns, conn[c].at \in {"restart2", "restart3"}, NEW d \in Conns \ {c}
  PROVE  /\ ~(conn[d].readLock > 0) /\ ~Reads(conn[d]) /\ conn[d].at # "copy"
         /\ conn[c].at = "restart2" => conn[d].at \notin {"start"} \union Copying
<1> DEFINE K == conn[c]
           D == conn[d]
<1>1. K \in Conn /\ Alone(K) /\ D \in Conn /\ Alone(D) /\ Pair(K, D)
  BY Known
<1>2. K.exRead = Marks /\ K.readLock = 0
  BY <1>1 DEF Alone, Locks, Held, Recovery, Restarting
<1>3. D.readLock \notin Marks /\ 0 \notin D.exRead
  BY <1>1, <1>2 DEF Pair, Excludes
<1>4. ~(D.readLock > 0)
  BY <1>1, <1>3, ConnFields, WalAssumption DEF Marks
<1>5. D.at # "copy"
  BY <1>1, <1>3 DEF Alone, Locks, Held, Recovery
<1>6. K.at = "restart2" => D.at \notin {"start"} \union Copying
  BY <1>1 DEF Pair, Waits
<1> QED
  BY <1>4, <1>5, <1>6 DEF Reads

\* The state of a writer that has the public header and has written nothing.
LEMMA WriterStarts ==
  ASSUME NEW K \in Conn, ShmType, Data(K), K.writeLock, K.at \in {"restart", "restart2"}, K.hdr.mxFrame <= Public.mxFrame
  PROVE  /\ Owns(K) /\ ~Announces(K) /\ Leads(K) /\ OwnFrames(K) /\ NewStamp(K) /\ K.written = {} /\ K.stamp # 0 /\ K.changed = FALSE
         /\ shm.nBackfill = Public.mxFrame /\ shm.nBackfill > 0 /\ Public.mxFrame \in Nat
<1>1. /\ Owns(K) /\ ~Announces(K) /\ K.at \notin {"append", "read", "start"} \union Copying /\ Top(K) = K.hdr.mxFrame
      /\ Public.mxFrame \in Nat /\ K.hdr.mxFrame \in Nat /\ K.changed \in BOOLEAN
  BY ShmFields, ConnFields DEF Owns, Announces, Recovery, Copying, Top, Public, Conn
<1>2. Leads(K) /\ OwnFrames(K) /\ NewStamp(K) /\ Sees(K) /\ Checkpoints(K)
  BY <1>1 DEF Data, Own
<1>3. (Public.mxFrame + 1)..K.hdr.mxFrame = {}
  BY <1>1
<1>4. K.written = {}
  BY <1>1, <1>2, <1>3 DEF OwnFrames
<1> QED
  BY <1>1, <1>2, <1>4 DEF NewStamp, Sees, Checkpoints

LEMMA RestartData ==
  ASSUME IInv, DInv, NEW c \in Conns, Restart(c)
  PROVE  DInv'
<1> DEFINE K == conn[c]
           hdr == [K.hdr EXCEPT !.mxFrame = 0, !.salt = K.hdr.salt + 1]
<1>1. /\ K \in Conn /\ Alone(K) /\ Agrees(K) /\ Data(K) /\ Typed /\ ShmType /\ Shared /\ K.on /\ K.at = "restart" /\ K.writeLock = TRUE
      /\ Opened
  BY Facts, OpenHeader DEF Restart, At, Alone, Locks, Conn, Restarting
<1>2. K.hdr = Public /\ Public.isInit
  BY <1>1 DEF Agrees, Writer, Public, Data, Knows
<1>3. /\ Owns(K) /\ ~Announces(K) /\ Leads(K) /\ OwnFrames(K) /\ NewStamp(K) /\ K.written = {} /\ K.stamp # 0 /\ K.changed = FALSE
      /\ shm.nBackfill = Public.mxFrame /\ shm.nBackfill > 0 /\ Public.mxFrame \in Nat
  <2>1. K.hdr.mxFrame <= Public.mxFrame
    BY <1>1, <1>2, ConnFields
  <2> QED
    BY <1>1, <2>1, WriterStarts
<1>4. CASE Become(c, [K EXCEPT !.at = "restart2", !.hdr = hdr, !.exRead = Marks]) /\ shm' = [shm EXCEPT !.hdr[2] = hdr]
  <2>1. K.hdr \in Hdr
    BY <1>1, ConnFields
  <2>2. hdr.mxFrame = 0 /\ hdr.salt = K.hdr.salt + 1 /\ hdr.isInit = K.hdr.isInit /\ K.hdr.salt \in Nat
    BY <2>1 DEF Hdr
  <2> HIDE DEF hdr
  <2>3. PICK N : N = [K EXCEPT !.at = "restart2", !.hdr = hdr, !.exRead = Marks]
    OBVIOUS
  <2>4. /\ N.at = "restart2" /\ N.hdr = hdr /\ N.writeLock = TRUE /\ N.written = {} /\ N.stamp = K.stamp /\ N.changed = FALSE
        /\ N.cache = K.cache /\ N.on /\ N.readLock = K.readLock
    BY <1>1, <1>3, <2>3 DEF Conn
  <2>5. Still
    BY <1>1, <1>4 DEF Still, ShmType, Restart, history
  <2>6. Epoch'
    <3>1. /\ shm'.hdr[1] = shm.hdr[1] /\ shm'.nBackfill = shm.nBackfill /\ shm'.index = shm.index /\ wal' = wal /\ walDisk' = walDisk
      BY <2>5 DEF Still, log
    <3>2. Public' = Public /\ Live
      BY <1>1, <1>2, <3>1 DEF Public, Live
    <3>3. Public.salt = wal.salt /\ Public.salt <= wal.salt
      <4>1. Public.salt = wal.salt
        BY <1>1, <1>3, <3>2 DEF Shared, Epoch
      <4> QED
        BY <1>2, <2>2, <4>1
    <3> QED
      BY <1>1, <1>2, <3>1, <3>2, <3>3 DEF Shared, Epoch, Shown
  <2>7. Data(N)
    <3>1. ~Announces(N) /\ Top(N) = 0 /\ N.at \notin {"append", "idle", "bad", "check", "read", "start"} \union Closing \union Copying \union Recovery
      BY <2>2, <2>4 DEF Announces, Top, Closing, Copying, Recovery
    <3>2. Leads(N)
      <4>1. Shown(0)
        BY <1>1, LogFields DEF Shown
      <4>2. Public.salt <= hdr.salt
        BY <1>2, <2>2
      <4> QED
        BY <1>2, <2>2, <2>4, <3>1, <4>1, <4>2 DEF Leads
    <3>3. OwnFrames(N)
      <4>1. (Public.mxFrame + 1)..Top(N) = {}
        BY <1>3, <3>1
      <4> QED
        BY <2>4, <3>1, <4>1 DEF OwnFrames
    <3>4. NewStamp(N)
      BY <1>3, <2>4 DEF NewStamp
    <3>5. Knows(N) /\ Recovers(N) /\ Checkpoints(N)
      BY <1>2, <2>2, <2>4, <3>1 DEF Knows, Recovers, Checkpoints, Finds, Copies
    <3>6. Sees(N)
      BY <1>3, <2>4, <3>1 DEF Sees, Reads
    <3>7. Cached(N)
      BY <1>1, <1>3, <2>4, <3>1 DEF Data, Cached, Current, Owns
    <3> QED
      BY <2>4, <3>1, <3>2, <3>3, <3>4, <3>5, <3>6, <3>7 DEF Data, Own, Owns
  <2> QED
    BY <1>1, <1>4, <2>3, <2>5, <2>6, <2>7, Quiet
<1>5. CASE Become(c, [K EXCEPT !.at = "mark", !.readLock = -1]) /\ shm' = shm
  <2>1. PICK N : N = [K EXCEPT !.at = "mark", !.readLock = -1]
    OBVIOUS
  <2>2. /\ N.at = "mark" /\ N.hdr = K.hdr /\ N.writeLock = K.writeLock /\ N.changed = K.changed /\ N.cache = K.cache
        /\ N.stamp = K.stamp /\ N.written = K.written /\ N.on = K.on
    BY <1>1, <2>1 DEF Conn
  <2>3. N.at \in Plain /\ N.at \in Resting /\ K.at \in Plain
    BY <1>1, <2>2 DEF Plain, Choosing, Resting
  <2>4. Data(N)
    BY <1>1, <2>2, <2>3, SeesNothing, Carries
  <2>5. Still /\ shm'.hdr = shm.hdr
    BY <1>5, OnlyConnIsStill DEF Restart
  <2> QED
    BY <1>1, <1>5, <2>1, <2>4, <2>5, Quiet
<1> HIDE DEF hdr
<1> QED
  BY <1>4, <1>5 DEF Restart, hdr

\* The header of the new log replaces that of a log which has been copied.
LEMMA Restart2Data ==
  ASSUME IInv, DInv, NEW c \in Conns, Restart2(c)
  PROVE  DInv'
<1> DEFINE K == conn[c]
           F == wal.frames
<1>1. /\ K \in Conn /\ Alone(K) /\ Agrees(K) /\ Data(K) /\ Typed /\ ShmType /\ Shared /\ K.on /\ K.at = "restart2" /\ K.writeLock = TRUE
      /\ Opened /\ wal' = wal /\ walDisk' = walDisk /\ db' = db /\ dbDisk' = dbDisk /\ txn' = txn
  BY Facts, OpenHeader DEF Restart2, At, Alone, Locks, Conn, Restarting, log, file, history
<1>2. K.hdr.mxFrame = 0 /\ shm.hdr[2] = K.hdr /\ Public.salt # K.hdr.salt /\ K.hdr.isInit
  BY <1>1 DEF Agrees, Writer, Data, Knows, Public
<1>3. /\ Owns(K) /\ ~Announces(K) /\ Leads(K) /\ OwnFrames(K) /\ NewStamp(K) /\ K.written = {} /\ K.stamp # 0 /\ K.changed = FALSE
      /\ shm.nBackfill = Public.mxFrame /\ shm.nBackfill > 0 /\ Public.mxFrame \in Nat
  <2>1. K.hdr.mxFrame <= Public.mxFrame
    BY <1>1, <1>2, ShmFields DEF Public
  <2> QED
    BY <1>1, <2>1, WriterStarts
<1>4. Public' = K.hdr /\ shm'.hdr[2] = K.hdr /\ shm'.nBackfill = shm.nBackfill /\ shm'.index = shm.index
  BY <1>1, <1>2 DEF Restart2, ShmType, Public
<1>5. K.hdr \in Hdr /\ Public \in Hdr
  BY <1>1, ConnFields, ShmFields DEF Public
<1>6. Public.salt < K.hdr.salt /\ Public.salt \in Nat /\ K.hdr.salt \in Nat /\ Public.isInit
  BY <1>2, <1>3, <1>5 DEF Leads, Hdr
<1>7. Live /\ Shown(Public.mxFrame)
  BY <1>1, <1>6 DEF Live, Shared, Epoch
<1>8. Overlay(F, Public.mxFrame) = db /\ Overlay(F, 0) = db
  <2>1. Overlay(F, Public.mxFrame) = db
    BY <1>1, <1>3, <1>7, AllCopied DEF Shared, Shown
  <2>2. \A p \in Pages : Apply(F, 0, db)[p] = db[p]
    BY <1>1, LogFields, ApplyIs
  <2>3. Apply(F, 0, db) = [p \in Pages |-> Apply(F, 0, db)[p]] /\ db = [p \in Pages |-> db[p]]
    BY <1>1 DEF Apply, Typed, FileType
  <2> QED
    BY <2>1, <2>2, <2>3, OverlayIsApply
<1>9. PICK N : N = [K EXCEPT !.at = "restart3"]
  OBVIOUS
<1>10. /\ N.at = "restart3" /\ N.hdr = K.hdr /\ N.writeLock = TRUE /\ N.written = {} /\ N.stamp = K.stamp /\ N.changed = FALSE
       /\ N.cache = K.cache /\ N.on
  BY <1>1, <1>3, <1>9 DEF Conn
<1>11. Become(c, N)
  BY <1>1, <1>9, GotoIsBecome DEF Restart2
<1>12. Shared'
  <2>1. Contiguous' /\ Past'
    BY <1>1, <1>4 DEF Shared, Contiguous, Past
  <2>2. Epoch'
    <3>1. Shown(0)'
      BY <1>1, <1>4, LogFields DEF Shown
    <3> QED
      BY <1>1, <1>2, <1>4, <3>1 DEF Shared, Epoch
  <2>3. Copied'
    BY <1>2, <1>4 DEF Copied, IsLast
  <2>4. \A p \in Pages : ~Doubtful(p) /\ dbDisk[p] = {db[p]}
    <3>1. Public.mxFrame <= shm.nBackfill
      BY <1>3
    <3> QED
      BY <1>1, <1>7, <3>1, NoDoubt
  <2>5. Doubts' /\ Synced'
    BY <1>1, <2>4 DEF Doubts, Doubtful, Synced
  <2> QED
    BY <2>1, <2>2, <2>3, <2>5 DEF Shared
<1>13. ASSUME NEW d \in Conns \ {c}, NEW D, D = conn[d], D.on
       PROVE  Data(D)'
  <2>1. /\ D.writeLock = FALSE /\ D.at \notin Recovery \union Closing \union Restarting /\ D.stamp = 0 /\ NotAfter(D.hdr, Public)
        /\ (D.on /\ D.at \notin {"idle", "bad"} => D.hdr.isInit) /\ Checkpoints(D) /\ D \in Conn /\ Alone(D)
    BY <1>1, <1>13, Others
  <2>2. ~(D.readLock > 0) /\ ~Reads(D) /\ D.at \notin {"start"} \union Copying
    BY <1>1, <1>13, Alone2
  <2>3. D.hdr # K.hdr
    <3>1. D.hdr = K.hdr => K.hdr.salt <= Public.salt
      BY <1>2, <1>6, <2>1 DEF NotAfter
    <3> QED
      BY <1>6, <3>1
  <2>4. NotAfter(D.hdr, K.hdr)
    <3>1. D.hdr \in Hdr
      BY <2>1, ConnFields
    <3> QED
      BY <1>2, <1>6, <2>1, <3>1 DEF NotAfter, Hdr
  <2>5. Sees(D)'
    <3>1. ~Reads(D)' /\ D.at \notin {"restart", "restart2"}
      BY <2>1, <2>2 DEF Reads, Restarting
    <3> QED
      BY <1>4, <2>2, <2>3, <3>1 DEF Sees
  <2>6. Checkpoints(D)' /\ Cached(D)'
    <3>1. ~D.changed /\ D.at \notin Copying /\ D.at # "start" /\ D.at # "copy"
      BY <2>1, <2>2 DEF Checkpoints, Copying
    <3>2. Checkpoints(D)'
      BY <3>1 DEF Checkpoints, Finds, Copies
    <3>3. Cached(D)'
      BY <1>4, <2>1, <2>3 DEF Cached, Current, Owns
    <3> QED
      BY <3>2, <3>3
  <2> QED
    BY <1>4, <2>1, <2>4, <2>5, <2>6, OtherLater
<1>14. Data(N)'
  <2>1. /\ ~Announces(N) /\ Top(N)' = 0 /\ Owns(N)
        /\ N.at \notin {"append", "idle", "bad", "check", "read", "start", "restart", "restart2", "copy"} \union Closing \union Copying \union Recovery
    BY <1>2, <1>10 DEF Announces, Top, Owns, Closing, Copying, Recovery
  <2>2. Leads(N)'
    <3>1. Shown(0)'
      BY <1>1, <1>4, LogFields DEF Shown
    <3> QED
      BY <1>2, <1>4, <1>6, <1>10, <2>1, <3>1 DEF Leads, Announces
  <2>3. OwnFrames(N)'
    <3>1. (Public'.mxFrame + 1)..Top(N)' = {}
      BY <1>2, <1>4, <2>1
    <3> QED
      BY <1>10, <2>1, <3>1 DEF OwnFrames
  <2>4. NewStamp(N)'
    <3>1. 1..Public'.mxFrame = {}
      BY <1>2, <1>4
    <3> QED
      BY <1>1, <1>3, <1>10, <3>1 DEF NewStamp
  <2>5. Knows(N)' /\ Recovers(N)' /\ Checkpoints(N)' /\ Sees(N)'
    BY <1>2, <1>10, <2>1 DEF Knows, Recovers, Checkpoints, Finds, Copies, Sees, Reads
  <2>6. Cached(N)'
    <3>1. Cached(K) /\ Current(K)
      BY <1>1, <1>3 DEF Data, Current
    <3>2. K.cache # NotCached => K.cache = db
      BY <1>6, <1>8, <3>1 DEF Cached
    <3>3. Overlay(wal.frames, Public.mxFrame)' = Overlay(F, 0)
      BY <1>1, <1>2, <1>4 DEF Overlay
    <3> QED
      BY <1>8, <1>10, <3>2, <3>3 DEF Cached
  <2> QED
    BY <1>10, <2>1, <2>2, <2>3, <2>4, <2>5, <2>6 DEF Data, Own, Owns
<1> QED
  BY <1>1, <1>11, <1>12, <1>13, <1>14, Moves

\* nBackfill follows.
LEMMA Restart3Data ==
  ASSUME IInv, DInv, NEW c \in Conns, Restart3(c)
  PROVE  DInv'
<1> DEFINE K == conn[c]
           F == wal.frames
<1>1. /\ K \in Conn /\ Alone(K) /\ Agrees(K) /\ Data(K) /\ Typed /\ ShmType /\ Shared /\ K.on /\ K.at = "restart3" /\ K.writeLock = TRUE
      /\ Opened /\ wal' = wal /\ walDisk' = walDisk /\ db' = db /\ dbDisk' = dbDisk /\ txn' = txn /\ shm.nBackfill \in Nat
  BY Facts, OpenHeader, ShmFields DEF Restart3, At, Alone, Locks, Conn, Restarting, log, file, history
<1>2. K.hdr.mxFrame = 0 /\ Public = K.hdr /\ K.hdr.isInit
  BY <1>1 DEF Agrees, Writer, Data, Knows, Public
<1>3. Public' = Public /\ shm'.hdr[2] = shm.hdr[2] /\ shm'.nBackfill = 0 /\ shm'.index = shm.index
  BY <1>1 DEF Restart3, ShmType, Public
<1>4. PICK N : N = [K EXCEPT !.at = "mark", !.readLock = -1, !.exRead = {}]
  OBVIOUS
<1>5. /\ N.at = "mark" /\ N.hdr = K.hdr /\ N.writeLock = TRUE /\ N.written = K.written /\ N.stamp = K.stamp /\ N.changed = K.changed
      /\ N.cache = K.cache /\ N.on
  BY <1>1, <1>4 DEF Conn
<1>6. Live /\ (Live' => Live)
  BY <1>1, <1>2 DEF Live
<1>7. Shared'
  <2>1. Contiguous' /\ Past'
    BY <1>1, <1>3 DEF Shared, Contiguous, Past
  <2>2. Epoch'
    BY <1>1, <1>2, <1>3, <1>6 DEF Shared, Epoch, Shown
  <2>3. Copied'
    BY <1>3 DEF Copied
  <2>4. Doubts' /\ Synced'
    BY <1>1, <1>2, <1>3, <1>6 DEF Shared, Doubts, Doubtful, Synced
  <2> QED
    BY <2>1, <2>2, <2>3, <2>4 DEF Shared
<1>8. ASSUME NEW d \in Conns \ {c}, NEW D, D = conn[d], D.on
      PROVE  Data(D)'
  <2>1. /\ D.writeLock = FALSE /\ D.at \notin Recovery \union Closing \union Restarting /\ D.stamp = 0 /\ NotAfter(D.hdr, Public)
        /\ (D.on /\ D.at \notin {"idle", "bad"} => D.hdr.isInit) /\ Checkpoints(D) /\ Cached(D)
    BY <1>1, <1>8, Others DEF Data
  <2>2. ~(D.readLock > 0) /\ ~Reads(D) /\ D.at # "copy"
    BY <1>1, <1>8, Alone2
  <2>3. Sees(D)'
    <3>1. ~Reads(D)' /\ D.at \notin {"restart", "restart2"}
      BY <2>1, <2>2 DEF Reads, Restarting
    <3> QED
      BY <1>2, <1>3, <2>2, <3>1 DEF Sees
  <2>4. Checkpoints(D)' /\ Cached(D)'
    <3>1. Checkpoints(D)'
      BY <1>1, <2>1, <2>2 DEF Checkpoints, Finds, Copies, Committed
    <3>2. Cached(D)'
      BY <1>1, <1>3, <2>1 DEF Cached, Current, Overlay
    <3> QED
      BY <3>1, <3>2
  <2> QED
    BY <1>3, <2>1, <2>3, <2>4, OtherLater
<1>9. Data(N)'
  <2>1. Owns(K) /\ Owns(N) /\ ~Announces(K) /\ ~Announces(N) /\ Top(K) = 0 /\ Top(N)' = 0 /\ N.at # "append" /\ K.at # "append"
        /\ K.at \notin {"start", "copy", "idle", "bad", "read"} \union Copying /\ N.at \notin {"start", "copy", "read", "restart", "restart2"} \union Copying \union Recovery
    BY <1>1, <1>2, <1>5 DEF Announces, Top, Owns, Copying, Recovery
  <2>2. Leads(K) /\ OwnFrames(K) /\ NewStamp(K) /\ Checkpoints(K) /\ Cached(K) /\ Knows(K)
    BY <1>1, <2>1 DEF Data, Own
  <2>3. Leads(N)'
    BY <1>1, <1>3, <1>5, <2>1, <2>2 DEF Leads, Shown, Announces
  <2>4. OwnFrames(N)'
    BY <1>1, <1>2, <1>3, <1>5, <2>1, <2>2 DEF OwnFrames, Announces
  <2>5. NewStamp(N)'
    BY <1>1, <1>3, <1>5, <2>1, <2>2 DEF NewStamp
  <2>6. Knows(N)' /\ Recovers(N)' /\ Checkpoints(N)'
    BY <1>1, <1>3, <1>5, <2>1, <2>2 DEF Knows, Recovers, Checkpoints, Finds, Copies
  <2>7. Sees(N)'
    BY <1>5, <2>1 DEF Sees, Reads, Closing
  <2>8. Cached(N)'
    BY <1>1, <1>3, <1>5, <2>1, <2>2 DEF Cached, Current, Overlay
  <2> QED
    BY <1>5, <2>1, <2>3, <2>4, <2>5, <2>6, <2>7, <2>8 DEF Data, Own, Owns
<1>10. Become(c, N)
  BY <1>4 DEF Restart3
<1> QED
  BY <1>1, <1>7, <1>8, <1>9, <1>10, Moves

-----------------------------------------------------------------------------
(* Publishing a transaction.                                               *)

\* The writer that is about to publish.
LEMMA Announcer ==
  ASSUME IInv, DInv, NEW c \in Conns, conn[c].on, conn[c].at \in {"publish", "publish2"}
  PROVE  LET K == conn[c] IN
         /\ K \in Conn /\ Data(K) /\ Typed /\ ShmType /\ Shared /\ Live /\ Public.isInit
         /\ K.writeLock = TRUE /\ K.changed = FALSE /\ K.readLock > 0 /\ Reads(K)
         /\ Owns(K) /\ Announces(K) /\ Leads(K) /\ OwnFrames(K) /\ NewStamp(K) /\ K.hdr.isInit /\ K.stamp # 0
         /\ K.hdr.mxFrame \in Nat /\ Public.mxFrame \in Nat /\ Public.mxFrame < K.hdr.mxFrame /\ K.hdr.salt = wal.salt
         /\ Top(K) = K.hdr.mxFrame /\ shm.nBackfill \in Nat /\ shm.nBackfill <= Public.mxFrame
         /\ Public.salt \in Nat /\ wal.salt \in Nat /\ Public.salt <= wal.salt /\ Len(wal.frames) = K.hdr.mxFrame
<1> DEFINE K == conn[c]
<1>1. K \in Conn /\ Alone(K) /\ Data(K) /\ Typed /\ ShmType /\ Shared /\ Opened /\ K.changed \in BOOLEAN
  BY Facts, OpenHeader DEF Conn
<1>2. /\ Announces(K) /\ K.at \in Closing /\ Top(K) = K.hdr.mxFrame
      /\ K.at \notin Recovery \union {"start", "append", "read", "idle", "bad"} \union Copying
  BY DEF Announces, Closing, Recovery, Copying, Top
<1>3. K.writeLock = TRUE /\ K.readLock \in Marks
  BY <1>1, <1>2 DEF Alone, Locks, Conn
<1>4. K.readLock > 0 /\ Reads(K)
  BY <1>2, <1>3, WalAssumption DEF Marks, Reads
<1>5. K.changed = FALSE /\ K.hdr.isInit
  BY <1>1, <1>2 DEF Data, Checkpoints, Knows
<1>6. Owns(K) /\ Leads(K) /\ OwnFrames(K) /\ NewStamp(K)
  BY <1>1, <1>2, <1>3 DEF Data, Own, Owns
<1>7. K.stamp # 0 /\ Public.isInit /\ Public.salt <= K.hdr.salt /\ K.hdr.salt = wal.salt /\ Public.mxFrame < K.hdr.mxFrame
      /\ Len(wal.frames) = K.hdr.mxFrame
  BY <1>2, <1>6 DEF NewStamp, Leads
<1>8. K.hdr.mxFrame \in Nat /\ Public.mxFrame \in Nat /\ shm.nBackfill \in Nat /\ wal.salt \in Nat /\ Public.salt \in Nat
  <2>1. K.hdr.mxFrame \in Nat
    BY <1>1, ConnFields
  <2>2. Public \in Hdr /\ Public.mxFrame \in Nat /\ shm.nBackfill \in Nat
    BY <1>1, ShmFields DEF Public
  <2>3. wal.salt \in Nat
    BY <1>1, LogFields
  <2>4. Public.salt \in Nat
    BY <2>2 DEF Hdr
  <2> QED
    BY <2>1, <2>2, <2>3, <2>4
<1>9. shm.nBackfill <= Public.mxFrame
  <2>1. ASSUME NEW d \in Conns
        PROVE  conn[d].at # "restart3"
    <3>1. CASE d = c
      BY <1>2, <3>1 DEF Closing
    <3>2. CASE d # c
      BY <1>3, <3>2, OnlyWriter DEF Restarting
    <3> QED
      BY <3>1, <3>2
  <2> QED
    BY <1>1, <2>1 DEF IInv, Header, Opened, Public
<1> QED
  BY <1>1, <1>2, <1>3, <1>4, <1>5, <1>6, <1>7, <1>8, <1>9 DEF Live

LEMMA PublishData ==
  ASSUME IInv, DInv, NEW c \in Conns, Publish(c)
  PROVE  DInv'
<1> DEFINE K == conn[c]
<1>1. K.on /\ K.at = "publish" /\ Opened
  BY OpenHeader DEF Publish, At
<1>2. /\ K \in Conn /\ Data(K) /\ Typed /\ ShmType /\ Shared /\ Live /\ Public.isInit
      /\ K.writeLock = TRUE /\ K.changed = FALSE /\ Reads(K)
      /\ Owns(K) /\ Announces(K) /\ Leads(K) /\ OwnFrames(K) /\ NewStamp(K) /\ K.hdr.isInit /\ K.stamp # 0
      /\ Top(K) = K.hdr.mxFrame /\ Public.salt <= wal.salt
  BY <1>1, Announcer
<1>3. Still
  BY <1>2 DEF Still, ShmType, Publish, history
<1>4. Epoch'
  <2>1. /\ shm'.hdr[1] = shm.hdr[1] /\ shm'.nBackfill = shm.nBackfill /\ shm'.index = shm.index /\ wal' = wal /\ walDisk' = walDisk
    BY <1>3 DEF Still, log
  <2>2. Public' = Public
    BY <2>1 DEF Public
  <2> QED
    BY <1>2, <2>1, <2>2 DEF Shared, Epoch, Shown
<1>5. PICK N : N = [K EXCEPT !.at = "publish2"]
  OBVIOUS
<1>6. /\ N.at = "publish2" /\ N.hdr = K.hdr /\ N.writeLock = TRUE /\ N.written = K.written /\ N.stamp = K.stamp /\ N.changed = FALSE
      /\ N.cache = K.cache /\ N.on /\ N.readLock = K.readLock /\ N.minFrame = K.minFrame
  BY <1>1, <1>2, <1>5 DEF Conn
<1>7. Data(N)
  <2>1. Owns(N) /\ Announces(N) /\ Top(N) = K.hdr.mxFrame /\ K.at \in Closing /\ N.at \in Closing
        /\ N.at \notin {"append", "idle", "bad", "start", "read", "restart", "restart2", "copy"} \union Copying \union Recovery
    BY <1>1, <1>6 DEF Owns, Announces, Top, Closing, Copying, Recovery
  <2>2. Leads(N)
    BY <1>2, <1>6, <2>1 DEF Leads
  <2>3. OwnFrames(N)
    BY <1>1, <1>2, <1>6, <2>1 DEF OwnFrames
  <2>4. NewStamp(N)
    BY <1>2, <1>6 DEF NewStamp
  <2>5. Knows(N) /\ Recovers(N) /\ Checkpoints(N)
    BY <1>2, <1>6, <2>1 DEF Knows, Recovers, Checkpoints, Finds, Copies
  <2>6. Sees(N)
    BY <1>2, <1>6, <2>1 DEF Data, Sees, Reads
  <2>7. Cached(N)
    BY <1>2, <1>6, <2>1 DEF Data, Cached, Current
  <2> QED
    BY <2>1, <2>2, <2>3, <2>4, <2>5, <2>6, <2>7 DEF Data, Own
<1>8. Become(c, N)
  BY <1>5, GotoIsBecome DEF Publish
<1> QED
  BY <1>1, <1>2, <1>3, <1>4, <1>6, <1>7, <1>8, Quiet

\* The first copy of the header makes the transaction what the database is.
LEMMA PublishedImage ==
  ASSUME IInv, DInv, NEW c \in Conns, conn[c].on, conn[c].at \in {"publish", "publish2"}, NEW p \in Pages
  PROVE  LET K == conn[c] IN
         Overlay(wal.frames, K.hdr.mxFrame)[p] = IF p \in K.written THEN K.stamp ELSE Overlay(wal.frames, Public.mxFrame)[p]
<1> DEFINE K == conn[c]
           F == wal.frames
<1>1. /\ Typed /\ OwnFrames(K) /\ Top(K) = K.hdr.mxFrame /\ K.hdr.mxFrame \in Nat /\ Public.mxFrame \in Nat
      /\ Public.mxFrame < K.hdr.mxFrame /\ Len(F) = K.hdr.mxFrame
  BY Announcer
<1>2. F \in Seq(Frame) /\ Public.mxFrame <= K.hdr.mxFrame /\ K.hdr.mxFrame <= Len(F)
  BY <1>1, LogFields
<1>3. \A k \in (Public.mxFrame + 1)..K.hdr.mxFrame : F[k].val = K.stamp
  BY <1>1 DEF OwnFrames
<1>4. /\ p \in K.written => \E k \in (Public.mxFrame + 1)..K.hdr.mxFrame : F[k].pg = p
      /\ p \notin K.written => \A k \in (Public.mxFrame + 1)..K.hdr.mxFrame : F[k].pg # p
  BY <1>1 DEF OwnFrames
<1>5. \/ \E k \in (Public.mxFrame + 1)..K.hdr.mxFrame : F[k].pg = p /\ Apply(F, K.hdr.mxFrame, db)[p] = F[k].val
      \/ /\ \A k \in (Public.mxFrame + 1)..K.hdr.mxFrame : F[k].pg # p
         /\ Apply(F, K.hdr.mxFrame, db)[p] = Apply(F, Public.mxFrame, db)[p]
  <2>1. PICK f \in Seq(Frame), m \in Nat, n \in Nat : f = F /\ m = Public.mxFrame /\ n = K.hdr.mxFrame
    BY <1>1, <1>2
  <2>2. m <= n /\ n <= Len(f)
    BY <1>2, <2>1
  <2>3. \/ \E k \in (m + 1)..n : f[k].pg = p /\ Apply(f, n, db)[p] = f[k].val
        \/ (\A k \in (m + 1)..n : f[k].pg # p) /\ Apply(f, n, db)[p] = Apply(f, m, db)[p]
    BY <2>2, ApplyMore
  <2> QED
    BY <2>1, <2>3
<1>6. Apply(F, K.hdr.mxFrame, db)[p] = IF p \in K.written THEN K.stamp ELSE Apply(F, Public.mxFrame, db)[p]
  BY <1>3, <1>4, <1>5
<1> QED
  BY <1>6, OverlayIsApply

LEMMA Publish2Data ==
  ASSUME IInv, DInv, NEW c \in Conns, Publish2(c)
  PROVE  DInv'
<1> DEFINE K == conn[c]
           F == wal.frames
           R == K.hdr
           cache == IF K.cache = NotCached THEN NotCached ELSE [p \in Pages |-> IF p \in K.written THEN K.stamp ELSE K.cache[p]]
<1>1. K.on /\ K.at = "publish2" /\ Opened /\ wal' = wal /\ walDisk' = walDisk /\ db' = db /\ dbDisk' = dbDisk /\ txn' = txn
  BY OpenHeader DEF Publish2, At, log, file, history
<1>2. /\ K \in Conn /\ Data(K) /\ Typed /\ ShmType /\ Shared /\ Live /\ Public.isInit
      /\ K.writeLock = TRUE /\ K.changed = FALSE /\ K.readLock > 0 /\ Reads(K)
      /\ Owns(K) /\ Leads(K) /\ OwnFrames(K) /\ NewStamp(K) /\ R.isInit
      /\ R.mxFrame \in Nat /\ Public.mxFrame \in Nat /\ Public.mxFrame < R.mxFrame /\ R.salt = wal.salt
      /\ Top(K) = R.mxFrame /\ shm.nBackfill \in Nat /\ shm.nBackfill <= Public.mxFrame
      /\ Public.salt \in Nat /\ wal.salt \in Nat /\ Public.salt <= wal.salt
  BY <1>1, Announcer
<1>3. Public' = R /\ shm'.hdr[2] = shm.hdr[2] /\ shm'.nBackfill = shm.nBackfill /\ shm'.index = shm.index
  BY <1>2 DEF Publish2, ShmType, Public
<1>4. Shown(Public.mxFrame)'
  BY <1>1, <1>2, <1>3 DEF Leads, Shown
<1>5. PICK N : N = [K EXCEPT !.at = "read", !.writeLock = FALSE, !.stamp = 0, !.written = {}, !.cache = cache]
  OBVIOUS
<1>6. /\ N.at = "read" /\ N.hdr = R /\ N.writeLock = FALSE /\ N.written = {} /\ N.stamp = 0 /\ N.changed = FALSE
      /\ N.cache = cache /\ N.on /\ N.readLock = K.readLock /\ N.minFrame = K.minFrame
  BY <1>1, <1>2, <1>5 DEF Conn
<1>7. Become(c, N)
  BY <1>5 DEF Publish2
<1>8. Shared'
  <2>1. Contiguous' /\ Past'
    BY <1>1, <1>2, <1>3 DEF Shared, Contiguous, Past
  <2>2. Epoch'
    BY <1>1, <1>2, <1>3, <1>4 DEF Shared, Epoch
  <2>3. Copied'
    <3>1. ASSUME NEW p \in Pages, NEW k \in 1..shm.nBackfill, IsLast(F, R.mxFrame, p, k)
          PROVE  IsLast(F, Public.mxFrame, p, k)
      <4>1. k \in 1..Public.mxFrame /\ \A j \in (k + 1)..Public.mxFrame : j \in (k + 1)..R.mxFrame
        BY <1>2
      <4> QED
        BY <3>1, <4>1 DEF IsLast
    <3>2. \A p \in Pages : \A k \in 1..shm.nBackfill : IsLast(F, R.mxFrame, p, k) => db[p] = F[k].val
      BY <1>1, <1>2, <3>1 DEF Shared, Copied
    <3> QED
      BY <1>1, <1>3, <3>2 DEF Copied, IsLast
  <2>4. Doubts'
    <3>1. \A k \in 1..Public.mxFrame : k \in 1..R.mxFrame
      BY <1>2
    <3>2. \A p \in Pages : Doubtful(p) =>
            (\A f \in walDisk : Covers(f, p)) /\ \E k \in 1..R.mxFrame : F[k].pg = p
      BY <1>2, <3>1 DEF Shared, Doubts
    <3> QED
      BY <1>1, <1>3, <3>2 DEF Doubts, Doubtful
  <2>5. Synced'
    <3>1. ~(shm.nBackfill >= R.mxFrame)
      BY <1>2
    <3> QED
      BY <1>3, <3>1 DEF Synced
  <2> QED
    BY <2>1, <2>2, <2>3, <2>4, <2>5 DEF Shared
<1>9. ASSUME NEW d \in Conns \ {c}, NEW D, D = conn[d], D.on
      PROVE  Data(D)'
  <2>1. /\ D.writeLock = FALSE /\ D.at \notin Recovery \union Closing \union Restarting /\ D.stamp = 0 /\ NotAfter(D.hdr, Public)
        /\ (D.on /\ D.at \notin {"idle", "bad"} => D.hdr.isInit) /\ Checkpoints(D) /\ Sees(D) /\ D.hdr \in Hdr /\ D.hdr.mxFrame \in Nat
    BY <1>2, <1>9, Others, ConnFields
  <2>2. NotAfter(D.hdr, R) /\ D.hdr # R
    BY <1>2, <2>1 DEF NotAfter, Hdr
  <2>3. Sees(D)'
    <3>1. Reads(D) /\ D.hdr.mxFrame <= Public.mxFrame => D.hdr.mxFrame <= R.mxFrame
      BY <1>2, <2>1
    <3> QED
      BY <1>1, <1>3, <2>1, <2>2, <3>1 DEF Sees, Reads, IsLast, Restarting
  <2>4. Checkpoints(D)' /\ Cached(D)'
    <3>1. Checkpoints(D)'
      BY <1>1, <1>3, <2>1 DEF Checkpoints, Finds, Copies, InReach, Committed
    <3>2. Cached(D)'
      BY <1>3, <2>1, <2>2 DEF Cached, Current, Owns
    <3> QED
      BY <3>1, <3>2
  <2> QED
    BY <1>3, <2>1, <2>2, <2>3, <2>4, OtherLater
<1>10. Data(N)'
  <2>1. /\ N.at \notin {"idle", "bad", "start", "restart", "restart2", "copy"} \union Copying \union Recovery
    BY <1>6 DEF Copying, Recovery
  <2>2. Knows(N)' /\ Own(N)' /\ Recovers(N)' /\ Checkpoints(N)'
    BY <1>2, <1>3, <1>6, <2>1 DEF Knows, NotAfter, Own, Owns, Recovers, Checkpoints, Finds, Copies
  <2>3. Sees(N)'
    <3>1. K.at \in Closing /\ K.readLock # 0
      BY <1>1, <1>2 DEF Closing
    <3>2. K.minFrame \in 1..(shm.nBackfill + 1)
          /\ \A p \in Pages : \A k \in 1..(K.minFrame - 1) : IsLast(F, R.mxFrame, p, k) => db[p] = F[k].val
      BY <1>2, <3>1 DEF Data, Sees
    <3> QED
      BY <1>1, <1>2, <1>3, <1>6, <2>1, <3>1, <3>2 DEF Sees, IsLast
  <2>4. Cached(N)'
    <3>1. CASE K.cache # NotCached
      <4>1. K.cache = Overlay(F, Public.mxFrame)
        BY <1>2, <3>1 DEF Data, Cached, Current
      <4>2. \A p \in Pages : Overlay(F, R.mxFrame)[p] = IF p \in K.written THEN K.stamp ELSE K.cache[p]
        BY <1>1, <4>1, PublishedImage
      <4>3. Overlay(F, R.mxFrame) = [p \in Pages |-> Overlay(F, R.mxFrame)[p]]
        BY DEF Overlay
      <4>4. cache = Overlay(F, R.mxFrame)
        BY <3>1, <4>2, <4>3
      <4>5. Overlay(wal.frames, Public.mxFrame)' = Overlay(F, R.mxFrame)
        BY <1>1, <1>3 DEF Overlay
      <4> QED
        BY <1>6, <4>4, <4>5 DEF Cached
    <3>2. CASE K.cache = NotCached
      BY <1>6, <3>2 DEF Cached
    <3> QED
      BY <3>1, <3>2
  <2> QED
    BY <2>2, <2>3, <2>4 DEF Data
<1> QED
  BY <1>2, <1>7, <1>8, <1>9, <1>10, Moves

-----------------------------------------------------------------------------
(* Checkpoints: copying.                                                   *)

\* The log is synced.
LEMMA SyncedLog ==
  ASSUME Typed, UNCHANGED << shm, wal, db, dbDisk, txn >>, walDisk' = {wal.frames}
  PROVE  /\ Shared /\ (Opened' => Opened) => Shared'
         /\ \A D : Data(D) => Data(D)'
<1>1. wal.frames \in walDisk
  BY LogFields
<1>2. Public' = Public
  BY DEF Public
<1>3. ASSUME Shared, Opened' => Opened
      PROVE  Shared'
  <2>1. (Live' => Live)
    BY <1>2, <1>3 DEF Live
  <2>2. Contiguous' /\ Past'
    BY <1>1, <1>3 DEF Shared, Contiguous, Past
  <2>3. Epoch'
    <3>1. wal.salt = 0 => {wal.frames} = {<< >>}
      BY <1>1, <1>3 DEF Shared, Epoch
    <3> QED
      BY <1>2, <1>3, <2>1, <3>1 DEF Shared, Epoch, Shown
  <2>4. Copied' /\ Synced'
    BY <1>2, <1>3, <2>1 DEF Shared, Copied, Synced
  <2>5. Doubts'
    BY <1>1, <1>2, <1>3, <2>1 DEF Shared, Doubts, Doubtful
  <2> QED
    BY <2>2, <2>3, <2>4, <2>5 DEF Shared
<1>4. ASSUME NEW D, Data(D)
      PROVE  Data(D)'
  <2>1. Knows(D)' /\ Recovers(D)' /\ Sees(D)'
    BY <1>2, <1>4 DEF Data, Knows, Recovers, Shown, Sees
  <2>2. Own(D)'
    BY <1>2, <1>4 DEF Data, Own, Owns, Leads, Shown, OwnFrames, NewStamp, Top
  <2>3. Checkpoints(D)'
    BY <1>1, <1>4 DEF Data, Checkpoints, Finds, Copies, InReach, Committed
  <2>4. Cached(D)'
    BY <1>2, <1>4 DEF Data, Cached, Current, Overlay
  <2> QED
    BY <2>1, <2>2, <2>3, <2>4 DEF Data
<1> QED
  BY <1>3, <1>4

LEMMA CkptCopyLockData ==
  ASSUME IInv, DInv, NEW c \in Conns, CkptCopyLock(c)
  PROVE  DInv'
<1> DEFINE K == conn[c]
           b == shm.nBackfill
           copied == {p \in Pages : K.iter[p] > b /\ K.iter[p] <= K.safe}
<1>1. /\ K \in Conn /\ Alone(K) /\ Data(K) /\ Typed /\ Shared /\ K.on /\ Opened /\ K.at = "copyLock" /\ K.at \in Copying
      /\ shm' = shm /\ wal' = wal /\ db' = db /\ dbDisk' = dbDisk /\ txn' = txn
  BY Facts, OpenHeader DEF CkptCopyLock, At, Copying, file, history
<1>2. K.writeLock = FALSE /\ K.stamp = 0 /\ K.hdr.isInit /\ NotAfter(K.hdr, Public) /\ (K.changed \/ Fits(K.cache, K.hdr))
  BY <1>1, CkptFields
<1>3. CASE Become(c, Ended(K)) /\ walDisk' = walDisk
  <2>1. Still /\ shm'.hdr = shm.hdr
    BY <1>1, <1>3 DEF Still, log, file
  <2> QED
    BY <1>1, <1>2, <1>3, <2>1, EndedData, Quiet
<1>4. CASE b < K.safe /\ Become(c, [K EXCEPT !.at = "copy", !.exRead = {0}, !.todo = copied]) /\ walDisk' = {wal.frames}
  <2>1. PICK N : N = [K EXCEPT !.at = "copy", !.exRead = {0}, !.todo = copied]
    OBVIOUS
  <2>2. /\ N.at = "copy" /\ N.on = K.on /\ N.hdr = K.hdr /\ N.writeLock = FALSE /\ N.changed = K.changed /\ N.cache = K.cache
        /\ N.stamp = 0 /\ N.iter = K.iter /\ N.safe = K.safe /\ N.todo = copied
    BY <1>1, <1>2, <2>1 DEF Conn
  <2>3. Shared' /\ \A D : Data(D) => Data(D)'
    <3>1. UNCHANGED << shm, wal, db, dbDisk, txn >>
      BY <1>1
    <3>2. /\ Shared /\ (Opened' => Opened) => Shared'
          /\ \A D : Data(D) => Data(D)'
      BY <1>1, <1>4, <3>1, SyncedLog
    <3> QED
      BY <1>1, <3>2
  <2>4. Data(N)'
    <3>1. N.at \notin {"idle", "bad", "check", "read", "restart", "restart2"} \union Closing \union Recovery /\ K.at # "copy" /\ N.at \in Copying
      BY <1>1, <2>2 DEF Copying, Closing, Recovery
    <3>2. Public' = Public
      BY <1>1 DEF Public
    <3>3. Knows(N)' /\ Own(N)' /\ Recovers(N)' /\ Sees(N)'
      BY <1>1, <1>2, <2>2, <3>1, <3>2 DEF Knows, Own, Owns, Recovers, Sees, Reads
    <3>4. Committed(K.hdr.mxFrame) /\ Finds(K)
      BY <1>1 DEF Data, Checkpoints
    <3>5. Finds(N)'
      BY <1>1, <2>2, <3>1, <3>4 DEF Finds
    <3>6. K.hdr.mxFrame <= Len(wal.frames)
      BY <1>1, <3>4, LogFields DEF Committed
    <3>7. Copies(N)'
      <4>1. \A p \in Pages : p \in copied <=> shm.nBackfill < K.iter[p] /\ K.iter[p] <= K.safe
        <5>1. shm.nBackfill \in Nat
          BY <1>1, ShmFields DEF Typed
        <5>2. \A p \in Pages : K.iter[p] \in Nat
          BY <1>1, WalAssumption DEF Data, Checkpoints, Finds, IsLast
        <5> QED
          BY <5>1, <5>2
      <4> HIDE DEF copied
      <4>2. /\ N.todo \subseteq Pages
            /\ \A p \in Pages : p \in N.todo <=> InReach(N, p)'
        <5>1. N.todo \subseteq Pages
          BY <2>2 DEF copied
        <5> QED
          BY <1>1, <2>2, <4>1, <5>1 DEF InReach
      <4> QED
        BY <1>1, <1>4, <2>2, <3>6, <4>2 DEF Copies
    <3>8. Checkpoints(N)'
      BY <1>1, <2>2, <3>1, <3>4, <3>5, <3>7 DEF Checkpoints, Committed
    <3>9. Cached(N)'
      BY <1>1, <1>2, <2>2, <3>2 DEF Cached, Current, Owns, Fits, Overlay
    <3> QED
      BY <3>3, <3>8, <3>9 DEF Data
  <2>5. ASSUME NEW d \in Conns \ {c}, NEW D, D = conn[d], D.on
        PROVE  Data(D)'
    BY <2>3, <2>5, Facts
  <2> HIDE DEF copied
  <2> QED
    BY <1>1, <1>4, <2>1, <2>3, <2>4, <2>5, Moves
<1> HIDE DEF copied
<1> QED
  BY <1>3, <1>4 DEF CkptCopyLock, copied

\* The frame of a page that is copied.
LEMMA CopyFrame ==
  ASSUME IInv, DInv, NEW c \in Conns, conn[c].on, conn[c].at = "copy", NEW p \in conn[c].todo
  PROVE  LET K == conn[c]
             k == K.iter[p]
         IN  /\ p \in Pages /\ K \in Conn /\ Alone(K) /\ Data(K) /\ Typed /\ ShmType /\ Shared /\ Live /\ K.i = NReader
             /\ k \in Nat /\ shm.nBackfill \in Nat /\ K.hdr.mxFrame \in Nat /\ Public.mxFrame \in Nat
             /\ shm.nBackfill < k /\ k <= K.safe /\ K.safe <= K.hdr.mxFrame /\ K.hdr.mxFrame <= Public.mxFrame
             /\ Public.mxFrame <= Len(wal.frames) /\ k \in DOMAIN wal.frames /\ k \in 1..Public.mxFrame /\ k \in 1..K.hdr.mxFrame
             /\ wal.frames[k].pg = p /\ wal.frames[k].val \in 0..MaxTxn /\ K.safe \in Nat
<1> DEFINE K == conn[c]
           k == K.iter[p]
<1>1. K \in Conn /\ Alone(K) /\ Agrees(K) /\ Data(K) /\ Typed /\ ShmType /\ Shared /\ Opened /\ p \in Pages /\ K.at \in Copying
  BY Facts, OpenHeader DEF Conn, Copying
<1>2. K.hdr.isInit /\ NotAfter(K.hdr, Public)
  BY <1>1, CkptFields
<1>3. Live
  BY <1>1, <1>2 DEF Live, NotAfter
<1>4. /\ shm.nBackfill \in Nat /\ K.hdr.mxFrame \in Nat /\ Public.mxFrame \in Nat /\ K.safe \in Nat /\ K.i = NReader
      /\ K.safe <= K.hdr.mxFrame /\ K.hdr.mxFrame <= Public.mxFrame
  BY <1>1, ShmFields, ConnFields DEF Public, Alone, Numbers, Agrees, Behind
<1>5. shm.nBackfill < k /\ k <= K.safe /\ (IF k = 0 THEN TRUE ELSE IsLast(wal.frames, K.hdr.mxFrame, p, k))
  BY <1>1 DEF Data, Checkpoints, Finds, Copies, InReach
<1>6. k # 0
  BY <1>4, <1>5
<1>7. k \in 1..K.hdr.mxFrame /\ wal.frames[k].pg = p
  BY <1>5, <1>6 DEF IsLast
<1>8. Public.mxFrame <= Len(wal.frames)
  BY <1>1, <1>3 DEF Shared, Epoch, Shown
<1>9. k \in Nat /\ k \in 1..Public.mxFrame /\ k \in 1..Len(wal.frames)
  <2>1. PICK n \in Nat, P \in Nat, len \in Nat : n = K.hdr.mxFrame /\ P = Public.mxFrame /\ len = Len(wal.frames)
    BY <1>1, <1>4, LogFields
  <2>2. n <= P /\ P <= len /\ k \in 1..n
    BY <1>4, <1>7, <1>8, <2>1
  <2>3. k \in Nat /\ k \in 1..P /\ k \in 1..len
    BY <2>2
  <2> QED
    BY <2>1, <2>3
<1>10. k \in DOMAIN wal.frames /\ wal.frames[k] \in Frame
  BY <1>1, <1>9, LogFields
<1>11. wal.frames[k].val \in 0..MaxTxn
  BY <1>10 DEF Frame
<1> QED
  BY <1>1, <1>3, <1>4, <1>5, <1>7, <1>8, <1>9, <1>10, <1>11

\* A page is copied that everybody takes from the log, or finds as it was.
LEMMA CopyData ==
  ASSUME IInv, DInv, NEW c \in Conns, NEW p \in Pages, Copy(c, p)
  PROVE  DInv'
<1> DEFINE K == conn[c]
           F == wal.frames
<1>1. PICK k : k = K.iter[p]
  OBVIOUS
<1>2. /\ K.on /\ K.at = "copy" /\ p \in K.todo /\ shm' = shm /\ wal' = wal /\ walDisk' = walDisk /\ txn' = txn
      /\ Become(c, [K EXCEPT !.todo = K.todo \ {p}])
  BY DEF Copy, At, log, history
<1>3. /\ K \in Conn /\ Alone(K) /\ Data(K) /\ Typed /\ ShmType /\ Shared /\ Live /\ Opened /\ K.i = NReader
      /\ k \in Nat /\ shm.nBackfill \in Nat /\ K.hdr.mxFrame \in Nat /\ Public.mxFrame \in Nat
      /\ shm.nBackfill < k /\ k <= K.safe /\ K.safe <= K.hdr.mxFrame /\ K.hdr.mxFrame <= Public.mxFrame
      /\ Public.mxFrame <= Len(F) /\ k \in DOMAIN F /\ k \in 1..Public.mxFrame /\ k \in 1..K.hdr.mxFrame
      /\ F[k].pg = p /\ F[k].val \in 0..MaxTxn /\ K.safe \in Nat
  BY <1>1, <1>2, CopyFrame DEF Live
<1>4. db' = [db EXCEPT ![p] = F[k].val] /\ dbDisk' = [dbDisk EXCEPT ![p] = dbDisk[p] \union {F[k].val}]
  BY <1>1, <1>3 DEF Copy
<1>5. /\ db'[p] = F[k].val /\ dbDisk'[p] = dbDisk[p] \union {F[k].val}
      /\ \A q \in Pages \ {p} : db'[q] = db[q] /\ dbDisk'[q] = dbDisk[q]
  BY <1>3, <1>4 DEF Typed, FileType
<1>6. Public' = Public /\ shm'.nBackfill = shm.nBackfill
  BY <1>2 DEF Public
<1>7. Overlay(wal.frames, Public.mxFrame)' = Overlay(F, Public.mxFrame)
  <2>1. PICK n \in Nat, base \in {db'} : n = Public.mxFrame /\ base = db'
    BY <1>3
  <2>2. \A q \in Pages : db[q] = base[q] \/ \E j \in 1..n : F[j].pg = q
    BY <1>3, <1>5, <2>1
  <2>3. F \in Seq(Frame) /\ n <= Len(F)
    BY <1>3, <2>1, LogFields
  <2>4. Apply(F, n, db) = Apply(F, n, base)
    <3>1. SameStart(F, F, n) /\ Hides(F, n, db, base)
      BY <2>2, <2>3 DEF SameStart, Hides
    <3> QED
      BY <2>3, <3>1, ApplySame
  <2>5. Overlay(wal.frames, Public.mxFrame)' = Apply(F, n, base)
    BY <1>2, <1>6, <2>1 DEF Overlay, Apply
  <2> QED
    BY <2>1, <2>4, <2>5, OverlayIsApply
<1>8. Shared'
  <2>1. Contiguous' /\ (Opened' => Opened)
    BY <1>2, <1>3 DEF Shared, Contiguous
  <2>2. Epoch'
    BY <1>2, <1>3, <1>6 DEF Shared, Epoch, Shown, Live
  <2>3. Copied'
    <3>1. ASSUME NEW q \in Pages, NEW j \in 1..shm.nBackfill, IsLast(F, Public.mxFrame, q, j)
          PROVE  db'[q] = F[j].val
      <4>1. q # p
        <5>1. k \in (j + 1)..Public.mxFrame
          BY <1>3
        <5> QED
          BY <1>3, <3>1, <5>1 DEF IsLast
      <4> QED
        BY <1>3, <1>5, <3>1, <4>1 DEF Shared, Copied
    <3> QED
      BY <1>2, <1>6, <3>1 DEF Copied, IsLast
  <2>4. Doubts'
    <3>1. ASSUME NEW f \in walDisk
          PROVE  Covers(f, p)
      <4>1. K.hdr.mxFrame <= Len(f) /\ \A j \in 1..K.hdr.mxFrame : f[j] = F[j]
        BY <1>2, <1>3 DEF Data, Checkpoints, Copies
      <4>2. K.hdr.mxFrame \in 1..K.hdr.mxFrame /\ K.hdr.mxFrame # 0
        BY <1>3
      <4>3. F[K.hdr.mxFrame].commit
        BY <1>2, <1>3, <4>2 DEF Data, Checkpoints, Committed, Copying
      <4>4. K.hdr.mxFrame \in DOMAIN f
        <5>1. f \in Seq(Frame) /\ Len(f) \in Nat
          BY <1>3, LogFields
        <5> QED
          BY <4>1, <4>2, <5>1, LenProperties
      <4>5. K.hdr.mxFrame \in Commits(f)
        BY <4>1, <4>2, <4>3, <4>4 DEF Commits
      <4> QED
        BY <1>3, <4>1, <4>5 DEF Covers
    <3>2. ASSUME NEW q \in Pages, Doubtful(q)'
          PROVE  (\A f \in walDisk : Covers(f, q)) /\ \E j \in 1..Public.mxFrame : F[j].pg = q
      <4>1. CASE q = p
        BY <1>3, <3>1, <4>1
      <4>2. CASE q # p
        <5>1. Doubtful(q)
          BY <1>5, <3>2, <4>2 DEF Doubtful
        <5> QED
          BY <1>3, <5>1 DEF Shared, Doubts
      <4> QED
        BY <4>1, <4>2
    <3> QED
      BY <1>2, <1>6, <3>2 DEF Doubts, Covers, Commits
  <2>5. Synced'
    <3>1. ~(shm.nBackfill >= Public.mxFrame)
      BY <1>3
    <3> QED
      BY <1>6, <3>1 DEF Synced
  <2>6. Past'
    <3>1. F[k].val <= txn
      BY <1>3, LogFields DEF Shared, Past
    <3>2. \A q \in Pages : \A v \in dbDisk'[q] : v <= txn \/ v = Garbage
      BY <1>3, <1>5, <3>1 DEF Shared, Past
    <3> QED
      BY <1>2, <1>3, <3>2 DEF Shared, Past
  <2> QED
    BY <2>1, <2>2, <2>3, <2>4, <2>5, <2>6 DEF Shared
<1>9. PICK N : N = [K EXCEPT !.todo = K.todo \ {p}]
  OBVIOUS
<1>10. /\ N.at = "copy" /\ N.todo = K.todo \ {p} /\ N.on /\ N.hdr = K.hdr /\ N.writeLock = K.writeLock /\ N.changed = K.changed
       /\ N.cache = K.cache /\ N.stamp = K.stamp /\ N.iter = K.iter /\ N.safe = K.safe
  BY <1>2, <1>3, <1>9 DEF Conn
<1>11. Data(N)'
  <2>1. N.at \in Copying /\ K.at \in Copying /\ N.at \notin {"idle", "bad", "check", "read", "restart", "restart2"} \union Closing \union Recovery
    BY <1>2, <1>10 DEF Copying, Closing, Recovery
  <2>2. K.writeLock = FALSE /\ K.stamp = 0 /\ K.hdr.isInit /\ NotAfter(K.hdr, Public)
    BY <1>3, <2>1, CkptFields
  <2>3. Knows(N)' /\ Own(N)' /\ Recovers(N)' /\ Sees(N)'
    BY <1>6, <1>10, <2>1, <2>2 DEF Knows, Own, Owns, Recovers, Sees, Reads
  <2>4. Committed(K.hdr.mxFrame) /\ Finds(K) /\ Copies(K)
    BY <1>3, <2>1 DEF Data, Checkpoints
  <2>5. Finds(N)'
    BY <1>2, <1>10, <2>1, <2>4 DEF Finds, IsLast
  <2>6. Copies(N)'
    <3>1. /\ shm.nBackfill < K.safe
          /\ \A q \in K.todo : InReach(K, q)
          /\ \A q \in Pages \ K.todo : InReach(K, q) => db[q] = F[K.iter[q]].val
          /\ \A f \in walDisk : K.hdr.mxFrame <= Len(f) /\ \A j \in 1..K.hdr.mxFrame : f[j] = F[j]
      BY <1>2, <2>4 DEF Copies
    <3>2. \A q : InReach(N, q)' <=> InReach(K, q)
      BY <1>2, <1>10 DEF InReach
    <3>3. \A q \in N.todo : InReach(N, q)'
      BY <1>10, <3>1, <3>2
    <3>4. ASSUME NEW q \in Pages \ N.todo, InReach(N, q)'
          PROVE  db'[q] = F[N.iter[q]].val
      <4>1. N.iter = K.iter /\ InReach(K, q) /\ (q # p => q \in Pages \ K.todo)
        BY <1>10, <3>2, <3>4
      <4>2. CASE q = p
        BY <1>1, <1>5, <4>1, <4>2
      <4>3. CASE q # p
        BY <1>5, <3>1, <4>1, <4>3
      <4> QED
        BY <4>2, <4>3
    <3> QED
      BY <1>2, <1>10, <3>1, <3>3, <3>4 DEF Copies
  <2>7. Checkpoints(N)'
    BY <1>2, <1>10, <2>1, <2>4, <2>5, <2>6 DEF Checkpoints, Committed
  <2>8. Cached(N)'
    BY <1>3, <1>6, <1>7, <1>10, <2>1, <2>2 DEF Data, Cached, Current, Owns
  <2> QED
    BY <2>3, <2>7, <2>8 DEF Data
<1>12. ASSUME NEW d \in Conns \ {c}, NEW D, D = conn[d], D.on
       PROVE  Data(D)'
  <2>1. D \in Conn /\ Alone(D) /\ Data(D) /\ Pair(K, D)
    BY <1>12, Facts
  <2>2. D.at # "copy"
    BY <1>2, <1>3, <2>1, CkptLocks DEF Copying, Pair, Excludes
  <2>3. Knows(D)' /\ Recovers(D)'
    BY <1>2, <1>6, <2>1 DEF Data, Knows, Recovers, Shown
  <2>4. Own(D)'
    <3>1. CASE Owns(D)
      <4>1. Leads(D) /\ OwnFrames(D) /\ NewStamp(D)
        BY <2>1, <3>1 DEF Data, Own
      <4>2. Leads(D)' /\ OwnFrames(D)'
        BY <1>2, <1>6, <4>1 DEF Leads, OwnFrames, Shown, Top, Announces
      <4>3. NewStamp(D)'
        <5>1. D.stamp # 0 => \A q \in Pages : db'[q] # txn
          BY <1>3, <1>5, <4>1 DEF NewStamp
        <5> QED
          BY <1>2, <1>6, <4>1, <5>1 DEF NewStamp
      <4> QED
        BY <3>1, <4>2, <4>3 DEF Own, Owns
    <3>2. CASE ~Owns(D)
      BY <2>1, <3>2 DEF Data, Own, Owns
    <3> QED
      BY <3>1, <3>2
  <2>5. Sees(D)'
    <3>1. ASSUME Reads(D), NEW q \in Pages, NEW j \in 1..(D.minFrame - 1), IsLast(F, D.hdr.mxFrame, q, j)
          PROVE  db'[q] = F[j].val
      <4>1. db[q] = F[j].val
        BY <2>1, <3>1 DEF Data, Sees
      <4>2. q # p
        <5>1. D.readLock < K.i
          <6>1. K.i = NReader /\ NReader \in Nat /\ D.readLock \in -1..(NReader - 1)
            BY <1>3, <2>1, ConnFields, WalAssumption
          <6> QED
            BY <6>1
        <5>2. K.safe <= D.hdr.mxFrame
          BY <1>2, <2>1, <3>1, <5>1 DEF Pair, Waits, Copying
        <5>3. D.minFrame \in 1..(shm.nBackfill + 1)
          BY <2>1, <3>1 DEF Data, Sees, Reads
        <5>4. k \in (j + 1)..D.hdr.mxFrame
          <6>1. PICK b \in Nat, s \in Nat, n \in Nat : b = shm.nBackfill /\ s = K.safe /\ n = D.hdr.mxFrame
            BY <1>3, <2>1, ConnFields, ShmFields
          <6>2. b < k /\ k <= s /\ s <= n /\ D.minFrame \in 1..(b + 1) /\ k \in Nat
            BY <1>3, <5>2, <5>3, <6>1
          <6>3. j \in 1..b
            BY <3>1, <6>2
          <6>4. k \in (j + 1)..n
            BY <6>2, <6>3
          <6> QED
            BY <6>1, <6>4
        <5> QED
          BY <1>3, <3>1, <5>4 DEF IsLast
      <4> QED
        BY <1>5, <4>1, <4>2
    <3>2. Reads(D)' <=> Reads(D)
      BY DEF Reads
    <3>3. Sees(D)
      BY <2>1 DEF Data
    <3> QED
      BY <1>2, <1>6, <3>1, <3>2, <3>3 DEF Sees, IsLast
  <2>6. Checkpoints(D)'
    BY <1>2, <2>1, <2>2 DEF Data, Checkpoints, Finds, Copies, Committed, IsLast
  <2>7. Cached(D)'
    BY <1>6, <1>7, <2>1 DEF Data, Cached, Current
  <2> QED
    BY <2>3, <2>4, <2>5, <2>6, <2>7 DEF Data
<1> QED
  BY <1>2, <1>3, <1>8, <1>9, <1>11, <1>12, Moves

\* A connection without a transaction, after a step.
LEMMA RestingLater ==
  ASSUME NEW N, N.at \in Resting, N.writeLock = FALSE, N.changed = FALSE, N.stamp = 0, N.readLock = -1,
         Knows(N)', Fits(N.cache, N.hdr)'
  PROVE  Data(N)'
<1>1. N.at \notin {"check", "read", "start", "copy", "restart", "restart2"} \union Recovery \union Closing \union Copying
  BY DEF Resting, Recovery, Closing, Copying
<1>2. Own(N)' /\ Recovers(N)'
  BY <1>1 DEF Own, Owns, Recovers
<1>3. Sees(N)' /\ Checkpoints(N)'
  BY <1>1 DEF Sees, Reads, Checkpoints, Finds, Copies
<1>4. Cached(N)'
  BY DEF Cached, Current, Owns, Fits
<1> QED
  BY <1>2, <1>3, <1>4 DEF Data

LEMMA EndedFields ==
  ASSUME NEW K \in Conn, Alone(K), K.at \in {"start"} \union Copying
  PROVE  /\ Ended(K).hdr = (IF K.changed \/ K.cache = NotCached THEN NoHdr ELSE K.hdr) /\ Ended(K).cache = K.cache
         /\ Ended(K).changed = FALSE /\ Ended(K).stamp = K.stamp
<1>1. PICK L \in Conn : L = Left(K)
  BY LeftType
<1>2. L.hdr = (IF K.cache = NotCached THEN NoHdr ELSE K.hdr) /\ L.cache = K.cache /\ L.changed = FALSE /\ L.stamp = K.stamp
  BY <1>1, LeftFields
<1>3. PICK h \in Hdr : h = (IF K.changed THEN NoHdr ELSE L.hdr)
  BY RangeTypes, ConnFields
<1>4. PICK N \in Conn : N = [L EXCEPT !.hdr = h]
  BY DEF Conn
<1>5. N.hdr = h /\ N.cache = L.cache /\ N.changed = L.changed /\ N.stamp = L.stamp
  BY <1>4 DEF Conn
<1>6. N = Ended(K)
  BY <1>1, <1>3, <1>4 DEF Ended
<1> QED
  BY <1>2, <1>3, <1>5, <1>6

\* What has been copied, readers that come now may leave out.
LEMMA CkptDoneData ==
  ASSUME IInv, DInv, NEW c \in Conns, CkptDone(c)
  PROVE  DInv'
<1> DEFINE K == conn[c]
           F == wal.frames
           b == shm.nBackfill
<1>1. /\ K.on /\ K.at = "copy" /\ K.at \in Copying /\ K.todo = {} /\ wal' = wal /\ walDisk' = walDisk /\ db' = db /\ txn' = txn
      /\ K \in Conn /\ Alone(K) /\ Agrees(K) /\ Data(K) /\ Typed /\ ShmType /\ Shared /\ Opened
      /\ shm' = [shm EXCEPT !.nBackfill = K.safe]
      /\ Become(c, [Ended(K) EXCEPT !.exRead = {}])
  BY Facts, OpenHeader DEF CkptDone, At, log, history, Copying
<1>2. K.writeLock = FALSE /\ K.stamp = 0 /\ K.hdr.isInit /\ NotAfter(K.hdr, Public) /\ (K.changed \/ Fits(K.cache, K.hdr))
  BY <1>1, CkptFields
<1>3. Live
  BY <1>1, <1>2 DEF Live, NotAfter
<1>4. /\ b \in Nat /\ K.hdr.mxFrame \in Nat /\ Public.mxFrame \in Nat /\ K.safe \in Nat
      /\ K.safe <= K.hdr.mxFrame /\ K.hdr.mxFrame <= Public.mxFrame
  BY <1>1, ShmFields, ConnFields DEF Public, Alone, Numbers, Agrees, Behind
<1>5. /\ Finds(K) /\ b < K.safe
      /\ \A q \in Pages : InReach(K, q) => db[q] = F[K.iter[q]].val
  BY <1>1 DEF Data, Checkpoints, Copies
<1>6. shm'.nBackfill = K.safe /\ shm'.hdr = shm.hdr /\ shm'.index = shm.index /\ Public' = Public
  BY <1>1 DEF ShmType, Public
<1>7. dbDisk' = IF K.safe = Public.mxFrame THEN [p \in Pages |-> {db[p]}] ELSE dbDisk
  BY DEF CkptDone, Public
<1>8. Shared'
  <2>1. Contiguous'
    BY <1>1, <1>6 DEF Shared, Contiguous
  <2>2. Past'
    <3>1. \A q \in Pages : db[q] \in dbDisk[q]
      BY <1>1, LogFields
    <3>2. \A q \in Pages : \A v \in dbDisk'[q] : v \in dbDisk[q]
      BY <1>7, <3>1
    <3> QED
      BY <1>1, <3>2 DEF Shared, Past
  <2>3. Epoch'
    BY <1>1, <1>3, <1>6 DEF Shared, Epoch, Shown, Live
  <2>4. Copied'
    <3>1. ASSUME NEW q \in Pages, NEW j \in 1..K.safe, IsLast(F, Public.mxFrame, q, j)
          PROVE  db[q] = F[j].val
      <4>1. CASE j <= b
        <5>1. j \in 1..b
          BY <1>4, <4>1
        <5> QED
          BY <1>1, <3>1, <5>1 DEF Shared, Copied
      <4>2. CASE b < j
        <5>1. PICK m : m = K.iter[q]
          OBVIOUS
        <5>2. j \in 1..K.hdr.mxFrame /\ F[j].pg = q
          BY <1>4, <3>1 DEF IsLast
        <5>3. IsLast(F, K.hdr.mxFrame, q, m)
          BY <1>1, <1>5, <5>1, <5>2 DEF Finds
        <5>4. m \in 1..K.hdr.mxFrame /\ F[m].pg = q
          BY <5>3 DEF IsLast
        <5>5. ~(m < j)
          <6>1. m < j => j \in (m + 1)..K.hdr.mxFrame
            BY <5>2, <5>4
          <6> QED
            BY <5>2, <5>3, <6>1 DEF IsLast
        <5>6. ~(j < m)
          <6>1. j < m => m \in (j + 1)..Public.mxFrame
            BY <1>4, <5>2, <5>4
          <6> QED
            BY <3>1, <5>4, <6>1 DEF IsLast
        <5>7. m = j
          BY <5>2, <5>4, <5>5, <5>6
        <5>8. InReach(K, q)
          BY <1>4, <4>2, <5>1, <5>7 DEF InReach
        <5> QED
          BY <1>5, <5>1, <5>7, <5>8
      <4> QED
        BY <1>4, <4>1, <4>2
    <3> QED
      BY <1>1, <1>6, <3>1 DEF Copied, IsLast
  <2>5. Doubts'
    <3>1. \A q \in Pages : Doubtful(q)' => Doubtful(q)
      BY <1>1, <1>7 DEF Doubtful
    <3> QED
      BY <1>1, <1>3, <1>6, <3>1 DEF Shared, Doubts
  <2>6. Synced'
    <3>1. K.safe >= Public.mxFrame => K.safe = Public.mxFrame
      BY <1>4
    <3> QED
      BY <1>1, <1>6, <1>7, <3>1 DEF Synced
  <2> QED
    BY <2>1, <2>2, <2>3, <2>4, <2>5, <2>6 DEF Shared
<1>9. PICK L \in Conn : L = Ended(K)
  BY <1>1, EndedType
<1>10. L.at = "idle" /\ L.readLock = -1 /\ L.writeLock = FALSE /\ L.stamp = 0 /\ L.changed = FALSE /\ L.cache = K.cache
       /\ L.hdr = IF K.changed \/ K.cache = NotCached THEN NoHdr ELSE K.hdr
  BY <1>1, <1>2, <1>9, EndedType, EndedFields
<1>11. PICK N : N = [L EXCEPT !.exRead = {}]
  OBVIOUS
<1>12. N.at = "idle" /\ N.readLock = -1 /\ N.writeLock = FALSE /\ N.stamp = 0 /\ N.changed = FALSE /\ N.cache = L.cache /\ N.hdr = L.hdr
  BY <1>10, <1>11 DEF Conn
<1>13. Overlay(wal.frames, Public.mxFrame)' = Overlay(F, Public.mxFrame)
  BY <1>1, <1>6 DEF Overlay
<1>14. Data(N)'
  <2>1. N.at \in Resting
    BY <1>12 DEF Resting
  <2>2. Knows(N)'
    <3>1. NotAfter(NoHdr, Public)
      BY DEF NotAfter, NoHdr
    <3> QED
      BY <1>2, <1>6, <1>10, <1>12, <3>1 DEF Knows
  <2>3. Fits(N.cache, N.hdr)'
    <3>1. NoHdr.isInit = FALSE
      BY DEF NoHdr
    <3> QED
      BY <1>2, <1>6, <1>10, <1>12, <1>13, <3>1 DEF Fits
  <2> QED
    BY <1>12, <2>1, <2>2, <2>3, RestingLater
<1>15. ASSUME NEW d \in Conns \ {c}, NEW D, D = conn[d], D.on
       PROVE  Data(D)'
  <2>1. D \in Conn /\ Alone(D) /\ Data(D) /\ Pair(K, D) /\ Sees(D)
    BY <1>15, Facts DEF Data
  <2>2. D.at # "copy" /\ D.readLock # 0
    BY <1>1, <2>1, CkptLocks DEF Copying, Pair, Excludes
  <2>3. Knows(D)' /\ Recovers(D)'
    BY <1>1, <1>6, <2>1 DEF Data, Knows, Recovers, Shown
  <2>4. Own(D)'
    BY <1>1, <1>6, <2>1 DEF Data, Own, Owns, Leads, OwnFrames, NewStamp, Shown, Top, Announces
  <2>5. Sees(D)'
    <3>1. D.at \notin {"restart", "restart2"}
      BY <2>1, <2>2 DEF Alone, Locks, Restarting
    <3>2. \A m \in 1..(b + 1) : m \in 1..(K.safe + 1)
      BY <1>4, <1>5
    <3>3. Reads(D)' <=> Reads(D)
      BY DEF Reads
    <3> QED
      BY <1>1, <1>6, <2>1, <2>2, <3>1, <3>2, <3>3 DEF Sees, IsLast
  <2>6. Checkpoints(D)'
    <3>1. Checkpoints(D)
      BY <2>1 DEF Data
    <3>2. Finds(D)'
      BY <1>1, <3>1 DEF Checkpoints, Finds, IsLast
    <3>3. D.at \in {"start"} \union Copying => Committed(D.hdr.mxFrame)'
      BY <1>1, <3>1 DEF Checkpoints, Committed
    <3>4. Copies(D)'
      BY <2>2 DEF Copies
    <3> QED
      BY <3>1, <3>2, <3>3, <3>4 DEF Checkpoints
  <2>7. Cached(D)'
    BY <1>6, <1>13, <2>1 DEF Data, Cached, Current
  <2> QED
    BY <2>3, <2>4, <2>5, <2>6, <2>7 DEF Data
<1> QED
  BY <1>1, <1>8, <1>9, <1>11, <1>14, <1>15, Moves

-----------------------------------------------------------------------------
(* Writing frames and taking them back.                                    *)

\* The state of a writer that has not begun to announce anything.
LEMMA WriterFields ==
  ASSUME IInv, DInv, NEW c \in Conns, conn[c].on, conn[c].writeLock, conn[c].at \in {"read", "frame", "append"}
  PROVE  LET K == conn[c] IN
         /\ K \in Conn /\ Alone(K) /\ Agrees(K) /\ Data(K) /\ Typed /\ ShmType /\ Shared /\ Live /\ K.writeLock = TRUE /\ K.changed = FALSE
         /\ Owns(K) /\ ~Announces(K) /\ Leads(K) /\ OwnFrames(K) /\ NewStamp(K) /\ K.hdr.isInit
         /\ Public \in Hdr /\ K.hdr \in Hdr /\ Public.mxFrame \in Nat /\ K.hdr.mxFrame \in Nat /\ Public.mxFrame <= K.hdr.mxFrame
         /\ Public.salt \in Nat /\ K.hdr.salt \in Nat /\ shm.nBackfill \in Nat /\ MaxFrame \in Nat
         /\ (\A d \in Conns : conn[d].at # "restart3") /\ shm.nBackfill <= Public.mxFrame
<1> DEFINE K == conn[c]
<1>1. /\ K \in Conn /\ Alone(K) /\ Agrees(K) /\ Data(K) /\ Typed /\ ShmType /\ Shared /\ Opened /\ K.writeLock = TRUE /\ K.changed \in BOOLEAN
  BY Facts, OpenHeader DEF Conn
<1>2. K.at \notin Recovery \union {"publish", "publish2", "start", "idle", "bad", "restart3"} \union Copying
  BY DEF Recovery, Copying
<1>3. Owns(K) /\ ~Announces(K)
  BY <1>1, <1>2 DEF Owns, Announces
<1>4. Leads(K) /\ OwnFrames(K) /\ NewStamp(K) /\ K.changed = FALSE /\ K.hdr.isInit
  BY <1>1, <1>2, <1>3 DEF Data, Own, Checkpoints, Knows
<1>5. Live
  BY <1>1, <1>4 DEF Live, Leads
<1>6. Public \in Hdr /\ K.hdr \in Hdr /\ Public.mxFrame \in Nat /\ K.hdr.mxFrame \in Nat /\ shm.nBackfill \in Nat /\ MaxFrame \in Nat
  BY <1>1, ShmFields, ConnFields DEF Public
<1>7. Public.mxFrame <= K.hdr.mxFrame
  BY <1>1 DEF Agrees, Writer, Closing, Public
<1>8. Public.salt \in Nat /\ K.hdr.salt \in Nat
  BY <1>6 DEF Hdr
<1>9. ASSUME NEW d \in Conns
      PROVE  conn[d].at # "restart3"
  <2>1. CASE d = c
    BY <1>2, <2>1
  <2>2. CASE d # c
    BY <1>1, <2>2, OnlyWriter DEF Restarting
  <2> QED
    BY <2>1, <2>2
<1>10. shm.nBackfill <= Public.mxFrame
  BY <1>1, <1>9 DEF IInv, Header, Opened, Public
<1> QED
  BY <1>1, <1>3, <1>4, <1>5, <1>6, <1>7, <1>8, <1>9, <1>10

LEMMA RollbackData ==
  ASSUME IInv, DInv, NEW c \in Conns, Rollback(c)
  PROVE  DInv'
<1> DEFINE K == conn[c]
           F == wal.frames
<1>1. /\ K.on /\ K.at = "read" /\ K.writeLock /\ wal' = wal /\ walDisk' = walDisk /\ db' = db /\ dbDisk' = dbDisk /\ txn' = txn
      /\ Become(c, [K EXCEPT !.hdr = shm.hdr[1], !.writeLock = FALSE, !.stamp = 0, !.written = {}])
  BY DEF Rollback, At, log, file, history
<1>2. /\ K \in Conn /\ Alone(K) /\ Agrees(K) /\ Data(K) /\ Typed /\ ShmType /\ Shared /\ Live /\ K.writeLock = TRUE /\ K.changed = FALSE
      /\ Owns(K) /\ Leads(K) /\ Public \in Hdr /\ Public.mxFrame \in Nat /\ Public.salt \in Nat /\ MaxFrame \in Nat
      /\ shm.nBackfill \in Nat /\ Opened /\ Public.isInit
  BY <1>1, WriterFields DEF Live
<1>3. PICK n \in Nat : n = Public.mxFrame
  BY <1>2
<1>4. PICK index : shm' = [shm EXCEPT !.index = index] /\ (index = shm.index \/ index = Cleaned(shm.index, n))
  <2>1. shm = [shm EXCEPT !.index = shm.index]
    BY <1>2 DEF ShmType
  <2> QED
    BY <1>3, <2>1 DEF Rollback, Public
<1>5. shm'.hdr = shm.hdr /\ shm'.nBackfill = shm.nBackfill /\ shm'.index = index /\ Public' = Public
  BY <1>2, <1>4 DEF ShmType, Public
<1>6. /\ DOMAIN index = 1..MaxFrame
      /\ \/ \A k \in 1..MaxFrame : index[k] = shm.index[k]
         \/ \A k \in 1..MaxFrame : index[k] = IF n # 0 /\ k > n THEN {} ELSE shm.index[k]
  BY <1>2, <1>4 DEF Shared, Contiguous, Cleaned
<1>7. Shared'
  <2>1. Contiguous'
    <3>1. PICK m \in 0..MaxFrame : \A k \in 1..MaxFrame : shm.index[k] # {} <=> k <= m
      BY <1>2 DEF Shared, Contiguous
    <3>2. CASE \A k \in 1..MaxFrame : index[k] = shm.index[k]
      BY <1>5, <1>6, <3>1, <3>2 DEF Contiguous
    <3>3. CASE \A k \in 1..MaxFrame : index[k] = IF n # 0 /\ k > n THEN {} ELSE shm.index[k]
      <4>1. PICK j \in 0..MaxFrame : j = IF n # 0 /\ m > n THEN n ELSE m
        BY <1>2, <3>1
      <4>2. \A k \in 1..MaxFrame : index[k] # {} <=> k <= j
        BY <1>2, <3>1, <3>3, <4>1
      <4> QED
        BY <1>5, <1>6, <4>2 DEF Contiguous
    <3> QED
      BY <1>6, <3>2, <3>3
  <2>2. Epoch'
    <3>1. Shown(n)
      BY <1>2, <1>3 DEF Shared, Epoch
    <3>2. ASSUME NEW k \in 1..n
          PROVE  index[k] = {F[k].pg}
      <4>1. k \in 1..MaxFrame /\ ~(k > n)
        BY <1>2, <3>1, LogFields DEF Shown
      <4> QED
        BY <1>6, <3>1, <4>1 DEF Shown
    <3>3. n <= Len(wal'.frames)
      BY <1>1, <3>1 DEF Shown
    <3>4. Shown(Public.mxFrame)'
      BY <1>1, <1>3, <1>5, <3>2, <3>3 DEF Shown
    <3> QED
      BY <1>1, <1>2, <1>5, <3>4 DEF Shared, Epoch
  <2>3. Copied' /\ Doubts' /\ Synced' /\ Past'
    BY <1>1, <1>2, <1>5 DEF Shared, Copied, Doubts, Doubtful, Synced, Past
  <2> QED
    BY <2>1, <2>2, <2>3 DEF Shared
<1>8. Overlay(wal.frames, Public.mxFrame)' = Overlay(F, Public.mxFrame)
  BY <1>1, <1>5 DEF Overlay
<1>9. PICK N : N = [K EXCEPT !.hdr = shm.hdr[1], !.writeLock = FALSE, !.stamp = 0, !.written = {}]
  OBVIOUS
<1>10. /\ N.at = "read" /\ N.hdr = Public /\ N.writeLock = FALSE /\ N.stamp = 0 /\ N.written = {} /\ N.changed = FALSE
       /\ N.cache = K.cache /\ N.on /\ N.readLock = K.readLock /\ N.minFrame = K.minFrame
  BY <1>1, <1>2, <1>9 DEF Conn, Public
<1>11. Data(N)'
  <2>1. Knows(N)' /\ Own(N)' /\ Recovers(N)' /\ Checkpoints(N)'
    BY <1>2, <1>5, <1>10 DEF Knows, NotAfter, Own, Owns, Recovers, Recovery, Checkpoints, Copying, Finds, Copies
  <2>2. Sees(N)'
    <3>1. Sees(K)
      BY <1>2 DEF Data
    <3>2. K.readLock > 0 => K.minFrame \in 1..(shm.nBackfill + 1)
      BY <1>1, <3>1 DEF Sees
    <3>3. K.readLock = 0 => shm.nBackfill = Public.mxFrame
      BY <1>1, <1>2, <3>1 DEF Sees, Agrees, Writer, Public
    <3>4. ASSUME K.readLock > 0, NEW q \in Pages, NEW k \in 1..(K.minFrame - 1), IsLast(F, Public.mxFrame, q, k)
          PROVE  db[q] = F[k].val
      <4>1. k \in 1..shm.nBackfill
        BY <1>2, <3>2, <3>4
      <4> QED
        BY <1>2, <3>4, <4>1 DEF Shared, Copied
    <3> QED
      BY <1>1, <1>2, <1>5, <1>10, <3>2, <3>3, <3>4 DEF Sees, Reads, IsLast
  <2>3. Cached(N)'
    <3>1. K.cache # NotCached => K.cache = Overlay(F, Public.mxFrame)
      BY <1>2 DEF Data, Cached, Current
    <3> QED
      BY <1>8, <1>10, <3>1 DEF Cached
  <2> QED
    BY <2>1, <2>2, <2>3 DEF Data
<1>12. ASSUME NEW d \in Conns \ {c}, NEW D, D = conn[d], D.on
       PROVE  Data(D)'
  <2>1. /\ D.writeLock = FALSE /\ D.at \notin Recovery \union Closing \union Restarting /\ D.stamp = 0 /\ NotAfter(D.hdr, Public)
        /\ (D.on /\ D.at \notin {"idle", "bad"} => D.hdr.isInit) /\ Checkpoints(D) /\ Sees(D) /\ Cached(D)
    BY <1>1, <1>12, Others DEF Data
  <2>2. Sees(D)'
    BY <1>1, <1>5, <2>1 DEF Sees, Reads, IsLast
  <2>3. Checkpoints(D)'
    BY <1>1, <1>5, <2>1 DEF Checkpoints, Finds, Copies, InReach, Committed, IsLast
  <2>4. Cached(D)'
    BY <1>5, <1>8, <2>1 DEF Cached, Current
  <2> QED
    BY <1>5, <2>1, <2>2, <2>3, <2>4, OtherLater
<1> QED
  BY <1>1, <1>2, <1>7, <1>9, <1>11, <1>12, Moves

\* The log changes beyond what the public header covers: nobody but the writer takes notice.
LEMMA Beyond ==
  ASSUME IInv, DInv, NEW c \in Conns, conn[c].writeLock, Live,
         shm'.hdr[1] = shm.hdr[1], shm'.nBackfill = shm.nBackfill, UNCHANGED << file, txn >>,
         wal'.frames \in Seq(Frame), Public.mxFrame <= Len(wal'.frames),
         \A k \in 1..Public.mxFrame : wal'.frames[k] = wal.frames[k] /\ shm'.index[k] = shm.index[k],
         \A f \in walDisk' :
           f \in walDisk \/ (f \in Seq(Frame) /\ Public.mxFrame <= Len(f) /\ \A k \in 1..Public.mxFrame : f[k] = wal.frames[k])
  PROVE  /\ Copied' /\ Doubts' /\ Synced' /\ Shown(Public.mxFrame)'
         /\ Overlay(wal.frames, Public.mxFrame)' = Overlay(wal.frames, Public.mxFrame)
         /\ \A d \in Conns \ {c} : \A D : D = conn[d] /\ D.on => Data(D)'
<1> DEFINE F == wal.frames
<1>1. PICK n \in Nat, b \in Nat, g \in Seq(Frame) : n = Public.mxFrame /\ b = shm.nBackfill /\ g = wal'.frames
  BY ShmFields DEF IInv, Typed, Public
<1>2. /\ Typed /\ ShmType /\ Shared /\ Public' = Public /\ db' = db /\ dbDisk' = dbDisk /\ txn' = txn /\ wal'.frames = g
      /\ n = shm'.hdr[1].mxFrame /\ b = shm'.nBackfill
  BY <1>1 DEF IInv, DInv, Typed, Public, file
<1>3. n <= Len(F) /\ n <= Len(g) /\ F \in Seq(Frame) /\ Shown(n) /\ Committed(n)
  BY <1>1, <1>2, LogFields DEF Shared, Epoch, Shown, Live, Opened, IInv, Header, Public
<1>4. \A k \in 1..n : g[k] = F[k] /\ shm'.index[k] = shm.index[k]
  BY <1>1
<1>5. \A f \in walDisk' : f \in walDisk \/ (f \in Seq(Frame) /\ n <= Len(f) /\ \A k \in 1..n : f[k] = F[k])
  BY <1>1
<1>6. ASSUME NEW m \in Nat, m <= n
      PROVE  \A p, k : IsLast(g, m, p, k) <=> IsLast(F, m, p, k)
  <2>1. \A k \in 1..m : g[k] = F[k]
    BY <1>4, <1>6
  <2>2. \A k \in 1..m : \A j \in (k + 1)..m : j \in 1..m
    OBVIOUS
  <2> QED
    BY <2>1, <2>2 DEF IsLast
<1>7. Copied'
  <2>1. \A p, k : IsLast(g, n, p, k) <=> IsLast(F, n, p, k)
    BY <1>6
  <2>2. \A p \in Pages : \A k \in 1..b : IsLast(g, n, p, k) => k \in 1..n /\ db[p] = F[k].val
    <3>1. \A p \in Pages : \A k \in 1..b : IsLast(F, n, p, k) => db[p] = F[k].val
      BY <1>1, <1>2 DEF Shared, Copied, Live
    <3>2. \A p, k : IsLast(g, n, p, k) => k \in 1..n
      BY DEF IsLast
    <3> QED
      BY <2>1, <3>1, <3>2
  <2> QED
    BY <1>2, <1>4, <2>2 DEF Copied, Public
<1>8. Doubts'
  <2>1. ASSUME NEW p \in Pages, Doubtful(p), NEW f \in walDisk'
        PROVE  Covers(f, p)
    <3>1. CASE f \in walDisk
      BY <1>2, <2>1, <3>1 DEF Shared, Doubts
    <3>2. CASE f \in Seq(Frame) /\ n <= Len(f) /\ \A k \in 1..n : f[k] = F[k]
      <4>1. PICK k \in 1..n : F[k].pg = p
        BY <1>1, <1>2, <2>1 DEF Shared, Doubts
      <4>2. n \in 1..n /\ n \in DOMAIN F /\ n \in DOMAIN f
        BY <1>1, <1>3, <3>2, <4>1, LenProperties
      <4>3. F[n].commit
        BY <1>3, <4>2 DEF Committed
      <4>4. n \in Commits(f)
        BY <3>2, <4>2, <4>3 DEF Commits
      <4> QED
        BY <3>2, <4>1, <4>4 DEF Covers
    <3> QED
      BY <1>5, <3>1, <3>2
  <2>2. ASSUME NEW p \in Pages, Doubtful(p)
        PROVE  \E k \in 1..n : g[k].pg = p
    BY <1>1, <1>2, <1>4, <2>2 DEF Shared, Doubts
  <2>3. \A p \in Pages : Doubtful(p)' <=> Doubtful(p)
    BY <1>2 DEF Doubtful
  <2> QED
    BY <1>2, <2>1, <2>2, <2>3 DEF Doubts, Covers, Commits, Public
<1>9. Synced'
  BY <1>1, <1>2 DEF Shared, Synced
<1>10. Shown(Public.mxFrame)'
  <2>1. \A k \in 1..n : shm'.index[k] = {g[k].pg}
    BY <1>3, <1>4 DEF Shown
  <2> QED
    BY <1>2, <1>3, <2>1 DEF Shown, Public
<1>11. Overlay(wal.frames, Public.mxFrame)' = Overlay(F, Public.mxFrame)
  <2>1. PICK f \in Seq(Frame), base \in {db} : f = F /\ base = db
    BY <1>3
  <2>2. SameStart(f, g, n)
    BY <1>3, <1>4, <2>1 DEF SameStart
  <2>3. Apply(f, n, base) = Apply(g, n, base)
    BY <2>2, SameLog
  <2>4. Overlay(wal.frames, Public.mxFrame)' = Apply(g, n, db)
    BY <1>2 DEF Overlay, Apply, Public
  <2> QED
    BY <1>1, <2>1, <2>3, <2>4, OverlayIsApply
<1>12. ASSUME NEW d \in Conns \ {c}, NEW D, D = conn[d], D.on
       PROVE  Data(D)'
  <2>1. /\ D.writeLock = FALSE /\ D.at \notin Recovery \union Closing \union Restarting /\ D.stamp = 0 /\ NotAfter(D.hdr, Public)
        /\ (D.on /\ D.at \notin {"idle", "bad"} => D.hdr.isInit) /\ Checkpoints(D) /\ Sees(D) /\ Cached(D)
        /\ D \in Conn /\ Agrees(D)
    BY <1>12, Others DEF Data
  <2>2. PICK m \in Nat : m = D.hdr.mxFrame
    BY <2>1, ConnFields
  <2>3. Sees(D)'
    <3>1. Reads(D) => m <= n
      BY <1>1, <2>1, <2>2 DEF Sees
    <3>2. ASSUME Reads(D), NEW p \in Pages, NEW k \in 1..(D.minFrame - 1), IsLast(g, m, p, k)
          PROVE  db[p] = g[k].val
      <4> DEFINE Same == \A q, j : IsLast(g, m, q, j) <=> IsLast(F, m, q, j)
      <4>0. Same
        BY <1>6, <2>2, <3>1, <3>2
      <4> HIDE DEF Same
      <4>1. IsLast(F, m, p, k) /\ k \in 1..m /\ k \in 1..n
        <5>1. IsLast(F, m, p, k)
          BY <3>2, <4>0 DEF Same
        <5> QED
          BY <2>2, <3>1, <3>2, <5>1 DEF IsLast
      <4>2. db[p] = F[k].val
        BY <2>1, <2>2, <3>2, <4>1 DEF Sees
      <4> QED
        BY <1>4, <4>1, <4>2
    <3>3. Reads(D)' <=> Reads(D)
      BY DEF Reads
    <3> QED
      BY <1>2, <2>1, <2>2, <3>2, <3>3 DEF Sees
  <2>4. Checkpoints(D)'
    <3>1. D.at \in {"start"} \union Copying => m <= n
      BY <1>1, <2>1, <2>2 DEF Agrees, Behind, Public
    <3>2. D.at \in {"start"} \union Copying => Committed(m)'
      <4>1. D.at \in {"start"} \union Copying => Committed(m)
        BY <2>1, <2>2 DEF Checkpoints
      <4>2. m <= n /\ m # 0 => m \in 1..n /\ m \in DOMAIN g
        BY <1>3, LenProperties
      <4> QED
        BY <1>2, <1>4, <3>1, <4>1, <4>2 DEF Committed
    <3>3. Finds(D)'
      <4>1. ASSUME D.at \in Copying, NEW p \in Pages
            PROVE  IF D.iter[p] = 0 THEN \A k \in 1..m : g[k].pg # p ELSE IsLast(g, m, p, D.iter[p])
        <5>1. m <= n /\ \A k \in 1..m : k \in 1..n
          BY <3>1, <4>1
        <5>2. IF D.iter[p] = 0 THEN \A k \in 1..m : F[k].pg # p ELSE IsLast(F, m, p, D.iter[p])
          BY <2>1, <2>2, <4>1 DEF Checkpoints, Finds
        <5> QED
          BY <1>4, <1>6, <5>1, <5>2
      <4> QED
        BY <1>2, <2>2, <4>1 DEF Finds
    <3>4. Copies(D)'
      <4> SUFFICES ASSUME D.at = "copy"
                   PROVE  Copies(D)'
        BY DEF Copies
      <4>1. m <= n /\ D.at \in Copying /\ Copies(D) /\ Finds(D)
        BY <2>1, <3>1 DEF Copying, Checkpoints
      <4>2. \A k \in 1..m : k \in 1..n /\ g[k] = F[k]
        BY <1>4, <4>1
      <4>3. \A q \in Pages \ D.todo : InReach(D, q) => db[q] = g[D.iter[q]].val
        <5>1. ASSUME NEW q \in Pages \ D.todo, InReach(D, q)
              PROVE  db[q] = g[D.iter[q]].val
          <6>1. D.iter[q] # 0
            BY <1>1, <5>1 DEF InReach
          <6>2. D.iter[q] \in 1..m
            BY <2>2, <4>1, <6>1 DEF Finds, IsLast
          <6> QED
            BY <4>1, <4>2, <5>1, <6>2 DEF Copies
        <5> QED
          BY <5>1
      <4>4. ASSUME NEW f \in walDisk'
            PROVE  m <= Len(f) /\ \A k \in 1..m : f[k] = g[k]
        <5>1. CASE f \in walDisk
          BY <2>2, <4>1, <4>2, <5>1 DEF Copies
        <5>2. CASE f \in Seq(Frame) /\ n <= Len(f) /\ \A k \in 1..n : f[k] = F[k]
          <6>1. Len(f) \in Nat
            BY <5>2, LenProperties
          <6> QED
            BY <4>1, <4>2, <5>2, <6>1
        <5> QED
          BY <1>5, <5>1, <5>2
      <4>5. \A q : InReach(D, q)' <=> InReach(D, q)
        BY <1>1, <1>2 DEF InReach
      <4> QED
        BY <1>1, <1>2, <2>2, <4>1, <4>3, <4>4, <4>5 DEF Copies
    <3> QED
      BY <2>1, <2>2, <3>2, <3>3, <3>4 DEF Checkpoints
  <2>5. Cached(D)'
    BY <1>2, <1>11, <2>1 DEF Cached, Current
  <2> QED
    BY <1>2, <2>1, <2>3, <2>4, <2>5, OtherLater
<1> QED
  BY <1>7, <1>8, <1>9, <1>10, <1>11, <1>12

-----------------------------------------------------------------------------
(* Connections that come and go.                                           *)

LEMMA OpenData ==
  ASSUME IInv, DInv, NEW c \in Conns, Open(c)
  PROVE  DInv'
<1>1. /\ Typed /\ ShmType /\ Shared /\ Become(c, Fresh) /\ UNCHANGED << log, file, history >>
      /\ wal' = wal /\ walDisk' = walDisk /\ db' = db /\ dbDisk' = dbDisk /\ txn' = txn
  BY DEF Open, IInv, DInv, Typed, log, file, history
<1>2. PICK N \in Conn : N = Fresh
  BY FreshType
<1>3. /\ N.at = "idle" /\ N.readLock = -1 /\ N.writeLock = FALSE /\ N.stamp = 0 /\ N.changed = FALSE /\ N.hdr = NoHdr
      /\ N.cache = NotCached
  BY <1>2, FreshType DEF Fresh
<1>4. Data(N)'
  <2>1. N.at \in Resting
    BY <1>3 DEF Resting
  <2>2. Knows(N)' /\ Fits(N.cache, N.hdr)'
    BY <1>3 DEF Knows, NotAfter, NoHdr, Fits
  <2> QED
    BY <1>3, <2>1, <2>2, RestingLater
<1>5. CASE Opened
  <2>1. shm' = shm
    BY <1>5 DEF Open, Opened
  <2>2. Still /\ shm'.hdr = shm.hdr
    BY <1>1, <2>1 DEF Still
  <2>3. Shared'
    BY <1>1, <1>5, <2>2, SharedStays
  <2>4. ASSUME NEW d \in Conns \ {c}, NEW D, D = conn[d], D.on
        PROVE  Data(D)'
    <3>1. Data(D)
      BY <2>4 DEF DInv
    <3> QED
      BY <2>2, <3>1, DataStays
  <2> QED
    BY <1>1, <1>2, <1>4, <2>3, <2>4, Moves
<1>6. CASE ~Opened
  <2>1. shm' = NoShm
    BY <1>6 DEF Open, Opened
  <2>2. /\ Public' = NoHdr /\ shm'.nBackfill = 0 /\ DOMAIN shm'.index = 1..MaxFrame
        /\ \A k \in 1..MaxFrame : shm'.index[k] = {}
    BY <2>1 DEF NoShm, Public
  <2>3. ~Live'
    BY <2>2 DEF Live, NoHdr
  <2>4. Contiguous'
    <3>1. 0 \in 0..MaxFrame /\ \A k \in 1..MaxFrame : ~(k <= 0)
      BY WalAssumption
    <3> QED
      BY <2>2, <3>1 DEF Contiguous
  <2>5. Epoch' /\ Copied'
    BY <1>1, <2>2, <2>3 DEF Shared, Epoch, Copied
  <2>6. Doubts' /\ Synced' /\ Past'
    BY <1>1, <2>3 DEF Shared, Doubts, Doubtful, Synced, Past
  <2>7. Shared'
    BY <2>4, <2>5, <2>6 DEF Shared
  <2>8. \A d \in Conns \ {c} : ~conn[d].on
    BY <1>6 DEF Opened
  <2> QED
    BY <1>1, <1>2, <1>4, <2>7, <2>8, Moves
<1> QED
  BY <1>5, <1>6

\* A page that a power failure leaves as garbage is in the log.
LEMMA PowerFailsData ==
  ASSUME IInv, DInv, PowerFails
  PROVE  DInv'
<1>1. Typed /\ Shared /\ shm' = shm /\ txn' = txn /\ conn' = [c \in Conns |-> Closed]
  BY DEF PowerFails, IInv, DInv
<1>2. PICK frames \in walDisk : wal' = [wal EXCEPT !.frames = frames] /\ walDisk' = {frames}
  BY DEF PowerFails
<1>3. wal'.salt = wal.salt /\ wal'.frames = frames
  BY <1>1, <1>2 DEF Typed, LogType
<1>4. PICK f : (\A p \in Pages : f[p] \in Outcomes(dbDisk[p])) /\ db' = f /\ dbDisk' = [p \in Pages |-> {f[p]}]
  BY DEF PowerFails
<1>5. \A c \in Conns : ~conn'[c].on
  <2>1. Closed.on = FALSE
    BY DEF Closed, Fresh
  <2> QED
    BY <1>1, <2>1
<1>6. ~Opened' /\ ~Live'
  BY <1>5 DEF Opened, Live
<1>7. ASSUME NEW p \in Pages, ~Doubtful(p)
      PROVE  f[p] # Garbage /\ f[p] \in dbDisk[p]
  <2>1. dbDisk[p] = {db[p]} /\ db[p] # Garbage
    BY <1>7 DEF Doubtful
  <2>2. Cardinality(dbDisk[p]) = 1
    BY <2>1, FS_Singleton
  <2>3. Outcomes(dbDisk[p]) = dbDisk[p]
    BY <2>2 DEF Outcomes
  <2> QED
    BY <1>4, <2>1, <2>3
<1>8. Contiguous' /\ Copied' /\ Synced'
  BY <1>1, <1>6 DEF Shared, Contiguous, Copied, Synced
<1>9. Epoch'
  BY <1>1, <1>2, <1>3, <1>6 DEF Shared, Epoch
<1>10. Doubts'
  <2>1. ASSUME NEW p \in Pages, Doubtful(p)'
        PROVE  Covers(frames, p)
    <3>1. f[p] = Garbage
      BY <1>4, <2>1 DEF Doubtful
    <3>2. Doubtful(p)
      BY <1>7, <3>1
    <3> QED
      BY <1>1, <1>2, <3>2 DEF Shared, Doubts
  <2> QED
    BY <1>2, <1>6, <2>1 DEF Doubts, Covers, Commits
<1>11. Past'
  <2>1. \A p \in Pages : f[p] \in dbDisk[p] \/ f[p] = Garbage
    BY <1>4 DEF Outcomes
  <2> QED
    BY <1>1, <1>2, <1>4, <2>1 DEF Shared, Past
<1> QED
  BY <1>5, <1>8, <1>9, <1>10, <1>11 DEF DInv, Shared

\* A process dies, and its locks with it.
LEMMA CrashData ==
  ASSUME IInv, DInv, NEW c \in Conns, Crash(c)
  PROVE  DInv'
<1> DEFINE K == conn[c]
           F == wal.frames
<1>1. /\ Typed /\ ShmType /\ Shared /\ shm' = shm /\ db' = db /\ dbDisk' = dbDisk /\ txn' = txn /\ Become(c, Closed)
  BY DEF Crash, IInv, DInv, Typed, Become, file
<1>2. Closed.on = FALSE
  BY DEF Closed, Fresh
<1>3. Opened' => Opened
  BY <1>1, <1>2 DEF Opened, Become, Typed
<1>4. CASE UNCHANGED log
  <2>1. Still /\ shm'.hdr = shm.hdr
    BY <1>1, <1>4 DEF Still, file
  <2>2. Shared'
    BY <1>1, <1>3, <2>1, SharedStays
  <2>3. ASSUME NEW d \in Conns \ {c}, NEW D, D = conn[d], D.on
        PROVE  Data(D)'
    <3>1. Data(D)
      BY <2>3 DEF DInv
    <3> QED
      BY <2>1, <3>1, DataStays
  <2> QED
    BY <1>1, <1>2, <2>2, <2>3, Moves
<1>5. ASSUME K.on, K.at = "append", NEW frames \in walDisk, Len(frames) >= K.hdr.mxFrame, IsStrictPrefix(frames, F),
             wal' = [wal EXCEPT !.frames = frames],
             walDisk' = {f \in walDisk : ~(IsStrictPrefix(frames, f) /\ IsPrefix(f, F))}
      PROVE  DInv'
  <2>1. K.writeLock
    BY <1>5, Known, ClosingLocks DEF Closing
  <2>2. Live /\ Public.mxFrame \in Nat /\ K.hdr.mxFrame \in Nat /\ Public.mxFrame <= K.hdr.mxFrame
    BY <1>5, <2>1, WriterFields
  <2>3. frames \in Seq(Frame) /\ F \in Seq(Frame) /\ Len(frames) \in Nat
    BY <1>1, <1>5, LogFields
  <2>4. wal'.frames = frames /\ wal'.salt = wal.salt
    BY <1>1, <1>5 DEF Typed, LogType
  <2>5. frames \in walDisk' /\ walDisk' \subseteq walDisk
    BY <1>5 DEF IsStrictPrefix
  <2>6. Public.mxFrame <= Len(frames) /\ \A k \in 1..Public.mxFrame : frames[k] = F[k]
    <3>1. IsPrefix(frames, F)
      BY <1>5 DEF IsStrictPrefix
    <3>2. \A k \in 1..Len(frames) : frames[k] = F[k]
      BY <2>3, <3>1, LenProperties DEF IsPrefix
    <3> QED
      BY <1>5, <2>2, <2>3, <3>2
  <2>7. /\ Copied' /\ Doubts' /\ Synced' /\ Shown(Public.mxFrame)'
        /\ \A d \in Conns \ {c} : \A D : D = conn[d] /\ D.on => Data(D)'
    BY <1>1, <2>1, <2>2, <2>3, <2>4, <2>5, <2>6, Beyond DEF file
  <2>8. Contiguous'
    BY <1>1 DEF Shared, Contiguous
  <2>9. Epoch'
    BY <1>1, <1>5, <2>2, <2>4, <2>5, <2>7 DEF Shared, Epoch, Public, Live
  <2>10. Past'
    BY <1>1, <2>5 DEF Shared, Past
  <2> QED
    BY <1>1, <1>2, <2>7, <2>8, <2>9, <2>10, Moves DEF Shared
<1> QED
  BY <1>4, <1>5 DEF Crash, At

-----------------------------------------------------------------------------
(* Frames are written.                                                     *)

\* An order in which to write the pages has each of them.
LEMMA OrderOfAll ==
  ASSUME NEW S \in SUBSET Pages, NEW order \in SetToSeqs(S)
  PROVE  /\ Cardinality(S) \in Nat /\ order \in [1..Cardinality(S) -> S]
         /\ \A p \in S : \E j \in 1..Cardinality(S) : order[j] = p
<1>1. IsFiniteSet(S)
  BY FS_Subset, WalAssumption
<1>2. PICK n \in Nat : n = Cardinality(S)
  BY <1>1, FS_CardinalityType
<1>3. order \in [1..n -> S] /\ \A i, j \in 1..n : i # j => order[i] # order[j]
  BY <1>2 DEF SetToSeqs
<1>4. order \in Injection(1..n, S)
  BY <1>3 DEF Injection, IsInjective
<1>5. Cardinality(1..n) = n
  BY <1>2, FS_Interval
<1>6. order \in Surjection(1..n, S)
  BY <1>1, <1>2, <1>4, <1>5, FS_Injection
<1>7. \A p \in S : \E j \in 1..n : order[j] = p
  BY <1>6 DEF Surjection
<1> QED
  BY <1>2, <1>3, <1>7

\* A file to which not everything has been appended yet.
LEMMA OnDiskPrefix ==
  ASSUME NEW f \in Seq(Frame), NEW new \in Seq(Frame), NEW n \in Nat, n <= Len(f), NEW g \in OnDisk(f, n, new)
  PROVE  /\ g \in Seq(Frame) /\ Len(g) \in Nat /\ n <= Len(g) /\ Len(g) <= n + Len(new)
         /\ \A k \in 1..Len(g) : g[k] = Appended(f, n, new)[k]
<1>1. Len(new) \in Nat /\ \A k \in 1..Len(new) : new[k] \in Frame
  BY LenProperties, ElementOfSeq
<1>2. PICK j \in 0..Len(new) : g = Appended(f, n, SubSeq(new, 1, j))
  BY DEF OnDisk
<1>3. PICK s \in Seq(Frame) : s = SubSeq(new, 1, j) /\ Len(s) = j /\ \A k \in 1..j : s[k] = new[k]
  <2>1. /\ SubSeq(new, 1, j) \in Seq(Frame) /\ Len(SubSeq(new, 1, j)) = (IF 1 <= j THEN j - 1 + 1 ELSE 0)
        /\ \A k \in 1..(j - 1 + 1) : SubSeq(new, 1, j)[k] = new[1 + k - 1]
    BY <1>1, SubSeqProperties
  <2>2. \A k \in 1..j : k \in 1..(j - 1 + 1) /\ 1 + k - 1 = k
    OBVIOUS
  <2>3. Len(SubSeq(new, 1, j)) = j
    BY <2>1
  <2> QED
    BY <2>1, <2>2, <2>3
<1>4. /\ g \in Seq(Frame) /\ Len(g) = n + j
      /\ \A k \in 1..n : g[k] = f[k]
      /\ \A k \in 1..j : g[n + k] = s[k]
  <2>1. /\ Appended(f, n, s) \in Seq(Frame) /\ Len(Appended(f, n, s)) = n + Len(s)
        /\ \A k \in 1..n : Appended(f, n, s)[k] = f[k]
        /\ \A k \in 1..Len(s) : Appended(f, n, s)[n + k] = s[k]
    BY AppendedFrames
  <2> QED
    BY <1>2, <1>3, <2>1
<1>5. /\ \A k \in 1..n : Appended(f, n, new)[k] = f[k]
      /\ \A k \in 1..Len(new) : Appended(f, n, new)[n + k] = new[k]
  BY AppendedFrames
<1>6. ASSUME NEW k \in 1..(n + j)
      PROVE  g[k] = Appended(f, n, new)[k]
  <2>1. CASE k <= n
    <3>1. k \in 1..n
      BY <2>1
    <3> QED
      BY <1>4, <1>5, <3>1
  <2>2. CASE k > n
    <3>1. PICK i \in 1..j : k = n + i
      <4>1. k - n \in 1..j /\ k = n + (k - n)
        BY <2>2
      <4> QED
        BY <4>1
    <3>2. i \in 1..Len(new)
      BY <1>1
    <3> QED
      BY <1>3, <1>4, <1>5, <3>1, <3>2
  <2> QED
    BY <2>1, <2>2
<1> QED
  BY <1>1, <1>4, <1>6

\* The log that a step of WriteFrames leaves: the frames of this transaction, which may be on the disk in part.
Grown(K, n, g) ==
  /\ g \in Seq(Frame) /\ g = wal'.frames /\ Len(g) = K.hdr.mxFrame + n
  /\ \A k \in 1..K.hdr.mxFrame : g[k] = wal.frames[k]
  /\ \A k \in (K.hdr.mxFrame + 1)..(K.hdr.mxFrame + n) : g[k].val = K.stamp /\ (g[k].commit <=> K.commit /\ k = K.hdr.mxFrame + n)
  /\ K.todo = {g[k].pg : k \in (K.hdr.mxFrame + 1)..(K.hdr.mxFrame + n)}
  /\ \A f \in walDisk' :
       f \in walDisk \/ (f \in Seq(Frame) /\ Len(f) \in K.hdr.mxFrame..(K.hdr.mxFrame + n) /\ \A k \in 1..Len(f) : f[k] = g[k])

LEMMA WrittenLog ==
  ASSUME IInv, DInv, NEW c \in Conns, WriteFrames(c)
  PROVE  /\ wal'.salt = IF conn[c].hdr.salt = 0 THEN 1 ELSE conn[c].hdr.salt
         /\ \E n \in Nat : n > 0 /\ \E g : Grown(conn[c], n, g)
<1> DEFINE K == conn[c]
           mx == K.hdr.mxFrame
           salt == IF K.hdr.salt = 0 THEN 1 ELSE K.hdr.salt
           frames == IF mx # 0 \/ (salt > 1 /\ wal.salt = salt) THEN wal.frames ELSE << >>
           News(order) == [j \in DOMAIN order |-> [pg |-> order[j], val |-> K.stamp, commit |-> K.commit /\ j = Len(order)]]
<1>1. K \in Conn /\ Alone(K) /\ Agrees(K) /\ K.on /\ K.at = "frame" /\ Typed /\ K.at \in Closing
  BY Known DEF WriteFrames, At, IInv, Closing
<1>2. K.writeLock = TRUE /\ mx \in Nat /\ K.todo \subseteq Pages /\ K.todo # {} /\ mx <= Len(wal.frames)
  <2>1. K.writeLock = TRUE
    BY <1>1, ClosingLocks
  <2>2. Prepared(K)
    BY <1>1, <2>1 DEF Prepared
  <2>3. K.todo # {} /\ mx <= Len(wal.frames)
    BY <1>1, <2>1, <2>2 DEF Alone, Numbers, Agrees, Writer
  <2>4. mx \in Nat /\ K.todo \subseteq Pages
    BY <1>1, ConnFields DEF Conn
  <2> QED
    BY <2>1, <2>3, <2>4
<1>3. frames \in Seq(Frame) /\ mx <= Len(frames) /\ (\A k \in 1..mx : frames[k] = wal.frames[k]) /\ (frames = wal.frames \/ (mx = 0 /\ frames = << >>))
  <2>1. wal.frames \in Seq(Frame)
    BY <1>1 DEF Typed, LogType
  <2>2. << >> \in Seq(Frame) /\ Len(<< >>) = 0
    BY EmptySeq
  <2> QED
    BY <1>2, <2>1, <2>2
<1>4. PICK order \in SetToSeqs(K.todo) :
        /\ wal' = [salt |-> salt, frames |-> Appended(frames, mx, News(order))]
        /\ walDisk' = (IF mx = 0 THEN {frames} ELSE walDisk) \union OnDisk(frames, mx, News(order))
  BY DEF WriteFrames
<1>5. PICK n \in Nat : n > 0 /\ order \in [1..n -> K.todo] /\ \A p \in K.todo : \E j \in 1..n : order[j] = p
  <2>1. PICK n \in Nat : n = Cardinality(K.todo) /\ order \in [1..n -> K.todo] /\ \A p \in K.todo : \E j \in 1..n : order[j] = p
    BY <1>2, OrderOfAll
  <2>2. n > 0
    <3>1. PICK p \in K.todo, j \in 1..n : order[j] = p
      BY <1>2, <2>1
    <3> QED
      BY <3>1
  <2> QED
    BY <2>1, <2>2
<1>6. DOMAIN order = 1..n /\ order \in Seq(K.todo) /\ Len(order) = n
  BY <1>5
<1>7. PICK new \in Seq(Frame) :
        /\ new = News(order) /\ Len(new) = n
        /\ \A j \in 1..n : new[j].pg = order[j] /\ new[j].val = K.stamp /\ (new[j].commit <=> K.commit /\ j = n)
  <2>1. \A j \in 1..n : [pg |-> order[j], val |-> K.stamp, commit |-> K.commit /\ j = n] \in Frame
    <3>1. K.stamp \in 0..MaxTxn
      BY <1>1 DEF Conn, Stamps
    <3> QED
      BY <1>2, <1>5, <3>1 DEF Frame
  <2>2. PICK new : new = [j \in 1..n |-> [pg |-> order[j], val |-> K.stamp, commit |-> K.commit /\ j = n]]
    OBVIOUS
  <2>3. new = News(order)
    BY <1>6, <2>2
  <2>4. new \in [1..n -> Frame]
    BY <2>1, <2>2
  <2>5. new \in Seq(Frame) /\ Len(new) = n
    BY <2>4
  <2>6. \A j \in 1..n : new[j].pg = order[j] /\ new[j].val = K.stamp /\ (new[j].commit <=> K.commit /\ j = n)
    BY <2>2
  <2> QED
    BY <2>3, <2>5, <2>6
<1> HIDE DEF frames, News
<1>8. PICK g \in Seq(Frame) :
         /\ g = Appended(frames, mx, new) /\ Len(g) = mx + n
         /\ \A k \in 1..mx : g[k] = wal.frames[k]
         /\ \A k \in 1..n : g[mx + k] = new[k]
  <2>1. PICK m \in Nat, s \in Seq(Frame) : m = mx /\ s = frames /\ m <= Len(s)
    BY <1>2, <1>3
  <2>2. /\ Appended(s, m, new) \in Seq(Frame)
        /\ Len(Appended(s, m, new)) = m + Len(new)
        /\ \A k \in 1..m : Appended(s, m, new)[k] = s[k]
        /\ \A k \in 1..Len(new) : Appended(s, m, new)[m + k] = new[k]
    BY <2>1, AppendedFrames
  <2>3. PICK g : g = Appended(s, m, new)
    OBVIOUS
  <2>4. g \in Seq(Frame) /\ Len(g) = m + n /\ (\A k \in 1..m : g[k] = s[k]) /\ \A k \in 1..n : g[m + k] = new[k]
    BY <1>7, <2>2, <2>3
  <2>5. \A k \in 1..m : s[k] = wal.frames[k]
    BY <1>3, <2>1
  <2>6. g \in Seq(Frame) /\ g = Appended(frames, mx, new) /\ Len(g) = mx + n
        /\ (\A k \in 1..mx : g[k] = wal.frames[k]) /\ \A k \in 1..n : g[mx + k] = new[k]
    BY <2>1, <2>3, <2>4, <2>5
  <2> QED
    BY <2>6
<1>9. wal'.frames = g /\ wal'.salt = salt /\ walDisk' = (IF mx = 0 THEN {frames} ELSE walDisk) \union OnDisk(frames, mx, new)
  BY <1>4, <1>7, <1>8
<1>10. ASSUME NEW k \in (mx + 1)..(mx + n)
       PROVE  k - mx \in 1..n /\ g[k] = new[k - mx] /\ g[k].pg \in K.todo /\ g[k].val = K.stamp /\ (g[k].commit <=> K.commit /\ k = mx + n)
  <2>1. PICK j \in 1..n : j = k - mx /\ mx + j = k /\ (j = n <=> k = mx + n)
    <3>1. PICK m \in Nat : m = mx
      BY <1>2
    <3>2. PICK i \in Int : i = k /\ i \in (m + 1)..(m + n)
      BY <3>1
    <3>3. PICK j \in 1..n : j = i - m /\ m + j = i /\ (j = n <=> i = m + n)
      BY <3>2
    <3> QED
      BY <3>1, <3>2, <3>3
  <2>2. g[k] = new[j]
    BY <1>8, <2>1
  <2> QED
    BY <1>5, <1>7, <2>1, <2>2
<1>11. K.todo = {g[k].pg : k \in (mx + 1)..(mx + n)}
  <2>1. ASSUME NEW p \in K.todo
        PROVE  \E k \in (mx + 1)..(mx + n) : g[k].pg = p
    <3>1. PICK j \in 1..n : order[j] = p
      BY <1>5
    <3>2. \A m \in Nat : m + j \in (m + 1)..(m + n)
      OBVIOUS
    <3>3. mx + j \in (mx + 1)..(mx + n)
      BY <1>2, <3>2
    <3>4. g[mx + j].pg = p
      BY <1>7, <1>8, <3>1
    <3> QED
      BY <3>3, <3>4
  <2>2. PICK S : S = (mx + 1)..(mx + n)
    OBVIOUS
  <2>3. (\A k \in S : g[k].pg \in K.todo) /\ (\A p \in K.todo : \E k \in S : g[k].pg = p)
    BY <1>10, <2>1, <2>2
  <2>4. K.todo = {g[k].pg : k \in S}
    BY <2>3
  <2> QED
    BY <2>2, <2>4
<1>12. ASSUME NEW f \in walDisk', f \notin walDisk
       PROVE  f \in Seq(Frame) /\ Len(f) \in mx..(mx + n) /\ \A k \in 1..Len(f) : f[k] = g[k]
  <2>1. CASE f = frames
    <3>1. mx = 0 /\ f = << >>
      BY <1>1, <1>3, <1>12, <2>1 DEF Typed, LogType
    <3>2. f \in Seq(Frame) /\ Len(f) = 0
      BY <3>1, EmptySeq
    <3>3. 0 \in mx..(mx + n) /\ \A k : k \notin 1..0
      BY <3>1
    <3> QED
      BY <3>2, <3>3
  <2>2. CASE f \in OnDisk(frames, mx, new)
    <3>1. PICK m \in Nat, s \in Seq(Frame) : m = mx /\ s = frames /\ m <= Len(s)
      BY <1>2, <1>3
    <3>2. /\ f \in Seq(Frame) /\ Len(f) \in Nat /\ m <= Len(f) /\ Len(f) <= m + Len(new)
          /\ \A k \in 1..Len(f) : f[k] = Appended(s, m, new)[k]
      BY <2>2, <3>1, OnDiskPrefix
    <3>3. Len(f) \in mx..(mx + n)
      BY <1>2, <1>7, <3>1, <3>2
    <3>4. g = Appended(s, m, new)
      BY <1>8, <3>1
    <3> QED
      BY <3>2, <3>3, <3>4
  <2> QED
    BY <1>9, <1>12, <2>1, <2>2
<1>13. Grown(K, n, g)
  BY <1>8, <1>9, <1>10, <1>11, <1>12 DEF Grown
<1> QED
  BY <1>5, <1>9, <1>13

LEMMA WriteFramesData ==
  ASSUME IInv, DInv, NEW c \in Conns, WriteFrames(c)
  PROVE  DInv'
<1> DEFINE K == conn[c]
           F == wal.frames
           salt == IF K.hdr.salt = 0 THEN 1 ELSE K.hdr.salt
<1>1. /\ K.on /\ K.at = "frame" /\ K.at \in Closing /\ UNCHANGED << shm, file, history >> /\ shm' = shm /\ db' = db /\ dbDisk' = dbDisk /\ txn' = txn
      /\ Become(c, [K EXCEPT !.at = "append", !.hdr.salt = salt, !.written = K.written \union K.todo])
  BY DEF WriteFrames, At, file, history, Closing
<1>2. K.writeLock
  BY <1>1, Known, ClosingLocks
<1>3. /\ K \in Conn /\ Alone(K) /\ Agrees(K) /\ Data(K) /\ Typed /\ ShmType /\ Shared /\ Live /\ K.writeLock = TRUE /\ K.changed = FALSE
      /\ Owns(K) /\ ~Announces(K) /\ Leads(K) /\ OwnFrames(K) /\ NewStamp(K) /\ K.hdr.isInit
      /\ K.hdr \in Hdr /\ Public.salt \in Nat /\ K.hdr.salt \in Nat /\ Opened /\ Public.isInit
  BY <1>1, <1>2, WriterFields DEF Live
<1>4. PICK m \in Nat, b \in Nat, P \in Nat : m = K.hdr.mxFrame /\ b = shm.nBackfill /\ P = Public.mxFrame /\ P <= m /\ b <= P
  BY <1>1, <1>2, WriterFields
<1>20. PICK n \in Nat : wal'.salt = salt /\ n > 0 /\ \E g : Grown(K, n, g)
  BY WrittenLog
<1>5. PICK g : wal'.salt = salt /\ n > 0 /\ Grown(K, n, g)
  BY <1>20
<1>6. /\ g \in Seq(Frame) /\ g = wal'.frames /\ Len(g) = m + n
      /\ \A k \in 1..m : g[k] = F[k]
      /\ \A k \in (m + 1)..(m + n) : g[k].val = K.stamp /\ (g[k].commit <=> K.commit /\ k = m + n)
      /\ K.todo = {g[k].pg : k \in (m + 1)..(m + n)}
      /\ \A f \in walDisk' : f \in walDisk \/ (f \in Seq(Frame) /\ Len(f) \in m..(m + n) /\ \A k \in 1..Len(f) : f[k] = g[k])
  BY <1>4, <1>5 DEF Grown
<1>7. F \in Seq(Frame) /\ Len(F) \in Nat /\ F \in walDisk /\ m <= Len(F) /\ wal.salt \in Nat
  BY <1>3, <1>4, LogFields DEF Leads, Shown
<1>8. \A k \in 1..P : k \in 1..m
  BY <1>4
<1>9. /\ Copied' /\ Doubts' /\ Synced' /\ Shown(Public.mxFrame)'
      /\ Overlay(wal.frames, Public.mxFrame)' = Overlay(wal.frames, Public.mxFrame)
      /\ \A d \in Conns \ {c} : \A D : D = conn[d] /\ D.on => Data(D)'
  <2>1. P <= Len(wal'.frames) /\ wal'.frames \in Seq(Frame)
    BY <1>4, <1>6
  <2>2. \A k \in 1..P : wal'.frames[k] = F[k] /\ shm'.index[k] = shm.index[k]
    BY <1>1, <1>6, <1>8
  <2>3. ASSUME NEW f \in walDisk', f \notin walDisk
        PROVE  f \in Seq(Frame) /\ P <= Len(f) /\ \A k \in 1..P : f[k] = F[k]
    <3>1. f \in Seq(Frame) /\ Len(f) \in m..(m + n) /\ \A k \in 1..Len(f) : f[k] = g[k]
      BY <1>6, <2>3
    <3>2. P <= Len(f) /\ \A k \in 1..P : k \in 1..Len(f) /\ k \in 1..m
      BY <1>4, <3>1
    <3> QED
      BY <1>6, <3>1, <3>2
  <2> QED
    BY <1>1, <1>2, <1>3, <1>4, <2>1, <2>2, <2>3, Beyond
<1>10. K.stamp = txn
  BY <1>1, <1>3 DEF NewStamp
<1>11. m > 0 => K.hdr.salt = wal.salt /\ wal.salt # 0
  <2>1. m > 0 => K.hdr.salt = wal.salt
    BY <1>3, <1>4 DEF Leads
  <2>2. wal.salt = 0 => Len(F) = 0
    BY <1>3, <1>7, EmptySeq DEF Shared, Epoch
  <2> QED
    BY <1>4, <1>7, <2>1, <2>2
<1>12. Shared'
  <2>1. Contiguous'
    BY <1>1, <1>3 DEF Shared, Contiguous
  <2>2. Epoch'
    <3>1. wal'.salt # 0 /\ K.hdr.salt <= wal'.salt /\ (m > 0 => wal'.salt = wal.salt) /\ wal'.salt \in Nat
      BY <1>3, <1>5, <1>11
    <3>2. P > 0 => Public.salt = wal'.salt
      BY <1>3, <1>4, <3>1 DEF Shared, Epoch
    <3>3. Public.salt <= wal'.salt
      BY <1>3, <3>1 DEF Leads
    <3>4. Public' = Public /\ Public'.isInit
      BY <1>1, <1>3 DEF Public
    <3> QED
      BY <1>4, <1>9, <3>1, <3>2, <3>3, <3>4 DEF Epoch
  <2>3. Past'
    <3>1. ASSUME NEW f \in walDisk', NEW k \in 1..Len(f)
          PROVE  f[k].val <= txn
      <4>1. CASE f \in walDisk
        BY <1>3, <3>1, <4>1 DEF Shared, Past
      <4>2. CASE f \notin walDisk
        <5>1. f[k] = g[k] /\ Len(f) \in m..(m + n) /\ k \in 1..(m + n)
          BY <1>6, <4>2
        <5>2. CASE k <= m
          <6>1. k \in 1..m /\ k \in 1..Len(F)
            BY <1>7, <5>1, <5>2
          <6>2. F[k].val <= txn
            BY <1>3, <1>7, <6>1 DEF Shared, Past
          <6> QED
            BY <1>6, <5>1, <6>1, <6>2
        <5>3. CASE k > m
          <6>1. k \in (m + 1)..(m + n)
            BY <5>1, <5>3
          <6>2. txn \in Nat
            BY <1>3, LogFields
          <6> QED
            BY <1>6, <1>10, <5>1, <6>1, <6>2
        <5> QED
          BY <5>1, <5>2, <5>3
      <4> QED
        BY <4>1, <4>2
    <3> QED
      BY <1>1, <1>3, <3>1 DEF Shared, Past
  <2> QED
    BY <1>9, <2>1, <2>2, <2>3 DEF Shared
<1>13. PICK N : N = [K EXCEPT !.at = "append", !.hdr.salt = salt, !.written = K.written \union K.todo]
  OBVIOUS
<1>14. /\ N.at = "append" /\ N.hdr.mxFrame = m /\ N.hdr.salt = salt /\ N.hdr.isInit = K.hdr.isInit /\ N.written = K.written \union K.todo
       /\ N.writeLock = TRUE /\ N.stamp = K.stamp /\ N.todo = K.todo /\ N.commit = K.commit /\ N.changed = FALSE
       /\ N.cache = K.cache /\ N.on /\ N.readLock = K.readLock /\ N.minFrame = K.minFrame
  <2>1. PICK h : h = [K.hdr EXCEPT !.salt = salt]
    OBVIOUS
  <2>2. h.mxFrame = m /\ h.salt = salt /\ h.isInit = K.hdr.isInit
    BY <1>3, <1>4, <2>1 DEF Hdr
  <2>3. N = [K EXCEPT !.at = "append", !.hdr = h, !.written = K.written \union K.todo]
    BY <1>13, <2>1
  <2> QED
    BY <1>1, <1>3, <2>2, <2>3 DEF Conn
<1>15. Public' = Public /\ wal'.frames = g /\ wal'.salt = salt
  BY <1>1, <1>5, <1>6 DEF Public
<1> HIDE DEF salt
<1>16. Own(N)'
  <2>1. Owns(N)' /\ ~Announces(N)'
    BY <1>14 DEF Owns, Announces, Recovery
  <2>2. Leads(N)'
    <3>1. m <= Len(g) /\ \A k \in 1..m : shm.index[k] = {g[k].pg}
      <4>1. \A k \in 1..m : shm.index[k] = {F[k].pg}
        BY <1>3, <1>4 DEF Leads, Shown
      <4>2. m <= m + n
        OBVIOUS
      <4> QED
        BY <1>6, <4>1, <4>2
    <3>2. Shown(N.hdr.mxFrame)'
      BY <1>1, <1>14, <1>15, <3>1 DEF Shown
    <3>3. Public.salt <= salt
      BY <1>3 DEF Leads, salt
    <3> QED
      BY <1>3, <1>14, <1>15, <2>1, <3>2, <3>3 DEF Leads
  <2>3. OwnFrames(N)'
    <3>1. Top(N)' = m + n
      BY <1>6, <1>14, <1>15 DEF Top
    <3>2. K.written = {F[k].pg : k \in (P + 1)..m}
      BY <1>1, <1>3, <1>4 DEF OwnFrames, Top
    <3>3. \A k \in (P + 1)..(m + n) : k \in (m + 1)..(m + n) \/ (k \in (P + 1)..m /\ k \in 1..m /\ k # m + n)
      BY <1>4, <1>5
    <3>4. (\A k \in (P + 1)..m : k \in (P + 1)..(m + n) /\ k \in 1..m) /\ (\A k \in (m + 1)..(m + n) : k \in (P + 1)..(m + n))
      BY <1>4
    <3>5. N.written = {g[k].pg : k \in (P + 1)..(m + n)}
      <4>1. ASSUME NEW p \in N.written
            PROVE  \E k \in (P + 1)..(m + n) : g[k].pg = p
        <5>1. CASE p \in K.written
          BY <1>6, <3>2, <3>4, <5>1
        <5>2. CASE p \in K.todo
          <6>1. K.todo = {g[k].pg : k \in (m + 1)..(m + n)}
            BY <1>6
          <6>2. \E k \in (m + 1)..(m + n) : g[k].pg = p
            BY <5>2, <6>1
          <6> QED
            BY <3>4, <6>2
        <5> QED
          BY <1>14, <5>1, <5>2
      <4>2. ASSUME NEW k \in (P + 1)..(m + n)
            PROVE  g[k].pg \in N.written
        <5>1. CASE k \in (m + 1)..(m + n)
          BY <1>6, <1>14, <5>1
        <5>2. CASE k \in (P + 1)..m /\ k \in 1..m
          BY <1>6, <1>14, <3>2, <5>2
        <5> QED
          BY <3>3, <5>1, <5>2
      <4>3. PICK S : S = (P + 1)..(m + n)
        OBVIOUS
      <4> QED
        <5>1. (\A p \in N.written : \E k \in S : g[k].pg = p) /\ \A k \in S : g[k].pg \in N.written
          BY <4>1, <4>2, <4>3
        <5>2. N.written = {g[k].pg : k \in S}
          BY <5>1
        <5> QED
          BY <4>3, <5>2
    <3>6. ASSUME NEW k \in (P + 1)..(m + n)
          PROVE  g[k].val = K.stamp /\ (g[k].commit <=> k = m + n /\ K.commit)
      <4>1. CASE k \in (m + 1)..(m + n)
        BY <1>6, <4>1
      <4>2. CASE k \in (P + 1)..m /\ k \in 1..m /\ k # m + n
        <5>1. F[k].val = K.stamp /\ ~F[k].commit
          BY <1>1, <1>3, <1>4, <4>2 DEF OwnFrames, Top
        <5> QED
          BY <1>6, <4>2, <5>1
      <4> QED
        BY <3>3, <4>1, <4>2
    <3>7. P = Public'.mxFrame
      BY <1>4, <1>15
    <3>8. K.todo = {g[k].pg : k \in (m + 1)..(m + n)}
      BY <1>6
    <3> QED
      BY <1>14, <1>15, <2>1, <3>1, <3>5, <3>6, <3>7, <3>8 DEF OwnFrames
  <2>4. NewStamp(N)'
    <3>1. \A k \in 1..P : g[k].val = F[k].val
      BY <1>6, <1>8
    <3>2. \A k \in 1..P : F[k].val # txn
      BY <1>1, <1>3, <1>4 DEF NewStamp
    <3> QED
      BY <1>1, <1>3, <1>4, <1>14, <1>15, <3>1, <3>2 DEF NewStamp
  <2> QED
    BY <2>1, <2>2, <2>3, <2>4 DEF Own
<1>17. Sees(N)'
  <2>1. Sees(K)
    BY <1>3 DEF Data
  <2>2. Reads(N)' => Reads(K)
    BY <1>1, <1>14 DEF Reads, Closing
  <2>3. \A k \in 1..m : \A j \in (k + 1)..m : j \in 1..m
    OBVIOUS
  <2>4. ASSUME Reads(K), NEW p \in Pages, NEW k \in 1..(K.minFrame - 1), IsLast(g, m, p, k)
        PROVE  db[p] = g[k].val
    <3>1. k \in 1..m /\ IsLast(F, m, p, k)
      BY <1>6, <2>3, <2>4 DEF IsLast
    <3> QED
      BY <1>4, <1>6, <2>1, <2>4, <3>1 DEF Sees
  <2> QED
    BY <1>1, <1>4, <1>14, <1>15, <2>1, <2>2, <2>4 DEF Sees
<1>18. Data(N)'
  <2>1. Knows(N)' /\ Recovers(N)' /\ Checkpoints(N)'
    BY <1>3, <1>14 DEF Knows, Recovers, Recovery, Checkpoints, Copying, Finds, Copies
  <2>2. Cached(N)'
    <3>1. K.cache # NotCached => K.cache = Overlay(F, Public.mxFrame)
      BY <1>3 DEF Data, Cached, Current
    <3> QED
      BY <1>9, <1>14, <3>1 DEF Cached
  <2> QED
    BY <1>16, <1>17, <2>1, <2>2 DEF Data
<1> QED
  BY <1>1, <1>3, <1>9, <1>12, <1>13, <1>18, Moves DEF salt

-----------------------------------------------------------------------------
(* The index follows.                                                      *)

\* The index after each of n frames has been added, beginning with the one after the m-th.
AreIndexes(x, base, f, m, n) ==
  x = [j \in 0..n |-> IF j = 0 THEN base ELSE Indexed(x[j - 1], m + j, f[m + j].pg, m)]

\* They are well defined.
LEMMA IndexRecursion ==
  ASSUME NEW f, NEW m \in Nat, NEW n \in Nat, NEW base
  PROVE  \E x : AreIndexes(x, base, f, m, n)
<1> DEFINE Bad == {k \in Nat : ~\E x : AreIndexes(x, base, f, m, k)}
<1>1. SUFFICES ASSUME n \in Bad
               PROVE  FALSE
  OBVIOUS
<1>2. PICK k \in Bad : \A i \in Bad : k <= i
  <2>1. Bad \in SUBSET Nat /\ Bad # {}
    BY <1>1
  <2> HIDE DEF Bad
  <2> QED
    BY <2>1, MinIsLeast
<1>3. CASE k = 0
  <2>1. PICK x : x = [j \in 0..0 |-> base]
    OBVIOUS
  <2>2. x = [j \in 0..0 |-> IF j = 0 THEN base ELSE Indexed(x[j - 1], m + j, f[m + j].pg, m)]
    BY <2>1
  <2>3. AreIndexes(x, base, f, m, k)
    BY <1>3, <2>2 DEF AreIndexes
  <2> QED
    BY <1>2, <2>3
<1>4. CASE k # 0
  <2>1. k \in Nat /\ k - 1 \in Nat /\ k - 1 \notin Bad
    <3>1. k \in Nat
      BY <1>2
    <3> HIDE DEF Bad
    <3>2. k - 1 \in Nat /\ ~(k <= k - 1)
      BY <1>4, <3>1
    <3> QED
      BY <1>2, <3>1, <3>2
  <2>2. PICK x : x = [j \in 0..(k - 1) |-> IF j = 0 THEN base ELSE Indexed(x[j - 1], m + j, f[m + j].pg, m)]
    <3>1. PICK x : AreIndexes(x, base, f, m, k - 1)
      BY <2>1
    <3> QED
      BY <3>1 DEF AreIndexes
  <2>3. PICK y : y = [j \in 0..k |-> IF j < k THEN x[j] ELSE Indexed(x[j - 1], m + j, f[m + j].pg, m)]
    OBVIOUS
  <2>4. ASSUME NEW j \in 0..k
        PROVE  y[j] = IF j = 0 THEN base ELSE Indexed(y[j - 1], m + j, f[m + j].pg, m)
    <3>1. j # 0 => j - 1 \in 0..k /\ j - 1 < k /\ y[j - 1] = x[j - 1]
      BY <2>1, <2>3
    <3>2. CASE j < k
      <4>1. y[j] = x[j] /\ j \in 0..(k - 1)
        BY <2>1, <2>3, <3>2
      <4>2. x[j] = IF j = 0 THEN base ELSE Indexed(x[j - 1], m + j, f[m + j].pg, m)
        BY <2>2, <4>1
      <4> QED
        BY <3>1, <4>1, <4>2
    <3>3. CASE ~(j < k)
      <4>1. j # 0 /\ y[j] = Indexed(x[j - 1], m + j, f[m + j].pg, m)
        BY <1>4, <2>1, <2>3, <3>3
      <4> QED
        BY <3>1, <4>1
    <3> QED
      BY <3>2, <3>3
  <2>5. y = [j \in 0..k |-> IF j = 0 THEN base ELSE Indexed(y[j - 1], m + j, f[m + j].pg, m)]
    BY <2>3, <2>4
  <2>6. AreIndexes(y, base, f, m, k)
    BY <2>5 DEF AreIndexes
  <2> QED
    BY <1>2, <2>6
<1> QED
  BY <1>3, <1>4

LEMMA AppendIndexGives ==
  ASSUME IInv, NEW c \in Conns, AppendIndex(c)
  PROVE  \E n \in Nat : \E x :
           /\ n = Cardinality(conn[c].todo) /\ shm' = [shm EXCEPT !.index = x[n]]
           /\ AreIndexes(x, shm.index, wal.frames, conn[c].hdr.mxFrame, n)
<1> DEFINE K == conn[c]
<1>1. K \in Conn /\ K.hdr.mxFrame \in Nat
  BY Known, ConnFields
<1>2. PICK n \in Nat : n = Cardinality(K.todo)
  <2>1. IsFiniteSet(K.todo)
    BY <1>1, FS_Subset, WalAssumption DEF Conn
  <2> QED
    BY <2>1, FS_CardinalityType
<1>3. PICK m \in Nat, F \in {wal.frames}, base \in {shm.index} : m = K.hdr.mxFrame /\ F = wal.frames /\ base = shm.index
  BY <1>1
<1> DEFINE x == CHOOSE y : AreIndexes(y, base, F, m, n)
<1>4. shm' = [shm EXCEPT !.index = x[n]]
  BY <1>2, <1>3 DEF AppendIndex, AreIndexes
<1>5. \E y : AreIndexes(y, base, F, m, n)
  BY IndexRecursion
<1>6. AreIndexes(x, base, F, m, n)
  BY <1>5
<1> HIDE DEF x
<1> QED
  BY <1>2, <1>3, <1>4, <1>6

HasFrames(index, f, m) == \A k \in 1..m : index[k] = {f[k].pg}
Gapless(index) == DOMAIN index = 1..MaxFrame /\ \E last \in 0..MaxFrame : \A k \in 1..MaxFrame : index[k] # {} <=> k <= last

\* The new frames take the place of what was beyond the old ones.
LEMMA IndexValues ==
  ASSUME NEW F, NEW m \in Nat, NEW n \in Nat, m + n <= MaxFrame, NEW base, NEW x, AreIndexes(x, base, F, m, n),
         Gapless(base), HasFrames(base, F, m)
  PROVE  Gapless(x[n]) /\ HasFrames(x[n], F, m + n)
<1>0. PICK last \in 0..MaxFrame : MaxFrame \in Nat /\ \A k \in 1..MaxFrame : base[k] # {} <=> k <= last
  BY WalAssumption DEF Gapless
<1> DEFINE Good(j) == /\ DOMAIN x[j] = 1..MaxFrame
                      /\ \A k \in 1..(m + j) : x[j][k] = {F[k].pg}
                      /\ j > 0 => \A k \in (m + j + 1)..MaxFrame : x[j][k] = {}
           Bad == {j \in 0..n : ~Good(j)}
<1>1. x[0] = base /\ \A j \in 0..n : j # 0 => x[j] = Indexed(x[j - 1], m + j, F[m + j].pg, m)
  BY DEF AreIndexes
<1>2. Good(0)
  BY <1>1 DEF Gapless, HasFrames
<1>3. ASSUME NEW j \in 0..n, j # 0, Good(j - 1)
      PROVE  Good(j)
  <2>1. PICK k0 \in 1..MaxFrame : k0 = m + j
    <3>1. m + j \in 1..MaxFrame
      BY <1>0, <1>3
    <3> QED
      BY <3>1
  <2>2. PICK y : y = x[j - 1]
    OBVIOUS
  <2>3. x[j] = [k \in DOMAIN y |-> IF k = k0 THEN {F[k0].pg}
                                   ELSE IF k0 = 1 \/ (y[k0] # {} /\ m # 0 /\ k > m) THEN {} ELSE y[k]]
    BY <1>1, <1>3, <2>1, <2>2 DEF Indexed
  <2>4. DOMAIN y = 1..MaxFrame /\ (\A k \in 1..(k0 - 1) : y[k] = {F[k].pg}) /\ (j > 1 => \A k \in k0..MaxFrame : y[k] = {})
    <3>1. m + (j - 1) = k0 - 1 /\ m + (j - 1) + 1 = k0 /\ (j - 1 > 0 <=> j > 1)
      BY <1>3, <2>1
    <3> QED
      BY <1>3, <2>2, <3>1
  <2>5. j = 1 => k0 = m + 1 /\ y = base
    BY <1>1, <2>1, <2>2
  <2>6. ASSUME NEW k \in 1..(k0 - 1)
        PROVE  ~(k0 = 1 \/ (y[k0] # {} /\ m # 0 /\ k > m)) /\ k # k0 /\ k \in 1..MaxFrame
    <3>1. k0 # 1 /\ k # k0 /\ k \in 1..MaxFrame
      BY <1>0, <2>1, <2>6
    <3>2. CASE j = 1
      <4>1. ~(k > m)
        BY <2>5, <2>6, <3>2
      <4> QED
        BY <3>1, <4>1
    <3>3. CASE j # 1
      <4>1. y[k0] = {}
        BY <1>3, <2>1, <2>4, <3>3
      <4> QED
        BY <3>1, <4>1
    <3> QED
      BY <3>2, <3>3
  <2>7. ASSUME NEW k \in (k0 + 1)..MaxFrame
        PROVE  x[j][k] = {}
    <3>1. k \in 1..MaxFrame /\ k # k0
      BY <1>0, <2>1, <2>7
    <3>2. CASE j # 1
      <4>1. y[k] = {}
        BY <1>3, <2>1, <2>4, <2>7, <3>2
      <4> QED
        BY <2>3, <2>4, <3>1, <4>1
    <3>3. CASE j = 1
      <4>1. k0 = m + 1 /\ y = base
        BY <2>5, <3>3
      <4>2. CASE k0 = 1 \/ y[k0] # {}
        <5>1. k > m /\ (k0 # 1 => m # 0)
          BY <2>7, <4>1
        <5> QED
          BY <2>3, <2>4, <3>1, <4>2, <5>1
      <4>3. CASE k0 # 1 /\ y[k0] = {}
        <5>1. ~(k0 <= last)
          BY <1>0, <2>1, <4>1, <4>3
        <5>2. ~(k <= last)
          BY <1>0, <2>1, <2>7, <5>1
        <5>3. y[k] = {}
          BY <1>0, <3>1, <4>1, <5>2
        <5> QED
          BY <2>3, <2>4, <3>1, <4>3, <5>3
      <4> QED
        BY <4>2, <4>3
    <3> QED
      BY <3>2, <3>3
  <2>8. DOMAIN x[j] = 1..MaxFrame
    BY <2>3, <2>4
  <2>9. ASSUME NEW k \in 1..(m + j)
        PROVE  x[j][k] = {F[k].pg}
    <3>1. k = k0 \/ k \in 1..(k0 - 1)
      BY <2>1
    <3>2. CASE k = k0
      BY <2>3, <2>4, <3>2
    <3>3. CASE k \in 1..(k0 - 1)
      BY <2>3, <2>4, <2>6, <3>3
    <3> QED
      BY <3>1, <3>2, <3>3
  <2>10. m + j + 1 = k0 + 1
    BY <2>1
  <2> QED
    BY <2>7, <2>8, <2>9, <2>10
<1>4. Bad = {}
  <2>1. SUFFICES ASSUME Bad # {}
                 PROVE  FALSE
    OBVIOUS
  <2>2. PICK j \in Bad : \A i \in Bad : j <= i
    <3>1. Bad \in SUBSET Nat /\ Bad # {}
      BY <2>1
    <3> HIDE DEF Bad
    <3> QED
      BY <3>1, MinIsLeast
  <2> HIDE DEF Good
  <2>3. j \in 0..n /\ ~Good(j)
    BY <2>2
  <2>4. j # 0
    BY <1>2, <2>3
  <2>5. j - 1 \in 0..n /\ ~(j <= j - 1)
    BY <2>3, <2>4
  <2>6. Good(j - 1)
    BY <2>2, <2>5
  <2> QED
    BY <1>3, <2>3, <2>4, <2>6
<1>5. n \in 0..n
  OBVIOUS
<1>6. Good(n)
  <2> HIDE DEF Good
  <2> QED
    BY <1>4, <1>5
<1>7. HasFrames(x[n], F, m + n)
  BY <1>6 DEF HasFrames
<1>8. ASSUME n = 0
      PROVE  Gapless(x[n])
  BY <1>1, <1>8
<1>9. ASSUME n # 0
      PROVE  Gapless(x[n])
  <2>1. m + n \in 0..MaxFrame /\ n > 0
    BY <1>0, <1>9
  <2>2. ASSUME NEW k \in 1..MaxFrame
        PROVE  x[n][k] # {} <=> k <= m + n
    <3>1. CASE k \in 1..(m + n)
      <4>1. x[n][k] = {F[k].pg}
        BY <1>6, <3>1
      <4> QED
        BY <3>1, <4>1
    <3>2. CASE k \in (m + n + 1)..MaxFrame /\ ~(k <= m + n)
      BY <1>6, <2>1, <3>2
    <3>3. k \in 1..(m + n) \/ (k \in (m + n + 1)..MaxFrame /\ ~(k <= m + n))
      BY <1>0, <2>1
    <3> QED
      BY <3>1, <3>2, <3>3
  <2> QED
    BY <1>6, <2>1, <2>2 DEF Gapless
<1> QED
  BY <1>7, <1>8, <1>9

LEMMA AppendIndexData ==
  ASSUME IInv, DInv, NEW c \in Conns, AppendIndex(c)
  PROVE  DInv'
<1> DEFINE K == conn[c]
           F == wal.frames
           at == IF K.commit THEN "publish" ELSE "read"
<1>1. /\ K.on /\ K.at = "append" /\ K.at \in Closing /\ UNCHANGED << wal, file, history >> /\ wal' = wal /\ db' = db /\ dbDisk' = dbDisk /\ txn' = txn
      /\ walDisk' = IF K.commit THEN {F} ELSE walDisk
  BY DEF AppendIndex, At, file, history, Closing
<1>2. K.writeLock /\ K.readLock > 0
  BY <1>1, Known, ClosingLocks
<1>3. /\ K \in Conn /\ Alone(K) /\ Agrees(K) /\ Data(K) /\ Typed /\ ShmType /\ Shared /\ Live /\ K.writeLock = TRUE /\ K.changed = FALSE
      /\ Owns(K) /\ ~Announces(K) /\ Leads(K) /\ OwnFrames(K) /\ NewStamp(K) /\ K.hdr.isInit
      /\ K.hdr \in Hdr /\ Public.salt \in Nat /\ K.hdr.salt \in Nat /\ Opened /\ Public.isInit /\ MaxFrame \in Nat
  BY <1>1, <1>2, WriterFields DEF Live
<1>4. PICK m \in Nat, b \in Nat, P \in Nat : m = K.hdr.mxFrame /\ b = shm.nBackfill /\ P = Public.mxFrame /\ P <= m /\ b <= P
  BY <1>1, <1>2, WriterFields
<1>20. PICK n \in Nat : \E x : n = Cardinality(K.todo) /\ shm' = [shm EXCEPT !.index = x[n]] /\ AreIndexes(x, shm.index, F, m, n)
  BY <1>4, AppendIndexGives
<1>5. PICK x : n = Cardinality(K.todo) /\ shm' = [shm EXCEPT !.index = x[n]] /\ AreIndexes(x, shm.index, F, m, n)
  BY <1>20
<1>6. n > 0 /\ m + n <= MaxFrame /\ Len(F) = m + n /\ F \in Seq(Frame) /\ F \in walDisk /\ walDisk' \subseteq walDisk
  <2>1. Prepared(K)
    BY <1>1, <1>3 DEF Prepared
  <2>2. K.todo # {} /\ m + n <= MaxFrame
    BY <1>4, <1>5, <2>1, <1>1, <1>3 DEF Alone, Numbers
  <2>3. Len(F) = m + n
    BY <1>1, <1>3, <1>4, <1>5 DEF Agrees, Writer
  <2>4. n # 0
    <3>1. IsFiniteSet(K.todo)
      BY <1>3, FS_Subset, WalAssumption DEF Conn
    <3> QED
      BY <1>5, <2>2, <3>1, FS_EmptySet
  <2>5. F \in Seq(Frame) /\ F \in walDisk
    BY <1>3, LogFields
  <2> QED
    BY <1>1, <2>2, <2>3, <2>4, <2>5
<1>7. Gapless(x[n]) /\ HasFrames(x[n], F, m + n) /\ HasFrames(shm.index, F, m)
  <2>1. Gapless(shm.index) /\ HasFrames(shm.index, F, m)
    BY <1>3, <1>4 DEF Leads, Shown, Shared, Contiguous, Gapless, HasFrames
  <2> QED
    BY <1>5, <1>6, <2>1, IndexValues
<1>8. shm'.hdr = shm.hdr /\ shm'.nBackfill = shm.nBackfill /\ shm'.index = x[n] /\ Public' = Public
  BY <1>3, <1>5 DEF ShmType, Public
<1>9. /\ Copied' /\ Doubts' /\ Synced' /\ Shown(Public.mxFrame)'
      /\ Overlay(wal.frames, Public.mxFrame)' = Overlay(wal.frames, Public.mxFrame)
      /\ \A d \in Conns \ {c} : \A D : D = conn[d] /\ D.on => Data(D)'
  <2>1. P <= Len(wal'.frames) /\ wal'.frames \in Seq(Frame)
    BY <1>1, <1>4, <1>6
  <2>2. \A k \in 1..P : k \in 1..m /\ k \in 1..(m + n)
    BY <1>4
  <2>3. \A k \in 1..P : wal'.frames[k] = F[k] /\ shm'.index[k] = shm.index[k]
    BY <1>1, <1>7, <1>8, <2>2 DEF HasFrames
  <2>4. \A f \in walDisk' : f \in walDisk
    BY <1>6
  <2> QED
    BY <1>1, <1>2, <1>3, <1>4, <1>8, <2>1, <2>3, <2>4, Beyond
<1>10. Shared'
  <2>1. Contiguous'
    BY <1>7, <1>8 DEF Contiguous, Gapless
  <2>2. Epoch'
    <3>1. wal.salt = 0 => walDisk' = {<< >>}
      BY <1>1, <1>3, <1>6 DEF Shared, Epoch
    <3> QED
      BY <1>1, <1>3, <1>8, <1>9, <3>1 DEF Shared, Epoch
  <2>3. Past'
    BY <1>1, <1>3, <1>6 DEF Shared, Past
  <2> QED
    BY <1>9, <2>1, <2>2, <2>3 DEF Shared
<1>11. PICK N : N = [K EXCEPT !.hdr = [K.hdr EXCEPT !.isInit = TRUE, !.mxFrame = m + n], !.todo = {}, !.commit = FALSE, !.at = at]
  OBVIOUS
<1>12. Become(c, N)
  BY <1>4, <1>5, <1>11 DEF AppendIndex
<1>13. /\ N.at = at /\ N.hdr.mxFrame = m + n /\ N.hdr.salt = K.hdr.salt /\ N.hdr.isInit /\ N.written = K.written
       /\ N.writeLock = TRUE /\ N.stamp = K.stamp /\ N.changed = FALSE /\ N.cache = K.cache /\ N.on
       /\ N.readLock = K.readLock /\ N.minFrame = K.minFrame
  <2>1. PICK h : h = [K.hdr EXCEPT !.isInit = TRUE, !.mxFrame = m + n]
    OBVIOUS
  <2>2. h.mxFrame = m + n /\ h.salt = K.hdr.salt /\ h.isInit
    BY <1>3, <2>1 DEF Hdr
  <2>3. N = [K EXCEPT !.hdr = h, !.todo = {}, !.commit = FALSE, !.at = at]
    BY <1>11, <2>1
  <2> QED
    BY <1>1, <1>3, <2>2, <2>3 DEF Conn
<1>14. at \in {"publish", "read"} /\ (at = "publish" <=> K.commit)
  BY <1>3 DEF Conn
<1> HIDE DEF at
<1>15. P < m + n /\ P <= m
  BY <1>4, <1>6
<1>16. Own(N)'
  <2>1. Owns(N)' /\ (Announces(N)' <=> K.commit)
    BY <1>13, <1>14 DEF Owns, Announces, Recovery
  <2>2. Leads(N)'
    <3>1. Shown(N.hdr.mxFrame)'
      <4>1. m + n <= Len(F)
        BY <1>4, <1>6
      <4> QED
        BY <1>1, <1>7, <1>8, <1>13, <4>1 DEF Shown, HasFrames
    <3>2. N.hdr.salt = wal'.salt /\ Public.salt <= N.hdr.salt
      BY <1>1, <1>3, <1>13 DEF Leads
    <3>3. K.commit => walDisk' = {wal'.frames} /\ Len(wal'.frames) = N.hdr.mxFrame /\ P < N.hdr.mxFrame
      BY <1>1, <1>6, <1>13, <1>15
    <3> QED
      BY <1>3, <1>4, <1>8, <2>1, <3>1, <3>2, <3>3 DEF Leads
  <2>3. OwnFrames(N)'
    <3>1. Top(K) = m + n /\ Top(N)' = m + n
      BY <1>1, <1>6, <1>13, <1>14 DEF Top
    <3> QED
      BY <1>1, <1>3, <1>4, <1>8, <1>13, <1>14, <2>1, <3>1 DEF OwnFrames
  <2>4. NewStamp(N)'
    BY <1>1, <1>3, <1>8, <1>13 DEF NewStamp
  <2> QED
    BY <2>1, <2>2, <2>3, <2>4 DEF Own
<1>17. Sees(N)'
  <2>1. Sees(K)
    BY <1>3 DEF Data
  <2>2. Reads(K) /\ K.minFrame \in 1..(b + 1)
    BY <1>1, <1>2, <1>4, <2>1 DEF Reads, Closing, Sees
  <2>3. ASSUME NEW p \in Pages, NEW k \in 1..(K.minFrame - 1), IsLast(F, m + n, p, k)
        PROVE  db[p] = F[k].val
    <3>1. k \in 1..m
      BY <1>4, <2>2, <2>3
    <3>2. \A j \in (k + 1)..m : j \in (k + 1)..(m + n)
      BY <1>4
    <3>3. IsLast(F, m, p, k)
      BY <2>3, <3>1, <3>2 DEF IsLast
    <3> QED
      BY <1>4, <2>1, <2>2, <2>3, <3>3 DEF Sees
  <2> QED
    BY <1>1, <1>2, <1>4, <1>8, <1>13, <1>14, <2>2, <2>3 DEF Sees, IsLast
<1>18. Data(N)'
  <2>1. Knows(N)' /\ Recovers(N)' /\ Checkpoints(N)'
    BY <1>13, <1>14 DEF Knows, Recovers, Recovery, Checkpoints, Copying, Finds, Copies
  <2>2. Cached(N)'
    <3>1. K.cache # NotCached => K.cache = Overlay(F, Public.mxFrame)
      BY <1>3 DEF Data, Cached, Current
    <3> QED
      BY <1>9, <1>13, <3>1 DEF Cached
  <2> QED
    BY <1>16, <1>17, <2>1, <2>2 DEF Data
<1> QED
  BY <1>3, <1>9, <1>10, <1>12, <1>18, Moves

-----------------------------------------------------------------------------
(* Recovery.                                                               *)

LEMMA RecoverData ==
  ASSUME IInv, DInv, NEW c \in Conns, Recover(c)
  PROVE  DInv'
<1> DEFINE K == conn[c]
           F == wal.frames
           mx == Max(Commits(wal.frames) \union {0})
           hdr == [isInit |-> TRUE, mxFrame |-> mx, salt |-> wal.salt]
           locked == CanCheckpoint(c) /\ \A i \in {0} \union Marks : CanExcludeRead(c, i)
           index == [k \in DOMAIN shm.index |-> IF k \in DOMAIN F THEN {F[k].pg} ELSE IF F # << >> THEN {} ELSE shm.index[k]]
<1>1. /\ K \in Conn /\ Alone(K) /\ Agrees(K) /\ Data(K) /\ Typed /\ ShmType /\ Shared /\ Opened /\ Committed(Public.mxFrame)
      /\ K.on /\ K.at = "bad" /\ UNCHANGED << log, file, history >> /\ CanWrite(c) /\ ~GoodHdr
      /\ wal' = wal /\ walDisk' = walDisk /\ db' = db /\ dbDisk' = dbDisk /\ txn' = txn
  BY Facts, OpenHeader DEF Recover, At, log, file, history
<1>2. K.writeLock = FALSE /\ K.stamp = 0 /\ NotAfter(K.hdr, Public) /\ Fits(K.cache, K.hdr) /\ K.changed = FALSE
  BY <1>1, RestingFields
<1>3. CASE ~locked
  <2>1. Become(c, Left(K)) /\ UNCHANGED shm
    BY <1>3 DEF Recover
  <2>2. Still /\ shm'.hdr = shm.hdr
    BY <1>1, <2>1, OnlyConnIsStill
  <2> QED
    BY <1>1, <1>2, <2>1, <2>2, LeftData, Quiet
<1>4. CASE locked
  <2>1. shm' = [shm EXCEPT !.hdr[2] = hdr, !.index = index]
    BY <1>4 DEF Recover
  <2>2. Become(c, [K EXCEPT !.at = "recover2", !.hdr = hdr, !.writeLock = TRUE, !.exRead = {0} \union Marks])
    BY <1>4 DEF Recover
  <2>3. mx \in Nat /\ Committed(mx) /\ \A n : Committed(n) => n <= mx
    <3>1. LogType
      BY <1>1 DEF Typed
    <3> QED
      BY <3>1, LastCommit, WalAssumption
  <2>4. /\ F \in Seq(Frame) /\ Len(F) \in Nat /\ DOMAIN F = 1..Len(F) /\ Len(F) <= MaxFrame /\ MaxFrame \in Nat /\ wal.salt \in Nat
        /\ Public.mxFrame \in Nat /\ Public \in Hdr
    BY <1>1, LogFields, ShmFields DEF Public
  <2>5. mx <= Len(F)
    BY <2>3, <2>4 DEF Committed
  <2>6. hdr.isInit = TRUE /\ hdr.mxFrame = mx /\ hdr.salt = wal.salt
    OBVIOUS
  <2>7. PICK new : new = hdr
    OBVIOUS
  <2>8. PICK m \in Nat : m = mx
    BY <2>3
  <2>9. new.isInit = TRUE /\ new.mxFrame = m /\ new.salt = wal.salt /\ m = Max(Commits(F) \union {0})
    BY <2>6, <2>7, <2>8
  <2>10. PICK ix : ix = index
    OBVIOUS
  <2>11. shm' = [shm EXCEPT !.hdr[2] = new, !.index = ix]
    BY <2>1, <2>7, <2>10
  <2>12. \A n : Committed(n) => n <= m
    BY <2>3, <2>8
  <2>13. m <= Len(F)
    BY <2>5, <2>8
  <2>14. Become(c, [K EXCEPT !.at = "recover2", !.hdr = new, !.writeLock = TRUE, !.exRead = {0} \union Marks])
    BY <2>2, <2>7
  <2>15. /\ DOMAIN ix = 1..MaxFrame
         /\ \A k \in 1..Len(F) : ix[k] = {F[k].pg}
         /\ F # << >> => \A k \in 1..MaxFrame : k > Len(F) => ix[k] = {}
         /\ F = << >> => \A k \in 1..MaxFrame : ix[k] = shm.index[k]
    <3>1. DOMAIN shm.index = 1..MaxFrame
      BY <1>1 DEF Shared, Contiguous
    <3>2. DOMAIN ix = 1..MaxFrame /\ \A k \in 1..MaxFrame : ix[k] = IF k \in DOMAIN F THEN {F[k].pg} ELSE IF F # << >> THEN {} ELSE shm.index[k]
      BY <2>10, <3>1
    <3>3. \A k \in 1..Len(F) : k \in 1..MaxFrame /\ k \in DOMAIN F
      BY <2>4
    <3>4. \A k \in 1..MaxFrame : k > Len(F) => k \notin DOMAIN F
      BY <2>4
    <3>5. F = << >> => DOMAIN F = {}
      BY <2>4, EmptySeq
    <3> QED
      BY <3>2, <3>3, <3>4, <3>5
  <2> HIDE DEF hdr, mx, index
  <2>16. Public' = Public /\ shm'.nBackfill = shm.nBackfill /\ shm'.index = ix
    <3>1. PICK S : S = [shm EXCEPT !.hdr[2] = new]
      OBVIOUS
    <3>2. S.hdr[1] = shm.hdr[1] /\ S.nBackfill = shm.nBackfill /\ shm' = [S EXCEPT !.index = ix] /\ DOMAIN S = DOMAIN shm
      BY <1>1, <2>11, <3>1 DEF ShmType
    <3> QED
      BY <1>1, <3>2 DEF Public, ShmType
  <2>17. Public.isInit => Live /\ Public.salt <= wal.salt /\ Shown(Public.mxFrame)
    <3>1. Public.isInit => shm.hdr[2] # Public
      BY <1>1 DEF GoodHdr, Public
    <3> QED
      BY <1>1, <3>1 DEF Live, Shared, Epoch
  <2>18. Public.mxFrame <= m
    BY <1>1, <2>12
  <2>19. Shared'
    <3>1. Contiguous'
      <4>1. CASE F = << >>
        <5>1. DOMAIN ix = 1..MaxFrame /\ \A k \in 1..MaxFrame : ix[k] = shm.index[k]
          BY <2>15, <4>1
        <5>2. PICK b \in 0..MaxFrame : \A k \in 1..MaxFrame : shm.index[k] # {} <=> k <= b
          BY <1>1 DEF Shared, Contiguous
        <5>3. \A k \in 1..MaxFrame : ix[k] # {} <=> k <= b
          BY <5>1, <5>2
        <5> QED
          BY <2>16, <5>1, <5>3 DEF Contiguous
      <4>2. CASE F # << >>
        <5>1. Len(F) \in 0..MaxFrame
          BY <2>4
        <5>2. ASSUME NEW k \in 1..MaxFrame
              PROVE  ix[k] # {} <=> k <= Len(F)
          <6>1. CASE k \in 1..Len(F)
            <7>1. ix[k] = {F[k].pg}
              BY <2>15, <6>1
            <7> QED
              BY <6>1, <7>1
          <6>2. CASE k > Len(F)
            BY <2>4, <2>15, <4>2, <6>2
          <6> QED
            BY <2>4, <6>1, <6>2
        <5> QED
          BY <2>15, <2>16, <5>1, <5>2 DEF Contiguous
      <4> QED
        BY <4>1, <4>2
    <3>2. Epoch'
      <4>1. \A k \in 1..Public.mxFrame : k \in 1..Len(F)
        BY <2>4, <2>13, <2>18
      <4>2. Public.mxFrame <= Len(F)
        BY <2>4, <2>13, <2>18
      <4>3. Shown(Public.mxFrame)'
        BY <1>1, <2>15, <2>16, <4>1, <4>2 DEF Shown
      <4>4. Live' => Live
        BY <1>1, <2>16 DEF Live
      <4> QED
        BY <1>1, <2>16, <2>17, <4>3, <4>4 DEF Shared, Epoch, Live
    <3>3. Live' => Live
      BY <1>1, <2>16 DEF Live
    <3>4. Copied' /\ Doubts' /\ Synced' /\ Past'
      BY <1>1, <2>16, <3>3 DEF Shared, Copied, Doubts, Doubtful, Synced, Past, IsLast
    <3> QED
      BY <3>1, <3>2, <3>4 DEF Shared
  <2>20. PICK N : N = [K EXCEPT !.at = "recover2", !.hdr = new, !.writeLock = TRUE, !.exRead = {0} \union Marks]
    OBVIOUS
  <2>21. N.at = "recover2" /\ N.hdr = new /\ N.writeLock = TRUE /\ N.stamp = 0 /\ N.changed = FALSE /\ N.cache = K.cache /\ N.on
    BY <1>1, <1>2, <2>20 DEF Conn
  <2>22. Data(N)'
    <3>1. N.at \in Recovery /\ N.at \notin {"check", "read", "start", "restart", "restart2", "copy"} \union Closing \union Copying
      BY <2>21 DEF Recovery, Closing, Copying
    <3>2. Recovers(N)'
      <4>1. Shown(m)'
        <5>1. \A k \in 1..m : k \in 1..Len(F)
          BY <2>4, <2>13
        <5> QED
          BY <1>1, <2>13, <2>15, <2>16, <5>1 DEF Shown
      <4>2. NotAfter(Public, new)
        <5>1. Public.isInit => Public.salt < wal.salt \/ Public.salt = wal.salt
          BY <2>4, <2>17 DEF Hdr
        <5> QED
          BY <2>9, <2>18, <5>1 DEF NotAfter
      <4>3. m = Max(Commits(F) \union {0})'
        BY <1>1, <2>9 DEF Commits
      <4> QED
        BY <1>1, <2>9, <2>16, <2>21, <4>1, <4>2, <4>3 DEF Recovers
    <3>3. Knows(N)' /\ Own(N)' /\ Sees(N)' /\ Checkpoints(N)' /\ Cached(N)'
      BY <2>9, <2>21, <3>1 DEF Knows, Own, Owns, Sees, Reads, Checkpoints, Finds, Copies, Cached, Current
    <3> QED
      BY <3>2, <3>3 DEF Data
  <2>23. Overlay(wal.frames, Public.mxFrame)' = Overlay(F, Public.mxFrame)
    BY <1>1, <2>16 DEF Overlay
  <2>24. ASSUME NEW d \in Conns \ {c}, NEW D, D = conn[d], D.on
         PROVE  Data(D)'
    <3>1. D \in Conn /\ Alone(D) /\ Data(D) /\ ~D.writeLock
      BY <1>1, <2>24, Facts DEF CanWrite
    <3>2. ~D.ckptLock /\ D.at \notin Recovery /\ \A i \in {0} \union Marks : D.readLock # i
      BY <1>4, <2>24 DEF CanCheckpoint, Recovering, Recovery, CanExcludeRead
    <3>3. D.at \notin {"start"} \union Copying
      BY <3>1, <3>2 DEF Alone, Locks
    <3>4. ~Owns(D) /\ D.stamp = 0
      BY <3>1, <3>2 DEF Data, Own, Owns
    <3>5. ~Reads(D)
      BY <3>1, <3>2, ReaderHasMark
    <3>6. Knows(D)' /\ Own(D)' /\ Recovers(D)'
      BY <2>16, <3>1, <3>2, <3>4 DEF Data, Knows, Own, Owns, Recovers
    <3>7. Sees(D)'
      BY <2>16, <3>1, <3>5 DEF Data, Sees, Reads
    <3>8. Checkpoints(D)'
      BY <1>1, <3>1, <3>3 DEF Data, Checkpoints, Finds, Copies, Copying
    <3>9. Cached(D)'
      BY <2>16, <2>23, <3>1 DEF Data, Cached, Current
    <3> QED
      BY <3>6, <3>7, <3>8, <3>9 DEF Data
  <2> QED
    BY <1>1, <2>14, <2>19, <2>20, <2>22, <2>24, Moves
<1> QED
  BY <1>3, <1>4

LEMMA NotAfterIsOrder ==
  ASSUME NEW g \in Hdr, NEW h \in Hdr, NEW i \in Hdr, NotAfter(g, h), NotAfter(h, i)
  PROVE  NotAfter(g, i) /\ (g = i /\ g.isInit => h = i)
<1>1. /\ g.salt \in Nat /\ h.salt \in Nat /\ i.salt \in Nat /\ g.mxFrame \in Nat /\ h.mxFrame \in Nat /\ i.mxFrame \in Nat
  BY WalAssumption DEF Hdr
<1>2. NotAfter(g, i)
  BY <1>1 DEF NotAfter
<1>3. ASSUME g = i, g.isInit
      PROVE  h = i
  <2>1. h.isInit = TRUE /\ i.isInit = TRUE /\ h.salt = i.salt /\ h.mxFrame = i.mxFrame
    BY <1>1, <1>3 DEF NotAfter, Hdr
  <2> QED
    BY <2>1 DEF Hdr
<1> QED
  BY <1>2, <1>3

\* The recovered header replaces one that was not fit to be read, and is not older.
LEMMA Recover2Data ==
  ASSUME IInv, DInv, NEW c \in Conns, Recover2(c)
  PROVE  DInv'
<1> DEFINE K == conn[c]
           F == wal.frames
<1>1. /\ K \in Conn /\ Alone(K) /\ Agrees(K) /\ Data(K) /\ Typed /\ ShmType /\ Shared /\ Opened /\ Committed(Public.mxFrame)
      /\ K.on /\ K.at = "recover2" /\ K.at \in Recovery /\ wal' = wal /\ walDisk' = walDisk /\ db' = db /\ dbDisk' = dbDisk /\ txn' = txn
  BY Facts, OpenHeader DEF Recover2, At, log, file, history, Recovery
<1>2. /\ K.writeLock = TRUE /\ K.exRead = {0} \union Marks
      /\ \A d \in Conns \ {c} :
           ~conn[d].writeLock /\ ~conn[d].ckptLock /\ ~Reads(conn[d]) /\ conn[d].at \notin {"start", "restart2"} \union Copying
  BY <1>1, RecoveryLocks
<1>3. PICK h \in Hdr, m \in Nat, b \in Nat, P \in Nat : h = K.hdr /\ m = h.mxFrame /\ b = shm.nBackfill /\ P = Public.mxFrame
  BY <1>1, ConnFields, ShmFields DEF Public
<1>4. h.isInit /\ h.salt = wal.salt /\ Shown(m) /\ m = Max(Commits(F) \union {0}) /\ NotAfter(Public, h) /\ Public \in Hdr
  BY <1>1, <1>3, ShmFields DEF Data, Recovers, Public
<1>5. P <= m /\ (\A n \in Commits(F) : n <= m) /\ b <= P /\ b <= m /\ F \in walDisk
  <2>1. LogType
    BY <1>1 DEF Typed
  <2>2. \A n : Committed(n) => n <= m
    BY <1>4, <2>1, LastCommit
  <2>3. \A n \in Commits(F) : Committed(n)
    BY DEF Commits, Committed
  <2>4. \A d \in Conns : conn[d].at # "restart3"
    <3>1. ASSUME NEW d \in Conns \ {c}
          PROVE  conn[d].at # "restart3"
      BY <1>2, Known DEF Alone, Locks, Restarting
    <3> QED
      BY <1>1, <3>1
  <2>5. b <= P
    BY <1>1, <1>3, <2>4 DEF IInv, Header, Opened, Public
  <2>6. F \in walDisk
    BY <1>1, LogFields
  <2> QED
    BY <1>1, <1>3, <2>2, <2>3, <2>5, <2>6
<1>6. Public' = h /\ shm'.nBackfill = b /\ shm'.index = shm.index /\ shm'.hdr[2] = shm.hdr[2]
  BY <1>1, <1>3 DEF Recover2, ShmType, Public
<1>7. Shared'
  <2>1. Contiguous' /\ Past'
    BY <1>1, <1>6 DEF Shared, Contiguous, Past
  <2>2. Epoch'
    <3>1. Shown(m)'
      BY <1>1, <1>4, <1>6 DEF Shown
    <3>2. h.salt \in Nat /\ h.salt <= wal.salt
      BY <1>4 DEF Hdr
    <3> QED
      BY <1>1, <1>3, <1>4, <1>6, <3>1, <3>2 DEF Shared, Epoch
  <2>3. Copied'
    <3>1. ASSUME NEW p \in Pages, NEW k \in 1..b, IsLast(F, m, p, k)
          PROVE  db[p] = F[k].val
      <4>1. k \in 1..P /\ \A j \in (k + 1)..P : j \in (k + 1)..m
        BY <1>3, <1>5
      <4>2. IsLast(F, P, p, k)
        BY <3>1, <4>1 DEF IsLast
      <4> QED
        BY <1>1, <1>3, <3>1, <4>2 DEF Shared, Copied
    <3> QED
      BY <1>1, <1>3, <1>6, <3>1 DEF Copied, IsLast
  <2>4. ASSUME NEW p \in Pages, Doubtful(p)
        PROVE  (\A f \in walDisk : Covers(f, p)) /\ \E k \in 1..m : F[k].pg = p
    <3>1. \A f \in walDisk : Covers(f, p)
      BY <1>1, <2>4 DEF Shared, Doubts
    <3>2. PICK n \in Commits(F) : \E k \in 1..n : F[k].pg = p
      BY <1>5, <3>1 DEF Covers
    <3>3. n \in Nat /\ n <= m
      BY <1>1, <1>5, LogFields DEF Commits
    <3>4. PICK k \in 1..n : F[k].pg = p
      BY <3>2
    <3>5. k \in 1..m
      BY <1>3, <3>3
    <3> QED
      BY <3>1, <3>4, <3>5
  <2>5. Doubts'
    BY <1>1, <1>3, <1>6, <2>4 DEF Doubts, Doubtful, Covers, Commits
  <2>6. Synced'
    <3>1. ASSUME b >= m, NEW p \in Pages
          PROVE  dbDisk[p] = {db[p]}
      <4>1. CASE Public.isInit
        <5>1. b >= P
          BY <1>3, <1>5, <3>1
        <5> QED
          BY <1>1, <1>3, <4>1, <5>1 DEF Shared, Synced, Live
      <4>2. CASE ~Public.isInit
        <5>1. b = 0 /\ m = 0
          <6>1. b = 0
            BY <1>1, <1>3, <4>2 DEF Shared, Epoch
          <6> QED
            BY <1>3, <3>1, <6>1
        <5>2. ~Doubtful(p)
          BY <2>4, <5>1
        <5> QED
          BY <5>2 DEF Doubtful
      <4> QED
        BY <4>1, <4>2
    <3> QED
      BY <1>1, <1>3, <1>6, <3>1 DEF Synced
  <2> QED
    BY <2>1, <2>2, <2>3, <2>5, <2>6 DEF Shared
<1>8. PICK N : N = [K EXCEPT !.at = "recover3"]
  OBVIOUS
<1>9. N.at = "recover3" /\ N.hdr = h /\ N.writeLock = TRUE /\ N.stamp = K.stamp /\ N.changed = K.changed /\ N.cache = K.cache /\ N.on
  BY <1>1, <1>2, <1>3, <1>8 DEF Conn
<1>10. Become(c, N)
  BY <1>1, <1>8, GotoIsBecome DEF Recover2
<1>11. K.stamp = 0 /\ ~K.changed
  BY <1>1 DEF Data, Own, Owns, Checkpoints, Copying
<1>12. Data(N)'
  <2>1. N.at \in Recovery /\ N.at \notin {"check", "read", "start", "restart", "restart2", "copy"} \union Closing \union Copying
    BY <1>9 DEF Recovery, Closing, Copying
  <2>2. Recovers(N)'
    <3>1. Shown(m)'
      BY <1>1, <1>4, <1>6 DEF Shown
    <3>2. NotAfter(h, h)
      BY <1>3 DEF NotAfter
    <3>3. m = Max(Commits(F) \union {0})'
      BY <1>1, <1>4 DEF Commits
    <3> QED
      BY <1>1, <1>3, <1>4, <1>6, <1>9, <3>1, <3>2, <3>3 DEF Recovers
  <2>3. Knows(N)' /\ Own(N)' /\ Sees(N)' /\ Checkpoints(N)' /\ Cached(N)'
    BY <1>4, <1>9, <1>11, <2>1 DEF Knows, Own, Owns, Sees, Reads, Checkpoints, Finds, Copies, Cached, Current
  <2> QED
    BY <2>2, <2>3 DEF Data
<1>13. ASSUME NEW d \in Conns \ {c}, NEW D, D = conn[d], D.on
       PROVE  Data(D)'
  <2>1. /\ D.writeLock = FALSE /\ D.at \notin Recovery \union Closing \union Restarting /\ D.stamp = 0 /\ NotAfter(D.hdr, Public)
        /\ (D.on /\ D.at \notin {"idle", "bad"} => D.hdr.isInit) /\ Checkpoints(D) /\ Sees(D) /\ Cached(D)
        /\ D \in Conn /\ Alone(D) /\ Pair(K, D) /\ D.hdr \in Hdr
    BY <1>2, <1>13, Others, ConnFields DEF Data
  <2>2. ~Reads(D) /\ D.at \notin {"start"} \union Copying /\ D.readLock # 0
    BY <1>2, <1>13, <2>1 DEF Pair, Excludes
  <2>3. NotAfter(D.hdr, h) /\ (D.hdr = h => Public = h)
    BY <1>4, <2>1, NotAfterIsOrder
  <2>4. Sees(D)'
    <3>1. ~Reads(D)' /\ D.at \notin {"restart", "restart2"}
      BY <2>1, <2>2 DEF Reads, Restarting
    <3> QED
      BY <1>3, <1>6, <2>1, <2>2, <3>1 DEF Sees
  <2>5. Checkpoints(D)'
    BY <2>1, <2>2 DEF Checkpoints, Finds, Copies, Copying
  <2>6. Cached(D)'
    <3>1. CASE Public = h
      <4>1. Overlay(wal.frames, Public.mxFrame)' = Overlay(F, Public.mxFrame)
        BY <1>1, <1>6, <3>1 DEF Overlay
      <4> QED
        BY <1>6, <2>1, <3>1, <4>1 DEF Cached, Current
    <3>2. CASE D.hdr # h
      BY <1>6, <2>1, <3>2 DEF Cached, Current, Owns
    <3> QED
      BY <2>3, <3>1, <3>2
  <2> QED
    BY <1>6, <2>1, <2>3, <2>4, <2>5, <2>6, OtherLater
<1> QED
  BY <1>1, <1>7, <1>8, <1>10, <1>12, <1>13, Moves

\* Recovery is over: nothing counts as copied, and everybody may read again.
LEMMA Recover3Data ==
  ASSUME IInv, DInv, NEW c \in Conns, Recover3(c)
  PROVE  DInv'
<1> DEFINE K == conn[c]
           F == wal.frames
<1>1. /\ K \in Conn /\ Alone(K) /\ Agrees(K) /\ Data(K) /\ Typed /\ ShmType /\ Shared /\ Opened
      /\ K.on /\ K.at = "recover3" /\ K.at \in Recovery /\ wal' = wal /\ walDisk' = walDisk /\ db' = db /\ dbDisk' = dbDisk /\ txn' = txn
  BY Facts, OpenHeader DEF Recover3, At, log, file, history, Recovery
<1>2. /\ K.writeLock = TRUE /\ K.exRead = {0} \union Marks
      /\ \A d \in Conns \ {c} :
           ~conn[d].writeLock /\ ~conn[d].ckptLock /\ ~Reads(conn[d]) /\ conn[d].at \notin {"start", "restart2"} \union Copying
  BY <1>1, RecoveryLocks
<1>3. Public = K.hdr /\ Committed(K.hdr.mxFrame) /\ K.hdr.isInit /\ K.stamp = 0 /\ K.hdr \in Hdr
  BY <1>1, <1>2, ConnFields DEF Agrees, Writer, Data, Recovers, Own, Owns, Public
<1>4. Live /\ (Live' => Live)
  BY <1>1, <1>3 DEF Live
<1>5. Public' = Public /\ shm'.hdr[2] = shm.hdr[2] /\ shm'.nBackfill = 0 /\ shm'.index = shm.index
  BY <1>1 DEF Recover3, ShmType, Public
<1>6. Shared'
  <2>1. Contiguous' /\ Past'
    BY <1>1, <1>5 DEF Shared, Contiguous, Past
  <2>2. Epoch'
    BY <1>1, <1>3, <1>4, <1>5 DEF Shared, Epoch, Shown
  <2>3. Copied'
    BY <1>5 DEF Copied
  <2>4. Doubts'
    BY <1>1, <1>3, <1>4, <1>5 DEF Shared, Doubts, Doubtful
  <2>5. Synced'
    <3>1. ASSUME Public.mxFrame = 0, NEW p \in Pages
          PROVE  dbDisk[p] = {db[p]}
      <4>1. Doubtful(p) => \E k \in 1..Public.mxFrame : F[k].pg = p
        BY <1>1, <1>4 DEF Shared, Doubts
      <4>2. ~Doubtful(p)
        BY <3>1, <4>1
      <4> QED
        BY <4>2 DEF Doubtful
    <3>2. Public.mxFrame \in Nat
      BY <1>1, ShmFields DEF Public
    <3> QED
      BY <1>1, <1>5, <3>1, <3>2 DEF Synced
  <2> QED
    BY <2>1, <2>2, <2>3, <2>4, <2>5 DEF Shared
<1>7. PICK N : N = [K EXCEPT !.at = IF K.ckptLock THEN "start" ELSE "pick", !.writeLock = FALSE, !.exRead = {},
                             !.cache = IF K.ckptLock THEN K.cache ELSE NotCached, !.changed = K.ckptLock]
  OBVIOUS
<1>8. /\ N.at = (IF K.ckptLock THEN "start" ELSE "pick") /\ N.hdr = K.hdr /\ N.writeLock = FALSE /\ N.stamp = 0
      /\ N.changed = K.ckptLock /\ (N.changed \/ N.cache = NotCached) /\ N.on
  BY <1>1, <1>3, <1>7 DEF Conn
<1>9. Become(c, N)
  BY <1>7 DEF Recover3
<1>10. ASSUME NEW d \in Conns \ {c}, NEW D, D = conn[d], D.on
       PROVE  Data(D)'
  <2>1. /\ D.writeLock = FALSE /\ D.at \notin Recovery \union Closing \union Restarting /\ D.stamp = 0 /\ NotAfter(D.hdr, Public)
        /\ (D.on /\ D.at \notin {"idle", "bad"} => D.hdr.isInit) /\ Checkpoints(D) /\ Sees(D) /\ Cached(D)
        /\ D \in Conn /\ Alone(D) /\ Pair(K, D)
    BY <1>2, <1>10, Others DEF Data
  <2>2. ~Reads(D) /\ D.at \notin {"start"} \union Copying /\ D.readLock # 0
    BY <1>2, <1>10, <2>1 DEF Pair, Excludes
  <2>3. Sees(D)'
    <3>1. ~Reads(D)' /\ D.at \notin {"restart", "restart2"}
      BY <2>1, <2>2 DEF Reads, Restarting
    <3>2. D.at \in {"check", "read"} \union Closing /\ D.readLock > 0 => D.minFrame \in 1..(0 + 1)
      <4>1. ASSUME D.at = "check", D.readLock > 0
            PROVE  FALSE
        <5>1. D.readLock \in Marks
          BY <2>1, <4>1, ConnFields DEF Marks
        <5> QED
          BY <1>2, <2>1, <5>1 DEF Pair, Excludes
      <4> QED
        BY <2>1, <2>2, <4>1 DEF Reads
    <3> QED
      BY <1>5, <2>2, <3>1, <3>2 DEF Sees
  <2>4. Checkpoints(D)'
    BY <2>1, <2>2 DEF Checkpoints, Finds, Copies, Copying
  <2>5. Overlay(wal.frames, Public.mxFrame)' = Overlay(F, Public.mxFrame)
    BY <1>1, <1>5 DEF Overlay
  <2>6. Cached(D)'
    BY <1>5, <2>1, <2>5 DEF Cached, Current, Owns
  <2> QED
    BY <1>5, <2>1, <2>3, <2>4, <2>6, OtherLater
<1>11. Data(N)'
  <2>1. N.at \in {"start", "pick"} /\ (N.at = "start" <=> N.changed)
        /\ N.at \notin {"idle", "bad", "check", "read", "restart", "restart2"} \union Closing \union Recovery \union Copying
    BY <1>1, <1>8 DEF Recovery, Closing, Copying, Conn
  <2>2. Knows(N)'
    <3>1. NotAfter(N.hdr, Public)'
      BY <1>3, <1>5, <1>8 DEF NotAfter, Hdr
    <3> QED
      BY <1>3, <1>8, <3>1 DEF Knows
  <2>3. Own(N)' /\ Recovers(N)' /\ Sees(N)' /\ Cached(N)'
    BY <1>8, <2>1 DEF Own, Owns, Recovers, Sees, Reads, Cached, Current
  <2>4. Checkpoints(N)'
    <3>1. Committed(N.hdr.mxFrame)'
      BY <1>1, <1>3, <1>8 DEF Committed
    <3> QED
      BY <2>1, <3>1 DEF Checkpoints, Finds, Copies
  <2> QED
    BY <2>2, <2>3, <2>4 DEF Data
<1> QED
  BY <1>1, <1>6, <1>9, <1>10, <1>11, Moves

-----------------------------------------------------------------------------
LEMMA DataInitially ==
  ASSUME Init
  PROVE  DInv
<1>1. PICK N \in Conn : N = Fresh
  BY FreshType
<1>2. /\ N.at = "idle" /\ N.readLock = -1 /\ N.writeLock = FALSE /\ N.stamp = 0 /\ N.changed = FALSE /\ N.hdr = NoHdr
      /\ N.cache = NotCached /\ N.on
  BY <1>1, FreshType DEF Fresh
<1>3. /\ Public = NoHdr /\ shm.nBackfill = 0 /\ DOMAIN shm.index = 1..MaxFrame /\ \A k \in 1..MaxFrame : shm.index[k] = {}
  BY DEF Init, NoShm, Public
<1>4. ~Live
  BY <1>3 DEF Live, NoHdr
<1>5. Data(N)
  <2>1. N.at \in Resting
    BY <1>2 DEF Resting
  <2>2. Knows(N) /\ Fits(N.cache, N.hdr)
    BY <1>2 DEF Knows, NotAfter, NoHdr, Fits
  <2> QED
    BY <1>2, <2>1, <2>2, RestingData
<1>6. Contiguous
  <2>1. 0 \in 0..MaxFrame /\ \A k \in 1..MaxFrame : ~(k <= 0)
    BY WalAssumption
  <2> QED
    BY <1>3, <2>1 DEF Contiguous
<1>7. Epoch /\ Copied /\ Synced
  BY <1>3, <1>4 DEF Init, Epoch, Copied, Synced
<1>8. Doubts
  <2>1. \A p \in Pages : dbDisk[p] = {db[p]} /\ db[p] # Garbage
    BY WalAssumption DEF Init, Garbage
  <2> QED
    BY <2>1 DEF Doubts, Doubtful
<1>9. Past
  <2>1. \A p \in Pages : dbDisk[p] = {0}
    BY DEF Init
  <2>2. \A k \in 1..Len(<< >>) : FALSE
    BY EmptySeq
  <2> QED
    BY <2>1, <2>2 DEF Past, Init
<1>10. \A c \in Conns : conn[c] = N
  BY <1>1 DEF Init
<1> QED
  BY <1>5, <1>6, <1>7, <1>8, <1>9, <1>10 DEF DInv, Shared

LEMMA DataLater ==
  ASSUME IInv, DInv, [Next]_vars
  PROVE  DInv'
<1>1. CASE UNCHANGED vars
  <2>1. UNCHANGED << conn, shm, wal, walDisk, db, dbDisk, txn >>
    BY <1>1 DEF vars, log, file, history
  <2>2. Still /\ shm'.hdr = shm.hdr
    BY <2>1 DEF Still, log, file
  <2>3. Shared'
    BY <2>1, <2>2, SharedStays DEF DInv, Opened
  <2>4. ASSUME NEW d \in Conns, conn[d].on
        PROVE  Data(conn[d])'
    <3>1. Data(conn[d])
      BY <2>4 DEF DInv
    <3>2. PICK D : D = conn[d]
      OBVIOUS
    <3>3. Data(D)'
      BY <2>2, <3>1, <3>2, DataStays
    <3> QED
      BY <2>1, <3>2, <3>3
  <2> QED
    BY <2>1, <2>3, <2>4 DEF DInv
<1>2. ASSUME NEW c \in Conns, BeginRead(c) \/ BeginCkpt(c) \/ TryAgain(c)
      PROVE  DInv'
  BY <1>2, TriesData
<1>3. ASSUME NEW c \in Conns, Recover(c) \/ Recover2(c) \/ Recover3(c)
      PROVE  DInv'
  BY <1>3, RecoverData, Recover2Data, Recover3Data
<1>4. ASSUME NEW c \in Conns, Pick(c) \/ Mark(c) \/ SetMark(c) \/ LockMark(c) \/ CheckMark(c) \/ EndRead(c)
      PROVE  DInv'
  BY <1>4, PickData, MarkData, SetMarkData, LockMarkData, CheckMarkData, EndReadData
<1>5. ASSUME NEW c \in Conns, BeginWrite(c) \/ Restart(c) \/ Restart2(c) \/ Restart3(c)
      PROVE  DInv'
  BY <1>5, BeginWriteData, RestartData, Restart2Data, Restart3Data
<1>6. ASSUME NEW c \in Conns, WriteFrames(c) \/ AppendIndex(c) \/ Publish(c) \/ Publish2(c) \/ Rollback(c)
      PROVE  DInv'
  BY <1>6, WriteFramesData, AppendIndexData, PublishData, Publish2Data, RollbackData
<1>7. ASSUME NEW c \in Conns, CkptStart(c) \/ CkptReadMark(c) \/ CkptLockMark(c) \/ CkptCopyLock(c) \/ CkptDone(c)
      PROVE  DInv'
  BY <1>7, CkptStartData, CkptReadMarkData, CkptLockMarkData, CkptCopyLockData, CkptDoneData
<1>8. ASSUME NEW c \in Conns, Open(c) \/ Crash(c)
      PROVE  DInv'
  BY <1>8, OpenData, CrashData
<1> QED
  BY <1>1, <1>2, <1>3, <1>4, <1>5, <1>6, <1>7, <1>8, CopyData, FramesData, PowerFailsData DEF Next

LEMMA DInvHolds ==
  ASSUME "race" \notin Troubles, "halfRestart" \notin Troubles
  PROVE  Spec => [](IInv /\ DInv)
<1>1. Init => IInv /\ DInv
  BY Initially, DataInitially
<1>2. IInv /\ DInv /\ [Next]_vars => IInv' /\ DInv'
  BY InductiveStep, DataLater
<1> QED
  BY <1>1, <1>2, PTL DEF Spec

-----------------------------------------------------------------------------
(* What the connections see.                                               *)

\* What a connection finds at each page.
Found(K) ==
  [p \in Pages |-> IF K.cache # NotCached THEN K.cache[p]
                   ELSE IF K.readLock = 0 THEN db[p] ELSE Apply(wal.frames, K.hdr.mxFrame, db)[p]]

Looks(K) == K.at = "read" /\ ~K.writeLock
Writes(K) == K.writeLock /\ K.at \notin Recovery
Absent(K) == (~K.writeLock /\ K.at # "read") \/ K.at \in Recovery

\* A reader sees what it finds, a writer and whoever goes by the public header see the database.
ViewInv ==
  \A c \in Conns :
    LET K == conn[c]
    IN  /\ Absent(K) => View(c) = << >>
        /\ Writes(K) => View(c) = Image
        /\ At(c, "read") /\ K.hdr = Public => View(c) = Image
        /\ Looks(K) => View(c) = Found(K)

LEMMA ContentIs ==
  ASSUME IInv, DInv, NEW c \in Conns, At(c, "read"), NEW p \in Pages
  PROVE  Content(conn[c])[p] = Found(conn[c])[p]
<1> DEFINE K == conn[c]
<1>1. K \in Conn /\ Alone(K) /\ Agrees(K) /\ Data(K) /\ Typed /\ ShmType /\ Shared /\ K.on /\ K.at = "read" /\ Opened
  BY Facts, OpenHeader DEF At
<1>2. CASE K.cache # NotCached
  BY <1>2 DEF Content, Found
<1>3. CASE K.cache = NotCached /\ K.readLock = 0
  BY <1>3 DEF Content, Found, Lookup
<1>4. CASE K.cache = NotCached /\ K.readLock # 0
  <2>1. Reads(K) /\ K.readLock > 0
    BY <1>1, <1>4, ReadingLocks DEF Reads
  <2>2. K.minFrame \in Nat \ {0} /\ wal.frames \in Seq(Frame) /\ K.hdr.mxFrame \in Nat
    <3>1. K.minFrame \in 1..(shm.nBackfill + 1)
      BY <1>1, <2>1 DEF Data, Sees
    <3>2. K.minFrame \in Nat \ {0}
      BY <1>1, <3>1, ShmFields
    <3> QED
      BY <1>1, <3>2, ConnFields, LogFields
  <2>3. \A k \in 1..(K.minFrame - 1) : IsLast(wal.frames, K.hdr.mxFrame, p, k) => db[p] = wal.frames[k].val
    BY <1>1, <2>1 DEF Data, Sees
  <2>4. Shown(K.hdr.mxFrame)
    <3>1. CASE K.writeLock
      <4>1. Owns(K)
        BY <1>1, <3>1 DEF Owns, Recovery
      <4> QED
        BY <1>1, <4>1 DEF Data, Own, Leads
    <3>2. CASE ~K.writeLock
      <4>1. K.hdr.isInit /\ NotAfter(K.hdr, Public) /\ K.hdr.mxFrame <= Public.mxFrame
        BY <1>1, <2>1, <3>2 DEF Data, Knows, Sees
      <4>2. Shown(Public.mxFrame) /\ Public.mxFrame \in Nat
        BY <1>1, <4>1, ShmFields DEF NotAfter, Shared, Epoch, Live, Public
      <4>3. PICK m \in Nat : m = Public.mxFrame
        BY <4>2
      <4> QED
        <5>1. PICK n \in Nat, len \in Nat : n = K.hdr.mxFrame /\ len = Len(wal.frames)
          BY <1>1, <2>2, LogFields
        <5>2. n <= m /\ m <= len /\ \A k \in 1..m : shm.index[k] = {wal.frames[k].pg}
          BY <4>1, <4>2, <4>3, <5>1 DEF Shown
        <5>3. n <= len /\ \A k \in 1..n : shm.index[k] = {wal.frames[k].pg}
          BY <5>2
        <5> QED
          BY <5>1, <5>3 DEF Shown
    <3> QED
      BY <3>1, <3>2
  <2>5. Lookup(K, p) = Apply(wal.frames, K.hdr.mxFrame, db)[p]
    BY <1>4, <2>2, <2>3, <2>4, LookupIs
  <2> QED
    BY <1>4, <2>5 DEF Content, Found
<1> QED
  BY <1>2, <1>3, <1>4

LEMMA ImageIs ==
  /\ Live => Image = Overlay(wal.frames, Public.mxFrame)
  /\ ~Live => Image = Durable(wal.frames)
BY DEF Live, Image, Public, Opened

\* What a writer that reads its pages finds at those that it has not written.
LEMMA WriterFinds ==
  ASSUME IInv, DInv, NEW c \in Conns, At(c, "read"), conn[c].writeLock, NEW p \in Pages, p \notin conn[c].written
  PROVE  Found(conn[c])[p] = Overlay(wal.frames, Public.mxFrame)[p]
<1> DEFINE K == conn[c]
           F == wal.frames
<1>1. K \in Conn /\ Alone(K) /\ Agrees(K) /\ Data(K) /\ Typed /\ ShmType /\ Shared /\ K.on /\ K.at = "read" /\ Opened /\ K.writeLock
  BY Facts, OpenHeader DEF At
<1>2. Owns(K) /\ ~Announces(K) /\ Top(K) = K.hdr.mxFrame
  BY <1>1 DEF Owns, Recovery, Announces, Top
<1>3. Leads(K) /\ OwnFrames(K) /\ Public.isInit
  BY <1>1, <1>2 DEF Data, Own, Leads
<1>4. F \in Seq(Frame) /\ Public.mxFrame \in Nat /\ K.hdr.mxFrame \in Nat /\ K.hdr.mxFrame <= Len(F) /\ Public.mxFrame <= K.hdr.mxFrame
  <2>1. F \in Seq(Frame) /\ Public.mxFrame \in Nat /\ K.hdr.mxFrame \in Nat
    BY <1>1, LogFields, ConnFields, ShmFields DEF Public
  <2>2. K.hdr.mxFrame <= Len(F)
    BY <1>3 DEF Leads, Shown
  <2>3. Public.mxFrame <= K.hdr.mxFrame
    BY <1>1, <2>1 DEF Agrees, Writer, Public
  <2> QED
    BY <2>1, <2>2, <2>3
<1>5. CASE K.cache # NotCached
  <2>1. K.cache = Overlay(F, Public.mxFrame)
    BY <1>1, <1>2, <1>3, <1>5 DEF Data, Cached, Current
  <2> QED
    BY <1>5, <2>1 DEF Found
<1>6. CASE K.cache = NotCached /\ K.readLock = 0
  <2>1. K.hdr = Public
    BY <1>1, <1>6 DEF Agrees, Writer, Public
  <2>2. shm.nBackfill = Public.mxFrame
    BY <1>1, <1>6, <2>1 DEF Data, Sees
  <2>3. Overlay(F, Public.mxFrame) = db
    BY <1>1, <1>4, <2>1, <2>2, AllCopied DEF Shared
  <2> QED
    BY <1>6, <2>3 DEF Found
<1>7. CASE K.cache = NotCached /\ K.readLock # 0
  <2>1. \A k \in (Public.mxFrame + 1)..K.hdr.mxFrame : F[k].pg # p
    BY <1>2, <1>3 DEF OwnFrames
  <2>2. PICK f \in Seq(Frame), m \in Nat, n \in Nat : f = F /\ m = Public.mxFrame /\ n = K.hdr.mxFrame
    BY <1>4
  <2>3. m <= n /\ n <= Len(f)
    BY <1>4, <2>2
  <2>4. \/ \E k \in (m + 1)..n : f[k].pg = p /\ Apply(f, n, db)[p] = f[k].val
        \/ (\A k \in (m + 1)..n : f[k].pg # p) /\ Apply(f, n, db)[p] = Apply(f, m, db)[p]
    BY <2>3, ApplyMore
  <2>5. Apply(F, K.hdr.mxFrame, db)[p] = Apply(F, Public.mxFrame, db)[p]
    BY <2>1, <2>2, <2>4
  <2> QED
    BY <1>7, <2>5, OverlayIsApply DEF Found
<1> QED
  BY <1>5, <1>6, <1>7

LEMMA ViewsAre == IInv /\ DInv => ViewInv
<1> SUFFICES ASSUME IInv, DInv, NEW c \in Conns
             PROVE  LET K == conn[c]
                    IN  /\ Absent(K) => View(c) = << >>
                        /\ Writes(K) => View(c) = Image
                        /\ At(c, "read") /\ K.hdr = Public => View(c) = Image
                        /\ Looks(K) => View(c) = Found(K)
  BY DEF ViewInv
<1> DEFINE K == conn[c]
<1>1. K \in Conn /\ Alone(K) /\ Agrees(K) /\ (K.on => Data(K)) /\ Typed /\ ShmType /\ Shared
  BY Facts
<1>2. Absent(K) => View(c) = << >>
  BY DEF View, Absent, Recovering, Recovery
<1>3. K.at = "read" => K.on /\ ~Recovering(c)
  BY <1>1 DEF Alone, Locks, Recovering
<1>4. K.at = "read" => View(c) = [p \in Pages |-> IF p \in K.written THEN Image[p] ELSE Found(K)[p]]
  <2>1. ASSUME K.at = "read"
        PROVE  \A p \in Pages : Content(K)[p] = Found(K)[p]
    BY <1>3, <2>1, ContentIs DEF At
  <2> QED
    BY <1>3, <2>1 DEF View
<1>5. ~K.writeLock => K.written = {}
  BY <1>1 DEF Alone, Locks, Conn
<1>6. Looks(K) => View(c) = Found(K)
  <2>1. Found(K) = [p \in Pages |-> Found(K)[p]]
    BY DEF Found
  <2> QED
    BY <1>4, <1>5, <2>1 DEF Looks
<1>7. K.on /\ Public.isInit => Image = Overlay(wal.frames, Public.mxFrame) /\ Image = [p \in Pages |-> Image[p]]
  <2>1. K.on /\ Public.isInit => Live
    BY DEF Live, Opened
  <2>2. Overlay(wal.frames, Public.mxFrame) = [p \in Pages |-> Overlay(wal.frames, Public.mxFrame)[p]]
    BY DEF Overlay
  <2> QED
    BY <2>1, <2>2, ImageIs
<1>8. ASSUME Writes(K)
      PROVE  View(c) = Image
  <2>1. CASE K.at # "read"
    BY <1>8, <2>1 DEF View, Writes, Recovering, Recovery
  <2>2. CASE K.at = "read"
    <3>1. K.on /\ Owns(K)
      BY <1>3, <1>8, <2>2 DEF Owns, Writes
    <3>2. Public.isInit
      BY <1>1, <3>1 DEF Data, Own, Leads
    <3>3. \A p \in Pages : p \notin K.written => Found(K)[p] = Image[p]
      BY <1>7, <1>8, <2>2, <3>1, <3>2, WriterFinds DEF At, Writes
    <3> QED
      BY <1>4, <1>7, <2>2, <3>1, <3>2, <3>3
  <2> QED
    BY <2>1, <2>2
<1>9. ASSUME At(c, "read"), K.hdr = Public, ~K.writeLock
      PROVE  View(c) = Image
  <2>1. K.on /\ K.at = "read" /\ Data(K) /\ Public.isInit /\ ~K.changed
    BY <1>1, <1>9 DEF At, Data, Knows, Checkpoints, Copying
  <2>2. ASSUME NEW p \in Pages
        PROVE  Found(K)[p] = Image[p]
    <3>1. CASE K.cache = NotCached
      <4>1. Lookup(K, p) = Overlay(wal.frames, Public.mxFrame)[p]
        BY <1>9, <2>1, FindsImage
      <4>2. Content(K)[p] = Found(K)[p]
        BY <1>9, ContentIs
      <4> QED
        BY <1>7, <2>1, <3>1, <4>1, <4>2 DEF Content
    <3>2. CASE K.cache # NotCached
      <4>1. K.cache = Overlay(wal.frames, Public.mxFrame)
        BY <1>9, <2>1, <3>2 DEF Data, Cached, Current
      <4> QED
        BY <1>7, <2>1, <3>2, <4>1 DEF Found
    <3> QED
      BY <3>1, <3>2
  <2> QED
    BY <1>4, <1>5, <1>7, <1>9, <2>1, <2>2
<1>10. At(c, "read") /\ K.hdr = Public => View(c) = Image
  <2>1. At(c, "read") /\ K.writeLock => Writes(K)
    BY DEF At, Writes, Recovery
  <2> QED
    BY <1>8, <1>9, <2>1
<1> HIDE DEF K
<1> QED
  BY <1>2, <1>6, <1>8, <1>10 DEF K

-----------------------------------------------------------------------------
(* Steps of the log as steps of the database.                              *)

RInv == IInv /\ DInv /\ ViewInv

\* The contents that a failure may leave, and what everybody sees.
Unsure == {Durable(frames) : frames \in walDisk \union {wal.frames}}
Views == [c \in Conns |-> View(c)]

LEMMA IsSettle ==
  ASSUME Image' = Image, Unsure' \subseteq Unsure \union {Image}, Views' = Views
  PROVE  Abstract!Next
<1>1. Abstract!Settle
  BY DEF Abstract!Settle, Unsure, Views
<1> QED
  BY <1>1 DEF Abstract!Next

LEMMA IsBeginRead ==
  ASSUME NEW c \in Conns, Image' = Image, Unsure' = Unsure, View(c) = << >>, Views' = [Views EXCEPT ![c] = Image]
  PROVE  Abstract!Next
<1>1. Abstract!BeginRead(c)
  BY DEF Abstract!BeginRead, Abstract!None, Unsure, Views
<1> QED
  BY <1>1 DEF Abstract!Next

LEMMA IsEndRead ==
  ASSUME NEW c \in Conns, Image' = Image, Unsure' = Unsure, View(c) # << >>, Views' = [Views EXCEPT ![c] = << >>]
  PROVE  Abstract!Next
<1>1. Abstract!EndRead(c)
  BY DEF Abstract!EndRead, Abstract!None, Unsure, Views
<1> QED
  BY <1>1 DEF Abstract!Next

LEMMA IsCommit ==
  ASSUME NEW c \in Conns, View(c) = Image, Image' \in Abstract!Successors(Image), Views' = [Views EXCEPT ![c] = Image'],
         Unsure' \subseteq {Image'}
  PROVE  Abstract!Next
<1>1. Abstract!Commit(c)
  BY DEF Abstract!Commit, Unsure, Views
<1> QED
  BY <1>1 DEF Abstract!Next

LEMMA IsOffer ==
  ASSUME NEW c \in Conns, View(c) = Image, Image' = Image, Views' = Views,
         NEW new \in Abstract!Successors(Image), Unsure' \subseteq Unsure \union {Image, new}
  PROVE  Abstract!Next
<1>1. Abstract!Offer(c)
  BY DEF Abstract!Offer, Unsure, Views
<1> QED
  BY <1>1 DEF Abstract!Next

LEMMA IsDie ==
  ASSUME NEW c \in Conns, Image' = Image, Unsure' \subseteq Unsure, Views' = [Views EXCEPT ![c] = << >>]
  PROVE  Abstract!Next
<1>1. Views' = [d \in Conns |-> IF d \in {c} THEN << >> ELSE Views[d]]
  BY DEF Views
<1>2. Abstract!Die({c})
  BY <1>1 DEF Abstract!Die, Abstract!None, Unsure, Views
<1>3. {c} \in (SUBSET Conns) \ {{}}
  OBVIOUS
<1> QED
  BY <1>2, <1>3 DEF Abstract!Next

LEMMA IsRestart ==
  ASSUME \A c \in Conns : View(c)' = << >>, Image' \in {Image} \union Unsure, Unsure' \subseteq Unsure \union {Image}
  PROVE  Abstract!Next
<1>1. Abstract!Restart
  BY DEF Abstract!Restart, Abstract!None, Unsure
<1> QED
  BY <1>1 DEF Abstract!Next

\* Nothing of what counts changes but for one connection.
Keeps(c) ==
  /\ \A d \in Conns \ {c} : conn'[d] = conn[d]
  /\ conn[c].on /\ conn'[c].on /\ shm'.hdr[1] = shm.hdr[1]
  /\ wal' = wal /\ db' = db /\ (walDisk' = walDisk \/ walDisk' = {wal.frames})

LEMMA ImageStays ==
  ASSUME shm'.hdr[1] = shm.hdr[1], Opened' <=> Opened, wal' = wal, db' = db
  PROVE  Image' = Image
BY DEF Image, Opened, Overlay, Durable, Commits

LEMMA UnsureStays ==
  ASSUME wal' = wal, db' = db
  PROVE  (walDisk' = walDisk => Unsure' = Unsure) /\ (walDisk' = {wal.frames} => Unsure' \subseteq Unsure)
<1>1. ASSUME NEW f
      PROVE  Durable(f)' = Durable(f)
  BY DEF Durable, Overlay, Commits
<1> QED
  BY <1>1 DEF Unsure

LEMMA ViewStays ==
  ASSUME RInv, RInv', Image' = Image, NEW d \in Conns, conn'[d] = conn[d], Looks(conn[d]) => Found(conn[d])' = Found(conn[d])
  PROVE  View(d)' = View(d)
<1>1. CASE Absent(conn[d])
  BY <1>1 DEF RInv, ViewInv, Absent
<1>2. CASE Writes(conn[d])
  BY <1>2 DEF RInv, ViewInv, Writes
<1>3. CASE Looks(conn[d])
  BY <1>3 DEF RInv, ViewInv, Looks
<1> QED
  BY <1>1, <1>2, <1>3 DEF Absent, Writes, Looks

LEMMA FoundStays ==
  ASSUME NEW d \in Conns, conn'[d] = conn[d], wal' = wal, db' = db
  PROVE  Found(conn[d])' = Found(conn[d])
BY DEF Found, Apply

LEMMA KeptViews ==
  ASSUME RInv, RInv', NEW c \in Conns, Keeps(c)
  PROVE  /\ Image' = Image /\ Unsure' \subseteq Unsure /\ (walDisk' = walDisk => Unsure' = Unsure)
         /\ \A v : View(c)' = v => Views' = [Views EXCEPT ![c] = v]
         /\ View(c)' = View(c) => Views' = Views
<1>1. Image' = Image
  BY ImageStays DEF Keeps, Opened
<1>2. \A d \in Conns \ {c} : View(d)' = View(d)
  BY <1>1, ViewStays, FoundStays DEF Keeps
<1>3. Unsure' \subseteq Unsure /\ (walDisk' = walDisk => Unsure' = Unsure)
  BY UnsureStays DEF Keeps
<1>4. \A v : View(c)' = v => Views' = [Views EXCEPT ![c] = v]
  BY <1>2 DEF Views
<1>5. View(c)' = View(c) => Views' = Views
  BY <1>2 DEF Views
<1> QED
  BY <1>1, <1>3, <1>4, <1>5

\* A connection that sees nothing, or that writes, before and after a step.
LEMMA Unseen ==
  ASSUME RInv, RInv', NEW c \in Conns, Keeps(c),
         (Absent(conn[c]) /\ Absent(conn'[c])) \/ (Writes(conn[c]) /\ Writes(conn'[c]))
  PROVE  Abstract!Next
<1>1. Absent(conn'[c]) => View(c)' = << >>
  BY DEF RInv, ViewInv, Absent
<1>2. Writes(conn'[c]) => View(c)' = Image'
  BY DEF RInv, ViewInv, Writes
<1>3. View(c)' = View(c)
  BY <1>1, <1>2, KeptViews DEF RInv, ViewInv
<1> QED
  BY <1>3, KeptViews, IsSettle

\* The same, by what the connection becomes.
LEMMA Stays ==
  ASSUME RInv, RInv', NEW c \in Conns, NEW N, Become(c, N), conn[c].on, N.on,
         shm'.hdr[1] = shm.hdr[1], wal' = wal, db' = db, walDisk' = walDisk \/ walDisk' = {wal.frames},
         (Absent(conn[c]) /\ Absent(N)) \/ (Writes(conn[c]) /\ Writes(N))
  PROVE  Abstract!Next
<1>1. conn'[c] = N /\ \A d \in Conns \ {c} : conn'[d] = conn[d]
  BY DEF Become, RInv, IInv, Typed
<1>2. Keeps(c)
  BY <1>1 DEF Keeps
<1> QED
  BY <1>1, <1>2, Unseen

LEMMA TriesSettle ==
  ASSUME RInv, RInv', NEW c \in Conns, BeginRead(c) \/ BeginCkpt(c) \/ TryAgain(c)
  PROVE  Abstract!Next
<1>1. /\ conn[c] \in Conn /\ Alone(conn[c]) /\ ShmType /\ shm' = shm /\ wal' = wal /\ walDisk' = walDisk /\ db' = db /\ conn[c].on
      /\ conn[c].at \in {"idle", "bad"}
  BY Facts DEF RInv, BeginRead, BeginCkpt, TryAgain, At, log, file
<1>2. PICK K \in Conn :
        /\ K = conn[c] \/ K = [conn[c] EXCEPT !.ckptLock = TRUE]
        /\ \/ GoodHdr /\ Become(c, Accepted(K, shm.hdr[1]))
           \/ Become(c, [K EXCEPT !.at = "bad"])
           \/ Become(c, Left(K))
  <2>1. [conn[c] EXCEPT !.ckptLock = TRUE] \in Conn
    BY <1>1 DEF Conn
  <2> QED
    BY <1>1, <2>1 DEF BeginRead, BeginCkpt, TryAgain, Tried
<1>3. conn[c].writeLock = FALSE
  BY <1>1 DEF Alone, Locks, Conn, Recovery, Choosing, Closing, Restarting
<1>4. K.writeLock = FALSE /\ K.on
  BY <1>1, <1>2, <1>3 DEF Conn
<1>5. PICK N : Become(c, N) /\ N.on /\ N.writeLock = FALSE /\ N.at \in {"start", "pick", "bad", "idle"}
  <2>1. CASE Become(c, Accepted(K, shm.hdr[1]))
    BY <1>1, <1>2, <1>4, <2>1, AcceptedType, ShmFields
  <2>2. CASE Become(c, [K EXCEPT !.at = "bad"])
    <3>1. PICK N : N = [K EXCEPT !.at = "bad"]
      OBVIOUS
    <3>2. N.at = "bad" /\ N.writeLock = FALSE /\ N.on
      BY <1>4, <3>1 DEF Conn
    <3> QED
      BY <2>2, <3>1, <3>2
  <2>3. CASE Become(c, Left(K))
    <3>1. PICK N : N = Left(K)
      OBVIOUS
    <3>2. N.on /\ N.writeLock = FALSE /\ N.at = "idle"
      BY <1>4, <3>1, LeftType
    <3> QED
      BY <2>3, <3>1, <3>2
  <2> QED
    BY <1>2, <2>1, <2>2, <2>3
<1>6. Absent(conn[c]) /\ Absent(N)
  BY <1>1, <1>3, <1>5 DEF Absent
<1> QED
  BY <1>1, <1>5, <1>6, Stays

LEMMA CkptSettle ==
  ASSUME RInv, RInv', NEW c \in Conns,
         CkptStart(c) \/ CkptReadMark(c) \/ CkptLockMark(c) \/ CkptCopyLock(c) \/ CkptDone(c)
  PROVE  Abstract!Next
<1> DEFINE K == conn[c]
<1>1. /\ K \in Conn /\ Alone(K) /\ ShmType /\ wal' = wal /\ (walDisk' = walDisk \/ walDisk' = {wal.frames}) /\ db' = db /\ K.on
      /\ K.at \in {"start", "readMark", "lockMark_i", "copyLock", "copy"} /\ K.at \in {"start"} \union Copying
  BY Facts DEF RInv, CkptStart, CkptReadMark, CkptLockMark, CkptCopyLock, CkptDone, At, log, file, Copying
<1>2. shm'.hdr[1] = shm.hdr[1]
  BY <1>1 DEF CkptStart, CkptReadMark, CkptLockMark, CkptCopyLock, CkptDone, ShmType
<1>3. K.writeLock = FALSE
  BY <1>1, CkptLocks
<1>4. K.at \in Copying => K.i \in 0..NReader /\ K.safe \in Nat /\ K.mark \in Nat /\ K.hdr.mxFrame \in Nat /\ K.safe <= K.hdr.mxFrame
  BY <1>1, ConnFields DEF Alone, Numbers
<1>5. PICK N : Become(c, N) /\ N.on /\ N.writeLock = FALSE /\ N.at # "read"
  <2>1. CASE Become(c, Ended(K))
    BY <1>1, <2>1, EndedType
  <2>2. ASSUME NEW L, L.on = K.on, L.writeLock = K.writeLock, L.at # "read", Become(c, L)
        PROVE  \E N : Become(c, N) /\ N.on /\ N.writeLock = FALSE /\ N.at # "read"
    BY <1>1, <1>3, <2>2
  <2>3. ASSUME NEW L \in Conn, L.i \in Marks, L.safe <= L.hdr.mxFrame, L.on = K.on, L.writeLock = K.writeLock, Become(c, Next_i(L))
        PROVE  \E N : Become(c, N) /\ N.on /\ N.writeLock = FALSE /\ N.at # "read"
    <3>1. PICK N : N = Next_i(L)
      OBVIOUS
    <3>2. N.at \in {"readMark", "copyLock"} /\ N.on = L.on /\ N.writeLock = L.writeLock
      BY <2>3, <3>1, NextType
    <3> QED
      BY <1>1, <1>3, <2>3, <3>1, <3>2
  <2>4. CASE CkptStart(c)
    <3>1. PICK i, s, t : Become(c, [K EXCEPT !.at = "readMark", !.i = i, !.safe = s, !.iter = t]) \/ Become(c, Ended(K))
      BY <2>4 DEF CkptStart
    <3>2. PICK L : L = [K EXCEPT !.at = "readMark", !.i = i, !.safe = s, !.iter = t]
      OBVIOUS
    <3>3. L.on = K.on /\ L.writeLock = K.writeLock /\ L.at = "readMark"
      BY <1>1, <3>2 DEF Conn
    <3> QED
      BY <2>1, <2>2, <3>1, <3>2, <3>3
  <2>5. CASE CkptReadMark(c)
    <3>1. K.at = "readMark" /\ K.i \in Marks /\ K.safe <= K.hdr.mxFrame
      BY <1>1, <2>5 DEF CkptReadMark, At, Alone, Numbers, Copying
    <3>2. CASE Become(c, [K EXCEPT !.at = "lockMark_i", !.mark = shm.mark[K.i]])
      <4>1. PICK L : L = [K EXCEPT !.at = "lockMark_i", !.mark = shm.mark[K.i]]
        OBVIOUS
      <4>2. L.on = K.on /\ L.writeLock = K.writeLock /\ L.at = "lockMark_i"
        BY <1>1, <4>1 DEF Conn
      <4> QED
        BY <2>2, <3>2, <4>1, <4>2
    <3> QED
      BY <1>1, <2>3, <2>5, <3>1, <3>2 DEF CkptReadMark
  <2>6. CASE CkptLockMark(c)
    <3>1. K.at = "lockMark_i" /\ K.i \in Marks /\ K.mark < K.safe /\ K.at \in Copying
      BY <1>1, <2>6 DEF CkptLockMark, At, Alone, Numbers, Copying
    <3>2. CASE Become(c, Next_i([K EXCEPT !.safe = K.mark]))
      <4>1. K.mark \in Frames0
        BY <1>1, <1>4, <3>1, ConnFields, WalAssumption DEF Frames0
      <4>2. PICK L \in Conn : L = [K EXCEPT !.safe = K.mark]
        BY <1>1, <4>1 DEF Conn
      <4>3. L.on = K.on /\ L.writeLock = K.writeLock /\ L.i = K.i /\ L.safe = K.mark /\ L.hdr = K.hdr
        BY <1>1, <4>2 DEF Conn
      <4>4. L.safe <= L.hdr.mxFrame
        BY <1>4, <3>1, <4>3
      <4> QED
        BY <2>3, <3>1, <3>2, <4>2, <4>3, <4>4
    <3>3. CASE Become(c, Next_i(K))
      BY <1>1, <1>4, <2>3, <3>1, <3>3
    <3> QED
      BY <2>6, <3>2, <3>3 DEF CkptLockMark
  <2>7. CASE CkptCopyLock(c)
    <3>1. PICK t : Become(c, [K EXCEPT !.at = "copy", !.exRead = {0}, !.todo = t]) \/ Become(c, Ended(K))
      BY <2>7 DEF CkptCopyLock
    <3>2. PICK L : L = [K EXCEPT !.at = "copy", !.exRead = {0}, !.todo = t]
      OBVIOUS
    <3>3. L.on = K.on /\ L.writeLock = K.writeLock /\ L.at = "copy"
      BY <1>1, <3>2 DEF Conn
    <3> QED
      BY <2>1, <2>2, <3>1, <3>2, <3>3
  <2>8. CASE CkptDone(c)
    <3>1. PICK E \in Conn : E = Ended(K) /\ E.at = "idle" /\ E.on = K.on /\ E.writeLock = FALSE
      BY <1>1, EndedType
    <3>2. PICK L : L = [E EXCEPT !.exRead = {}]
      OBVIOUS
    <3>3. L.on = K.on /\ L.writeLock = K.writeLock /\ L.at = "idle"
      BY <1>3, <3>1, <3>2 DEF Conn
    <3>4. Become(c, L)
      BY <2>8, <3>1, <3>2 DEF CkptDone
    <3> QED
      BY <2>2, <3>3, <3>4
  <2> QED
    BY <2>4, <2>5, <2>6, <2>7, <2>8
<1>6. Absent(K) /\ Absent(N)
  BY <1>1, <1>3, <1>5 DEF Absent, Copying
<1> QED
  BY <1>1, <1>2, <1>5, <1>6, Stays

\* A connection that goes by the public header begins to read: it sees the database.
LEMMA Begins ==
  ASSUME RInv, RInv', NEW c \in Conns, NEW N, Become(c, N), conn[c].on, N.on,
         shm'.hdr[1] = shm.hdr[1], wal' = wal, db' = db, walDisk' = walDisk,
         N.at = "read", N.hdr = Public
  PROVE  /\ Absent(conn[c]) => Abstract!Next
         /\ View(c) = Image => Abstract!Next
<1>1. conn'[c] = N /\ \A d \in Conns \ {c} : conn'[d] = conn[d]
  BY DEF Become, RInv, IInv, Typed
<1>2. Keeps(c) /\ Public' = Public
  BY <1>1 DEF Keeps, Public
<1>3. At(c, "read")' /\ conn'[c].hdr = Public'
  BY <1>1, <1>2 DEF At
<1>4. View(c)' = Image'
  BY <1>3 DEF RInv, ViewInv
<1>5. Image' = Image /\ Unsure' = Unsure /\ Unsure' \subseteq Unsure /\ Views' = [Views EXCEPT ![c] = Image] /\ (View(c)' = View(c) => Views' = Views)
  <2>1. \A v : View(c)' = v => Views' = [Views EXCEPT ![c] = v]
    BY <1>2, KeptViews
  <2>2. Image' = Image
    BY <1>2, KeptViews
  <2>3. Views' = [Views EXCEPT ![c] = Image]
    BY <1>4, <2>1, <2>2
  <2> QED
    BY <1>2, <2>2, <2>3, KeptViews
<1>6. ASSUME Absent(conn[c])
      PROVE  Abstract!Next
  <2>1. View(c) = << >>
    BY <1>6 DEF RInv, ViewInv
  <2> QED
    BY <1>5, <2>1, IsBeginRead
<1>7. ASSUME View(c) = Image
      PROVE  Abstract!Next
  BY <1>4, <1>5, <1>7, IsSettle
<1> QED
  BY <1>6, <1>7

LEMMA RetryFields ==
  ASSUME NEW K \in Conn
  PROVE  Retry(K).on = K.on /\ Retry(K).writeLock = K.writeLock /\ Retry(K).at \in {"mark", "idle"}
<1>1. CASE K.writeLock
  <2>1. PICK N : N = [K EXCEPT !.at = "mark", !.readLock = -1, !.mark = 0, !.minFrame = 0]
    OBVIOUS
  <2>2. N.on = K.on /\ N.writeLock = K.writeLock /\ N.at = "mark"
    BY <2>1 DEF Conn
  <2> QED
    BY <1>1, <2>1, <2>2 DEF Retry
<1>2. CASE ~K.writeLock
  BY <1>2, LeftType DEF Retry
<1> QED
  BY <1>1, <1>2

LEMMA SameLock ==
  ASSUME NEW K, NEW N, N.writeLock = K.writeLock, K.at \notin {"read"} \union Recovery, N.at \notin {"read"} \union Recovery
  PROVE  (Absent(K) /\ Absent(N)) \/ (Writes(K) /\ Writes(N))
BY DEF Absent, Writes

LEMMA MarkSettle ==
  ASSUME RInv, RInv', NEW c \in Conns, Mark(c) \/ SetMark(c) \/ LockMark(c)
  PROVE  Abstract!Next
<1> DEFINE K == conn[c]
<1>1. /\ K \in Conn /\ ShmType /\ wal' = wal /\ walDisk' = walDisk /\ db' = db /\ K.on /\ K.at \in {"mark", "setMark", "lockMark"}
      /\ K.at \notin {"read"} \union Recovery
  BY Facts DEF RInv, Mark, SetMark, LockMark, At, log, file, Recovery
<1>2. shm'.hdr[1] = shm.hdr[1]
  BY <1>1 DEF Mark, SetMark, LockMark, ShmType
<1>3. PICK N : Become(c, N) /\ N.on /\ N.writeLock = K.writeLock /\ N.at \notin {"read"} \union Recovery
  <2>1. ASSUME NEW L \in Conn, L.on = K.on, L.writeLock = K.writeLock, Become(c, Retry(L))
        PROVE  \E N : Become(c, N) /\ N.on /\ N.writeLock = K.writeLock /\ N.at \notin {"read"} \union Recovery
    BY <1>1, <2>1, RetryFields DEF Recovery
  <2>2. ASSUME NEW L, L.on = K.on, L.writeLock = K.writeLock, L.at \in {"setMark", "lockMark", "check"}, Become(c, L)
        PROVE  \E N : Become(c, N) /\ N.on /\ N.writeLock = K.writeLock /\ N.at \notin {"read"} \union Recovery
    BY <1>1, <2>2 DEF Recovery
  <2>3. CASE Mark(c)
    <3>4. PICK at \in {"setMark", "lockMark"} :
            \E i, m : Become(c, [K EXCEPT !.at = at, !.i = i, !.mark = m]) \/ Become(c, [K EXCEPT !.at = at, !.i = i])
      <4> DEFINE fit == {i \in Marks : shm.mark[i] <= K.hdr.mxFrame}
                 best == CHOOSE i \in fit : \A j \in fit \ {i} : shm.mark[j] < shm.mark[i] \/ (shm.mark[j] = shm.mark[i] /\ j < i)
      <4>1. \/ Become(c, [K EXCEPT !.at = "setMark", !.i = 0])
            \/ Become(c, [K EXCEPT !.at = IF shm.mark[best] < K.hdr.mxFrame THEN "setMark" ELSE "lockMark",
                                   !.i = best, !.mark = shm.mark[best]])
        BY <2>3 DEF Mark
      <4> HIDE DEF best
      <4> QED
        BY <4>1
    <3>1. PICK i, m : Become(c, [K EXCEPT !.at = at, !.i = i, !.mark = m]) \/ Become(c, [K EXCEPT !.at = at, !.i = i])
      BY <3>4
    <3>2. CASE Become(c, [K EXCEPT !.at = at, !.i = i, !.mark = m])
      <4>1. PICK L : L = [K EXCEPT !.at = at, !.i = i, !.mark = m]
        OBVIOUS
      <4>2. L.on = K.on /\ L.writeLock = K.writeLock /\ L.at = at
        BY <1>1, <4>1 DEF Conn
      <4> QED
        BY <2>2, <3>1, <3>2, <4>1, <4>2
    <3>3. CASE Become(c, [K EXCEPT !.at = at, !.i = i])
      <4>1. PICK L : L = [K EXCEPT !.at = at, !.i = i]
        OBVIOUS
      <4>2. L.on = K.on /\ L.writeLock = K.writeLock /\ L.at = at
        BY <1>1, <4>1 DEF Conn
      <4> QED
        BY <2>2, <3>1, <3>3, <4>1, <4>2
    <3> QED
      BY <3>1, <3>2, <3>3
  <2>4. CASE SetMark(c)
    <3>1. PICK i, m : \/ Become(c, [K EXCEPT !.at = "lockMark", !.i = i, !.mark = m])
                      \/ Become(c, [K EXCEPT !.at = "lockMark"]) \/ Become(c, Retry(K))
      BY <2>4 DEF SetMark
    <3>2. PICK L, M : L = [K EXCEPT !.at = "lockMark", !.i = i, !.mark = m] /\ M = [K EXCEPT !.at = "lockMark"]
      OBVIOUS
    <3>3. L.on = K.on /\ L.writeLock = K.writeLock /\ L.at = "lockMark" /\ M.on = K.on /\ M.writeLock = K.writeLock /\ M.at = "lockMark"
      BY <1>1, <3>2 DEF Conn
    <3> QED
      BY <1>1, <2>1, <2>2, <3>1, <3>2, <3>3
  <2>5. CASE LockMark(c)
    <3>1. \/ Become(c, [K EXCEPT !.at = "check", !.readLock = K.i, !.i = 0, !.minFrame = shm.nBackfill + 1])
          \/ Become(c, Retry([K EXCEPT !.i = 0]))
      BY <2>5 DEF LockMark
    <3>2. PICK L : L = [K EXCEPT !.at = "check", !.readLock = K.i, !.i = 0, !.minFrame = shm.nBackfill + 1]
      OBVIOUS
    <3>3. L.on = K.on /\ L.writeLock = K.writeLock /\ L.at = "check"
      BY <1>1, <3>2 DEF Conn
    <3>4. 0 \in Numbers0
      BY WalAssumption DEF Numbers0
    <3>5. PICK M : M = [K EXCEPT !.i = 0]
      OBVIOUS
    <3>6. M \in Conn /\ M.on = K.on /\ M.writeLock = K.writeLock
      BY <1>1, <3>4, <3>5 DEF Conn
    <3> QED
      BY <2>1, <2>2, <3>1, <3>2, <3>3, <3>5, <3>6
  <2> QED
    BY <2>3, <2>4, <2>5
<1> QED
  BY <1>1, <1>2, <1>3, SameLock, Stays

LEMMA PickImplements ==
  ASSUME RInv, RInv', NEW c \in Conns, Pick(c)
  PROVE  Abstract!Next
<1> DEFINE K == conn[c]
<1>1. K \in Conn /\ Alone(K) /\ shm' = shm /\ wal' = wal /\ walDisk' = walDisk /\ db' = db /\ K.on /\ K.at = "pick"
  BY Facts DEF RInv, Pick, At, log, file
<1>2. K.writeLock = FALSE
  BY <1>1 DEF Alone, Locks, Conn, Recovery, Choosing, Closing, Restarting
<1>3. Absent(K)
  BY <1>1, <1>2 DEF Absent
<1>4. PICK M, R : M = [K EXCEPT !.at = "mark"] /\ R = [K EXCEPT !.at = "read", !.readLock = 0]
  OBVIOUS
<1>5. /\ M.on /\ M.writeLock = FALSE /\ M.at = "mark" /\ R.on /\ R.at = "read" /\ R.hdr = K.hdr
      /\ Left(K).on /\ Left(K).writeLock = FALSE /\ Left(K).at = "idle"
  BY <1>1, <1>2, <1>4, LeftType DEF Conn
<1>6. CASE Become(c, R) /\ shm.hdr[1] = K.hdr
  BY <1>1, <1>3, <1>5, <1>6, Begins DEF Public
<1>7. ASSUME NEW N, Become(c, N), N.on, N.writeLock = FALSE, N.at # "read"
      PROVE  Abstract!Next
  <2>1. Absent(N)
    BY <1>7 DEF Absent
  <2> QED
    BY <1>1, <1>3, <1>7, <2>1, Stays
<1> QED
  BY <1>4, <1>5, <1>6, <1>7 DEF Pick

LEMMA CheckMarkImplements ==
  ASSUME RInv, RInv', NEW c \in Conns, CheckMark(c)
  PROVE  Abstract!Next
<1> DEFINE K == conn[c]
           at == IF K.writeLock THEN "frame" ELSE "read"
<1>1. K \in Conn /\ Alone(K) /\ shm' = shm /\ wal' = wal /\ walDisk' = walDisk /\ db' = db /\ K.on /\ K.at = "check"
      /\ K.at \notin {"read"} \union Recovery
  BY Facts DEF RInv, CheckMark, At, log, file, Recovery
<1>2. PICK R : R = [K EXCEPT !.at = at, !.mark = 0]
  OBVIOUS
<1>3. R.on /\ R.at = at /\ R.hdr = K.hdr /\ R.writeLock = K.writeLock
  BY <1>1, <1>2 DEF Conn
<1>4. Retry(K).on /\ Retry(K).writeLock = K.writeLock /\ Retry(K).at \notin {"read"} \union Recovery
  BY <1>1, RetryFields DEF Recovery
<1>5. CASE Become(c, R) /\ shm.hdr[1] = K.hdr
  <2>1. CASE K.writeLock
    <3>1. R.at \notin {"read"} \union Recovery
      BY <1>3, <2>1 DEF Recovery
    <3> QED
      BY <1>1, <1>3, <1>5, <3>1, SameLock, Stays
  <2>2. CASE ~K.writeLock
    <3>1. Absent(K)
      BY <1>1, <2>2 DEF Absent
    <3> QED
      BY <1>1, <1>3, <1>5, <2>2, <3>1, Begins DEF Public
  <2> QED
    BY <2>1, <2>2
<1>6. CASE Become(c, Retry(K))
  BY <1>1, <1>4, <1>6, SameLock, Stays
<1> QED
  BY <1>2, <1>5, <1>6 DEF CheckMark

LEMMA EndReadImplements ==
  ASSUME RInv, RInv', NEW c \in Conns, EndRead(c)
  PROVE  Abstract!Next
<1> DEFINE K == conn[c]
<1>1. K \in Conn /\ ShmType /\ Typed /\ shm' = shm /\ wal' = wal /\ walDisk' = walDisk /\ db' = db /\ K.on /\ K.at = "read" /\ ~K.writeLock
  BY Facts DEF RInv, EndRead, At, log, file
<1>2. PICK cache \in {NotCached, Content(K)} : Become(c, Left([K EXCEPT !.cache = cache]))
  BY DEF EndRead
<1>3. PICK L : L = [K EXCEPT !.cache = cache]
  OBVIOUS
<1>4. PICK N : N = Left(L)
  OBVIOUS
<1>5. conn'[c] = N /\ (\A d \in Conns \ {c} : conn'[d] = conn[d]) /\ N.on /\ N.at = "idle" /\ ~N.writeLock
  <2>1. cache \in Cache
    BY <1>1, <1>2, ContentType DEF Cache
  <2>2. L \in Conn /\ L.on = K.on /\ L.writeLock = K.writeLock
    BY <1>1, <1>3, <2>1 DEF Conn
  <2>3. N.on /\ N.at = "idle" /\ ~N.writeLock
    BY <1>1, <1>4, <2>2, LeftType
  <2> QED
    BY <1>1, <1>2, <1>3, <1>4, <2>3 DEF Become, Typed
<1>6. Keeps(c)
  BY <1>1, <1>5 DEF Keeps
<1>7. View(c)' = << >>
  <2>1. Absent(conn[c])'
    BY <1>5 DEF Absent
  <2> QED
    BY <2>1 DEF RInv, ViewInv
<1>8. View(c) # << >>
  <2>1. View(c) = Found(K)
    BY <1>1 DEF RInv, ViewInv, Looks
  <2>2. DOMAIN Found(K) = Pages /\ Pages # {}
    BY WalAssumption DEF Found
  <2>3. DOMAIN << >> = {}
    OBVIOUS
  <2> QED
    BY <2>1, <2>2, <2>3
<1>9. Image' = Image /\ Unsure' = Unsure /\ Views' = [Views EXCEPT ![c] = << >>]
  <2>1. \A v : View(c)' = v => Views' = [Views EXCEPT ![c] = v]
    BY <1>6, KeptViews
  <2>2. Views' = [Views EXCEPT ![c] = << >>]
    BY <1>7, <2>1
  <2> QED
    BY <1>1, <1>6, <2>2, KeptViews
<1> QED
  BY <1>8, <1>9, IsEndRead

\* The WRITE lock is taken or given back by who sees the database.
LEMMA LockImplements ==
  ASSUME RInv, RInv', NEW c \in Conns, BeginWrite(c) \/ Rollback(c)
  PROVE  Abstract!Next
<1> DEFINE K == conn[c]
<1>1. K \in Conn /\ ShmType /\ wal' = wal /\ walDisk' = walDisk /\ db' = db /\ K.on /\ K.at = "read"
  BY Facts DEF RInv, BeginWrite, Rollback, At, log, file
<1>2. shm'.hdr[1] = shm.hdr[1]
  BY <1>1 DEF BeginWrite, Rollback, ShmType
<1>3. View(c) = Image
  <2>1. CASE BeginWrite(c)
    BY <1>1, <2>1 DEF RInv, ViewInv, BeginWrite, At, Public
  <2>2. CASE Rollback(c)
    <3>1. Writes(K)
      BY <1>1, <2>2 DEF Writes, Rollback, Recovery
    <3> QED
      BY <3>1 DEF RInv, ViewInv
  <2> QED
    BY <2>1, <2>2
<1>4. PICK N : Become(c, N) /\ N.on /\ N.at = "read" /\ N.hdr = Public
  <2>1. CASE BeginWrite(c)
    <3>1. PICK N : N = [K EXCEPT !.writeLock = TRUE]
      OBVIOUS
    <3>2. N.on /\ N.at = "read" /\ N.hdr = K.hdr
      BY <1>1, <3>1 DEF Conn
    <3> QED
      BY <2>1, <3>1, <3>2 DEF BeginWrite, Public
  <2>2. CASE Rollback(c)
    <3>1. PICK N : N = [K EXCEPT !.hdr = shm.hdr[1], !.writeLock = FALSE, !.stamp = 0, !.written = {}]
      OBVIOUS
    <3>2. N.on /\ N.at = "read" /\ N.hdr = shm.hdr[1]
      BY <1>1, <3>1 DEF Conn
    <3> QED
      BY <2>2, <3>1, <3>2 DEF Rollback, Public
  <2> QED
    BY <2>1, <2>2
<1> QED
  BY <1>1, <1>2, <1>3, <1>4, Begins

\* What a writer does before it announces a transaction.
LEMMA WriterSettles ==
  ASSUME RInv, RInv', NEW c \in Conns,
         \/ \E pages \in SUBSET Pages, commit \in BOOLEAN : Frames(c, pages, commit)
         \/ Restart(c) \/ Restart3(c) \/ AppendIndex(c) \/ Publish(c)
  PROVE  Abstract!Next
<1> DEFINE K == conn[c]
           n == Cardinality(K.todo)
           mx == K.hdr.mxFrame
           index[j \in 0..n] == IF j = 0 THEN shm.index ELSE Indexed(index[j - 1], mx + j, wal.frames[mx + j].pg, mx)
           hdr == [K.hdr EXCEPT !.isInit = TRUE, !.mxFrame = mx + n]
<1>1. /\ K \in Conn /\ Alone(K) /\ ShmType /\ wal' = wal /\ (walDisk' = walDisk \/ walDisk' = {wal.frames}) /\ db' = db /\ K.on
      /\ K.at \in {"read", "restart", "restart3", "append", "publish"}
      /\ K.at = "read" => K.writeLock
  BY Facts DEF RInv, Frames, Restart, Restart3, AppendIndex, Publish, At, log, file
<1>2. shm'.hdr[1] = shm.hdr[1]
  <2>1. CASE AppendIndex(c)
    <3>1. PICK x : shm' = [shm EXCEPT !.index = x]
      BY <2>1 DEF AppendIndex
    <3> QED
      BY <1>1, <3>1 DEF ShmType
  <2>2. CASE Restart(c)
    <3>1. PICK h : shm' = [shm EXCEPT !.hdr[2] = h] \/ shm' = shm
      BY <2>2 DEF Restart
    <3> QED
      BY <1>1, <3>1 DEF ShmType
  <2>3. CASE \E pages \in SUBSET Pages, commit \in BOOLEAN : Frames(c, pages, commit)
    BY <2>3 DEF Frames
  <2>4. CASE Restart3(c)
    BY <1>1, <2>4 DEF Restart3, ShmType
  <2>5. CASE Publish(c)
    BY <1>1, <2>5 DEF Publish, ShmType
  <2> QED
    BY <2>1, <2>2, <2>3, <2>4, <2>5
<1>3. K.writeLock = TRUE /\ Writes(K)
  BY <1>1 DEF Alone, Locks, Conn, Restarting, Closing, Writes, Recovery
<1>4. PICK N : Become(c, N) /\ N.on /\ N.writeLock = TRUE /\ N.at \in {"read", "frame", "mark", "restart", "restart2", "publish", "publish2"}
  <2>1. CASE \E pages \in SUBSET Pages, commit \in BOOLEAN : Frames(c, pages, commit)
    <3>1. PICK pages \in SUBSET Pages, commit \in BOOLEAN : Frames(c, pages, commit)
      BY <2>1
    <3>5. PICK at \in {"frame", "restart", "mark"} : \E lock, stamp :
            Become(c, [K EXCEPT !.at = at, !.readLock = lock, !.stamp = stamp, !.todo = pages, !.commit = commit])
      BY <3>1 DEF Frames
    <3>2. PICK lock, stamp :
            Become(c, [K EXCEPT !.at = at, !.readLock = lock, !.stamp = stamp, !.todo = pages, !.commit = commit])
      BY <3>5
    <3>3. PICK N : N = [K EXCEPT !.at = at, !.readLock = lock, !.stamp = stamp, !.todo = pages, !.commit = commit]
      OBVIOUS
    <3>4. N.on /\ N.writeLock = TRUE /\ N.at = at
      BY <1>1, <1>3, <3>3 DEF Conn
    <3> QED
      BY <3>2, <3>3, <3>4
  <2>2. CASE Restart(c)
    <3>1. PICK h : Become(c, [K EXCEPT !.at = "restart2", !.hdr = h, !.exRead = Marks]) \/ Become(c, [K EXCEPT !.at = "mark", !.readLock = -1])
      BY <2>2 DEF Restart
    <3>2. PICK L, M : L = [K EXCEPT !.at = "restart2", !.hdr = h, !.exRead = Marks] /\ M = [K EXCEPT !.at = "mark", !.readLock = -1]
      OBVIOUS
    <3>3. L.on /\ L.writeLock = TRUE /\ L.at = "restart2" /\ M.on /\ M.writeLock = TRUE /\ M.at = "mark"
      BY <1>1, <1>3, <3>2 DEF Conn
    <3> QED
      BY <3>1, <3>2, <3>3
  <2>3. CASE Restart3(c)
    <3>1. PICK N : N = [K EXCEPT !.at = "mark", !.readLock = -1, !.exRead = {}]
      OBVIOUS
    <3>2. N.on /\ N.writeLock = TRUE /\ N.at = "mark"
      BY <1>1, <1>3, <3>1 DEF Conn
    <3> QED
      BY <2>3, <3>1, <3>2 DEF Restart3
  <2>4. CASE AppendIndex(c)
    <3>1. Become(c, [K EXCEPT !.hdr = hdr, !.todo = {}, !.commit = FALSE, !.at = IF K.commit THEN "publish" ELSE "read"])
      BY <2>4 DEF AppendIndex
    <3>2. PICK h, at : h = hdr /\ at = IF K.commit THEN "publish" ELSE "read"
      OBVIOUS
    <3>3. PICK N : N = [K EXCEPT !.hdr = h, !.todo = {}, !.commit = FALSE, !.at = at]
      OBVIOUS
    <3>4. N.on /\ N.writeLock = TRUE /\ N.at = at
      BY <1>1, <1>3, <3>3 DEF Conn
    <3> HIDE DEF hdr
    <3>5. Become(c, N)
      BY <3>1, <3>2, <3>3
    <3>6. at \in {"publish", "read"}
      BY <3>2
    <3> QED
      BY <3>4, <3>5, <3>6
  <2>5. CASE Publish(c)
    <3>1. PICK N : N = [K EXCEPT !.at = "publish2"]
      OBVIOUS
    <3>2. N.on /\ N.writeLock = TRUE /\ N.at = "publish2"
      BY <1>1, <1>3, <3>1 DEF Conn
    <3> QED
      BY <2>5, <3>1, <3>2, GotoIsBecome DEF Publish
  <2> QED
    BY <2>1, <2>2, <2>3, <2>4, <2>5
<1>5. Writes(N)
  BY <1>4 DEF Writes, Recovery
<1> QED
  BY <1>1, <1>2, <1>3, <1>4, <1>5, Stays

LEMMA RecoverSettles ==
  ASSUME RInv, RInv', NEW c \in Conns, Recover(c) \/ Recover3(c)
  PROVE  Abstract!Next
<1> DEFINE K == conn[c]
<1>1. /\ K \in Conn /\ Alone(K) /\ ShmType /\ wal' = wal /\ walDisk' = walDisk /\ db' = db /\ K.on /\ K.at \in {"bad", "recover3"}
  BY Facts DEF RInv, Recover, Recover3, At, log, file
<1>2. shm'.hdr[1] = shm.hdr[1]
  <2>1. CASE Recover(c)
    <3>1. PICK h, x : shm' = [shm EXCEPT !.hdr[2] = h, !.index = x] \/ shm' = shm
      BY <2>1 DEF Recover
    <3>2. CASE shm' = [shm EXCEPT !.hdr[2] = h, !.index = x]
      <4>1. shm'.hdr = [shm.hdr EXCEPT ![2] = h]
        BY <1>1, <3>2 DEF ShmType
      <4> QED
        BY <1>1, <4>1 DEF ShmType
    <3> QED
      BY <3>1, <3>2
  <2>2. CASE Recover3(c)
    BY <1>1, <2>2 DEF Recover3, ShmType
  <2> QED
    BY <2>1, <2>2
<1>3. K.at = "bad" => K.writeLock = FALSE
  BY <1>1 DEF Alone, Locks, Conn, Recovery, Choosing, Closing, Restarting
<1>4. PICK N : Become(c, N) /\ N.on /\ (N.at = "recover2" \/ (N.writeLock = FALSE /\ N.at # "read"))
  <2>1. CASE Recover(c)
    <3>1. PICK h : Become(c, [K EXCEPT !.at = "recover2", !.hdr = h, !.writeLock = TRUE, !.exRead = {0} \union Marks]) \/ Become(c, Left(K))
      BY <2>1 DEF Recover
    <3>2. PICK N : N = [K EXCEPT !.at = "recover2", !.hdr = h, !.writeLock = TRUE, !.exRead = {0} \union Marks]
      OBVIOUS
    <3>3. N.on /\ N.at = "recover2"
      BY <1>1, <3>2 DEF Conn
    <3>4. Left(K).on /\ Left(K).writeLock = FALSE /\ Left(K).at = "idle"
      BY <1>1, <1>3, <2>1, LeftType DEF Recover, At
    <3> QED
      BY <3>1, <3>2, <3>3, <3>4
  <2>2. CASE Recover3(c)
    <3>4. PICK at \in {"start", "pick"} : \E cache :
            Become(c, [K EXCEPT !.at = at, !.writeLock = FALSE, !.exRead = {}, !.cache = cache, !.changed = K.ckptLock])
      BY <2>2 DEF Recover3
    <3>1. PICK cache :
            Become(c, [K EXCEPT !.at = at, !.writeLock = FALSE, !.exRead = {}, !.cache = cache, !.changed = K.ckptLock])
      BY <3>4
    <3>2. PICK N : N = [K EXCEPT !.at = at, !.writeLock = FALSE, !.exRead = {}, !.cache = cache, !.changed = K.ckptLock]
      OBVIOUS
    <3>3. N.on /\ N.writeLock = FALSE /\ N.at = at
      BY <1>1, <3>2 DEF Conn
    <3> QED
      BY <3>1, <3>2, <3>3
  <2> QED
    BY <2>1, <2>2
<1>5. Absent(K) /\ Absent(N)
  BY <1>1, <1>3, <1>4 DEF Absent, Recovery
<1> QED
  BY <1>1, <1>2, <1>4, <1>5, Stays

LEMMA NextImage ==
  /\ Live' => Image' = Overlay(wal.frames, Public.mxFrame)'
  /\ ~Live' => Image' = Durable(wal.frames)'
BY DEF Live, Image, Public, Opened

LEMMA SameViews ==
  ASSUME RInv, RInv', NEW c \in Conns, Image' = Image, \A d \in Conns \ {c} : conn'[d] = conn[d],
         \A d \in Conns \ {c} : Looks(conn[d]) => Found(conn[d])' = Found(conn[d])
  PROVE  /\ \A v : View(c)' = v => Views' = [Views EXCEPT ![c] = v]
         /\ View(c)' = View(c) => Views' = Views
<1>1. \A d \in Conns \ {c} : View(d)' = View(d)
  BY ViewStays
<1>2. \A v : View(c)' = v => Views' = [Views EXCEPT ![c] = v]
  BY <1>1 DEF Views
<1>3. View(c)' = View(c) => Views' = Views
  BY <1>1 DEF Views
<1> QED
  BY <1>2, <1>3

\* What a connection sees as a bystander or as a writer.
LEMMA SameView ==
  ASSUME RInv, RInv', NEW c \in Conns, Image' = Image,
         (Absent(conn[c]) /\ Absent(conn'[c])) \/ (Writes(conn[c]) /\ Writes(conn'[c]))
  PROVE  View(c)' = View(c)
<1>1. Absent(conn'[c]) => View(c)' = << >>
  BY DEF RInv, ViewInv, Absent
<1>2. Writes(conn'[c]) => View(c)' = Image'
  BY DEF RInv, ViewInv, Writes
<1> QED
  BY <1>1, <1>2 DEF RInv, ViewInv

\* The empty log that is announced is the database file, which holds the database.
LEMMA Restart2Settles ==
  ASSUME RInv, RInv', NEW c \in Conns, Restart2(c)
  PROVE  Abstract!Next
<1> DEFINE K == conn[c]
           F == wal.frames
<1>1. /\ K \in Conn /\ Alone(K) /\ Agrees(K) /\ Data(K) /\ Typed /\ ShmType /\ Shared /\ K.on /\ K.at = "restart2" /\ K.writeLock = TRUE
      /\ Opened /\ wal' = wal /\ walDisk' = walDisk /\ db' = db
  BY Facts, OpenHeader DEF RInv, Restart2, At, Alone, Locks, Conn, Restarting, log, file
<1>2. K.hdr.mxFrame = 0 /\ K.hdr.isInit
  BY <1>1 DEF Agrees, Writer, Data, Knows
<1>3. Leads(K) /\ shm.nBackfill = Public.mxFrame /\ Public.mxFrame \in Nat
  <2>1. K.hdr.mxFrame <= Public.mxFrame
    BY <1>1, <1>2, ShmFields DEF Public
  <2> QED
    BY <1>1, <2>1, WriterStarts
<1>4. Public' = K.hdr
  BY <1>1, <1>2 DEF Restart2, ShmType, Public
<1>5. Live /\ Shown(Public.mxFrame)
  BY <1>1, <1>3 DEF Live, Leads, Shared, Epoch
<1>6. Overlay(F, Public.mxFrame) = db /\ Overlay(F, 0) = db
  <2>1. Overlay(F, Public.mxFrame) = db
    BY <1>1, <1>3, <1>5, AllCopied DEF Shared, Shown
  <2>2. \A p \in Pages : Apply(F, 0, db)[p] = db[p]
    <3>1. F \in Seq(Frame) /\ 0 <= Len(F) /\ 0 \in Nat
      BY <1>1, LogFields
    <3> QED
      BY <3>1, ApplyIs
  <2>3. Apply(F, 0, db) = [p \in Pages |-> Apply(F, 0, db)[p]] /\ db = [p \in Pages |-> db[p]]
    BY <1>1 DEF Apply, Typed, FileType
  <2> QED
    BY <2>1, <2>2, <2>3, OverlayIsApply
<1>7. conn' = [conn EXCEPT ![c].at = "restart3"]
  BY DEF Restart2, Goto
<1>8. conn'[c].on /\ conn'[c].writeLock = TRUE /\ conn'[c].at = "restart3" /\ \A d \in Conns \ {c} : conn'[d] = conn[d]
  BY <1>1, <1>7 DEF Typed, Conn
<1>9. Live'
  BY <1>2, <1>4, <1>8 DEF Live, Opened
<1>10. Image' = Image
  <2>1. Overlay(wal.frames, Public.mxFrame)' = Overlay(F, 0)
    BY <1>1, <1>2, <1>4 DEF Overlay
  <2>2. Image' = Overlay(wal.frames, Public.mxFrame)'
    BY <1>9, NextImage
  <2>3. Image = Overlay(F, Public.mxFrame)
    BY <1>5, ImageIs
  <2> QED
    BY <1>6, <2>1, <2>2, <2>3
<1>11. View(c)' = View(c)
  BY <1>1, <1>8, <1>10, SameView DEF Writes, Recovery
<1>12. Views' = Views
  BY <1>1, <1>8, <1>10, <1>11, SameViews, FoundStays
<1> QED
  BY <1>1, <1>10, <1>12, UnsureStays, IsSettle

\* The recovered header is that of the last commit of the log; nobody is reading.
LEMMA Recover2Restarts ==
  ASSUME RInv, RInv', NEW c \in Conns, Recover2(c)
  PROVE  Abstract!Next
<1> DEFINE K == conn[c]
           F == wal.frames
<1>1. /\ K \in Conn /\ Alone(K) /\ Data(K) /\ Typed /\ ShmType /\ Shared
      /\ K.on /\ K.at = "recover2" /\ K.at \in Recovery /\ wal' = wal /\ walDisk' = walDisk /\ db' = db /\ IInv /\ DInv
  BY Facts DEF RInv, Recover2, At, log, file, Recovery
<1>2. /\ K.writeLock = TRUE /\ K.exRead = {0} \union Marks
      /\ \A d \in Conns \ {c} :
           ~conn[d].writeLock /\ ~conn[d].ckptLock /\ ~Reads(conn[d]) /\ conn[d].at \notin {"start", "restart2"} \union Copying
  BY <1>1, RecoveryLocks
<1>3. K.hdr.isInit /\ K.hdr.mxFrame = Max(Commits(F) \union {0})
  BY <1>1 DEF Data, Recovers
<1>4. Public' = K.hdr
  BY <1>1 DEF Recover2, ShmType, Public
<1>5. conn' = [conn EXCEPT ![c].at = "recover3"]
  BY DEF Recover2, Goto
<1>6. conn'[c].on /\ conn'[c].at = "recover3" /\ \A d \in Conns \ {c} : conn'[d] = conn[d]
  BY <1>1, <1>5 DEF Typed, Conn
<1>7. Image' = Durable(F)
  <2>1. Live'
    BY <1>3, <1>4, <1>6 DEF Live, Opened
  <2>2. Image' = Overlay(wal.frames, Public.mxFrame)'
    BY <2>1, NextImage
  <2>3. Overlay(wal.frames, Public.mxFrame)' = Overlay(F, K.hdr.mxFrame)
    BY <1>1, <1>4 DEF Overlay
  <2> QED
    BY <1>3, <2>2, <2>3 DEF Durable
<1>8. ASSUME NEW d \in Conns
      PROVE  View(d)' = << >>
  <2>1. CASE d = c
    <3>1. Absent(conn[c])'
      BY <1>6 DEF Absent, Recovery
    <3> QED
      BY <2>1, <3>1 DEF RInv, ViewInv
  <2>2. CASE d # c
    <3>1. conn[d] \in Conn /\ Alone(conn[d]) /\ Pair(K, conn[d]) /\ ~conn[d].writeLock /\ ~Reads(conn[d])
      BY <1>1, <1>2, <2>2, Facts
    <3>2. conn[d].at # "read"
      <4>1. conn[d].at = "read" => conn[d].readLock = 0
        BY <3>1, ConnFields DEF Alone, Locks, Reads
      <4> QED
        BY <1>2, <3>1, <4>1 DEF Pair, Excludes
    <3>3. Absent(conn[d])'
      BY <1>6, <2>2, <3>1, <3>2 DEF Absent
    <3> QED
      BY <3>3 DEF RInv, ViewInv
  <2> QED
    BY <2>1, <2>2
<1>9. Unsure' = Unsure
  BY <1>1, UnsureStays
<1> QED
  BY <1>7, <1>8, <1>9, IsRestart DEF Unsure

LEMMA OpenSettles ==
  ASSUME RInv, RInv', NEW c \in Conns, Open(c)
  PROVE  Abstract!Next
<1>1. /\ conn[c] \in Conn /\ Alone(conn[c]) /\ Typed /\ ShmType /\ Become(c, Fresh) /\ ~conn[c].on
      /\ wal' = wal /\ walDisk' = walDisk /\ db' = db
  BY Facts DEF RInv, Open, log, file
<1>2. PICK N : N = Fresh
  OBVIOUS
<1>3. N.on = TRUE /\ N.at = "idle" /\ N.writeLock = FALSE
  BY <1>2 DEF Fresh
<1>4. conn'[c] = N /\ \A d \in Conns \ {c} : conn'[d] = conn[d]
  BY <1>1, <1>2 DEF Become, Typed
<1>5. Image' = Image
  <2>1. CASE Opened
    <3>1. shm' = shm /\ Opened'
      BY <1>3, <1>4, <2>1 DEF Open, Opened
    <3> QED
      BY <1>1, <2>1, <3>1, ImageStays
  <2>2. CASE ~Opened
    <3>1. Public' = NoHdr
      BY <2>2 DEF Open, Opened, NoShm, Public
    <3>2. ~Live /\ ~Live'
      BY <2>2, <3>1 DEF Live, NoHdr
    <3>3. Image = Durable(wal.frames) /\ Image' = Durable(wal.frames)'
      BY <3>2, ImageIs, NextImage
    <3>4. Durable(wal.frames)' = Durable(wal.frames)
      BY <1>1 DEF Durable, Overlay, Commits
    <3> QED
      BY <3>3, <3>4
  <2> QED
    BY <2>1, <2>2
<1>6. Absent(conn[c]) /\ Absent(conn'[c])
  <2>1. conn[c].at = "idle" /\ conn[c].writeLock = FALSE
    BY <1>1 DEF Alone, Locks, Conn, Recovery, Choosing, Closing, Restarting
  <2> QED
    BY <1>3, <1>4, <2>1 DEF Absent
<1>7. View(c)' = View(c)
  BY <1>5, <1>6, SameView
<1>8. Views' = Views
  BY <1>1, <1>4, <1>5, <1>7, SameViews, FoundStays
<1> QED
  BY <1>1, <1>5, <1>8, UnsureStays, IsSettle

\* The last commit of a log.
LEMMA LastOf ==
  ASSUME NEW f \in Seq(Frame), NEW n, n = Max(Commits(f) \union {0})
  PROVE  /\ n \in Nat /\ n <= Len(f) /\ Len(f) \in Nat /\ (n = 0 \/ n \in Commits(f))
         /\ \A m \in Commits(f) : m \in Nat /\ m > 0 /\ m <= n /\ m <= Len(f) /\ f[m].commit
<1>1. Len(f) \in Nat /\ DOMAIN f = 1..Len(f)
  BY LenProperties
<1>2. Commits(f) \union {0} \in SUBSET (0..Len(f)) /\ Commits(f) \union {0} # {} /\ \A m \in Commits(f) : m \in 1..Len(f) /\ f[m].commit
  BY <1>1 DEF Commits
<1>3. n \in Commits(f) \union {0} /\ \A m \in Commits(f) \union {0} : m <= n
  BY <1>1, <1>2, MaxIsGreatest
<1>4. PICK len \in Nat : len = Len(f)
  BY <1>1
<1>5. ASSUME NEW m \in Commits(f)
      PROVE  m \in Nat /\ m > 0 /\ m <= n /\ m <= len /\ f[m].commit
  <2>1. m \in 1..len /\ f[m].commit /\ m \in Commits(f) \union {0}
    BY <1>2, <1>4
  <2>2. m \in Nat /\ m > 0 /\ m <= len
    BY <2>1
  <2>3. m <= n
    BY <1>3, <2>1
  <2> QED
    BY <2>1, <2>2, <2>3
<1>6. n \in Nat /\ n <= len /\ (n = 0 \/ n \in Commits(f))
  BY <1>3, <1>4, <1>5
<1> QED
  BY <1>4, <1>5, <1>6

\* A reader still finds what it has found if the frames that it knows are the same, and if what
\* is copied to the database file is in the log for it.
LEMMA FoundLasts ==
  ASSUME RInv, NEW d \in Conns, conn'[d] = conn[d], Looks(conn[d]),
         NEW g \in Seq(Frame), g = wal'.frames, Public.mxFrame <= Len(g),
         \A k \in 1..Public.mxFrame : g[k] = wal.frames[k],
         \A p \in Pages : db'[p] = db[p] \/ (conn[d].readLock # 0 /\ \E k \in 1..conn[d].hdr.mxFrame : wal.frames[k].pg = p)
  PROVE  Found(conn[d])' = Found(conn[d])
<1> DEFINE D == conn[d]
<1>1. D \in Conn /\ Alone(D) /\ Typed /\ ShmType /\ Shared /\ D.at = "read" /\ ~D.writeLock /\ D.on /\ Data(D)
  <2>1. conn[d].on
    BY Facts DEF RInv, Looks, Alone, Locks
  <2> QED
    BY <2>1, Facts DEF RInv, Looks
<1>2. CASE D.cache # NotCached
  BY <1>2 DEF Found
<1>3. CASE D.cache = NotCached /\ D.readLock = 0
  BY <1>3 DEF Found
<1>4. CASE D.cache = NotCached /\ D.readLock # 0
  <2>1. Reads(D)
    BY <1>1, <1>4, ReadingLocks DEF Reads
  <2>2. D.hdr.mxFrame <= Public.mxFrame /\ Live
    BY <1>1, <2>1 DEF Data, Sees, Knows, NotAfter, Live, Opened
  <2>3. PICK n \in Nat, P \in Nat : n = D.hdr.mxFrame /\ P = Public.mxFrame
    <3>1. D.hdr.mxFrame \in Nat
      BY <1>1, ConnFields
    <3>2. Public.mxFrame \in Nat
      BY <1>1, ShmFields DEF Public
    <3> QED
      BY <3>1, <3>2
  <2>4. PICK F \in Seq(Frame) : F = wal.frames /\ P <= Len(F) /\ Len(F) \in Nat /\ Len(g) \in Nat
    BY <1>1, <2>2, <2>3, LogFields, LenProperties DEF Shared, Epoch, Shown
  <2>5. n <= Len(F) /\ n <= Len(g) /\ \A k \in 1..n : F[k] = g[k]
    BY <2>2, <2>3, <2>4
  <2>6. PICK b1, b2 : b1 = db /\ b2 = db'
    OBVIOUS
  <2>7. \A p \in Pages : b1[p] = b2[p] \/ \E k \in 1..n : F[k].pg = p
    BY <2>3, <2>4, <2>6
  <2>8. Apply(F, n, b1) = Apply(g, n, b2)
    <3>1. SameStart(F, g, n) /\ Hides(F, n, b1, b2)
      BY <2>5, <2>7 DEF SameStart, Hides
    <3> QED
      BY <3>1, ApplySame
  <2>9. Apply(wal.frames, D.hdr.mxFrame, db)' = Apply(g, n, b2)
    BY <2>3, <2>6 DEF Apply
  <2> QED
    BY <1>4, <2>3, <2>4, <2>6, <2>8, <2>9 DEF Found
<1> QED
  BY <1>2, <1>3, <1>4

\* The power is back: the log on the disk decides.
LEMMA PowerFailsRestarts ==
  ASSUME RInv, RInv', PowerFails
  PROVE  Abstract!Next
<1>1. Typed /\ Shared /\ conn' = [c \in Conns |-> Closed]
  BY DEF RInv, PowerFails, IInv, DInv
<1>2. PICK frames \in walDisk : wal' = [wal EXCEPT !.frames = frames] /\ walDisk' = {frames}
  BY DEF PowerFails
<1>3. wal'.frames = frames /\ frames \in Seq(Frame)
  BY <1>1, <1>2, LogFields DEF Typed, LogType
<1>4. PICK f : (\A p \in Pages : f[p] \in Outcomes(dbDisk[p])) /\ db' = f
  BY DEF PowerFails
<1>5. \A c \in Conns : ~conn'[c].on /\ conn'[c].at = "idle" /\ conn'[c].writeLock = FALSE
  <2>1. Closed.on = FALSE /\ Closed.at = "idle" /\ Closed.writeLock = FALSE
    BY DEF Closed, Fresh
  <2> QED
    BY <1>1, <2>1
<1>6. \A c \in Conns : View(c)' = << >>
  <2>1. \A c \in Conns : Absent(conn[c])'
    BY <1>5 DEF Absent
  <2> QED
    BY <2>1 DEF RInv, ViewInv
<1>7. Durable(frames)' = Durable(frames)
  <2>1. PICK n : n = Max(Commits(frames) \union {0})
    OBVIOUS
  <2>2. n \in Nat /\ n <= Len(frames) /\ \A m \in Commits(frames) : m \in Nat /\ m <= n
    BY <1>3, <2>1, LastOf
  <2>3. PICK b : b = db
    OBVIOUS
  <2>4. ASSUME NEW p \in Pages
        PROVE  b[p] = f[p] \/ \E k \in 1..n : frames[k].pg = p
    <3>1. CASE ~Doubtful(p)
      <4>1. dbDisk[p] = {db[p]} /\ db[p] # Garbage
        BY <3>1 DEF Doubtful
      <4>2. Cardinality(dbDisk[p]) = 1
        BY <4>1, FS_Singleton
      <4>3. Outcomes(dbDisk[p]) = dbDisk[p]
        BY <4>2 DEF Outcomes
      <4> QED
        BY <1>4, <2>3, <4>1, <4>3
    <3>2. CASE Doubtful(p)
      <4>1. PICK m \in Commits(frames) : \E k \in 1..m : frames[k].pg = p
        BY <1>1, <3>2 DEF Shared, Doubts, Covers
      <4>2. PICK k \in 1..m : frames[k].pg = p
        BY <4>1
      <4>3. k \in 1..n
        BY <2>2, <4>1, <4>2
      <4> QED
        BY <4>2, <4>3
    <3> QED
      BY <3>1, <3>2
  <2>5. SameStart(frames, frames, n) /\ Hides(frames, n, b, f)
    BY <2>2, <2>4 DEF SameStart, Hides
  <2>6. Apply(frames, n, b) = Apply(frames, n, f)
    BY <1>3, <2>2, <2>5, ApplySame
  <2>7. Durable(frames) = Apply(frames, n, b)
    BY <2>1, <2>3 DEF Durable, Overlay, Apply
  <2>8. Durable(frames)' = Apply(frames, n, f)
    BY <1>4, <2>1 DEF Durable, Overlay, Apply, Commits
  <2> QED
    BY <2>6, <2>7, <2>8
<1>8. Image' = Durable(frames)
  <2>1. ~Live'
    BY <1>5 DEF Live, Opened
  <2>2. Image' = Durable(frames)'
    <3>1. Image' = Durable(wal.frames)'
      BY <2>1, NextImage
    <3>2. PICK g : g = wal'.frames
      OBVIOUS
    <3>3. Durable(wal.frames)' = Durable(g)'
      BY <3>2 DEF Durable, Overlay, Commits
    <3> QED
      BY <1>3, <3>1, <3>2, <3>3
  <2> QED
    BY <1>7, <2>2
<1>9. Unsure' = {Durable(frames)}
  BY <1>2, <1>3, <1>7 DEF Unsure
<1> QED
  BY <1>6, <1>8, <1>9, IsRestart DEF Unsure

\* The last process dies, and what may last of its log decides; or another is still there.
LEMMA CrashDies ==
  ASSUME RInv, RInv', NEW c \in Conns, Crash(c)
  PROVE  Abstract!Next
<1> DEFINE K == conn[c]
           F == wal.frames
<1>1. /\ Typed /\ ShmType /\ Shared /\ shm' = shm /\ db' = db /\ conn' = [conn EXCEPT ![c] = Closed]
      /\ K.at # "idle" /\ K \in Conn /\ Alone(K) /\ F \in walDisk /\ F \in Seq(Frame)
  BY Facts, LogFields DEF RInv, Crash, file
<1>2. conn'[c] = Closed /\ \A d \in Conns \ {c} : conn'[d] = conn[d]
  BY <1>1 DEF Typed
<1>3. Opened
  BY <1>1 DEF Alone, Locks, Opened
<1>4. Absent(conn'[c]) /\ ~conn'[c].on
  BY <1>2 DEF Closed, Fresh, Absent, Recovery
<1>5. View(c)' = << >>
  BY <1>4 DEF RInv, ViewInv, Absent
<1>6. PICK frames \in walDisk :
        /\ wal'.frames = frames /\ walDisk' \subseteq walDisk
        /\ frames # F => Live /\ Public.mxFrame <= Len(frames) /\ \A k \in 1..Public.mxFrame : frames[k] = F[k]
  <2>1. CASE UNCHANGED log
    BY <1>1, <2>1 DEF log
  <2>2. ASSUME K.on, K.at = "append", NEW frames \in walDisk, Len(frames) >= K.hdr.mxFrame, IsStrictPrefix(frames, F),
               wal' = [wal EXCEPT !.frames = frames],
               walDisk' = {f \in walDisk : ~(IsStrictPrefix(frames, f) /\ IsPrefix(f, F))}
        PROVE  /\ wal'.frames = frames /\ walDisk' \subseteq walDisk
               /\ Live /\ Public.mxFrame <= Len(frames) /\ \A k \in 1..Public.mxFrame : frames[k] = F[k]
    <3>1. K.writeLock
      BY <2>2, Known, ClosingLocks DEF Closing, RInv
    <3>2. Live /\ Public.mxFrame \in Nat /\ K.hdr.mxFrame \in Nat /\ Public.mxFrame <= K.hdr.mxFrame
      BY <2>2, <3>1, WriterFields DEF RInv
    <3>3. frames \in Seq(Frame) /\ Len(frames) \in Nat
      BY <1>1, <2>2, LogFields
    <3>4. IsPrefix(frames, F)
      BY <2>2 DEF IsStrictPrefix
    <3>5. \A k \in 1..Len(frames) : frames[k] = F[k]
      BY <1>1, <3>3, <3>4, LenProperties DEF IsPrefix
    <3>6. wal'.frames = frames
      BY <1>1, <2>2 DEF Typed, LogType
    <3> QED
      BY <2>2, <3>2, <3>3, <3>5, <3>6
  <2> QED
    BY <2>1, <2>2 DEF Crash, At
<1>7. ASSUME NEW f
      PROVE  Durable(f)' = Durable(f)
  BY <1>1 DEF Durable, Overlay, Commits
<1>8. Unsure' \subseteq Unsure /\ Durable(frames)' \in Unsure
  BY <1>6, <1>7 DEF Unsure
<1>9. CASE Opened'
  <2>1. CASE frames = F
    <3>1. Image' = Image
      <4>1. Live' <=> Live
        BY <1>1, <1>3, <1>9 DEF Live, Public
      <4>2. Overlay(wal.frames, Public.mxFrame)' = Overlay(F, Public.mxFrame) /\ Durable(wal.frames)' = Durable(F)
        BY <1>1, <1>6, <2>1 DEF Overlay, Durable, Commits, Public
      <4> QED
        BY <4>1, <4>2, ImageIs, NextImage
    <3>2. \A d \in Conns \ {c} : Found(conn[d])' = Found(conn[d])
      BY <1>1, <1>2, <1>6, <2>1 DEF Found, Apply
    <3>3. Views' = [Views EXCEPT ![c] = << >>]
      BY <1>2, <1>5, <3>1, <3>2, SameViews
    <3> QED
      BY <1>8, <3>1, <3>3, IsDie
  <2>2. CASE frames # F
    <3>1. PICK g \in Seq(Frame), P \in Nat : g = frames /\ P = Public.mxFrame
      BY <1>1, LogFields, ShmFields DEF Public
    <3>2. Live /\ P <= Len(g) /\ (\A k \in 1..P : g[k] = F[k]) /\ P <= Len(F)
      BY <1>1, <1>6, <2>2, <3>1 DEF Shared, Epoch, Shown
    <3>3. Apply(F, P, db) = Apply(g, P, db)
      <4>1. PICK f \in Seq(Frame), base \in {db} : f = F /\ base = db
        BY <1>1
      <4>2. SameStart(f, g, P)
        BY <3>2, <4>1 DEF SameStart
      <4>3. Apply(f, P, base) = Apply(g, P, base)
        BY <4>2, SameLog
      <4> QED
        BY <4>1, <4>3
    <3>4. Image' = Image
      <4>1. Live'
        BY <1>1, <1>9, <3>2 DEF Live, Public
      <4>2. Overlay(wal.frames, Public.mxFrame)' = Overlay(g, P)
        BY <1>1, <1>6, <3>1 DEF Overlay, Public
      <4>3. Image' = Overlay(g, P) /\ Image = Overlay(F, P)
        BY <3>1, <3>2, <4>1, <4>2, ImageIs, NextImage
      <4> QED
        BY <3>3, <4>3, OverlayIsApply
    <3>5. ASSUME NEW d \in Conns \ {c}, Looks(conn[d])
          PROVE  Found(conn[d])' = Found(conn[d])
      <4>1. g = wal'.frames /\ conn'[d] = conn[d] /\ Public.mxFrame <= Len(g) /\ \A k \in 1..Public.mxFrame : g[k] = wal.frames[k]
        BY <1>2, <1>6, <3>1, <3>2
      <4>2. \A p \in Pages : db'[p] = db[p]
        BY <1>1
      <4> QED
        BY <3>5, <4>1, <4>2, FoundLasts
    <3>6. Views' = [Views EXCEPT ![c] = << >>]
      BY <1>2, <1>5, <3>4, <3>5, SameViews
    <3> QED
      BY <1>8, <3>4, <3>6, IsDie
  <2> QED
    BY <2>1, <2>2
<1>10. CASE ~Opened'
  <2>1. ASSUME NEW d \in Conns
        PROVE  View(d)' = << >>
    <3>1. CASE d = c
      BY <1>5, <3>1
    <3>2. CASE d # c
      <4>1. ~conn[d].on /\ conn[d] \in Conn /\ Alone(conn[d])
        BY <1>2, <1>10, <3>2, Facts DEF Opened, RInv
      <4>2. conn[d].at = "idle" /\ conn[d].writeLock = FALSE
        BY <4>1 DEF Alone, Locks, Conn, Recovery, Choosing, Closing, Restarting
      <4>3. Absent(conn[d])'
        BY <1>2, <3>2, <4>2 DEF Absent
      <4> QED
        BY <4>3 DEF RInv, ViewInv
    <3> QED
      BY <3>1, <3>2
  <2>2. Image' = Durable(frames)'
    <3>1. Image' = Durable(wal.frames)'
      BY <1>10, NextImage DEF Live
    <3> QED
      BY <1>6, <3>1 DEF Durable, Overlay, Commits
  <2> QED
    BY <1>8, <2>1, <2>2, IsRestart
<1> QED
  BY <1>9, <1>10

\* The database consists of stamps.
LEMMA ImageValues ==
  ASSUME IInv, DInv, Live
  PROVE  /\ Image = Apply(wal.frames, Public.mxFrame, db) /\ Image \in [Pages -> 0..MaxTxn]
         /\ \A s : (\A k \in 1..Public.mxFrame : wal.frames[k].val # s) /\ (\A p \in Pages : db[p] # s) => \A p \in Pages : Image[p] # s
<1>1. Typed /\ ShmType /\ Shared
  BY DEF IInv, DInv, Typed
<1>2. PICK F \in Seq(Frame), P \in Nat : F = wal.frames /\ P = Public.mxFrame
  BY <1>1, LogFields, ShmFields DEF Public
<1>3. P <= Len(F) /\ (\A k \in 1..Len(F) : F[k] \in Frame) /\ Len(F) \in Nat
  BY <1>1, <1>2, LogFields DEF Shared, Epoch, Shown
<1>4. Image = Apply(F, P, db)
  BY <1>2, ImageIs, OverlayIsApply
<1>5. ASSUME NEW p \in Pages
      PROVE  \/ \E k \in 1..P : F[k].pg = p /\ F[k].val \in 0..MaxTxn /\ Image[p] = F[k].val
             \/ db[p] \in 0..MaxTxn /\ Image[p] = db[p]
  <2>1. CASE \A k \in 1..P : F[k].pg # p
    <3>1. Image[p] = db[p]
      BY <1>3, <1>4, <2>1, ApplyIs
    <3>2. ~Doubtful(p)
      BY <1>1, <1>2, <2>1 DEF Shared, Doubts
    <3>3. db[p] \in 0..Garbage /\ db[p] # Garbage /\ Garbage = MaxTxn + 1 /\ MaxTxn \in Nat
      BY <1>1, <3>2, LogFields DEF Doubtful
    <3>4. db[p] \in 0..MaxTxn
      BY <3>3
    <3> QED
      BY <3>1, <3>4
  <2>2. ASSUME NEW k \in 1..P, IsLast(F, P, p, k)
        PROVE  \E j \in 1..P : F[j].pg = p /\ F[j].val \in 0..MaxTxn /\ Image[p] = F[j].val
    <3>1. Image[p] = F[k].val
      BY <1>3, <1>4, <2>2, ApplyIs
    <3>2. k \in 1..Len(F)
      BY <1>3
    <3>3. F[k].val \in 0..MaxTxn /\ F[k].pg = p
      BY <1>3, <2>2, <3>2 DEF Frame, IsLast
    <3> QED
      BY <3>1, <3>3
  <2>3. (\E k \in 1..P : IsLast(F, P, p, k)) \/ (\A k \in 1..P : F[k].pg # p)
    BY <1>3, SomeLast
  <2> QED
    BY <2>1, <2>2, <2>3
<1>6. Image = [p \in Pages |-> Image[p]]
  BY <1>4 DEF Apply
<1>7. \A p \in Pages : Image[p] \in 0..MaxTxn
  BY <1>5
<1>8. Image \in [Pages -> 0..MaxTxn]
  BY <1>6, <1>7
<1>9. ASSUME NEW s, \A k \in 1..P : F[k].val # s, \A p \in Pages : db[p] # s, NEW p \in Pages
      PROVE  Image[p] # s
  BY <1>5, <1>9
<1> QED
  BY <1>2, <1>4, <1>8, <1>9

\* A transaction writes its stamp, which is new, to some pages.
Stamped(new, old, s, W) == new = [p \in Pages |-> IF p \in W THEN s ELSE old[p]]

LEMMA IsSuccessor ==
  ASSUME NEW old \in [Pages -> 0..MaxTxn], NEW s \in 0..MaxTxn, \A p \in Pages : old[p] # s,
         NEW W \in SUBSET Pages, W # {}, NEW new, Stamped(new, old, s, W)
  PROVE  new \in Abstract!Successors(old)
<1>1. new \in [Pages -> 0..MaxTxn] /\ \A p \in Pages : new[p] = IF p \in W THEN s ELSE old[p]
  BY DEF Stamped
<1>2. new # old
  <2>1. PICK p \in W : new[p] = s /\ old[p] # s
    BY <1>1
  <2> QED
    BY <2>1
<1>3. \A p, q \in Pages \ {0} : new[p] # old[p] /\ new[q] # old[q] => new[p] = new[q]
  BY <1>1
<1>4. 0 \notin Pages
  BY WalAssumption
<1> QED
  BY <1>1, <1>2, <1>3, <1>4 DEF Abstract!Successors

\* What frames with one stamp make of a database.
LEMMA StampedFrames ==
  ASSUME NEW f \in Seq(Frame), NEW P \in Nat, NEW n \in Nat, P <= n, n <= Len(f), NEW s, NEW base,
         \A k \in (P + 1)..n : f[k].val = s
  PROVE  \E W \in SUBSET Pages :
           Stamped(Apply(f, n, base), Apply(f, P, base), s, W) /\ (P < n => W # {})
<1>1. PICK S : S = (P + 1)..n
  OBVIOUS
<1>2. PICK W : W = {f[k].pg : k \in S}
  OBVIOUS
<1>3. \A k \in S : f[k] \in Frame
  <2>1. \A k \in 1..Len(f) : f[k] \in Frame
    BY ElementOfSeq
  <2>2. Len(f) \in Nat
    BY LenProperties
  <2>3. \A k \in S : k \in 1..Len(f)
    BY <1>1, <2>2
  <2> QED
    BY <2>1, <2>3
<1>4. W \in SUBSET Pages
  BY <1>2, <1>3 DEF Frame
<1>5. ASSUME NEW p \in Pages
      PROVE  Apply(f, n, base)[p] = IF p \in W THEN s ELSE Apply(f, P, base)[p]
  <2>1. \/ \E k \in (P + 1)..n : f[k].pg = p /\ Apply(f, n, base)[p] = f[k].val
        \/ (\A k \in (P + 1)..n : f[k].pg # p) /\ Apply(f, n, base)[p] = Apply(f, P, base)[p]
    BY ApplyMore
  <2> QED
    BY <1>1, <1>2, <2>1
<1>6. Apply(f, n, base) = [p \in Pages |-> Apply(f, n, base)[p]]
  BY DEF Apply
<1>7. P < n => W # {}
  <2>1. P < n => n \in S
    BY <1>1
  <2> QED
    BY <1>2, <2>1
<1> QED
  BY <1>4, <1>5, <1>6, <1>7 DEF Stamped

\* The transaction is the database now.
LEMMA Publish2Commits ==
  ASSUME RInv, RInv', NEW c \in Conns, Publish2(c)
  PROVE  Abstract!Next
<1> DEFINE K == conn[c]
           R == K.hdr
           cache == IF K.cache = NotCached THEN NotCached ELSE [p \in Pages |-> IF p \in K.written THEN K.stamp ELSE K.cache[p]]
<1>1. K.on /\ K.at = "publish2" /\ IInv /\ DInv /\ wal' = wal /\ walDisk' = walDisk /\ db' = db
  BY DEF RInv, Publish2, At, log, file
<1>2. /\ K \in Conn /\ Typed /\ ShmType /\ Live /\ K.writeLock = TRUE
      /\ Announces(K) /\ Leads(K) /\ OwnFrames(K) /\ NewStamp(K) /\ R.isInit /\ K.stamp # 0 /\ Top(K) = R.mxFrame
      /\ R.mxFrame \in Nat /\ Public.mxFrame \in Nat /\ Public.mxFrame < R.mxFrame /\ Len(wal.frames) = R.mxFrame
  BY <1>1, Announcer
<1>3. PICK F \in Seq(Frame), P \in Nat, n \in Nat : F = wal.frames /\ P = Public.mxFrame /\ n = R.mxFrame /\ P < n /\ Len(F) = n
  BY <1>2, LogFields
<1>4. Public' = R
  BY <1>2 DEF Publish2, ShmType, Public
<1>5. PICK N : N = [K EXCEPT !.at = "read", !.writeLock = FALSE, !.stamp = 0, !.written = {}, !.cache = cache]
  OBVIOUS
<1>6. N.at = "read" /\ N.hdr = R /\ N.on
  BY <1>1, <1>2, <1>5 DEF Conn
<1>7. conn'[c] = N /\ \A d \in Conns \ {c} : conn'[d] = conn[d]
  BY <1>2, <1>5 DEF Publish2, Become, Typed
<1>8. PICK s \in 0..MaxTxn : s = K.stamp /\ s = txn /\ (\A k \in 1..P : F[k].val # s) /\ (\A p \in Pages : db[p] # s)
                             /\ \A k \in (P + 1)..n : F[k].val = s /\ (k = n => F[k].commit)
  <2>1. K.stamp \in 0..MaxTxn
    BY <1>2 DEF Conn, Stamps
  <2>2. K.stamp = txn /\ (\A k \in 1..P : F[k].val # txn) /\ (\A p \in Pages : db[p] # txn)
    BY <1>2, <1>3 DEF NewStamp
  <2>3. \A k \in (P + 1)..n : F[k].val = K.stamp /\ (k = n => F[k].commit)
    BY <1>2, <1>3 DEF OwnFrames
  <2> QED
    BY <2>1, <2>2, <2>3
<1>9. Image = Apply(F, P, db) /\ Image \in [Pages -> 0..MaxTxn] /\ \A p \in Pages : Image[p] # s
  BY <1>1, <1>2, <1>3, <1>8, ImageValues
<1>10. Image' = Apply(F, n, db)
  <2>1. Live'
    BY <1>2, <1>4, <1>6, <1>7 DEF Live, Opened
  <2>2. Overlay(wal.frames, Public.mxFrame)' = Overlay(F, n)
    BY <1>1, <1>3, <1>4 DEF Overlay
  <2> QED
    BY <2>1, <2>2, NextImage, OverlayIsApply
<1>11. Image' \in Abstract!Successors(Image)
  <2>1. P <= n /\ n <= Len(F) /\ \A k \in (P + 1)..n : F[k].val = s
    BY <1>3, <1>8
  <2>2. PICK base : base = db
    OBVIOUS
  <2>4. PICK W \in SUBSET Pages : Stamped(Apply(F, n, base), Apply(F, P, base), s, W) /\ W # {}
    BY <1>3, <2>1, StampedFrames
  <2>5. PICK old \in [Pages -> 0..MaxTxn], new \in {Image'} : old = Image /\ new = Image'
    BY <1>9
  <2>6. Stamped(new, old, s, W) /\ \A p \in Pages : old[p] # s
    BY <1>9, <1>10, <2>2, <2>4, <2>5
  <2>7. new \in Abstract!Successors(old)
    BY <2>4, <2>6, IsSuccessor
  <2> QED
    BY <2>5, <2>7
<1>12. Unsure' \subseteq {Image'}
  <2>1. walDisk = {F}
    BY <1>2, <1>3 DEF Leads
  <2>2. n \in Commits(F)
    <3>1. n \in (P + 1)..n /\ n \in 1..n
      BY <1>3
    <3>2. DOMAIN F = 1..n
      BY <1>3, LenProperties
    <3> QED
      BY <1>8, <3>1, <3>2 DEF Commits
  <2>3. PICK m : m = Max(Commits(F) \union {0})
    OBVIOUS
  <2>4. m \in Nat /\ m <= Len(F) /\ n <= m
    BY <2>2, <2>3, LastOf
  <2>5. m = n
    BY <1>3, <2>4
  <2>6. Durable(F)' = Apply(F, n, db)
    BY <1>1, <2>3, <2>5 DEF Durable, Overlay, Commits, Apply
  <2> QED
    BY <1>1, <1>3, <1>10, <2>1, <2>6 DEF Unsure
<1>13. View(c) = Image
  BY <1>1, <1>2 DEF RInv, ViewInv, Writes, Recovery
<1>14. View(c)' = Image'
  <2>1. At(c, "read")' /\ (conn[c].hdr = Public)'
    BY <1>4, <1>6, <1>7 DEF At
  <2> QED
    BY <2>1 DEF RInv, ViewInv
<1>15. ASSUME NEW d \in Conns \ {c}
       PROVE  View(d)' = View(d)
  <2>1. conn[d].writeLock = FALSE /\ conn'[d] = conn[d]
    BY <1>1, <1>2, <1>7, OnlyWriter
  <2>2. CASE Absent(conn[d])
    BY <2>1, <2>2 DEF RInv, ViewInv, Absent
  <2>3. CASE Looks(conn[d])
    <3>1. Found(conn[d])' = Found(conn[d])
      BY <1>1, <2>1, FoundStays
    <3> QED
      BY <2>1, <2>3, <3>1 DEF RInv, ViewInv, Looks
  <2> QED
    BY <2>1, <2>2, <2>3 DEF Absent, Looks
<1>16. Views' = [Views EXCEPT ![c] = Image']
  BY <1>14, <1>15 DEF Views
<1> QED
  BY <1>11, <1>12, <1>13, <1>16, IsCommit

\* A page is copied that the log has for everybody who looks at it, and for every log that may last.
LEMMA CopySettles ==
  ASSUME RInv, RInv', NEW c \in Conns, NEW p \in Pages, Copy(c, p)
  PROVE  Abstract!Next
<1> DEFINE K == conn[c]
<1>1. PICK k : k = K.iter[p]
  OBVIOUS
<1>2. /\ K.on /\ K.at = "copy" /\ p \in K.todo /\ shm' = shm /\ wal' = wal /\ walDisk' = walDisk /\ IInv /\ DInv
      /\ conn' = [conn EXCEPT ![c] = [K EXCEPT !.todo = K.todo \ {p}]]
  BY DEF RInv, Copy, At, log, Become
<1>3. PICK F \in Seq(Frame), m \in Nat, P \in Nat : F = wal.frames /\ m = K.hdr.mxFrame /\ P = Public.mxFrame
  BY <1>2, CopyFrame, LogFields
<1>4. /\ K \in Conn /\ Alone(K) /\ Data(K) /\ Typed /\ ShmType /\ Live /\ K.i = NReader /\ k \in Nat /\ K.safe \in Nat
      /\ shm.nBackfill < k /\ k <= K.safe /\ K.safe <= m /\ m <= P /\ P <= Len(F) /\ k \in DOMAIN F /\ k \in 1..P /\ k \in 1..m
      /\ F[k].pg = p
  BY <1>1, <1>2, <1>3, CopyFrame
<1>5. /\ conn'[c].on = K.on /\ conn'[c].at = K.at /\ conn'[c].writeLock = K.writeLock
      /\ \A d \in Conns \ {c} : conn'[d] = conn[d]
  BY <1>2, <1>4 DEF Typed, Conn
<1>6. \A q \in Pages \ {p} : db'[q] = db[q]
  BY <1>4 DEF Copy, Typed, FileType
<1>7. PICK b1, b2 : b1 = db /\ b2 = db'
  OBVIOUS
<1>8. ASSUME NEW f \in Seq(Frame), NEW n \in Nat, n <= Len(f), k \in 1..n, f[k].pg = p
      PROVE  Apply(f, n, b1) = Apply(f, n, b2)
  <2>1. \A q \in Pages : b1[q] = b2[q] \/ \E j \in 1..n : f[j].pg = q
    BY <1>6, <1>7, <1>8
  <2>2. SameStart(f, f, n) /\ Hides(f, n, b1, b2)
    BY <1>8, <2>1 DEF SameStart, Hides
  <2> QED
    BY <2>2, ApplySame
<1>9. Image' = Image
  <2>1. Live'
    BY <1>2, <1>4, <1>5 DEF Live, Opened, Public
  <2>2. Overlay(wal.frames, Public.mxFrame)' = Apply(F, P, b2) /\ Overlay(wal.frames, Public.mxFrame) = Apply(F, P, b1)
    BY <1>2, <1>3, <1>7 DEF Overlay, Apply, Public
  <2>3. Apply(F, P, b1) = Apply(F, P, b2)
    BY <1>4, <1>8
  <2> QED
    BY <1>4, <2>1, <2>2, <2>3, ImageIs, NextImage
<1>10. ASSUME NEW f \in walDisk
       PROVE  Durable(f)' = Durable(f)
  <2>1. f \in Seq(Frame) /\ Len(f) \in Nat
    BY <1>4, LogFields
  <2>2. m <= Len(f) /\ \A j \in 1..m : f[j] = F[j]
    BY <1>2, <1>3, <1>4 DEF Data, Checkpoints, Copies
  <2>3. m \in 1..m /\ m # 0
    BY <1>4
  <2>4. f[m].commit
    BY <1>2, <1>3, <1>4, <2>2, <2>3 DEF Data, Checkpoints, Committed, Copying
  <2>5. m \in Commits(f)
    <3>1. DOMAIN f = 1..Len(f) /\ m \in 1..Len(f)
      BY <2>1, <2>2, <2>3, LenProperties
    <3> QED
      BY <2>4, <3>1 DEF Commits
  <2>6. PICK n : n = Max(Commits(f) \union {0})
    OBVIOUS
  <2>7. n \in Nat /\ n <= Len(f) /\ m <= n
    BY <2>1, <2>5, <2>6, LastOf
  <2>8. k \in 1..n /\ f[k].pg = p
    BY <1>4, <2>2, <2>7
  <2>9. Apply(f, n, b1) = Apply(f, n, b2)
    BY <1>8, <2>1, <2>7, <2>8
  <2>10. Durable(f)' = Apply(f, n, b2) /\ Durable(f) = Apply(f, n, b1)
    BY <1>7, <2>6 DEF Durable, Overlay, Commits, Apply
  <2> QED
    BY <2>9, <2>10
<1>11. Unsure' \subseteq Unsure
  <2>1. wal.frames \in walDisk
    BY <1>4, LogFields
  <2> QED
    BY <1>2, <1>10, <2>1 DEF Unsure
<1>12. View(c)' = View(c)
  <2>1. K.writeLock = FALSE
    BY <1>2, <1>4, CkptLocks DEF Copying
  <2>2. Absent(conn[c]) /\ Absent(conn'[c])
    BY <1>2, <1>5, <2>1 DEF Absent
  <2> QED
    BY <1>9, <2>2, SameView
<1>13. ASSUME NEW d \in Conns \ {c}, Looks(conn[d])
       PROVE  Found(conn[d])' = Found(conn[d])
  <2>1. PICK D : D = conn[d]
    OBVIOUS
  <2>2. D \in Conn /\ Alone(D) /\ Pair(K, D) /\ D.at = "read"
    BY <1>2, <1>13, <2>1, Facts DEF Looks
  <2>3. 0 \in K.exRead
    BY <1>2, <1>4 DEF Alone, Locks, Held, Recovery
  <2>4. D.readLock # 0
    BY <2>2, <2>3 DEF Pair, Excludes
  <2>5. Reads(D) /\ D.readLock < K.i
    <3>1. D.readLock < K.i
      BY <1>4, <2>2, ConnFields, WalAssumption
    <3>2. Reads(D) <=> D.readLock # 0
      BY <2>2, ReadingLocks
    <3> QED
      BY <2>4, <3>1, <3>2
  <2>6. K.safe <= D.hdr.mxFrame /\ D.hdr.mxFrame \in Nat
    BY <1>2, <2>2, <2>5, ConnFields DEF Pair, Waits, Copying
  <2>7. k \in 1..D.hdr.mxFrame
    BY <1>4, <2>6
  <2>8. \A q \in Pages : db'[q] = db[q] \/ (conn[d].readLock # 0 /\ \E j \in 1..conn[d].hdr.mxFrame : wal.frames[j].pg = q)
    BY <1>3, <1>4, <1>6, <2>1, <2>4, <2>7
  <2>9. conn'[d] = conn[d] /\ F = wal'.frames /\ Public.mxFrame <= Len(F) /\ \A j \in 1..Public.mxFrame : F[j] = wal.frames[j]
    BY <1>2, <1>3, <1>4, <1>5
  <2> QED
    BY <1>13, <2>8, <2>9, FoundLasts
<1>14. Views' = Views
  BY <1>5, <1>9, <1>12, <1>13, SameViews
<1> QED
  BY <1>9, <1>11, <1>14, IsSettle

\* Frames are written: nothing that counts changes, but a failure may leave the transaction once the
\* frame that commits it is there.
LEMMA WriteFramesOffers ==
  ASSUME RInv, RInv', NEW c \in Conns, WriteFrames(c)
  PROVE  Abstract!Next
<1> DEFINE K == conn[c]
           salt == IF K.hdr.salt = 0 THEN 1 ELSE K.hdr.salt
<1>1. /\ K.on /\ K.at = "frame" /\ K.at \in Closing /\ shm' = shm /\ db' = db /\ IInv /\ DInv
      /\ Become(c, [K EXCEPT !.at = "append", !.hdr.salt = salt, !.written = K.written \union K.todo])
  BY DEF RInv, WriteFrames, At, file, Closing
<1>2. K.writeLock
  BY <1>1, Known, ClosingLocks
<1>3. /\ K \in Conn /\ Typed /\ ShmType /\ Live /\ K.writeLock = TRUE
      /\ ~Announces(K) /\ Leads(K) /\ OwnFrames(K) /\ NewStamp(K) /\ Opened /\ Committed(Public.mxFrame)
  BY <1>1, <1>2, WriterFields, OpenHeader
<1>4. PICK m \in Nat, P \in Nat, F \in Seq(Frame) : m = K.hdr.mxFrame /\ P = Public.mxFrame /\ P <= m /\ F = wal.frames
  BY <1>1, <1>2, WriterFields, LogFields
<1>30. PICK n \in Nat : n > 0 /\ \E g : Grown(K, n, g)
  BY <1>1, WrittenLog
<1>5. PICK g : n > 0 /\ Grown(K, n, g)
  BY <1>30
<1>6. /\ g \in Seq(Frame) /\ g = wal'.frames /\ Len(g) = m + n
      /\ \A k \in 1..m : g[k] = F[k]
      /\ \A k \in (m + 1)..(m + n) : g[k].val = K.stamp /\ (g[k].commit <=> K.commit /\ k = m + n)
      /\ \A f \in walDisk' : f \in walDisk \/ (f \in Seq(Frame) /\ Len(f) \in m..(m + n) /\ \A k \in 1..Len(f) : f[k] = g[k])
  BY <1>4, <1>5 DEF Grown
<1>7. m <= Len(F) /\ Len(F) \in Nat
  BY <1>3, <1>4, LogFields DEF Leads, Shown
<1>8. PICK s \in 0..MaxTxn : s = K.stamp /\ (\A k \in 1..P : F[k].val # s) /\ (\A p \in Pages : db[p] # s)
                             /\ \A k \in (P + 1)..m : F[k].val = s /\ ~F[k].commit
  <2>1. K.stamp \in 0..MaxTxn
    BY <1>3 DEF Conn, Stamps
  <2>2. K.stamp = txn /\ (\A k \in 1..P : F[k].val # txn) /\ (\A p \in Pages : db[p] # txn)
    BY <1>1, <1>3, <1>4 DEF NewStamp
  <2>3. \A k \in (P + 1)..m : F[k].val = K.stamp /\ ~F[k].commit
    BY <1>1, <1>3, <1>4 DEF OwnFrames, Top
  <2> QED
    BY <2>1, <2>2, <2>3
<1>9. Image = Apply(F, P, db) /\ Image \in [Pages -> 0..MaxTxn] /\ \A p \in Pages : Image[p] # s
  <2>1. (\A k \in 1..Public.mxFrame : wal.frames[k].val # s) /\ \A p \in Pages : db[p] # s
    BY <1>4, <1>8
  <2>2. Image = Apply(wal.frames, Public.mxFrame, db) /\ Image \in [Pages -> 0..MaxTxn] /\ \A p \in Pages : Image[p] # s
    BY <1>1, <1>3, <2>1, ImageValues
  <2> QED
    BY <1>4, <2>2
<1>10. PICK base, new : base = db /\ new = Apply(g, m + n, base)
  OBVIOUS
<1>11. PICK N : N = [K EXCEPT !.at = "append", !.hdr.salt = salt, !.written = K.written \union K.todo]
  OBVIOUS
<1>12. conn'[c] = N /\ N.on /\ N.at = "append" /\ N.writeLock = TRUE /\ \A d \in Conns \ {c} : conn'[d] = conn[d]
  <2>1. PICK h, w : h = [K.hdr EXCEPT !.salt = salt] /\ w = K.written \union K.todo
    OBVIOUS
  <2>2. N = [K EXCEPT !.at = "append", !.hdr = h, !.written = w]
    BY <1>11, <2>1
  <2>3. N.on /\ N.at = "append" /\ N.writeLock = TRUE
    BY <1>1, <1>3, <2>2 DEF Conn
  <2> QED
    BY <1>1, <1>3, <1>11, <2>3 DEF Become, Typed
<1>13. ASSUME NEW f \in Seq(Frame), Len(f) \in m..(m + n), \A k \in 1..Len(f) : f[k] = g[k]
       PROVE  /\ P <= Len(f) /\ \A k \in 1..P : f[k] = F[k]
              /\ \A k \in (P + 1)..Len(f) : f[k].val = s /\ (f[k].commit <=> K.commit /\ k = m + n)
  <2>1. P <= Len(f) /\ Len(f) \in Nat
    BY <1>4, <1>13
  <2>2. \A k \in 1..P : k \in 1..Len(f) /\ k \in 1..m
    <3>1. P <= m
      BY <1>4
    <3> QED
      BY <2>1, <3>1
  <2>3. ASSUME NEW k \in (P + 1)..Len(f)
        PROVE  f[k].val = s /\ (f[k].commit <=> K.commit /\ k = m + n)
    <3>1. f[k] = g[k]
      BY <1>13, <2>1
    <3>2. CASE k <= m
      <4>1. k \in (P + 1)..m /\ k \in 1..m /\ k # m + n
        BY <1>4, <1>5, <3>2
      <4> QED
        BY <1>6, <1>8, <3>1, <4>1
    <3>3. CASE k > m
      <4>1. k \in (m + 1)..(m + n)
        BY <1>13, <3>3
      <4> QED
        BY <1>6, <1>8, <3>1, <4>1
    <3> QED
      BY <3>2, <3>3
  <2> QED
    BY <1>6, <1>13, <2>1, <2>2, <2>3
<1>14. ASSUME NEW f \in Seq(Frame), Len(f) \in m..(m + n), \A k \in 1..Len(f) : f[k] = g[k]
       PROVE  Durable(f) = Image \/ (K.commit /\ Durable(f) = new)
  <2>1. PICK mx : mx = Max(Commits(f) \union {0})
    OBVIOUS
  <2>2. /\ mx \in Nat /\ mx <= Len(f) /\ Len(f) \in Nat /\ (mx = 0 \/ mx \in Commits(f))
        /\ \A k \in Commits(f) : k \in Nat /\ k > 0 /\ k <= mx /\ k <= Len(f) /\ f[k].commit
    BY <2>1, LastOf
  <2>3. Durable(f) = Apply(f, mx, base)
    BY <1>10, <2>1 DEF Durable, Overlay, Apply
  <2>4. P <= Len(f) /\ (\A k \in 1..P : f[k] = F[k])
        /\ \A k \in (P + 1)..Len(f) : f[k].val = s /\ (f[k].commit <=> K.commit /\ k = m + n)
    BY <1>13, <1>14
  <2>5. P <= mx
    <3>1. CASE P = 0
      BY <2>2, <3>1
    <3>2. CASE P # 0
      <4>1. P \in 1..P /\ P \in 1..Len(f)
        BY <2>2, <2>4, <3>2
      <4>2. f[P].commit
        BY <1>3, <1>4, <2>4, <3>2, <4>1 DEF Committed
      <4>3. P \in Commits(f)
        BY <4>1, <4>2, LenProperties DEF Commits
      <4> QED
        BY <2>2, <4>3
    <3> QED
      BY <3>1, <3>2
  <2>6. CASE mx = P
    <3>1. Apply(f, P, base) = Apply(F, P, base)
      <4>1. P <= Len(f) /\ P <= Len(F)
        BY <1>4, <1>7, <2>4
      <4> QED
        <5>1. SameStart(f, F, P)
          BY <2>4, <4>1 DEF SameStart
        <5> QED
          BY <2>4, <5>1, SameLog
    <3> QED
      BY <1>9, <1>10, <2>3, <2>6, <3>1
  <2>7. CASE mx # P
    <3>1. mx \in (P + 1)..Len(f) /\ mx \in Commits(f)
      BY <2>2, <2>5, <2>7
    <3>2. f[mx].commit
      BY <2>2, <3>1
    <3>3. K.commit /\ mx = m + n
      BY <2>4, <3>1, <3>2
    <3>4. Apply(f, mx, base) = Apply(g, mx, base)
      <4>1. mx <= Len(g) /\ \A k \in 1..mx : f[k] = g[k]
        BY <1>6, <1>14, <2>2, <3>3
      <4> QED
        <5>1. SameStart(f, g, mx)
          BY <2>2, <4>1 DEF SameStart
        <5> QED
          BY <1>6, <2>2, <5>1, SameLog
    <3> QED
      BY <1>10, <2>3, <3>3, <3>4
  <2> QED
    BY <2>6, <2>7
<1>15. new \in Abstract!Successors(Image)
  <2>0. PICK t \in Nat : t = m + n
    OBVIOUS
  <2>1. t = m + n /\ P <= t /\ t <= Len(g) /\ P < t /\ t \in m..(m + n) /\ Len(g) = t
    <3>1. Len(g) = t
      BY <1>6, <2>0
    <3>2. P <= t /\ P < t /\ t \in m..(m + n)
      <4>1. P <= m /\ n > 0
        BY <1>4, <1>5
      <4> QED
        BY <2>0, <4>1
    <3> QED
      BY <2>0, <3>1, <3>2
  <2>2. \A k \in 1..Len(g) : g[k] = g[k]
    OBVIOUS
  <2>3. (\A k \in 1..P : g[k] = F[k]) /\ \A k \in (P + 1)..t : g[k].val = s
    BY <1>6, <1>13, <2>1, <2>2
  <2>4. PICK W \in SUBSET Pages : Stamped(Apply(g, t, base), Apply(g, P, base), s, W) /\ W # {}
    BY <1>6, <2>1, <2>3, StampedFrames
  <2>5. Apply(g, P, base) = Apply(F, P, base)
    <3>1. P <= Len(g) /\ P <= Len(F)
      <4>1. P <= Len(F)
        BY <1>4, <1>7
      <4> QED
        BY <2>1, <4>1
    <3> QED
      <4>1. SameStart(g, F, P)
        BY <2>3, <3>1 DEF SameStart
      <4> QED
        BY <1>6, <4>1, SameLog
  <2>6. PICK old \in [Pages -> 0..MaxTxn] : old = Image /\ \A p \in Pages : old[p] # s
    BY <1>9
  <2>7. Stamped(new, old, s, W)
    BY <1>9, <1>10, <2>1, <2>4, <2>5, <2>6
  <2>8. new \in Abstract!Successors(old)
    BY <2>4, <2>6, <2>7, IsSuccessor
  <2> QED
    BY <2>6, <2>8
<1>16. ASSUME NEW f \in walDisk' \union {g}
       PROVE  Durable(f)' \in Unsure \union {Image} \union (IF K.commit THEN {new} ELSE {})
  <2>1. Durable(f)' = Durable(f)
    BY <1>1 DEF Durable, Overlay, Commits
  <2>2. CASE f \in walDisk
    BY <2>1, <2>2 DEF Unsure
  <2>3. CASE f \notin walDisk
    <3>1. f \in Seq(Frame) /\ Len(f) \in m..(m + n) /\ \A k \in 1..Len(f) : f[k] = g[k]
      <4>1. CASE f = g
        <5>1. m + n \in m..(m + n)
          OBVIOUS
        <5> QED
          BY <1>6, <4>1, <5>1
      <4>2. CASE f # g
        <5>1. f \in walDisk' /\ f \notin walDisk
          BY <2>3, <4>2
        <5> QED
          BY <1>6, <5>1
      <4> QED
        BY <4>1, <4>2
    <3> QED
      BY <1>14, <2>1, <3>1
  <2> QED
    BY <2>2, <2>3
<1>17. Unsure' \subseteq Unsure \union {Image} \union (IF K.commit THEN {new} ELSE {})
  BY <1>6, <1>16 DEF Unsure
<1>18. P <= Len(g) /\ \A k \in 1..P : g[k] = F[k]
  <2>1. \A k \in 1..P : k \in 1..m
    BY <1>4
  <2> QED
    BY <1>4, <1>5, <1>6, <2>1
<1>19. Image' = Image
  <2>1. Live' /\ Public' = Public
    BY <1>1, <1>3, <1>12 DEF Live, Opened, Public
  <2>2. Image' = Apply(g, P, base)
    <3>1. Overlay(wal.frames, Public.mxFrame)' = Apply(g, P, base)
      BY <1>1, <1>4, <1>6, <1>10, <2>1 DEF Overlay, Apply
    <3> QED
      BY <2>1, <3>1, NextImage
  <2>3. Apply(g, P, base) = Apply(F, P, base)
    <3>1. P <= Len(F)
      BY <1>4, <1>7
    <3> QED
      <4>1. SameStart(g, F, P)
        BY <1>18, <3>1 DEF SameStart
      <4> QED
        BY <1>6, <4>1, SameLog
  <2> QED
    BY <1>9, <1>10, <2>2, <2>3
<1>20. View(c) = Image
  BY <1>1, <1>3 DEF RInv, ViewInv, Writes, Recovery
<1>21. View(c)' = View(c)
  BY <1>1, <1>3, <1>12, <1>19, SameView DEF Writes, Recovery
<1>22. ASSUME NEW d \in Conns \ {c}, Looks(conn[d])
       PROVE  Found(conn[d])' = Found(conn[d])
  <2>1. conn'[d] = conn[d] /\ g = wal'.frames /\ Public.mxFrame <= Len(g) /\ \A k \in 1..Public.mxFrame : g[k] = wal.frames[k]
    BY <1>4, <1>6, <1>12, <1>18
  <2>2. \A p \in Pages : db'[p] = db[p]
    BY <1>1
  <2> QED
    BY <1>6, <1>22, <2>1, <2>2, FoundLasts
<1>23. Views' = Views
  BY <1>12, <1>19, <1>21, <1>22, SameViews
<1>24. CASE K.commit
  <2>1. Unsure' \subseteq Unsure \union {Image, new}
    BY <1>17, <1>24
  <2> QED
    BY <1>15, <1>19, <1>20, <1>23, <2>1, IsOffer
<1>25. CASE ~K.commit
  <2>1. Unsure' \subseteq Unsure \union {Image}
    BY <1>17, <1>25
  <2> QED
    BY <1>19, <1>23, <2>1, IsSettle
<1> QED
  BY <1>24, <1>25

-----------------------------------------------------------------------------
(* Every step of the log is one of the database, or none.                   *)

LEMMA StepImplements ==
  ASSUME RInv, RInv', Next
  PROVE  Abstract!Next
<1>1. ASSUME NEW c \in Conns, Open(c) \/ BeginRead(c) \/ BeginCkpt(c) \/ TryAgain(c)
      PROVE  Abstract!Next
  BY <1>1, OpenSettles, TriesSettle
<1>2. ASSUME NEW c \in Conns, Recover(c) \/ Recover2(c) \/ Recover3(c)
      PROVE  Abstract!Next
  BY <1>2, RecoverSettles, Recover2Restarts
<1>3. ASSUME NEW c \in Conns, Pick(c) \/ Mark(c) \/ SetMark(c) \/ LockMark(c) \/ CheckMark(c) \/ EndRead(c)
      PROVE  Abstract!Next
  BY <1>3, PickImplements, MarkSettle, CheckMarkImplements, EndReadImplements
<1>4. ASSUME NEW c \in Conns, BeginWrite(c) \/ Rollback(c)
      PROVE  Abstract!Next
  BY <1>4, LockImplements
<1>5. ASSUME NEW c \in Conns,
             \/ \E pages \in SUBSET Pages, commit \in BOOLEAN : Frames(c, pages, commit)
             \/ Restart(c) \/ Restart3(c) \/ AppendIndex(c) \/ Publish(c)
      PROVE  Abstract!Next
  BY <1>5, WriterSettles
<1>6. ASSUME NEW c \in Conns, Restart2(c) \/ WriteFrames(c) \/ Publish2(c)
      PROVE  Abstract!Next
  BY <1>6, Restart2Settles, WriteFramesOffers, Publish2Commits
<1>7. ASSUME NEW c \in Conns, CkptStart(c) \/ CkptReadMark(c) \/ CkptLockMark(c) \/ CkptCopyLock(c) \/ CkptDone(c)
      PROVE  Abstract!Next
  BY <1>7, CkptSettle
<1>8. ASSUME NEW c \in Conns, NEW p \in Pages, Copy(c, p)
      PROVE  Abstract!Next
  BY <1>8, CopySettles
<1>9. ASSUME NEW c \in Conns, Crash(c)
      PROVE  Abstract!Next
  BY <1>9, CrashDies
<1>10. CASE PowerFails
  BY <1>10, PowerFailsRestarts
<1> QED
  BY <1>1, <1>2, <1>3, <1>4, <1>5, <1>6, <1>7, <1>8, <1>9, <1>10 DEF Next

LEMMA StutterImplements ==
  ASSUME UNCHANGED vars
  PROVE  UNCHANGED << Image, Unsure, Views >>
<1>1. shm' = shm /\ wal' = wal /\ walDisk' = walDisk /\ db' = db /\ conn' = conn
  BY DEF vars, log, file
<1>2. Image' = Image
  BY <1>1, ImageStays DEF Opened
<1>3. Unsure' = Unsure
  BY <1>1, UnsureStays
<1>4. \A c \in Conns : View(c)' = View(c)
  <2>1. ASSUME NEW c \in Conns
        PROVE  Content(conn[c])' = Content(conn[c])
    BY <1>1 DEF Content, Lookup
  <2> QED
    BY <1>1, <1>2, <2>1 DEF View, Recovering
<1> QED
  BY <1>2, <1>3, <1>4 DEF Views

\* SQLite's promise for any number of connections, pages and transactions: whatever happens to
\* processes and to the power, the database goes from one committed content to the next, and a
\* reader sees one of them until it is done (walIndexTryHdr to sqlite3WalEndReadTransaction).
THEOREM Refinement ==
  ASSUME "race" \notin Troubles, "halfRestart" \notin Troubles
  PROVE  Spec => ImplementsDatabase
<1>1. IInv /\ DInv => RInv
  BY ViewsAre DEF RInv
<1>2. RInv /\ RInv' /\ [Next]_vars => UNCHANGED << Image, Unsure, Views >> \/ Abstract!Next
  BY StepImplements, StutterImplements
<1>3. (UNCHANGED << Image, Unsure, Views >> \/ Abstract!Next) => UNCHANGED Abstract!vars \/ Abstract!Next
  BY DEF Abstract!vars, Unsure, Views
<1> QED
  BY <1>1, <1>2, <1>3, DInvHolds, PTL DEF Spec, ImplementsDatabase, Abstract!Spec
=============================================================================
