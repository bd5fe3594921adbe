------------------------------- MODULE Pager -------------------------------
(***************************************************************************)
(* The pager of SQLite with a rollback journal (sqlite3.c, pager.c): how    *)
(* several connections read and write one database file so that every      *)
(* transaction is atomic although processes die, the power fails and calls *)
(* of the operating system return errors.  FileLocks says what the locks   *)
(* do.  Full synchronisation; no savepoints, no master journals, no memory *)
(* mapping, no exclusive mode, and a transaction never shrinks the file.   *)
(*                                                                         *)
(* Page 1 holds the change counter; every other page is a stamp that tells *)
(* which transaction wrote it.  A journal is a row of slots, each a header *)
(* or the record of a page; a header and a record take the same room.      *)
(***************************************************************************)
EXTENDS Integers, FiniteSets, FiniteSetsExt, Sequences

CONSTANTS
  Conns,        \* the connections, ...
  Owner,        \* ... the process of each
  Modes,        \* the journal modes to start in: "delete", "persist", "truncate"
  ExtraSync,    \* PRAGMA synchronous=EXTRA: the directory is synced after an unlink
  Troubles,     \* what may go wrong: "crash", "power", "io"; "aligned": a record ends where a header may begin
  MaxPage, MaxSlot, MaxTxn,        \* bounds; ...
  SizesIn, TxnsIn, TroublesIn      \* ... sizes to start with, transactions and troubles in each mode

ASSUME PagerAssumption ==
  /\ Modes \subseteq {"delete", "persist", "truncate"} /\ ExtraSync \in BOOLEAN
  /\ MaxPage \in Nat
  /\ MaxSlot \in Nat /\ MaxSlot >= 2 * MaxPage + 2    \* a transaction never runs out of slots
  /\ MaxTxn \in Nat
  /\ \A m \in Modes : SizesIn[m] \subseteq 1..MaxPage /\ TxnsIn[m] \in 1..MaxTxn /\ TroublesIn[m] \in Nat

Pages == 1..MaxPage

VARIABLES
  held,       \* the locks of each connection
  pager,      \* the Pager object of each connection
  db,         \* the database file: page -> content
  dbDisk,     \* what a power failure may make of each page
  jrnl,       \* the journal file
  ghost,      \* a journal whose removal a power failure may undo
  mode,
  txn,        \* how many transactions have written, for their stamps
  trouble,    \* how often something has gone wrong
  sound       \* history: no sync has failed

files == << db, dbDisk, jrnl, ghost >>
history == << mode, txn, trouble, sound >>
vars == << held, pager, files, history >>

Absent == 0
Torn == MaxTxn + 2
NotCached == MaxTxn + 3
Values == 0..Torn

L == INSTANCE FileLocks WITH Files <- Conns

Header(magic, n, orig, init) == [kind |-> "hdr", magic |-> magic, n |-> n, orig |-> orig, init |-> init]
Record(p, val, init) == [kind |-> "rec", pg |-> p, val |-> val, init |-> init]
Empty == [kind |-> "none"]
Zeroed == [kind |-> "zero"]
Junk == [kind |-> "junk"]

NoJournal ==
  [exists |-> FALSE, durable |-> FALSE,
   slots |-> [k \in 1..MaxSlot |-> Empty], disk |-> [k \in 1..MaxSlot |-> {Empty}]]

\* One write, and a sync, which also makes the directory entry durable (UNIXFILE_DIRSYNC).
Put(j, k, s) == [j EXCEPT !.slots[k] = s, !.disk[k] = j.disk[k] \union {s}]
Synced(j) == [j EXCEPT !.durable = TRUE, !.disk = [k \in 1..MaxSlot |-> {j.slots[k]}]]

FileSize == Max({p \in Pages : db[p] # Absent})

Fresh ==
  [eState |-> "open", at |-> "idle",
   cache |-> [p \in Pages |-> NotCached], dirty |-> {}, needSync |-> {}, inJournal |-> {},
   dbFileVers |-> Absent, dbSize |-> 0, dbOrigSize |-> 0,
   journalHdr |-> 0, journalOff |-> 0, own |-> 0, stamp |-> 0, todo |-> {}, spilling |-> FALSE]

Writing == {"locked", "cachemod", "dbmod"}

In(c, eStates, at) == pager[c].eState \in eStates /\ pager[c].at = at

Become(c, new) == pager' = [pager EXCEPT ![c] = new]
Goto(c, at) == pager' = [pager EXCEPT ![c].at = at]

LockIs(c, ls) == held' = [held EXCEPT ![c] = ls]

\* What a page of the file holds for a connection: from its cache if it is there.
Content(c, p) == IF pager[c].cache[p] = NotCached THEN db[p] ELSE pager[c].cache[p]

-----------------------------------------------------------------------------
(* Reading a journal (readJournalHdr, pager_playback_one_page).             *)

IsHeader(s) == s.kind = "hdr"
HasMagic(s) == IsHeader(s) /\ s.magic

\* A rollback of the writer itself believes the header it is filling, its own, without a magic;
\* the rollback of a hot journal knows of none (own = 0).
Begins(slots, own, h) == IsHeader(slots[h]) /\ (slots[h].magic \/ h = own)

\* How many records follow a header: all the rest of the file, if nobody has counted them.
Claims(slots, own, h) == IF slots[h].n = 0 /\ h = own THEN MaxSlot - h ELSE slots[h].n

\* A record is good if its checksum says that it was written under this header.  That of a page
\* beyond the end of the database is not looked at.
Good(slots, h, i) ==
  slots[i].kind = "rec" /\ (slots[i].pg > slots[1].orig \/ slots[i].init = slots[h].init)

GoodUpTo(slots, h, i) == \A k \in (h + 1)..i : Good(slots, h, k)

\* The next header is looked for where the records end, if they are there and all good.
Leads(slots, own, g, h) ==
  /\ g + Claims(slots, own, g) + 1 = h
  /\ GoodUpTo(slots, g, h - 1)

WithHeader(found, slots, own, h) ==
  IF Begins(slots, own, h) /\ (h = 1 \/ \E g \in found : Leads(slots, own, g, h)) THEN found \union {h} ELSE found

Headers(slots, own) ==
  LET upTo[h \in 0..MaxSlot] == IF h = 0 THEN {} ELSE WithHeader(upTo[h - 1], slots, own, h)
  IN  upTo[MaxSlot]

\* The records that are played back.
Played(slots, own) ==
  LET headers == Headers(slots, own)
  IN  {i \in 1..MaxSlot : \E h \in headers :
         /\ h < i /\ i <= h + Claims(slots, own, h)
         /\ GoodUpTo(slots, h, i)
         /\ slots[i].pg <= slots[1].orig}

\* A file cut to the size it had: what is missing reads as zeros.
Cut(f, size) == [p \in Pages |-> IF p > size THEN Absent ELSE IF f[p] = Absent THEN Torn ELSE f[p]]

Replayed(f, slots) ==
  LET cut == Cut(f, slots[1].orig)
      played == Played(slots, 0)
      of(p) == {i \in played : slots[i].pg = p}
  IN  IF HasMagic(slots[1])
      THEN [p \in Pages |-> IF of(p) = {} THEN cut[p] ELSE slots[Max(of(p))].val]
      ELSE f

-----------------------------------------------------------------------------
(* sqlite3PagerSharedLock                                                  *)

SharedLock(c) ==
  /\ In(c, {"open"}, "idle")
  /\ L!Shared(c) \/ L!Beside(c)
  /\ Goto(c, "exists")
  /\ UNCHANGED << files, history >>

\* hasHotJournal: is there a journal, ...
JournalExists(c) ==
  /\ In(c, {"open"}, "exists")
  /\ Goto(c, IF jrnl.exists THEN "reserved" ELSE "version")
  /\ UNCHANGED << held, files, history >>

\* ... does somebody hold RESERVED, ...
CheckReserved(c) ==
  /\ In(c, {"open"}, "reserved")
  /\ Goto(c, IF L!SeesReserved(c) THEN "version" ELSE "first-byte")
  /\ UNCHANGED << held, files, history >>

\* ... does it begin with a magic?  If it is gone by now, SQLite is not sure.
FirstByte(c) ==
  /\ In(c, {"open"}, "first-byte")
  /\ \E hot \in BOOLEAN :
       /\ hot => ~jrnl.exists \/ HasMagic(jrnl.slots[1]) \/ jrnl.slots[1] = Junk
       /\ ~hot => jrnl.exists /\ ~HasMagic(jrnl.slots[1])
       /\ Goto(c, IF hot THEN "exclusive" ELSE "version")
  /\ UNCHANGED << held, files, history >>

\* An EXCLUSIVE lock that is not granted may leave PENDING behind.
Refused(c) == L!Pending(c) \/ UNCHANGED held

LockHot(c) ==
  /\ In(c, {"open"}, "exclusive")
  /\ \/ L!Exclusive(c) /\ Goto(c, "reopen")
     \/ Refused(c) /\ Goto(c, "give-up")
  /\ UNCHANGED << files, history >>

\* SQLITE_BUSY: pager_unlock.
GiveUp(c) ==
  /\ In(c, {"open"}, "give-up")
  /\ LockIs(c, {})
  /\ Goto(c, "idle")
  /\ UNCHANGED << files, history >>

\* With the lock, look again; pagerSyncHotJournal.
Reopen(c) ==
  /\ In(c, {"open"}, "reopen")
  /\ IF jrnl.exists
     THEN Goto(c, "playback") /\ jrnl' = Synced(jrnl) /\ UNCHANGED held
     ELSE LockIs(c, {"shared"}) /\ Goto(c, "version") /\ UNCHANGED jrnl
  /\ UNCHANGED << db, dbDisk, ghost, history >>

\* Has the file changed since the cache was filled?  Then read page 1.
CheckVersion(c) ==
  /\ In(c, {"open"}, "version")
  /\ LET kept == IF pager[c].dbFileVers # db[1] THEN Fresh.cache ELSE pager[c].cache
     IN  Become(c, [pager[c] EXCEPT !.eState = "reader", !.at = "idle", !.dbSize = FileSize,
                                    !.cache = [kept EXCEPT ![1] = db[1]], !.dbFileVers = db[1]])
  /\ UNCHANGED << held, files, history >>

\* sqlite3PagerGet
Get(c, p) ==
  /\ In(c, {"reader"} \union Writing, "idle")
  /\ p <= pager[c].dbSize
  /\ pager[c].cache[p] = NotCached
  /\ Become(c, [pager[c] EXCEPT !.cache[p] = db[p]])
  /\ UNCHANGED << held, files, history >>

EndRead(c) ==
  /\ In(c, {"reader"}, "idle")
  /\ LockIs(c, {})
  /\ Become(c, [pager[c] EXCEPT !.eState = "open", !.dbSize = 0])
  /\ UNCHANGED << files, history >>

-----------------------------------------------------------------------------
(* pager_playback, of a hot journal or of a connection's own transaction.   *)

Hot(c) == pager[c].eState = "open"

\* The database file is written only by the rollback of what has reached it.
WritesFile(c) == pager[c].eState \in {"open", "dbmod", "finished"}

\* The first header gives the size of the file; nothing happens if it is not one.
BeginPlayback(c) ==
  LET P == pager[c]
      slots == jrnl.slots
      records == Played(slots, P.own)
      cut == Cut(db, slots[1].orig)
  IN  /\ P.at = "playback"
      /\ IF Begins(slots, P.own, 1)
         THEN /\ db' = IF WritesFile(c) THEN cut ELSE db
              /\ dbDisk' = IF WritesFile(c) THEN [p \in Pages |-> dbDisk[p] \union {cut[p]}] ELSE dbDisk
              /\ Become(c, [P EXCEPT !.at = IF records = {} THEN "sync" ELSE "pages",
                                     !.todo = records, !.dbSize = slots[1].orig,
                                     !.cache = IF Hot(c) /\ records # {} THEN Fresh.cache ELSE P.cache])
         ELSE Goto(c, "sync") /\ UNCHANGED << db, dbDisk >>
      /\ UNCHANGED << held, jrnl, ghost, history >>

\* Mutant: the records since the last sync of the journal are left out altogether.
PlayPage_synced(c) ==
  LET P == pager[c]
      i == Min(P.todo)
      r == jrnl.slots[i]
      written == WritesFile(c) /\ (Hot(c) \/ i <= P.journalHdr)
  IN  /\ P.at = "pages"
      /\ db' = IF written THEN [db EXCEPT ![r.pg] = r.val] ELSE db
      /\ dbDisk' = IF written THEN [dbDisk EXCEPT ![r.pg] = dbDisk[r.pg] \union {r.val}] ELSE dbDisk
      /\ Become(c, [P EXCEPT !.at = IF P.todo = {i} THEN "sync" ELSE "pages",
                             !.todo = P.todo \ {i},
                             !.cache[r.pg] = IF written /\ P.cache[r.pg] # NotCached THEN r.val ELSE P.cache[r.pg],
                             !.dbFileVers = IF r.pg = 1 /\ P.cache[1] # NotCached THEN r.val ELSE P.dbFileVers])
      /\ UNCHANGED << held, jrnl, ghost, history >>

\* A record that may not be on disk has nothing to undo in the database file: only the cache.
PlayPage(c) ==
  LET P == pager[c]
      i == Min(P.todo)
      r == jrnl.slots[i]
      written == WritesFile(c) /\ (Hot(c) \/ i <= P.journalHdr)
  IN  /\ P.at = "pages"
      /\ db' = IF written THEN [db EXCEPT ![r.pg] = r.val] ELSE db
      /\ dbDisk' = IF written THEN [dbDisk EXCEPT ![r.pg] = dbDisk[r.pg] \union {r.val}] ELSE dbDisk
      /\ Become(c, [P EXCEPT !.at = IF P.todo = {i} THEN "sync" ELSE "pages",
                             !.todo = P.todo \ {i},
                             !.cache[r.pg] = IF P.cache[r.pg] = NotCached THEN NotCached ELSE r.val,
                             !.dbFileVers = IF r.pg = 1 /\ P.cache[1] # NotCached THEN r.val ELSE P.dbFileVers])
      /\ UNCHANGED << held, jrnl, ghost, history >>

SyncPlayback(c) ==
  /\ pager[c].at = "sync"
  /\ dbDisk' = IF WritesFile(c) THEN [p \in Pages |-> {db[p]}] ELSE dbDisk
  /\ Goto(c, "finalize")
  /\ UNCHANGED << held, db, jrnl, ghost, history >>

-----------------------------------------------------------------------------
(* pager_end_transaction                                                   *)

\* The journal is unlinked, which a power failure may undo until the directory is synced; or
\* its header is overwritten, if any of it was used; or it is cut to nothing.
FinalizeJournal(used) ==
  CASE mode = "delete" ->
         /\ jrnl' = NoJournal
         /\ ghost' = IF ExtraSync THEN NoJournal ELSE IF jrnl.durable THEN jrnl ELSE ghost
    [] mode = "persist" ->
         /\ jrnl' = IF used THEN Synced(Put(jrnl, 1, Zeroed)) ELSE jrnl
         /\ ghost' = IF used THEN NoJournal ELSE ghost
    [] mode = "truncate" ->
         /\ jrnl' = IF used THEN Synced([jrnl EXCEPT !.slots = NoJournal.slots]) ELSE jrnl
         /\ ghost' = IF used THEN NoJournal ELSE ghost

Settled(P) ==
  [P EXCEPT !.dirty = {}, !.needSync = {}, !.inJournal = {}, !.dbOrigSize = 0, !.journalHdr = 0,
            !.journalOff = 0, !.own = 0, !.stamp = 0, !.todo = {}, !.spilling = FALSE,
            !.cache = [p \in Pages |-> IF p > P.dbSize THEN NotCached ELSE P.cache[p]]]

\* After a playback, or for CommitPhaseTwo: the commit point.
EndTransaction(c) ==
  LET P == pager[c]
  IN  /\ P.at \in {"finalize", "commit"}
      /\ FinalizeJournal(~Hot(c) \/ HasMagic(jrnl.slots[1]))
      /\ LockIs(c, {"shared"})
      /\ Become(c, IF Hot(c) THEN [Settled(P) EXCEPT !.at = "version"]
                   ELSE [Settled(P) EXCEPT !.eState = "reader", !.at = "idle"])
      /\ UNCHANGED << db, dbDisk, history >>

\* A transaction that has written nothing has no journal to end.
EndEmpty(c) ==
  /\ In(c, {"locked"}, "idle")
  /\ LockIs(c, {"shared"})
  /\ Become(c, [Settled(pager[c]) EXCEPT !.eState = "reader"])
  /\ UNCHANGED << files, history >>

\* sqlite3PagerRollback, whenever the application wants.
Rollback(c) ==
  /\ In(c, {"cachemod", "dbmod", "finished"}, "idle")
  /\ Goto(c, "playback")
  /\ UNCHANGED << held, files, history >>

CommitPhaseTwo(c) ==
  /\ In(c, {"finished"}, "idle")
  /\ Goto(c, "commit")
  /\ UNCHANGED << held, files, history >>

-----------------------------------------------------------------------------
(* Writing: sqlite3PagerBegin, pager_write                                  *)

Begin(c) ==
  /\ In(c, {"reader"}, "idle")
  /\ L!Reserved(c)
  /\ Become(c, [pager[c] EXCEPT !.eState = "locked", !.dbOrigSize = pager[c].dbSize])
  /\ UNCHANGED << files, history >>

\* pagerAddPageToRollbackJournal, with the content before the write.
Journaled(c, P, p) == p <= P.dbOrigSize /\ p \notin P.inJournal

AddRecord(c, j, P, p) ==
  IF Journaled(c, P, p) THEN Put(j, P.journalOff + 1, Record(p, Content(c, p), P.stamp)) ELSE j

Marked(c, P, p, val) ==
  LET journaled == Journaled(c, P, p)
  IN  [P EXCEPT !.cache[p] = val,
                !.dirty = P.dirty \union {p},
                !.inJournal = IF journaled THEN P.inJournal \union {p} ELSE P.inJournal,
                !.journalOff = IF journaled THEN P.journalOff + 1 ELSE P.journalOff,
                !.needSync = IF journaled \/ (p > P.dbOrigSize /\ P.eState # "dbmod")
                             THEN P.needSync \union {p} ELSE P.needSync,
                !.dbSize = IF p > P.dbSize THEN p ELSE P.dbSize]

\* pager_open_journal: over whatever is left in the file, with a header that has no magic yet.
Opened(P) ==
  [P EXCEPT !.eState = "cachemod", !.stamp = txn + 2, !.journalHdr = 0, !.journalOff = 1, !.own = 1]

OpenJournal(P) ==
  Put([jrnl EXCEPT !.exists = TRUE], 1, Header(FALSE, 0, P.dbOrigSize, txn + 2))

Write(c, p) ==
  LET first == pager[c].eState = "locked"
      P == IF first THEN Opened(pager[c]) ELSE pager[c]
      j == IF first THEN OpenJournal(P) ELSE jrnl
  IN  /\ \E s \in Writing : In(c, {s}, "idle")
      /\ p # 1 /\ p <= P.dbSize + 1 /\ p \notin P.dirty
      /\ first => txn < TxnsIn[mode]
      /\ txn' = IF first THEN txn + 1 ELSE txn
      /\ jrnl' = AddRecord(c, j, P, p)
      /\ Become(c, Marked(c, P, p, P.stamp))
      /\ UNCHANGED << held, db, dbDisk, ghost, mode, trouble, sound >>

\* pagerStress: the cache is full, and page p has to go.
Spill(c, p) ==
  LET P == pager[c]
  IN  /\ In(c, {"cachemod", "dbmod"}, "idle")
      /\ p \in P.dirty \ {1}
      /\ Become(c, [P EXCEPT !.todo = {p}, !.spilling = TRUE,
                             !.at = IF p \in P.needSync \/ P.eState = "cachemod" THEN "lock" ELSE "write"])
      /\ UNCHANGED << held, files, history >>

\* sqlite3PagerCommitPhaseOne: the change counter is the last page to be journaled.
CommitPhaseOne(c) ==
  LET P == pager[c]
      Q == Marked(c, P, 1, P.dbFileVers + 1)
  IN  /\ In(c, {"cachemod", "dbmod"}, "idle")
      /\ jrnl' = AddRecord(c, jrnl, P, 1)
      /\ Become(c, [Q EXCEPT !.at = "lock", !.todo = Q.dirty])
      /\ UNCHANGED << held, db, dbDisk, ghost, history >>

Stopped(P) == [P EXCEPT !.at = "idle", !.todo = {}, !.spilling = FALSE]

\* Mutant: RESERVED is taken to be enough.
LockForCommit_reserved(c) ==
  /\ pager[c].at = "lock"
  /\ Goto(c, "prepare")
  /\ UNCHANGED << held, files, history >>

\* syncJournal, for a commit or a spill: first the lock.  SQLITE_BUSY leaves the transaction as
\* it is; trying again is another commit.
LockForCommit(c) ==
  /\ pager[c].at = "lock"
  /\ \/ L!Exclusive(c) /\ Goto(c, "prepare")
     \/ Refused(c) /\ Become(c, Stopped(pager[c]))
  /\ UNCHANGED << files, history >>

\* Mutant: whatever follows the records is left alone.
PrepareJournal_blind(c) ==
  /\ pager[c].at = "prepare"
  /\ Goto(c, "sync-records")
  /\ UNCHANGED << held, files, history >>

\* A header of an older journal must not follow this one by chance.
PrepareJournal(c) ==
  LET next == pager[c].journalOff + 1
  IN  /\ pager[c].at = "prepare"
      /\ jrnl' = IF next <= MaxSlot /\ HasMagic(jrnl.slots[next])
                 THEN Put(jrnl, next, [jrnl.slots[next] EXCEPT !.magic = FALSE]) ELSE jrnl
      /\ Goto(c, "sync-records")
      /\ UNCHANGED << held, db, dbDisk, ghost, history >>

\* The records are synced before a header counts them.
SyncRecords(c) ==
  /\ pager[c].at = "sync-records"
  /\ jrnl' = Synced(jrnl)
  /\ ghost' = NoJournal
  /\ Goto(c, "finish")
  /\ UNCHANGED << held, db, dbDisk, history >>

\* The header gets its magic and the number of records.
FinishJournal(c) ==
  LET P == pager[c]
  IN  /\ P.at = "finish"
      /\ jrnl' = Put(jrnl, P.own, [jrnl.slots[P.own] EXCEPT !.magic = TRUE, !.n = P.journalOff - P.own])
      /\ Goto(c, "sync-header")
      /\ UNCHANGED << held, db, dbDisk, ghost, history >>

\* That is synced, too.  After a spill a new header follows.  Else journalHdr is left at the end of
\* the records: if that is where a header may begin, a rollback takes what is there for its own.
SyncHeader(c) ==
  LET P == pager[c]
      next == P.journalOff + 1
      new == [P EXCEPT !.at = "write", !.needSync = {}, !.eState = "dbmod", !.journalHdr = P.journalOff]
  IN  /\ P.at = "sync-header"
      /\ IF P.spilling
         THEN /\ jrnl' = Put(Synced(jrnl), next, Header(FALSE, 0, P.dbOrigSize, P.stamp))
              /\ Become(c, [new EXCEPT !.journalOff = next, !.own = next])
         ELSE /\ jrnl' = Synced(jrnl)
              /\ \E aligned \in BOOLEAN :
                   /\ aligned => "aligned" \in Troubles /\ next <= MaxSlot
                   /\ Become(c, [new EXCEPT !.own = IF aligned THEN next ELSE 0])
      /\ UNCHANGED << held, db, dbDisk, ghost, history >>

\* pager_write_pagelist: one page.  A page that was spilled is recycled.
WritePage(c) ==
  LET P == pager[c]
      p == Min(P.todo)
  IN  /\ P.at = "write"
      /\ db' = [db EXCEPT ![p] = P.cache[p]]
      /\ dbDisk' = [dbDisk EXCEPT ![p] = dbDisk[p] \union {P.cache[p]}]
      /\ LET new == [P EXCEPT !.dirty = P.dirty \ {p}, !.todo = P.todo \ {p},
                              !.dbFileVers = IF p = 1 THEN P.cache[1] ELSE P.dbFileVers]
         IN  Become(c, IF P.spilling THEN Stopped([new EXCEPT !.cache[p] = NotCached])
                       ELSE IF new.todo = {} THEN [new EXCEPT !.at = "sync-db"] ELSE new)
      /\ UNCHANGED << held, jrnl, ghost, history >>

SyncCommit(c) ==
  /\ pager[c].at = "sync-db"
  /\ dbDisk' = [p \in Pages |-> {db[p]}]
  /\ Become(c, [Stopped(pager[c]) EXCEPT !.eState = "finished"])
  /\ UNCHANGED << held, db, jrnl, ghost, history >>

-----------------------------------------------------------------------------
(* What goes wrong.                                                        *)

Strikes(what) == what \in Troubles /\ trouble < TroublesIn[mode] /\ trouble' = trouble + 1

Flushing == {"prepare", "sync-records", "finish", "sync-header", "write"}

\* A write or a sync of a commit fails: the application has to roll back.
CommitFails(c) ==
  /\ pager[c].at \in Flushing \union {"sync-db"}
  /\ ~pager[c].spilling
  /\ Become(c, [Stopped(pager[c]) EXCEPT !.at = "playback"])
  /\ UNCHANGED << held, jrnl, ghost >>

\* pager_error: during a spill or a rollback the pager gives up; the journal stays.
PagerFails(c) ==
  /\ \/ pager[c].at \in Flushing /\ pager[c].spilling
     \/ pager[c].at \in {"playback", "pages", "sync", "finalize", "commit"} /\ ~Hot(c)
  /\ Become(c, [Fresh EXCEPT !.eState = "error"])
  /\ IF pager[c].at \in {"finalize", "commit"}
     THEN LockIs(c, {"shared"}) /\ (FinalizeJournal(TRUE) \/ UNCHANGED << jrnl, ghost >>)
     ELSE UNCHANGED << held, jrnl, ghost >>

\* Likewise the rollback of a hot journal.
RecoveryFails(c) ==
  /\ pager[c].at \in {"reopen", "playback", "pages", "sync", "finalize"}
  /\ Hot(c)
  /\ Become(c, Fresh)
  /\ LockIs(c, {})
  /\ \/ UNCHANGED << jrnl, ghost >>
     \/ pager[c].at = "finalize" /\ FinalizeJournal(TRUE)

IoError(c) ==
  /\ Strikes("io")
  /\ CommitFails(c) \/ PagerFails(c) \/ RecoveryFails(c)
  /\ sound' = FALSE
  /\ UNCHANGED << db, dbDisk, mode, txn >>

\* pager_unlock in PAGER_ERROR.
EndError(c) ==
  /\ In(c, {"error"}, "idle")
  /\ Become(c, Fresh)
  /\ LockIs(c, {})
  /\ UNCHANGED << files, history >>

Crash(c) ==
  /\ Strikes("crash")
  /\ pager[c] # Fresh
  /\ pager' = [d \in Conns |-> IF Owner[d] = Owner[c] THEN Fresh ELSE pager[d]]
  /\ held' = [d \in Conns |-> IF Owner[d] = Owner[c] THEN {} ELSE held[d]]
  /\ UNCHANGED << files, mode, txn, sound >>

\* A page or slot with a write under way may be old, new or garbage.
Outcomes(disk, garbage) == IF Cardinality(disk) > 1 THEN disk \union {garbage} ELSE disk

Picks(sets) ==
  LET c[k \in 0..Len(sets)] ==
        IF k = 0 THEN {<< >>} ELSE {Append(f, x) : f \in c[k - 1], x \in sets[k]}
  IN  c[Len(sets)]

\* A device that has returned an error promises nothing.
PowerFails ==
  /\ Strikes("power")
  /\ sound
  /\ pager' = [c \in Conns |-> Fresh]
  /\ held' = [c \in Conns |-> {}]
  /\ \E f \in Picks([p \in Pages |-> Outcomes(dbDisk[p], Torn)]) :
       db' = f /\ dbDisk' = [p \in Pages |-> {f[p]}]
  /\ \E j \in {jrnl} \union (IF jrnl.durable THEN {} ELSE {NoJournal, ghost}) :
       \E s \in Picks([k \in 1..MaxSlot |-> Outcomes(j.disk[k], Junk)]) :
          jrnl' = IF j.exists THEN Synced([j EXCEPT !.slots = s]) ELSE NoJournal
  /\ ghost' = NoJournal
  /\ UNCHANGED << mode, txn, sound >>

-----------------------------------------------------------------------------
Init ==
  /\ held = [c \in Conns |-> {}]
  /\ pager = [c \in Conns |-> Fresh]
  /\ mode \in Modes
  /\ \E size \in SizesIn[mode] : db = [p \in Pages |-> IF p <= size THEN 1 ELSE Absent]
  /\ dbDisk = [p \in Pages |-> {db[p]}]
  /\ jrnl = NoJournal
  /\ ghost = NoJournal
  /\ txn = 0
  /\ trouble = 0
  /\ sound = TRUE

Next ==
  \/ \E c \in Conns :
       \/ SharedLock(c) \/ JournalExists(c) \/ CheckReserved(c) \/ FirstByte(c) \/ LockHot(c)
       \/ GiveUp(c) \/ Reopen(c) \/ CheckVersion(c) \/ EndRead(c)
       \/ BeginPlayback(c) \/ PlayPage(c) \/ SyncPlayback(c) \/ EndTransaction(c)
       \/ Begin(c) \/ EndEmpty(c) \/ Rollback(c) \/ CommitPhaseOne(c) \/ LockForCommit(c)
       \/ PrepareJournal(c) \/ SyncRecords(c) \/ FinishJournal(c) \/ SyncHeader(c)
       \/ WritePage(c) \/ SyncCommit(c) \/ CommitPhaseTwo(c)
       \/ EndError(c) \/ IoError(c) \/ Crash(c)
       \/ \E p \in Pages : Get(c, p) \/ Write(c, p) \/ Spill(c, p)
  \/ PowerFails

Spec == Init /\ [][Next]_vars

-----------------------------------------------------------------------------
(* Properties.                                                             *)

\* What the file amounts to once a journal that is hot has been rolled back.
Recovered(j) == IF j.exists THEN Replayed(db, j.slots) ELSE db

Image == Recovered(jrnl)

Seen(c) == [p \in Pages |-> IF p > pager[c].dbSize THEN Absent ELSE Content(c, p)]

Abstract ==
  INSTANCE AtomicDatabase WITH
    Counter <- 1,
    Stamps <- 0..(MaxTxn + 1),
    Forgets <- "delete" \in Modes /\ ~ExtraSync,
    Offers <- FALSE,
    image <- Image,
    others <- IF ghost.exists THEN {Recovered(ghost)} ELSE {},
    view <- [c \in Conns |-> CASE pager[c].eState = "reader" -> Seen(c)
                             [] pager[c].eState \in {"open", "error"} -> << >>
                             [] OTHER -> Image]

\* Whatever the processes do, wherever they die, whichever write, sync, truncation or removal of a
\* commit, a spill or a rollback fails and whenever the power goes, the files together always
\* amount to the outcome of whole transactions, and a reader sees one outcome from its first page
\* to its last, be it from the file or from its cache.
ImplementsDatabase == Abstract!Spec

\* Whose cache must be the committed database: who reads, who has begun to write and not changed
\* a page yet, and who does not read but has the change counter that it would find.
CountsOnCache(c) ==
  \/ pager[c].eState \in {"reader", "locked"}
  \/ pager[c].eState = "open" /\ pager[c].dbFileVers = Image[1]

\* Every page in the cache of a connection that reads is the committed one, and one that outlived
\* the lock is stale only if the change counter says so: to compare it (sqlite3.c:51601) is enough.
CacheIsCurrent ==
  \A c \in Conns :
    CountsOnCache(c) => \A p \in Pages : pager[c].cache[p] \in {NotCached, Image[p]}

\* sqlite3PagerSharedLock rolls back a hot journal before anything is read.
ReadersSeeCommitted == \A c \in Conns : pager[c].eState = "reader" => Seen(c) = Image

States == {"open", "reader", "locked", "cachemod", "dbmod", "finished", "error"}

Steps ==
  {"idle", "exists", "reserved", "first-byte", "exclusive", "give-up", "reopen", "version",
   "playback", "pages", "sync", "finalize", "commit", "lock", "prepare", "sync-records", "finish",
   "sync-header", "write", "sync-db"}

\* Each state of a Pager goes with its locks, and what it keeps of a transaction with its state.
TypeOK ==
  /\ db \in [Pages -> Values]
  /\ \A c \in Conns :
       LET P == pager[c]
       IN  /\ P.eState \in States /\ P.at \in Steps
           /\ P.eState = "open" /\ P.at = "idle" => held[c] = {}
           /\ P.eState = "reader" => held[c] = {"shared"}
           /\ P.eState \in Writing \union {"finished"} => {"shared", "reserved"} \subseteq held[c]
           /\ P.eState \in {"dbmod", "finished"} => "exclusive" \in held[c]
           /\ P.dirty # {} => P.eState \in {"cachemod", "dbmod", "finished"}
           /\ P.inJournal \subseteq 1..P.dbOrigSize
           /\ P.journalHdr <= P.journalOff /\ P.journalOff <= MaxSlot
=============================================================================
