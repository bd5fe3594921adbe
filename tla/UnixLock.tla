------------------------------ MODULE UnixLock ------------------------------
(***************************************************************************)
(* The locks SQLite takes on a database file under Unix (sqlite3.c,         *)
(* "Posix Advisory Locking").  Several processes have the file open, some   *)
(* of them more than once.  POSIX locks belong to a process and not to a    *)
(* file descriptor, and closing any descriptor of a file drops all of them, *)
(* so each process counts the locks of its files in a unixInodeInfo and     *)
(* keeps descriptors open that it may not close yet.  A mutex makes a call  *)
(* atomic within its process; between the fcntl calls it makes, the other   *)
(* processes go on.                                                        *)
(***************************************************************************)
EXTENDS Naturals, FiniteSets

CONSTANTS
  Processes,
  Files,      \* the unixFile objects
  Owner,      \* [Files -> Processes]
  Faults      \* which fcntl calls may fail without a conflict: "lock", "unlock"

ASSUME UnixAssumption ==
  /\ IsFiniteSet(Files)
  /\ Owner \in [Files -> Processes]

NO == 0
SHARED == 1
RESERVED == 2
PENDING == 3
EXCLUSIVE == 4

VARIABLES
  handle,   \* is the unixFile closed, being opened, open or being closed
  lock,     \* pFile->eFileLock
  inode,    \* the unixInodeInfo of each process
  os,       \* the POSIX locks of each process
  call,     \* the call that holds the mutex of each process, between two fcntls
  intact    \* history: no fcntl has failed without a conflict

vars == << handle, lock, inode, os, call, intact >>

Bytes == {"pending", "reserved", "shared"}

NoLocks == [b \in Bytes |-> "none"]

NoInode == [nRef |-> 0, nShared |-> 0, nLock |-> 0, eFileLock |-> NO, pUnused |-> 0]

NoCall == [step |-> "none"]

Siblings(p) == {f \in Files : Owner[f] = p}

\* fcntl(F_SETLK)
Grantable(p, b, type) ==
  \A q \in Processes \ {p} :
    IF type = "write" THEN os[q][b] = "none" ELSE os[q][b] # "write"

SetLock(p, b, type) == os' = [os EXCEPT ![p][b] = type]

Refused(p, b, type) ==
  \/ ~Grantable(p, b, type) /\ UNCHANGED intact
  \/ "lock" \in Faults /\ intact' = FALSE

Goto(p, f, step) == call' = [call EXCEPT ![p] = [step |-> step, file |-> f]]

Return(p) == call' = [call EXCEPT ![p] = NoCall]

Free(f) == handle[f] = "open" /\ call[Owner[f]] = NoCall

InodeIs(p, changes) == inode' = [inode EXCEPT ![p] = changes]

-----------------------------------------------------------------------------
(* unixOpen: a descriptor, one that was kept if there is one; then the      *)
(* unixInodeInfo.                                                          *)

OpenFd(f) ==
  LET p == Owner[f]
  IN  /\ handle[f] = "closed"
      /\ call[p] = NoCall
      /\ handle' = [handle EXCEPT ![f] = "opening"]
      /\ IF inode[p].pUnused > 0
         THEN InodeIs(p, [inode[p] EXCEPT !.pUnused = inode[p].pUnused - 1])
         ELSE UNCHANGED inode
      /\ UNCHANGED << lock, os, call, intact >>

\* Mutant: the new reference is not counted.
FindInode_uncounted(f) ==
  LET p == Owner[f]
  IN  /\ handle[f] = "opening"
      /\ call[p] = NoCall
      /\ handle' = [handle EXCEPT ![f] = "open"]
      /\ UNCHANGED << lock, inode, os, call, intact >>

FindInode(f) ==
  LET p == Owner[f]
  IN  /\ handle[f] = "opening"
      /\ call[p] = NoCall
      /\ handle' = [handle EXCEPT ![f] = "open"]
      /\ InodeIs(p, [inode[p] EXCEPT !.nRef = inode[p].nRef + 1])
      /\ UNCHANGED << lock, os, call, intact >>

\* There is no unixInodeInfo yet and no memory for one: the descriptor is closed at once
\* (fillInUnixFile), which drops all POSIX locks of the process on the file.
OpenFails(f) ==
  LET p == Owner[f]
  IN  /\ handle[f] = "opening"
      /\ call[p] = NoCall
      /\ inode[p] = NoInode
      /\ handle' = [handle EXCEPT ![f] = "closed"]
      /\ os' = [os EXCEPT ![p] = NoLocks]
      /\ UNCHANGED << lock, inode, call, intact >>

-----------------------------------------------------------------------------
(* unixLock                                                                *)

\* SQLITE_BUSY before any fcntl: another file of this process is in the way.
BusyInside(f, level) ==
  LET i == inode[Owner[f]]
  IN  lock[f] # i.eFileLock /\ (i.eFileLock >= PENDING \/ level > SHARED)

\* The process holds SHARED or RESERVED already: no fcntl is needed.
ShareInside(f) ==
  LET p == Owner[f]
  IN  /\ Free(f)
      /\ lock[f] = NO
      /\ inode[p].eFileLock \in {SHARED, RESERVED}
      /\ lock' = [lock EXCEPT ![f] = SHARED]
      /\ InodeIs(p, [inode[p] EXCEPT !.nShared = inode[p].nShared + 1, !.nLock = inode[p].nLock + 1])
      /\ UNCHANGED << handle, os, call, intact >>

\* Mutant: the pending byte is not looked at.
ReadPending_blind(f) ==
  LET p == Owner[f]
  IN  /\ Free(f)
      /\ lock[f] = NO
      /\ ~BusyInside(f, SHARED)
      /\ inode[p].eFileLock \notin {SHARED, RESERVED}
      /\ Goto(p, f, "share")
      /\ UNCHANGED << handle, lock, inode, os, intact >>

\* SHARED, first fcntl: a read lock on the pending byte.
ReadPending(f) ==
  LET p == Owner[f]
  IN  /\ Free(f)
      /\ lock[f] = NO
      /\ ~BusyInside(f, SHARED)
      /\ inode[p].eFileLock \notin {SHARED, RESERVED}
      /\ Grantable(p, "pending", "read")
      /\ SetLock(p, "pending", "read")
      /\ Goto(p, f, "share")
      /\ UNCHANGED << handle, lock, inode, intact >>

\* Second: a read lock on the shared range, ...
ReadShared(p) ==
  /\ call[p].step = "share"
  /\ \/ /\ Grantable(p, "shared", "read")
        /\ SetLock(p, "shared", "read")
        /\ Goto(p, call[p].file, "unpend")
        /\ UNCHANGED intact
     \/ /\ Refused(p, "shared", "read")
        /\ Goto(p, call[p].file, "give up")
        /\ UNCHANGED os
  /\ UNCHANGED << handle, lock, inode >>

\* ... third: the pending byte is given back, whether or not the second was granted.
DropPending(p) ==
  LET f == call[p].file
  IN  /\ call[p].step \in {"unpend", "give up"}
      /\ \/ /\ SetLock(p, "pending", "none")
            /\ IF call[p].step = "unpend"
               THEN /\ lock' = [lock EXCEPT ![f] = SHARED]
                    /\ InodeIs(p, [inode[p] EXCEPT !.nShared = 1, !.nLock = inode[p].nLock + 1,
                                                   !.eFileLock = SHARED])
               ELSE UNCHANGED << lock, inode >>
            /\ UNCHANGED intact
         \/ "unlock" \in Faults /\ intact' = FALSE /\ UNCHANGED << lock, inode, os >>
      /\ Return(p)
      /\ UNCHANGED handle

Reserve(f) ==
  LET p == Owner[f]
  IN  /\ Free(f)
      /\ lock[f] = SHARED
      /\ ~BusyInside(f, RESERVED)
      /\ Grantable(p, "reserved", "write")
      /\ SetLock(p, "reserved", "write")
      /\ lock' = [lock EXCEPT ![f] = RESERVED]
      /\ InodeIs(p, [inode[p] EXCEPT !.eFileLock = RESERVED])
      /\ UNCHANGED << handle, call, intact >>

\* EXCLUSIVE, first fcntl: a write lock on the pending byte.
WritePending(f) ==
  LET p == Owner[f]
  IN  /\ Free(f)
      /\ lock[f] \in {SHARED, RESERVED}
      /\ ~BusyInside(f, EXCLUSIVE)
      /\ Grantable(p, "pending", "write")
      /\ SetLock(p, "pending", "write")
      /\ Goto(p, f, "exclude")
      /\ UNCHANGED << handle, lock, inode, intact >>

\* Mutant: the other readers of the process are forgotten.
Exclude_alone(f) ==
  LET p == Owner[f]
      at(level) == /\ lock' = [lock EXCEPT ![f] = level]
                   /\ InodeIs(p, [inode[p] EXCEPT !.eFileLock = level])
  IN  /\ \/ call[p] = [step |-> "exclude", file |-> f]
         \/ Free(f) /\ lock[f] = PENDING /\ ~BusyInside(f, EXCLUSIVE)
      /\ \/ /\ Grantable(p, "shared", "write")
            /\ SetLock(p, "shared", "write")
            /\ at(EXCLUSIVE)
            /\ UNCHANGED intact
         \/ Refused(p, "shared", "write") /\ at(PENDING) /\ UNCHANGED os
      /\ Return(p)
      /\ UNCHANGED handle

\* Second: a write lock on the shared range; the file is left PENDING if it is not granted, or
\* if another file of the process is reading.  A PENDING file starts here.
Exclude(f) ==
  LET p == Owner[f]
      at(level) == /\ lock' = [lock EXCEPT ![f] = level]
                   /\ InodeIs(p, [inode[p] EXCEPT !.eFileLock = level])
  IN  /\ \/ call[p] = [step |-> "exclude", file |-> f]
         \/ Free(f) /\ lock[f] = PENDING /\ ~BusyInside(f, EXCLUSIVE)
      /\ \/ inode[p].nShared > 1 /\ at(PENDING) /\ UNCHANGED << os, intact >>
         \/ /\ inode[p].nShared <= 1
            /\ Grantable(p, "shared", "write")
            /\ SetLock(p, "shared", "write")
            /\ at(EXCLUSIVE)
            /\ UNCHANGED intact
         \/ /\ inode[p].nShared <= 1
            /\ Refused(p, "shared", "write")
            /\ at(PENDING)
            /\ UNCHANGED os
      /\ Return(p)
      /\ UNCHANGED handle

-----------------------------------------------------------------------------
(* posixUnlock                                                             *)

\* Down to SHARED: first the shared range becomes a read lock.
Downgrade(f) ==
  LET p == Owner[f]
  IN  /\ Free(f)
      /\ lock[f] > SHARED
      /\ \/ SetLock(p, "shared", "read") /\ Goto(p, f, "to shared") /\ UNCHANGED intact
         \/ "unlock" \in Faults /\ intact' = FALSE /\ UNCHANGED << os, call >>
      /\ UNCHANGED << handle, lock, inode >>

\* Then, and first on the way down to NO, pending and reserved byte are given back.
Unreserve(f) ==
  LET p == Owner[f]
  IN  /\ \/ call[p] = [step |-> "to shared", file |-> f]
         \/ call[p] = NoCall /\ lock[f] > SHARED /\ handle[f] \in {"open", "closing"}
      /\ \/ /\ os' = [os EXCEPT ![p].pending = "none", ![p].reserved = "none"]
            /\ InodeIs(p, [inode[p] EXCEPT !.eFileLock = SHARED])
            /\ IF call[p] = NoCall
               THEN Goto(p, f, "leave") /\ UNCHANGED lock
               ELSE Return(p) /\ lock' = [lock EXCEPT ![f] = SHARED]
            /\ UNCHANGED << handle, intact >>
         \/ /\ "unlock" \in Faults
            /\ intact' = FALSE
            /\ Return(p)
            /\ handle' = [handle EXCEPT ![f] = IF @ = "closing" THEN "unlocked" ELSE @]
            /\ UNCHANGED << lock, inode, os >>

\* To NO: the last reader of the process drops all its POSIX locks; when no lock is left, the
\* descriptors that were kept are closed.
Leave(f) ==
  LET p == Owner[f]
      left == inode[p].nShared - 1
      idle == inode[p].nLock - 1 = 0
  IN  /\ \/ call[p] = [step |-> "leave", file |-> f]
         \/ call[p] = NoCall /\ lock[f] = SHARED /\ handle[f] \in {"open", "closing"}
      /\ InodeIs(p, [inode[p] EXCEPT !.nShared = left, !.nLock = inode[p].nLock - 1,
                                     !.eFileLock = IF left = 0 THEN NO ELSE @,
                                     !.pUnused = IF idle THEN 0 ELSE @])
      /\ \/ /\ os' = [os EXCEPT ![p] = IF left = 0 \/ (idle /\ inode[p].pUnused > 0)
                                       THEN NoLocks ELSE @]
            /\ UNCHANGED intact
         \/ /\ left = 0
            /\ "unlock" \in Faults
            /\ intact' = FALSE
            /\ os' = [os EXCEPT ![p] = IF idle /\ inode[p].pUnused > 0 THEN NoLocks ELSE @]
      /\ lock' = [lock EXCEPT ![f] = NO]
      /\ Return(p)
      /\ handle' = [handle EXCEPT ![f] = IF @ = "closing" THEN "unlocked" ELSE @]

-----------------------------------------------------------------------------
(* unixClose: unlock, then give back descriptor and unixInodeInfo.  The      *)
(* mutex is free between the two.                                          *)

BeginClose(f) ==
  /\ Free(f)
  /\ handle' = [handle EXCEPT ![f] = IF lock[f] = NO THEN "unlocked" ELSE "closing"]
  /\ UNCHANGED << lock, inode, os, call, intact >>

\* Mutant: the descriptor is closed although the process holds locks.
EndClose_now(f) ==
  LET p == Owner[f]
      last == inode[p].nRef = 1
  IN  /\ handle[f] = "unlocked"
      /\ call[p] = NoCall
      /\ handle' = [handle EXCEPT ![f] = "closed"]
      /\ lock' = [lock EXCEPT ![f] = NO]
      /\ InodeIs(p, IF last THEN NoInode ELSE [inode[p] EXCEPT !.nRef = inode[p].nRef - 1])
      /\ os' = [os EXCEPT ![p] = NoLocks]
      /\ UNCHANGED << call, intact >>

\* Closing a descriptor drops all locks of the process, so it is kept while there are any
\* (setPendingFd); the last file closes what was kept.
EndClose(f) ==
  LET p == Owner[f]
      last == inode[p].nRef = 1
      keep == inode[p].nLock > 0
  IN  /\ handle[f] = "unlocked"
      /\ call[p] = NoCall
      /\ handle' = [handle EXCEPT ![f] = "closed"]
      /\ lock' = [lock EXCEPT ![f] = NO]
      /\ InodeIs(p, IF last THEN NoInode
                    ELSE [inode[p] EXCEPT !.nRef = inode[p].nRef - 1,
                                          !.pUnused = inode[p].pUnused + (IF keep THEN 1 ELSE 0)])
      /\ os' = [os EXCEPT ![p] = IF keep /\ ~last THEN @ ELSE NoLocks]
      /\ UNCHANGED << call, intact >>

\* The kernel drops the locks of a process that dies.
Die(p) ==
  /\ \E f \in Siblings(p) : handle[f] # "closed"
  /\ handle' = [f \in Files |-> IF Owner[f] = p THEN "closed" ELSE handle[f]]
  /\ lock' = [f \in Files |-> IF Owner[f] = p THEN NO ELSE lock[f]]
  /\ inode' = [inode EXCEPT ![p] = NoInode]
  /\ os' = [os EXCEPT ![p] = NoLocks]
  /\ call' = [call EXCEPT ![p] = NoCall]
  /\ UNCHANGED intact

-----------------------------------------------------------------------------
Init ==
  /\ handle = [f \in Files |-> "closed"]
  /\ lock = [f \in Files |-> NO]
  /\ inode = [p \in Processes |-> NoInode]
  /\ os = [p \in Processes |-> NoLocks]
  /\ call = [p \in Processes |-> NoCall]
  /\ intact = TRUE

Next ==
  \/ \E f \in Files :
       \/ OpenFd(f) \/ FindInode(f) \/ OpenFails(f) \/ BeginClose(f) \/ EndClose(f)
       \/ ShareInside(f) \/ ReadPending(f) \/ Reserve(f) \/ WritePending(f) \/ Exclude(f)
       \/ Downgrade(f) \/ Unreserve(f) \/ Leave(f)
  \/ \E p \in Processes : ReadShared(p) \/ DropPending(p) \/ Die(p)

\* A call that has begun ends, and a connection that reads or waits does not do so for ever:
\* a reader is done some day, and pager_wait_on_lock retries a PENDING file as long as the busy
\* handler says.  That a retry meets a moment without readers is not assumed.
Fairness ==
  /\ \A p \in Processes : WF_vars(ReadShared(p)) /\ WF_vars(DropPending(p))
  /\ \A f \in Files :
       /\ WF_vars(Exclude(f) /\ UNCHANGED intact)
       /\ SF_vars(Leave(f))
       /\ SF_vars(Unreserve(f) /\ (call[Owner[f]] # NoCall \/ handle[f] = "closing"))

Spec == Init /\ [][Next]_vars /\ Fairness

-----------------------------------------------------------------------------
(* Properties.                                                             *)

Steps == {"none", "share", "unpend", "give up", "exclude", "to shared", "leave"}

\* Every variable stays in its range.
TypeOK ==
  /\ handle \in [Files -> {"closed", "opening", "open", "closing", "unlocked"}]
  /\ lock \in [Files -> NO..EXCLUSIVE]
  /\ inode \in [Processes -> [nRef : Nat, nShared : Nat, nLock : Nat, eFileLock : NO..EXCLUSIVE,
                              pUnused : Nat]]
  /\ os \in [Processes -> [Bytes -> {"none", "read", "write"}]]
  /\ \A p \in Processes :
       \/ call[p] = NoCall
       \/ call[p] \in [step : Steps \ {"none"}, file : Siblings(p)]
  /\ intact \in BOOLEAN

\* While posixUnlock is under way, the level of the inode tells what the file has left.
Level(f) ==
  IF lock[f] > SHARED /\ inode[Owner[f]].eFileLock = SHARED THEN SHARED ELSE lock[f]

IsReserved(f) == Level(f) >= RESERVED /\ os[Owner[f]].reserved = "write"

HeldBy(f) ==
  (IF Level(f) >= SHARED THEN {"shared"} ELSE {})
  \union (IF IsReserved(f) THEN {"reserved"} ELSE {})
  \union (IF Level(f) >= PENDING THEN {"pending"} ELSE {})
  \union (IF Level(f) = EXCLUSIVE THEN {"exclusive"} ELSE {})

heldNow == [f \in Files |-> HeldBy(f)]

Abstract == INSTANCE FileLocks WITH held <- heldNow

\* The fcntl calls of all processes together amount to locks that are taken in one step each,
\* in the order the file format needs: nobody reads beside a writer, one file at most is
\* RESERVED, nobody starts to read while a writer waits, except along with a file of its own
\* process that reads already.  Once an fcntl has failed without a conflict, locks may stay
\* behind that no file knows of.
ImplementsFileLocks ==
  Abstract!Init /\ [][intact' => [Abstract!Next \/ \E f \in Files : Abstract!Beside(f)]_heldNow]_vars

\* What the comment of unixLock says of PENDING, without that exception (sqlite3.c:30940).
KeepsReadersOut == Abstract!Init /\ [][intact' => [Abstract!Next]_heldNow]_vars

\* A file that is EXCLUSIVE is the only one that holds any lock, in all processes together.
ExclusiveIsAlone ==
  \A f, g \in Files : f # g /\ Level(f) = EXCLUSIVE => Level(g) = NO

\* Nobody loses a lock because another file of its process is closed or unlocked: what a file
\* believes to hold, its process does hold.
LocksAreBacked ==
  \A f \in Files :
    /\ Level(f) >= SHARED => os[Owner[f]].shared # "none"
    /\ Level(f) >= PENDING => os[Owner[f]].pending = "write"

\* Mutant: only the other processes are asked.
CheckReservedLock_others(f) == ~Grantable(Owner[f], "reserved", "write")

\* unixCheckReservedLock: its own inode, then F_GETLK for a write lock on the reserved byte.
CheckReservedLock(f) ==
  \/ inode[Owner[f]].eFileLock > SHARED
  \/ ~Grantable(Owner[f], "reserved", "write")

\* A writer with a journal in the making is always seen, so that its journal is not taken for
\* hot, and nothing else is seen but a PENDING file of the same process.
ReservedIsSeen ==
  intact =>
    \A f \in Files :
      Level(f) = SHARED /\ call[Owner[f]] = NoCall => (CheckReservedLock(f) <=> Abstract!SeesReserved(f))

\* The counts of an inode are those of its files, and descriptors are kept open for as long as
\* there are locks that closing them would drop, not longer.
CountsMatch ==
  \A p \in Processes :
    /\ inode[p].nRef = Cardinality({f \in Siblings(p) : handle[f] \in {"open", "closing", "unlocked"}})
    /\ inode[p].pUnused > 0 => inode[p].nLock > 0
    /\ intact => /\ inode[p].nShared = Cardinality({f \in Siblings(p) : lock[f] > NO})
                 /\ inode[p].nLock = inode[p].nShared

\* A writer that waits for the readers is not starved by new ones, if no other process has the
\* file open twice.
WriterIsNotStarved ==
  \A f \in {g \in Files : \A p \in Processes \ {Owner[g]} : Cardinality(Siblings(p)) <= 1} :
    (Level(f) = PENDING /\ IsReserved(f) /\ intact) ~> (Level(f) # PENDING \/ ~intact)
=============================================================================
