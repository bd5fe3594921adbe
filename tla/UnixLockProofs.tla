--------------------------- MODULE UnixLockProofs ---------------------------
(***************************************************************************)
(* Proofs about the locks of SQLite for any number of processes and files, *)
(* any fcntl of which may fail: what the processes believe to hold they do *)
(* hold, and a file that is EXCLUSIVE is alone.  As long as no fcntl fails *)
(* without a conflict, every step of UnixLock is one of FileLocks or none. *)
(***************************************************************************)
EXTENDS UnixLock, FiniteSetTheorems, TLAPS

Readers(p) == {f \in Siblings(p) : lock[f] > NO}

Opened(p) == {f \in Siblings(p) : handle[f] \in {"open", "closing", "unlocked"}}

\* The kernel: a write lock on a byte excludes all locks of other processes.
Posix ==
  \A p, q \in Processes : \A b \in Bytes :
    p # q /\ os[p][b] = "write" => os[q][b] = "none"

\* Between processes, EXCLUSIVE is what it says, even while the shared range is given up in steps.
ExclusiveInside ==
  \A p, q \in Processes :
    p # q /\ inode[p].eFileLock = EXCLUSIVE => os[q].shared = "none"

\* The counts of an inode never fall behind its files, and are exact until an fcntl fails.
Counts(p) ==
  /\ Cardinality(Readers(p)) <= inode[p].nShared
  /\ inode[p].nLock = inode[p].nShared
  /\ inode[p].eFileLock = NO <=> inode[p].nShared = 0
  /\ inode[p].nRef = Cardinality(Opened(p))
  /\ inode[p].pUnused > 0 => inode[p].nLock > 0
  /\ intact => inode[p].nShared = Cardinality(Readers(p))

\* At most one file of a process is above SHARED, and then the inode is too, except between the
\* two halves of an unlock.
Levels(p) ==
  /\ \A f \in Siblings(p) :
       lock[f] > SHARED =>
         \/ inode[p].eFileLock = lock[f]
         \/ inode[p].eFileLock = SHARED /\ call[p] = [step |-> "leave", file |-> f]
  /\ \A f, g \in Siblings(p) : lock[f] > SHARED /\ lock[g] > SHARED => f = g
  /\ inode[p].eFileLock = EXCLUSIVE =>
       inode[p].nShared = 1 /\ \A f \in Siblings(p) : lock[f] \in {NO, EXCLUSIVE}

\* What the inode says, the kernel knows.
Backed(p) ==
  /\ inode[p].eFileLock >= SHARED => os[p].shared # "none"
  /\ inode[p].eFileLock >= PENDING => os[p].pending = "write"

Handles(p) ==
  \A f \in Siblings(p) :
    /\ handle[f] \in {"closed", "opening"} => lock[f] = NO
    /\ handle[f] = "unlocked" /\ intact => lock[f] = NO

\* What is known between two fcntl calls of a call.
Calls(p) ==
  call[p] # NoCall =>
    /\ handle[call[p].file] \in {"open", "closing"}
    /\ call[p].step \in {"share", "unpend", "give up"} =>
         /\ inode[p].eFileLock = NO
         /\ lock[call[p].file] = NO
         /\ os[p].pending = "read"
    /\ call[p].step = "unpend" => os[p].shared # "none"
    /\ call[p].step = "exclude" =>
         /\ lock[call[p].file] = inode[p].eFileLock
         /\ lock[call[p].file] \in {SHARED, RESERVED}
         /\ os[p].pending = "write"
    /\ call[p].step = "to shared" =>
         /\ lock[call[p].file] > SHARED
         /\ inode[p].eFileLock = lock[call[p].file]
    /\ call[p].step = "leave" =>
         /\ lock[call[p].file] > SHARED
         /\ inode[p].eFileLock = SHARED

CallType == call \in [Processes -> {NoCall} \union [step : Steps, file : Files]]

Local(p) == Counts(p) /\ Levels(p) /\ Backed(p) /\ Handles(p) /\ Calls(p)

IInv == TypeOK /\ CallType /\ Posix /\ ExclusiveInside /\ \A p \in Processes : Local(p)

-----------------------------------------------------------------------------
(* Counting.                                                               *)

LEMMA FilesOfProcess ==
  ASSUME NEW p \in Processes
  PROVE  /\ IsFiniteSet(Readers(p)) /\ Cardinality(Readers(p)) \in Nat
         /\ IsFiniteSet(Opened(p)) /\ Cardinality(Opened(p)) \in Nat
<1>1. IsFiniteSet(Readers(p)) /\ IsFiniteSet(Opened(p))
  BY UnixAssumption, FS_Subset DEF Readers, Opened, Siblings
<1> QED
  BY <1>1, FS_CardinalityType

LEMMA OwnerType == \A f \in Files : Owner[f] \in Processes /\ f \in Siblings(Owner[f])
BY UnixAssumption DEF Siblings

\* Only one reader: the others have no lock.
LEMMA SingleReader ==
  ASSUME TypeOK, NEW f \in Files, lock[f] > NO, Cardinality(Readers(Owner[f])) <= 1
  PROVE  \A g \in Siblings(Owner[f]) : g # f => lock[g] = NO
<1> DEFINE R == Readers(Owner[f])
<1>1. f \in R /\ IsFiniteSet(R) /\ Cardinality(R) \in Nat
  BY OwnerType, FilesOfProcess DEF Readers
<1>2. Cardinality(R \ {f}) = Cardinality(R) - 1 /\ IsFiniteSet(R \ {f})
  BY <1>1, FS_RemoveElement
<1>3. Cardinality(R \ {f}) \in Nat
  BY <1>2, FS_CardinalityType
<1>4. R \ {f} = {}
  BY <1>1, <1>2, <1>3, FS_EmptySet
<1> QED
  BY <1>4 DEF Readers, TypeOK, NO, EXCLUSIVE, Siblings

LEMMA NoReader ==
  ASSUME TypeOK, NEW p \in Processes, Cardinality(Readers(p)) <= 0
  PROVE  \A g \in Siblings(p) : lock[g] = NO
<1>1. Readers(p) = {}
  BY FilesOfProcess, FS_EmptySet
<1> QED
  BY <1>1 DEF Readers, TypeOK, NO, EXCLUSIVE, Siblings

\* What a change of one file does to the number of readers of its process ...
LEMMA ReadersChange ==
  ASSUME TypeOK, TypeOK', NEW f \in Files, \A g \in Files \ {f} : lock'[g] = lock[g],
         NEW p, p = Owner[f]
  PROVE  /\ lock[f] = NO /\ lock'[f] # NO => Cardinality(Readers(p)') = Cardinality(Readers(p)) + 1
         /\ lock[f] # NO /\ lock'[f] = NO => Cardinality(Readers(p)') = Cardinality(Readers(p)) - 1
         /\ (lock[f] = NO <=> lock'[f] = NO) => Readers(p)' = Readers(p)
         /\ Cardinality(Readers(p)') \in Int
<1>0. p \in Processes /\ f \in Siblings(p)
  BY OwnerType
<1>1. \A g \in Files : (lock[g] > NO <=> lock[g] # NO) /\ (lock'[g] > NO <=> lock'[g] # NO)
  BY DEF TypeOK, NO, EXCLUSIVE
<1>2. Readers(p)' = IF lock'[f] # NO THEN Readers(p) \union {f} ELSE Readers(p) \ {f}
  BY <1>0, <1>1 DEF Readers, Siblings
<1>3. f \in Readers(p) <=> lock[f] # NO
  BY <1>0, <1>1 DEF Readers
<1>4. Cardinality(Readers(p) \union {f}) = IF f \in Readers(p) THEN Cardinality(Readers(p)) ELSE Cardinality(Readers(p)) + 1
  BY <1>0, FilesOfProcess, FS_AddElement
<1>5. Cardinality(Readers(p) \ {f}) = IF f \in Readers(p) THEN Cardinality(Readers(p)) - 1 ELSE Cardinality(Readers(p))
  BY <1>0, FilesOfProcess, FS_RemoveElement
<1>6. Cardinality(Readers(p)) \in Nat
  BY <1>0, FilesOfProcess
<1>7. Cardinality(Readers(p) \union {f}) \in Int /\ Cardinality(Readers(p) \ {f}) \in Int
  BY <1>4, <1>5, <1>6
<1>8. Cardinality(Readers(p)') \in Int
  BY <1>2, <1>7
<1> QED
  BY <1>2, <1>3, <1>4, <1>5, <1>8

Up == {"open", "closing", "unlocked"}

\* ... and of open files.
LEMMA OpenedChange ==
  ASSUME NEW f \in Files, \A g \in Files \ {f} : handle'[g] = handle[g], NEW p, p = Owner[f]
  PROVE  /\ handle[f] \notin Up /\ handle'[f] \in Up => Cardinality(Opened(p)') = Cardinality(Opened(p)) + 1
         /\ handle[f] \in Up /\ handle'[f] \notin Up => Cardinality(Opened(p)') = Cardinality(Opened(p)) - 1
         /\ (handle[f] \in Up <=> handle'[f] \in Up) => Opened(p)' = Opened(p)
<1>0. p \in Processes /\ f \in Siblings(p)
  BY OwnerType
<1>2. Opened(p)' = IF handle'[f] \in Up THEN Opened(p) \union {f} ELSE Opened(p) \ {f}
  BY <1>0 DEF Opened, Siblings, Up
<1>3. f \in Opened(p) <=> handle[f] \in Up
  BY <1>0 DEF Opened, Up
<1>4. Cardinality(Opened(p) \union {f}) = IF f \in Opened(p) THEN Cardinality(Opened(p)) ELSE Cardinality(Opened(p)) + 1
  BY <1>0, FilesOfProcess, FS_AddElement
<1>5. Cardinality(Opened(p) \ {f}) = IF f \in Opened(p) THEN Cardinality(Opened(p)) - 1 ELSE Cardinality(Opened(p))
  BY <1>0, FilesOfProcess, FS_RemoveElement
<1>6. Cardinality(Opened(p)) \in Nat
  BY <1>0, FilesOfProcess
<1> QED
  BY <1>2, <1>3, <1>4, <1>5, <1>6

-----------------------------------------------------------------------------
(* The other processes.                                                    *)

Elsewhere(p) ==
  /\ \A q \in Processes \ {p} : inode'[q] = inode[q] /\ os'[q] = os[q] /\ call'[q] = call[q]
  /\ \A f \in Files : Owner[f] # p => lock'[f] = lock[f] /\ handle'[f] = handle[f]

LEMMA Frame ==
  ASSUME IInv, NEW p \in Processes, Elsewhere(p), intact' => intact, NEW q \in Processes \ {p}
  PROVE  Local(q)'
<1>1. Readers(q)' = Readers(q) /\ Opened(q)' = Opened(q)
  BY DEF Readers, Opened, Siblings, Elsewhere
<1>2. Counts(q)'
  BY <1>1 DEF IInv, Local, Counts, Elsewhere
<1>3. Levels(q)' /\ Backed(q)' /\ Handles(q)'
  BY DEF IInv, Local, Levels, Backed, Handles, Elsewhere, Siblings
<1>4. Calls(q)'
  <2>1. call[q] # NoCall => call[q].file \in Siblings(q)
    BY DEF IInv, TypeOK
  <2>2. call[q] # NoCall => handle'[call[q].file] = handle[call[q].file] /\ lock'[call[q].file] = lock[call[q].file]
    BY <2>1 DEF Elsewhere, Siblings
  <2>3. call'[q] = call[q] /\ inode'[q] = inode[q] /\ os'[q] = os[q] /\ Calls(q)
    BY DEF IInv, Local, Elsewhere
  <2> QED
    BY <2>2, <2>3 DEF Calls
<1> QED
  BY <1>2, <1>3, <1>4 DEF Local

LEMMA PosixStep ==
  ASSUME IInv, NEW p \in Processes, Elsewhere(p), os' \in [Processes -> [Bytes -> {"none", "read", "write"}]],
         \A b \in Bytes : os'[p][b] = "write" => os[p][b] = "write" \/ Grantable(p, b, "write"),
         \A b \in Bytes : os'[p][b] = "read" => os[p][b] # "none" \/ Grantable(p, b, "read")
  PROVE  Posix'
<1> SUFFICES ASSUME NEW q \in Processes, NEW r \in Processes, NEW b \in Bytes, q # r, os'[q][b] = "write"
             PROVE  os'[r][b] = "none"
  BY DEF Posix
<1> USE DEF IInv, TypeOK, Posix, Elsewhere, Grantable
<1>1. CASE q = p
  BY <1>1
<1>2. CASE r = p
  <2>1. os[q][b] = "write" /\ os[p][b] = "none"
    BY <1>2
  <2>2. ~Grantable(p, b, "write") /\ ~Grantable(p, b, "read")
    BY <1>2, <2>1
  <2> QED
    BY <1>2, <2>1, <2>2
<1>3. CASE q # p /\ r # p
  BY <1>3
<1> QED
  BY <1>1, <1>2, <1>3

LEMMA ExclusiveStep ==
  ASSUME IInv, NEW p \in Processes, Elsewhere(p),
         inode'[p].eFileLock = EXCLUSIVE =>
           inode[p].eFileLock = EXCLUSIVE \/ Grantable(p, "shared", "write"),
         os'[p].shared # "none" =>
           os[p].shared # "none" \/ \A q \in Processes \ {p} : inode[q].eFileLock # EXCLUSIVE
  PROVE  ExclusiveInside'
BY DEF IInv, ExclusiveInside, Elsewhere, Grantable

InodeRec == [nRef : Nat, nShared : Nat, nLock : Nat, eFileLock : NO..EXCLUSIVE, pUnused : Nat]

\* The inode of a process as TypeOK has it, and what holds of every file with a lock.
LEMMA InodeType ==
  ASSUME TypeOK, NEW p \in Processes
  PROVE  /\ inode[p].nRef \in Nat /\ inode[p].nShared \in Nat /\ inode[p].nLock \in Nat
         /\ inode[p].pUnused \in Nat /\ inode[p].eFileLock \in NO..EXCLUSIVE
         /\ inode[p] \in InodeRec /\ inode \in [Processes -> InodeRec]
BY DEF TypeOK, InodeRec

LEMMA NewInode ==
  ASSUME TypeOK, NEW p \in Processes, NEW r \in InodeRec, inode' = [inode EXCEPT ![p] = r]
  PROVE  inode' \in [Processes -> InodeRec] /\ inode'[p] = r /\ \A q \in Processes \ {p} : inode'[q] = inode[q]
BY InodeType

LEMMA LockCounts ==
  ASSUME IInv, NEW f \in Files, NEW p, p = Owner[f]
  PROVE  /\ p \in Processes /\ f \in Siblings(p)
         /\ lock[f] > NO => inode[p].nShared > 0 /\ inode[p].nLock > 0 /\ inode[p].eFileLock # NO
         /\ handle[f] \in {"open", "closing", "unlocked"} => inode[p].nRef > 0
<1>0. p \in Processes /\ f \in Siblings(p)
  BY OwnerType
<1>1. lock[f] > NO => Readers(p) # {}
  BY <1>0 DEF Readers
<1>2. handle[f] \in {"open", "closing", "unlocked"} => Opened(p) # {}
  BY <1>0 DEF Opened
<1>3. (Cardinality(Readers(p)) = 0 <=> Readers(p) = {}) /\ (Cardinality(Opened(p)) = 0 <=> Opened(p) = {})
  BY <1>0, FilesOfProcess, FS_EmptySet
<1>4. Counts(p) /\ TypeOK
  BY <1>0 DEF IInv, Local
<1> QED
  BY <1>0, <1>1, <1>2, <1>3, <1>4, InodeType, FilesOfProcess DEF Counts, NO, EXCLUSIVE

-----------------------------------------------------------------------------
\* A step of a process keeps the invariant if it keeps what concerns the process, takes no lock
\* that the kernel refuses, and does not read beside an EXCLUSIVE file.
LEMMA StepKeeps ==
  ASSUME IInv, NEW p \in Processes, Elsewhere(p), intact' => intact,
         TypeOK', CallType', Local(p)',
         \A b \in Bytes : os'[p][b] = "write" => os[p][b] = "write" \/ Grantable(p, b, "write"),
         \A b \in Bytes : os'[p][b] = "read" => os[p][b] # "none" \/ Grantable(p, b, "read"),
         inode'[p].eFileLock = EXCLUSIVE =>
           inode[p].eFileLock = EXCLUSIVE \/ Grantable(p, "shared", "write"),
         os'[p].shared # "none" =>
           os[p].shared # "none" \/ \A q \in Processes \ {p} : inode[q].eFileLock # EXCLUSIVE
  PROVE  IInv'
<1>1. Posix'
  BY PosixStep DEF TypeOK
<1>2. ExclusiveInside'
  BY ExclusiveStep
<1>3. \A q \in Processes : Local(q)'
  BY Frame
<1> QED
  BY <1>1, <1>2, <1>3 DEF IInv

\* ... and if it touches neither the locks of the kernel nor the levels, that is all.
LEMMA QuietStepKeeps ==
  ASSUME IInv, NEW p \in Processes, Elsewhere(p), intact' = intact, os' = os,
         inode'[p].eFileLock = inode[p].eFileLock, TypeOK', CallType', Local(p)'
  PROVE  IInv'
BY StepKeeps DEF IInv, TypeOK, Bytes

-----------------------------------------------------------------------------
(* unixOpen and unixClose.                                                 *)

LEMMA OpenFdKeeps ==
  ASSUME IInv, NEW f \in Files, NEW p, p = Owner[f], OpenFd(f)
  PROVE  IInv'
<1>0. p \in Processes /\ f \in Siblings(p) /\ TypeOK /\ Local(p)
  BY LockCounts DEF IInv
<1>e. Elsewhere(p) /\ lock' = lock /\ call' = call /\ call[p] = NoCall /\ os' = os /\ intact' = intact
  BY <1>0 DEF OpenFd, Elsewhere, InodeIs, TypeOK
<1>i. /\ inode' \in [Processes -> InodeRec]
      /\ inode'[p].nShared = inode[p].nShared /\ inode'[p].nLock = inode[p].nLock
      /\ inode'[p].eFileLock = inode[p].eFileLock /\ inode'[p].nRef = inode[p].nRef
      /\ inode'[p].pUnused \in Nat /\ inode'[p].pUnused <= inode[p].pUnused
  <2>1. CASE inode[p].pUnused > 0
    <3>1. PICK n \in Nat : n = inode[p].pUnused - 1
      BY <1>0, <2>1, InodeType
    <3>2. inode' = [inode EXCEPT ![p] = [inode[p] EXCEPT !.pUnused = n]]
      BY <2>1, <3>1 DEF OpenFd, InodeIs
    <3> QED
      BY <1>0, <3>1, <3>2, InodeType DEF InodeRec
  <2>2. CASE ~(inode[p].pUnused > 0)
    BY <1>0, <2>2, InodeType DEF OpenFd
  <2> QED
    BY <2>1, <2>2
<1>t. TypeOK' /\ CallType'
  BY <1>e, <1>i DEF IInv, TypeOK, CallType, OpenFd, InodeRec
<1>c. Counts(p)'
  <2>1. Readers(p)' = Readers(p)
    BY <1>e DEF Readers
  <2>2. Cardinality(Opened(p)') = Cardinality(Opened(p))
    BY <1>0, OpenedChange DEF OpenFd, TypeOK, Up
  <2> QED
    BY <1>0, <1>e, <1>i, <2>1, <2>2, InodeType DEF Local, Counts
<1>l. Levels(p)' /\ Backed(p)' /\ Calls(p)'
  BY <1>0, <1>e, <1>i DEF Local, Levels, Backed, Calls
<1>h. Handles(p)'
  BY <1>0, <1>e DEF Local, Handles, OpenFd, TypeOK
<1> QED
  BY <1>0, <1>e, <1>i, <1>t, <1>c, <1>l, <1>h, QuietStepKeeps DEF Local

LEMMA FindInodeKeeps ==
  ASSUME IInv, NEW f \in Files, NEW p, p = Owner[f], FindInode(f)
  PROVE  IInv'
<1>0. p \in Processes /\ f \in Siblings(p) /\ TypeOK /\ Local(p)
  BY LockCounts DEF IInv
<1>e. Elsewhere(p) /\ lock' = lock /\ call' = call /\ call[p] = NoCall /\ os' = os /\ intact' = intact
  BY <1>0 DEF FindInode, Elsewhere, InodeIs, TypeOK
<1>i. /\ inode' \in [Processes -> InodeRec]
      /\ inode'[p].nShared = inode[p].nShared /\ inode'[p].nLock = inode[p].nLock
      /\ inode'[p].eFileLock = inode[p].eFileLock /\ inode'[p].nRef = inode[p].nRef + 1
      /\ inode'[p].pUnused = inode[p].pUnused
  <2>1. PICK n \in Nat : n = inode[p].nRef + 1
    BY <1>0, InodeType
  <2>2. inode' = [inode EXCEPT ![p] = [inode[p] EXCEPT !.nRef = n]]
    BY <2>1 DEF FindInode, InodeIs
  <2> QED
    BY <1>0, <2>1, <2>2, InodeType DEF InodeRec
<1>t. TypeOK' /\ CallType'
  BY <1>e, <1>i DEF IInv, TypeOK, CallType, FindInode, InodeRec
<1>c. Counts(p)'
  <2>1. Readers(p)' = Readers(p)
    BY <1>e DEF Readers
  <2>2. Cardinality(Opened(p)') = Cardinality(Opened(p)) + 1
    BY <1>0, OpenedChange DEF FindInode, TypeOK, Up
  <2> QED
    BY <1>0, <1>e, <1>i, <2>1, <2>2, InodeType DEF Local, Counts
<1>l. Levels(p)' /\ Backed(p)' /\ Calls(p)'
  BY <1>0, <1>e, <1>i DEF Local, Levels, Backed, Calls
<1>h. Handles(p)'
  BY <1>0, <1>e DEF Local, Handles, FindInode, TypeOK
<1> QED
  BY <1>0, <1>e, <1>i, <1>t, <1>c, <1>l, <1>h, QuietStepKeeps DEF Local

LEMMA OpenFailsKeeps ==
  ASSUME IInv, NEW f \in Files, NEW p, p = Owner[f], OpenFails(f)
  PROVE  IInv'
<1>0. p \in Processes /\ f \in Siblings(p) /\ TypeOK /\ Local(p)
  BY LockCounts DEF IInv
<1>e. /\ Elsewhere(p) /\ lock' = lock /\ call' = call /\ call[p] = NoCall /\ inode' = inode /\ intact' = intact
      /\ os' = [os EXCEPT ![p] = NoLocks] /\ inode[p].eFileLock = NO
  BY <1>0 DEF OpenFails, Elsewhere, TypeOK, NoInode
<1>o. \A b \in Bytes : os'[p][b] = "none"
  BY <1>0, <1>e DEF TypeOK, NoLocks
<1>t. TypeOK' /\ CallType'
  <2>1. os' \in [Processes -> [Bytes -> {"none", "read", "write"}]]
    BY <1>0, <1>e DEF TypeOK, NoLocks
  <2>2. handle' \in [Files -> {"closed", "opening", "open", "closing", "unlocked"}]
    BY <1>0 DEF TypeOK, OpenFails
  <2> QED
    BY <1>e, <2>1, <2>2 DEF IInv, TypeOK, CallType
<1>c. Counts(p)'
  <2>1. Readers(p)' = Readers(p)
    BY <1>e DEF Readers
  <2>2. Opened(p)' = Opened(p)
    BY <1>0, OpenedChange DEF OpenFails, TypeOK, Up
  <2> QED
    BY <1>0, <1>e, <2>1, <2>2 DEF Local, Counts
<1>l. Levels(p)' /\ Backed(p)' /\ Calls(p)'
  BY <1>0, <1>e DEF Local, Levels, Backed, Calls, NO, SHARED, PENDING
<1>h. Handles(p)'
  BY <1>0, <1>e DEF Local, Handles, OpenFails, TypeOK
<1> QED
  BY <1>0, <1>e, <1>o, <1>t, <1>c, <1>l, <1>h, StepKeeps DEF Local, Bytes, NO, EXCLUSIVE

LEMMA BeginCloseKeeps ==
  ASSUME IInv, NEW f \in Files, NEW p, p = Owner[f], BeginClose(f)
  PROVE  IInv'
<1>0. p \in Processes /\ f \in Siblings(p) /\ TypeOK /\ Local(p)
  BY LockCounts DEF IInv
<1>e. /\ Elsewhere(p) /\ lock' = lock /\ call' = call /\ call[p] = NoCall /\ os' = os
      /\ inode' = inode /\ intact' = intact
  BY <1>0 DEF BeginClose, Elsewhere, Free, TypeOK
<1>t. TypeOK' /\ CallType'
  BY <1>e DEF IInv, TypeOK, CallType, BeginClose
<1>c. Counts(p)'
  <2>1. Readers(p)' = Readers(p)
    BY <1>e DEF Readers
  <2>2. Cardinality(Opened(p)') = Cardinality(Opened(p))
    BY <1>0, OpenedChange DEF BeginClose, Free, TypeOK, Up
  <2> QED
    BY <1>0, <1>e, <2>1, <2>2 DEF Local, Counts
<1>l. Levels(p)' /\ Backed(p)' /\ Calls(p)'
  BY <1>0, <1>e DEF Local, Levels, Backed, Calls
<1>h. Handles(p)'
  BY <1>0, <1>e DEF Local, Handles, BeginClose, TypeOK
<1> QED
  BY <1>0, <1>e, <1>t, <1>c, <1>l, <1>h, QuietStepKeeps DEF Local

LEMMA EndCloseKeeps ==
  ASSUME IInv, NEW f \in Files, NEW p, p = Owner[f], EndClose(f)
  PROVE  IInv'
<1>0. /\ p \in Processes /\ f \in Siblings(p) /\ TypeOK /\ Local(p)
      /\ handle[f] = "unlocked" /\ inode[p].nRef > 0
  BY LockCounts DEF IInv, EndClose
<1>e. Elsewhere(p) /\ call' = call /\ call[p] = NoCall /\ intact' = intact
  BY <1>0 DEF EndClose, Elsewhere, InodeIs, TypeOK
<1>f. /\ lock' = [lock EXCEPT ![f] = NO]
      /\ handle' = [handle EXCEPT ![f] = "closed"]
  BY DEF EndClose
<1>n. inode[p].nRef = Cardinality(Opened(p))
  BY <1>0 DEF Local, Counts
<1>o. Cardinality(Opened(p)') = Cardinality(Opened(p)) - 1
  BY <1>0, <1>f, OpenedChange DEF TypeOK, Up
<1>h. Handles(p)'
  BY <1>0, <1>e, <1>f DEF Local, Handles, TypeOK
<1>k. Calls(p)'
  BY <1>e DEF Calls
<1>1. CASE inode[p].nRef = 1
  <2>1. inode' = [inode EXCEPT ![p] = NoInode] /\ os' = [os EXCEPT ![p] = NoLocks]
    BY <1>1, <1>0 DEF EndClose, InodeIs
  <2>2. Opened(p)' = {}
    <3>1. Cardinality(Opened(p)') = 0
      BY <1>1, <1>n, <1>o
    <3>2. IsFiniteSet(Opened(p)')
      BY <1>0, UnixAssumption, FS_Subset DEF Opened, Siblings
    <3> QED
      BY <3>1, <3>2, FS_EmptySet
  <2>3. \A g \in Siblings(p) : lock'[g] = NO
    BY <2>2, <1>0, <1>f, <1>h DEF Opened, Handles, TypeOK, Siblings
  <2>4. Readers(p)' = {}
    BY <2>3 DEF Readers, NO
  <2>t. TypeOK' /\ CallType'
    BY <1>0, <1>e, <1>f, <2>1 DEF IInv, TypeOK, CallType, NoInode, NoLocks, NO, EXCLUSIVE, EndClose
  <2>c. Counts(p)'
    BY <1>0, <2>1, <2>2, <2>4, FS_EmptySet DEF Counts, NoInode, TypeOK, NO
  <2>l. Levels(p)' /\ Backed(p)'
    BY <1>0, <2>1, <2>3 DEF Levels, Backed, NoInode, TypeOK, NO, SHARED, PENDING, EXCLUSIVE
  <2>s. /\ \A b \in Bytes : os'[p][b] = "none"
        /\ inode'[p].eFileLock # EXCLUSIVE
    BY <1>0, <2>1 DEF TypeOK, NoLocks, NoInode, NO, EXCLUSIVE
  <2> QED
    BY <1>0, <1>e, <1>h, <1>k, <2>t, <2>c, <2>l, <2>s, StepKeeps DEF Local, Bytes
<1>2. CASE inode[p].nRef # 1
  <2>1. os' = [os EXCEPT ![p] = IF inode[p].nLock > 0 THEN os[p] ELSE NoLocks]
    BY <1>2, <1>0 DEF EndClose
  <2>i. /\ inode' \in [Processes -> InodeRec]
        /\ inode'[p].nShared = inode[p].nShared /\ inode'[p].nLock = inode[p].nLock
        /\ inode'[p].eFileLock = inode[p].eFileLock /\ inode'[p].nRef = inode[p].nRef - 1
        /\ inode'[p].pUnused > 0 => inode[p].pUnused > 0 \/ inode[p].nLock > 0
    <3>1. PICK n \in Nat : n = inode[p].nRef - 1
      BY <1>0, InodeType
    <3>2. PICK u \in Nat : u = inode[p].pUnused + (IF inode[p].nLock > 0 THEN 1 ELSE 0)
      BY <1>0, InodeType
    <3>3. inode' = [inode EXCEPT ![p] = [inode[p] EXCEPT !.nRef = n, !.pUnused = u]]
      BY <1>2, <3>1, <3>2 DEF EndClose, InodeIs
    <3>4. /\ inode' \in [Processes -> InodeRec] /\ inode'[p].nRef = n /\ inode'[p].pUnused = u
          /\ inode'[p].nShared = inode[p].nShared /\ inode'[p].nLock = inode[p].nLock
          /\ inode'[p].eFileLock = inode[p].eFileLock
      BY <1>0, <3>3, InodeType DEF InodeRec
    <3>5. u > 0 => inode[p].pUnused > 0 \/ inode[p].nLock > 0
      BY <1>0, <3>2, InodeType
    <3> QED
      BY <3>1, <3>4, <3>5
  <2>o. os' \in [Processes -> [Bytes -> {"none", "read", "write"}]]
    BY <1>0, <2>1 DEF TypeOK, NoLocks
  <2>p. os'[p] = os[p] \/ (inode[p].eFileLock = NO /\ \A b \in Bytes : os'[p][b] = "none")
    BY <1>0, <2>1, InodeType DEF TypeOK, NoLocks, Local, Counts, Bytes
  <2>t. TypeOK' /\ CallType'
    BY <1>0, <1>e, <1>f, <2>i, <2>o DEF IInv, TypeOK, CallType, NO, EXCLUSIVE, EndClose, InodeRec
  <2>c. Counts(p)'
    <3>1. intact => lock[f] = NO
      BY <1>0 DEF Local, Handles
    <3>2. /\ Cardinality(Readers(p)') <= Cardinality(Readers(p))
          /\ lock[f] = NO => Readers(p)' = Readers(p)
          /\ Cardinality(Readers(p)') \in Int
      BY <1>0, <1>f, <2>t, ReadersChange, FilesOfProcess DEF TypeOK
    <3>3. inode'[p].pUnused > 0 => inode'[p].nLock > 0
      BY <1>0, <2>i DEF Local, Counts
    <3>4. Cardinality(Readers(p)) <= inode[p].nShared /\ (intact => inode[p].nShared = Cardinality(Readers(p)))
      BY <1>0 DEF Local, Counts
    <3>5. Cardinality(Readers(p)') <= inode'[p].nShared
      BY <1>0, <2>i, <3>2, <3>4, InodeType, FilesOfProcess
    <3>6. intact' => inode'[p].nShared = Cardinality(Readers(p)')
      BY <1>e, <2>i, <3>1, <3>2, <3>4
    <3>7. inode'[p].nRef = Cardinality(Opened(p)')
      BY <1>n, <1>o, <2>i
    <3> QED
      BY <1>0, <2>i, <3>3, <3>5, <3>6, <3>7 DEF Local, Counts
  <2>l. Levels(p)' /\ Backed(p)'
    BY <1>0, <1>e, <1>f, <2>i, <2>p, InodeType DEF Local, Levels, Backed, TypeOK, NO, SHARED, PENDING, EXCLUSIVE, Siblings
  <2> QED
    BY <1>0, <1>e, <1>h, <1>k, <2>t, <2>c, <2>l, <2>i, <2>p, StepKeeps DEF Local, Bytes, NO, EXCLUSIVE
<1> QED
  BY <1>1, <1>2

LEMMA DieKeeps ==
  ASSUME IInv, NEW p \in Processes, Die(p)
  PROVE  IInv'
<1>0. TypeOK
  BY DEF IInv
<1>e. Elsewhere(p) /\ intact' = intact
  BY <1>0 DEF Die, Elsewhere, TypeOK, IInv, CallType
<1>1. /\ inode'[p] = NoInode /\ call'[p] = NoCall /\ os'[p] = NoLocks
      /\ \A f \in Siblings(p) : lock'[f] = NO /\ handle'[f] = "closed"
  BY <1>0 DEF Die, TypeOK, IInv, CallType, Siblings
<1>t. TypeOK' /\ CallType'
  BY <1>0 DEF IInv, TypeOK, CallType, Die, NoInode, NoLocks, NO, EXCLUSIVE
<1>c. Counts(p)'
  <2>1. Readers(p)' = {} /\ Opened(p)' = {}
    BY <1>1 DEF Readers, Opened, NO
  <2> QED
    BY <1>1, <2>1, FS_EmptySet DEF Counts, NoInode, NO
<1>l. Levels(p)' /\ Backed(p)' /\ Handles(p)' /\ Calls(p)'
  BY <1>1 DEF Levels, Backed, Handles, Calls, NoInode, NO, SHARED, PENDING, EXCLUSIVE
<1> QED
  BY <1>e, <1>1, <1>t, <1>c, <1>l, StepKeeps DEF Local, Bytes, NoLocks, NoInode, NO, EXCLUSIVE

-----------------------------------------------------------------------------
(* unixLock.                                                               *)

\* The counts do not change when the same files read and are open.
LEMMA SameCounts ==
  ASSUME NEW p \in Processes, Counts(p), Readers(p)' = Readers(p), Opened(p)' = Opened(p),
         intact' => intact,
         inode'[p].nRef = inode[p].nRef, inode'[p].nShared = inode[p].nShared,
         inode'[p].nLock = inode[p].nLock, inode'[p].pUnused = inode[p].pUnused,
         inode'[p].eFileLock = NO <=> inode[p].eFileLock = NO
  PROVE  Counts(p)'
BY DEF Counts

\* A new level, and nothing else, in an inode.
LEMMA NewLevel ==
  ASSUME TypeOK, NEW p \in Processes, NEW level \in NO..EXCLUSIVE,
         InodeIs(p, [inode[p] EXCEPT !.eFileLock = level])
  PROVE  /\ inode' \in [Processes -> InodeRec] /\ inode'[p].eFileLock = level
         /\ inode'[p].nRef = inode[p].nRef /\ inode'[p].nShared = inode[p].nShared
         /\ inode'[p].nLock = inode[p].nLock /\ inode'[p].pUnused = inode[p].pUnused
         /\ \A q \in Processes \ {p} : inode'[q] = inode[q]
BY InodeType DEF InodeRec, InodeIs

LEMMA LevelRange ==
  /\ NO \in NO..EXCLUSIVE /\ SHARED \in NO..EXCLUSIVE /\ RESERVED \in NO..EXCLUSIVE
  /\ PENDING \in NO..EXCLUSIVE /\ EXCLUSIVE \in NO..EXCLUSIVE
  /\ NO < SHARED /\ SHARED < RESERVED /\ RESERVED < PENDING /\ PENDING < EXCLUSIVE
BY DEF NO, SHARED, RESERVED, PENDING, EXCLUSIVE

\* A new level of a file.
LEMMA NewFileLock ==
  ASSUME TypeOK, NEW f \in Files, NEW level \in NO..EXCLUSIVE, lock' = [lock EXCEPT ![f] = level]
  PROVE  /\ lock' \in [Files -> NO..EXCLUSIVE] /\ lock'[f] = level
         /\ \A g \in Files \ {f} : lock'[g] = lock[g]
BY DEF TypeOK

\* One more lock of the kernel.
LEMMA NewLock ==
  ASSUME TypeOK, NEW p \in Processes, NEW b \in Bytes, NEW type \in {"none", "read", "write"},
         SetLock(p, b, type)
  PROVE  /\ os' \in [Processes -> [Bytes -> {"none", "read", "write"}]]
         /\ os'[p][b] = type
         /\ \A x \in Bytes \ {b} : os'[p][x] = os[p][x]
         /\ \A q \in Processes \ {p} : os'[q] = os[q]
BY DEF TypeOK, SetLock

CallRange ==
  \A q \in Processes : call[q] = NoCall \/ call[q] \in [step : Steps \ {"none"}, file : Siblings(q)]

\* The call goes on ...
LEMMA CallGoesOn ==
  ASSUME IInv, NEW p \in Processes, NEW f \in Siblings(p), NEW step \in Steps \ {"none"}, Goto(p, f, step)
  PROVE  /\ CallType' /\ CallRange'
         /\ call'[p] # NoCall /\ call'[p].step = step /\ call'[p].file = f
         /\ \A q \in Processes \ {p} : call'[q] = call[q]
<1>1. CallType /\ TypeOK /\ f \in Files
  BY DEF IInv, Siblings
<1>2. call'[p] = [step |-> step, file |-> f] /\ CallType' /\ \A q \in Processes \ {p} : call'[q] = call[q]
  BY <1>1 DEF CallType, Goto
<1>3. step # "none" /\ NoCall.step = "none" /\ [step |-> step, file |-> f].step = step
  BY DEF NoCall
<1>4. CallRange'
  BY <1>1, <1>2 DEF TypeOK, CallRange, Siblings
<1> QED
  BY <1>2, <1>3, <1>4

\* ... or is over.
LEMMA CallEnds ==
  ASSUME IInv, NEW p \in Processes, Return(p)
  PROVE  /\ CallType' /\ CallRange'
         /\ call'[p] = NoCall /\ \A q \in Processes \ {p} : call'[q] = call[q]
<1>1. CallType /\ TypeOK
  BY DEF IInv
<1>2. CallType' /\ call'[p] = NoCall /\ \A q \in Processes \ {p} : call'[q] = call[q]
  BY <1>1 DEF Return, CallType
<1> QED
  BY <1>1, <1>2 DEF TypeOK, CallRange, Siblings

LEMMA ShareInsideKeeps ==
  ASSUME IInv, NEW f \in Files, NEW p, p = Owner[f], ShareInside(f)
  PROVE  IInv'
<1>0. /\ p \in Processes /\ f \in Siblings(p) /\ TypeOK /\ Local(p)
      /\ lock[f] = NO /\ inode[p].eFileLock \in {SHARED, RESERVED}
  BY LockCounts DEF IInv, ShareInside
<1>e. Elsewhere(p) /\ handle' = handle /\ call' = call /\ call[p] = NoCall /\ os' = os /\ intact' = intact
  BY <1>0 DEF ShareInside, Elsewhere, InodeIs, TypeOK, Free
<1>f. lock' = [lock EXCEPT ![f] = SHARED]
  BY DEF ShareInside
<1>i. /\ inode' \in [Processes -> InodeRec]
      /\ inode'[p].nShared = inode[p].nShared + 1 /\ inode'[p].nLock = inode[p].nLock + 1
      /\ inode'[p].eFileLock = inode[p].eFileLock /\ inode'[p].nRef = inode[p].nRef
      /\ inode'[p].pUnused = inode[p].pUnused
  <2>1. PICK n \in Nat : n = inode[p].nShared + 1
    BY <1>0, InodeType
  <2>2. PICK m \in Nat : m = inode[p].nLock + 1
    BY <1>0, InodeType
  <2>3. inode' = [inode EXCEPT ![p] = [inode[p] EXCEPT !.nShared = n, !.nLock = m]]
    BY <2>1, <2>2 DEF ShareInside, InodeIs
  <2> DEFINE new == [inode[p] EXCEPT !.nShared = n, !.nLock = m]
  <2>4. /\ new \in InodeRec /\ new.nShared = n /\ new.nLock = m /\ new.eFileLock = inode[p].eFileLock
        /\ new.nRef = inode[p].nRef /\ new.pUnused = inode[p].pUnused
    BY <1>0, InodeType DEF InodeRec
  <2> HIDE DEF new
  <2>5. PICK r \in InodeRec : r = new
    BY <2>4
  <2>6. inode' \in [Processes -> InodeRec] /\ inode'[p] = r
    BY <1>0, <2>3, <2>5, NewInode DEF new
  <2> QED
    BY <2>1, <2>2, <2>4, <2>5, <2>6
<1>t. TypeOK' /\ CallType'
  BY <1>0, <1>e, <1>i, <1>f DEF IInv, TypeOK, CallType, InodeRec, NO, SHARED, EXCLUSIVE
<1>c. Counts(p)'
  <2>1. Cardinality(Readers(p)') = Cardinality(Readers(p)) + 1
    BY <1>0, <1>f, <1>t, ReadersChange DEF TypeOK, NO, SHARED
  <2>2. Opened(p)' = Opened(p)
    BY <1>e DEF Opened
  <2>3. Counts(p)
    BY <1>0 DEF Local
  <2> QED
    BY <1>0, <1>e, <1>i, <2>1, <2>2, <2>3, InodeType, FilesOfProcess DEF Counts, NO, SHARED, RESERVED
<1>l. Levels(p)'
  BY <1>0, <1>e, <1>i, <1>f DEF Local, Levels, TypeOK, NO, SHARED, RESERVED, EXCLUSIVE
<1>b. Backed(p)' /\ Calls(p)'
  BY <1>0, <1>e, <1>i DEF Local, Backed, Calls
<1>h. Handles(p)'
  BY <1>0, <1>e, <1>f DEF Local, Handles, ShareInside, Free, TypeOK
<1> QED
  BY <1>0, <1>e, <1>i, <1>t, <1>c, <1>l, <1>b, <1>h, QuietStepKeeps DEF Local

LEMMA ReadPendingKeeps ==
  ASSUME IInv, NEW f \in Files, NEW p, p = Owner[f], ReadPending(f)
  PROVE  IInv'
<1>0. /\ p \in Processes /\ f \in Siblings(p) /\ TypeOK /\ Local(p)
      /\ lock[f] = NO /\ handle[f] = "open" /\ call[p] = NoCall
  BY LockCounts DEF IInv, ReadPending, Free
<1>1. inode[p].eFileLock = NO
  BY <1>0, InodeType DEF ReadPending, BusyInside, NO, SHARED, RESERVED, PENDING, EXCLUSIVE
<1>o. /\ os' \in [Processes -> [Bytes -> {"none", "read", "write"}]]
      /\ os'[p]["pending"] = "read" /\ \A x \in Bytes \ {"pending"} : os'[p][x] = os[p][x]
      /\ \A q \in Processes \ {p} : os'[q] = os[q]
  BY <1>0, NewLock DEF ReadPending, Bytes
<1>k. /\ CallType' /\ CallRange' /\ call'[p].step = "share" /\ call'[p].file = f
      /\ \A q \in Processes \ {p} : call'[q] = call[q]
  <2>1. Goto(p, f, "share") /\ "share" \in Steps \ {"none"}
    BY DEF ReadPending, Steps
  <2> QED
    BY <1>0, <2>1, CallGoesOn
<1>e. Elsewhere(p) /\ handle' = handle /\ lock' = lock /\ inode' = inode /\ intact' = intact
  BY <1>o, <1>k DEF ReadPending, Elsewhere
<1>t. TypeOK'
  BY <1>e, <1>o, <1>k DEF IInv, TypeOK, CallRange
<1>c. Counts(p)'
  BY <1>0, <1>e, SameCounts DEF Local, Readers, Opened
<1>l. Levels(p)' /\ Backed(p)'
  BY <1>0, <1>1, <1>e DEF Local, Levels, Backed, TypeOK, NO, SHARED, PENDING, EXCLUSIVE
<1>h. Handles(p)'
  BY <1>0, <1>e DEF Local, Handles
<1>n. Calls(p)'
  BY <1>0, <1>1, <1>e, <1>o, <1>k DEF Calls
<1> QED
  BY <1>0, <1>e, <1>o, <1>k, <1>t, <1>c, <1>l, <1>h, <1>n, StepKeeps DEF Local, ReadPending, Bytes

\* Nobody is EXCLUSIVE while another process has a read lock on the pending byte.
LEMMA PendingRead ==
  ASSUME IInv, NEW p \in Processes, os[p].pending = "read", NEW q \in Processes \ {p}
  PROVE  inode[q].eFileLock # EXCLUSIVE
BY DEF IInv, Local, Backed, Posix, Bytes, PENDING, EXCLUSIVE, TypeOK

LEMMA ReadSharedKeeps ==
  ASSUME IInv, NEW p \in Processes, NEW f, f = call[p].file, ReadShared(p)
  PROVE  IInv'
<1>0. /\ TypeOK /\ Local(p) /\ call[p] # NoCall /\ call[p].step = "share" /\ f \in Siblings(p)
      /\ inode[p].eFileLock = NO /\ lock[f] = NO /\ os[p].pending = "read" /\ handle[f] \in {"open", "closing"}
  <2>1. TypeOK /\ Local(p) /\ call[p].step = "share"
    BY DEF IInv, ReadShared
  <2>2. call[p] # NoCall
    BY <2>1 DEF NoCall
  <2>3. f \in Siblings(p)
    BY <2>1, <2>2 DEF TypeOK
  <2> QED
    BY <2>1, <2>2, <2>3 DEF Local, Calls
<1>l. ASSUME lock' = lock, inode' = inode PROVE Levels(p)' /\ Backed(p)'
  BY <1>0, <1>l DEF Local, Levels, Backed, TypeOK, NO, SHARED, PENDING, EXCLUSIVE
<1>1. CASE Grantable(p, "shared", "read") /\ SetLock(p, "shared", "read") /\ Goto(p, f, "unpend") /\ UNCHANGED intact
  <2>o. /\ os' \in [Processes -> [Bytes -> {"none", "read", "write"}]]
        /\ os'[p]["shared"] = "read" /\ \A x \in Bytes \ {"shared"} : os'[p][x] = os[p][x]
        /\ \A q \in Processes \ {p} : os'[q] = os[q]
    BY <1>0, <1>1, NewLock DEF Bytes
  <2>k. /\ CallType' /\ CallRange' /\ call'[p].step = "unpend" /\ call'[p].file = f
        /\ \A q \in Processes \ {p} : call'[q] = call[q]
    <3>1. Goto(p, f, "unpend") /\ "unpend" \in Steps \ {"none"} /\ f \in Siblings(p)
      BY <1>0, <1>1 DEF Steps
    <3> QED
      BY <3>1, CallGoesOn
  <2>e. Elsewhere(p) /\ handle' = handle /\ lock' = lock /\ inode' = inode /\ intact' = intact
    BY <1>1, <2>o, <2>k DEF ReadShared, Elsewhere
  <2>t. TypeOK'
    BY <2>e, <2>o, <2>k DEF IInv, TypeOK, CallRange
  <2>c. Counts(p)' /\ Handles(p)'
    BY <1>0, <2>e, SameCounts DEF Local, Readers, Opened, Handles
  <2>n. Calls(p)'
    BY <1>0, <2>e, <2>o, <2>k DEF Calls, Bytes
  <2> QED
    BY <1>0, <1>1, <1>l, <2>e, <2>o, <2>k, <2>t, <2>c, <2>n, StepKeeps, PendingRead DEF Local, Bytes
<1>2. CASE Refused(p, "shared", "read") /\ Goto(p, f, "give up") /\ UNCHANGED os
  <2>k. /\ CallType' /\ CallRange' /\ call'[p].step = "give up" /\ call'[p].file = f
        /\ \A q \in Processes \ {p} : call'[q] = call[q]
    <3>1. Goto(p, f, "give up") /\ "give up" \in Steps \ {"none"} /\ f \in Siblings(p)
      BY <1>0, <1>2 DEF Steps
    <3> QED
      BY <3>1, CallGoesOn
  <2>e. Elsewhere(p) /\ handle' = handle /\ lock' = lock /\ inode' = inode /\ os' = os
    BY <1>2, <2>k DEF ReadShared, Elsewhere
  <2>i. intact' \in BOOLEAN /\ (intact' => intact)
    <3>1. CASE UNCHANGED intact
      BY <1>0, <3>1 DEF TypeOK
    <3>2. CASE intact' = FALSE
      BY <3>2
    <3> QED
      BY <1>2, <3>1, <3>2 DEF Refused
  <2>t. TypeOK'
    BY <2>e, <2>i, <2>k DEF IInv, TypeOK, CallRange
  <2>c. Counts(p)' /\ Handles(p)'
    BY <1>0, <2>e, <2>i, SameCounts DEF Local, Readers, Opened, Handles
  <2>n. Calls(p)'
    BY <1>0, <2>e, <2>k DEF Calls
  <2> QED
    BY <1>0, <1>l, <2>e, <2>i, <2>k, <2>t, <2>c, <2>n, StepKeeps DEF Local
<1> QED
  BY <1>1, <1>2 DEF ReadShared

LEMMA DropPendingKeeps ==
  ASSUME IInv, NEW p \in Processes, NEW f, f = call[p].file, DropPending(p)
  PROVE  IInv'
<1>0. /\ TypeOK /\ Local(p) /\ call[p] # NoCall /\ call[p].step \in {"unpend", "give up"}
      /\ f \in Siblings(p) /\ f \in Files /\ p = Owner[f]
      /\ inode[p].eFileLock = NO /\ lock[f] = NO /\ os[p].pending = "read" /\ handle[f] \in {"open", "closing"}
      /\ call[p].step = "unpend" => os[p].shared # "none"
  <2>1. TypeOK /\ Local(p) /\ call[p].step \in {"unpend", "give up"}
    BY DEF IInv, DropPending
  <2>2. call[p] # NoCall
    <3>1. NoCall.step = "none"
      BY DEF NoCall
    <3> QED
      BY <2>1, <3>1
  <2>3. f \in Siblings(p) /\ f \in Files /\ p = Owner[f]
    BY <2>1, <2>2 DEF TypeOK, Siblings
  <2> QED
    BY <2>1, <2>2, <2>3 DEF Local, Calls
<1>r. /\ inode[p].nShared = 0 /\ inode[p].nLock = 0 /\ inode[p].pUnused = 0 /\ Cardinality(Readers(p)) = 0
      /\ \A g \in Siblings(p) : lock[g] = NO
  <2>1. Counts(p)
    BY <1>0 DEF Local
  <2>2. inode[p].nShared = 0 /\ inode[p].nLock = 0
    BY <1>0, <2>1 DEF Counts
  <2>3. inode[p].pUnused = 0
    <3>1. inode[p].pUnused \in Nat
      BY <1>0, InodeType
    <3>2. inode[p].pUnused > 0 => inode[p].nLock > 0
      BY <2>1 DEF Counts
    <3> QED
      BY <2>2, <3>1, <3>2
  <2>4. Cardinality(Readers(p)) \in Nat /\ Cardinality(Readers(p)) <= inode[p].nShared
    BY <2>1, FilesOfProcess DEF Counts
  <2>5. Cardinality(Readers(p)) = 0 /\ Cardinality(Readers(p)) <= 0
    BY <2>2, <2>4
  <2>6. \A g \in Siblings(p) : lock[g] = NO
    BY <1>0, <2>5, NoReader
  <2> QED
    BY <2>2, <2>3, <2>5, <2>6
<1>k. /\ CallType' /\ CallRange' /\ call'[p] = NoCall
      /\ \A q \in Processes \ {p} : call'[q] = call[q]
  <2>1. Return(p)
    BY DEF DropPending
  <2> QED
    BY <2>1, CallEnds
<1>h. handle' = handle /\ Calls(p)'
  BY <1>k DEF DropPending, Calls
<1>1. CASE /\ SetLock(p, "pending", "none") /\ UNCHANGED intact
           /\ lock' = [lock EXCEPT ![f] = SHARED]
           /\ InodeIs(p, [inode[p] EXCEPT !.nShared = 1, !.nLock = inode[p].nLock + 1, !.eFileLock = SHARED])
           /\ call[p].step = "unpend"
  <2>o. /\ os' \in [Processes -> [Bytes -> {"none", "read", "write"}]]
        /\ os'[p]["pending"] = "none" /\ \A x \in Bytes \ {"pending"} : os'[p][x] = os[p][x]
        /\ \A q \in Processes \ {p} : os'[q] = os[q]
    BY <1>0, <1>1, NewLock DEF Bytes
  <2>i. /\ inode' \in [Processes -> InodeRec]
        /\ inode'[p].nShared = 1 /\ inode'[p].nLock = 1
        /\ inode'[p].eFileLock = SHARED /\ inode'[p].nRef = inode[p].nRef /\ inode'[p].pUnused = 0
        /\ \A q \in Processes \ {p} : inode'[q] = inode[q]
    <3>1. inode' = [inode EXCEPT ![p] = [inode[p] EXCEPT !.nShared = 1, !.nLock = 1, !.eFileLock = SHARED]]
      BY <1>1, <1>r DEF InodeIs
    <3> DEFINE new == [inode[p] EXCEPT !.nShared = 1, !.nLock = 1, !.eFileLock = SHARED]
    <3>2. /\ new \in InodeRec /\ new.nShared = 1 /\ new.nLock = 1 /\ new.eFileLock = SHARED
          /\ new.nRef = inode[p].nRef /\ new.pUnused = inode[p].pUnused
      BY <1>0, InodeType, LevelRange DEF InodeRec
    <3> HIDE DEF new
    <3>3. PICK r \in InodeRec : r = new
      BY <3>2
    <3>4. inode' \in [Processes -> InodeRec] /\ inode'[p] = r /\ \A q \in Processes \ {p} : inode'[q] = inode[q]
      BY <1>0, <3>1, <3>3, NewInode DEF new
    <3> QED
      BY <1>r, <3>2, <3>3, <3>4
  <2>f. lock' \in [Files -> NO..EXCLUSIVE] /\ lock'[f] = SHARED /\ \A g \in Files \ {f} : lock'[g] = lock[g]
    BY <1>0, <1>1, NewFileLock, LevelRange
  <2>e. Elsewhere(p)
    BY <1>0, <1>h, <1>k, <2>o, <2>i, <2>f DEF Elsewhere
  <2>t. TypeOK'
    BY <1>0, <1>1, <1>h, <1>k, <2>o, <2>i, <2>f DEF TypeOK, CallRange, InodeRec
  <2>c. Counts(p)'
    <3>1. Cardinality(Readers(p)') = 1
      <4>1. Cardinality(Readers(p)') = Cardinality(Readers(p)) + 1
        <5>1. /\ TypeOK /\ f \in Files /\ p = Owner[f] /\ lock[f] = NO /\ lock'[f] = SHARED
              /\ \A g \in Files \ {f} : lock'[g] = lock[g]
          BY <1>0, <2>f
        <5>2. SHARED # NO
          BY DEF NO, SHARED
        <5> QED
          BY <2>t, <5>1, <5>2, ReadersChange
      <4> QED
        BY <1>r, <4>1
    <3>2. Opened(p)' = Opened(p)
      BY <1>h DEF Opened
    <3>3. Counts(p)
      BY <1>0 DEF Local
    <3> QED
      BY <2>i, <3>1, <3>2, <3>3 DEF Counts, NO, SHARED
  <2>l. Levels(p)' /\ Backed(p)' /\ Handles(p)'
    <3>1. \A g \in Siblings(p) : g \in Files /\ lock'[g] = IF g = f THEN SHARED ELSE NO
      BY <1>r, <2>f DEF Siblings
    <3>2. Levels(p)'
      BY <2>i, <3>1 DEF Levels, NO, SHARED, EXCLUSIVE
    <3>3. Backed(p)'
      <4>1. inode'[p].eFileLock = SHARED /\ os'[p]["shared"] # "none"
        BY <1>0, <1>1, <2>i, <2>o DEF Bytes
      <4> QED
        BY <4>1 DEF Backed, SHARED, PENDING
    <3>4. Handles(p)'
      BY <1>0, <1>h, <3>1 DEF Handles
    <3> QED
      BY <3>2, <3>3, <3>4
  <2>m. /\ intact' => intact
        /\ inode'[p].eFileLock # EXCLUSIVE
        /\ \A b \in Bytes : os'[p][b] = "none" \/ os'[p][b] = os[p][b]
        /\ os'[p]["shared"] = os[p]["shared"]
    BY <1>1, <2>i, <2>o DEF SHARED, EXCLUSIVE, Bytes
  <2>n. \A b \in Bytes : /\ os'[p][b] = "write" => os[p][b] = "write"
                         /\ os'[p][b] = "read" => os[p][b] # "none"
    BY <2>m
  <2> QED
    BY <1>0, <1>k, <1>h, <2>m, <2>n, <2>e, <2>t, <2>c, <2>l, StepKeeps DEF Local
<1>2. CASE /\ UNCHANGED << lock, inode >>
           /\ \/ SetLock(p, "pending", "none") /\ UNCHANGED intact
              \/ intact' = FALSE /\ UNCHANGED os
  <2>o. /\ os' \in [Processes -> [Bytes -> {"none", "read", "write"}]]
        /\ \A x \in Bytes : os'[p][x] = os[p][x] \/ os'[p][x] = "none"
        /\ \A q \in Processes \ {p} : os'[q] = os[q]
    <3>1. CASE SetLock(p, "pending", "none")
      <4>1. "pending" \in Bytes
        BY DEF Bytes
      <4>2. /\ os' \in [Processes -> [Bytes -> {"none", "read", "write"}]]
            /\ os'[p]["pending"] = "none"
            /\ \A x \in Bytes \ {"pending"} : os'[p][x] = os[p][x]
            /\ \A q \in Processes \ {p} : os'[q] = os[q]
        BY <1>0, <3>1, <4>1, NewLock
      <4> QED
        BY <4>2
    <3>2. CASE UNCHANGED os
      BY <1>0, <3>2 DEF TypeOK
    <3> QED
      BY <1>2, <3>1, <3>2
  <2>i. intact' \in BOOLEAN /\ (intact' => intact)
    <3>1. CASE UNCHANGED intact
      BY <1>0, <3>1 DEF TypeOK
    <3>2. CASE intact' = FALSE
      BY <3>2
    <3> QED
      BY <1>2, <3>1, <3>2
  <2>e. Elsewhere(p)
    BY <1>2, <1>h, <1>k, <2>o DEF Elsewhere
  <2>t. TypeOK'
    BY <1>0, <1>2, <1>h, <1>k, <2>o, <2>i DEF TypeOK, CallRange
  <2>c. Counts(p)' /\ Handles(p)'
    BY <1>0, <1>2, <1>h, <2>i, SameCounts DEF Local, Readers, Opened, Handles
  <2>l. Levels(p)' /\ Backed(p)'
    <3>1. inode'[p].eFileLock = NO /\ \A g \in Siblings(p) : lock'[g] = NO
      BY <1>0, <1>r, <1>2
    <3> QED
      BY <3>1 DEF Levels, Backed, NO, SHARED, PENDING, EXCLUSIVE
  <2> QED
    BY <1>0, <1>2, <1>k, <1>h, <2>o, <2>i, <2>e, <2>t, <2>c, <2>l, StepKeeps DEF Local, Bytes, NO, EXCLUSIVE
<1> QED
  BY <1>0, <1>1, <1>2 DEF DropPending

LEMMA RecordOfCall ==
  ASSUME NEW c, NEW step, NEW f, c = [step |-> step, file |-> f]
  PROVE  c.step = step /\ c.file = f
OBVIOUS

\* A call that is not about to leave is none of the second half of an unlock.
LEMMA CallIs ==
  ASSUME NEW p, NEW step, call[p] = NoCall \/ \E g : call[p] = [step |-> step, file |-> g], step # "leave"
  PROVE  \A g : call[p] # [step |-> "leave", file |-> g]
<1>1. NoCall.step = "none" /\ \A g, s : [step |-> s, file |-> g].step = s
  BY DEF NoCall
<1>2. call[p].step # "leave"
  <2>1. CASE call[p] = NoCall
    BY <1>1, <2>1
  <2>2. CASE \E g : call[p] = [step |-> step, file |-> g]
    <3>1. PICK g : call[p] = [step |-> step, file |-> g]
      BY <2>2
    <3> QED
      BY <3>1
  <2> QED
    BY <2>1, <2>2
<1> QED
  BY <1>1, <1>2

LEMMA IdleIs ==
  ASSUME NEW p, call[p] = NoCall
  PROVE  \A g : call[p] # [step |-> "leave", file |-> g]
<1>1. NoCall.step = "none"
  BY DEF NoCall
<1> SUFFICES ASSUME NEW g, call[p] = [step |-> "leave", file |-> g]
             PROVE  FALSE
  OBVIOUS
<1>2. call[p].step = "leave"
  BY RecordOfCall
<1> QED
  BY <1>1, <1>2

\* The file whose level is that of its inode is the only one above SHARED.
LEMMA NoneBesides ==
  ASSUME IInv, NEW f \in Files, NEW p, p = Owner[f], lock[f] = inode[p].eFileLock,
         \A g : call[p] # [step |-> "leave", file |-> g], NEW h \in Siblings(p), h # f
  PROVE  ~(lock[h] > SHARED)
<1>1. p \in Processes /\ f \in Siblings(p) /\ Levels(p)
  BY OwnerType DEF IInv, Local
<1> QED
  BY <1>1 DEF Levels

\* Some level becomes another one: the counts stay.
LEMMA LevelCounts ==
  ASSUME IInv, NEW f \in Files, NEW p, p = Owner[f], lock[f] # NO, lock'[f] # NO,
         \A g \in Files \ {f} : lock'[g] = lock[g], TypeOK', Opened(p)' = Opened(p), intact' => intact,
         inode'[p].nRef = inode[p].nRef, inode'[p].nShared = inode[p].nShared,
         inode'[p].nLock = inode[p].nLock, inode'[p].pUnused = inode[p].pUnused,
         inode'[p].eFileLock # NO
  PROVE  Counts(p)'
<1>1. p \in Processes /\ TypeOK /\ Counts(p)
  BY OwnerType DEF IInv, Local
<1>2. Readers(p)' = Readers(p)
  BY <1>1, ReadersChange
<1>3. inode[p].eFileLock # NO
  <2>1. lock[f] \in NO..EXCLUSIVE
    BY <1>1 DEF TypeOK
  <2>2. lock[f] > NO
    BY <2>1 DEF NO, EXCLUSIVE
  <2> QED
    BY <2>2, LockCounts
<1> QED
  BY <1>1, <1>2, <1>3, SameCounts

LEMMA ReserveKeeps ==
  ASSUME IInv, NEW f \in Files, NEW p, p = Owner[f], Reserve(f)
  PROVE  IInv'
<1>0. /\ p \in Processes /\ f \in Siblings(p) /\ TypeOK /\ Local(p) /\ CallType
      /\ lock[f] = SHARED /\ handle[f] = "open" /\ call[p] = NoCall
  BY LockCounts DEF IInv, Reserve, Free
<1>1. inode[p].eFileLock = SHARED
  BY <1>0 DEF Reserve, BusyInside, SHARED, RESERVED
<1>2. \A g \in Siblings(p) : g # f => ~(lock[g] > SHARED)
  BY <1>0, <1>1, IdleIs, NoneBesides
<1>o. /\ os' \in [Processes -> [Bytes -> {"none", "read", "write"}]]
      /\ os'[p]["reserved"] = "write" /\ \A x \in Bytes \ {"reserved"} : os'[p][x] = os[p][x]
      /\ \A q \in Processes \ {p} : os'[q] = os[q]
  BY <1>0, NewLock DEF Reserve, Bytes
<1>i. /\ inode' \in [Processes -> InodeRec] /\ inode'[p].eFileLock = RESERVED
      /\ inode'[p].nRef = inode[p].nRef /\ inode'[p].nShared = inode[p].nShared
      /\ inode'[p].nLock = inode[p].nLock /\ inode'[p].pUnused = inode[p].pUnused
      /\ \A q \in Processes \ {p} : inode'[q] = inode[q]
  <2>1. InodeIs(p, [inode[p] EXCEPT !.eFileLock = RESERVED])
    BY DEF Reserve
  <2> QED
    BY <1>0, <2>1, NewLevel, LevelRange
<1>f. lock' \in [Files -> NO..EXCLUSIVE] /\ lock'[f] = RESERVED /\ \A g \in Files \ {f} : lock'[g] = lock[g]
  <2>1. lock' = [lock EXCEPT ![f] = RESERVED]
    BY DEF Reserve
  <2> QED
    BY <1>0, <2>1, NewFileLock, LevelRange
<1>e. Elsewhere(p) /\ handle' = handle /\ call' = call /\ intact' = intact
  <2>1. handle' = handle /\ call' = call /\ intact' = intact
    BY DEF Reserve
  <2> QED
    BY <2>1, <1>o, <1>i, <1>f DEF Elsewhere
<1>t. TypeOK' /\ CallType'
  BY <1>0, <1>e, <1>o, <1>i, <1>f DEF TypeOK, CallType, InodeRec
<1>c. Counts(p)'
  <2>1. Opened(p)' = Opened(p)
    BY <1>e DEF Opened
  <2>2. lock[f] # NO /\ lock'[f] # NO /\ inode'[p].eFileLock # NO
    BY <1>0, <1>i, <1>f DEF NO, SHARED, RESERVED
  <2> QED
    BY <1>e, <1>i, <1>f, <1>t, <2>1, <2>2, LevelCounts
<1>l. Levels(p)'
  <2>1. \A g \in Siblings(p) : g # f => ~(lock'[g] > SHARED)
    BY <1>2, <1>f DEF Siblings
  <2>2. inode'[p].eFileLock = lock'[f] /\ inode'[p].eFileLock # EXCLUSIVE
    BY <1>i, <1>f DEF RESERVED, EXCLUSIVE
  <2> QED
    BY <2>1, <2>2 DEF Levels, Siblings
<1>b. Backed(p)'
  <2>1. os[p]["shared"] # "none"
    BY <1>0, <1>1 DEF Local, Backed, SHARED
  <2>2. os'[p]["shared"] # "none"
    BY <2>1, <1>o DEF Bytes
  <2> QED
    BY <2>2, <1>i DEF Backed, RESERVED, PENDING
<1>h. Handles(p)' /\ Calls(p)'
  <2>1. Handles(p)'
    BY <1>0, <1>e, <1>f DEF Local, Handles, Siblings
  <2> QED
    BY <1>0, <1>e, <2>1 DEF Calls
<1>g. Grantable(p, "reserved", "write")
  BY DEF Reserve
<1>m. /\ inode'[p].eFileLock # EXCLUSIVE
      /\ os'[p]["shared"] = os[p]["shared"]
      /\ \A b \in Bytes : b = "reserved" \/ os'[p][b] = os[p][b]
  BY <1>i, <1>o DEF RESERVED, EXCLUSIVE, Bytes
<1>n. \A b \in Bytes : /\ os'[p][b] = "write" => os[p][b] = "write" \/ Grantable(p, b, "write")
                       /\ os'[p][b] = "read" => os[p][b] # "none"
  BY <1>o, <1>g, <1>m
<1> QED
  BY <1>0, <1>e, <1>m, <1>n, <1>t, <1>c, <1>l, <1>b, <1>h, StepKeeps DEF Local

LEMMA WritePendingKeeps ==
  ASSUME IInv, NEW f \in Files, NEW p, p = Owner[f], WritePending(f)
  PROVE  IInv'
<1>0. /\ p \in Processes /\ f \in Siblings(p) /\ TypeOK /\ Local(p)
      /\ lock[f] \in {SHARED, RESERVED} /\ handle[f] = "open" /\ call[p] = NoCall
  BY LockCounts DEF IInv, WritePending, Free
<1>1. inode[p].eFileLock = lock[f]
  BY <1>0 DEF WritePending, BusyInside, SHARED, RESERVED, EXCLUSIVE
<1>o. /\ os' \in [Processes -> [Bytes -> {"none", "read", "write"}]]
      /\ os'[p]["pending"] = "write" /\ \A x \in Bytes \ {"pending"} : os'[p][x] = os[p][x]
      /\ \A q \in Processes \ {p} : os'[q] = os[q]
  BY <1>0, NewLock DEF WritePending, Bytes
<1>k. /\ CallType' /\ CallRange' /\ call'[p].step = "exclude" /\ call'[p].file = f
      /\ \A q \in Processes \ {p} : call'[q] = call[q]
  <2>1. Goto(p, f, "exclude") /\ "exclude" \in Steps \ {"none"} /\ f \in Siblings(p) /\ p \in Processes
    BY <1>0 DEF WritePending, Steps
  <2> QED
    BY <2>1, CallGoesOn
<1>e. Elsewhere(p) /\ handle' = handle /\ lock' = lock /\ inode' = inode /\ intact' = intact
  BY <1>o, <1>k DEF WritePending, Elsewhere
<1>t. TypeOK'
  BY <1>0, <1>e, <1>o, <1>k DEF TypeOK, CallRange
<1>c. Counts(p)' /\ Handles(p)'
  BY <1>0, <1>e, SameCounts DEF Local, Readers, Opened, Handles
<1>l. Levels(p)'
  <2>1. \A g : call[p] # [step |-> "leave", file |-> g]
    BY <1>0, IdleIs
  <2>2. Levels(p)
    BY <1>0 DEF Local
  <2> QED
    BY <1>e, <2>1, <2>2 DEF Levels
<1>b. Backed(p)'
  <2>1. os'[p]["shared"] = os[p]["shared"]
    BY <1>o DEF Bytes
  <2> QED
    BY <1>0, <1>e, <1>o, <2>1 DEF Local, Backed
<1>n. Calls(p)'
  BY <1>0, <1>1, <1>e, <1>o, <1>k DEF Calls
<1>g. Grantable(p, "pending", "write")
  BY DEF WritePending
<1>m. /\ os'[p]["shared"] = os[p]["shared"]
      /\ \A b \in Bytes : b = "pending" \/ os'[p][b] = os[p][b]
  BY <1>o DEF Bytes
<1>p. \A b \in Bytes : /\ os'[p][b] = "write" => os[p][b] = "write" \/ Grantable(p, b, "write")
                       /\ os'[p][b] = "read" => os[p][b] # "none"
  BY <1>o, <1>g, <1>m
<1> QED
  BY <1>0, <1>e, <1>k, <1>m, <1>p, <1>t, <1>c, <1>l, <1>b, <1>n, StepKeeps DEF Local

\* What unixLock knows when it asks for the shared range.
LEMMA ExcludeFrom ==
  ASSUME IInv, NEW f \in Files, NEW p, p = Owner[f], Exclude(f)
  PROVE  /\ lock[f] = inode[p].eFileLock /\ lock[f] \in {SHARED, RESERVED, PENDING}
         /\ os[p].pending = "write" /\ os[p].shared # "none" /\ handle[f] \in {"open", "closing"}
         /\ \A g \in Siblings(p) : g # f => ~(lock[g] > SHARED)
<1>0. p \in Processes /\ f \in Siblings(p) /\ Local(p)
  BY OwnerType DEF IInv
<1>1. CASE call[p] = [step |-> "exclude", file |-> f]
  <2>1. call[p].step = "exclude" /\ call[p].file = f
    BY <1>1
  <2>2. call[p] # NoCall
    BY <2>1 DEF NoCall
  <2>3. /\ lock[f] = inode[p].eFileLock /\ lock[f] \in {SHARED, RESERVED}
        /\ os[p].pending = "write" /\ handle[f] \in {"open", "closing"}
    BY <1>0, <2>1, <2>2 DEF Local, Calls
  <2>4. os[p].shared # "none"
    BY <1>0, <2>3 DEF Local, Backed, SHARED, RESERVED
  <2>5. \A g : call[p] # [step |-> "leave", file |-> g]
    BY <1>1
  <2>6. \A g \in Siblings(p) : g # f => ~(lock[g] > SHARED)
    BY <2>3, <2>5, NoneBesides
  <2> QED
    BY <2>3, <2>4, <2>6
<1>2. CASE Free(f) /\ lock[f] = PENDING /\ ~BusyInside(f, EXCLUSIVE)
  <2>1. call[p] = NoCall /\ handle[f] = "open"
    BY <1>2 DEF Free
  <2>2. lock[f] = inode[p].eFileLock
    BY <1>2 DEF BusyInside, SHARED, EXCLUSIVE
  <2>3. os[p].pending = "write" /\ os[p].shared # "none"
    BY <1>0, <1>2, <2>2 DEF Local, Backed, SHARED, PENDING
  <2>4. \A g : call[p] # [step |-> "leave", file |-> g]
    BY <2>1, IdleIs
  <2>5. \A g \in Siblings(p) : g # f => ~(lock[g] > SHARED)
    BY <2>2, <2>4, NoneBesides
  <2> QED
    BY <1>2, <2>1, <2>2, <2>3, <2>5
<1> QED
  BY <1>1, <1>2 DEF Exclude

LEMMA ExcludeKeeps ==
  ASSUME IInv, NEW f \in Files, NEW p, p = Owner[f], Exclude(f)
  PROVE  IInv'
<1>0. p \in Processes /\ f \in Siblings(p) /\ TypeOK /\ Local(p) /\ Return(p) /\ handle' = handle
  BY OwnerType DEF IInv, Exclude
<1>1. /\ lock[f] = inode[p].eFileLock /\ lock[f] \in {SHARED, RESERVED, PENDING}
      /\ os[p].pending = "write" /\ os[p].shared # "none" /\ handle[f] \in {"open", "closing"}
      /\ \A g \in Siblings(p) : g # f => ~(lock[g] > SHARED)
  BY ExcludeFrom
<1>2. lock[f] # NO /\ inode[p].eFileLock # EXCLUSIVE
  BY <1>1 DEF NO, SHARED, RESERVED, PENDING, EXCLUSIVE
<1>k. /\ CallType' /\ CallRange' /\ call'[p] = NoCall
      /\ \A q \in Processes \ {p} : call'[q] = call[q]
  BY <1>0, CallEnds
<1>n. Calls(p)'
  BY <1>k DEF Calls
<1>p. Opened(p)' = Opened(p)
  BY <1>0 DEF Opened
<1>a. ASSUME NEW level \in {PENDING, EXCLUSIVE}, lock' = [lock EXCEPT ![f] = level],
             InodeIs(p, [inode[p] EXCEPT !.eFileLock = level]), intact' \in BOOLEAN, intact' => intact,
             os' \in [Processes -> [Bytes -> {"none", "read", "write"}]],
             \A q \in Processes \ {p} : os'[q] = os[q],
             os'[p]["pending"] = "write", os'[p]["shared"] # "none",
             level = EXCLUSIVE =>
               inode[p].nShared = 1 /\ \A g \in Siblings(p) : g # f => lock[g] = NO
      PROVE  /\ Elsewhere(p) /\ TypeOK' /\ Counts(p)' /\ Levels(p)' /\ Backed(p)' /\ Handles(p)'
             /\ inode'[p].eFileLock = level
  <2>0. level \in NO..EXCLUSIVE /\ level # NO /\ level > SHARED
    BY <1>a DEF NO, SHARED, PENDING, EXCLUSIVE
  <2>i. /\ inode' \in [Processes -> InodeRec] /\ inode'[p].eFileLock = level
        /\ inode'[p].nRef = inode[p].nRef /\ inode'[p].nShared = inode[p].nShared
        /\ inode'[p].nLock = inode[p].nLock /\ inode'[p].pUnused = inode[p].pUnused
        /\ \A q \in Processes \ {p} : inode'[q] = inode[q]
    BY <1>0, <1>a, <2>0, NewLevel
  <2>f. lock' \in [Files -> NO..EXCLUSIVE] /\ lock'[f] = level /\ \A g \in Files \ {f} : lock'[g] = lock[g]
    BY <1>0, <1>a, <2>0, NewFileLock
  <2>g. \A g \in Siblings(p) : g # f => lock'[g] = lock[g]
    BY <2>f DEF Siblings
  <2>e. Elsewhere(p)
    BY <1>0, <1>k, <1>a, <2>i, <2>f DEF Elsewhere
  <2>t. TypeOK'
    BY <1>0, <1>k, <1>a, <2>i, <2>f DEF TypeOK, CallRange, InodeRec
  <2>c. Counts(p)'
    BY <1>2, <1>p, <1>a, <2>0, <2>i, <2>f, <2>t, LevelCounts
  <2>l. Levels(p)'
    <3>1. \A g \in Siblings(p) : g # f => ~(lock'[g] > SHARED)
      BY <1>1, <2>g
    <3>2. \A g \in Siblings(p) : lock'[g] > SHARED => inode'[p].eFileLock = lock'[g]
      BY <3>1, <2>i, <2>f
    <3>3. inode'[p].eFileLock = EXCLUSIVE =>
            inode'[p].nShared = 1 /\ \A g \in Siblings(p) : lock'[g] \in {NO, EXCLUSIVE}
      BY <1>a, <2>i, <2>f, <2>g
    <3> QED
      BY <3>1, <3>2, <3>3 DEF Levels
  <2>b. Backed(p)'
    BY <1>a DEF Backed
  <2>h. Handles(p)'
    <3>1. Handles(p)
      BY <1>0 DEF Local
    <3> QED
      BY <1>0, <1>1, <1>a, <2>g, <3>1 DEF Handles
  <2> QED
    BY <2>e, <2>t, <2>c, <2>l, <2>b, <2>h, <2>i
<1>3. CASE /\ lock' = [lock EXCEPT ![f] = PENDING] /\ InodeIs(p, [inode[p] EXCEPT !.eFileLock = PENDING])
           /\ UNCHANGED os /\ (UNCHANGED intact \/ intact' = FALSE)
  <2>1. intact' \in BOOLEAN /\ (intact' => intact)
    <3>1. CASE UNCHANGED intact
      BY <1>0, <3>1 DEF TypeOK
    <3>2. CASE intact' = FALSE
      BY <3>2
    <3> QED
      BY <1>3, <3>1, <3>2
  <2>2. PENDING # EXCLUSIVE
    BY DEF PENDING, EXCLUSIVE
  <2>3. os' = os /\ os' \in [Processes -> [Bytes -> {"none", "read", "write"}]]
    BY <1>0, <1>3 DEF TypeOK
  <2>4. /\ Elsewhere(p) /\ TypeOK' /\ Counts(p)' /\ Levels(p)' /\ Backed(p)' /\ Handles(p)'
        /\ inode'[p].eFileLock = PENDING
    BY <1>1, <1>3, <2>1, <2>2, <2>3, <1>a
  <2> QED
    BY <1>0, <1>k, <1>n, <2>1, <2>2, <2>3, <2>4, StepKeeps DEF Local
<1>4. CASE /\ inode[p].nShared <= 1 /\ Grantable(p, "shared", "write") /\ SetLock(p, "shared", "write")
           /\ lock' = [lock EXCEPT ![f] = EXCLUSIVE] /\ InodeIs(p, [inode[p] EXCEPT !.eFileLock = EXCLUSIVE])
           /\ UNCHANGED intact
  <2>1. intact' \in BOOLEAN /\ (intact' => intact)
    BY <1>0, <1>4 DEF TypeOK
  <2>o. /\ os' \in [Processes -> [Bytes -> {"none", "read", "write"}]]
        /\ os'[p]["shared"] = "write" /\ \A x \in Bytes \ {"shared"} : os'[p][x] = os[p][x]
        /\ \A q \in Processes \ {p} : os'[q] = os[q]
    BY <1>0, <1>4, NewLock DEF Bytes
  <2>2. os'[p]["pending"] = "write" /\ os'[p]["shared"] # "none"
    BY <1>1, <2>o DEF Bytes
  <2>3. lock[f] > NO
    BY <1>1 DEF NO, SHARED, RESERVED, PENDING
  <2>4. inode[p].nShared = 1
    BY <1>0, <1>4, <2>3, LockCounts, InodeType
  <2>5. \A g \in Siblings(p) : g # f => lock[g] = NO
    <3>1. Cardinality(Readers(p)) <= 1
      BY <1>0, <2>4 DEF Local, Counts
    <3> QED
      BY <1>0, <2>3, <3>1, SingleReader
  <2>6. /\ Elsewhere(p) /\ TypeOK' /\ Counts(p)' /\ Levels(p)' /\ Backed(p)' /\ Handles(p)'
        /\ inode'[p].eFileLock = EXCLUSIVE
    BY <1>4, <2>1, <2>o, <2>2, <2>4, <2>5, <1>a
  <2>7. \A b \in Bytes : b = "shared" \/ os'[p][b] = os[p][b]
    BY <2>o
  <2>8. \A b \in Bytes : /\ os'[p][b] = "write" => os[p][b] = "write" \/ Grantable(p, b, "write")
                         /\ os'[p][b] = "read" => os[p][b] # "none"
    BY <1>4, <2>o, <2>7
  <2> QED
    BY <1>0, <1>1, <1>4, <1>k, <1>n, <2>1, <2>6, <2>8, StepKeeps DEF Local
<1> QED
  <2>1. \/ inode[p].nShared > 1 /\ UNCHANGED << os, intact >>
        \/ inode[p].nShared <= 1 /\ Refused(p, "shared", "write") /\ UNCHANGED os
        => UNCHANGED os /\ (UNCHANGED intact \/ intact' = FALSE)
    BY DEF Refused
  <2> QED
    BY <1>3, <1>4, <2>1 DEF Exclude

-----------------------------------------------------------------------------
(* posixUnlock.                                                            *)

\* What is done to an fcntl that failed without a conflict.
LEMMA FaultOrNot ==
  ASSUME TypeOK, UNCHANGED intact \/ intact' = FALSE
  PROVE  intact' \in BOOLEAN /\ (intact' => intact)
<1>1. CASE UNCHANGED intact
  BY <1>1 DEF TypeOK
<1>2. CASE intact' = FALSE
  BY <1>2
<1> QED
  BY <1>1, <1>2

LEMMA DowngradeKeeps ==
  ASSUME IInv, NEW f \in Files, NEW p, p = Owner[f], Downgrade(f)
  PROVE  IInv'
<1>0. /\ p \in Processes /\ f \in Siblings(p) /\ TypeOK /\ CallType /\ Local(p)
      /\ lock[f] > SHARED /\ handle[f] = "open" /\ call[p] = NoCall
      /\ handle' = handle /\ lock' = lock /\ inode' = inode
  BY OwnerType DEF IInv, Downgrade, Free
<1>1. \A g : call[p] # [step |-> "leave", file |-> g]
  BY <1>0, IdleIs
<1>2. inode[p].eFileLock = lock[f]
  BY <1>0, <1>1 DEF Local, Levels
<1>3. os[p].shared # "none"
  <2>1. inode[p].eFileLock >= SHARED
    <3>1. lock[f] \in NO..EXCLUSIVE
      BY <1>0 DEF TypeOK
    <3> QED
      BY <1>0, <1>2, <3>1 DEF SHARED, NO, EXCLUSIVE
  <2> QED
    BY <1>0, <2>1 DEF Local, Backed
<1>l. Levels(p)'
  <2>1. Levels(p)
    BY <1>0 DEF Local
  <2> QED
    BY <1>0, <1>1, <2>1 DEF Levels
<1>a. intact' \in BOOLEAN /\ (intact' => intact)
  <2>1. UNCHANGED intact \/ intact' = FALSE
    BY DEF Downgrade
  <2> QED
    BY <1>0, <2>1, FaultOrNot
<1>c. Counts(p)' /\ Handles(p)'
  BY <1>0, <1>a, SameCounts DEF Local, Readers, Opened, Handles
<1>4. CASE SetLock(p, "shared", "read") /\ Goto(p, f, "to shared")
  <2>o. /\ os' \in [Processes -> [Bytes -> {"none", "read", "write"}]]
        /\ os'[p]["shared"] = "read" /\ \A x \in Bytes \ {"shared"} : os'[p][x] = os[p][x]
        /\ \A q \in Processes \ {p} : os'[q] = os[q]
    BY <1>0, <1>4, NewLock DEF Bytes
  <2>k. /\ CallType' /\ CallRange' /\ call'[p].step = "to shared" /\ call'[p].file = f
        /\ \A q \in Processes \ {p} : call'[q] = call[q]
    <3>1. PICK step \in Steps \ {"none"} : step = "to shared"
      BY DEF Steps
    <3>2. Goto(p, f, step) /\ f \in Siblings(p) /\ p \in Processes
      BY <1>0, <1>4, <3>1
    <3>3. /\ CallType' /\ CallRange' /\ call'[p].step = step /\ call'[p].file = f
          /\ \A q \in Processes \ {p} : call'[q] = call[q]
      BY <3>2, CallGoesOn
    <3> QED
      BY <3>1, <3>3
  <2>e. Elsewhere(p)
    BY <1>0, <2>o, <2>k DEF Elsewhere
  <2>t. TypeOK'
    BY <1>0, <1>a, <2>o, <2>k DEF TypeOK, CallRange
  <2>b. Backed(p)'
    <3>1. Backed(p) /\ os'[p]["pending"] = os[p]["pending"] /\ os'[p]["shared"] # "none"
      BY <1>0, <2>o DEF Local, Bytes
    <3> QED
      BY <1>0, <3>1 DEF Backed
  <2>n. Calls(p)'
    BY <1>0, <1>2, <2>k DEF Calls
  <2>m. \A b \in Bytes : b = "shared" \/ os'[p][b] = os[p][b]
    BY <2>o
  <2>p. \A b \in Bytes : /\ os'[p][b] = "write" => os[p][b] = "write"
                         /\ os'[p][b] = "read" => os[p][b] # "none"
    BY <1>3, <2>o, <2>m
  <2>l. Local(p)'
    BY <1>l, <1>c, <2>b, <2>n DEF Local
  <2>i. inode'[p] = inode[p] /\ CallType'
    BY <1>0, <2>k
  <2> QED
    BY <1>0, <1>3, <1>a, <2>l, <2>i, <2>e, <2>t, <2>p, StepKeeps
<1>5. CASE UNCHANGED << os, call >>
  <2>1. TypeOK' /\ CallType'
    BY <1>0, <1>5, <1>a DEF TypeOK, CallType
  <2>2. Backed(p)' /\ Calls(p)'
    BY <1>0, <1>5 DEF Local, Backed, Calls
  <2>3. Elsewhere(p)
    BY <1>0, <1>5 DEF Elsewhere
  <2> QED
    BY <1>0, <1>5, <1>a, <1>c, <1>l, <2>1, <2>2, <2>3, StepKeeps DEF Local
<1> QED
  BY <1>4, <1>5 DEF Downgrade

\* What posixUnlock knows when it gives pending and reserved byte back.
LEMMA UnreserveFrom ==
  ASSUME IInv, NEW f \in Files, NEW p, p = Owner[f], Unreserve(f)
  PROVE  /\ lock[f] = inode[p].eFileLock /\ lock[f] > SHARED
         /\ os[p].shared # "none" /\ handle[f] \in {"open", "closing"}
         /\ \A g : call[p] # [step |-> "leave", file |-> g]
         /\ \A g \in Siblings(p) : g # f => ~(lock[g] > SHARED)
<1>0. p \in Processes /\ f \in Siblings(p) /\ Local(p) /\ TypeOK
  BY OwnerType DEF IInv
<1>1. /\ lock[f] = inode[p].eFileLock /\ lock[f] > SHARED /\ handle[f] \in {"open", "closing"}
      /\ \A g : call[p] # [step |-> "leave", file |-> g]
  <2>1. CASE call[p] = [step |-> "to shared", file |-> f]
    <3>0. "to shared" # "leave" /\ "to shared" # "none"
      OBVIOUS
    <3>1. call[p].step = "to shared" /\ call[p].file = f
      BY <2>1, RecordOfCall
    <3>2. call[p] # NoCall
      <4>1. NoCall.step = "none"
        BY DEF NoCall
      <4> QED
        BY <3>0, <3>1, <4>1
    <3>3. lock[f] = inode[p].eFileLock /\ lock[f] > SHARED /\ handle[f] \in {"open", "closing"}
      BY <1>0, <3>0, <3>1, <3>2 DEF Local, Calls
    <3>4. \A g : call[p] # [step |-> "leave", file |-> g]
      BY <2>1, <3>0, CallIs
    <3> QED
      BY <3>3, <3>4
  <2>2. CASE call[p] = NoCall /\ lock[f] > SHARED /\ handle[f] \in {"open", "closing"}
    <3>1. \A g : call[p] # [step |-> "leave", file |-> g]
      BY <2>2, IdleIs
    <3>2. lock[f] = inode[p].eFileLock
      BY <1>0, <2>2, <3>1 DEF Local, Levels
    <3> QED
      BY <2>2, <3>1, <3>2
  <2> QED
    BY <2>1, <2>2 DEF Unreserve
<1>2. inode[p].eFileLock >= SHARED
  <2>1. lock[f] \in NO..EXCLUSIVE
    BY <1>0 DEF TypeOK
  <2> QED
    BY <1>1, <2>1 DEF SHARED, NO, EXCLUSIVE
<1>3. os[p].shared # "none"
  BY <1>0, <1>2 DEF Local, Backed
<1>4. \A g \in Siblings(p) : g # f => ~(lock[g] > SHARED)
  BY <1>1, NoneBesides
<1> QED
  BY <1>1, <1>3, <1>4

LEMMA UnreserveKeeps ==
  ASSUME IInv, NEW f \in Files, NEW p, p = Owner[f], Unreserve(f)
  PROVE  IInv'
<1>0. p \in Processes /\ f \in Siblings(p) /\ TypeOK /\ Local(p)
  BY OwnerType DEF IInv
<1>1. /\ lock[f] = inode[p].eFileLock /\ lock[f] > SHARED
      /\ os[p].shared # "none" /\ handle[f] \in {"open", "closing"}
      /\ \A g : call[p] # [step |-> "leave", file |-> g]
      /\ \A g \in Siblings(p) : g # f => ~(lock[g] > SHARED)
  BY UnreserveFrom
<1>2. lock[f] # NO /\ SHARED # NO /\ SHARED # EXCLUSIVE /\ ~(SHARED > SHARED) /\ ~(SHARED >= PENDING)
  BY <1>1 DEF NO, SHARED, PENDING, EXCLUSIVE
<1>3. CASE /\ os' = [os EXCEPT ![p].pending = "none", ![p].reserved = "none"]
           /\ InodeIs(p, [inode[p] EXCEPT !.eFileLock = SHARED])
           /\ UNCHANGED << handle, intact >>
           /\ \/ Goto(p, f, "leave") /\ UNCHANGED lock
              \/ Return(p) /\ lock' = [lock EXCEPT ![f] = SHARED]
  <2>o. /\ os' \in [Processes -> [Bytes -> {"none", "read", "write"}]]
        /\ os'[p]["shared"] = os[p]["shared"]
        /\ \A b \in Bytes : os'[p][b] = "none" \/ os'[p][b] = os[p][b]
        /\ \A q \in Processes \ {p} : os'[q] = os[q]
    <3>1. os \in [Processes -> [Bytes -> {"none", "read", "write"}]]
      BY <1>0 DEF TypeOK
    <3>2. PICK locks \in [Bytes -> {"none", "read", "write"}] :
            locks = [os[p] EXCEPT !.pending = "none", !.reserved = "none"]
      BY <1>0, <3>1 DEF Bytes
    <3>3. os' = [os EXCEPT ![p] = locks]
      BY <1>0, <1>3, <3>1, <3>2
    <3>4. /\ locks["shared"] = os[p]["shared"]
          /\ \A b \in Bytes : locks[b] = "none" \/ locks[b] = os[p][b]
      BY <1>0, <3>1, <3>2 DEF Bytes
    <3> QED
      BY <1>0, <3>1, <3>3, <3>4
  <2>i. /\ inode' \in [Processes -> InodeRec] /\ inode'[p].eFileLock = SHARED
        /\ inode'[p].nRef = inode[p].nRef /\ inode'[p].nShared = inode[p].nShared
        /\ inode'[p].nLock = inode[p].nLock /\ inode'[p].pUnused = inode[p].pUnused
        /\ \A q \in Processes \ {p} : inode'[q] = inode[q]
    BY <1>0, <1>3, NewLevel, LevelRange
  <2>f. /\ lock' \in [Files -> NO..EXCLUSIVE] /\ lock'[f] # NO
        /\ \A g \in Files \ {f} : lock'[g] = lock[g]
    <3>1. CASE UNCHANGED lock
      BY <1>0, <1>2, <3>1 DEF TypeOK
    <3>2. CASE lock' = [lock EXCEPT ![f] = SHARED]
      BY <1>0, <1>2, <3>2, NewFileLock, LevelRange
    <3> QED
      BY <1>3, <3>1, <3>2
  <2>k. CallType' /\ CallRange' /\ \A q \in Processes \ {p} : call'[q] = call[q]
    <3>1. CASE Goto(p, f, "leave")
      <4>1. Goto(p, f, "leave") /\ "leave" \in Steps \ {"none"} /\ f \in Siblings(p) /\ p \in Processes
        BY <1>0, <3>1 DEF Steps
      <4> QED
        BY <4>1, CallGoesOn
    <3>2. CASE Return(p)
      BY <1>0, <3>2, CallEnds
    <3> QED
      BY <1>3, <3>1, <3>2
  <2>g. \A g \in Siblings(p) : g # f => ~(lock'[g] > SHARED)
    BY <1>1, <2>f DEF Siblings
  <2>m. Levels(p)' /\ Calls(p)'
    <3>1. CASE Goto(p, f, "leave") /\ UNCHANGED lock
      <4>1. call'[p] = [step |-> "leave", file |-> f]
        BY <1>0, <3>1 DEF Goto, IInv, CallType
      <4>2. call'[p].step = "leave" /\ call'[p].file = f
        BY <4>1
      <4>3. Levels(p)'
        BY <1>2, <2>g, <2>i, <4>1 DEF Levels
      <4>4. Calls(p)'
        BY <1>1, <1>3, <2>i, <3>1, <4>2 DEF Calls
      <4> QED
        BY <4>3, <4>4
    <3>2. CASE Return(p) /\ lock' = [lock EXCEPT ![f] = SHARED]
      <4>1. call'[p] = NoCall
        BY <1>0, <3>2, CallEnds
      <4>2. lock'[f] = SHARED
        BY <1>0, <3>2, NewFileLock, LevelRange
      <4>3. \A g \in Siblings(p) : ~(lock'[g] > SHARED)
        BY <1>2, <2>g, <4>2
      <4> QED
        BY <1>2, <2>i, <4>1, <4>3 DEF Levels, Calls
    <3> QED
      BY <1>3, <3>1, <3>2
  <2>e. Elsewhere(p)
    BY <1>3, <2>o, <2>i, <2>f, <2>k DEF Elsewhere
  <2>t. TypeOK'
    BY <1>0, <1>3, <2>o, <2>i, <2>f, <2>k DEF TypeOK, CallRange, InodeRec
  <2>c. Counts(p)'
    <3>1. Opened(p)' = Opened(p) /\ (intact' => intact) /\ inode'[p].eFileLock # NO
      BY <1>2, <1>3, <2>i DEF Opened
    <3> QED
      BY <1>2, <2>i, <2>f, <2>t, <3>1, LevelCounts
  <2>b. Backed(p)'
    BY <1>1, <1>2, <2>o, <2>i DEF Backed
  <2>h. Handles(p)'
    <3>1. Handles(p) /\ handle' = handle /\ intact' = intact
      BY <1>0, <1>3 DEF Local
    <3>2. \A g \in Siblings(p) : g # f => lock'[g] = lock[g]
      BY <2>f DEF Siblings
    <3> QED
      BY <1>1, <3>1, <3>2 DEF Handles
  <2>n. \A b \in Bytes : /\ os'[p][b] = "write" => os[p][b] = "write"
                         /\ os'[p][b] = "read" => os[p][b] # "none"
    BY <2>o
  <2>p. (intact' => intact) /\ inode'[p].eFileLock # EXCLUSIVE
    BY <1>2, <1>3, <2>i
  <2> QED
    BY <1>0, <1>1, <2>e, <2>k, <2>t, <2>c, <2>m, <2>b, <2>h, <2>n, <2>p, StepKeeps DEF Local
<1>4. CASE /\ intact' = FALSE /\ Return(p) /\ UNCHANGED << lock, inode, os >>
           /\ handle' = [handle EXCEPT ![f] = IF @ = "closing" THEN "unlocked" ELSE @]
  <2>k. /\ CallType' /\ CallRange' /\ call'[p] = NoCall
        /\ \A q \in Processes \ {p} : call'[q] = call[q]
    BY <1>0, <1>4, CallEnds
  <2>h. /\ handle' \in [Files -> {"closed", "opening", "open", "closing", "unlocked"}]
        /\ handle'[f] \in {"open", "unlocked"} /\ \A g \in Files \ {f} : handle'[g] = handle[g]
    BY <1>0, <1>1, <1>4 DEF TypeOK
  <2>e. Elsewhere(p)
    BY <1>4, <2>k, <2>h DEF Elsewhere
  <2>t. TypeOK'
    BY <1>0, <1>4, <2>h, <2>k DEF TypeOK, CallRange
  <2>c. Counts(p)'
    <3>1. Opened(p)' = Opened(p)
      BY <1>1, <2>h, OpenedChange DEF Up
    <3>2. Readers(p)' = Readers(p)
      BY <1>4 DEF Readers
    <3> QED
      BY <1>0, <1>4, <3>1, <3>2, SameCounts DEF Local
  <2>l. Levels(p)' /\ Backed(p)' /\ Calls(p)'
    <3>1. Levels(p) /\ Backed(p)
      BY <1>0 DEF Local
    <3> QED
      BY <1>1, <1>4, <2>k, <3>1 DEF Levels, Backed, Calls
  <2>n. Handles(p)'
    <3>1. Handles(p)
      BY <1>0 DEF Local
    <3>2. \A g \in Siblings(p) : g # f => handle'[g] = handle[g]
      BY <2>h DEF Siblings
    <3> QED
      BY <1>4, <2>h, <3>1, <3>2 DEF Handles
  <2> QED
    BY <1>0, <1>4, <2>e, <2>k, <2>t, <2>c, <2>l, <2>n, StepKeeps DEF Local
<1> QED
  BY <1>3, <1>4 DEF Unreserve

\* What posixUnlock knows when a file gives up its last lock.
LEMMA LeaveFrom ==
  ASSUME IInv, NEW f \in Files, NEW p, p = Owner[f], Leave(f)
  PROVE  /\ lock[f] # NO /\ inode[p].eFileLock # EXCLUSIVE /\ handle[f] \in {"open", "closing"}
         /\ inode[p].nShared > 0 /\ inode[p].nLock = inode[p].nShared /\ inode[p].eFileLock # NO
         /\ \A g \in Siblings(p) : g # f /\ lock[g] > SHARED => inode[p].eFileLock = lock[g]
<1>0. p \in Processes /\ f \in Siblings(p) /\ Local(p) /\ TypeOK
  BY OwnerType DEF IInv
<1>l. /\ \A g \in Siblings(p) :
           lock[g] > SHARED =>
             \/ inode[p].eFileLock = lock[g]
             \/ inode[p].eFileLock = SHARED /\ call[p] = [step |-> "leave", file |-> g]
      /\ inode[p].eFileLock = EXCLUSIVE => lock[f] \in {NO, EXCLUSIVE}
      /\ \A g, h \in Siblings(p) : lock[g] > SHARED /\ lock[h] > SHARED => g = h
  BY <1>0 DEF Local, Levels
<1>1. CASE call[p] = [step |-> "leave", file |-> f]
  <2>1. call[p].step = "leave" /\ call[p].file = f
    BY <1>1, RecordOfCall
  <2>2. call[p] # NoCall
    BY <2>1 DEF NoCall
  <2>3. lock[f] > SHARED /\ inode[p].eFileLock = SHARED /\ handle[f] \in {"open", "closing"}
    BY <1>0, <2>1, <2>2 DEF Local, Calls
  <2>4. lock[f] # NO /\ lock[f] > NO /\ inode[p].eFileLock # EXCLUSIVE
    <3>1. lock[f] \in NO..EXCLUSIVE
      BY <1>0 DEF TypeOK
    <3> QED
      BY <2>3, <3>1 DEF NO, SHARED, EXCLUSIVE
  <2>5. \A g \in Siblings(p) : g # f => ~(lock[g] > SHARED)
    BY <1>0, <1>l, <2>3
  <2> QED
    BY <1>0, <2>3, <2>4, <2>5, LockCounts DEF Local, Counts
<1>2. CASE call[p] = NoCall /\ lock[f] = SHARED /\ handle[f] \in {"open", "closing"}
  <2>1. lock[f] # NO /\ lock[f] > NO /\ inode[p].eFileLock # EXCLUSIVE
    <3>1. lock[f] # NO /\ lock[f] > NO /\ lock[f] # EXCLUSIVE
      BY <1>2 DEF NO, SHARED, EXCLUSIVE
    <3> QED
      BY <1>l, <3>1
  <2>2. \A g : call[p] # [step |-> "leave", file |-> g]
    BY <1>2, IdleIs
  <2>3. \A g \in Siblings(p) : lock[g] > SHARED => inode[p].eFileLock = lock[g]
    BY <1>l, <2>2
  <2> QED
    BY <1>0, <1>2, <2>1, <2>3, LockCounts DEF Local, Counts
<1> QED
  BY <1>1, <1>2 DEF Leave

\* What posixUnlock does when a file gives up its last lock.
LEMMA LeaveEffect ==
  ASSUME IInv, NEW f \in Files, NEW p, p = Owner[f], Leave(f)
  PROVE  \E left \in Nat :
           /\ left = inode[p].nShared - 1
           /\ inode' \in [Processes -> InodeRec] /\ inode'[p].nShared = left /\ inode'[p].nLock = left
           /\ inode'[p].nRef = inode[p].nRef
           /\ inode'[p].eFileLock = IF left = 0 THEN NO ELSE inode[p].eFileLock
           /\ inode'[p].pUnused = IF left = 0 THEN 0 ELSE inode[p].pUnused
           /\ \A q \in Processes \ {p} : inode'[q] = inode[q]
           /\ os' \in [Processes -> [Bytes -> {"none", "read", "write"}]]
           /\ \A q \in Processes \ {p} : os'[q] = os[q]
           /\ \A b \in Bytes : os'[p][b] = "none" \/ os'[p][b] = os[p][b]
           /\ left # 0 => os'[p] = os[p]
           /\ left = 0 /\ intact' => os'[p] = NoLocks
           /\ left = 0 => \A g \in Siblings(p) : g # f => lock[g] = NO
<1>0. p \in Processes /\ f \in Siblings(p) /\ TypeOK /\ Local(p)
  BY OwnerType DEF IInv
<1>1. /\ lock[f] # NO /\ inode[p].eFileLock # EXCLUSIVE /\ handle[f] \in {"open", "closing"}
      /\ inode[p].nShared > 0 /\ inode[p].nLock = inode[p].nShared /\ inode[p].eFileLock # NO
      /\ \A g \in Siblings(p) : g # f /\ lock[g] > SHARED => inode[p].eFileLock = lock[g]
  BY LeaveFrom
<1>n. PICK left \in Nat : left = inode[p].nShared - 1
  BY <1>0, <1>1, InodeType
<1>i. /\ inode' \in [Processes -> InodeRec] /\ inode'[p].nShared = left /\ inode'[p].nLock = left
      /\ inode'[p].nRef = inode[p].nRef
      /\ inode'[p].eFileLock = IF left = 0 THEN NO ELSE inode[p].eFileLock
      /\ inode'[p].pUnused = IF left = 0 THEN 0 ELSE inode[p].pUnused
      /\ \A q \in Processes \ {p} : inode'[q] = inode[q]
  <2>1. PICK level \in NO..EXCLUSIVE : level = IF left = 0 THEN NO ELSE inode[p].eFileLock
    BY <1>0, InodeType, LevelRange
  <2>2. PICK u \in Nat : u = IF left = 0 THEN 0 ELSE inode[p].pUnused
    BY <1>0, InodeType
  <2>3. inode[p].nLock - 1 = left
    BY <1>1, <1>n
  <2>4. inode' = [inode EXCEPT ![p] = [inode[p] EXCEPT !.nShared = left, !.nLock = left,
                                                        !.eFileLock = level, !.pUnused = u]]
    BY <1>0, <1>n, <2>1, <2>2, <2>3, InodeType DEF Leave, InodeIs, InodeRec
  <2> DEFINE new == [inode[p] EXCEPT !.nShared = left, !.nLock = left, !.eFileLock = level, !.pUnused = u]
  <2>5. /\ new \in InodeRec
        /\ new.nShared = left /\ new.nLock = left /\ new.eFileLock = level /\ new.pUnused = u
        /\ new.nRef = inode[p].nRef
    BY <1>0, InodeType DEF InodeRec
  <2>6. inode' = [inode EXCEPT ![p] = new]
    BY <2>4
  <2> HIDE DEF new
  <2>7. PICK r \in InodeRec : r = new
    BY <2>5
  <2>8. inode' \in [Processes -> InodeRec] /\ inode'[p] = r /\ \A q \in Processes \ {p} : inode'[q] = inode[q]
    BY <1>0, <2>6, <2>7, NewInode
  <2> QED
    BY <2>1, <2>2, <2>5, <2>7, <2>8
<1>o. /\ os' = [os EXCEPT ![p] = os[p]] \/ os' = [os EXCEPT ![p] = NoLocks]
      /\ left # 0 => os' = [os EXCEPT ![p] = os[p]]
      /\ left = 0 /\ intact' => os' = [os EXCEPT ![p] = NoLocks]
  <2>1. inode[p].nLock - 1 = left /\ inode[p].nShared - 1 = left
    BY <1>1, <1>n
  <2>2. CASE os' = [os EXCEPT ![p] = IF left = 0 \/ (left = 0 /\ inode[p].pUnused > 0) THEN NoLocks ELSE @]
    BY <2>2
  <2>3. CASE left = 0 /\ intact' = FALSE /\ os' = [os EXCEPT ![p] = IF left = 0 /\ inode[p].pUnused > 0 THEN NoLocks ELSE @]
    BY <2>3
  <2> QED
    BY <2>1, <2>2, <2>3 DEF Leave
<1>p. /\ os' \in [Processes -> [Bytes -> {"none", "read", "write"}]]
      /\ \A q \in Processes \ {p} : os'[q] = os[q]
      /\ \A b \in Bytes : os'[p][b] = "none" \/ os'[p][b] = os[p][b]
      /\ left # 0 => os'[p] = os[p]
      /\ left = 0 /\ intact' => os'[p] = NoLocks
  <2>1. NoLocks \in [Bytes -> {"none", "read", "write"}] /\ \A b \in Bytes : NoLocks[b] = "none"
    BY DEF NoLocks
  <2>2. PICK locks \in [Bytes -> {"none", "read", "write"}] :
          /\ os' = [os EXCEPT ![p] = locks] /\ (locks = os[p] \/ locks = NoLocks)
          /\ left # 0 => locks = os[p]
          /\ left = 0 /\ intact' => locks = NoLocks
    BY <1>0, <1>o, <2>1 DEF TypeOK
  <2>3. os' \in [Processes -> [Bytes -> {"none", "read", "write"}]] /\ os'[p] = locks
    BY <1>0, <2>2 DEF TypeOK
  <2>4. \A q \in Processes \ {p} : os'[q] = os[q]
    BY <1>0, <2>2 DEF TypeOK
  <2> QED
    BY <2>1, <2>2, <2>3, <2>4
<1>s. left = 0 => \A g \in Siblings(p) : g # f => lock[g] = NO
  <2> HAVE left = 0
  <2>1. inode[p].nShared = 1
    BY <1>0, <1>n, InodeType
  <2>2. Cardinality(Readers(p)) <= 1
    BY <1>0, <2>1 DEF Local, Counts
  <2>3. lock[f] > NO
    <3>1. lock[f] \in NO..EXCLUSIVE
      BY <1>0 DEF TypeOK
    <3> QED
      BY <1>1, <3>1 DEF NO, EXCLUSIVE
  <2> QED
    BY <1>0, <2>2, <2>3, SingleReader
<1> QED
  BY <1>n, <1>i, <1>p, <1>s

LEMMA LeaveKeeps ==
  ASSUME IInv, NEW f \in Files, NEW p, p = Owner[f], Leave(f)
  PROVE  IInv'
<1>0. p \in Processes /\ f \in Siblings(p) /\ TypeOK /\ Local(p)
  BY OwnerType DEF IInv
<1>1. /\ lock[f] # NO /\ inode[p].eFileLock # EXCLUSIVE /\ handle[f] \in {"open", "closing"}
      /\ inode[p].nShared > 0 /\ inode[p].nLock = inode[p].nShared /\ inode[p].eFileLock # NO
      /\ \A g \in Siblings(p) : g # f /\ lock[g] > SHARED => inode[p].eFileLock = lock[g]
  BY LeaveFrom
<1>n. PICK left \in Nat :
        /\ left = inode[p].nShared - 1
        /\ inode' \in [Processes -> InodeRec] /\ inode'[p].nShared = left /\ inode'[p].nLock = left
        /\ inode'[p].nRef = inode[p].nRef
        /\ inode'[p].eFileLock = IF left = 0 THEN NO ELSE inode[p].eFileLock
        /\ inode'[p].pUnused = IF left = 0 THEN 0 ELSE inode[p].pUnused
        /\ \A q \in Processes \ {p} : inode'[q] = inode[q]
        /\ os' \in [Processes -> [Bytes -> {"none", "read", "write"}]]
        /\ \A q \in Processes \ {p} : os'[q] = os[q]
        /\ \A b \in Bytes : os'[p][b] = "none" \/ os'[p][b] = os[p][b]
        /\ left # 0 => os'[p] = os[p]
        /\ left = 0 => \A g \in Siblings(p) : g # f => lock[g] = NO
  BY LeaveEffect
<1>f. lock' \in [Files -> NO..EXCLUSIVE] /\ lock'[f] = NO /\ \A g \in Files \ {f} : lock'[g] = lock[g]
  <2>1. lock' = [lock EXCEPT ![f] = NO]
    BY DEF Leave
  <2> QED
    BY <1>0, <2>1, NewFileLock, LevelRange
<1>h. /\ handle' \in [Files -> {"closed", "opening", "open", "closing", "unlocked"}]
      /\ handle'[f] \in {"open", "unlocked"} /\ \A g \in Files \ {f} : handle'[g] = handle[g]
  <2>1. handle' = [handle EXCEPT ![f] = IF @ = "closing" THEN "unlocked" ELSE @]
    BY DEF Leave
  <2> QED
    BY <1>0, <1>1, <2>1 DEF TypeOK
<1>k. /\ CallType' /\ CallRange' /\ call'[p] = NoCall
      /\ \A q \in Processes \ {p} : call'[q] = call[q]
  <2>1. Return(p)
    BY DEF Leave
  <2> QED
    BY <1>0, <2>1, CallEnds
<1>a. intact' \in BOOLEAN /\ (intact' => intact)
  <2>1. UNCHANGED intact \/ intact' = FALSE
    BY DEF Leave
  <2> QED
    BY <1>0, <2>1, FaultOrNot
<1>e. Elsewhere(p)
  BY <1>n, <1>f, <1>h, <1>k DEF Elsewhere
<1>t. TypeOK'
  BY <1>a, <1>n, <1>f, <1>h, <1>k DEF TypeOK, CallRange, InodeRec
<1>r. Cardinality(Readers(p)') = Cardinality(Readers(p)) - 1
  BY <1>0, <1>1, <1>f, <1>t, ReadersChange
<1>c. Counts(p)'
  <2>1. Opened(p)' = Opened(p)
    BY <1>1, <1>h, OpenedChange DEF Up
  <2>2. /\ Cardinality(Readers(p)) <= inode[p].nShared /\ inode[p].nRef = Cardinality(Opened(p))
        /\ intact => inode[p].nShared = Cardinality(Readers(p))
        /\ inode[p].pUnused > 0 => inode[p].nLock > 0
    BY <1>0 DEF Local, Counts
  <2>3. Cardinality(Readers(p)) \in Nat /\ inode[p].nShared \in Nat
    BY <1>0, FilesOfProcess, InodeType
  <2>4. Cardinality(Readers(p)') <= left /\ (intact' => left = Cardinality(Readers(p)'))
    BY <1>a, <1>n, <1>r, <2>2, <2>3
  <2>5. (inode'[p].eFileLock = NO <=> left = 0) /\ (inode'[p].pUnused > 0 => left > 0)
    <3>1. inode'[p].eFileLock = NO <=> left = 0
      BY <1>1, <1>n
    <3>2. left = 0 => inode'[p].pUnused = 0
      BY <1>n
    <3> QED
      BY <3>1, <3>2
  <2> QED
    BY <1>n, <2>1, <2>2, <2>4, <2>5 DEF Counts
<1>g. \A g \in Siblings(p) : g # f => lock'[g] = lock[g] /\ handle'[g] = handle[g]
  BY <1>f, <1>h DEF Siblings
<1>m. ~(NO > SHARED) /\ NO # EXCLUSIVE /\ ~(NO >= SHARED) /\ ~(NO >= PENDING)
  BY DEF NO, SHARED, PENDING, EXCLUSIVE
<1>l. Levels(p)'
  <2>1. \A g \in Siblings(p) : lock'[g] > SHARED => g # f /\ left # 0 /\ inode'[p].eFileLock = lock'[g]
    BY <1>1, <1>f, <1>g, <1>n, <1>m
  <2>2. \A g, h \in Siblings(p) : lock'[g] > SHARED /\ lock'[h] > SHARED => g = h
    <3>1. \A g, h \in Siblings(p) : lock[g] > SHARED /\ lock[h] > SHARED => g = h
      BY <1>0 DEF Local, Levels
    <3> QED
      BY <1>g, <2>1, <3>1
  <2>3. inode'[p].eFileLock # EXCLUSIVE
    BY <1>1, <1>n, <1>m
  <2> QED
    BY <2>1, <2>2, <2>3 DEF Levels
<1>b. Backed(p)'
  <2>1. Backed(p)
    BY <1>0 DEF Local
  <2> QED
    BY <1>n, <1>m, <2>1 DEF Backed
<1>d. Handles(p)' /\ Calls(p)'
  <2>1. Handles(p)
    BY <1>0 DEF Local
  <2>2. Handles(p)'
    BY <1>a, <1>f, <1>g, <2>1 DEF Handles
  <2> QED
    BY <1>k, <2>2 DEF Calls
<1>u. /\ inode'[p].eFileLock # EXCLUSIVE
      /\ os'[p]["shared"] # "none" => os[p]["shared"] # "none"
      /\ \A b \in Bytes : /\ os'[p][b] = "write" => os[p][b] = "write"
                          /\ os'[p][b] = "read" => os[p][b] # "none"
  BY <1>1, <1>n, <1>m DEF Bytes
<1> QED
  BY <1>0, <1>a, <1>e, <1>k, <1>t, <1>c, <1>l, <1>b, <1>d, <1>u, StepKeeps DEF Local

-----------------------------------------------------------------------------
(* The whole.                                                              *)

LEMMA InitKeeps ==
  ASSUME Init
  PROVE  IInv
<1>1. /\ \A p \in Processes : inode[p] = NoInode /\ os[p] = NoLocks /\ call[p] = NoCall
      /\ \A f \in Files : handle[f] = "closed" /\ lock[f] = NO
  BY DEF Init
<1>2. TypeOK /\ CallType
  BY <1>1 DEF Init, TypeOK, CallType, NoInode, NoLocks, NO, EXCLUSIVE
<1>3. Posix /\ ExclusiveInside
  BY <1>1 DEF Posix, ExclusiveInside, NoLocks, NoInode, NO, EXCLUSIVE
<1>4. ASSUME NEW p \in Processes
      PROVE  Local(p)
  <2>1. \A f \in Siblings(p) : handle[f] = "closed" /\ lock[f] = NO
    BY <1>1 DEF Siblings
  <2>2. Readers(p) = {} /\ Opened(p) = {}
    BY <2>1 DEF Readers, Opened, NO
  <2>3. inode[p] = NoInode /\ call[p] = NoCall
    BY <1>1, <1>4
  <2>4. Counts(p)
    BY <2>2, <2>3, FS_EmptySet DEF Counts, NoInode
  <2>5. Levels(p) /\ Backed(p) /\ Handles(p) /\ Calls(p)
    BY <2>1, <2>3 DEF Levels, Backed, Handles, Calls, NoInode, NO, SHARED, PENDING, EXCLUSIVE
  <2> QED
    BY <2>4, <2>5 DEF Local
<1> QED
  BY <1>2, <1>3, <1>4 DEF IInv

LEMMA NextKeeps ==
  ASSUME IInv, [Next]_vars
  PROVE  IInv'
<1>1. ASSUME NEW f \in Files,
             \/ OpenFd(f) \/ FindInode(f) \/ OpenFails(f) \/ BeginClose(f) \/ EndClose(f)
             \/ ShareInside(f) \/ ReadPending(f) \/ Reserve(f) \/ WritePending(f) \/ Exclude(f)
             \/ Downgrade(f) \/ Unreserve(f) \/ Leave(f)
      PROVE  IInv'
  BY <1>1, OpenFdKeeps, FindInodeKeeps, OpenFailsKeeps, BeginCloseKeeps, EndCloseKeeps, ShareInsideKeeps,
     ReadPendingKeeps, ReserveKeeps, WritePendingKeeps, ExcludeKeeps, DowngradeKeeps,
     UnreserveKeeps, LeaveKeeps
<1>2. ASSUME NEW p \in Processes, ReadShared(p) \/ DropPending(p) \/ Die(p)
      PROVE  IInv'
  BY <1>2, ReadSharedKeeps, DropPendingKeeps, DieKeeps
<1>3. CASE UNCHANGED vars
  <2>1. /\ TypeOK' /\ CallType' /\ Posix' /\ ExclusiveInside'
    BY <1>3 DEF IInv, vars, TypeOK, CallType, Posix, ExclusiveInside
  <2>2. \A p \in Processes : Readers(p)' = Readers(p) /\ Opened(p)' = Opened(p)
    BY <1>3 DEF vars, Readers, Opened
  <2>3. ASSUME NEW p \in Processes
        PROVE  Local(p)'
    <3>1. Counts(p) /\ Levels(p) /\ Backed(p) /\ Handles(p) /\ Calls(p)
      BY DEF IInv, Local
    <3>2. Counts(p)'
      BY <1>3, <2>2, <3>1 DEF vars, Counts
    <3>3. Levels(p)' /\ Backed(p)' /\ Handles(p)' /\ Calls(p)'
      BY <1>3, <3>1 DEF vars, Levels, Backed, Handles, Calls
    <3> QED
      BY <3>2, <3>3 DEF Local
  <2> QED
    BY <2>1, <2>3 DEF IInv
<1> QED
  BY <1>1, <1>2, <1>3 DEF Next

THEOREM Invariance == Spec => []IInv
<1>1. Init => IInv
  BY InitKeeps
<1>2. IInv /\ [Next]_vars => IInv'
  BY NextKeeps
<1> QED
  BY <1>1, <1>2, PTL DEF Spec

\* Every variable stays in its range, whatever fcntl calls fail.
THEOREM TypeCorrect == Spec => []TypeOK
<1>1. IInv => TypeOK
  BY DEF IInv
<1> QED
  BY <1>1, Invariance, PTL

LEMMA LevelOf ==
  ASSUME IInv, NEW f \in Files, NEW p, p = Owner[f], Level(f) >= SHARED
  PROVE  /\ p \in Processes /\ Local(p) /\ TypeOK /\ f \in Siblings(p) /\ lock[f] > NO
         /\ Level(f) <= inode[p].eFileLock
<1>1. p \in Processes /\ Local(p) /\ TypeOK /\ f \in Siblings(p)
  BY OwnerType DEF IInv
<1>2. lock[f] \in NO..EXCLUSIVE /\ inode[p].eFileLock \in NO..EXCLUSIVE
  BY <1>1, InodeType DEF TypeOK
<1>3. lock[f] > NO
  BY <1>2 DEF Level, NO, SHARED, EXCLUSIVE
<1>4. inode[p].eFileLock # NO
  BY <1>3, LockCounts
<1>5. lock[f] > SHARED => inode[p].eFileLock = lock[f] \/ inode[p].eFileLock = SHARED
  BY <1>1 DEF Local, Levels
<1> QED
  BY <1>1, <1>2, <1>3, <1>4, <1>5 DEF Level, NO, SHARED, EXCLUSIVE

LEMMA FilesAreBacked ==
  ASSUME IInv, NEW f \in Files, NEW p, p = Owner[f]
  PROVE  /\ Level(f) >= SHARED => os[p].shared # "none" /\ inode[p].eFileLock >= SHARED
         /\ Level(f) >= PENDING => os[p].pending = "write" /\ inode[p].eFileLock >= PENDING
<1>t. Level(f) \in NO..EXCLUSIVE /\ inode[p].eFileLock \in NO..EXCLUSIVE
  BY OwnerType, InodeType DEF IInv, TypeOK, Level, NO, SHARED, EXCLUSIVE
<1>1. Level(f) >= SHARED => inode[p].eFileLock >= SHARED /\ Backed(p)
  BY <1>t, LevelOf DEF Local, NO, SHARED, EXCLUSIVE
<1>2. Level(f) >= PENDING => inode[p].eFileLock >= PENDING /\ Backed(p)
  BY <1>t, LevelOf DEF Local, NO, SHARED, PENDING, EXCLUSIVE
<1> QED
  BY <1>1, <1>2 DEF Backed

\* What a file believes to hold its process does hold, for any number of processes and files, and
\* even after an fcntl has failed.
THEOREM LocksBacked == Spec => []LocksAreBacked
<1>1. IInv => LocksAreBacked
  BY FilesAreBacked DEF LocksAreBacked
<1> QED
  BY <1>1, Invariance, PTL

\* An EXCLUSIVE file is alone in all processes together, for any number of processes and files.
THEOREM ExclusiveAlone == Spec => []ExclusiveIsAlone
<1>1. ASSUME IInv
      PROVE  ExclusiveIsAlone
  <2> SUFFICES ASSUME NEW f \in Files, NEW g \in Files, f # g, Level(f) = EXCLUSIVE
               PROVE  Level(g) = NO
    BY DEF ExclusiveIsAlone
  <2>t. Level(g) \in NO..EXCLUSIVE
    BY <1>1, OwnerType DEF IInv, TypeOK, Level, NO, SHARED, EXCLUSIVE
  <2>1. PICK p : p = Owner[f]
    OBVIOUS
  <2>2. PICK q : q = Owner[g]
    OBVIOUS
  <2>3. /\ p \in Processes /\ Local(p) /\ f \in Siblings(p) /\ EXCLUSIVE <= inode[p].eFileLock
        /\ inode[p].eFileLock \in NO..EXCLUSIVE /\ lock[f] > NO
    BY <1>1, <2>1, LevelOf, InodeType DEF SHARED, EXCLUSIVE
  <2>4. inode[p].eFileLock = EXCLUSIVE
    BY <2>3 DEF NO, EXCLUSIVE
  <2>5. SUFFICES ASSUME Level(g) >= SHARED
                 PROVE  FALSE
    BY <2>t DEF NO, SHARED, EXCLUSIVE
  <2>6. /\ q \in Processes /\ Local(q) /\ g \in Siblings(q) /\ lock[g] > NO
        /\ SHARED <= inode[q].eFileLock
    <3>1. Level(g) <= inode[q].eFileLock /\ inode[q].eFileLock \in NO..EXCLUSIVE
      BY <1>1, <2>2, <2>5, LevelOf, InodeType
    <3> QED
      BY <1>1, <2>t, <2>2, <2>5, <3>1, LevelOf DEF NO, SHARED, EXCLUSIVE
  <2>7. CASE p = q
    <3>1. lock[f] = EXCLUSIVE
      BY <2>3, <2>4 DEF Local, Levels, NO
    <3>2. lock[g] = EXCLUSIVE
      BY <2>3, <2>4, <2>6, <2>7 DEF Local, Levels, NO
    <3> QED
      BY <2>3, <2>6, <2>7, <3>1, <3>2 DEF Local, Levels, SHARED, EXCLUSIVE
  <2>8. CASE p # q
    <3>1. os[q].shared # "none"
      <4>1. inode[q].eFileLock >= SHARED
        BY <1>1, <2>6, InodeType DEF IInv, SHARED, NO, EXCLUSIVE
      <4> QED
        BY <2>6, <4>1 DEF Local, Backed
    <3> QED
      BY <1>1, <2>3, <2>4, <2>6, <2>8, <3>1 DEF IInv, ExclusiveInside
  <2> QED
    BY <2>7, <2>8
<1> QED
  BY <1>1, Invariance, PTL

\* The counts are those of the files, and no descriptor is kept without a lock.
THEOREM CountsAreRight == Spec => []CountsMatch
<1>1. IInv => CountsMatch
  BY DEF IInv, Local, Counts, CountsMatch, Readers, Opened
<1> QED
  BY <1>1, Invariance, PTL

-----------------------------------------------------------------------------
(* The fcntl calls implement the locks of FileLocks.                       *)

\* A process that reserves nothing has given the reserved byte back, one that is RESERVED has it,
\* and a level above SHARED is the level of one of its files.
Tidy(p) ==
  /\ os[p].reserved # "read"
  /\ inode[p].eFileLock \in {NO, SHARED} => os[p].reserved # "write"
  /\ inode[p].eFileLock = RESERVED => os[p].reserved = "write"
  /\ inode[p].eFileLock > SHARED => \E g \in Siblings(p) : lock[g] = inode[p].eFileLock

Clean == intact => \A p \in Processes : Tidy(p)

Inv == IInv /\ Clean

-----------------------------------------------------------------------------
(* What a file holds.                                                      *)

LEMMA LevelType ==
  ASSUME TypeOK, NEW f \in Files
  PROVE  Level(f) \in NO..EXCLUSIVE /\ lock[f] \in NO..EXCLUSIVE
BY DEF TypeOK, Level, NO, SHARED, EXCLUSIVE

\* A file whose level and whose reserved byte stay holds what it held.
LEMMA SameHeld ==
  ASSUME NEW f \in Files, Level(f)' = Level(f),
         Level(f) >= RESERVED => (os'[Owner[f]].reserved = "write" <=> os[Owner[f]].reserved = "write")
  PROVE  HeldBy(f)' = HeldBy(f)
BY DEF HeldBy, IsReserved

\* What happens in one process leaves alone what the files of the others hold, ...
Aside(p) ==
  /\ \A q \in Processes \ {p} : inode'[q] = inode[q] /\ os'[q] = os[q]
  /\ \A f \in Files : Owner[f] # p => lock'[f] = lock[f]

LEMMA HeldElsewhere ==
  ASSUME NEW p \in Processes, Aside(p), NEW f \in Files, Owner[f] # p
  PROVE  HeldBy(f)' = HeldBy(f)
<1>1. Owner[f] \in Processes \ {p}
  BY OwnerType
<1>2. Level(f)' = Level(f) /\ os'[Owner[f]] = os[Owner[f]]
  BY <1>1 DEF Level, Aside
<1> QED
  BY <1>2, SameHeld

\* ... and a change of level in an inode those files that are not above SHARED.
LEMMA HeldBelow ==
  ASSUME TypeOK, NEW f \in Files, lock'[f] = lock[f], ~(lock[f] > SHARED)
  PROVE  HeldBy(f)' = HeldBy(f)
<1>1. Level(f) = lock[f] /\ Level(f)' = lock[f]
  BY DEF Level
<1>2. ~(Level(f) >= RESERVED)
  BY <1>1, LevelType DEF NO, SHARED, RESERVED, EXCLUSIVE
<1> QED
  BY <1>1, <1>2, SameHeld

LEMMA HeldByOthers ==
  ASSUME TypeOK, NEW f \in Files, NEW p, p = Owner[f], Aside(p),
         \A g \in Siblings(p) : g # f => lock'[g] = lock[g] /\ ~(lock[g] > SHARED)
  PROVE  \A g \in Files \ {f} : HeldBy(g)' = HeldBy(g)
BY OwnerType, HeldElsewhere, HeldBelow DEF Siblings

LEMMA Stutter ==
  ASSUME \A f \in Files : HeldBy(f)' = HeldBy(f)
  PROVE  UNCHANGED heldNow
BY DEF heldNow

LEMMA Grants ==
  ASSUME NEW f \in Files, NEW ls, \A g \in Files \ {f} : HeldBy(g)' = HeldBy(g),
         HeldBy(f)' = HeldBy(f) \union ls
  PROVE  Abstract!Grant(f, ls)
BY DEF Abstract!Grant, heldNow

LEMMA Lowers ==
  ASSUME NEW f \in Files, \A g \in Files \ {f} : HeldBy(g)' = HeldBy(g),
         HeldBy(f) # {}, HeldBy(f)' \in {{}, {"shared"}}
  PROVE  [Abstract!Lower(f)]_heldNow
<1>1. CASE HeldBy(f)' = HeldBy(f)
  BY <1>1, Stutter
<1>2. CASE HeldBy(f)' # HeldBy(f)
  BY <1>2 DEF Abstract!Lower, heldNow
<1> QED
  BY <1>1, <1>2

ReservedPart(f) == IF os[Owner[f]].reserved = "write" THEN {"reserved"} ELSE {}

LEMMA HeldAt ==
  ASSUME NEW f
  PROVE  /\ Level(f) = NO => HeldBy(f) = {}
         /\ Level(f) = SHARED => HeldBy(f) = {"shared"}
         /\ Level(f) = RESERVED => HeldBy(f) = {"shared"} \union ReservedPart(f)
         /\ Level(f) = PENDING => HeldBy(f) = {"shared", "pending"} \union ReservedPart(f)
         /\ Level(f) = EXCLUSIVE => HeldBy(f) = {"shared", "pending", "exclusive"} \union ReservedPart(f)
BY DEF HeldBy, IsReserved, ReservedPart, NO, SHARED, RESERVED, PENDING, EXCLUSIVE

LEMMA HeldAtNext ==
  ASSUME NEW f
  PROVE  /\ Level(f)' = NO => HeldBy(f)' = {}
         /\ Level(f)' = SHARED => HeldBy(f)' = {"shared"}
         /\ Level(f)' = RESERVED => HeldBy(f)' = {"shared"} \union ReservedPart(f)'
         /\ Level(f)' = PENDING => HeldBy(f)' = {"shared", "pending"} \union ReservedPart(f)'
         /\ Level(f)' = EXCLUSIVE => HeldBy(f)' = {"shared", "pending", "exclusive"} \union ReservedPart(f)'
BY DEF HeldBy, IsReserved, ReservedPart, NO, SHARED, RESERVED, PENDING, EXCLUSIVE

LEMMA Holds ==
  ASSUME NEW g
  PROVE  /\ "shared" \in HeldBy(g) <=> Level(g) >= SHARED
         /\ "pending" \in HeldBy(g) <=> Level(g) >= PENDING
         /\ "reserved" \in HeldBy(g) => Level(g) >= RESERVED /\ os[Owner[g]].reserved = "write"
BY DEF HeldBy, IsReserved

-----------------------------------------------------------------------------
(* Steps that change nothing of this.                                      *)

LEMMA CleanStep ==
  ASSUME Clean, NEW p \in Processes, intact' => intact, Aside(p), intact' => Tidy(p)'
  PROVE  Clean'
<1>1. ASSUME NEW q \in Processes \ {p}, Tidy(q)
      PROVE  Tidy(q)'
  BY <1>1 DEF Tidy, Aside, Siblings
<1> QED
  BY <1>1 DEF Clean

\* A process at or below SHARED without the reserved byte is tidy.
LEMMA Unreserved ==
  ASSUME NEW p, inode'[p].eFileLock \in {NO, SHARED}, os'[p].reserved = "none"
  PROVE  Tidy(p)'
BY DEF Tidy, NO, SHARED, RESERVED

LEMMA Quiet ==
  ASSUME Inv, intact' => intact, lock' = lock,
         \A p \in Processes : inode'[p].eFileLock = inode[p].eFileLock /\ os'[p].reserved = os[p].reserved
  PROVE  UNCHANGED heldNow /\ Clean'
<1>1. \A f \in Files : HeldBy(f)' = HeldBy(f)
  BY OwnerType, SameHeld DEF Level
<1>2. Clean'
  BY DEF Inv, Clean, Tidy
<1> QED
  BY <1>1, <1>2, Stutter

LEMMA OpenFdQuiet ==
  ASSUME Inv, NEW f \in Files, OpenFd(f) \/ FindInode(f) \/ BeginClose(f)
  PROVE  UNCHANGED heldNow /\ Clean'
<1>1. TypeOK
  BY DEF Inv, IInv
<1>2. \A p \in Processes : inode'[p].eFileLock = inode[p].eFileLock
  BY <1>1, InodeType DEF OpenFd, FindInode, BeginClose, InodeIs, InodeRec
<1>3. lock' = lock /\ os' = os /\ intact' = intact
  BY DEF OpenFd, FindInode, BeginClose
<1> QED
  BY <1>2, <1>3, Quiet

\* The process had no lock that could be dropped.
LEMMA OpenFailsQuiet ==
  ASSUME Inv, NEW f \in Files, OpenFails(f), intact'
  PROVE  UNCHANGED heldNow /\ Clean'
<1> DEFINE p == Owner[f]
<1>0. p \in Processes /\ TypeOK /\ Clean
  BY OwnerType DEF Inv, IInv
<1>1. /\ lock' = lock /\ inode' = inode /\ intact' = intact /\ inode[p].eFileLock = NO
      /\ os' = [os EXCEPT ![p] = NoLocks]
  BY DEF OpenFails, NoInode
<1>2. os[p].reserved = "none"
  BY <1>0, <1>1 DEF Clean, Tidy, TypeOK, Bytes
<1>3. \A q \in Processes : os'[q].reserved = os[q].reserved
  BY <1>0, <1>1, <1>2 DEF TypeOK, NoLocks, Bytes
<1> QED
  BY <1>1, <1>3, Quiet

\* Another lock than the reserved byte.
LEMMA LockQuiet ==
  ASSUME Inv, intact' => intact, lock' = lock, inode' = inode,
         NEW p \in Processes, NEW b \in Bytes \ {"reserved"}, NEW type \in {"none", "read", "write"},
         SetLock(p, b, type)
  PROVE  UNCHANGED heldNow /\ Clean'
<1>1. TypeOK
  BY DEF Inv, IInv
<1>2. \A q \in Processes : os'[q].reserved = os[q].reserved
  BY <1>1, NewLock DEF Bytes
<1> QED
  BY <1>2, Quiet

LEMMA BetweenCallsQuiet ==
  ASSUME Inv, NEW f \in Files, ReadPending(f) \/ WritePending(f) \/ Downgrade(f), intact'
  PROVE  UNCHANGED heldNow /\ Clean'
<1>1. Owner[f] \in Processes /\ TypeOK
  BY OwnerType DEF Inv, IInv
<1>2. lock' = lock /\ inode' = inode
  BY DEF ReadPending, WritePending, Downgrade
<1>3. intact' = intact
  BY DEF ReadPending, WritePending, Downgrade
<1>4. PICK b \in Bytes \ {"reserved"}, type \in {"none", "read", "write"} : SetLock(Owner[f], b, type)
  BY DEF ReadPending, WritePending, Downgrade, Bytes
<1> QED
  BY <1>1, <1>2, <1>3, <1>4, LockQuiet

LEMMA ReadSharedQuiet ==
  ASSUME Inv, NEW p \in Processes, ReadShared(p), intact'
  PROVE  UNCHANGED heldNow /\ Clean'
<1>1. lock' = lock /\ inode' = inode
  BY DEF ReadShared
<1>2. CASE SetLock(p, "shared", "read") /\ UNCHANGED intact
  BY <1>1, <1>2, LockQuiet DEF Bytes
<1>3. CASE Refused(p, "shared", "read") /\ UNCHANGED os
  <2>1. intact' = intact
    BY <1>3 DEF Refused
  <2> QED
    BY <1>1, <1>3, <2>1, Quiet
<1> QED
  BY <1>2, <1>3 DEF ReadShared

-----------------------------------------------------------------------------
(* Steps that take a lock.                                                 *)

LEMMA ShareInsideTakes ==
  ASSUME Inv, NEW f \in Files, NEW p, p = Owner[f], ShareInside(f)
  PROVE  intact => Abstract!Beside(f) /\ Clean'
<1> HAVE intact
<1>0. /\ p \in Processes /\ TypeOK /\ Local(p) /\ IInv
      /\ lock[f] = NO /\ inode[p].eFileLock \in {SHARED, RESERVED}
  BY OwnerType DEF Inv, IInv, ShareInside
<1>1. lock' = [lock EXCEPT ![f] = SHARED] /\ os' = os /\ intact' = intact
  BY DEF ShareInside
<1>2. lock'[f] = SHARED /\ \A g \in Files \ {f} : lock'[g] = lock[g]
  BY <1>0, <1>1, NewFileLock, LevelRange
<1>3. \A q \in Processes : inode'[q].eFileLock = inode[q].eFileLock
  BY <1>0, InodeType DEF ShareInside, InodeIs, InodeRec
<1>4. \A g \in Files \ {f} : HeldBy(g)' = HeldBy(g)
  BY <1>1, <1>2, <1>3, OwnerType, SameHeld DEF Level
<1>5. Level(f) = NO /\ Level(f)' = SHARED
  BY <1>0, <1>2 DEF Level, NO, SHARED
<1>6. HeldBy(f) = {} /\ HeldBy(f)' = {"shared"}
  BY <1>5, HeldAt, HeldAtNext
<1>7. \E g \in Files \ {f} : Owner[g] = p /\ "shared" \in HeldBy(g)
  <2>1. Readers(p) # {}
    <3>1. inode[p].nShared = Cardinality(Readers(p)) /\ inode[p].nShared # 0
      BY <1>0 DEF Local, Counts, NO, SHARED, RESERVED
    <3> QED
      BY <1>0, <3>1, FilesOfProcess, FS_EmptySet
  <2>2. PICK g \in Siblings(p) : lock[g] > NO
    BY <2>1 DEF Readers
  <2>3. g \in Files \ {f} /\ Owner[g] = p
    BY <1>0, <2>2 DEF Siblings, NO
  <2>4. Level(g) >= SHARED
    BY <1>0, <2>2, <2>3, LevelType DEF Level, NO, SHARED, EXCLUSIVE
  <2> QED
    BY <2>3, <2>4, Holds
<1>8. \A g \in Files \ {f} : Owner[g] = p => "pending" \notin HeldBy(g)
  BY <1>0, Holds, FilesAreBacked DEF SHARED, RESERVED, PENDING
<1>9. Abstract!Grant(f, {"shared"})
  BY <1>4, <1>6, Grants
<1>a. Abstract!Beside(f)
  BY <1>0, <1>6, <1>7, <1>8, <1>9 DEF Abstract!Beside, Abstract!Siblings, Abstract!Others, heldNow
<1>b. Clean'
  <2>1. Aside(p)
    <3>1. \A q \in Processes \ {p} : inode'[q] = inode[q]
      BY <1>0, InodeType DEF ShareInside, InodeIs
    <3> QED
      BY <1>0, <1>1, <1>2, <3>1 DEF Aside
  <2>2. \A g \in Siblings(p) : lock[g] > SHARED => lock'[g] = lock[g]
    BY <1>0, <1>2 DEF Siblings, NO, SHARED
  <2>3. Tidy(p) => Tidy(p)'
    <3>1. \A g \in Siblings(p) : lock[g] = inode[p].eFileLock /\ inode[p].eFileLock > SHARED => lock'[g] = inode[p].eFileLock
      BY <2>2
    <3> QED
      BY <1>0, <1>1, <1>3, <3>1 DEF Tidy
  <2> QED
    BY <1>0, <1>1, <2>1, <2>3, CleanStep DEF Inv, Clean
<1> QED
  BY <1>a, <1>b

LEMMA DropPendingTakes ==
  ASSUME Inv, NEW p \in Processes, DropPending(p), intact'
  PROVE  (UNCHANGED heldNow \/ \E f \in Files : Abstract!Shared(f)) /\ Clean'
<1> DEFINE file == call[p].file
<1>1. PICK f : f = file
  OBVIOUS
<1> HIDE DEF file
<1>2. f = call[p].file
  BY <1>1 DEF file
<1>0. /\ TypeOK /\ CallType /\ Local(p) /\ IInv /\ call[p] # NoCall
      /\ f \in Files /\ p = Owner[f] /\ inode[p].eFileLock = NO /\ lock[f] = NO /\ os[p].pending = "read"
  <2>1. TypeOK /\ CallType /\ Local(p) /\ IInv /\ call[p].step \in {"unpend", "give up"}
    BY DEF Inv, IInv, DropPending
  <2>2. call[p] # NoCall
    <3>1. NoCall.step = "none"
      BY DEF NoCall
    <3> QED
      BY <2>1, <3>1
  <2>3. f \in Siblings(p) /\ f \in Files /\ p = Owner[f]
    BY <1>2, <2>1, <2>2 DEF TypeOK, Siblings
  <2> QED
    BY <1>2, <2>1, <2>2, <2>3 DEF Local, Calls
<1>3. CASE UNCHANGED << lock, inode >> /\ SetLock(p, "pending", "none") /\ UNCHANGED intact
  BY <1>3, LockQuiet DEF Bytes
<1>4. CASE /\ SetLock(p, "pending", "none") /\ UNCHANGED intact
           /\ lock' = [lock EXCEPT ![f] = SHARED]
           /\ InodeIs(p, [inode[p] EXCEPT !.nShared = 1, !.nLock = inode[p].nLock + 1, !.eFileLock = SHARED])
  <2>1. /\ \A q \in Processes \ {p} : inode'[q] = inode[q] /\ os'[q] = os[q]
        /\ os'[p].reserved = os[p].reserved
    <3>1. (\A q \in Processes \ {p} : os'[q] = os[q]) /\ os'[p].reserved = os[p].reserved
      BY <1>0, <1>4, NewLock DEF Bytes
    <3>2. \A q \in Processes \ {p} : inode'[q] = inode[q]
      BY <1>0, <1>4, InodeType DEF InodeIs
    <3> QED
      BY <3>1, <3>2
  <2>2. lock'[f] = SHARED /\ \A g \in Files \ {f} : lock'[g] = lock[g]
    BY <1>0, <1>4, NewFileLock, LevelRange
  <2>3. Aside(p)
    BY <1>0, <2>1, <2>2 DEF Aside
  <2>4. \A g \in Siblings(p) : g # f => lock'[g] = lock[g] /\ ~(lock[g] > SHARED)
    <3>1. \A g \in Siblings(p) : g \in Files /\ Owner[g] = p
      BY DEF Siblings
    <3>2. \A g \in Siblings(p) : ~(lock[g] > NO)
      BY <1>0, <3>1, LockCounts
    <3> QED
      BY <1>0, <2>2, <3>1, <3>2, LevelType DEF NO, SHARED, EXCLUSIVE
  <2>5. \A g \in Files \ {f} : HeldBy(g)' = HeldBy(g)
    BY <1>0, <2>3, <2>4, HeldByOthers
  <2>6. Level(f) = NO /\ Level(f)' = SHARED
    BY <1>0, <2>2 DEF Level, NO, SHARED
  <2>7. HeldBy(f) = {} /\ HeldBy(f)' = {"shared"}
    BY <2>6, HeldAt, HeldAtNext
  <2>8. \A g \in Files \ {f} : "pending" \notin HeldBy(g)
    <3> SUFFICES ASSUME NEW g \in Files \ {f}, "pending" \in HeldBy(g)
                 PROVE  FALSE
      OBVIOUS
    <3>1. PICK q : q = Owner[g]
      OBVIOUS
    <3>2. os[q].pending = "write" /\ inode[q].eFileLock >= PENDING /\ q \in Processes
      BY <1>0, <3>1, Holds, FilesAreBacked, OwnerType
    <3>3. p # q
      BY <1>0, <3>2 DEF NO, PENDING
    <3> QED
      BY <1>0, <3>2, <3>3 DEF IInv, Posix, Bytes
  <2>9. Abstract!Grant(f, {"shared"})
    <3>1. HeldBy(f)' = HeldBy(f) \union {"shared"}
      BY <2>7
    <3> QED
      BY <1>0, <2>5, <3>1, Grants
  <2>10. Abstract!Shared(f)
    BY <1>0, <2>7, <2>8, <2>9 DEF Abstract!Shared, Abstract!NobodyElse, Abstract!Others, heldNow
  <2>11. Clean'
    <3>1. intact => os[p].reserved \notin {"read", "write"}
      BY <1>0 DEF Inv, Clean, Tidy
    <3>2. inode'[p].eFileLock = SHARED
      BY <1>0, <1>4, InodeType DEF InodeIs, InodeRec
    <3>3. intact => os'[p].reserved = "none"
      BY <1>0, <2>1, <3>1 DEF TypeOK, Bytes
    <3> QED
      BY <1>4, <2>3, <3>2, <3>3, Unreserved, CleanStep DEF Inv
  <2> QED
    BY <1>0, <2>10, <2>11
<1> QED
  BY <1>2, <1>3, <1>4 DEF DropPending

LEMMA ReserveTakes ==
  ASSUME Inv, NEW f \in Files, NEW p, p = Owner[f], Reserve(f)
  PROVE  Abstract!Reserved(f) /\ Clean'
<1>0. /\ p \in Processes /\ TypeOK /\ Local(p) /\ IInv
      /\ lock[f] = SHARED /\ call[p] = NoCall
  BY OwnerType DEF Inv, IInv, Reserve, Free
<1>1. inode[p].eFileLock = SHARED
  BY <1>0 DEF Reserve, BusyInside, SHARED, RESERVED
<1>2. \A g \in Siblings(p) : g # f => ~(lock[g] > SHARED)
  <2>1. \A g : call[p] # [step |-> "leave", file |-> g]
    BY <1>0, IdleIs
  <2> QED
    BY <1>0, <1>1, <2>1, NoneBesides
<1>3. /\ \A q \in Processes \ {p} : inode'[q] = inode[q] /\ os'[q] = os[q]
      /\ os'[p].reserved = "write" /\ inode'[p].eFileLock = RESERVED
  <2>1. InodeIs(p, [inode[p] EXCEPT !.eFileLock = RESERVED]) /\ SetLock(p, "reserved", "write")
    BY DEF Reserve
  <2> QED
    BY <1>0, <2>1, NewLevel, LevelRange, NewLock DEF Bytes
<1>4. lock'[f] = RESERVED /\ \A g \in Files \ {f} : lock'[g] = lock[g]
  <2>1. lock' = [lock EXCEPT ![f] = RESERVED]
    BY DEF Reserve
  <2> QED
    BY <1>0, <2>1, NewFileLock, LevelRange
<1>5. \A g \in Files \ {f} : HeldBy(g)' = HeldBy(g)
  <2>1. Aside(p)
    BY <1>3, <1>4 DEF Aside
  <2>2. \A g \in Siblings(p) : g # f => lock'[g] = lock[g] /\ ~(lock[g] > SHARED)
    BY <1>2, <1>4 DEF Siblings
  <2> QED
    BY <1>0, <2>1, <2>2, HeldByOthers
<1>6. Level(f) = SHARED /\ Level(f)' = RESERVED
  BY <1>0, <1>3, <1>4 DEF Level, SHARED, RESERVED
<1>7. HeldBy(f) = {"shared"} /\ HeldBy(f)' = {"shared", "reserved"}
  <2>1. ReservedPart(f)' = {"reserved"}
    BY <1>3 DEF ReservedPart
  <2> QED
    BY <1>6, <2>1, HeldAt, HeldAtNext
<1>8. \A g \in Files \ {f} : "reserved" \notin HeldBy(g)
  <2> SUFFICES ASSUME NEW g \in Files \ {f}, "reserved" \in HeldBy(g)
               PROVE  FALSE
    OBVIOUS
  <2>1. PICK q : q = Owner[g]
    OBVIOUS
  <2>2. Level(g) >= RESERVED /\ os[q].reserved = "write" /\ q \in Processes /\ g \in Siblings(q)
    BY <2>1, Holds, OwnerType
  <2>3. CASE p = q
    <3>1. Level(g) = lock[g] /\ ~(lock[g] > SHARED) /\ lock[g] \in NO..EXCLUSIVE
      BY <1>0, <1>2, <2>2, <2>3, LevelType DEF Level
    <3> QED
      BY <2>2, <3>1 DEF NO, SHARED, RESERVED, EXCLUSIVE
  <2>4. CASE p # q
    BY <2>2, <2>4 DEF Reserve, Grantable
  <2> QED
    BY <2>3, <2>4
<1>9. Abstract!Grant(f, {"reserved"})
  BY <1>5, <1>7, Grants
<1>a. Abstract!Reserved(f)
  BY <1>7, <1>8, <1>9 DEF Abstract!Reserved, Abstract!NobodyElse, Abstract!Others, heldNow
<1>b. Clean'
  <2>1. intact' = intact /\ f \in Siblings(p)
    BY <1>0 DEF Reserve, Siblings
  <2>2. Tidy(p)'
    BY <1>3, <1>4, <2>1 DEF Tidy, NO, SHARED, RESERVED
  <2> QED
    BY <1>0, <1>3, <1>4, <2>1, <2>2, CleanStep DEF Inv, Aside
<1> QED
  BY <1>a, <1>b

\* PENDING and EXCLUSIVE.
LEMMA ExcludeTakes ==
  ASSUME Inv, NEW f \in Files, NEW p, p = Owner[f], Exclude(f), intact'
  PROVE  (Abstract!Pending(f) \/ Abstract!Exclusive(f)) /\ Clean'
<1>0. p \in Processes /\ f \in Siblings(p) /\ TypeOK /\ IInv /\ Local(p) /\ (intact => Clean)
  BY OwnerType DEF Inv, IInv
<1>1. /\ lock[f] = inode[p].eFileLock /\ lock[f] \in {SHARED, RESERVED, PENDING}
      /\ os[p].pending = "write" /\ os[p].shared # "none"
      /\ \A g \in Siblings(p) : g # f => ~(lock[g] > SHARED)
  BY <1>0, ExcludeFrom
<1>2. intact' = intact
  BY DEF Exclude, Refused
<1>3. /\ Level(f) = lock[f] /\ "shared" \in HeldBy(f)
      /\ lock[f] = SHARED => ReservedPart(f) = {}
  <2>1. Level(f) = lock[f] /\ Level(f) >= SHARED
    BY <1>1 DEF Level, SHARED, RESERVED, PENDING
  <2>2. lock[f] = SHARED => os[p].reserved # "write"
    BY <1>0, <1>1, <1>2 DEF Inv, Clean, Tidy
  <2> QED
    BY <2>1, <2>2, Holds DEF ReservedPart
<1>4. \A g \in Files \ {f} : "pending" \notin HeldBy(g)
  <2> SUFFICES ASSUME NEW g \in Files \ {f}, "pending" \in HeldBy(g)
               PROVE  FALSE
    OBVIOUS
  <2>1. PICK q : q = Owner[g]
    OBVIOUS
  <2>2. Level(g) >= PENDING /\ os[q].pending = "write" /\ q \in Processes /\ g \in Siblings(q)
    BY <1>0, <2>1, Holds, FilesAreBacked, OwnerType
  <2>3. CASE p = q
    <3>1. Level(g) = lock[g] /\ ~(lock[g] > SHARED) /\ lock[g] \in NO..EXCLUSIVE
      BY <1>0, <1>1, <2>2, <2>3, LevelType DEF Level
    <3> QED
      BY <2>2, <3>1 DEF NO, SHARED, PENDING, EXCLUSIVE
  <2>4. CASE p # q
    BY <1>0, <1>1, <2>2, <2>4 DEF IInv, Posix, Bytes
  <2> QED
    BY <2>3, <2>4
<1>a. ASSUME NEW level \in {PENDING, EXCLUSIVE}, lock' = [lock EXCEPT ![f] = level],
             InodeIs(p, [inode[p] EXCEPT !.eFileLock = level]),
             \A q \in Processes \ {p} : os'[q] = os[q], os'[p].reserved = os[p].reserved
      PROVE  /\ \A g \in Files \ {f} : HeldBy(g)' = HeldBy(g)
             /\ Level(f)' = level /\ ReservedPart(f)' = ReservedPart(f) /\ Clean'
  <2>0. level \in NO..EXCLUSIVE /\ level \notin {NO, SHARED}
    BY <1>a DEF NO, SHARED, PENDING, EXCLUSIVE
  <2>1. inode'[p].eFileLock = level /\ \A q \in Processes \ {p} : inode'[q] = inode[q]
    BY <1>0, <1>a, <2>0, NewLevel
  <2>2. lock'[f] = level /\ \A g \in Files \ {f} : lock'[g] = lock[g]
    BY <1>0, <1>a, <2>0, NewFileLock
  <2>3. Aside(p)
    BY <1>a, <2>1, <2>2 DEF Aside
  <2>4. \A g \in Siblings(p) : g # f => lock'[g] = lock[g] /\ ~(lock[g] > SHARED)
    BY <1>1, <2>2 DEF Siblings
  <2>5. \A g \in Files \ {f} : HeldBy(g)' = HeldBy(g)
    BY <1>0, <2>3, <2>4, HeldByOthers
  <2>6. Level(f)' = level
    BY <2>1, <2>2 DEF Level
  <2>7. ReservedPart(f)' = ReservedPart(f)
    BY <1>a DEF ReservedPart
  <2>8. Clean'
    <3>1. level # RESERVED
      BY DEF RESERVED, PENDING, EXCLUSIVE
    <3>2. Tidy(p) => Tidy(p)'
      BY <1>0, <1>a, <2>0, <2>1, <2>2, <3>1 DEF Tidy
    <3> QED
      BY <1>0, <1>2, <2>3, <3>2, CleanStep DEF Inv, Clean
  <2> QED
    BY <2>5, <2>6, <2>7, <2>8
<1>5. CASE /\ lock' = [lock EXCEPT ![f] = PENDING] /\ InodeIs(p, [inode[p] EXCEPT !.eFileLock = PENDING])
           /\ UNCHANGED os
  <2>1. /\ \A g \in Files \ {f} : HeldBy(g)' = HeldBy(g)
        /\ Level(f)' = PENDING /\ ReservedPart(f)' = ReservedPart(f) /\ Clean'
    BY <1>5, <1>a
  <2>2. HeldBy(f)' = {"shared", "pending"} \union ReservedPart(f)
    BY <2>1, HeldAtNext
  <2>3. HeldBy(f)' = HeldBy(f) \union {"pending"}
    BY <1>1, <1>3, <2>2, HeldAt
  <2>4. Abstract!Grant(f, {"pending"})
    BY <2>1, <2>3, Grants
  <2>5. Abstract!Pending(f)
    BY <1>3, <1>4, <2>4 DEF Abstract!Pending, Abstract!NobodyElse, Abstract!Others, heldNow
  <2> QED
    BY <2>1, <2>5
<1>6. CASE /\ inode[p].nShared <= 1 /\ Grantable(p, "shared", "write") /\ SetLock(p, "shared", "write")
           /\ lock' = [lock EXCEPT ![f] = EXCLUSIVE] /\ InodeIs(p, [inode[p] EXCEPT !.eFileLock = EXCLUSIVE])
  <2>0. (\A q \in Processes \ {p} : os'[q] = os[q]) /\ os'[p].reserved = os[p].reserved
    BY <1>0, <1>6, NewLock DEF Bytes
  <2>1. /\ \A g \in Files \ {f} : HeldBy(g)' = HeldBy(g)
        /\ Level(f)' = EXCLUSIVE /\ ReservedPart(f)' = ReservedPart(f) /\ Clean'
    BY <1>6, <2>0, <1>a
  <2>2. HeldBy(f)' = {"shared", "pending", "exclusive"} \union ReservedPart(f)
    BY <2>1, HeldAtNext
  <2>3. HeldBy(f)' = HeldBy(f) \union {"pending", "exclusive"}
    BY <1>1, <1>3, <2>2, HeldAt
  <2>4. Abstract!Grant(f, {"pending", "exclusive"})
    BY <2>1, <2>3, Grants
  <2>5. \A g \in Files \ {f} : "shared" \notin HeldBy(g)
    <3> SUFFICES ASSUME NEW g \in Files \ {f}, "shared" \in HeldBy(g)
                 PROVE  FALSE
      OBVIOUS
    <3>1. PICK q : q = Owner[g]
      OBVIOUS
    <3>2. Level(g) >= SHARED /\ os[q].shared # "none" /\ q \in Processes /\ g \in Siblings(q)
      BY <1>0, <3>1, Holds, FilesAreBacked, OwnerType
    <3>3. CASE p = q
      <4>1. Cardinality(Readers(p)) <= 1
        BY <1>0, <1>6, InodeType, FilesOfProcess DEF Local, Counts
      <4>2. lock[f] > NO
        BY <1>1 DEF NO, SHARED, RESERVED, PENDING
      <4>3. lock[g] = NO
        BY <1>0, <3>2, <3>3, <4>1, <4>2, SingleReader
      <4> QED
        BY <3>2, <4>3 DEF Level, NO, SHARED
    <3>4. CASE p # q
      BY <1>6, <3>2, <3>4 DEF Grantable
    <3> QED
      BY <3>3, <3>4
  <2>6. Abstract!Exclusive(f)
    BY <1>3, <2>4, <2>5 DEF Abstract!Exclusive, Abstract!NobodyElse, Abstract!Others, heldNow
  <2> QED
    BY <2>1, <2>6
<1> QED
  BY <1>5, <1>6 DEF Exclude

-----------------------------------------------------------------------------
(* Steps that give locks back.                                             *)

LEMMA UnreserveLowers ==
  ASSUME Inv, NEW f \in Files, NEW p, p = Owner[f], Unreserve(f), intact'
  PROVE  [Abstract!Lower(f)]_heldNow /\ Clean'
<1>0. p \in Processes /\ TypeOK /\ IInv
  BY OwnerType DEF Inv, IInv
<1>1. /\ lock[f] = inode[p].eFileLock /\ lock[f] > SHARED
      /\ \A g \in Siblings(p) : g # f => ~(lock[g] > SHARED)
  BY <1>0, UnreserveFrom
<1>2. /\ os' = [os EXCEPT ![p].pending = "none", ![p].reserved = "none"]
      /\ InodeIs(p, [inode[p] EXCEPT !.eFileLock = SHARED])
      /\ intact' = intact
      /\ UNCHANGED lock \/ lock' = [lock EXCEPT ![f] = SHARED]
  BY DEF Unreserve
<1>3. inode'[p].eFileLock = SHARED /\ \A q \in Processes \ {p} : inode'[q] = inode[q]
  BY <1>0, <1>2, NewLevel, LevelRange
<1>4. (\A q \in Processes \ {p} : os'[q] = os[q]) /\ os'[p].reserved = "none"
  BY <1>0, <1>2 DEF TypeOK, Bytes
<1>5. /\ \A g \in Files \ {f} : lock'[g] = lock[g]
      /\ lock'[f] = lock[f] \/ lock'[f] = SHARED
  BY <1>0, <1>2, NewFileLock, LevelRange
<1>6. \A g \in Files \ {f} : HeldBy(g)' = HeldBy(g)
  <2>1. Aside(p)
    BY <1>3, <1>4, <1>5 DEF Aside
  <2>2. \A g \in Siblings(p) : g # f => lock'[g] = lock[g] /\ ~(lock[g] > SHARED)
    BY <1>1, <1>5 DEF Siblings
  <2> QED
    BY <1>0, <2>1, <2>2, HeldByOthers
<1>7. HeldBy(f)' = {"shared"}
  <2>1. Level(f)' = SHARED
    BY <1>1, <1>3, <1>5 DEF Level
  <2> QED
    BY <2>1, HeldAtNext
<1>8. HeldBy(f) # {}
  <2>1. Level(f) >= SHARED
    BY <1>0, <1>1, LevelType DEF Level, NO, SHARED, EXCLUSIVE
  <2> QED
    BY <2>1, Holds
<1>9. [Abstract!Lower(f)]_heldNow
  BY <1>6, <1>7, <1>8, Lowers
<1>a. Clean'
  <2>1. Tidy(p)' /\ Aside(p)
    BY <1>0, <1>3, <1>4, <1>5, Unreserved DEF Aside
  <2> QED
    BY <1>0, <1>2, <2>1, CleanStep DEF Inv
<1> QED
  BY <1>9, <1>a

LEMMA LeaveLowers ==
  ASSUME Inv, NEW f \in Files, NEW p, p = Owner[f], Leave(f), intact'
  PROVE  [Abstract!Lower(f)]_heldNow /\ Clean'
<1>0. p \in Processes /\ TypeOK /\ IInv
  BY OwnerType DEF Inv, IInv
<1>1. lock[f] # NO
  BY <1>0, LeaveFrom
<1>2. intact' = intact
  BY DEF Leave
<1>3. lock'[f] = NO /\ \A g \in Files \ {f} : lock'[g] = lock[g]
  <2>1. lock' = [lock EXCEPT ![f] = NO]
    BY DEF Leave
  <2> QED
    BY <1>0, <2>1, NewFileLock, LevelRange
<1>4. PICK left \in Nat :
        /\ left = inode[p].nShared - 1
        /\ inode' \in [Processes -> InodeRec] /\ inode'[p].nShared = left /\ inode'[p].nLock = left
        /\ inode'[p].nRef = inode[p].nRef
        /\ inode'[p].eFileLock = IF left = 0 THEN NO ELSE inode[p].eFileLock
        /\ inode'[p].pUnused = IF left = 0 THEN 0 ELSE inode[p].pUnused
        /\ \A q \in Processes \ {p} : inode'[q] = inode[q]
        /\ os' \in [Processes -> [Bytes -> {"none", "read", "write"}]]
        /\ \A q \in Processes \ {p} : os'[q] = os[q]
        /\ \A b \in Bytes : os'[p][b] = "none" \/ os'[p][b] = os[p][b]
        /\ left # 0 => os'[p] = os[p]
        /\ left = 0 /\ intact' => os'[p] = NoLocks
        /\ left = 0 => \A g \in Siblings(p) : g # f => lock[g] = NO
  BY <1>0, LeaveEffect
<1>5. Aside(p)
  BY <1>3, <1>4 DEF Aside
<1>6. \A g \in Files \ {f} : HeldBy(g)' = HeldBy(g)
  <2>1. CASE left = 0
    <3>1. \A g \in Siblings(p) : g # f => lock'[g] = lock[g] /\ ~(lock[g] > SHARED)
      BY <1>3, <1>4, <2>1 DEF Siblings, NO, SHARED
    <3> QED
      BY <1>0, <1>5, <3>1, HeldByOthers
  <2>2. CASE left # 0
    <3>1. \A g \in Files \ {f} : Owner[g] = p => HeldBy(g)' = HeldBy(g)
      BY <1>3, <1>4, <2>2, SameHeld DEF Level
    <3> QED
      BY <1>0, <1>5, <3>1, HeldElsewhere
  <2> QED
    BY <2>1, <2>2
<1>7. HeldBy(f)' = {}
  <2>1. Level(f)' = NO
    BY <1>3 DEF Level, NO, SHARED
  <2> QED
    BY <2>1, HeldAtNext
<1>8. HeldBy(f) # {}
  <2>1. Level(f) >= SHARED
    BY <1>0, <1>1, LevelType DEF Level, NO, SHARED, EXCLUSIVE
  <2> QED
    BY <2>1, Holds
<1>9. [Abstract!Lower(f)]_heldNow
  BY <1>6, <1>7, <1>8, Lowers
<1>a. Clean'
  <2>1. CASE left = 0
    <3>1. os'[p] = NoLocks
      BY <1>4, <2>1
    <3>2. os'[p].reserved = "none"
      BY <3>1 DEF NoLocks, Bytes
    <3> QED
      BY <1>0, <1>2, <1>4, <1>5, <2>1, <3>2, Unreserved, CleanStep DEF Inv
  <2>2. CASE left # 0
    <3>1. inode[p].eFileLock > SHARED => lock[f] = SHARED
      <4>1. CASE call[p] = [step |-> "leave", file |-> f]
        <5>1. call[p].step = "leave" /\ call[p] # NoCall
          BY <4>1, RecordOfCall DEF NoCall
        <5>2. inode[p].eFileLock = SHARED
          BY <1>0, <5>1 DEF IInv, Local, Calls
        <5> QED
          BY <5>2 DEF SHARED
      <4> QED
        BY <4>1 DEF Leave
    <3>2. Tidy(p) => Tidy(p)'
      <4>1. inode'[p].eFileLock = inode[p].eFileLock /\ os'[p] = os[p]
        BY <1>4, <2>2
      <4>2. \A g \in Siblings(p) :
              lock[g] = inode[p].eFileLock /\ inode[p].eFileLock > SHARED => lock'[g] = lock[g]
        <5>1. ASSUME lock[f] = SHARED, inode[p].eFileLock > SHARED
              PROVE  lock[f] # inode[p].eFileLock
          BY <5>1 DEF SHARED
        <5> QED
          BY <1>3, <3>1, <5>1 DEF Siblings
      <4> QED
        BY <4>1, <4>2 DEF Tidy
    <3> QED
      BY <1>0, <1>2, <1>5, <3>2, CleanStep DEF Inv, Clean
  <2> QED
    BY <2>1, <2>2
<1> QED
  BY <1>9, <1>a

\* The last file of a process that is open is the only one that could read.
LEMMA LastReader ==
  ASSUME IInv, NEW f \in Files, NEW p, p = Owner[f], handle[f] = "unlocked", inode[p].nRef = 1,
         NEW g \in Siblings(p), g # f
  PROVE  lock[g] = NO
<1>0. p \in Processes /\ f \in Siblings(p) /\ TypeOK /\ Local(p)
  BY OwnerType DEF IInv
<1>1. f \in Opened(p) /\ Cardinality(Opened(p)) = 1 /\ IsFiniteSet(Opened(p))
  BY <1>0, FilesOfProcess DEF Opened, Local, Counts
<1>2. Cardinality(Opened(p) \ {f}) = Cardinality(Opened(p)) - 1 /\ IsFiniteSet(Opened(p) \ {f})
  BY <1>1, FS_RemoveElement
<1>3. Opened(p) \ {f} = {}
  BY <1>1, <1>2, FS_EmptySet
<1>4. handle[g] \in {"closed", "opening"}
  BY <1>0, <1>3 DEF Opened, TypeOK, Siblings
<1> QED
  BY <1>0, <1>4 DEF Local, Handles

LEMMA EndCloseQuiet ==
  ASSUME Inv, NEW f \in Files, NEW p, p = Owner[f], EndClose(f), intact'
  PROVE  UNCHANGED heldNow /\ Clean'
<1>0. /\ p \in Processes /\ f \in Siblings(p) /\ TypeOK /\ IInv /\ Local(p)
      /\ handle[f] = "unlocked" /\ intact' = intact
  BY OwnerType DEF Inv, IInv, EndClose
<1>1. lock[f] = NO
  BY <1>0 DEF Local, Handles
<1>2. lock' = lock
  <2>1. lock' = [lock EXCEPT ![f] = NO]
    BY DEF EndClose
  <2> QED
    BY <1>0, <1>1, <2>1 DEF TypeOK
<1>3. /\ \A q \in Processes \ {p} : inode'[q] = inode[q] /\ os'[q] = os[q]
      /\ inode'[p].eFileLock = IF inode[p].nRef = 1 THEN NO ELSE inode[p].eFileLock
      /\ os'[p] = IF inode[p].nLock > 0 /\ inode[p].nRef # 1 THEN os[p] ELSE NoLocks
  <2>1. /\ inode' = [inode EXCEPT ![p] = inode'[p]]
        /\ os' = [os EXCEPT ![p] = IF inode[p].nLock > 0 /\ inode[p].nRef # 1 THEN os[p] ELSE NoLocks]
    BY <1>0 DEF EndClose, InodeIs, TypeOK
  <2>2. inode'[p].eFileLock = IF inode[p].nRef = 1 THEN NO ELSE inode[p].eFileLock
    BY <1>0, InodeType DEF EndClose, InodeIs, NoInode, InodeRec
  <2> QED
    BY <1>0, <2>1, <2>2 DEF TypeOK
<1>4. CASE inode[p].nLock > 0 /\ inode[p].nRef # 1
  BY <1>0, <1>2, <1>3, <1>4, Quiet
<1>5. CASE ~(inode[p].nLock > 0) \/ inode[p].nRef = 1
  <2>1. \A g \in Siblings(p) : lock[g] = NO
    <3>1. CASE inode[p].nRef = 1
      BY <1>0, <1>1, <3>1, LastReader
    <3>2. CASE ~(inode[p].nLock > 0)
      <4>1. \A g \in Siblings(p) : g \in Files /\ Owner[g] = p
        BY DEF Siblings
      <4>2. \A g \in Siblings(p) : ~(lock[g] > NO) /\ lock[g] \in NO..EXCLUSIVE
        BY <1>0, <3>2, <4>1, LockCounts, LevelType
      <4> QED
        BY <4>2 DEF NO, EXCLUSIVE
    <3> QED
      BY <1>5, <3>1, <3>2
  <2>2. \A g \in Siblings(p) : lock'[g] = lock[g] /\ ~(lock[g] > SHARED)
    BY <1>2, <2>1 DEF NO, SHARED
  <2>3. Aside(p)
    BY <1>2, <1>3 DEF Aside
  <2>4. \A g \in Files : HeldBy(g)' = HeldBy(g)
    BY <1>0, <2>2, <2>3, HeldBelow, HeldElsewhere DEF Siblings
  <2>5. Clean'
    <3>1. os'[p].reserved = "none"
      BY <1>3, <1>5 DEF NoLocks, Bytes
    <3>2. inode'[p].eFileLock = NO
      <4>1. CASE inode[p].nRef = 1
        BY <1>3, <4>1
      <4>2. CASE inode[p].nRef # 1
        BY <1>0, <1>3, <1>5, <4>2, InodeType DEF Local, Counts
      <4> QED
        BY <4>1, <4>2
    <3> QED
      BY <1>0, <2>3, <3>1, <3>2, Unreserved, CleanStep DEF Inv
  <2> QED
    BY <2>4, <2>5, Stutter
<1> QED
  BY <1>4, <1>5

LEMMA DieVanishes ==
  ASSUME Inv, NEW p \in Processes, Die(p)
  PROVE  Abstract!Vanish /\ Clean'
<1>0. TypeOK /\ CallType
  BY DEF Inv, IInv
<1>1. /\ \A q \in Processes \ {p} : inode'[q] = inode[q] /\ os'[q] = os[q]
      /\ os'[p] = NoLocks /\ intact' = intact
      /\ \A g \in Files : lock'[g] = IF Owner[g] = p THEN NO ELSE lock[g]
  BY <1>0 DEF Die, TypeOK
<1>2. Aside(p)
  BY <1>1 DEF Aside
<1>3. \A g \in Files : HeldBy(g)' = IF g \in Siblings(p) THEN {} ELSE HeldBy(g)
  <2>1. ASSUME NEW g \in Files, Owner[g] = p
        PROVE  HeldBy(g)' = {}
    <3>1. Level(g)' = NO
      BY <1>1, <2>1 DEF Level, NO, SHARED
    <3> QED
      BY <3>1, HeldAtNext
  <2> QED
    BY <1>2, <2>1, HeldElsewhere DEF Siblings
<1>4. Siblings(p) \in SUBSET Files
  BY DEF Siblings
<1>5. Abstract!Vanish
  <2>1. heldNow' = [g \in Files |-> IF g \in Siblings(p) THEN {} ELSE heldNow[g]]
    BY <1>3 DEF heldNow
  <2> QED
    BY <1>4, <2>1 DEF Abstract!Vanish
<1>6. Clean'
  <2>1. os'[p].reserved = "none" /\ inode'[p].eFileLock = NO
    BY <1>0, <1>1 DEF Die, NoLocks, NoInode, Bytes, TypeOK
  <2> QED
    BY <1>1, <1>2, <2>1, Unreserved, CleanStep DEF Inv
<1> QED
  BY <1>5, <1>6

-----------------------------------------------------------------------------
(* The whole.                                                              *)

\* Every step is one of FileLocks, or none, unless an fcntl fails without a conflict or a file
\* reads along with another of its process.
LEMMA NextImplements ==
  ASSUME Inv, [Next]_vars, intact'
  PROVE  [Abstract!Next \/ \E f \in Files : Abstract!Beside(f)]_heldNow /\ Clean'
<1>1. ASSUME NEW f \in Files, OpenFd(f) \/ FindInode(f) \/ OpenFails(f) \/ BeginClose(f) \/ EndClose(f)
      PROVE  UNCHANGED heldNow /\ Clean'
  BY <1>1, OpenFdQuiet, OpenFailsQuiet, EndCloseQuiet
<1>2. ASSUME NEW f \in Files, ReadPending(f) \/ WritePending(f) \/ Downgrade(f)
      PROVE  UNCHANGED heldNow /\ Clean'
  BY <1>2, BetweenCallsQuiet
<1>3. ASSUME NEW f \in Files, ShareInside(f) \/ Reserve(f) \/ Exclude(f)
      PROVE  (Abstract!Beside(f) \/ Abstract!Reserved(f) \/ Abstract!Pending(f) \/ Abstract!Exclusive(f)) /\ Clean'
  <2>1. CASE ShareInside(f)
    <3>1. intact
      BY <2>1 DEF ShareInside
    <3> QED
      BY <2>1, <3>1, ShareInsideTakes
  <2>2. CASE Reserve(f)
    BY <2>2, ReserveTakes
  <2>3. CASE Exclude(f)
    BY <2>3, ExcludeTakes
  <2> QED
    BY <1>3, <2>1, <2>2, <2>3
<1>4. ASSUME NEW f \in Files, Unreserve(f) \/ Leave(f)
      PROVE  [Abstract!Lower(f)]_heldNow /\ Clean'
  BY <1>4, UnreserveLowers, LeaveLowers
<1>5. ASSUME NEW p \in Processes, ReadShared(p) \/ DropPending(p)
      PROVE  (UNCHANGED heldNow \/ \E f \in Files : Abstract!Shared(f)) /\ Clean'
  BY <1>5, ReadSharedQuiet, DropPendingTakes
<1>6. ASSUME NEW p \in Processes, Die(p)
      PROVE  Abstract!Vanish /\ Clean'
  BY <1>6, DieVanishes
<1>7. CASE UNCHANGED vars
  <2>1. UNCHANGED heldNow
    BY <1>7 DEF vars, heldNow, HeldBy, IsReserved, Level
  <2>2. Clean'
    BY <1>7 DEF vars, Inv, Clean, Tidy
  <2> QED
    BY <2>1, <2>2
<1> QED
  BY <1>1, <1>2, <1>3, <1>4, <1>5, <1>6, <1>7 DEF Next, Abstract!Next

LEMMA InvHolds == Spec => []Inv
<1>1. Init => Inv
  <2>1. Init => Clean
    BY DEF Init, Clean, Tidy, NoLocks, NoInode, Bytes, NO, SHARED, RESERVED
  <2> QED
    BY <2>1, InitKeeps DEF Inv
<1>2. Inv /\ [Next]_vars => Inv'
  BY NextKeeps, NextImplements DEF Inv, Clean
<1> QED
  BY <1>1, <1>2, PTL DEF Spec

\* The fcntl calls of any number of processes and files implement locks that are taken in one
\* step each, as long as none fails without a conflict; a file that reads along with another of
\* its process is the one exception to what PENDING keeps out.
THEOREM Implementation == Spec => ImplementsFileLocks
<1>1. Init => Abstract!Init
  <2> SUFFICES ASSUME Init
               PROVE  Abstract!Init
    OBVIOUS
  <2>1. \A f \in Files : Level(f) = NO
    BY DEF Init, Level, NO, SHARED
  <2> QED
    BY <2>1, HeldAt DEF Abstract!Init, heldNow
<1>2. Inv /\ [Next]_vars => [intact' => [Abstract!Next \/ \E f \in Files : Abstract!Beside(f)]_heldNow]_vars
  BY NextImplements
<1> QED
  BY <1>1, <1>2, InvHolds, PTL DEF Spec, ImplementsFileLocks

-----------------------------------------------------------------------------
(* unixCheckReservedLock.                                                  *)

\* What is above SHARED in a process shows on one of its files.
ShowsOn(q, g) ==
  /\ Level(g) = inode[q].eFileLock
  /\ inode[q].eFileLock < PENDING => "reserved" \in HeldBy(g)
  /\ os[q].reserved = "write" => "reserved" \in HeldBy(g)
  /\ inode[q].eFileLock >= PENDING => "pending" \in HeldBy(g)

LEMMA Shows ==
  ASSUME Inv, intact, NEW q \in Processes, inode[q].eFileLock > SHARED
  PROVE  \E g \in Siblings(q) : ShowsOn(q, g)
<1>1. Tidy(q) /\ inode[q].eFileLock \in NO..EXCLUSIVE
  BY InodeType DEF Inv, IInv, Clean
<1>2. PICK g \in Siblings(q) : lock[g] = inode[q].eFileLock
  BY <1>1 DEF Tidy
<1>3. Owner[g] = q /\ Level(g) = inode[q].eFileLock
  BY <1>2 DEF Siblings, Level
<1>4. inode[q].eFileLock < PENDING => os[q].reserved = "write"
  BY <1>1 DEF Tidy, NO, SHARED, RESERVED, PENDING, EXCLUSIVE
<1>5. Level(g) >= RESERVED
  BY <1>1, <1>3 DEF NO, SHARED, RESERVED, EXCLUSIVE
<1>6. os[q].reserved = "write" => "reserved" \in HeldBy(g)
  BY <1>3, <1>5 DEF HeldBy, IsReserved
<1>7. inode[q].eFileLock >= PENDING => "pending" \in HeldBy(g)
  BY <1>3, Holds
<1> QED
  BY <1>2, <1>3, <1>4, <1>6, <1>7 DEF ShowsOn

\* A writer with a journal in the making is seen by every reader of every process, and nothing
\* but a PENDING file of the same process is taken for one, as long as no fcntl fails without a
\* conflict.
THEOREM ReservedSeen == Spec => []ReservedIsSeen
<1>1. ASSUME Inv
      PROVE  ReservedIsSeen
  <2> SUFFICES ASSUME intact, NEW f \in Files, Level(f) = SHARED
               PROVE  CheckReservedLock(f) <=> Abstract!SeesReserved(f)
    BY DEF ReservedIsSeen
  <2>1. PICK p \in Processes : p = Owner[f]
    BY OwnerType
  <2>2. IInv /\ TypeOK /\ Clean
    BY <1>1 DEF Inv, IInv
  <2>3. ASSUME CheckReservedLock(f)
        PROVE  Abstract!SeesReserved(f)
    <3>1. PICK q \in Processes : inode[q].eFileLock > SHARED /\ (q = p \/ os[q].reserved = "write")
      <4>1. CASE inode[p].eFileLock > SHARED
        BY <4>1
      <4>2. CASE ~Grantable(p, "reserved", "write")
        <5>1. PICK q \in Processes \ {p} : os[q].reserved # "none"
          BY <4>2 DEF Grantable
        <5>2. Tidy(q) /\ inode[q].eFileLock \in NO..EXCLUSIVE
          BY <2>2, InodeType DEF Clean
        <5>3. os[q].reserved = "write"
          BY <2>2, <5>1, <5>2 DEF Tidy, TypeOK, Bytes
        <5>4. inode[q].eFileLock > SHARED
          BY <5>2, <5>3 DEF Tidy, NO, SHARED, EXCLUSIVE
        <5> QED
          BY <5>3, <5>4
      <4> QED
        BY <2>1, <2>3, <4>1, <4>2 DEF CheckReservedLock
    <3>2. PICK g \in Siblings(q) : ShowsOn(q, g)
      BY <1>1, <3>1, Shows
    <3>3. g \in Files \ {f} /\ Owner[g] = q /\ inode[q].eFileLock \in NO..EXCLUSIVE
      <4>1. inode[q].eFileLock \in NO..EXCLUSIVE
        BY <2>2, InodeType
      <4>2. Level(g) # Level(f)
        BY <3>1, <3>2, <4>1 DEF ShowsOn, NO, SHARED, EXCLUSIVE
      <4> QED
        BY <3>2, <4>1, <4>2 DEF Siblings
    <3>4. CASE "reserved" \in HeldBy(g)
      BY <3>3, <3>4 DEF Abstract!SeesReserved, Abstract!Others, heldNow
    <3>5. CASE "reserved" \notin HeldBy(g)
      <4>1. q = p /\ "pending" \in HeldBy(g)
        BY <3>1, <3>2, <3>3, <3>5 DEF ShowsOn, NO, PENDING, EXCLUSIVE
      <4> QED
        BY <2>1, <3>3, <4>1 DEF Abstract!SeesReserved, Abstract!Siblings, Abstract!Others, heldNow
    <3> QED
      BY <3>4, <3>5
  <2>4. ASSUME Abstract!SeesReserved(f)
        PROVE  CheckReservedLock(f)
    <3>1. CASE \E g \in Files \ {f} : "reserved" \in HeldBy(g)
      <4>1. PICK g \in Files \ {f} : "reserved" \in HeldBy(g)
        BY <3>1
      <4>2. PICK q \in Processes : q = Owner[g]
        BY OwnerType
      <4>3. Level(g) >= RESERVED /\ os[q].reserved = "write"
        BY <4>1, <4>2, Holds
      <4>4. CASE q = p
        <5>1. Level(g) >= SHARED /\ Level(g) \in NO..EXCLUSIVE
          BY <2>2, <4>3, LevelType DEF NO, SHARED, RESERVED, EXCLUSIVE
        <5>2. Level(g) <= inode[p].eFileLock /\ inode[p].eFileLock \in NO..EXCLUSIVE
          BY <2>2, <4>2, <4>4, <5>1, LevelOf, InodeType
        <5>3. inode[p].eFileLock > SHARED
          BY <4>3, <5>1, <5>2 DEF NO, SHARED, RESERVED, EXCLUSIVE
        <5> QED
          BY <2>1, <5>3 DEF CheckReservedLock
      <4>5. CASE q # p
        BY <2>1, <4>3, <4>5 DEF CheckReservedLock, Grantable
      <4> QED
        BY <4>4, <4>5
    <3>2. CASE \E g \in Files \ {f} : Owner[g] = p /\ "pending" \in HeldBy(g)
      <4>1. PICK g \in Files \ {f} : Owner[g] = p /\ "pending" \in HeldBy(g)
        BY <3>2
      <4>2. Level(g) >= PENDING
        BY <4>1, Holds
      <4>3. inode[p].eFileLock >= PENDING /\ inode[p].eFileLock \in NO..EXCLUSIVE
        BY <2>2, <4>1, <4>2, FilesAreBacked, InodeType
      <4> QED
        BY <2>1, <4>3 DEF CheckReservedLock, NO, SHARED, PENDING, EXCLUSIVE
    <3> QED
      BY <2>1, <2>4, <3>1, <3>2 DEF Abstract!SeesReserved, Abstract!Siblings, Abstract!Others, heldNow
  <2> QED
    BY <2>3, <2>4
<1> QED
  BY <1>1, InvHolds, PTL
=============================================================================
