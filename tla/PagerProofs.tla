---------------------------- MODULE PagerProofs ----------------------------
(***************************************************************************)
(* Proofs about the rollback journal for any number of connections, pages   *)
(* and transactions, in all journal modes, with crashes, failing calls and   *)
(* power failures: the pager implements an atomic database, caches are      *)
(* current, and nobody reads what is to be rolled back.                     *)
(*                                                                         *)
(* IInv, the inductive invariant, comes first.  At each of its steps a      *)
(* writer knows which pages of the file differ from what the file and a     *)
(* hot journal amount to (Image), and that each of them has a record that   *)
(* was synced before the page was written; Survives says that this is       *)
(* enough for every outcome of a power failure.  Then lemmas about the      *)
(* journal as playback reads it, one lemma for each step of the pager, and  *)
(* the step of the abstract database that each of them amounts to.          *)
(*                                                                         *)
(* Two conditions: each connection is in a process of its own (Apart), and  *)
(* no record ends where a header may begin (Unaligned).                     *)
(***************************************************************************)
EXTENDS Pager, FiniteSetTheorems, SequenceTheorems, WellFoundedInduction, TLAPS

-----------------------------------------------------------------------------
(* What the variables may hold.                                            *)

Inits == 2..(MaxTxn + 1)
Stamps == 0..(MaxTxn + 1)
Sizes == 0..MaxPage
Slots == 1..MaxSlot
Offsets == 0..MaxSlot
Cached == Values \union {NotCached}

\* What a slot of the journal may hold: a header, a record, or neither.
Hdr == [kind : {"hdr"}, magic : BOOLEAN, n : Offsets, orig : Pages, init : Inits]
Rec == [kind : {"rec"}, pg : Pages, val : Values, init : Inits]
Slot == Hdr \union Rec \union {Empty, Zeroed, Junk}

Journal == [exists : BOOLEAN, durable : BOOLEAN, slots : [Slots -> Slot], disk : [Slots -> SUBSET Slot]]

\* The Pager object of a connection.
Connection ==
  [eState : States, at : Steps, cache : [Pages -> Cached], dirty : SUBSET Pages,
   needSync : SUBSET Pages, inJournal : SUBSET Pages, dbFileVers : Values, dbSize : Sizes,
   dbOrigSize : Sizes, journalHdr : Offsets, journalOff : Offsets, own : Offsets, stamp : Stamps,
   todo : SUBSET Nat, spilling : BOOLEAN]

JournalOK(j) == j \in Journal /\ (\A k \in Slots : j.slots[k] \in j.disk[k]) /\ (~j.exists => j = NoJournal)

FileOK(f, doubts) == f \in [Pages -> Values] /\ doubts \in [Pages -> SUBSET Values] /\ \A p \in Pages : f[p] \in doubts[p]

LockNames == {"shared", "reserved", "pending", "exclusive"}

\* Every variable stays in its range, and what a file holds is among what it may hold after a
\* power failure.
Typed ==
  /\ pager \in [Conns -> Connection] /\ held \in [Conns -> SUBSET LockNames]
  /\ FileOK(db, dbDisk) /\ JournalOK(jrnl) /\ JournalOK(ghost)
  /\ mode \in Modes /\ txn \in 0..TxnsIn[mode]

-----------------------------------------------------------------------------
(* Locks.  P is the Pager object of a connection, H are its locks, j is a   *)
(* journal, s its slots, f a file and I what f and j amount to.            *)

\* The steps of hasHotJournal and what follows it, those of a rollback, those of a transaction, ...
Looking == {"exists", "reserved", "first-byte", "exclusive", "version"}
Rolling == {"pages", "sync", "finalize"}
Recovering == {"reopen", "playback"} \union Rolling
Live == {"cachemod", "dbmod", "finished"}
Filling == {"prepare", "sync-records", "finish", "sync-header"}

\* The locks of a connection at each of its steps.
Locks(P, H) ==
  /\ P.eState = "open" =>
       \/ P.at = "idle" /\ H = {}
       \/ P.at \in Looking /\ H = {"shared"}
       \/ P.at = "give-up" /\ "shared" \in H /\ H \subseteq {"shared", "pending"}
       \/ P.at \in Recovering /\ H = {"shared", "pending", "exclusive"}
  /\ P.eState = "reader" => P.at = "idle" /\ H = {"shared"}
  /\ P.eState = "locked" => P.at = "idle" /\ H = {"shared", "reserved"}
  /\ P.eState = "error" => P.at = "idle" /\ "shared" \in H
  /\ P.eState \in Live => {"shared", "reserved"} \subseteq H
  /\ P.eState = "cachemod" => P.at \in {"idle", "lock", "playback"} \union Filling \union Rolling
  /\ P.eState = "dbmod" =>
       /\ "exclusive" \in H
       /\ P.at \in {"idle", "lock", "write", "sync-db", "playback"} \union Filling \union Rolling
  /\ P.eState = "finished" => "exclusive" \in H /\ P.at \in {"idle", "commit", "playback"} \union Rolling
  /\ P.at \in Filling => "exclusive" \in H
  /\ H # {} => "shared" \in H
  /\ "exclusive" \in H => "pending" \in H

\* Two connections: EXCLUSIVE is alone, and RESERVED is held once.
Exclude(H, G) == ("exclusive" \in H => G = {}) /\ ("reserved" \in H => "reserved" \notin G)

\* A journal that a rollback would play back.
IsHot(j) == j.exists /\ HasMagic(j.slots[1])

\* Who has a lock and no exclusive one has made sure that there is none, or made it so.
Passed(P, H, j) ==
  /\ P.eState \in {"reader", "locked"} \/ (P.eState = "open" /\ P.at = "version") => ~IsHot(j)
  /\ "reserved" \in H /\ IsHot(j) => "exclusive" \in H

\* A connection that writes nothing has nothing of a transaction.
Resting(P) ==
  P.eState \notin Live =>
    /\ P.dirty = {} /\ P.needSync = {} /\ P.inJournal = {} /\ ~P.spilling /\ P.own = 0 /\ P.journalHdr = 0
    /\ P.todo # {} <=> P.eState = "open" /\ P.at = "pages"

-----------------------------------------------------------------------------
(* The journal of a writer.                                                *)

\* The records up to a slot are found.
Reached(s, own, m) == m = 0 \/ \E g \in Headers(s, own) : Leads(s, own, g, m + 1)

Recs(s, m) == {i \in 1..m : s[i].kind = "rec"}

Counted(P, s) == P.own # 0 /\ s[P.own].magic

\* The bound on the slots is never met: two for each page that is journaled, and the headers.
Room(P) == P.journalOff <= 2 * Cardinality(P.inJournal) + (IF P.eState # "cachemod" /\ P.needSync = {} THEN 2 ELSE 1)

\* What a writer has put into its journal: headers and records, ...
Placed(P) == P.journalOff \in Slots /\ P.inJournal \subseteq 1..P.dbOrigSize

\* ... all of this transaction, ...
Ours(P, s) ==
  \A i \in 1..P.journalOff :
    /\ s[i].kind \in {"hdr", "rec"} /\ s[i].init = P.stamp
    /\ s[i].kind = "rec" => s[i].pg \in P.inJournal

\* ... with those of each page that has been journaled before the current header, unless they need
\* a sync, ...
Recorded(P, s) ==
  \A p \in P.inJournal : \E i \in Recs(s, P.journalOff) : s[i].pg = p /\ (p \notin P.needSync => i <= P.journalHdr)

\* ... while nothing of it lies behind them, ...
Left(P, s) == \A i \in (P.journalOff + 1)..MaxSlot : s[i].kind \in {"hdr", "rec"} => s[i].init # P.stamp

\* ... whose records come last.
Segment(P, s) ==
  IF P.own = 0 THEN P.journalHdr = P.journalOff
  ELSE /\ P.own = P.journalHdr + 1 /\ P.own <= P.journalOff /\ s[P.own].kind = "hdr"
       /\ \A i \in (P.own + 1)..P.journalOff : s[i].kind = "rec"
       /\ s[P.own].n = IF s[P.own].magic THEN P.journalOff - P.own ELSE 0

\* A header that nobody has counted, or that is about to be, is not followed by an older one
\* (sqlite3.c:50564 to 50593).
Ends(P, s) ==
  P.own = 0 \/ Counted(P, s) \/ P.at \in {"sync-records", "finish"} =>
    (P.journalOff < MaxSlot => ~HasMagic(s[P.journalOff + 1]))

\* What is true of the journal from its first header to the commit.
Written(P, s) ==
  /\ Placed(P) /\ Room(P) /\ s[1].kind = "hdr" /\ s[1].orig = P.dbOrigSize
  /\ Ours(P, s) /\ Recorded(P, s) /\ Left(P, s)
  /\ Reached(s, 0, P.journalHdr) /\ Segment(P, s) /\ Ends(P, s)

\* How far it has come.
Stage(P, j) ==
  /\ P.eState = "cachemod" <=> P.journalHdr = 0
  /\ P.own = 0 => P.at \notin {"lock"} \union Filling /\ (P.at = "idle" => P.eState = "finished") /\ (P.at = "write" => ~P.spilling)
  /\ P.own # 0 => P.eState # "finished" /\ P.at # "sync-db" /\ (P.at = "write" => P.spilling)
  /\ P.at = "sync-header" => Counted(P, j.slots)
  /\ Counted(P, j.slots) => P.at \in {"sync-header", "playback"} \union Rolling
  /\ P.journalHdr # 0 \/ Counted(P, j.slots) \/ P.at = "finish" => j.durable

\* The records hold what the pages were.
Kept(P, s, I) == \A i \in Recs(s, P.journalOff) : s[i].val = I[s[i].pg]

\* A database of n pages.
Sized(I, n) == n \in Pages /\ \A p \in Pages : I[p] = Absent <=> p > n

-----------------------------------------------------------------------------
(* The pages of a writer.                                                  *)

\* The pages that the transaction has changed, and what it makes of each.
Touched(P) == P.inJournal \union {p \in Pages : P.dbOrigSize < p /\ p <= P.dbSize}
Target(P, I, p) == IF p \notin Touched(P) THEN I[p] ELSE IF p = 1 THEN I[1] + 1 ELSE P.stamp

\* The steps at which there are pages to write.
Pending == {"lock", "write"} \union Filling

\* A page is in the file as it was or as it shall be, and in the latter case is journaled on disk;
\* the cache has the latter, and what it alone has is dirty.
PageOK(P, f, I, p) ==
  /\ P.cache[p] \in {NotCached, Target(P, I, p)}
  /\ p \in P.dirty => P.cache[p] = Target(P, I, p)
  /\ p \notin P.dirty => f[p] = Target(P, I, p)
  /\ f[p] \in {I[p], Target(P, I, p)}
  /\ p <= P.dbOrigSize /\ f[p] # I[p] => p \notin P.needSync

Changed(P, f, I) ==
  /\ P.dbSize >= P.dbOrigSize /\ P.dirty \subseteq Touched(P)
  /\ \A p \in Pages : PageOK(P, f, I, p)
  /\ P.eState = "cachemod" => f = I
  /\ P.cache[1] # NotCached /\ P.dbFileVers = f[1]

\* What is about to be written, and that page 1 with the change counter comes last.
Planned(P, f, I) ==
  /\ P.eState # "finished" /\ (P.spilling \/ P.at \notin {"write", "sync-db", "playback"}) => f[1] = I[1]
  /\ P.at \in Pending =>
       /\ P.todo # {} /\ P.todo \subseteq P.dirty
       /\ P.spilling => 1 \notin P.todo /\ \E p \in Pages : P.todo = {p}
       /\ ~P.spilling => P.todo = P.dirty /\ 1 \in Touched(P)
  /\ P.at \notin Pending => P.todo = {} /\ ~P.spilling
  /\ P.at = "write" => \A p \in P.todo : p <= P.dbOrigSize => p \notin P.needSync
  /\ P.at = "sync-db" \/ P.eState = "finished" => P.dirty = {} /\ 1 \in Touched(P)
  /\ P.at \in {"lock"} \union Filling /\ P.spilling /\ P.eState = "dbmod" => P.todo \subseteq P.needSync

\* The connection rolls back its own transaction: whatever is not yet as it was has a record left.
Undone(P, s, f, I) ==
  /\ P.dbSize = P.dbOrigSize
  /\ P.todo \subseteq Recs(s, P.journalOff) /\ (P.todo # {} <=> P.at = "pages")
  /\ P.cache[1] # NotCached
  /\ P.dbFileVers = I[1] \/ \E i \in P.todo : s[i].pg = 1
  /\ \A p \in Pages :
       /\ P.cache[p] \in {NotCached, I[p]} \/ p > P.dbOrigSize \/ \E i \in P.todo : s[i].pg = p
       /\ f[p] = I[p] \/ \E i \in P.todo : s[i].pg = p /\ i <= P.journalHdr
  /\ P.eState = "cachemod" => f = I

\* A connection with a transaction.
Writes(P, j, f, I, t) ==
  P.eState \in Live =>
    /\ j.exists /\ P.stamp = t + 1 /\ I[1] <= t /\ Sized(I, P.dbOrigSize)
    /\ Written(P, j.slots) /\ Stage(P, j) /\ Kept(P, j.slots, I)
    /\ P.at \notin Rolling => Changed(P, f, I) /\ Planned(P, f, I)
    /\ P.at \in Rolling => Undone(P, j.slots, f, I)

-----------------------------------------------------------------------------
(* Everybody else.                                                         *)

\* A connection that rolls back a hot journal: what is not yet as it was has a record left.
Recovers(P, j, f, I) ==
  P.eState = "open" =>
    /\ P.at \in {"playback"} \union Rolling => j.exists /\ j.durable
    /\ P.at \in Rolling /\ IsHot(j) =>
         /\ P.todo \subseteq Played(j.slots, 0)
         /\ \A p \in Pages : f[p] = I[p] \/ \E i \in P.todo : j.slots[i].pg = p
    /\ P.todo # {} => IsHot(j) /\ \A p \in Pages : P.cache[p] = NotCached

\* What is in a cache is what is in the database.
Fits(P, I) == \A p \in Pages : P.cache[p] \in {NotCached, I[p]}

\* A connection without a transaction: a cache whose change counter is that of the database fits.
Knows(P, I) ==
  /\ P.eState = "open" => P.dbFileVers <= I[1] /\ (P.dbFileVers = I[1] => Fits(P, I))
  /\ P.eState \in {"reader", "locked"} => P.dbFileVers = I[1] /\ P.cache[1] # NotCached /\ Sized(I, P.dbSize) /\ Fits(P, I)
  /\ P.eState = "locked" => P.dbOrigSize = P.dbSize

\* All of this, of one connection.
Known(P, H, j, f, I, t) ==
  Locks(P, H) /\ Passed(P, H, j) /\ Resting(P) /\ Writes(P, j, f, I, t) /\ Recovers(P, j, f, I) /\ Knows(P, I)

\* A committed database: a number of pages, stamped by transactions that have begun.
Solid(I, t) == I \in [Pages -> 0..(t + 1)] /\ \E n \in Pages : Sized(I, n)

\* Nothing in a journal is from the future.
Dated(j, t) == \A k \in Slots : \A x \in j.disk[k] : x.kind \in {"hdr", "rec"} => x.init <= t + 1

\* What the journal j would make of the file f.
ImageOf(f, j) == IF j.exists THEN Replayed(f, j.slots) ELSE f

\* The records that would be played back hold what the database amounts to.
Agrees(j, I) == \A i \in Played(j.slots, 0) : j.slots[i].val = I[j.slots[i].pg]

\* What the files amount to; an old journal may come back in mode delete without EXTRA only.
Files ==
  /\ Solid(Image, txn) /\ Dated(jrnl, txn) /\ Dated(ghost, txn)
  /\ IsHot(jrnl) => jrnl.durable /\ Agrees(jrnl, Image)
  /\ ghost.exists => Solid(ImageOf(db, ghost), txn) /\ ~IsHot(jrnl) /\ mode = "delete" /\ ~ExtraSync

-----------------------------------------------------------------------------
(* What the power may do.  dd are the contents that a page may have then.   *)

\* What a sync has settled: every page, or one slot; and no header may be found in a slot.
Certain(f, dd) == \A p \in Pages : dd[p] = {f[p]}
Firm(j, k) == j.disk[k] = {j.slots[k]}
Unmarked(j, k) == \A x \in j.disk[k] : ~HasMagic(x)

\* A file and a journal that a power failure may leave: unsynced pages and slots are old, new or torn.
MayBe(f, x, dd, j) ==
  /\ f \in [Pages -> Values] /\ \A p \in Pages : f[p] \in Outcomes(dd[p], Torn)
  /\ x \in [Slots -> Slot] /\ \A k \in Slots : x[k] \in Outcomes(j.disk[k], Junk)

\* A rollback of them restores the database, from what it was.
Amounts(f, x, I) ==
  /\ Replayed(f, x) = I
  /\ HasMagic(x[1]) => \A i \in Played(x, 0) : x[i].val = I[x[i].pg]

\* ... whatever the power leaves.
Survives(dd, j, I) == \A f, x : MayBe(f, x, dd, j) => Amounts(f, x, I)

\* What a writer has synced: records before the header that counts them, and both before a page
\* that they restore is written.
FirmWriter(P, j, f, dd) ==
  P.eState \in Live =>
    /\ \A k \in 1..P.journalHdr : Firm(j, k)
    /\ P.at \in {"finish", "sync-header"} => \A k \in 1..P.journalOff : k = P.own \/ Firm(j, k)
    /\ P.own # 0 /\ P.at # "sync-header" => Unmarked(j, P.own)
    /\ P.own = 0 \/ P.at \in {"finish", "sync-header"} => (P.journalOff < MaxSlot => Unmarked(j, P.journalOff + 1))
    /\ P.eState = "cachemod" \/ (P.eState = "finished" /\ P.at \notin Rolling) \/ P.at = "finalize" => Certain(f, dd)
    /\ \A p \in Pages : dd[p] = {f[p]} \/ p > P.dbOrigSize \/ \E i \in Recs(j.slots, P.journalHdr) : j.slots[i].pg = p

\* What a rollback may rely on: the journal was synced when it was found (sqlite3.c:51520).
FirmRecovery(P, j, f, dd) ==
  P.eState = "open" =>
    /\ P.at \in {"playback"} \union Rolling => \A k \in Slots : Firm(j, k)
    /\ P.at \in Rolling /\ IsHot(j) =>
         \A p \in Pages : dd[p] = {f[p]} \/ p > j.slots[1].orig \/ \E i \in Played(j.slots, 0) : j.slots[i].pg = p
    /\ P.at = "finalize" => Certain(f, dd)

Firmly(P, j, f, dd) == FirmWriter(P, j, f, dd) /\ FirmRecovery(P, j, f, dd)

\* What a power failure may find: a hot journal survives it; without one the file is certain; and an
\* old journal that comes back restores the database before it.
Durable(f, dd, j, g, I) ==
  /\ IsHot(j) => Survives(dd, j, I)
  /\ ~IsHot(j) => Certain(f, dd) /\ Unmarked(j, 1)
  /\ g.exists => Survives(dd, g, ImageOf(f, g))

\* ... as long as the disk keeps its promises.
Safe == sound => Durable(db, dbDisk, jrnl, ghost, Image) /\ \A c \in Conns : Firmly(pager[c], jrnl, db, dbDisk)

\* Nothing else can come back once a header is about to get its magic.
Alone == \A c \in Conns : pager[c].at = "finish" => ~ghost.exists

\* The inductive invariant: types and files, what each connection knows, locks, and what survives.
IInv ==
  /\ Typed /\ Files /\ Alone
  /\ \A c \in Conns : Known(pager[c], held[c], jrnl, db, Image, txn)
  /\ \A c, d \in Conns : c # d => Exclude(held[c], held[d])
  /\ Safe

-----------------------------------------------------------------------------
(* Numbers.                                                                *)

\* Min and Max of CommunityModules are what they are called.
LEMMA LeastOf ==
  ASSUME NEW S \in SUBSET Nat, S # {}
  PROVE  Min(S) \in S /\ \A y \in S : Min(S) <= y
<1>1. PICK x \in S : \A y \in S : << y, x >> \notin OpToRel(<, Nat)
  BY NatLessThanWellFounded, WFMin
<1>2. x \in Nat /\ \A y \in S : y \in Nat /\ ~(y < x)
  BY <1>1 DEF OpToRel
<1>3. \A y \in S : x <= y
  BY <1>2
<1>4. \E m \in S : \A y \in S : m =< y
  BY <1>3
<1> QED
  BY <1>4 DEF Min

LEMMA GreatestOf ==
  ASSUME NEW n \in Nat, NEW S \in SUBSET (0..n), S # {}
  PROVE  Max(S) \in S /\ \A y \in S : y <= Max(S)
<1> DEFINE T == {n - x : x \in S}
<1>1. T \in SUBSET Nat /\ T # {}
  <2>1. \A x \in S : x \in Nat /\ n - x \in Nat
    OBVIOUS
  <2> QED
    BY <2>1
<1>2. Min(T) \in T /\ \A y \in T : Min(T) <= y
  BY <1>1, LeastOf
<1>3. PICK m \in S : Min(T) = n - m
  BY <1>2
<1>4. \A y \in S : n - m <= n - y
  BY <1>2, <1>3
<1>5. \A y \in S : m >= y
  BY <1>4
<1> QED
  BY <1>5 DEF Max

LEMMA Bounds ==
  /\ MaxPage \in Nat /\ MaxSlot \in Nat /\ MaxTxn \in Nat /\ MaxSlot >= 2 * MaxPage + 2
  /\ Torn \in Nat /\ NotCached \in Nat /\ Torn = MaxTxn + 2 /\ NotCached = MaxTxn + 3
  /\ Pages \subseteq Nat /\ Slots \subseteq Nat /\ 1 \in Slots
BY PagerAssumption DEF Torn, NotCached, Pages, Slots

LEMMA SlotKinds ==
  ASSUME NEW x \in Slot
  PROVE  /\ x.kind = "hdr" => x \in Hdr /\ x.magic \in BOOLEAN /\ x.n \in Offsets /\ x.orig \in Pages /\ x.init \in Inits
         /\ x.kind = "rec" => x \in Rec /\ x.pg \in Pages /\ x.val \in Values /\ x.init \in Inits
         /\ x.kind \notin {"hdr", "rec"} => x \in {Empty, Zeroed, Junk}
BY DEF Slot, Hdr, Rec, Empty, Zeroed, Junk

-----------------------------------------------------------------------------
(* The headers that are found in a journal.                                *)

\* The headers among the first h slots, for each h up to n.
AreHeaders(x, s, own, n) ==
  x = [h \in 0..n |-> IF h = 0 THEN {} ELSE WithHeader(x[h - 1], s, own, h)]

\* They are well defined.
LEMMA HeaderRecursion ==
  ASSUME NEW s, NEW own, NEW n \in Nat
  PROVE  \E x : AreHeaders(x, s, own, n)
<1> DEFINE Bad == {k \in Nat : ~\E x : x = [h \in 0..k |-> IF h = 0 THEN {} ELSE WithHeader(x[h - 1], s, own, h)]}
<1>1. SUFFICES ASSUME n \in Bad
               PROVE  FALSE
  BY DEF AreHeaders
<1>2. PICK k \in Bad : \A i \in Bad : k <= i
  <2>1. Bad \in SUBSET Nat /\ Bad # {}
    BY <1>1
  <2> HIDE DEF Bad
  <2> QED
    BY <2>1, LeastOf
<1>3. CASE k = 0
  <2>1. PICK x : x = [j \in 0..0 |-> {}]
    OBVIOUS
  <2>2. x = [j \in 0..0 |-> IF j = 0 THEN {} ELSE WithHeader(x[j - 1], s, own, j)]
    BY <2>1
  <2> QED
    BY <1>2, <1>3, <2>2
<1>4. CASE k # 0
  <2>1. k \in Nat /\ k - 1 \in Nat /\ k - 1 \notin Bad
    <3>1. k \in Nat
      BY <1>2
    <3> HIDE DEF Bad
    <3>2. k - 1 \in Nat /\ ~(k <= k - 1)
      BY <1>4, <3>1
    <3> QED
      BY <1>2, <3>1, <3>2
  <2>2. PICK x : x = [j \in 0..(k - 1) |-> IF j = 0 THEN {} ELSE WithHeader(x[j - 1], s, own, j)]
    BY <2>1
  <2>3. PICK y : y = [j \in 0..k |-> IF j < k THEN x[j] ELSE WithHeader(x[j - 1], s, own, j)]
    OBVIOUS
  <2>4. ASSUME NEW j \in 0..k
        PROVE  y[j] = IF j = 0 THEN {} ELSE WithHeader(y[j - 1], s, own, j)
    <3>1. j # 0 => j - 1 \in 0..k /\ j - 1 < k /\ y[j - 1] = x[j - 1]
      BY <2>1, <2>3
    <3>2. CASE j < k
      <4>1. y[j] = x[j] /\ j \in 0..(k - 1)
        BY <2>1, <2>3, <3>2
      <4>2. x[j] = IF j = 0 THEN {} ELSE WithHeader(x[j - 1], s, own, j)
        BY <2>2, <4>1
      <4> QED
        BY <3>1, <4>1, <4>2
    <3>3. CASE ~(j < k)
      <4>1. j # 0 /\ y[j] = WithHeader(x[j - 1], s, own, j)
        BY <1>4, <2>1, <2>3, <3>3
      <4> QED
        BY <3>1, <4>1
    <3> QED
      BY <3>2, <3>3
  <2>5. y = [j \in 0..k |-> IF j = 0 THEN {} ELSE WithHeader(y[j - 1], s, own, j)]
    BY <2>3, <2>4
  <2> QED
    BY <1>2, <2>5
<1> QED
  BY <1>3, <1>4

\* A header is the first slot, or a header before it leads to it.
LEMMA HeadersAre ==
  ASSUME NEW s, NEW own
  PROVE  /\ Headers(s, own) \subseteq Slots
         /\ \A h \in Slots : h \in Headers(s, own) <=>
              Begins(s, own, h) /\ (h = 1 \/ \E g \in Headers(s, own) : g < h /\ Leads(s, own, g, h))
<1> DEFINE x == CHOOSE y : AreHeaders(y, s, own, MaxSlot)
<1>1. Headers(s, own) = x[MaxSlot]
  BY DEF Headers, AreHeaders
<1>2. AreHeaders(x, s, own, MaxSlot)
  <2>1. \E y : AreHeaders(y, s, own, MaxSlot)
    BY HeaderRecursion, Bounds
  <2> QED
    BY <2>1
<1> HIDE DEF x
<1> DEFINE Q(h) == /\ x[h] \subseteq 1..h
                   /\ \A n \in 1..h : n \in x[h] <=> Begins(s, own, n) /\ (n = 1 \/ \E g \in x[h] : g < n /\ Leads(s, own, g, n))
           Bad == {h \in 0..MaxSlot : ~Q(h)}
<1>3. x[0] = {} /\ \A h \in 1..MaxSlot : x[h] = WithHeader(x[h - 1], s, own, h)
  <2>1. x = [h \in 0..MaxSlot |-> IF h = 0 THEN {} ELSE WithHeader(x[h - 1], s, own, h)]
    BY <1>2 DEF AreHeaders
  <2>2. \A h \in 0..MaxSlot : x[h] = IF h = 0 THEN {} ELSE WithHeader(x[h - 1], s, own, h)
    BY <2>1
  <2>3. 0 \in 0..MaxSlot /\ \A h \in 1..MaxSlot : h \in 0..MaxSlot /\ h # 0
    BY Bounds
  <2> QED
    BY <2>2, <2>3
<1>4. Q(0)
  BY <1>3
<1>5. ASSUME NEW h \in 1..MaxSlot, Q(h - 1)
      PROVE  Q(h)
  <2>1. h - 1 \in Nat /\ h \in Nat
    OBVIOUS
  <2>2. PICK S : S = x[h - 1]
    OBVIOUS
  <2>3. \A g \in S : g \in Nat /\ g >= 1 /\ g < h
    BY <1>5, <2>1, <2>2
  <2>4. \A n \in 1..(h - 1) : n \in S <=> Begins(s, own, n) /\ (n = 1 \/ \E g \in S : g < n /\ Leads(s, own, g, n))
    BY <1>5, <2>2
  <2>5. x[h] = WithHeader(S, s, own, h)
    BY <1>3, <2>2
  <2>6. \A g : g \in x[h] <=> g \in S \/ (g = h /\ Begins(s, own, h) /\ (h = 1 \/ \E e \in S : Leads(s, own, e, h)))
    BY <2>5 DEF WithHeader
  <2>7. ASSUME NEW n \in 1..h
        PROVE  n \in x[h] <=> Begins(s, own, n) /\ (n = 1 \/ \E g \in x[h] : g < n /\ Leads(s, own, g, n))
    <3>1. \A g : g \in x[h] /\ g < n <=> g \in S /\ g < n
      BY <2>1, <2>6
    <3>2. CASE n = h
      BY <2>1, <2>3, <2>6, <3>1, <3>2
    <3>3. CASE n # h
      <4>1. n \in 1..(h - 1)
        BY <2>1, <3>3
      <4>2. n \in x[h] <=> n \in S
        BY <2>6, <3>3
      <4> QED
        BY <2>4, <3>1, <4>1, <4>2
    <3> QED
      BY <3>2, <3>3
  <2>8. x[h] \subseteq 1..h
    BY <2>1, <2>3, <2>6
  <2> QED
    BY <2>7, <2>8
<1>6. Q(MaxSlot)
  <2>1. SUFFICES ASSUME MaxSlot \in Bad
                 PROVE  FALSE
    BY Bounds
  <2>2. PICK h \in Bad : \A i \in Bad : h <= i
    <3>1. Bad \in SUBSET Nat /\ Bad # {}
      BY <2>1
    <3> HIDE DEF Bad
    <3> QED
      BY <3>1, LeastOf
  <2>3. h \in 0..MaxSlot /\ ~Q(h)
    BY <2>2
  <2>4. h # 0
    BY <1>4, <2>3
  <2>5. h \in 1..MaxSlot /\ h - 1 \in 0..MaxSlot /\ ~(h <= h - 1)
    BY <2>3, <2>4, Bounds
  <2>6. Q(h - 1)
    BY <2>2, <2>5
  <2> QED
    BY <1>5, <2>3, <2>5, <2>6
<1> QED
  BY <1>1, <1>6 DEF Slots

\* What is true of a header if it is true of the headers before it is true of every header.
LEMMA HeaderInduction ==
  ASSUME NEW s, NEW own, NEW S,
         \A h \in Headers(s, own) : (\A g \in Headers(s, own) : g < h => g \in S) => h \in S
  PROVE  Headers(s, own) \subseteq S
<1> DEFINE Bad == {h \in Headers(s, own) : h \notin S}
<1>1. SUFFICES ASSUME Bad # {}
               PROVE  FALSE
  OBVIOUS
<1>2. Bad \in SUBSET Nat
  BY HeadersAre, Bounds
<1>3. PICK h \in Bad : \A i \in Bad : h <= i
  <2> HIDE DEF Bad
  <2> QED
    BY <1>1, <1>2, LeastOf
<1>4. \A g \in Headers(s, own) : g < h => g \in S
  <2>1. ASSUME NEW g \in Headers(s, own), g < h, g \notin S
        PROVE  FALSE
    <3>1. g \in Bad /\ g \in Nat /\ h \in Nat
      BY <1>2, <2>1
    <3>2. h <= g
      BY <1>3, <3>1
    <3> QED
      BY <2>1, <3>1, <3>2
  <2> QED
    BY <2>1
<1> QED
  BY <1>3, <1>4

LEMMA HeaderFields ==
  ASSUME NEW s \in [Slots -> Slot], NEW own, NEW h \in Headers(s, own)
  PROVE  /\ h \in Slots /\ h \in Nat /\ h >= 1 /\ h <= MaxSlot /\ s[h].kind = "hdr" /\ s[h] \in Hdr
         /\ Begins(s, own, h) /\ Claims(s, own, h) \in 0..MaxSlot /\ Claims(s, own, h) \in Nat
<1>1. h \in Slots /\ Begins(s, own, h)
  BY HeadersAre
<1>2. h \in Nat /\ h >= 1 /\ h <= MaxSlot /\ MaxSlot \in Nat
  BY <1>1, Bounds DEF Slots
<1>3. s[h] \in Slot /\ s[h].kind = "hdr"
  BY <1>1 DEF Begins, IsHeader
<1>4. s[h] \in Hdr /\ s[h].n \in 0..MaxSlot
  BY <1>3, SlotKinds DEF Offsets
<1>5. MaxSlot - h \in 0..MaxSlot
  BY <1>2
<1>6. Claims(s, own, h) \in 0..MaxSlot
  BY <1>4, <1>5 DEF Claims
<1>7. Claims(s, own, h) \in Nat
  BY <1>2, <1>6
<1> QED
  BY <1>1, <1>2, <1>3, <1>4, <1>6, <1>7

\* Headers do not overlap.
LEMMA Spaced ==
  ASSUME NEW s \in [Slots -> Slot], NEW own
  PROVE  \A h, g \in Headers(s, own) : h < g => h + Claims(s, own, h) + 1 <= g
<1> DEFINE HS == Headers(s, own)
           C(h) == Claims(s, own, h)
           S == {g \in HS : \A h \in HS : h < g => h + C(h) + 1 <= g}
<1>0. \A h \in HS : h \in Nat /\ C(h) \in Nat
  BY HeaderFields
<1>1. ASSUME NEW g \in HS, \A e \in HS : e < g => e \in S
      PROVE  g \in S
  <2>1. ASSUME NEW h \in HS, h < g
        PROVE  h + C(h) + 1 <= g
    <3>1. g # 1 /\ g \in Slots
      BY <2>1, HeaderFields
    <3>2. PICK e \in HS : e < g /\ Leads(s, own, e, g)
      BY <3>1, HeadersAre
    <3>3. e + C(e) + 1 = g
      BY <3>2 DEF Leads
    <3>4. CASE h = e
      BY <1>0, <3>3, <3>4
    <3>5. CASE h < e
      <4>1. e \in S
        BY <1>1, <3>2
      <4>2. h + C(h) + 1 <= e
        BY <3>5, <4>1
      <4> QED
        BY <1>0, <3>2, <4>2
    <3>6. CASE e < h
      <4>1. h \in S
        BY <1>1, <2>1
      <4>2. e + C(e) + 1 <= h
        BY <3>6, <4>1
      <4> QED
        BY <1>0, <2>1, <3>3, <4>2
    <3> QED
      BY <1>0, <3>4, <3>5, <3>6
  <2> QED
    BY <2>1
<1>2. HS \subseteq S
  <2> HIDE DEF S
  <2> QED
    BY <1>1, HeaderInduction
<1> QED
  BY <1>2

\* Nothing is found without the first header.
LEMMA FirstHeader ==
  ASSUME NEW s, NEW own, NEW h \in Headers(s, own)
  PROVE  1 \in Headers(s, own) /\ Begins(s, own, 1)
<1> DEFINE S == {g \in Slots : Begins(s, own, 1)}
<1>1. \A g \in Headers(s, own) : (\A e \in Headers(s, own) : e < g => e \in S) => g \in S
  BY HeadersAre
<1>2. h \in S
  <2> HIDE DEF S
  <2> QED
    BY <1>1, HeaderInduction
<1> QED
  BY <1>2, HeadersAre, Bounds

\* A journal is read from its beginning: what comes later does not matter.
LEMMA SameBegins ==
  ASSUME NEW s, NEW x, NEW own, NEW mine, NEW g \in Nat, s[g] = x[g], g = own <=> g = mine
  PROVE  (Begins(x, mine, g) <=> Begins(s, own, g)) /\ Claims(x, mine, g) = Claims(s, own, g)
BY DEF Begins, Claims, IsHeader

LEMMA SameLeads ==
  ASSUME NEW s, NEW x, NEW own, NEW mine, NEW m \in Nat, \A k \in 1..m : x[k] = s[k] /\ (k = own <=> k = mine)
  PROVE  \A g \in 1..m : \A h \in 1..(m + 1) : g < h => (Leads(x, mine, g, h) <=> Leads(s, own, g, h))
<1> SUFFICES ASSUME NEW g \in 1..m, NEW h \in 1..(m + 1), g < h
             PROVE  Leads(x, mine, g, h) <=> Leads(s, own, g, h)
  OBVIOUS
<1>1. Claims(x, mine, g) = Claims(s, own, g)
  BY SameBegins
<1>2. \A k \in (g + 1)..(h - 1) : k \in 1..m
  OBVIOUS
<1>3. 1 \in 1..m /\ g \in 1..m
  OBVIOUS
<1>4. x[1] = s[1] /\ x[g] = s[g] /\ \A k \in (g + 1)..(h - 1) : x[k] = s[k]
  BY <1>2, <1>3
<1>5. GoodUpTo(x, g, h - 1) <=> GoodUpTo(s, g, h - 1)
  BY <1>4 DEF GoodUpTo, Good
<1> QED
  BY <1>1, <1>5 DEF Leads

LEMMA SameStart ==
  ASSUME NEW s \in [Slots -> Slot], NEW x, NEW own, NEW mine, NEW m \in 0..MaxSlot,
         \A k \in 1..m : x[k] = s[k] /\ (k = own <=> k = mine), Reached(s, own, m)
  PROVE  Reached(x, mine, m) /\ \A h \in 1..m : h \in Headers(s, own) => h \in Headers(x, mine)
<1>0. m \in Nat /\ MaxSlot \in Nat /\ m <= MaxSlot
  BY Bounds
<1>5. \A g \in 1..m : \A h \in 1..(m + 1) : g < h => (Leads(x, mine, g, h) <=> Leads(s, own, g, h))
  BY <1>0, SameLeads
<1> DEFINE S == {h \in Slots : h <= m => h \in Headers(x, mine)}
<1>1. ASSUME NEW h \in Headers(s, own), \A g \in Headers(s, own) : g < h => g \in S
      PROVE  h \in S
  <2>1. h \in Slots /\ Begins(s, own, h) /\ (h = 1 \/ \E g \in Headers(s, own) : g < h /\ Leads(s, own, g, h))
    BY HeadersAre
  <2>2. h \in Nat /\ h >= 1
    BY <2>1, Bounds DEF Slots
  <2>3. SUFFICES ASSUME h <= m
                 PROVE  h \in Headers(x, mine)
    BY <2>1
  <2>4. h \in 1..m
    BY <1>0, <2>2, <2>3
  <2>5. Begins(x, mine, h)
    BY <2>1, <2>2, <2>4, SameBegins
  <2>6. CASE h = 1
    BY <2>1, <2>5, <2>6, HeadersAre
  <2>7. CASE h # 1
    <3>1. PICK g \in Headers(s, own) : g < h /\ Leads(s, own, g, h)
      BY <2>1, <2>7
    <3>2. g \in Slots /\ g \in Headers(x, mine)
      <4>1. g \in S /\ g \in Nat
        BY <1>1, <3>1, HeadersAre, Bounds
      <4> QED
        BY <1>0, <2>2, <2>3, <3>1, <4>1
    <3>3. g \in 1..m /\ h \in 1..(m + 1)
      <4>1. g \in Nat /\ g >= 1
        BY <3>2, Bounds DEF Slots
      <4> QED
        BY <1>0, <2>2, <2>3, <3>1, <4>1
    <3>4. Leads(x, mine, g, h)
      BY <1>5, <3>1, <3>3
    <3> QED
      BY <2>1, <2>5, <3>1, <3>2, <3>4, HeadersAre
  <2> QED
    BY <2>6, <2>7
<1>2. Headers(s, own) \subseteq S
  <2> HIDE DEF S
  <2> QED
    BY <1>1, HeaderInduction
<1>3. \A h \in 1..m : h \in Headers(s, own) => h \in Headers(x, mine)
  BY <1>0, <1>2
<1>4. Reached(x, mine, m)
  <2>1. CASE m = 0
    BY <2>1 DEF Reached
  <2>2. CASE m # 0
    <3>1. PICK g \in Headers(s, own) : Leads(s, own, g, m + 1)
      BY <2>2 DEF Reached
    <3>2. g \in 1..m /\ m + 1 \in 1..(m + 1) /\ g < m + 1
      <4>1. g \in Nat /\ g >= 1 /\ Claims(s, own, g) \in Nat
        BY HeaderFields
      <4>2. g + Claims(s, own, g) + 1 = m + 1
        BY <3>1 DEF Leads
      <4> QED
        BY <1>0, <4>1, <4>2
    <3>3. Leads(x, mine, g, m + 1)
      BY <1>5, <3>1, <3>2
    <3>4. g \in Headers(x, mine)
      BY <1>3, <3>2
    <3> QED
      BY <3>3, <3>4 DEF Reached
  <2> QED
    BY <2>1, <2>2
<1> QED
  BY <1>3, <1>4

\* Each slot up to one that is reached is a header or a record that is read.
LEMMA Covered ==
  ASSUME NEW s \in [Slots -> Slot], NEW own, NEW m \in 0..MaxSlot, Reached(s, own, m), NEW i \in 1..m
  PROVE  i \in Headers(s, own) \/ \E g \in Headers(s, own) : g < i /\ i <= g + Claims(s, own, g) /\ GoodUpTo(s, g, i)
<1> DEFINE HS == Headers(s, own)
           C(h) == Claims(s, own, h)
           Fine(j) == j \in HS \/ \E g \in HS : g < j /\ j <= g + C(g) /\ GoodUpTo(s, g, j)
           S == {h \in Slots : \A j \in 1..h : Fine(j)}
<1>0. m \in Nat /\ MaxSlot \in Nat /\ i \in Nat /\ i >= 1 /\ i <= m
  BY Bounds
<1>1. ASSUME NEW g \in HS, NEW h \in Nat, Leads(s, own, g, h), NEW j \in (g + 1)..(h - 1)
      PROVE  Fine(j)
  <2>1. g \in Nat /\ C(g) \in Nat
    BY HeaderFields
  <2>2. g + C(g) + 1 = h /\ GoodUpTo(s, g, h - 1)
    BY <1>1 DEF Leads
  <2>3. g < j /\ j <= g + C(g)
    BY <1>1, <2>1, <2>2
  <2>4. \A k \in (g + 1)..j : k \in (g + 1)..(h - 1)
    BY <1>1, <2>1
  <2>5. GoodUpTo(s, g, j)
    BY <2>2, <2>4 DEF GoodUpTo
  <2> QED
    BY <2>3, <2>5
<1>2. ASSUME NEW h \in HS, \A g \in HS : g < h => g \in S
      PROVE  h \in S
  <2>1. h \in Slots /\ (h = 1 \/ \E g \in HS : g < h /\ Leads(s, own, g, h)) /\ h \in Nat /\ h >= 1
    BY HeadersAre, HeaderFields
  <2>2. ASSUME NEW j \in 1..h
        PROVE  Fine(j)
    <3>1. CASE j = h
      BY <3>1
    <3>2. CASE j # h
      <4>1. h # 1 /\ j < h /\ j >= 1 /\ j \in Nat
        BY <2>1, <2>2, <3>2
      <4>2. PICK g \in HS : g < h /\ Leads(s, own, g, h)
        BY <2>1, <4>1
      <4>3. g \in S /\ g \in Nat
        BY <1>2, <4>2, HeaderFields
      <4>4. CASE j <= g
        <5>1. j \in 1..g
          BY <4>1, <4>3, <4>4
        <5> QED
          BY <4>3, <5>1
      <4>5. CASE g < j
        <5>1. j \in (g + 1)..(h - 1)
          BY <2>1, <4>1, <4>3, <4>5
        <5> QED
          BY <1>1, <2>1, <4>2, <5>1
      <4> QED
        BY <4>1, <4>3, <4>4, <4>5
    <3> QED
      BY <3>1, <3>2
  <2> QED
    BY <2>1, <2>2
<1>3. HS \subseteq S
  <2> HIDE DEF S
  <2> QED
    BY <1>2, HeaderInduction
<1>4. PICK g \in HS : Leads(s, own, g, m + 1)
  BY <1>0 DEF Reached
<1>5. g \in Nat /\ g \in S
  BY <1>3, HeaderFields
<1>6. CASE i <= g
  <2>1. i \in 1..g
    BY <1>0, <1>5, <1>6
  <2> QED
    BY <1>5, <2>1
<1>7. CASE g < i
  <2>1. m + 1 \in Nat /\ i \in (g + 1)..(m + 1 - 1)
    BY <1>0, <1>5, <1>7
  <2> QED
    BY <1>1, <1>4, <2>1
<1> QED
  BY <1>0, <1>5, <1>6, <1>7

\* A header that leads nowhere is the last.
LEMMA LastHeader ==
  ASSUME NEW s \in [Slots -> Slot], NEW own, NEW g \in Headers(s, own),
         \A h \in Headers(s, own) : ~Leads(s, own, g, h)
  PROVE  \A h \in Headers(s, own) : h <= g
<1> DEFINE S == {h \in Slots : h <= g}
<1>1. ASSUME NEW h \in Headers(s, own), \A e \in Headers(s, own) : e < h => e \in S
      PROVE  h \in S
  <2>1. h \in Slots /\ (h = 1 \/ \E e \in Headers(s, own) : e < h /\ Leads(s, own, e, h)) /\ h \in Nat /\ h >= 1 /\ g \in Nat /\ g >= 1
    BY HeadersAre, HeaderFields
  <2>2. CASE h = 1
    BY <2>1, <2>2
  <2>3. CASE h # 1
    <3>1. PICK e \in Headers(s, own) : e < h /\ Leads(s, own, e, h)
      BY <2>1, <2>3
    <3>2. e <= g /\ e # g /\ e \in Nat /\ Claims(s, own, e) \in Nat
      BY <1>1, <3>1, HeaderFields
    <3>3. e + Claims(s, own, e) + 1 <= g
      BY <2>1, <3>2, Spaced
    <3>4. e + Claims(s, own, e) + 1 = h
      BY <3>1 DEF Leads
    <3> QED
      BY <2>1, <3>3, <3>4
  <2> QED
    BY <2>2, <2>3
<1>2. Headers(s, own) \subseteq S
  <2> HIDE DEF S
  <2> QED
    BY <1>1, HeaderInduction
<1> QED
  BY <1>2

LEMMA PlayedIs ==
  ASSUME NEW s, NEW own, NEW i
  PROVE  i \in Played(s, own) <=>
           /\ i \in Slots
           /\ \E h \in Headers(s, own) : h < i /\ i <= h + Claims(s, own, h) /\ GoodUpTo(s, h, i) /\ s[i].pg <= s[1].orig
BY DEF Played, Slots

\* All records are played back, as far as the journal is read, ...
LEMMA PlayedUpTo ==
  ASSUME NEW s \in [Slots -> Slot], NEW own, NEW m \in Slots, Reached(s, own, m), m < MaxSlot => ~Begins(s, own, m + 1)
  PROVE  Played(s, own) = {i \in Recs(s, m) : s[i].pg <= s[1].orig} /\ Begins(s, own, 1)
<1>0. m \in Nat /\ m >= 1 /\ MaxSlot \in Nat /\ m <= MaxSlot /\ m \in 0..MaxSlot
  BY Bounds DEF Slots
<1>1. PICK g \in Headers(s, own) : Leads(s, own, g, m + 1)
  BY <1>0 DEF Reached
<1>2. g \in Nat /\ Claims(s, own, g) \in Nat /\ g + Claims(s, own, g) + 1 = m + 1
  BY <1>1, HeaderFields DEF Leads
<1>3. \A h \in Headers(s, own) : h <= g
  <2>1. ASSUME NEW h \in Headers(s, own), Leads(s, own, g, h)
        PROVE  FALSE
    <3>1. h = m + 1 /\ h \in Slots /\ Begins(s, own, h)
      BY <1>2, <2>1, HeadersAre DEF Leads
    <3> QED
      BY <1>0, <3>1 DEF Slots
  <2> QED
    BY <2>1, LastHeader
<1>4. ASSUME NEW i \in Played(s, own)
      PROVE  i \in Recs(s, m) /\ s[i].pg <= s[1].orig
  <2>1. PICK h \in Headers(s, own) : i \in Slots /\ h < i /\ i <= h + Claims(s, own, h) /\ GoodUpTo(s, h, i) /\ s[i].pg <= s[1].orig
    BY PlayedIs
  <2>2. h \in Nat /\ h <= g /\ Claims(s, own, h) \in Nat /\ i \in Nat /\ i >= 1
    BY <1>3, <2>1, HeaderFields, Bounds DEF Slots
  <2>3. h = g \/ h + Claims(s, own, h) + 1 <= g
    BY <1>2, <2>2, Spaced
  <2>4. i \in 1..m
    BY <1>0, <1>2, <2>1, <2>2, <2>3
  <2>5. s[i].kind = "rec"
    BY <2>1, <2>2 DEF GoodUpTo, Good
  <2> QED
    BY <2>1, <2>4, <2>5 DEF Recs
<1>5. ASSUME NEW i \in Recs(s, m), s[i].pg <= s[1].orig
      PROVE  i \in Played(s, own)
  <2>1. i \in 1..m /\ s[i].kind = "rec" /\ i \in Slots
    BY <1>0, <1>5 DEF Recs, Slots
  <2>2. i \notin Headers(s, own)
    BY <2>1, HeaderFields
  <2> QED
    BY <1>0, <1>5, <2>1, <2>2, Covered, PlayedIs
<1>6. Begins(s, own, 1)
  BY <1>1, FirstHeader
<1> QED
  BY <1>4, <1>5, <1>6 DEF Recs

\* ... and even if nobody has counted those of the last header.
LEMMA PlayedOpen ==
  ASSUME NEW s \in [Slots -> Slot], NEW own \in Slots, NEW m \in Slots, own <= m, Reached(s, own, own - 1), Begins(s, own, own), s[own].n = 0,
         \A i \in (own + 1)..m : s[i].kind = "rec" /\ s[i].init = s[own].init,
         \A i \in (m + 1)..MaxSlot : s[i].kind = "rec" => s[i].init # s[own].init
  PROVE  Played(s, own) = {i \in Recs(s, m) : s[i].pg <= s[1].orig} /\ Begins(s, own, 1)
<1>0. /\ own \in Nat /\ own >= 1 /\ m \in Nat /\ m >= 1 /\ MaxSlot \in Nat /\ m <= MaxSlot /\ own <= MaxSlot
      /\ own - 1 \in 0..MaxSlot
  BY Bounds DEF Slots
<1>1. own \in Headers(s, own)
  <2>1. CASE own = 1
    BY <2>1, HeadersAre
  <2>2. CASE own # 1
    <3>1. PICK g \in Headers(s, own) : Leads(s, own, g, own - 1 + 1)
      BY <1>0, <2>2 DEF Reached
    <3>2. Leads(s, own, g, own) /\ g < own
      <4>1. own - 1 + 1 = own
        BY <1>0
      <4>2. g + Claims(s, own, g) + 1 = own /\ g \in Nat /\ Claims(s, own, g) \in Nat
        BY <3>1, <4>1, HeaderFields DEF Leads
      <4> QED
        BY <3>1, <4>1, <4>2
    <3> QED
      BY <3>2, HeadersAre
  <2> QED
    BY <2>1, <2>2
<1>2. Claims(s, own, own) = MaxSlot - own
  BY DEF Claims
<1>3. \A h \in Headers(s, own) : h <= own
  <2>1. ASSUME NEW h \in Headers(s, own), Leads(s, own, own, h)
        PROVE  FALSE
    <3>1. h = own + (MaxSlot - own) + 1 /\ h <= MaxSlot
      BY <1>2, <2>1, HeaderFields DEF Leads
    <3> QED
      BY <1>0, <3>1
  <2> QED
    BY <1>1, <2>1, LastHeader
<1>4. ASSUME NEW i \in Played(s, own)
      PROVE  i \in Recs(s, m) /\ s[i].pg <= s[1].orig
  <2>1. PICK h \in Headers(s, own) : i \in Slots /\ h < i /\ i <= h + Claims(s, own, h) /\ GoodUpTo(s, h, i) /\ s[i].pg <= s[1].orig
    BY PlayedIs
  <2>2. h \in Nat /\ h <= own /\ Claims(s, own, h) \in Nat /\ i \in Nat /\ i >= 1 /\ i <= MaxSlot
    BY <1>3, <2>1, HeaderFields, Bounds DEF Slots
  <2>3. s[i].kind = "rec" /\ (s[i].pg > s[1].orig \/ s[i].init = s[h].init)
    BY <2>1, <2>2 DEF GoodUpTo, Good
  <2>4. i <= m
    <3>1. CASE h = own
      <4>1. s[i].pg \in Nat /\ s[1].orig \in Nat
        <5>1. s[i].pg \in Nat
          BY <2>1, <2>3, SlotKinds, Bounds
        <5>2. s[1].kind = "hdr"
          BY <1>1, FirstHeader DEF Begins, IsHeader
        <5>3. s[1].orig \in Pages
          BY <5>2, SlotKinds, Bounds
        <5> QED
          BY <5>1, <5>3, Bounds
      <4>2. s[i].init = s[own].init
        BY <2>1, <2>3, <3>1, <4>1
      <4>3. i \notin (m + 1)..MaxSlot
        BY <2>3, <4>2
      <4> QED
        BY <1>0, <2>2, <4>3
    <3>2. CASE h # own
      <4>1. h + Claims(s, own, h) + 1 <= own
        BY <1>0, <1>1, <2>2, <3>2, Spaced
      <4> QED
        BY <1>0, <2>1, <2>2, <4>1
    <3> QED
      BY <3>1, <3>2
  <2> QED
    BY <1>0, <2>1, <2>2, <2>3, <2>4 DEF Recs
<1>5. ASSUME NEW i \in Recs(s, m), s[i].pg <= s[1].orig
      PROVE  i \in Played(s, own)
  <2>1. i \in 1..m /\ s[i].kind = "rec" /\ i \in Slots /\ i \in Nat
    BY <1>0, <1>5 DEF Recs, Slots
  <2>2. i \notin Headers(s, own)
    BY <2>1, HeaderFields
  <2>3. CASE i <= own - 1
    <3>1. i \in 1..(own - 1)
      BY <1>0, <2>1, <2>3
    <3> QED
      BY <1>0, <1>5, <2>1, <2>2, <3>1, Covered, PlayedIs
  <2>4. CASE i > own
    <3>1. \A k \in (own + 1)..i : k \in (own + 1)..m
      BY <1>0, <2>1
    <3>2. GoodUpTo(s, own, i)
      BY <3>1 DEF GoodUpTo, Good
    <3>3. own < i /\ i <= own + Claims(s, own, own)
      BY <1>0, <1>2, <2>1, <2>4
    <3> QED
      BY <1>1, <1>5, <2>1, <3>2, <3>3, PlayedIs
  <2>5. i # own
    BY <1>1, <2>2
  <2> QED
    BY <1>0, <2>1, <2>3, <2>4, <2>5
<1>6. Begins(s, own, 1)
  BY <1>1, FirstHeader
<1> QED
  BY <1>4, <1>5, <1>6 DEF Recs

-----------------------------------------------------------------------------
(* What a journal makes of a file.                                         *)

IsImage(I) == I = [p \in Pages |-> I[p]]

\* Without a header in the first slot nothing is played back.
LEMMA ReplayedCold ==
  ASSUME NEW f, NEW s, ~HasMagic(s[1])
  PROVE  Replayed(f, s) = f
BY DEF Replayed

\* With one, it is the last record of each page that counts.
LEMMA ReplayedHot ==
  ASSUME NEW f, NEW s, HasMagic(s[1]), NEW of, of = [p \in Pages |-> {i \in Played(s, 0) : s[i].pg = p}]
  PROVE  Replayed(f, s) = [p \in Pages |-> IF of[p] = {} THEN Cut(f, s[1].orig)[p] ELSE s[Max(of[p])].val]
BY DEF Replayed

\* A page that is not played back is what the file has.
LEMMA ReplayedElsewhere ==
  ASSUME NEW f, NEW s, HasMagic(s[1]), NEW p \in Pages, \A i \in Played(s, 0) : s[i].pg # p
  PROVE  Replayed(f, s)[p] = Cut(f, s[1].orig)[p]
<1>1. PICK of : of = [q \in Pages |-> {i \in Played(s, 0) : s[i].pg = q}]
  OBVIOUS
<1>2. of[p] = {}
  BY <1>1
<1> QED
  BY <1>1, <1>2, ReplayedHot

LEMMA ReplayedIs ==
  ASSUME NEW f, NEW s, NEW I, IsImage(I), HasMagic(s[1]),
         \A i \in Played(s, 0) : s[i].val = I[s[i].pg],
         \A p \in Pages : (\E i \in Played(s, 0) : s[i].pg = p) \/ Cut(f, s[1].orig)[p] = I[p]
  PROVE  Replayed(f, s) = I
<1>1. PICK of : of = [q \in Pages |-> {i \in Played(s, 0) : s[i].pg = q}]
  OBVIOUS
<1>2. ASSUME NEW p \in Pages
      PROVE  I[p] = IF of[p] = {} THEN Cut(f, s[1].orig)[p] ELSE s[Max(of[p])].val
  <2>1. of[p] = {i \in Played(s, 0) : s[i].pg = p}
    BY <1>1
  <2>2. CASE of[p] = {}
    BY <2>1, <2>2
  <2>3. CASE of[p] # {}
    <3>1. of[p] \in SUBSET (0..MaxSlot) /\ MaxSlot \in Nat
      BY <2>1, PlayedIs, Bounds DEF Slots
    <3>2. Max(of[p]) \in of[p]
      BY <2>3, <3>1, GreatestOf
    <3> QED
      BY <2>1, <2>3, <3>2
  <2> QED
    BY <2>2, <2>3
<1> QED
  BY <1>1, <1>2, ReplayedHot DEF IsImage

LEMMA CutAt ==
  ASSUME NEW f, NEW n, NEW p \in Pages
  PROVE  Cut(f, n)[p] = IF p > n THEN Absent ELSE IF f[p] = Absent THEN Torn ELSE f[p]
BY DEF Cut

\* pager_truncate twice is pager_truncate once.
LEMMA CutTwice ==
  ASSUME NEW f, NEW n
  PROVE  Cut(Cut(f, n), n) = Cut(f, n)
<1>1. \A p \in Pages : Cut(f, n)[p] = IF p > n THEN Absent ELSE IF f[p] = Absent THEN Torn ELSE f[p]
  BY DEF Cut
<1>2. Torn # Absent
  BY Bounds DEF Absent
<1> QED
  BY <1>1, <1>2 DEF Cut

\* A rollback begins with a truncation: doing that in advance changes nothing.
LEMMA ReplayedCut ==
  ASSUME NEW f, NEW s
  PROVE  HasMagic(s[1]) => Replayed(Cut(f, s[1].orig), s) = Replayed(f, s)
BY CutTwice DEF Replayed

\* What is in a journal up to a slot: the same as in another, the content of the pages, all that
\* the file lacks; and nothing goes on after it.
SameUpTo(x, s, m) == \A k \in 1..m : x[k] = s[k]
Backs(s, I, m) == \A i \in Recs(s, m) : s[i].pg <= s[1].orig /\ s[i].val = I[s[i].pg]
Covers(s, f, I, n, m) == \A p \in Pages : (\E i \in Recs(s, m) : s[i].pg = p) \/ Cut(f, n)[p] = I[p]
Stops(x, m) == m < MaxSlot => ~HasMagic(x[m + 1])

\* What a rollback restores, whatever follows the records that are read.
LEMMA Restores ==
  ASSUME NEW s \in [Slots -> Slot], NEW x \in [Slots -> Slot], NEW m \in Slots, Reached(s, 0, m),
         SameUpTo(x, s, m), Stops(x, m), NEW f, NEW I, IsImage(I), Backs(s, I, m), Covers(s, f, I, s[1].orig, m)
  PROVE  Amounts(f, x, I) /\ Replayed(f, x) = I /\ HasMagic(x[1]) /\ Played(x, 0) = Recs(s, m)
<1>0. m \in Nat /\ m >= 1 /\ MaxSlot \in Nat /\ m <= MaxSlot /\ m \in 0..MaxSlot
  BY Bounds DEF Slots
<1>1. Reached(x, 0, m)
  BY <1>0, SameStart DEF SameUpTo
<1>2. \A h \in Slots : Begins(x, 0, h) <=> HasMagic(x[h])
  BY Bounds DEF Begins, HasMagic, Slots
<1>3. m < MaxSlot => ~Begins(x, 0, m + 1)
  <2>1. m < MaxSlot => m + 1 \in Slots
    BY <1>0 DEF Slots
  <2> QED
    BY <1>2, <2>1 DEF Stops
<1>4. Played(x, 0) = {i \in Recs(x, m) : x[i].pg <= x[1].orig} /\ Begins(x, 0, 1)
  BY <1>1, <1>3, PlayedUpTo
<1>5. x[1] = s[1] /\ 1 \in 1..m
  BY <1>0 DEF SameUpTo
<1>6. Recs(x, m) = Recs(s, m) /\ \A i \in Recs(s, m) : x[i] = s[i]
  BY DEF Recs, SameUpTo
<1>7. Played(x, 0) = Recs(s, m)
  BY <1>4, <1>5, <1>6 DEF Backs
<1>8. HasMagic(x[1])
  BY <1>2, <1>4, Bounds
<1>9. \A i \in Played(x, 0) : x[i].val = I[x[i].pg]
  BY <1>6, <1>7 DEF Backs
<1>10. \A p \in Pages : (\E i \in Played(x, 0) : x[i].pg = p) \/ Cut(f, x[1].orig)[p] = I[p]
  BY <1>5, <1>6, <1>7 DEF Covers
<1>11. Replayed(f, x) = I
  BY <1>8, <1>9, <1>10, ReplayedIs
<1> QED
  BY <1>7, <1>8, <1>9, <1>11 DEF Amounts

-----------------------------------------------------------------------------
(* What a writer has written.                                              *)

\* A rollback of a hot journal would read it up to here.
End(P, s) == IF P.own = 0 \/ Counted(P, s) THEN P.journalOff ELSE P.journalHdr

LEMMA Fields ==
  ASSUME NEW P \in Connection
  PROVE  /\ P.eState \in States /\ P.at \in Steps /\ P.cache \in [Pages -> Cached] /\ P.dirty \subseteq Pages
         /\ P.needSync \subseteq Pages /\ P.inJournal \subseteq Pages /\ P.dbFileVers \in Values
         /\ P.dbSize \in Sizes /\ P.dbOrigSize \in Sizes /\ P.journalHdr \in Offsets /\ P.journalOff \in Offsets
         /\ P.own \in Offsets /\ P.stamp \in Stamps /\ P.todo \subseteq Nat /\ P.spilling \in BOOLEAN
         /\ P.dbSize \in Nat /\ P.dbOrigSize \in Nat /\ P.journalHdr \in Nat /\ P.journalOff \in Nat /\ P.own \in Nat /\ P.stamp \in Nat
         /\ P.dbFileVers \in Nat /\ \A p \in Pages : P.cache[p] \in Nat
<1>1. /\ P.eState \in States /\ P.at \in Steps /\ P.cache \in [Pages -> Cached] /\ P.dirty \subseteq Pages
      /\ P.needSync \subseteq Pages /\ P.inJournal \subseteq Pages /\ P.dbFileVers \in Values
      /\ P.dbSize \in Sizes /\ P.dbOrigSize \in Sizes /\ P.journalHdr \in Offsets /\ P.journalOff \in Offsets
      /\ P.own \in Offsets /\ P.stamp \in Stamps /\ P.todo \subseteq Nat /\ P.spilling \in BOOLEAN
  BY DEF Connection
<1>2. Sizes \subseteq Nat /\ Offsets \subseteq Nat /\ Stamps \subseteq Nat /\ Values \subseteq Nat /\ Cached \subseteq Nat
  BY Bounds DEF Sizes, Offsets, Stamps, Values, Cached
<1> QED
  BY <1>1, <1>2

LEMMA LeadsOn ==
  ASSUME NEW s, NEW own, NEW g \in Nat, NEW m \in Nat, g + Claims(s, own, g) + 1 = m + 1, GoodUpTo(s, g, m)
  PROVE  Leads(s, own, g, m + 1)
BY DEF Leads, GoodUpTo

\* The slots that the writer has filled.
LEMMA WrittenFields ==
  ASSUME NEW P \in Connection, NEW s, Written(P, s)
  PROVE  /\ P.journalOff \in Slots /\ P.journalOff \in Nat /\ P.journalOff >= 1 /\ P.journalOff <= MaxSlot /\ MaxSlot \in Nat
         /\ P.journalHdr \in Nat /\ P.own \in Nat /\ P.stamp \in Nat
<1>1. P.journalOff \in Slots
  BY DEF Written, Placed
<1>2. P.journalOff \in Nat /\ P.journalHdr \in Nat /\ P.own \in Nat /\ P.stamp \in Nat /\ MaxSlot \in Nat
  BY Fields, Bounds
<1> QED
  BY <1>1, <1>2 DEF Slots

\* Where the headers that are found in the journal of a writer end.
LEMMA EndIs ==
  ASSUME NEW P \in Connection, NEW s \in [Slots -> Slot], Written(P, s)
  PROVE  /\ End(P, s) \in 0..P.journalOff /\ End(P, s) \in 0..MaxSlot /\ Reached(s, 0, End(P, s))
         /\ (End(P, s) < MaxSlot => ~HasMagic(s[End(P, s) + 1]))
         /\ HasMagic(s[1]) <=> End(P, s) # 0
         /\ P.journalHdr <= End(P, s)
<1>0. /\ P.journalOff \in Slots /\ P.journalOff \in Nat /\ P.journalOff >= 1 /\ P.journalOff <= MaxSlot /\ MaxSlot \in Nat
      /\ P.journalHdr \in Nat /\ P.own \in Nat /\ P.stamp \in Nat
  BY WrittenFields
<1>1. \A h \in Slots : (Begins(s, 0, h) <=> HasMagic(s[h])) /\ Claims(s, 0, h) = s[h].n
  BY Bounds DEF Begins, HasMagic, Slots, Claims
<1>2. CASE P.own = 0
  <2>1. End(P, s) = P.journalOff /\ Reached(s, 0, P.journalOff) /\ (P.journalOff < MaxSlot => ~HasMagic(s[P.journalOff + 1]))
    BY <1>2 DEF End, Written, Segment, Ends
  <2>2. P.journalHdr = P.journalOff
    BY <1>2 DEF Written, Segment
  <2>3. HasMagic(s[1])
    <3>1. \E g \in Headers(s, 0) : TRUE
      BY <1>0, <2>1 DEF Reached
    <3> QED
      BY <1>1, <3>1, FirstHeader, Bounds
  <2> QED
    BY <1>0, <2>1, <2>2, <2>3
<1>3. CASE P.own # 0
  <2>1. /\ P.own = P.journalHdr + 1 /\ P.own <= P.journalOff /\ s[P.own].kind = "hdr"
        /\ \A i \in (P.own + 1)..P.journalOff : s[i].kind = "rec"
        /\ s[P.own].n = IF s[P.own].magic THEN P.journalOff - P.own ELSE 0
        /\ Reached(s, 0, P.journalHdr) /\ P.own \in Slots
    <3>1. Segment(P, s) /\ Reached(s, 0, P.journalHdr)
      BY DEF Written
    <3> QED
      BY <1>0, <1>3, <3>1 DEF Segment, Slots
  <2>2. CASE s[P.own].magic
    <3>1. Counted(P, s) /\ End(P, s) = P.journalOff /\ (P.journalOff < MaxSlot => ~HasMagic(s[P.journalOff + 1]))
      BY <1>3, <2>2 DEF End, Written, Ends, Counted
    <3>2. P.own \in Headers(s, 0)
      <4>1. Begins(s, 0, P.own)
        BY <1>1, <2>1, <2>2 DEF HasMagic, IsHeader
      <4>2. CASE P.own = 1
        BY <2>1, <4>1, <4>2, HeadersAre
      <4>3. CASE P.own # 1
        <5>1. PICK g \in Headers(s, 0) : Leads(s, 0, g, P.own)
          BY <1>0, <2>1, <4>3 DEF Reached
        <5>2. g < P.own
          <6>1. g + Claims(s, 0, g) + 1 = P.own /\ g \in Nat /\ Claims(s, 0, g) \in Nat
            BY <5>1, HeaderFields DEF Leads
          <6> QED
            BY <1>0, <6>1
        <5> QED
          BY <2>1, <4>1, <5>1, <5>2, HeadersAre
      <4> QED
        BY <4>2, <4>3
    <3>3. Leads(s, 0, P.own, P.journalOff + 1)
      <4>1. P.own + Claims(s, 0, P.own) + 1 = P.journalOff + 1
        BY <1>0, <1>1, <2>1, <2>2
      <4>2. \A k \in (P.own + 1)..P.journalOff : s[k].kind = "rec" /\ s[k].init = P.stamp
        <5>1. \A k \in (P.own + 1)..P.journalOff : k \in 1..P.journalOff
          BY <1>0
        <5> QED
          BY <2>1, <5>1 DEF Written, Ours
      <4>3. s[P.own].init = P.stamp
        <5>1. P.own \in 1..P.journalOff
          BY <1>0, <2>1
        <5> QED
          BY <5>1 DEF Written, Ours
      <4>4. GoodUpTo(s, P.own, P.journalOff)
        BY <4>2, <4>3 DEF GoodUpTo, Good
      <4> QED
        BY <1>0, <4>1, <4>4, LeadsOn
    <3>4. Reached(s, 0, P.journalOff)
      BY <3>2, <3>3 DEF Reached
    <3>5. HasMagic(s[1])
      BY <1>1, <3>2, FirstHeader, Bounds
    <3> QED
      BY <1>0, <2>1, <3>1, <3>4, <3>5
  <2>3. CASE ~s[P.own].magic
    <3>1. End(P, s) = P.journalHdr /\ P.journalHdr + 1 = P.own
      BY <1>3, <2>1, <2>3 DEF End, Counted
    <3>2. ~HasMagic(s[P.own])
      BY <2>3 DEF HasMagic
    <3>3. HasMagic(s[1]) <=> P.journalHdr # 0
      <4>1. CASE P.journalHdr = 0
        BY <2>1, <3>2, <4>1
      <4>2. CASE P.journalHdr # 0
        <5>1. \E g \in Headers(s, 0) : TRUE
          BY <2>1, <4>2 DEF Reached
        <5> QED
          BY <1>1, <4>2, <5>1, FirstHeader, Bounds
      <4> QED
        BY <4>1, <4>2
    <3> QED
      BY <1>0, <2>1, <3>1, <3>2, <3>3
  <2> QED
    BY <2>2, <2>3
<1> QED
  BY <1>2, <1>3

LEMMA RecordsAre ==
  ASSUME NEW P \in Connection, NEW s \in [Slots -> Slot], Written(P, s), NEW i \in Recs(s, P.journalOff)
  PROVE  /\ i \in Slots /\ s[i].kind = "rec" /\ s[i].pg \in P.inJournal /\ s[i].pg \in Pages /\ s[i].pg <= P.dbOrigSize
         /\ s[i].pg <= s[1].orig /\ s[i].init = P.stamp
<1>1. i \in 1..P.journalOff /\ s[i].kind = "rec"
  BY DEF Recs
<1>2. s[i].pg \in P.inJournal /\ s[i].init = P.stamp /\ P.inJournal \subseteq 1..P.dbOrigSize /\ s[1].orig = P.dbOrigSize
  BY <1>1 DEF Written, Ours, Placed
<1>3. P.journalOff <= MaxSlot /\ P.inJournal \subseteq Pages /\ P.dbOrigSize \in Nat /\ P.journalOff \in Nat
  BY Fields, WrittenFields
<1> QED
  BY <1>1, <1>2, <1>3, Bounds DEF Slots

\* The writer itself plays everything back.
LEMMA PlaysOwn ==
  ASSUME NEW P \in Connection, NEW s \in [Slots -> Slot], Written(P, s)
  PROVE  Played(s, P.own) = Recs(s, P.journalOff) /\ Begins(s, P.own, 1)
<1>0. /\ P.journalOff \in Slots /\ P.journalOff \in Nat /\ P.journalOff >= 1 /\ P.journalOff <= MaxSlot /\ MaxSlot \in Nat
      /\ P.journalHdr \in Nat /\ P.own \in Nat /\ P.stamp \in Nat
  BY WrittenFields
<1>1. Recs(s, P.journalOff) = {i \in Recs(s, P.journalOff) : s[i].pg <= s[1].orig}
  BY RecordsAre
<1>2. CASE P.own = 0
  <2>1. Reached(s, 0, P.journalOff) /\ (P.journalOff < MaxSlot => ~Begins(s, 0, P.journalOff + 1))
    <3>1. End(P, s) = P.journalOff
      BY <1>2 DEF End
    <3>2. P.journalOff < MaxSlot => P.journalOff + 1 # 0
      BY <1>0
    <3> QED
      BY <3>1, <3>2, EndIs DEF Begins, HasMagic
  <2> QED
    BY <1>0, <1>1, <1>2, <2>1, PlayedUpTo
<1>3. CASE P.own # 0
  <2>1. /\ P.own = P.journalHdr + 1 /\ P.own <= P.journalOff /\ s[P.own].kind = "hdr"
        /\ \A i \in (P.own + 1)..P.journalOff : s[i].kind = "rec"
        /\ s[P.own].n = IF s[P.own].magic THEN P.journalOff - P.own ELSE 0
        /\ Reached(s, 0, P.journalHdr) /\ P.own \in Slots
    <3>1. Segment(P, s) /\ Reached(s, 0, P.journalHdr)
      BY DEF Written
    <3> QED
      BY <1>0, <1>3, <3>1 DEF Segment, Slots
  <2>2. Reached(s, P.own, P.journalHdr)
    <3>1. \A k \in 1..P.journalHdr : k # 0 /\ k # P.own
      BY <1>0, <2>1
    <3>2. P.journalHdr \in 0..MaxSlot
      BY <1>0, <2>1
    <3> QED
      BY <2>1, <3>1, <3>2, SameStart
  <2>3. Begins(s, P.own, P.own) /\ P.own - 1 = P.journalHdr
    BY <1>0, <2>1 DEF Begins, IsHeader
  <2>4. \A i \in (P.own + 1)..P.journalOff : s[i].kind = "rec" /\ s[i].init = P.stamp
    <3>1. \A k \in (P.own + 1)..P.journalOff : k \in 1..P.journalOff
      BY <1>0
    <3> QED
      BY <2>1, <3>1 DEF Written, Ours
  <2>5. s[P.own].init = P.stamp
    <3>1. P.own \in 1..P.journalOff
      BY <1>0, <2>1
    <3> QED
      BY <3>1 DEF Written, Ours
  <2>6. CASE s[P.own].n = 0
    <3>1. \A i \in (P.journalOff + 1)..MaxSlot : s[i].kind = "rec" => s[i].init # s[P.own].init
      BY <2>5 DEF Written, Left
    <3> QED
      BY <1>0, <1>1, <2>1, <2>2, <2>3, <2>4, <2>5, <2>6, <3>1, PlayedOpen
  <2>7. CASE s[P.own].n # 0
    <3>1. s[P.own].magic /\ Claims(s, P.own, P.own) = P.journalOff - P.own
      BY <2>1, <2>7 DEF Claims
    <3>2. P.own \in Headers(s, P.own)
      <4>2. CASE P.own = 1
        BY <2>1, <2>3, <4>2, HeadersAre
      <4>3. CASE P.own # 1
        <5>1. PICK g \in Headers(s, P.own) : Leads(s, P.own, g, P.own)
          BY <1>0, <2>1, <2>2, <4>3 DEF Reached
        <5>2. g < P.own
          <6>1. g + Claims(s, P.own, g) + 1 = P.own /\ g \in Nat /\ Claims(s, P.own, g) \in Nat
            BY <5>1, HeaderFields DEF Leads
          <6> QED
            BY <1>0, <6>1
        <5> QED
          BY <2>1, <2>3, <5>1, <5>2, HeadersAre
      <4> QED
        BY <4>2, <4>3
    <3>3. Reached(s, P.own, P.journalOff)
      <4>1. P.own + Claims(s, P.own, P.own) + 1 = P.journalOff + 1
        BY <1>0, <2>1, <3>1
      <4>2. GoodUpTo(s, P.own, P.journalOff)
        BY <2>4, <2>5 DEF GoodUpTo, Good
      <4> QED
        BY <1>0, <3>2, <4>1, <4>2, LeadsOn DEF Reached
    <3>4. P.journalOff < MaxSlot => ~Begins(s, P.own, P.journalOff + 1)
      <4>1. P.journalOff < MaxSlot => ~HasMagic(s[P.journalOff + 1])
        BY <1>3, <3>1 DEF Written, Ends, Counted
      <4>2. P.journalOff + 1 # P.own
        BY <1>0, <2>1
      <4> QED
        BY <4>1, <4>2 DEF Begins, HasMagic
    <3> QED
      BY <1>0, <1>1, <3>3, <3>4, PlayedUpTo
  <2> QED
    BY <2>6, <2>7
<1> QED
  BY <1>2, <1>3

-----------------------------------------------------------------------------
(* What a step of one connection leaves alone.                             *)

LEMMA ImageIs == Image = ImageOf(db, jrnl)
BY DEF Image, Recovered, ImageOf

LEMMA ImageNext == Image' = ImageOf(db', jrnl')
BY DEF Image, Recovered, ImageOf

\* Numbers of transactions.
LEMMA StampsAre ==
  ASSUME NEW t \in Nat, NEW I, Solid(I, t)
  PROVE  /\ IsImage(I) /\ DOMAIN I = Pages /\ \A p \in Pages : I[p] \in Nat /\ I[p] <= t + 1
         /\ \E n \in Pages : Sized(I, n)
         /\ 1 \in Pages /\ I[1] \in Nat /\ I[1] # Absent
<1>1. I \in [Pages -> 0..(t + 1)]
  BY DEF Solid
<1>2. IsImage(I) /\ DOMAIN I = Pages /\ \A p \in Pages : I[p] \in 0..(t + 1)
  BY <1>1 DEF IsImage
<1>3. PICK n \in Pages : Sized(I, n)
  BY DEF Solid
<1>4. 1 \in Pages /\ ~(1 > n)
  BY PagerAssumption DEF Pages
<1> QED
  BY <1>2, <1>3, <1>4 DEF Sized

LEMMA TxnFacts ==
  ASSUME Typed
  PROVE  /\ txn \in Nat /\ TxnsIn[mode] \in Nat /\ txn <= TxnsIn[mode] /\ TxnsIn[mode] <= MaxTxn /\ MaxTxn \in Nat
<1>1. mode \in Modes /\ txn \in 0..TxnsIn[mode]
  BY DEF Typed
<1>2. TxnsIn[mode] \in 1..MaxTxn /\ MaxTxn \in Nat
  BY <1>1, PagerAssumption
<1> QED
  BY <1>1, <1>2

LEMMA Connected ==
  ASSUME IInv, NEW c \in Conns
  PROVE  /\ pager[c] \in Connection /\ held[c] \subseteq LockNames
         /\ Known(pager[c], held[c], jrnl, db, Image, txn)
         /\ sound => Firmly(pager[c], jrnl, db, dbDisk)
<1>1. Typed
  BY DEF IInv
<1> QED
  BY <1>1 DEF IInv, Typed, Safe

LEMMA OneMoves ==
  ASSUME Typed, NEW c \in Conns, NEW N \in Connection, NEW G \in SUBSET LockNames,
         Become(c, N), held' = [held EXCEPT ![c] = G]
  PROVE  /\ pager' \in [Conns -> Connection] /\ held' \in [Conns -> SUBSET LockNames]
         /\ pager'[c] = N /\ held'[c] = G
         /\ \A d \in Conns : d # c => pager'[d] = pager[d] /\ held'[d] = held[d]
BY DEF Typed, Become

LEMMA Excluded ==
  ASSUME IInv, NEW c \in Conns, NEW d \in Conns, d # c
  PROVE  Exclude(held[c], held[d]) /\ Exclude(held[d], held[c])
BY DEF IInv

\* Who has at least RESERVED is alone with the journal, and who has EXCLUSIVE is alone.
LEMMA Aside ==
  ASSUME IInv, NEW c \in Conns, NEW d \in Conns, d # c, "reserved" \in held[c] \/ "exclusive" \in held[c]
  PROVE  /\ pager[d].eState \notin Live /\ pager[d].todo = {} /\ pager[d].at \notin Filling
         /\ ~(pager[d].eState = "open" /\ pager[d].at \in {"playback"} \union Rolling)
         /\ "exclusive" \in held[c] => held[d] = {} /\ pager[d].eState = "open" /\ pager[d].at = "idle"
         /\ "exclusive" \notin held[d] /\ "reserved" \notin held[d]
<1>1. Exclude(held[c], held[d]) /\ Exclude(held[d], held[c])
  BY Excluded
<1>2. "exclusive" \notin held[d] /\ "reserved" \notin held[d]
  BY <1>1 DEF Exclude
<1>3. Locks(pager[d], held[d]) /\ Resting(pager[d])
  BY Connected DEF Known
<1>4. pager[d].eState \notin Live /\ pager[d].at \notin Filling
  BY <1>2, <1>3 DEF Locks
<1>5. ~(pager[d].eState = "open" /\ pager[d].at \in {"playback"} \union Rolling)
  BY <1>2, <1>3 DEF Locks, Recovering, Looking, Rolling
<1>6. pager[d].todo = {}
  BY <1>3, <1>4, <1>5 DEF Resting, Rolling
<1>7. ASSUME "exclusive" \in held[c]
      PROVE  held[d] = {} /\ pager[d].eState = "open" /\ pager[d].at = "idle"
  <2>1. held[d] = {}
    BY <1>1, <1>7 DEF Exclude
  <2>2. pager[d].eState \in States
    BY Connected, Fields
  <2>3. pager[d].eState = "open"
    BY <1>3, <1>4, <2>1, <2>2 DEF Locks, States, Live
  <2> QED
    BY <1>3, <2>1, <2>3 DEF Locks, Recovering, Looking, Rolling
<1> QED
  BY <1>2, <1>4, <1>5, <1>6, <1>7

\* What somebody aside knows stays true.
LEMMA Bystander ==
  ASSUME NEW P, NEW H, NEW j, NEW f, NEW I, NEW t, Known(P, H, j, f, I, t),
         P.eState \notin Live, P.todo = {}, ~(P.eState = "open" /\ P.at \in {"playback"} \union Rolling),
         NEW k, NEW g, NEW J, NEW u, P.dbFileVers \in Nat, I[1] \in Nat, J[1] \in Nat,
         \/ J = I /\ (IsHot(k) => IsHot(j))
         \/ P.eState = "open" /\ P.at = "idle" /\ H = {} /\ (J = I \/ I[1] < J[1])
  PROVE  Known(P, H, k, g, J, u) /\ \A dd : Firmly(P, k, g, dd)
<1>1. Locks(P, H) /\ Resting(P) /\ Passed(P, H, j) /\ Knows(P, I)
  BY DEF Known
<1>2. Passed(P, H, k)
  BY <1>1 DEF Passed
<1>3. Knows(P, J)
  <2>1. CASE J = I
    BY <1>1, <2>1
  <2>2. CASE P.eState = "open" /\ I[1] < J[1]
    <3>1. P.dbFileVers <= I[1]
      BY <1>1, <2>2 DEF Knows
    <3> QED
      BY <2>2, <3>1 DEF Knows
  <2> QED
    BY <2>1, <2>2
<1>4. Writes(P, k, g, J, u) /\ Recovers(P, k, g, J)
  BY DEF Writes, Recovers, Rolling
<1>5. \A dd : Firmly(P, k, g, dd)
  BY DEF Firmly, FirmWriter, FirmRecovery, Rolling
<1> QED
  BY <1>1, <1>2, <1>3, <1>4, <1>5 DEF Known

\* A step that touches no file, nor the past.
Untouched == UNCHANGED << db, dbDisk, jrnl, ghost, mode, txn >>

LEMMA Quiet ==
  ASSUME IInv, NEW c \in Conns, NEW N \in Connection, NEW G \in SUBSET LockNames,
         Become(c, N), held' = [held EXCEPT ![c] = G], Untouched, sound' => sound,
         Known(N, G, jrnl, db, Image, txn), N.at = "finish" => ~ghost.exists,
         sound' => Firmly(N, jrnl, db, dbDisk),
         \A d \in Conns : d # c => Exclude(G, held[d]) /\ Exclude(held[d], G)
  PROVE  IInv' /\ Image' = Image
<1>1. /\ pager' \in [Conns -> Connection] /\ held' \in [Conns -> SUBSET LockNames]
      /\ pager'[c] = N /\ held'[c] = G
      /\ \A d \in Conns : d # c => pager'[d] = pager[d] /\ held'[d] = held[d]
  <2>1. Typed
    BY DEF IInv
  <2> QED
    BY <2>1, OneMoves
<1>2. db' = db /\ dbDisk' = dbDisk /\ jrnl' = jrnl /\ ghost' = ghost /\ mode' = mode /\ txn' = txn
  BY DEF Untouched
<1>3. Image' = Image
  BY <1>2, ImageIs, ImageNext
<1>4. Typed'
  BY <1>1, <1>2 DEF IInv, Typed
<1>5. Files'
  <2>1. Files
    BY DEF IInv
  <2> QED
    BY <1>2, <1>3, <2>1 DEF Files
<1>6. Alone'
  BY <1>1, <1>2 DEF IInv, Alone
<1>7. \A d \in Conns : Known(pager'[d], held'[d], jrnl', db', Image', txn')
  BY <1>1, <1>2, <1>3 DEF IInv
<1>8. \A d, e \in Conns : d # e => Exclude(held'[d], held'[e])
  BY <1>1 DEF IInv
<1>9. Safe'
  <2>1. SUFFICES ASSUME sound'
                 PROVE  Durable(db', dbDisk', jrnl', ghost', Image') /\ \A d \in Conns : Firmly(pager'[d], jrnl', db', dbDisk')
    BY DEF Safe
  <2>2. Durable(db, dbDisk, jrnl, ghost, Image) /\ \A d \in Conns : Firmly(pager[d], jrnl, db, dbDisk)
    BY <2>1 DEF IInv, Safe
  <2>3. Durable(db', dbDisk', jrnl', ghost', Image')
    BY <1>2, <1>3, <2>2
  <2> QED
    BY <1>1, <1>2, <2>1, <2>2, <2>3
<1> QED
  BY <1>3, <1>4, <1>5, <1>6, <1>7, <1>8, <1>9 DEF IInv

\* A step of a connection that has the files for itself.
LEMMA Moves ==
  ASSUME IInv, NEW c \in Conns, NEW N \in Connection, NEW G \in SUBSET LockNames,
         Become(c, N), held' = [held EXCEPT ![c] = G], G \subseteq held[c],
         "reserved" \in held[c] \/ "exclusive" \in held[c],
         FileOK(db', dbDisk'), JournalOK(jrnl'), JournalOK(ghost'), mode' = mode, txn' \in 0..TxnsIn[mode],
         Files', Known(N, G, jrnl', db', Image', txn'), N.at = "finish" => ~ghost'.exists,
         \/ Image' = Image /\ (IsHot(jrnl') => IsHot(jrnl) \/ "exclusive" \in held[c])
         \/ "exclusive" \in held[c] /\ Image[1] < Image'[1],
         sound' => Durable(db', dbDisk', jrnl', ghost', Image') /\ Firmly(N, jrnl', db', dbDisk')
  PROVE  IInv'
<1>0. Typed
  BY DEF IInv
<1>1. /\ pager' \in [Conns -> Connection] /\ held' \in [Conns -> SUBSET LockNames]
      /\ pager'[c] = N /\ held'[c] = G
      /\ \A d \in Conns : d # c => pager'[d] = pager[d] /\ held'[d] = held[d]
  BY <1>0, OneMoves
<1>2. Typed'
  BY <1>1 DEF IInv, Typed
<1>3. Image[1] \in Nat /\ Image'[1] \in Nat
  <2>1. Solid(Image, txn) /\ Solid(Image', txn')
    BY DEF IInv, Files
  <2>2. txn \in Nat /\ txn' \in Nat
    BY <1>0, TxnFacts
  <2> QED
    BY <2>1, <2>2, StampsAre
<1>4. ASSUME NEW d \in Conns, d # c
      PROVE  Known(pager[d], held[d], jrnl', db', Image', txn') /\ \A dd : Firmly(pager[d], jrnl', db', dd)
  <2>1. Known(pager[d], held[d], jrnl, db, Image, txn) /\ pager[d].dbFileVers \in Nat
    BY Connected, Fields
  <2>2. /\ pager[d].eState \notin Live /\ pager[d].todo = {}
        /\ ~(pager[d].eState = "open" /\ pager[d].at \in {"playback"} \union Rolling)
        /\ "exclusive" \in held[c] => held[d] = {} /\ pager[d].eState = "open" /\ pager[d].at = "idle"
    BY <1>4, Aside
  <2>3. \/ Image' = Image /\ (IsHot(jrnl') => IsHot(jrnl))
        \/ pager[d].eState = "open" /\ pager[d].at = "idle" /\ held[d] = {} /\ (Image' = Image \/ Image[1] < Image'[1])
    BY <2>2
  <2> QED
    BY <1>3, <2>1, <2>2, <2>3, Bystander
<1>5. Alone'
  <2>1. \A d \in Conns : d # c => pager[d].at # "finish"
    BY Aside DEF Filling
  <2> QED
    BY <1>1, <2>1 DEF Alone
<1>6. \A d \in Conns : Known(pager'[d], held'[d], jrnl', db', Image', txn')
  BY <1>1, <1>4
<1>7. \A d, e \in Conns : d # e => Exclude(held'[d], held'[e])
  <2>1. ASSUME NEW d \in Conns, d # c
        PROVE  Exclude(G, held[d]) /\ Exclude(held[d], G)
    <3>1. Exclude(held[c], held[d]) /\ Exclude(held[d], held[c])
      BY <2>1, Excluded
    <3> QED
      BY <3>1 DEF Exclude
  <2> QED
    BY <1>1, <2>1 DEF IInv
<1>8. Safe'
  <2>1. SUFFICES ASSUME sound'
                 PROVE  Durable(db', dbDisk', jrnl', ghost', Image') /\ \A d \in Conns : Firmly(pager'[d], jrnl', db', dbDisk')
    BY DEF Safe
  <2> QED
    BY <1>1, <1>4, <2>1
<1> QED
  BY <1>2, <1>5, <1>6, <1>7, <1>8 DEF IInv

-----------------------------------------------------------------------------
(* Steps that read.                                                        *)

\* Each connection is in a process of its own.
Apart == \A c, d \in Conns : Owner[c] = Owner[d] => c = d

\* The locks that go with a step.
Suits(a, G) ==
  \/ a = "idle" /\ G = {}
  \/ a \in Looking /\ G = {"shared"}
  \/ a = "give-up" /\ "shared" \in G /\ G \subseteq {"shared", "pending"}
  \/ a = "reopen" /\ G = {"shared", "pending", "exclusive"}

\* Only the step differs, or the state.
Alike(P, N) ==
  /\ N.cache = P.cache /\ N.dirty = P.dirty /\ N.needSync = P.needSync /\ N.inJournal = P.inJournal
  /\ N.dbFileVers = P.dbFileVers /\ N.dbSize = P.dbSize /\ N.dbOrigSize = P.dbOrigSize /\ N.journalHdr = P.journalHdr
  /\ N.journalOff = P.journalOff /\ N.own = P.own /\ N.stamp = P.stamp /\ N.todo = P.todo /\ N.spilling = P.spilling

LEMMA Looks ==
  ASSUME NEW P \in Connection, NEW H, NEW j, NEW f, NEW I, NEW t, Known(P, H, j, f, I, t),
         P.eState = "open", P.todo = {}, NEW a \in Steps, NEW N, N.at = a, N.eState = "open", Alike(P, N), NEW G,
         Suits(a, G),
         a = "version" => ~IsHot(j)
  PROVE  Known(N, G, j, f, I, t) /\ (\A dd : Firmly(N, j, f, dd)) /\ N.at # "finish"
<1>0. \/ a = "idle" /\ G = {}
      \/ a \in Looking /\ G = {"shared"}
      \/ a = "give-up" /\ "shared" \in G /\ G \subseteq {"shared", "pending"}
      \/ a = "reopen" /\ G = {"shared", "pending", "exclusive"}
  BY DEF Suits
<1>1. /\ N.at = a /\ N.eState = "open" /\ N.todo = {} /\ N.dirty = P.dirty /\ N.needSync = P.needSync
      /\ N.inJournal = P.inJournal /\ N.spilling = P.spilling /\ N.own = P.own /\ N.journalHdr = P.journalHdr
      /\ N.dbFileVers = P.dbFileVers /\ N.cache = P.cache
  BY DEF Alike
<1>2. Locks(N, G)
  BY <1>0, <1>1 DEF Locks, Recovering, Looking, Rolling, Filling, Live
<1>3. Passed(N, G, j)
  BY <1>0, <1>1 DEF Passed, Looking
<1>4. Resting(N)
  BY <1>0, <1>1 DEF Resting, Known, Live, Looking
<1>5. Writes(N, j, f, I, t) /\ Recovers(N, j, f, I)
  BY <1>0, <1>1 DEF Writes, Recovers, Rolling, Looking, Live
<1>6. Knows(N, I)
  BY <1>1 DEF Knows, Known, Fits
<1>7. \A dd : Firmly(N, j, f, dd)
  BY <1>0, <1>1 DEF Firmly, FirmWriter, FirmRecovery, Rolling, Looking, Live
<1>8. N.at # "finish"
  BY <1>0, <1>1 DEF Looking
<1> QED
  BY <1>1, <1>2, <1>3, <1>4, <1>5, <1>6, <1>7, <1>8 DEF Known

\* A step of a connection that is looking at the files.
LEMMA LooksOn ==
  ASSUME IInv, NEW c \in Conns, pager[c].eState = "open", pager[c].at # "pages", NEW a \in Steps, NEW G,
         Goto(c, a), held' = [held EXCEPT ![c] = G], Untouched, sound' = sound,
         Suits(a, G),
         a = "version" => ~IsHot(jrnl),
         \A d \in Conns : d # c => Exclude(G, held[d]) /\ Exclude(held[d], G)
  PROVE  IInv' /\ Image' = Image
<1>1. PICK P : P = pager[c]
  OBVIOUS
<1>2. PICK N : N = [P EXCEPT !.at = a]
  OBVIOUS
<1>3. P \in Connection /\ Known(P, held[c], jrnl, db, Image, txn)
  BY <1>1, Connected
<1>4. P.todo = {}
  BY <1>1, <1>3 DEF Known, Resting, Live
<1>5. N \in Connection /\ N.at = a /\ N.eState = "open" /\ Alike(P, N)
  BY <1>1, <1>2, <1>3 DEF Connection, Alike
<1>8. Known(N, G, jrnl, db, Image, txn) /\ (\A dd : Firmly(N, jrnl, db, dd)) /\ N.at # "finish"
  BY <1>1, <1>3, <1>4, <1>5, Looks
<1>6. Become(c, N)
  BY <1>1, <1>2 DEF Goto, Become, IInv, Typed
<1>7. G \in SUBSET LockNames
  BY DEF LockNames, Suits
<1> QED
  BY <1>5, <1>6, <1>7, <1>8, Quiet

LEMMA HeldSame ==
  ASSUME Typed, NEW c \in Conns, held' = held
  PROVE  held' = [held EXCEPT ![c] = held[c]]
BY DEF Typed

LEMMA Granted ==
  ASSUME Typed, NEW c \in Conns, NEW ls, L!Grant(c, ls)
  PROVE  held' = [held EXCEPT ![c] = held[c] \union ls]
BY DEF Typed, L!Grant

\* Locks that leave those of others as they are.
LEMMA Compatible ==
  ASSUME IInv, NEW c \in Conns, NEW G, held[c] # {} \/ \A d \in Conns : d # c => "exclusive" \notin held[d],
         "exclusive" \in G => "exclusive" \in held[c] \/ L!NobodyElse(c, "shared"),
         "reserved" \in G => "reserved" \in held[c] \/ L!NobodyElse(c, "reserved")
  PROVE  \A d \in Conns : d # c => Exclude(G, held[d]) /\ Exclude(held[d], G)
<1> SUFFICES ASSUME NEW d \in Conns, d # c
             PROVE  Exclude(G, held[d]) /\ Exclude(held[d], G)
  OBVIOUS
<1>1. Exclude(held[c], held[d]) /\ Exclude(held[d], held[c])
  BY Excluded
<1>2. "exclusive" \notin held[d]
  BY <1>1 DEF Exclude
<1>3. \A l : L!NobodyElse(c, l) => l \notin held[d]
  BY DEF L!NobodyElse, L!Others
<1>4. held[d] # {} => "shared" \in held[d]
  BY Connected DEF Known, Locks
<1>5. "exclusive" \in G => held[d] = {}
  BY <1>1, <1>3, <1>4 DEF Exclude
<1>6. "reserved" \in G => "reserved" \notin held[d]
  BY <1>1, <1>3 DEF Exclude
<1> QED
  BY <1>2, <1>5, <1>6 DEF Exclude

LEMMA NoSiblings ==
  ASSUME Apart, NEW c \in Conns
  PROVE  L!Siblings(c) = {}
BY DEF Apart, L!Siblings, L!Others

LEMMA OpenLocks ==
  ASSUME IInv, NEW c \in Conns, pager[c].eState = "open"
  PROVE  /\ pager[c].at = "idle" => held[c] = {}
         /\ pager[c].at \in Looking => held[c] = {"shared"}
         /\ pager[c].at = "give-up" => "shared" \in held[c] /\ held[c] \subseteq {"shared", "pending"}
         /\ pager[c].at \in Recovering => held[c] = {"shared", "pending", "exclusive"}
<1>1. Locks(pager[c], held[c])
  BY Connected DEF Known
<1> QED
  BY <1>1 DEF Locks, Looking, Recovering, Rolling

\* SHARED is obtained, or the step is tried again (sqlite3PagerSharedLock).
LEMMA SharedLockStep ==
  ASSUME IInv, Apart, NEW c \in Conns, SharedLock(c)
  PROVE  IInv' /\ Image' = Image
<1>1. pager[c].eState = "open" /\ pager[c].at = "idle" /\ Goto(c, "exists") /\ (L!Shared(c) \/ L!Beside(c))
  BY DEF SharedLock, In
<1>2. held[c] = {} /\ L!Grant(c, {"shared"}) /\ L!NobodyElse(c, "pending")
  BY <1>1, NoSiblings DEF L!Shared, L!Beside
<1>3. held' = [held EXCEPT ![c] = {"shared"}]
  <2>1. Typed
    BY DEF IInv
  <2> QED
    BY <1>2, <2>1, Granted
<1>4. \A d \in Conns : d # c => "exclusive" \notin held[d]
  <2>1. ASSUME NEW d \in Conns, d # c, "exclusive" \in held[d]
        PROVE  FALSE
    <3>1. "pending" \in held[d]
      BY <2>1, Connected DEF Known, Locks
    <3> QED
      BY <1>2, <2>1, <3>1 DEF L!NobodyElse, L!Others
  <2> QED
    BY <2>1
<1>5. Untouched /\ sound' = sound
  BY DEF SharedLock, Untouched, files, history
<1>6. \A d \in Conns : d # c => Exclude({"shared"}, held[d]) /\ Exclude(held[d], {"shared"})
  BY <1>4, Compatible
<1>7. "exists" \in Looking /\ "exists" \in Steps
  BY DEF Looking, Steps
<1> QED
  BY <1>1, <1>3, <1>5, <1>6, <1>7, LooksOn DEF Suits

\* hasHotJournal: does the journal exist (line 51312)?
LEMMA JournalExistsStep ==
  ASSUME IInv, NEW c \in Conns, JournalExists(c)
  PROVE  IInv' /\ Image' = Image
<1>1. PICK a : a = IF jrnl.exists THEN "reserved" ELSE "version"
  OBVIOUS
<1>2. pager[c].eState = "open" /\ pager[c].at = "exists" /\ Goto(c, a) /\ held' = held /\ Untouched /\ sound' = sound
  BY <1>1 DEF JournalExists, In, Untouched, files, history
<1>3. a \in Looking /\ a \in Steps /\ held[c] = {"shared"} /\ (a = "version" => ~IsHot(jrnl))
  BY <1>1, <1>2, OpenLocks DEF Looking, Steps, IsHot
<1>4. held' = [held EXCEPT ![c] = {"shared"}]
  BY <1>2, <1>3, HeldSame DEF IInv
<1>5. \A d \in Conns : d # c => Exclude({"shared"}, held[d]) /\ Exclude(held[d], {"shared"})
  BY <1>3, Compatible
<1> QED
  BY <1>2, <1>3, <1>4, <1>5, LooksOn DEF Suits

\* hasHotJournal: does anybody have RESERVED (line 51331)?  With one connection to a process, a lock
\* that is seen is that of another process.
LEMMA CheckReservedStep ==
  ASSUME IInv, Apart, NEW c \in Conns, CheckReserved(c)
  PROVE  IInv' /\ Image' = Image
<1>1. PICK a : a = IF L!SeesReserved(c) THEN "version" ELSE "first-byte"
  OBVIOUS
<1>2. pager[c].eState = "open" /\ pager[c].at = "reserved" /\ Goto(c, a) /\ held' = held /\ Untouched /\ sound' = sound
  BY <1>1 DEF CheckReserved, In, Untouched, files, history
<1>3. a \in Looking /\ a \in Steps /\ held[c] = {"shared"}
  BY <1>1, <1>2, OpenLocks DEF Looking, Steps
<1>4. held' = [held EXCEPT ![c] = {"shared"}]
  BY <1>2, <1>3, HeldSame DEF IInv
<1>5. \A d \in Conns : d # c => Exclude({"shared"}, held[d]) /\ Exclude(held[d], {"shared"})
  BY <1>3, Compatible
<1>6. ASSUME a = "version"
      PROVE  ~IsHot(jrnl)
  <2>1. L!SeesReserved(c)
    BY <1>1, <1>6
  <2>2. PICK d \in Conns : d # c /\ "reserved" \in held[d]
    BY <2>1, NoSiblings DEF L!SeesReserved, L!Others
  <2>3. Passed(pager[d], held[d], jrnl)
    BY <2>2, Connected DEF Known
  <2>4. Exclude(held[d], held[c])
    BY <2>2, Excluded
  <2> QED
    BY <1>3, <2>2, <2>3, <2>4 DEF Passed, Exclude
<1> QED
  BY <1>2, <1>3, <1>4, <1>5, <1>6, LooksOn DEF Suits

\* hasHotJournal: is the first byte of the journal zero (line 51343)?
LEMMA FirstByteStep ==
  ASSUME IInv, NEW c \in Conns, FirstByte(c)
  PROVE  IInv' /\ Image' = Image
<1>1. PICK hot \in BOOLEAN : (~hot => jrnl.exists /\ ~HasMagic(jrnl.slots[1])) /\ Goto(c, IF hot THEN "exclusive" ELSE "version")
  BY DEF FirstByte
<1>2. PICK a : a = IF hot THEN "exclusive" ELSE "version"
  OBVIOUS
<1>3. pager[c].eState = "open" /\ pager[c].at = "first-byte" /\ Goto(c, a) /\ held' = held /\ Untouched /\ sound' = sound
  BY <1>1, <1>2 DEF FirstByte, In, Untouched, files, history
<1>4. a \in Looking /\ a \in Steps /\ held[c] = {"shared"} /\ (a = "version" => ~IsHot(jrnl))
  BY <1>1, <1>2, <1>3, OpenLocks DEF Looking, Steps, IsHot
<1>5. held' = [held EXCEPT ![c] = {"shared"}]
  BY <1>3, <1>4, HeldSame DEF IInv
<1>6. \A d \in Conns : d # c => Exclude({"shared"}, held[d]) /\ Exclude(held[d], {"shared"})
  BY <1>4, Compatible
<1> QED
  BY <1>3, <1>4, <1>5, <1>6, LooksOn DEF Suits

\* What becomes of the locks if EXCLUSIVE is not granted.
LEMMA RefusedLocks ==
  ASSUME Typed, NEW c \in Conns, Refused(c)
  PROVE  \E G : held' = [held EXCEPT ![c] = G] /\ held[c] \subseteq G /\ G \subseteq held[c] \union {"pending"} /\ (G # held[c] => "shared" \in held[c])
<1>1. CASE L!Pending(c)
  <2>1. L!Grant(c, {"pending"}) /\ "shared" \in held[c]
    BY <1>1 DEF L!Pending
  <2>2. held' = [held EXCEPT ![c] = held[c] \union {"pending"}]
    BY <2>1, Granted
  <2> QED
    BY <2>1, <2>2
<1>2. CASE UNCHANGED held
  <2>1. held' = [held EXCEPT ![c] = held[c]]
    BY <1>2, HeldSame
  <2> QED
    BY <2>1
<1> QED
  BY <1>1, <1>2 DEF Refused

\* EXCLUSIVE for the rollback of a hot journal (line 51486), or PENDING at least, or nothing.
LEMMA LockHotStep ==
  ASSUME IInv, NEW c \in Conns, LockHot(c)
  PROVE  IInv' /\ Image' = Image
<1>0. Typed
  BY DEF IInv
<1>1. pager[c].eState = "open" /\ pager[c].at = "exclusive" /\ Untouched /\ sound' = sound
  BY DEF LockHot, In, Untouched, files, history
<1>2. held[c] = {"shared"}
  BY <1>1, OpenLocks DEF Looking
<1>3. CASE L!Exclusive(c) /\ Goto(c, "reopen")
  <2>1. L!NobodyElse(c, "shared") /\ L!Grant(c, {"pending", "exclusive"})
    BY <1>3 DEF L!Exclusive
  <2>2. held' = [held EXCEPT ![c] = {"shared", "pending", "exclusive"}]
    <3>1. held[c] \union {"pending", "exclusive"} = {"shared", "pending", "exclusive"}
      BY <1>2
    <3> QED
      BY <1>0, <2>1, <3>1, Granted
  <2>3. \A d \in Conns : d # c => Exclude({"shared", "pending", "exclusive"}, held[d]) /\ Exclude(held[d], {"shared", "pending", "exclusive"})
    BY <1>2, <2>1, Compatible
  <2>4. "reopen" \in Steps
    BY DEF Steps
  <2> QED
    BY <1>1, <1>3, <2>2, <2>3, <2>4, LooksOn DEF Suits
<1>4. CASE Refused(c) /\ Goto(c, "give-up")
  <2>1. PICK G : held' = [held EXCEPT ![c] = G] /\ held[c] \subseteq G /\ G \subseteq held[c] \union {"pending"}
    BY <1>0, <1>4, RefusedLocks
  <2>2. "shared" \in G /\ G \subseteq {"shared", "pending"}
    BY <1>2, <2>1
  <2>3. \A d \in Conns : d # c => Exclude(G, held[d]) /\ Exclude(held[d], G)
    BY <1>2, <2>2, Compatible
  <2>4. "give-up" \in Steps
    BY DEF Steps
  <2> QED
    BY <1>1, <1>4, <2>1, <2>2, <2>3, <2>4, LooksOn DEF Suits
<1> QED
  BY <1>3, <1>4 DEF LockHot

\* EXCLUSIVE was refused: all locks are given back.
LEMMA GiveUpStep ==
  ASSUME IInv, NEW c \in Conns, GiveUp(c)
  PROVE  IInv' /\ Image' = Image
<1>1. /\ pager[c].eState = "open" /\ pager[c].at = "give-up" /\ Goto(c, "idle") /\ held' = [held EXCEPT ![c] = {}]
      /\ Untouched /\ sound' = sound
  BY DEF GiveUp, In, LockIs, Untouched, files, history
<1>2. held[c] # {}
  BY <1>1, OpenLocks
<1>3. \A d \in Conns : d # c => Exclude({}, held[d]) /\ Exclude(held[d], {})
  BY <1>2, Compatible
<1>4. "idle" \in Steps
  BY DEF Steps
<1> QED
  BY <1>1, <1>3, <1>4, LooksOn DEF Suits

LEMMA Known0 ==
  ASSUME NEW N, NEW G, NEW j, NEW f, NEW I, NEW t, N.eState \notin Live, N.todo = {}, N.at \in {"idle", "version"},
         Locks(N, G), Passed(N, G, j), Resting(N), Knows(N, I)
  PROVE  Known(N, G, j, f, I, t) /\ (\A dd : Firmly(N, j, f, dd)) /\ N.at # "finish"
BY DEF Known, Writes, Recovers, Firmly, FirmWriter, FirmRecovery, Rolling

LEMMA Cold ==
  ASSUME NEW f, NEW j, ~IsHot(j)
  PROVE  ImageOf(f, j) = f
BY ReplayedCold DEF ImageOf, IsHot

LEMMA FileSizeIs ==
  ASSUME NEW n \in Pages, Sized(db, n)
  PROVE  FileSize = n
<1>1. {p \in Pages : db[p] # Absent} = 1..n
  BY Bounds DEF Sized, Pages
<1>2. n \in Nat /\ n >= 1
  BY Bounds DEF Pages
<1>3. 1..n \in SUBSET (0..n) /\ n \in 1..n
  BY <1>2
<1>4. Max(1..n) \in 1..n /\ n <= Max(1..n)
  BY <1>2, <1>3, GreatestOf
<1>5. Max(1..n) = n
  BY <1>2, <1>4
<1> QED
  BY <1>1, <1>5 DEF FileSize

\* The cache is kept if the change counter is the same (line 51568): then nobody has committed.
LEMMA CheckVersionStep ==
  ASSUME IInv, NEW c \in Conns, CheckVersion(c)
  PROVE  IInv' /\ Image' = Image /\ pager[c].eState = "open" /\ pager'[c].eState = "reader"
<1>1. PICK P : P = pager[c]
  OBVIOUS
<1>2. PICK K : K = IF P.dbFileVers # db[1] THEN Fresh.cache ELSE P.cache
  OBVIOUS
<1>3. PICK N : N = [P EXCEPT !.eState = "reader", !.at = "idle", !.dbSize = FileSize, !.cache = [K EXCEPT ![1] = db[1]], !.dbFileVers = db[1]]
  OBVIOUS
<1>4. P.eState = "open" /\ P.at = "version" /\ Become(c, N) /\ held' = held /\ Untouched /\ sound' = sound
  BY <1>1, <1>2, <1>3 DEF CheckVersion, In, Untouched, files, history
<1>5. P \in Connection /\ Known(P, held[c], jrnl, db, Image, txn) /\ held[c] = {"shared"}
  BY <1>1, <1>4, Connected, OpenLocks DEF Looking
<1>6. ~IsHot(jrnl) /\ Image = db
  <2>1. ~IsHot(jrnl)
    BY <1>4, <1>5 DEF Known, Passed
  <2> QED
    BY <2>1, Cold, ImageIs
<1>7. db \in [Pages -> Values] /\ Solid(db, txn) /\ txn \in Nat
  BY <1>6, TxnFacts DEF IInv, Typed, FileOK, Files
<1>8. PICK n \in Pages : Sized(db, n)
  BY <1>7, StampsAre
<1>9. FileSize = n
  BY <1>8, FileSizeIs
<1>10. K \in [Pages -> Cached] /\ \A p \in Pages : K[p] \in {NotCached, db[p]}
  <2>1. CASE P.dbFileVers # db[1]
    BY <1>2, <2>1 DEF Fresh, Cached
  <2>2. CASE P.dbFileVers = db[1]
    <3>1. \A p \in Pages : P.cache[p] \in {NotCached, db[p]}
      BY <1>4, <1>5, <1>6, <2>2 DEF Known, Knows, Fits
    <3> QED
      BY <1>2, <1>5, <2>2, <3>1, Fields
  <2> QED
    BY <2>1, <2>2
<1>11. 1 \in Pages /\ db[1] \in Values /\ db[1] # NotCached
  <2>1. 1 \in Pages
    BY <1>7, StampsAre
  <2> QED
    BY <1>7, <2>1, Bounds DEF Values
<1>12. N \in Connection /\ N.eState = "reader" /\ N.at = "idle" /\ N.dbSize = n /\ N.dbFileVers = db[1] /\ N.todo = P.todo
       /\ N.dirty = P.dirty /\ N.needSync = P.needSync /\ N.inJournal = P.inJournal /\ N.spilling = P.spilling /\ N.own = P.own
       /\ N.journalHdr = P.journalHdr /\ N.cache = [K EXCEPT ![1] = db[1]]
  <2>1. [K EXCEPT ![1] = db[1]] \in [Pages -> Cached]
    BY <1>10, <1>11 DEF Cached
  <2>2. "reader" \in States /\ "idle" \in Steps /\ n \in Sizes
    BY <1>8, Bounds DEF States, Steps, Sizes, Pages
  <2> QED
    BY <1>3, <1>5, <1>9, <1>11, <2>1, <2>2 DEF Connection
<1>13. P.todo = {} /\ Resting(N)
  BY <1>4, <1>5, <1>12 DEF Known, Resting, Live
<1>14. Knows(N, Image)
  BY <1>6, <1>8, <1>10, <1>11, <1>12 DEF Knows, Fits
<1>15. Locks(N, {"shared"}) /\ Passed(N, {"shared"}, jrnl)
  BY <1>6, <1>12 DEF Locks, Passed, Live, Filling
<1>16. Known(N, {"shared"}, jrnl, db, Image, txn) /\ (\A dd : Firmly(N, jrnl, db, dd)) /\ N.at # "finish"
  BY <1>12, <1>13, <1>14, <1>15, Known0 DEF Live
<1>17. held' = [held EXCEPT ![c] = {"shared"}]
  BY <1>4, <1>5, HeldSame DEF IInv
<1>18. \A d \in Conns : d # c => Exclude({"shared"}, held[d]) /\ Exclude(held[d], {"shared"})
  BY <1>5, Compatible
<1>19. {"shared"} \in SUBSET LockNames
  BY DEF LockNames
<1>20. IInv' /\ Image' = Image
  BY <1>4, <1>12, <1>16, <1>17, <1>18, <1>19, Quiet
<1>21. pager'[c] = N
  BY <1>4 DEF Become, IInv, Typed
<1> QED
  BY <1>1, <1>4, <1>12, <1>20, <1>21

\* A step of a connection that writes nothing, before and after.
LEMMA Rests ==
  ASSUME IInv, NEW c \in Conns, NEW P, P = pager[c], NEW N \in Connection, NEW G \in SUBSET LockNames,
         Become(c, N), held' = [held EXCEPT ![c] = G], Untouched, sound' = sound,
         N.at = "idle", N.eState \notin Live, N.todo = {}, Resting(N),
         held[c] # {}, G \subseteq held[c] \/ (G = {"shared", "reserved"} /\ L!NobodyElse(c, "reserved")),
         Locks(N, G), Passed(N, G, jrnl), Knows(N, Image)
  PROVE  IInv' /\ Image' = Image /\ pager'[c] = N
<1>1. Known(N, G, jrnl, db, Image, txn) /\ (\A dd : Firmly(N, jrnl, db, dd)) /\ N.at # "finish"
  BY Known0
<1>2. \A d \in Conns : d # c => Exclude(G, held[d]) /\ Exclude(held[d], G)
  BY Compatible
<1>3. IInv' /\ Image' = Image
  BY <1>1, <1>2, Quiet
<1>4. pager'[c] = N
  BY DEF Become, IInv, Typed
<1> QED
  BY <1>3, <1>4

\* The last page is released, and with it SHARED.
LEMMA EndReadStep ==
  ASSUME IInv, NEW c \in Conns, EndRead(c)
  PROVE  IInv' /\ Image' = Image /\ pager[c].eState = "reader" /\ pager'[c].eState = "open"
<1>1. PICK P : P = pager[c]
  OBVIOUS
<1>2. PICK N : N = [P EXCEPT !.eState = "open", !.dbSize = 0]
  OBVIOUS
<1>3. P.eState = "reader" /\ P.at = "idle" /\ Become(c, N) /\ held' = [held EXCEPT ![c] = {}] /\ Untouched /\ sound' = sound
  BY <1>1, <1>2 DEF EndRead, In, LockIs, Untouched, files, history
<1>4. P \in Connection /\ Known(P, held[c], jrnl, db, Image, txn)
  BY <1>1, Connected
<1>5. held[c] # {} /\ P.todo = {}
  BY <1>3, <1>4 DEF Known, Locks, Resting, Live
<1>6. /\ N \in Connection /\ N.eState = "open" /\ N.at = "idle" /\ N.todo = {} /\ N.dirty = P.dirty /\ N.needSync = P.needSync
      /\ N.inJournal = P.inJournal /\ N.spilling = P.spilling /\ N.own = P.own /\ N.journalHdr = P.journalHdr
      /\ N.cache = P.cache /\ N.dbFileVers = P.dbFileVers
  <2>1. "open" \in States /\ 0 \in Sizes
    BY Bounds DEF States, Sizes
  <2> QED
    BY <1>2, <1>3, <1>4, <1>5, <2>1 DEF Connection
<1>7. Resting(N)
  BY <1>3, <1>4, <1>6 DEF Known, Resting, Live
<1>8. Locks(N, {}) /\ Passed(N, {}, jrnl)
  BY <1>6 DEF Locks, Passed, Live, Filling
<1>9. Knows(N, Image)
  <2>1. P.dbFileVers = Image[1] /\ Fits(P, Image) /\ P.dbFileVers \in Nat
    BY <1>3, <1>4, Fields DEF Known, Knows
  <2> QED
    BY <1>6, <2>1 DEF Knows, Fits
<1>10. N.eState \notin Live /\ {} \in SUBSET LockNames /\ {} \subseteq held[c]
  BY <1>6 DEF Live
<1>11. IInv' /\ Image' = Image /\ pager'[c] = N
  BY <1>1, <1>3, <1>5, <1>6, <1>7, <1>8, <1>9, <1>10, Rests
<1> QED
  BY <1>1, <1>3, <1>6, <1>11

\* RESERVED (sqlite3PagerBegin).
LEMMA BeginStep ==
  ASSUME IInv, NEW c \in Conns, Begin(c)
  PROVE  IInv' /\ Image' = Image /\ pager[c].eState = "reader" /\ pager'[c].eState = "locked"
<1>1. PICK P : P = pager[c]
  OBVIOUS
<1>2. PICK N : N = [P EXCEPT !.eState = "locked", !.dbOrigSize = P.dbSize]
  OBVIOUS
<1>3. /\ P.eState = "reader" /\ P.at = "idle" /\ Become(c, N) /\ Untouched /\ sound' = sound
      /\ held[c] = {"shared"} /\ L!NobodyElse(c, "reserved") /\ L!Grant(c, {"reserved"})
  BY <1>1, <1>2 DEF Begin, In, L!Reserved, Untouched, files, history
<1>4. P \in Connection /\ Known(P, held[c], jrnl, db, Image, txn)
  BY <1>1, Connected
<1>5. held' = [held EXCEPT ![c] = {"shared", "reserved"}]
  <2>1. held[c] \union {"reserved"} = {"shared", "reserved"}
    BY <1>3
  <2> QED
    BY <1>3, <2>1, Granted DEF IInv
<1>6. /\ N \in Connection /\ N.eState = "locked" /\ N.at = "idle" /\ N.todo = P.todo /\ N.dirty = P.dirty /\ N.needSync = P.needSync
      /\ N.inJournal = P.inJournal /\ N.spilling = P.spilling /\ N.own = P.own /\ N.journalHdr = P.journalHdr
      /\ N.cache = P.cache /\ N.dbFileVers = P.dbFileVers /\ N.dbSize = P.dbSize /\ N.dbOrigSize = P.dbSize
  <2>1. "locked" \in States /\ P.dbSize \in Sizes
    BY <1>4, Fields DEF States
  <2> QED
    BY <1>2, <1>3, <1>4, <2>1 DEF Connection
<1>7. Resting(N) /\ N.todo = {}
  BY <1>3, <1>4, <1>6 DEF Known, Resting, Live
<1>8. Locks(N, {"shared", "reserved"}) /\ Passed(N, {"shared", "reserved"}, jrnl)
  <2>1. ~IsHot(jrnl)
    BY <1>3, <1>4 DEF Known, Passed
  <2> QED
    BY <1>6, <2>1 DEF Locks, Passed, Live, Filling
<1>9. Knows(N, Image)
  BY <1>3, <1>4, <1>6 DEF Known, Knows, Fits
<1>10. N.eState \notin Live /\ {"shared", "reserved"} \in SUBSET LockNames /\ held[c] # {}
  BY <1>3, <1>6 DEF Live, LockNames
<1>11. IInv' /\ Image' = Image /\ pager'[c] = N
  BY <1>1, <1>3, <1>5, <1>6, <1>7, <1>8, <1>9, <1>10, Rests
<1> QED
  BY <1>1, <1>3, <1>6, <1>11

\* The cache loses what is beyond the end of the database.
Trimmed(P, S) == \A p \in Pages : S.cache[p] = IF p > P.dbSize THEN NotCached ELSE P.cache[p]

LEMMA SettledIs ==
  ASSUME NEW P \in Connection, NEW S, S = Settled(P)
  PROVE  /\ S \in Connection /\ S.eState = P.eState /\ S.at = P.at /\ S.dirty = {} /\ S.needSync = {} /\ S.inJournal = {}
         /\ S.dbFileVers = P.dbFileVers /\ S.dbSize = P.dbSize /\ S.dbOrigSize = 0 /\ S.journalHdr = 0 /\ S.own = 0 /\ S.todo = {}
         /\ S.spilling = FALSE /\ Trimmed(P, S)
<1>1. 0 \in Sizes /\ 0 \in Offsets /\ 0 \in Stamps /\ NotCached \in Cached
  BY Bounds DEF Sizes, Offsets, Stamps, Cached
<1>2. PICK K : K = [p \in Pages |-> IF p > P.dbSize THEN NotCached ELSE P.cache[p]]
  OBVIOUS
<1>3. K \in [Pages -> Cached]
  BY <1>1, <1>2, Fields
<1>4. S = [P EXCEPT !.dirty = {}, !.needSync = {}, !.inJournal = {}, !.dbOrigSize = 0, !.journalHdr = 0,
            !.journalOff = 0, !.own = 0, !.stamp = 0, !.todo = {}, !.spilling = FALSE, !.cache = K]
  BY <1>2 DEF Settled
<1>5. S \in Connection
  BY <1>1, <1>3, <1>4 DEF Connection
<1>6. S.cache = K
  BY <1>4 DEF Connection
<1>7. Trimmed(P, S)
  BY <1>2, <1>6 DEF Trimmed
<1> QED
  BY <1>4, <1>5, <1>7 DEF Connection

LEMMA FreshIs ==
  /\ Fresh \in Connection /\ Fresh.eState = "open" /\ Fresh.at = "idle" /\ Fresh.dirty = {} /\ Fresh.needSync = {} /\ Fresh.inJournal = {}
  /\ Fresh.dbFileVers = Absent /\ Fresh.dbSize = 0 /\ Fresh.dbOrigSize = 0 /\ Fresh.journalHdr = 0 /\ Fresh.own = 0 /\ Fresh.todo = {}
  /\ Fresh.spilling = FALSE /\ \A p \in Pages : Fresh.cache[p] = NotCached
<1>1. 0 \in Sizes /\ 0 \in Offsets /\ 0 \in Stamps /\ NotCached \in Cached /\ Absent \in Values
  BY Bounds DEF Sizes, Offsets, Stamps, Cached, Values, Absent
<1>2. "open" \in States /\ "idle" \in Steps
  BY DEF States, Steps
<1> QED
  BY <1>1, <1>2 DEF Fresh, Connection

LEMMA FreshKnows ==
  ASSUME NEW t \in Nat, NEW I, Solid(I, t), NEW j, NEW f
  PROVE  Known(Fresh, {}, j, f, I, t) /\ (\A dd : Firmly(Fresh, j, f, dd)) /\ Fresh.at # "finish"
<1>1. I[1] \in Nat
  BY StampsAre
<1>2. Locks(Fresh, {}) /\ Passed(Fresh, {}, j) /\ Resting(Fresh)
  BY FreshIs DEF Locks, Passed, Resting, Live, Filling
<1>3. Knows(Fresh, I)
  BY <1>1, FreshIs DEF Knows, Fits, Absent
<1> QED
  BY <1>2, <1>3, FreshIs, Known0 DEF Live

\* The error state ends when the last page is released: the cache is emptied.
LEMMA EndErrorStep ==
  ASSUME IInv, NEW c \in Conns, EndError(c)
  PROVE  IInv' /\ Image' = Image /\ pager[c].eState = "error" /\ pager'[c].eState = "open"
<1>1. pager[c].eState = "error" /\ Become(c, Fresh) /\ held' = [held EXCEPT ![c] = {}] /\ Untouched /\ sound' = sound
  BY DEF EndError, In, LockIs, Untouched, files, history
<1>2. Known(Fresh, {}, jrnl, db, Image, txn) /\ (\A dd : Firmly(Fresh, jrnl, db, dd)) /\ Fresh.at # "finish"
  <2>1. Solid(Image, txn) /\ txn \in Nat
    BY TxnFacts DEF IInv, Files
  <2> QED
    BY <2>1, FreshKnows
<1>3. \A d \in Conns : d # c => Exclude({}, held[d]) /\ Exclude(held[d], {})
  <2>1. held[c] # {}
    BY <1>1, Connected DEF Known, Locks
  <2> QED
    BY <2>1, Compatible
<1>4. IInv' /\ Image' = Image
  <2>1. {} \in SUBSET LockNames
    OBVIOUS
  <2> QED
    BY <1>1, <1>2, <1>3, <2>1, FreshIs, Quiet
<1>5. pager'[c] = Fresh
  BY <1>1 DEF Become, IInv, Typed
<1> QED
  BY <1>1, <1>4, <1>5, FreshIs

\* A rollback of a transaction that has written nothing.
LEMMA EndEmptyStep ==
  ASSUME IInv, NEW c \in Conns, EndEmpty(c)
  PROVE  IInv' /\ Image' = Image /\ pager[c].eState = "locked" /\ pager'[c].eState = "reader"
<1>1. PICK P : P = pager[c]
  OBVIOUS
<1>2. PICK S : S = Settled(P)
  OBVIOUS
<1>3. PICK N : N = [S EXCEPT !.eState = "reader"]
  OBVIOUS
<1>4. P.eState = "locked" /\ P.at = "idle" /\ Become(c, N) /\ held' = [held EXCEPT ![c] = {"shared"}] /\ Untouched /\ sound' = sound
  BY <1>1, <1>2, <1>3 DEF EndEmpty, In, LockIs, Untouched, files, history
<1>5. P \in Connection /\ Known(P, held[c], jrnl, db, Image, txn) /\ Solid(Image, txn) /\ txn \in Nat
  BY <1>1, Connected, TxnFacts DEF IInv, Files
<1>6. held[c] = {"shared", "reserved"}
  BY <1>4, <1>5 DEF Known, Locks
<1>7. /\ N \in Connection /\ N.eState = "reader" /\ N.at = "idle" /\ N.todo = {} /\ N.dirty = {} /\ N.needSync = {}
      /\ N.inJournal = {} /\ N.spilling = FALSE /\ N.own = 0 /\ N.journalHdr = 0 /\ N.dbFileVers = P.dbFileVers /\ N.dbSize = P.dbSize
      /\ Trimmed(P, N)
  <2>1. S \in Connection /\ "reader" \in States
    BY <1>2, <1>5, SettledIs DEF States
  <2>2. N \in Connection /\ N.eState = "reader" /\ N.at = S.at /\ N.todo = S.todo /\ N.dirty = S.dirty /\ N.needSync = S.needSync
        /\ N.inJournal = S.inJournal /\ N.spilling = S.spilling /\ N.own = S.own /\ N.journalHdr = S.journalHdr
        /\ N.dbFileVers = S.dbFileVers /\ N.dbSize = S.dbSize /\ N.cache = S.cache
    BY <1>3, <2>1 DEF Connection
  <2>3. /\ S.at = P.at /\ S.dirty = {} /\ S.needSync = {} /\ S.inJournal = {} /\ S.dbFileVers = P.dbFileVers
        /\ S.dbSize = P.dbSize /\ S.journalHdr = 0 /\ S.own = 0 /\ S.todo = {} /\ S.spilling = FALSE
    BY <1>2, <1>5, SettledIs
  <2>4. Trimmed(P, S)
    BY <1>2, <1>5, SettledIs
  <2> QED
    BY <1>4, <2>2, <2>3, <2>4 DEF Trimmed
<1>8. Resting(N)
  BY <1>7 DEF Resting
<1>9. Locks(N, {"shared"}) /\ Passed(N, {"shared"}, jrnl)
  <2>1. ~IsHot(jrnl)
    BY <1>4, <1>5 DEF Known, Passed
  <2> QED
    BY <1>7, <2>1 DEF Locks, Passed, Live, Filling
<1>10. Knows(N, Image)
  <2>1. P.dbFileVers = Image[1] /\ P.cache[1] # NotCached /\ Sized(Image, P.dbSize) /\ Fits(P, Image)
    BY <1>4, <1>5 DEF Known, Knows
  <2>2. ~(1 > P.dbSize) /\ 1 \in Pages
    BY <1>5, <2>1, Bounds, StampsAre DEF Sized, Pages
  <2>3. N.cache[1] # NotCached
    BY <1>7, <2>1, <2>2 DEF Trimmed
  <2>4. Fits(N, Image)
    BY <1>7, <2>1 DEF Fits, Trimmed
  <2> QED
    BY <1>7, <2>1, <2>3, <2>4 DEF Knows
<1>11. N.eState \notin Live /\ {"shared"} \in SUBSET LockNames /\ held[c] # {} /\ {"shared"} \subseteq held[c]
  BY <1>6, <1>7 DEF Live, LockNames
<1>12. IInv' /\ Image' = Image /\ pager'[c] = N
  BY <1>1, <1>4, <1>7, <1>8, <1>9, <1>10, <1>11, Rests
<1> QED
  BY <1>1, <1>4, <1>7, <1>12

-----------------------------------------------------------------------------
(* Steps of a writer that touch no file.                                   *)

LEMMA KnownLive ==
  ASSUME NEW N, NEW G, NEW j, NEW f, NEW I, NEW t, N.eState \in Live,
         Locks(N, G), "reserved" \in G /\ IsHot(j) => "exclusive" \in G, Writes(N, j, f, I, t)
  PROVE  Known(N, G, j, f, I, t) /\ \A dd : FirmWriter(N, j, f, dd) => Firmly(N, j, f, dd)
<1>1. N.eState \notin {"open", "reader", "locked"}
  BY DEF Live
<1>2. Passed(N, G, j) /\ Resting(N) /\ Recovers(N, j, f, I) /\ Knows(N, I)
  BY <1>1 DEF Passed, Resting, Recovers, Knows
<1>3. \A dd : FirmRecovery(N, j, f, dd)
  BY <1>1 DEF FirmRecovery
<1> QED
  BY <1>2, <1>3 DEF Known, Firmly

\* The same transaction, elsewhere in its course.
Onward(P, N) ==
  /\ N.eState = P.eState /\ N.cache = P.cache /\ N.dirty = P.dirty /\ N.needSync = P.needSync /\ N.inJournal = P.inJournal
  /\ N.dbFileVers = P.dbFileVers /\ N.dbSize = P.dbSize /\ N.dbOrigSize = P.dbOrigSize /\ N.journalHdr = P.journalHdr
  /\ N.journalOff = P.journalOff /\ N.own = P.own /\ N.stamp = P.stamp

LEMMA WrittenStill ==
  ASSUME NEW P, NEW N, NEW s, Written(P, s),
         N.inJournal = P.inJournal, N.needSync = P.needSync, N.journalHdr = P.journalHdr, N.journalOff = P.journalOff,
         N.own = P.own, N.stamp = P.stamp, N.dbOrigSize = P.dbOrigSize, N.eState # "cachemod" <=> P.eState # "cachemod", Ends(N, s)
  PROVE  Written(N, s)
<1>1. /\ Placed(P) /\ Room(P) /\ s[1].kind = "hdr" /\ s[1].orig = P.dbOrigSize
      /\ Ours(P, s) /\ Recorded(P, s) /\ Left(P, s)
      /\ Reached(s, 0, P.journalHdr) /\ Segment(P, s)
  BY DEF Written
<1>2. Placed(N) /\ Room(N)
  BY <1>1 DEF Placed, Room
<1>3. Ours(N, s) /\ Recorded(N, s) /\ Left(N, s)
  BY <1>1 DEF Ours, Recorded, Left
<1>4. Segment(N, s)
  BY <1>1 DEF Segment
<1> QED
  BY <1>1, <1>2, <1>3, <1>4 DEF Written

LEMMA TouchedStill ==
  ASSUME NEW P, NEW N, N.inJournal = P.inJournal, N.dbSize = P.dbSize, N.dbOrigSize = P.dbOrigSize, N.stamp = P.stamp
  PROVE  Touched(N) = Touched(P) /\ \A I, p : Target(N, I, p) = Target(P, I, p)
<1>1. Touched(N) = Touched(P)
  BY DEF Touched
<1> QED
  BY <1>1 DEF Target

LEMMA ChangedStill ==
  ASSUME NEW P, NEW N, NEW f, NEW I, Changed(P, f, I), Onward(P, N)
  PROVE  Changed(N, f, I)
<1>1. Touched(N) = Touched(P) /\ \A p : Target(N, I, p) = Target(P, I, p)
  BY TouchedStill DEF Onward
<1>2. \A p \in Pages : PageOK(N, f, I, p)
  BY <1>1 DEF Changed, PageOK, Onward
<1> QED
  BY <1>1, <1>2 DEF Changed, Onward

LEMMA LiveStep ==
  ASSUME NEW P, NEW N, NEW j, NEW f, NEW I, NEW t, Writes(P, j, f, I, t), P.eState \in Live, Onward(P, N),
         P.at \notin Rolling, N.at \notin Rolling, Stage(N, j), Planned(N, f, I), Ends(N, j.slots)
  PROVE  Writes(N, j, f, I, t)
<1>1. /\ j.exists /\ P.stamp = t + 1 /\ I[1] <= t /\ Sized(I, P.dbOrigSize)
      /\ Written(P, j.slots) /\ Kept(P, j.slots, I) /\ Changed(P, f, I)
  BY DEF Writes
<1>2. Changed(N, f, I)
  BY <1>1, ChangedStill
<1>3. Written(N, j.slots)
  BY <1>1, WrittenStill DEF Onward
<1>4. Kept(N, j.slots, I)
  BY <1>1 DEF Kept, Onward
<1> QED
  BY <1>1, <1>2, <1>3, <1>4 DEF Writes, Onward

\* What is known of a writer.
LEMMA LiveFacts ==
  ASSUME IInv, NEW c \in Conns, NEW P, P = pager[c], P.eState \in Live
  PROVE  /\ P \in Connection /\ Writes(P, jrnl, db, Image, txn) /\ Locks(P, held[c])
         /\ {"shared", "reserved"} \subseteq held[c] /\ (IsHot(jrnl) => "exclusive" \in held[c])
         /\ sound => FirmWriter(P, jrnl, db, dbDisk)
         /\ jrnl.exists /\ P.stamp = txn + 1 /\ Image[1] <= txn /\ Sized(Image, P.dbOrigSize)
         /\ Written(P, jrnl.slots) /\ Stage(P, jrnl) /\ Kept(P, jrnl.slots, Image)
         /\ P.at \notin Rolling => Changed(P, db, Image) /\ Planned(P, db, Image)
         /\ P.at \in Rolling => Undone(P, jrnl.slots, db, Image)
<1>1. P \in Connection /\ Known(P, held[c], jrnl, db, Image, txn) /\ (sound => Firmly(P, jrnl, db, dbDisk))
  BY Connected
<1>2. Locks(P, held[c]) /\ Passed(P, held[c], jrnl) /\ Writes(P, jrnl, db, Image, txn)
  BY <1>1 DEF Known
<1>3. {"shared", "reserved"} \subseteq held[c]
  BY <1>2 DEF Locks
<1>4. IsHot(jrnl) => "exclusive" \in held[c]
  BY <1>2, <1>3 DEF Passed
<1>5. sound => FirmWriter(P, jrnl, db, dbDisk)
  BY <1>1 DEF Firmly
<1>6. /\ jrnl.exists /\ P.stamp = txn + 1 /\ Image[1] <= txn /\ Sized(Image, P.dbOrigSize)
      /\ Written(P, jrnl.slots) /\ Stage(P, jrnl) /\ Kept(P, jrnl.slots, Image)
      /\ P.at \notin Rolling => Changed(P, db, Image) /\ Planned(P, db, Image)
      /\ P.at \in Rolling => Undone(P, jrnl.slots, db, Image)
  BY <1>2 DEF Writes
<1> QED
  BY <1>1, <1>2, <1>3, <1>4, <1>5, <1>6

LEMMA LiveQuiet ==
  ASSUME IInv, NEW c \in Conns, pager[c].eState \in Live, NEW N \in Connection, NEW G \in SUBSET LockNames,
         Become(c, N), held' = [held EXCEPT ![c] = G], held[c] \subseteq G, Untouched, sound' => sound,
         "exclusive" \in G => "exclusive" \in held[c] \/ L!NobodyElse(c, "shared"),
         "reserved" \in G => "reserved" \in held[c],
         N.eState \in Live, Locks(N, G), Writes(N, jrnl, db, Image, txn), N.at # "finish",
         sound' => FirmWriter(N, jrnl, db, dbDisk)
  PROVE  IInv' /\ Image' = Image /\ pager'[c] = N
<1>1. {"shared", "reserved"} \subseteq held[c] /\ (IsHot(jrnl) => "exclusive" \in held[c])
  BY LiveFacts
<1>2. IsHot(jrnl) => "exclusive" \in G
  BY <1>1
<1>3. Known(N, G, jrnl, db, Image, txn) /\ (FirmWriter(N, jrnl, db, dbDisk) => Firmly(N, jrnl, db, dbDisk))
  BY <1>2, KnownLive
<1>4. \A d \in Conns : d # c => Exclude(G, held[d]) /\ Exclude(held[d], G)
  <2>1. held[c] # {}
    BY <1>1
  <2> QED
    BY <2>1, Compatible
<1>5. IInv' /\ Image' = Image
  BY <1>3, <1>4, Quiet
<1>6. pager'[c] = N
  BY DEF Become, IInv, Typed
<1> QED
  BY <1>5, <1>6

\* pagerStress: one dirty page is to be written before the commit.
LEMMA SpillStep ==
  ASSUME IInv, NEW c \in Conns, NEW p \in Pages, Spill(c, p)
  PROVE  IInv' /\ Image' = Image /\ pager[c].eState \in Live /\ pager'[c].eState \in Live
<1>1. PICK P : P = pager[c]
  OBVIOUS
<1>2. PICK a : a = IF p \in P.needSync \/ P.eState = "cachemod" THEN "lock" ELSE "write"
  OBVIOUS
<1>3. PICK N : N = [P EXCEPT !.todo = {p}, !.spilling = TRUE, !.at = a]
  OBVIOUS
<1>4. P.eState \in {"cachemod", "dbmod"} /\ P.at = "idle" /\ p \in P.dirty /\ p # 1 /\ Become(c, N) /\ held' = held /\ Untouched /\ sound' = sound
  BY <1>1, <1>2, <1>3 DEF Spill, In, Untouched, files, history
<1>5. P.eState \in Live
  BY <1>4 DEF Live
<1>6. /\ P \in Connection /\ Writes(P, jrnl, db, Image, txn) /\ Locks(P, held[c]) /\ Stage(P, jrnl) /\ Written(P, jrnl.slots)
      /\ sound => FirmWriter(P, jrnl, db, dbDisk)
      /\ P.at \notin Rolling => Changed(P, db, Image) /\ Planned(P, db, Image)
  BY <1>1, <1>5, LiveFacts
<1>7. /\ N \in Connection /\ Onward(P, N) /\ N.todo = {p} /\ N.spilling = TRUE /\ N.at = a /\ N.eState = P.eState
  BY <1>2, <1>3, <1>6, Bounds DEF Connection, Onward, Steps
<1>8. P.own # 0 /\ ~Counted(P, jrnl.slots)
  BY <1>4, <1>6 DEF Stage, Rolling
<1>9. N.own # 0 /\ ~Counted(N, jrnl.slots)
  BY <1>7, <1>8 DEF Onward, Counted
<1>10. Ends(N, jrnl.slots)
  BY <1>2, <1>7, <1>9 DEF Ends
<1>11. Stage(N, jrnl)
  BY <1>2, <1>4, <1>6, <1>7, <1>9 DEF Stage, Onward, Filling
<1>12. Planned(N, db, Image)
  <2>1. db[1] = Image[1]
    BY <1>4, <1>6 DEF Planned, Rolling
  <2>2. N.dirty = P.dirty /\ N.needSync = P.needSync
    BY <1>7 DEF Onward
  <2> QED
    BY <1>2, <1>4, <1>7, <2>1, <2>2 DEF Planned, Pending, Filling
<1>13. Writes(N, jrnl, db, Image, txn)
  BY <1>2, <1>4, <1>5, <1>6, <1>7, <1>10, <1>11, <1>12, LiveStep DEF Rolling
<1>14. Locks(N, held[c])
  BY <1>2, <1>4, <1>6, <1>7 DEF Locks, Filling, Live
<1>15. sound => FirmWriter(N, jrnl, db, dbDisk)
  BY <1>2, <1>4, <1>6, <1>7, <1>8 DEF FirmWriter, Onward, Rolling
<1>16. held' = [held EXCEPT ![c] = held[c]] /\ held[c] \in SUBSET LockNames
  BY <1>4, HeldSame DEF IInv, Typed
<1>17. IInv' /\ Image' = Image /\ pager'[c] = N
  BY <1>1, <1>2, <1>4, <1>5, <1>7, <1>13, <1>14, <1>15, <1>16, LiveQuiet
<1> QED
  BY <1>1, <1>5, <1>7, <1>17

\* A writer that goes on with its step, and what it was about to do.
LEMMA GoesOn ==
  ASSUME IInv, NEW c \in Conns, NEW P, P = pager[c], P.eState \in Live, P.at \notin Rolling,
         NEW N \in Connection, Onward(P, N), N.at \notin Rolling, N.at # "finish", NEW G \in SUBSET LockNames,
         Become(c, N), held' = [held EXCEPT ![c] = G], held[c] \subseteq G, Untouched, sound' => sound,
         "exclusive" \in G => "exclusive" \in held[c] \/ L!NobodyElse(c, "shared"),
         "reserved" \in G => "reserved" \in held[c],
         Locks(N, G), Stage(N, jrnl), Planned(N, db, Image), Ends(N, jrnl.slots),
         sound' => FirmWriter(N, jrnl, db, dbDisk)
  PROVE  IInv' /\ Image' = Image /\ pager[c].eState \in Live /\ pager'[c].eState \in Live
<1>1. Writes(P, jrnl, db, Image, txn)
  BY LiveFacts
<1>2. Writes(N, jrnl, db, Image, txn)
  BY <1>1, LiveStep
<1>3. N.eState \in Live
  BY DEF Onward
<1>4. IInv' /\ Image' = Image /\ pager'[c] = N
  BY <1>2, <1>3, LiveQuiet
<1> QED
  BY <1>3, <1>4

LEMMA HeldOnward ==
  ASSUME IInv, NEW c \in Conns, held' = held
  PROVE  held' = [held EXCEPT ![c] = held[c]] /\ held[c] \in SUBSET LockNames
BY HeldSame DEF IInv, Typed

\* sqlite3PagerRollback begins.
LEMMA RollbackStep ==
  ASSUME IInv, NEW c \in Conns, Rollback(c)
  PROVE  IInv' /\ Image' = Image /\ pager[c].eState \in Live /\ pager'[c].eState \in Live
<1>1. PICK P : P = pager[c]
  OBVIOUS
<1>2. PICK N : N = [P EXCEPT !.at = "playback"]
  OBVIOUS
<1>3. P.eState \in Live /\ P.at = "idle" /\ Become(c, N) /\ held' = held /\ Untouched /\ sound' = sound
  BY <1>1, <1>2 DEF Rollback, In, Goto, Become, Live, Untouched, files, history
<1>4. /\ P \in Connection /\ Locks(P, held[c]) /\ Stage(P, jrnl) /\ Written(P, jrnl.slots)
      /\ sound => FirmWriter(P, jrnl, db, dbDisk)
      /\ P.at \notin Rolling => Changed(P, db, Image) /\ Planned(P, db, Image)
  BY <1>1, <1>3, LiveFacts
<1>5. N \in Connection /\ Onward(P, N) /\ N.todo = P.todo /\ N.spilling = P.spilling /\ N.at = "playback"
  BY <1>2, <1>4 DEF Connection, Onward, Steps
<1>6. ~Counted(P, jrnl.slots) /\ (P.own = 0 => P.eState = "finished")
  BY <1>3, <1>4 DEF Stage, Rolling
<1>7. Counted(N, jrnl.slots) <=> Counted(P, jrnl.slots)
  BY <1>5 DEF Onward, Counted
<1>8. Ends(N, jrnl.slots)
  <2>1. Ends(P, jrnl.slots)
    BY <1>4 DEF Written
  <2> QED
    BY <1>5, <1>7, <2>1 DEF Ends, Onward
<1>9. Stage(N, jrnl)
  BY <1>3, <1>4, <1>5, <1>7 DEF Stage, Onward, Filling
<1>10. Planned(N, db, Image)
  <2>1. Touched(N) = Touched(P)
    BY <1>5, TouchedStill DEF Onward
  <2>2. Planned(P, db, Image)
    BY <1>3, <1>4 DEF Rolling
  <2> QED
    BY <1>3, <1>5, <2>1, <2>2 DEF Planned, Onward, Pending, Filling
<1>11. Locks(N, held[c])
  BY <1>3, <1>4, <1>5 DEF Locks, Onward, Filling, Live
<1>12. sound => FirmWriter(N, jrnl, db, dbDisk)
  BY <1>3, <1>4, <1>5 DEF FirmWriter, Onward, Rolling
<1>13. N.at \notin Rolling /\ P.at \notin Rolling /\ N.at # "finish"
  BY <1>3, <1>5 DEF Rolling
<1> QED
  BY <1>1, <1>3, <1>4, <1>5, <1>8, <1>9, <1>10, <1>11, <1>12, <1>13, HeldOnward, GoesOn

\* sqlite3PagerCommitPhaseTwo begins.
LEMMA CommitPhaseTwoStep ==
  ASSUME IInv, NEW c \in Conns, CommitPhaseTwo(c)
  PROVE  IInv' /\ Image' = Image /\ pager[c].eState \in Live /\ pager'[c].eState \in Live
<1>1. PICK P : P = pager[c]
  OBVIOUS
<1>2. PICK N : N = [P EXCEPT !.at = "commit"]
  OBVIOUS
<1>3. P.eState = "finished" /\ P.at = "idle" /\ Become(c, N) /\ held' = held /\ Untouched /\ sound' = sound
  BY <1>1, <1>2 DEF CommitPhaseTwo, In, Goto, Become, Untouched, files, history
<1>4. /\ P \in Connection /\ Locks(P, held[c]) /\ Stage(P, jrnl) /\ Written(P, jrnl.slots)
      /\ sound => FirmWriter(P, jrnl, db, dbDisk)
      /\ P.at \notin Rolling => Changed(P, db, Image) /\ Planned(P, db, Image)
  BY <1>1, <1>3, LiveFacts DEF Live
<1>5. N \in Connection /\ Onward(P, N) /\ N.todo = P.todo /\ N.spilling = P.spilling /\ N.at = "commit"
  BY <1>2, <1>4 DEF Connection, Onward, Steps
<1>6. P.own = 0
  BY <1>3, <1>4 DEF Stage
<1>8. Ends(N, jrnl.slots)
  <2>1. Ends(P, jrnl.slots)
    BY <1>4 DEF Written
  <2> QED
    BY <1>5, <1>6, <2>1 DEF Ends, Onward
<1>9. Stage(N, jrnl)
  BY <1>3, <1>4, <1>5, <1>6 DEF Stage, Onward, Filling, Counted
<1>10. Planned(N, db, Image)
  <2>1. Touched(N) = Touched(P)
    BY <1>5, TouchedStill DEF Onward
  <2>2. Planned(P, db, Image)
    BY <1>3, <1>4 DEF Rolling
  <2> QED
    BY <1>3, <1>5, <2>1, <2>2 DEF Planned, Onward, Pending, Filling
<1>11. Locks(N, held[c])
  BY <1>3, <1>4, <1>5 DEF Locks, Onward, Filling, Live
<1>12. sound => FirmWriter(N, jrnl, db, dbDisk)
  BY <1>3, <1>4, <1>5 DEF FirmWriter, Onward, Rolling
<1>13. N.at \notin Rolling /\ P.at \notin Rolling /\ N.at # "finish" /\ P.eState \in Live
  BY <1>3, <1>5 DEF Rolling, Live
<1> QED
  BY <1>1, <1>3, <1>4, <1>5, <1>8, <1>9, <1>10, <1>11, <1>12, <1>13, HeldOnward, GoesOn

\* EXCLUSIVE, before the database file is written (line 52542).
LEMMA LockForCommitStep ==
  ASSUME IInv, NEW c \in Conns, LockForCommit(c)
  PROVE  IInv' /\ Image' = Image /\ pager[c].eState \in Live /\ pager'[c].eState \in Live
<1>0. Typed
  BY DEF IInv
<1>1. PICK P : P = pager[c]
  OBVIOUS
<1>2. P.at = "lock" /\ Untouched /\ sound' = sound
  BY <1>1 DEF LockForCommit, Untouched, files, history
<1>3. P.eState \in {"cachemod", "dbmod"}
  <2>1. Locks(P, held[c]) /\ P.eState \in States
    BY <1>1, Connected, Fields DEF Known
  <2> QED
    BY <1>2, <2>1 DEF Locks, States, Looking, Recovering, Rolling, Filling
<1>4. /\ P \in Connection /\ Locks(P, held[c]) /\ Stage(P, jrnl) /\ Written(P, jrnl.slots)
      /\ sound => FirmWriter(P, jrnl, db, dbDisk)
      /\ P.at \notin Rolling => Changed(P, db, Image) /\ Planned(P, db, Image)
      /\ {"shared", "reserved"} \subseteq held[c]
  BY <1>1, <1>3, LiveFacts DEF Live
<1>5. P.own # 0 /\ ~Counted(P, jrnl.slots)
  BY <1>2, <1>4 DEF Stage, Rolling
<1>6. P.at \notin Rolling /\ P.eState \in Live
  BY <1>2, <1>3 DEF Rolling, Live
<1>7. CASE L!Exclusive(c) /\ Goto(c, "prepare")
  <2>1. PICK N : N = [P EXCEPT !.at = "prepare"]
    OBVIOUS
  <2>2. Become(c, N) /\ L!NobodyElse(c, "shared") /\ L!Grant(c, {"pending", "exclusive"})
    BY <1>1, <1>7, <2>1 DEF Goto, Become, L!Exclusive
  <2>3. PICK G : G = held[c] \union {"pending", "exclusive"}
    OBVIOUS
  <2>4. held' = [held EXCEPT ![c] = G] /\ G \in SUBSET LockNames /\ held[c] \subseteq G
    <3>1. held[c] \subseteq LockNames
      BY Connected
    <3> QED
      BY <1>0, <2>2, <2>3, <3>1, Granted DEF LockNames
  <2>5. N \in Connection /\ Onward(P, N) /\ N.todo = P.todo /\ N.spilling = P.spilling /\ N.at = "prepare"
    BY <1>4, <2>1 DEF Connection, Onward, Steps
  <2>6. N.own # 0 /\ ~Counted(N, jrnl.slots)
    BY <1>5, <2>5 DEF Onward, Counted
  <2>7. Ends(N, jrnl.slots)
    BY <2>5, <2>6 DEF Ends
  <2>8. Stage(N, jrnl)
    BY <1>2, <1>3, <1>4, <2>5, <2>6 DEF Stage, Onward, Filling
  <2>9. Planned(N, db, Image)
    <3>1. Touched(N) = Touched(P)
      BY <2>5, TouchedStill DEF Onward
    <3>2. Planned(P, db, Image)
      BY <1>4, <1>6
    <3> QED
      BY <1>2, <1>3, <2>5, <3>1, <3>2 DEF Planned, Onward, Pending, Filling
  <2>10. Locks(N, G)
    BY <1>2, <1>3, <1>4, <2>3, <2>5 DEF Locks, Onward, Filling, Live
  <2>11. sound => FirmWriter(N, jrnl, db, dbDisk)
    BY <1>2, <1>4, <1>5, <2>5 DEF FirmWriter, Onward, Rolling
  <2>12. N.at \notin Rolling /\ N.at # "finish" /\ ("reserved" \in G => "reserved" \in held[c])
    BY <1>4, <2>5 DEF Rolling
  <2> QED
    BY <1>1, <1>2, <1>6, <2>2, <2>4, <2>5, <2>7, <2>8, <2>9, <2>10, <2>11, <2>12, GoesOn
<1>8. CASE Refused(c) /\ Become(c, Stopped(pager[c]))
  <2>1. PICK N : N = [P EXCEPT !.at = "idle", !.todo = {}, !.spilling = FALSE]
    OBVIOUS
  <2>2. Become(c, N)
    BY <1>1, <1>8, <2>1 DEF Stopped
  <2>3. PICK G : held' = [held EXCEPT ![c] = G] /\ held[c] \subseteq G /\ G \subseteq held[c] \union {"pending"}
    BY <1>0, <1>8, RefusedLocks
  <2>4. G \in SUBSET LockNames
    <3>1. held[c] \subseteq LockNames
      BY Connected
    <3> QED
      BY <2>3, <3>1 DEF LockNames
  <2>5. N \in Connection /\ Onward(P, N) /\ N.todo = {} /\ N.spilling = FALSE /\ N.at = "idle"
    BY <1>4, <2>1 DEF Connection, Onward, Steps
  <2>6. N.own # 0 /\ ~Counted(N, jrnl.slots)
    BY <1>5, <2>5 DEF Onward, Counted
  <2>7. Ends(N, jrnl.slots)
    BY <2>5, <2>6 DEF Ends
  <2>8. Stage(N, jrnl)
    BY <1>2, <1>3, <1>4, <2>5, <2>6 DEF Stage, Onward, Filling
  <2>9. Planned(N, db, Image)
    <3>1. Touched(N) = Touched(P)
      BY <2>5, TouchedStill DEF Onward
    <3>2. Planned(P, db, Image)
      BY <1>4, <1>6
    <3> QED
      BY <1>2, <1>3, <2>5, <3>1, <3>2 DEF Planned, Onward, Pending, Filling
  <2>10. Locks(N, G)
    BY <1>2, <1>3, <1>4, <2>3, <2>5 DEF Locks, Onward, Filling, Live
  <2>11. sound => FirmWriter(N, jrnl, db, dbDisk)
    BY <1>2, <1>4, <1>5, <2>5 DEF FirmWriter, Onward, Rolling
  <2>12. N.at \notin Rolling /\ N.at # "finish" /\ ("reserved" \in G => "reserved" \in held[c]) /\ ("exclusive" \in G => "exclusive" \in held[c])
    BY <1>4, <2>3, <2>5 DEF Rolling
  <2> QED
    BY <1>1, <1>2, <1>6, <2>2, <2>3, <2>4, <2>5, <2>7, <2>8, <2>9, <2>10, <2>11, <2>12, GoesOn
<1> QED
  BY <1>7, <1>8 DEF LockForCommit

LEMMA TargetIs ==
  ASSUME NEW t \in Nat, t <= MaxTxn, NEW I, Solid(I, t), I[1] <= t, NEW P, P.stamp = t + 1, NEW p \in Pages
  PROVE  Target(P, I, p) \in 0..(t + 1) /\ Target(P, I, p) \in Values /\ Target(P, I, p) # Torn /\ Target(P, I, p) # NotCached
<1>1. I[p] \in Nat /\ I[p] <= t + 1 /\ I[1] \in Nat
  BY StampsAre
<1>2. Target(P, I, p) \in Nat /\ Target(P, I, p) <= t + 1
  BY <1>1 DEF Target
<1> QED
  BY <1>2, Bounds DEF Values

\* sqlite3PagerGet reads a page into the cache.
LEMMA GetStep ==
  ASSUME IInv, NEW c \in Conns, NEW p \in Pages, Get(c, p)
  PROVE  IInv' /\ Image' = Image /\ pager'[c].eState = pager[c].eState /\ pager[c].eState \notin {"open", "error"}
<1>0. Typed
  BY DEF IInv
<1>1. PICK P : P = pager[c]
  OBVIOUS
<1>2. PICK K : K = [P.cache EXCEPT ![p] = db[p]]
  OBVIOUS
<1>3. PICK N : N = [P EXCEPT !.cache = K]
  OBVIOUS
<1>4. /\ P.eState \in {"reader"} \union Writing /\ P.at = "idle" /\ p <= P.dbSize /\ P.cache[p] = NotCached
      /\ Become(c, N) /\ held' = held /\ Untouched /\ sound' = sound
  BY <1>1, <1>2, <1>3 DEF Get, In, Untouched, files, history
<1>5. P \in Connection /\ Known(P, held[c], jrnl, db, Image, txn) /\ Solid(Image, txn) /\ txn \in Nat /\ txn <= MaxTxn
  BY <1>0, <1>1, Connected, TxnFacts DEF IInv, Files
<1>6. db \in [Pages -> Values]
  BY <1>0 DEF Typed, FileOK
<1>7. K \in [Pages -> Cached] /\ K[p] = db[p] /\ (\A q \in Pages : q # p => K[q] = P.cache[q]) /\ db[p] \in Values /\ db[p] # NotCached
  BY <1>2, <1>5, <1>6, Fields, Bounds DEF Cached, Values
<1>8. /\ N \in Connection /\ N.eState = P.eState /\ N.at = "idle" /\ N.cache = K /\ N.todo = P.todo /\ N.dirty = P.dirty /\ N.needSync = P.needSync
      /\ N.inJournal = P.inJournal /\ N.spilling = P.spilling /\ N.own = P.own /\ N.journalHdr = P.journalHdr /\ N.journalOff = P.journalOff
      /\ N.dbFileVers = P.dbFileVers /\ N.dbSize = P.dbSize /\ N.dbOrigSize = P.dbOrigSize /\ N.stamp = P.stamp
  BY <1>3, <1>4, <1>5, <1>7 DEF Connection
<1>9. held' = [held EXCEPT ![c] = held[c]] /\ held[c] \in SUBSET LockNames
  BY <1>4, HeldOnward
<1>10. pager'[c] = N
  BY <1>0, <1>4 DEF Become, Typed
<1>11. CASE P.eState \in {"reader", "locked"}
  <2>1. ~IsHot(jrnl)
    BY <1>5, <1>11 DEF Known, Passed
  <2>2. Image = db
    BY <2>1, Cold, ImageIs
  <2>3. Locks(N, held[c]) /\ Passed(N, held[c], jrnl)
    <3>1. Locks(P, held[c])
      BY <1>5 DEF Known
    <3>2. Locks(N, held[c])
      BY <1>4, <1>8, <1>11, <3>1 DEF Locks, Filling, Live
    <3> QED
      BY <2>1, <3>2 DEF Passed
  <2>4. Resting(N) /\ N.todo = {}
    BY <1>5, <1>8, <1>11 DEF Known, Resting, Live
  <2>5. Knows(N, Image)
    <3>1. /\ P.dbFileVers = Image[1] /\ P.cache[1] # NotCached /\ Sized(Image, P.dbSize) /\ Fits(P, Image)
          /\ P.eState = "locked" => P.dbOrigSize = P.dbSize
      BY <1>5, <1>11 DEF Known, Knows
    <3>2. N.cache[1] # NotCached
      BY <1>5, <1>7, <1>8, <3>1, StampsAre
    <3>3. Fits(N, Image)
      BY <1>7, <1>8, <2>2, <3>1 DEF Fits
    <3> QED
      BY <1>8, <1>11, <3>1, <3>2, <3>3 DEF Knows
  <2>6. held[c] # {}
    BY <1>5, <1>11 DEF Known, Locks
  <2>7. N.eState \notin Live
    BY <1>8, <1>11 DEF Live
  <2> QED
    BY <1>1, <1>4, <1>8, <1>9, <1>11, <2>3, <2>4, <2>5, <2>6, <2>7, Rests
<1>12. CASE P.eState \in Live
  <2>1. /\ Writes(P, jrnl, db, Image, txn) /\ Locks(P, held[c])
        /\ sound => FirmWriter(P, jrnl, db, dbDisk)
        /\ jrnl.exists /\ P.stamp = txn + 1 /\ Image[1] <= txn /\ Sized(Image, P.dbOrigSize)
        /\ Written(P, jrnl.slots) /\ Stage(P, jrnl) /\ Kept(P, jrnl.slots, Image)
        /\ P.at \notin Rolling => Changed(P, db, Image) /\ Planned(P, db, Image)
    BY <1>1, <1>12, LiveFacts
  <2>2. P.at \notin Rolling /\ N.at \notin Rolling
    BY <1>4, <1>8 DEF Rolling
  <2>3. Changed(P, db, Image) /\ Planned(P, db, Image)
    BY <2>1, <2>2
  <2>4. Touched(N) = Touched(P) /\ \A q : Target(N, Image, q) = Target(P, Image, q)
    BY <1>8, TouchedStill
  <2>5. p \notin P.dirty
    <3>1. PageOK(P, db, Image, p)
      BY <2>3 DEF Changed
    <3>2. Target(P, Image, p) # NotCached
      BY <1>5, <2>1, TargetIs
    <3> QED
      BY <1>4, <3>1, <3>2 DEF PageOK
  <2>6. \A q \in Pages : PageOK(N, db, Image, q)
    <3>1. \A q \in Pages : PageOK(P, db, Image, q)
      BY <2>3 DEF Changed
    <3>2. PageOK(N, db, Image, p)
      BY <1>7, <1>8, <2>4, <2>5, <3>1 DEF PageOK
    <3>3. \A q \in Pages : q # p => PageOK(N, db, Image, q)
      BY <1>7, <1>8, <2>4, <3>1 DEF PageOK
    <3> QED
      BY <3>2, <3>3
  <2>7. Changed(N, db, Image)
    <3>1. N.cache[1] # NotCached
      BY <1>5, <1>7, <1>8, <2>3, StampsAre DEF Changed
    <3> QED
      BY <1>8, <2>3, <2>4, <2>6, <3>1 DEF Changed
  <2>8. Planned(N, db, Image)
    BY <1>4, <1>8, <2>3, <2>4 DEF Planned
  <2>9. Written(N, jrnl.slots)
    <3>1. Ends(N, jrnl.slots)
      BY <1>4, <1>8, <2>1 DEF Written, Ends, Counted
    <3> QED
      BY <1>8, <2>1, <3>1, WrittenStill
  <2>10. Stage(N, jrnl)
    BY <1>4, <1>8, <2>1 DEF Stage, Counted
  <2>11. Kept(N, jrnl.slots, Image)
    BY <1>8, <2>1 DEF Kept
  <2>12. Writes(N, jrnl, db, Image, txn)
    BY <1>8, <2>1, <2>2, <2>7, <2>8, <2>9, <2>10, <2>11 DEF Writes
  <2>13. Locks(N, held[c])
    BY <1>4, <1>8, <2>1 DEF Locks
  <2>14. sound => FirmWriter(N, jrnl, db, dbDisk)
    BY <1>4, <1>8, <2>1 DEF FirmWriter
  <2>15. N.at # "finish" /\ N.eState \in Live
    BY <1>8, <1>12
  <2>16. IInv' /\ Image' = Image
    BY <1>1, <1>4, <1>8, <1>9, <1>12, <2>12, <2>13, <2>14, <2>15, LiveQuiet
  <2> QED
    BY <1>1, <1>8, <1>10, <1>12, <2>16 DEF Live
<1> QED
  BY <1>4, <1>11, <1>12 DEF Writing, Live

\* A process dies: its locks go, the files stay.
LEMMA CrashStep ==
  ASSUME IInv, Apart, NEW c \in Conns, Crash(c)
  PROVE  IInv' /\ Image' = Image /\ pager' = [pager EXCEPT ![c] = Fresh]
<1>1. Become(c, Fresh) /\ held' = [held EXCEPT ![c] = {}]
  <2>1. \A d \in Conns : Owner[d] = Owner[c] <=> d = c
    BY DEF Apart
  <2>2. pager' = [d \in Conns |-> IF d = c THEN Fresh ELSE pager[d]] /\ held' = [d \in Conns |-> IF d = c THEN {} ELSE held[d]]
    BY <2>1 DEF Crash
  <2> QED
    BY <2>2 DEF Become, IInv, Typed
<1>2. Untouched /\ sound' = sound
  BY DEF Crash, Untouched, files
<1>3. Known(Fresh, {}, jrnl, db, Image, txn) /\ (\A dd : Firmly(Fresh, jrnl, db, dd)) /\ Fresh.at # "finish"
  <2>1. Solid(Image, txn) /\ txn \in Nat
    BY TxnFacts DEF IInv, Files
  <2> QED
    BY <2>1, FreshKnows
<1>4. \A d \in Conns : d # c => Exclude({}, held[d]) /\ Exclude(held[d], {})
  BY DEF Exclude
<1>5. IInv' /\ Image' = Image
  <2>1. {} \in SUBSET LockNames
    OBVIOUS
  <2> QED
    BY <1>1, <1>2, <1>3, <1>4, <2>1, FreshIs, Quiet
<1> QED
  BY <1>1, <1>5 DEF Become

-----------------------------------------------------------------------------
(* What a power failure leaves.                                            *)

LEMMA OutcomesOf ==
  ASSUME NEW S, NEW g
  PROVE  Outcomes(S, g) \subseteq S \union {g} /\ S \subseteq Outcomes(S, g) /\ \A v : S = {v} => Outcomes(S, g) = {v}
<1>1. ASSUME NEW v, S = {v}
      PROVE  Outcomes(S, g) = {v}
  <2>1. Cardinality({v}) = 1
    BY FS_Singleton
  <2>2. ~(Cardinality(S) > 1)
    BY <1>1, <2>1
  <2> QED
    BY <1>1, <2>2 DEF Outcomes
<1>2. Outcomes(S, g) \subseteq S \union {g} /\ S \subseteq Outcomes(S, g)
  BY DEF Outcomes
<1> QED
  BY <1>1, <1>2

LEMMA FirmSlot ==
  ASSUME NEW f, NEW x, NEW doubts, NEW j, MayBe(f, x, doubts, j), NEW k \in Slots
  PROVE  (Firm(j, k) => x[k] = j.slots[k]) /\ (Unmarked(j, k) => ~HasMagic(x[k]))
         /\ x[k] \in j.disk[k] \union {Junk}
<1>1. x[k] \in Outcomes(j.disk[k], Junk)
  BY DEF MayBe
<1>2. x[k] \in j.disk[k] \union {Junk}
  BY <1>1, OutcomesOf
<1>3. ASSUME Firm(j, k)
      PROVE  x[k] = j.slots[k]
  <2>1. Outcomes(j.disk[k], Junk) = {j.slots[k]}
    BY <1>3, OutcomesOf DEF Firm
  <2> QED
    BY <1>1, <2>1
<1>4. ~HasMagic(Junk)
  BY DEF Junk, HasMagic, IsHeader
<1> QED
  BY <1>2, <1>3, <1>4 DEF Unmarked

LEMMA FirmPage ==
  ASSUME NEW f, NEW x, NEW doubts, NEW j, MayBe(f, x, doubts, j), NEW p \in Pages, NEW v, doubts[p] = {v}
  PROVE  f[p] = v
<1>1. f[p] \in Outcomes(doubts[p], Torn)
  BY DEF MayBe
<1> QED
  BY <1>1, OutcomesOf

-----------------------------------------------------------------------------
(* A rollback of what a writer has written restores the image.             *)

LEMMA CutIs ==
  ASSUME NEW I, NEW n, Sized(I, n), NEW f, NEW p \in Pages, f[p] = I[p] \/ p > n
  PROVE  Cut(f, n)[p] = I[p]
BY DEF Sized, Cut

LEMMA RecsGrow ==
  ASSUME NEW s, NEW m \in Nat, NEW n \in Nat, m <= n
  PROVE  Recs(s, m) \subseteq Recs(s, n)
BY DEF Recs

LEMMA CoversLive ==
  ASSUME NEW P \in Connection, P.eState \in Live, NEW j, NEW f, NEW I, NEW t, Writes(P, j, f, I, t)
  PROVE  Covers(j.slots, f, I, P.dbOrigSize, P.journalHdr)
<1>1. Written(P, j.slots) /\ Sized(I, P.dbOrigSize) /\ Recorded(P, j.slots) /\ Placed(P)
  BY DEF Writes, Written
<1>2. /\ P.journalHdr \in Nat /\ P.journalOff \in Nat /\ P.dbOrigSize \in Nat
  BY Fields
<1>3. ASSUME NEW p \in Pages
      PROVE  f[p] = I[p] \/ p > P.dbOrigSize \/ \E i \in Recs(j.slots, P.journalHdr) : j.slots[i].pg = p
  <2>1. CASE P.at \notin Rolling
    <3>1. PageOK(P, f, I, p)
      BY <2>1 DEF Writes, Changed
    <3>2. ASSUME f[p] # I[p], ~(p > P.dbOrigSize)
          PROVE  \E i \in Recs(j.slots, P.journalHdr) : j.slots[i].pg = p
      <4>1. p \in Nat /\ p <= P.dbOrigSize
        BY <1>2, <3>2, Bounds
      <4>2. p \in Touched(P) /\ p \notin P.needSync
        BY <3>1, <3>2, <4>1 DEF PageOK, Target
      <4>3. p \in P.inJournal
        BY <1>2, <4>1, <4>2 DEF Touched
      <4>4. PICK i \in Recs(j.slots, P.journalOff) : j.slots[i].pg = p /\ i <= P.journalHdr
        BY <1>1, <4>2, <4>3 DEF Recorded
      <4>5. i \in Recs(j.slots, P.journalHdr)
        BY <1>2, <4>4 DEF Recs
      <4> QED
        BY <4>4, <4>5
    <3> QED
      BY <3>2
  <2>2. CASE P.at \in Rolling
    <3>1. P.todo \subseteq Recs(j.slots, P.journalOff) /\ (f[p] = I[p] \/ \E i \in P.todo : j.slots[i].pg = p /\ i <= P.journalHdr)
      BY <2>2 DEF Writes, Undone
    <3>2. \A i \in P.todo : i <= P.journalHdr => i \in Recs(j.slots, P.journalHdr)
      BY <1>2, <3>1 DEF Recs
    <3> QED
      BY <3>1, <3>2
  <2> QED
    BY <2>1, <2>2
<1> QED
  BY <1>1, <1>3, CutIs DEF Covers

\* Whatever the file and the rest of the journal hold then.
LEMMA LiveRestores ==
  ASSUME NEW P \in Connection, P.eState \in Live, NEW j, JournalOK(j), NEW f, NEW I, NEW t, Writes(P, j, f, I, t), IsImage(I),
         NEW m \in Slots, m <= P.journalOff, Reached(j.slots, 0, m), NEW x \in [Slots -> Slot],
         SameUpTo(x, j.slots, m), Stops(x, m), NEW g, Covers(j.slots, g, I, P.dbOrigSize, m)
  PROVE  Amounts(g, x, I) /\ Replayed(g, x) = I /\ HasMagic(x[1]) /\ Played(x, 0) = Recs(j.slots, m)
<1>1. Written(P, j.slots) /\ Kept(P, j.slots, I) /\ j.slots[1].orig = P.dbOrigSize
  BY DEF Writes, Written
<1>2. j.slots \in [Slots -> Slot]
  BY DEF JournalOK, Journal
<1>3. m \in Nat /\ P.journalOff \in Nat
  BY Fields, Bounds
<1>4. Backs(j.slots, I, m)
  <2>1. Recs(j.slots, m) \subseteq Recs(j.slots, P.journalOff)
    BY <1>3, RecsGrow
  <2> QED
    BY <1>1, <1>2, <2>1, RecordsAre DEF Kept, Backs
<1> QED
  BY <1>1, <1>2, <1>4, Restores

LEMMA LiveImage ==
  ASSUME NEW P \in Connection, P.eState \in Live, NEW j, JournalOK(j), NEW f, NEW I, NEW t, Writes(P, j, f, I, t), IsImage(I)
  PROVE  /\ ImageOf(f, j) = I /\ (IsHot(j) => Agrees(j, I) /\ j.durable)
         /\ ~IsHot(j) => f = I /\ P.eState = "cachemod" /\ P.journalHdr = 0 /\ P.own = 1 /\ ~Counted(P, j.slots)
<1>1. Written(P, j.slots) /\ Stage(P, j) /\ j.exists /\ j.slots \in [Slots -> Slot]
  BY DEF Writes, JournalOK, Journal
<1>2. PICK m : m = End(P, j.slots)
  OBVIOUS
<1>3. /\ m \in 0..P.journalOff /\ m \in 0..MaxSlot /\ Reached(j.slots, 0, m)
      /\ (m < MaxSlot => ~HasMagic(j.slots[m + 1]))
      /\ HasMagic(j.slots[1]) <=> m # 0
      /\ P.journalHdr <= m
  BY <1>1, <1>2, EndIs
<1>4. P.journalHdr \in Nat /\ P.journalOff \in Nat /\ P.journalOff >= 1 /\ MaxSlot \in Nat /\ P.own \in Nat
  BY <1>1, WrittenFields
<1>5. CASE m = 0
  <2>1. P.journalHdr = 0 /\ ~IsHot(j)
    BY <1>3, <1>4, <1>5 DEF IsHot
  <2>2. P.eState = "cachemod"
    BY <1>1, <2>1 DEF Stage
  <2>3. f = I
    BY <2>2 DEF Writes, Changed, Undone
  <2>4. ImageOf(f, j) = I
    BY <2>1, <2>3, Cold
  <2>5. P.own # 0 /\ ~Counted(P, j.slots)
    BY <1>2, <1>4, <1>5 DEF End
  <2>6. P.own = 1
    BY <1>1, <2>1, <2>5 DEF Written, Segment
  <2> QED
    BY <2>1, <2>2, <2>3, <2>4, <2>5, <2>6
<1>6. CASE m # 0
  <2>1. m \in Slots /\ m <= P.journalOff
    BY <1>3, <1>4, <1>6 DEF Slots
  <2>2. Covers(j.slots, f, I, P.dbOrigSize, m)
    <3>1. Recs(j.slots, P.journalHdr) \subseteq Recs(j.slots, m)
      BY <1>3, <1>4, RecsGrow
    <3> QED
      BY <3>1, CoversLive DEF Covers
  <2>3. Amounts(f, j.slots, I) /\ Replayed(f, j.slots) = I /\ HasMagic(j.slots[1])
    BY <1>1, <1>3, <2>1, <2>2, LiveRestores DEF SameUpTo, Stops
  <2>4. IsHot(j) /\ Agrees(j, I) /\ ImageOf(f, j) = I
    BY <1>1, <2>3 DEF IsHot, Agrees, Amounts, ImageOf
  <2>5. j.durable
    <3>1. P.journalHdr # 0 \/ Counted(P, j.slots)
      <4>1. CASE P.own = 0
        BY <1>1, <1>4, <4>1 DEF Written, Segment
      <4>2. CASE P.own # 0
        BY <1>2, <1>6, <4>2 DEF End
      <4> QED
        BY <4>1, <4>2
    <3> QED
      BY <1>1, <3>1 DEF Stage
  <2> QED
    BY <2>4, <2>5
<1> QED
  BY <1>5, <1>6

\* A power failure at any step of a transaction: the journal restores the database.
LEMMA LiveSurvives ==
  ASSUME NEW P \in Connection, P.eState \in Live, NEW j, JournalOK(j), NEW f, NEW doubts, NEW I, NEW t, Writes(P, j, f, I, t), IsImage(I),
         FirmWriter(P, j, f, doubts), P.at # "sync-header"
  PROVE  (IsHot(j) => Survives(doubts, j, I)) /\ (~IsHot(j) => Certain(f, doubts) /\ Unmarked(j, 1))
<1>1. Written(P, j.slots) /\ Stage(P, j) /\ j.exists /\ j.slots \in [Slots -> Slot] /\ Sized(I, P.dbOrigSize) /\ Segment(P, j.slots)
  BY DEF Writes, JournalOK, Journal, Written
<1>2. P.journalHdr \in Nat /\ P.journalOff \in Nat /\ P.journalOff >= 1 /\ P.journalOff <= MaxSlot /\ MaxSlot \in Nat /\ P.own \in Nat
  BY <1>1, WrittenFields
<1>3. /\ \A k \in 1..P.journalHdr : Firm(j, k)
      /\ P.own # 0 => Unmarked(j, P.own)
      /\ P.own = 0 => (P.journalOff < MaxSlot => Unmarked(j, P.journalOff + 1))
      /\ P.eState = "cachemod" => Certain(f, doubts)
      /\ \A p \in Pages : doubts[p] = {f[p]} \/ p > P.dbOrigSize \/ \E i \in Recs(j.slots, P.journalHdr) : j.slots[i].pg = p
  BY DEF FirmWriter, Live
<1>4. ~IsHot(j) => Certain(f, doubts) /\ Unmarked(j, 1)
  <2>1. ~IsHot(j) => P.eState = "cachemod" /\ P.own = 1
    BY LiveImage
  <2> QED
    BY <1>3, <2>1
<1>5. ASSUME IsHot(j)
      PROVE  Survives(doubts, j, I)
  <2>1. ~Counted(P, j.slots)
    <3>1. ASSUME Counted(P, j.slots)
          PROVE  FALSE
      <4>1. P.own # 0 /\ j.slots[P.own].magic /\ P.own <= P.journalOff /\ j.slots[P.own].kind = "hdr"
        BY <1>1, <3>1 DEF Counted, Segment
      <4>2. P.own \in Slots
        BY <1>2, <4>1 DEF Slots
      <4>3. j.slots[P.own] \in j.disk[P.own]
        BY <4>2 DEF JournalOK
      <4> QED
        BY <1>3, <4>1, <4>3 DEF Unmarked, HasMagic, IsHeader
    <3> QED
      BY <3>1
  <2>2. PICK m : m = P.journalHdr
    OBVIOUS
  <2>3. m = End(P, j.slots)
    BY <1>1, <2>1, <2>2 DEF End, Segment
  <2>4. m \in 0..P.journalOff /\ Reached(j.slots, 0, m) /\ m # 0
    BY <1>1, <1>5, <2>3, EndIs DEF IsHot
  <2>5. m \in Slots /\ m <= P.journalOff /\ m <= MaxSlot
    BY <1>2, <2>4 DEF Slots
  <2>6. m < MaxSlot => Unmarked(j, m + 1)
    BY <1>1, <1>2, <1>3, <2>2 DEF Segment
  <2>7. ASSUME NEW g, NEW x, MayBe(g, x, doubts, j)
        PROVE  Amounts(g, x, I)
    <3>1. x \in [Slots -> Slot]
      BY <2>7 DEF MayBe
    <3>2. SameUpTo(x, j.slots, m)
      <4>1. ASSUME NEW k \in 1..m
            PROVE  x[k] = j.slots[k]
        <5>1. k \in Slots /\ Firm(j, k)
          BY <1>2, <1>3, <2>2, <2>5 DEF Slots
        <5> QED
          BY <2>7, <5>1, FirmSlot
      <4> QED
        BY <4>1 DEF SameUpTo
    <3>3. Stops(x, m)
      <4>1. m < MaxSlot => m + 1 \in Slots
        BY <1>2, <2>2 DEF Slots
      <4> QED
        BY <2>6, <2>7, <4>1, FirmSlot DEF Stops
    <3>4. Covers(j.slots, g, I, P.dbOrigSize, m)
      <4>1. ASSUME NEW p \in Pages
            PROVE  (\E i \in Recs(j.slots, m) : j.slots[i].pg = p) \/ Cut(g, P.dbOrigSize)[p] = I[p]
        <5>1. CASE \E i \in Recs(j.slots, m) : j.slots[i].pg = p
          BY <5>1
        <5>2. CASE p > P.dbOrigSize
          BY <1>1, <5>2, CutIs
        <5>3. CASE doubts[p] = {f[p]} /\ ~\E i \in Recs(j.slots, m) : j.slots[i].pg = p
          <6>1. g[p] = f[p]
            BY <2>7, <5>3, FirmPage
          <6>2. Cut(f, P.dbOrigSize)[p] = I[p]
            BY <2>2, <5>3, CoversLive DEF Covers
          <6> QED
            BY <6>1, <6>2, CutAt
        <5> QED
          BY <1>3, <2>2, <5>1, <5>2, <5>3
      <4> QED
        BY <4>1 DEF Covers
    <3> QED
      BY <2>4, <2>5, <3>1, <3>2, <3>3, <3>4, LiveRestores
  <2> QED
    BY <2>7 DEF Survives
<1> QED
  BY <1>4, <1>5

-----------------------------------------------------------------------------
(* A step of a writer within its transaction.                              *)

LEMMA Later ==
  ASSUME NEW t \in Nat, NEW u \in Nat, t <= u
  PROVE  (\A I : Solid(I, t) => Solid(I, u)) /\ (\A j \in Journal : Dated(j, t) => Dated(j, u))
<1>1. \A I : Solid(I, t) => Solid(I, u)
  <2>1. ASSUME NEW I, Solid(I, t)
        PROVE  Solid(I, u)
    <3>1. 0..(t + 1) \subseteq 0..(u + 1)
      OBVIOUS
    <3> QED
      BY <2>1, <3>1 DEF Solid
  <2> QED
    BY <2>1
<1>2. \A j \in Journal : Dated(j, t) => Dated(j, u)
  <2>1. ASSUME NEW j \in Journal, Dated(j, t), NEW k \in Slots, NEW x \in j.disk[k], x.kind \in {"hdr", "rec"}
        PROVE  x.init <= u + 1
    <3>1. x.init <= t + 1 /\ x \in Slot
      BY <2>1 DEF Dated, Journal
    <3>2. x.init \in Nat
      BY <2>1, <3>1, SlotKinds, Bounds DEF Inits
    <3> QED
      BY <3>1, <3>2
  <2> QED
    BY <2>1 DEF Dated
<1> QED
  BY <1>1, <1>2

LEMMA NoJournalIs ==
  /\ JournalOK(NoJournal) /\ NoJournal.exists = FALSE /\ ~IsHot(NoJournal) /\ \A t : Dated(NoJournal, t)
<1>1. Empty \in Slot /\ Empty.kind = "none" /\ \A k \in 1..MaxSlot : k \in Slots
  BY DEF Slot, Empty, Slots
<1>2. NoJournal \in Journal
  BY <1>1 DEF NoJournal, Journal, Slots
<1>3. \A k \in Slots : NoJournal.slots[k] = Empty /\ NoJournal.disk[k] = {Empty}
  BY DEF NoJournal, Slots
<1>4. NoJournal.exists = FALSE
  BY DEF NoJournal
<1> QED
  BY <1>1, <1>2, <1>3, <1>4 DEF JournalOK, IsHot, Dated

\* What to show of a step of a writer.
LEMMA WriterStep ==
  ASSUME IInv, NEW c \in Conns, "reserved" \in held[c], NEW N \in Connection, N.eState \in Live,
         Become(c, N), held' = held, mode' = mode, txn' \in 0..TxnsIn[mode], txn <= txn', sound' => sound,
         FileOK(db', dbDisk'), JournalOK(jrnl'), Dated(jrnl', txn'), ghost' \in {ghost, NoJournal},
         Locks(N, held[c]), Writes(N, jrnl', db', Image, txn'),
         IsHot(jrnl') => "exclusive" \in held[c],
         ghost'.exists => db' = db /\ dbDisk' = dbDisk /\ ~IsHot(jrnl'),
         N.at = "finish" => ghost' = NoJournal,
         sound' => FirmWriter(N, jrnl', db', dbDisk') /\ (N.at = "sync-header" /\ IsHot(jrnl') => Survives(dbDisk', jrnl', Image))
                   /\ (N.at = "sync-header" => IsHot(jrnl'))
  PROVE  IInv' /\ Image' = Image /\ pager'[c] = N
<1>0. Typed /\ txn \in Nat /\ txn' \in Nat
  <2>1. Typed
    BY DEF IInv
  <2>2. txn \in Nat /\ TxnsIn[mode] \in Nat
    BY <2>1, TxnFacts
  <2> QED
    BY <2>1, <2>2
<1>1. PICK I : I = Image
  OBVIOUS
<1>2. Solid(I, txn) /\ Solid(I, txn') /\ IsImage(I)
  BY <1>0, <1>1, Later, StampsAre DEF IInv, Files
<1>3. /\ ImageOf(db', jrnl') = I /\ (IsHot(jrnl') => Agrees(jrnl', I) /\ jrnl'.durable)
  BY <1>1, <1>2, LiveImage
<1>4. Image' = I
  BY <1>3, ImageNext
<1>5. JournalOK(ghost') /\ Dated(ghost', txn') /\ (ghost'.exists => ghost' = ghost /\ ghost.exists)
  <2>1. JournalOK(ghost) /\ Dated(ghost, txn)
    BY <1>0 DEF Typed, IInv, Files
  <2>2. Dated(ghost, txn')
    BY <1>0, <2>1, Later DEF JournalOK
  <2> QED
    BY <2>1, <2>2, NoJournalIs
<1>6. Files'
  <2>1. ASSUME ghost'.exists
        PROVE  Solid(ImageOf(db', ghost'), txn') /\ ~IsHot(jrnl') /\ mode' = "delete" /\ ~ExtraSync
    <3>1. Solid(ImageOf(db, ghost), txn) /\ mode = "delete" /\ ~ExtraSync
      BY <1>5, <2>1 DEF IInv, Files
    <3>2. Solid(ImageOf(db', ghost'), txn')
      BY <1>0, <1>5, <2>1, <3>1, Later
    <3> QED
      BY <2>1, <3>1, <3>2
  <2> QED
    BY <1>2, <1>3, <1>4, <1>5, <2>1 DEF Files
<1>7. Known(N, held[c], jrnl', db', I, txn') /\ \A doubts : FirmWriter(N, jrnl', db', doubts) => Firmly(N, jrnl', db', doubts)
  BY <1>1, KnownLive
<1>8. ASSUME sound'
      PROVE  Durable(db', dbDisk', jrnl', ghost', I) /\ Firmly(N, jrnl', db', dbDisk')
  <2>1. FirmWriter(N, jrnl', db', dbDisk')
    BY <1>8
  <2>2. (IsHot(jrnl') => Survives(dbDisk', jrnl', I)) /\ (~IsHot(jrnl') => Certain(db', dbDisk') /\ Unmarked(jrnl', 1))
    <3>1. CASE N.at = "sync-header"
      BY <1>1, <1>8, <3>1
    <3>2. CASE N.at # "sync-header"
      BY <1>1, <1>2, <2>1, <3>2, LiveSurvives
    <3> QED
      BY <3>1, <3>2
  <2>3. ASSUME ghost'.exists
        PROVE  Survives(dbDisk', ghost', ImageOf(db', ghost'))
    <3>1. Survives(dbDisk, ghost, ImageOf(db, ghost))
      BY <1>5, <1>8, <2>3 DEF IInv, Safe, Durable
    <3> QED
      BY <1>5, <2>3, <3>1
  <2> QED
    BY <1>7, <2>1, <2>2, <2>3 DEF Durable
<1>9. held' = [held EXCEPT ![c] = held[c]] /\ held[c] \in SUBSET LockNames
  BY HeldOnward
<1>11. N.at = "finish" => ~ghost'.exists
  BY NoJournalIs
<1>12. IInv'
  BY <1>1, <1>4, <1>5, <1>6, <1>7, <1>8, <1>9, <1>11, Moves
<1>13. pager'[c] = N
  BY <1>0 DEF Become, Typed
<1> QED
  BY <1>1, <1>4, <1>12, <1>13

-----------------------------------------------------------------------------
(* Writing to a journal, and syncing it.                                   *)

PutInto(q, j, k, x) ==
  /\ JournalOK(q) /\ q.exists = j.exists /\ q.durable = j.durable
  /\ q.slots[k] = x /\ q.disk[k] = j.disk[k] \union {x}
  /\ \A i \in Slots : i # k => q.slots[i] = j.slots[i] /\ q.disk[i] = j.disk[i]

LEMMA PutsInto ==
  ASSUME NEW j, JournalOK(j), j.exists, NEW k \in Slots, NEW x \in Slot, NEW q, q = Put(j, k, x)
  PROVE  PutInto(q, j, k, x) /\ \A t : Dated(j, t) /\ (x.kind \in {"hdr", "rec"} => x.init <= t + 1) => Dated(q, t)
<1>1. j \in Journal /\ \A i \in Slots : j.slots[i] \in j.disk[i]
  BY DEF JournalOK
<1>2. j.slots \in [Slots -> Slot] /\ j.disk \in [Slots -> SUBSET Slot]
  BY <1>1 DEF Journal
<1>3. PICK s : s = [j.slots EXCEPT ![k] = x]
  OBVIOUS
<1>4. PICK d : d = [j.disk EXCEPT ![k] = j.disk[k] \union {x}]
  OBVIOUS
<1>5. q = [j EXCEPT !.slots = s, !.disk = d]
  BY <1>3, <1>4 DEF Put
<1>6. q \in Journal /\ q.exists = j.exists /\ q.durable = j.durable /\ q.slots = s /\ q.disk = d
  <2>1. s \in [Slots -> Slot] /\ d \in [Slots -> SUBSET Slot]
    BY <1>2, <1>3, <1>4
  <2> QED
    BY <1>1, <1>5, <2>1 DEF Journal
<1>7. s[k] = x /\ d[k] = j.disk[k] \union {x} /\ \A i \in Slots : i # k => s[i] = j.slots[i] /\ d[i] = j.disk[i]
  BY <1>2, <1>3, <1>4
<1>8. \A i \in Slots : q.slots[i] \in q.disk[i]
  BY <1>1, <1>6, <1>7
<1>9. JournalOK(q)
  BY <1>6, <1>8 DEF JournalOK
<1>10. ASSUME NEW t, Dated(j, t), x.kind \in {"hdr", "rec"} => x.init <= t + 1
       PROVE  Dated(q, t)
  <2>1. \A i \in Slots : \A y \in j.disk[i] : y.kind \in {"hdr", "rec"} => y.init <= t + 1
    BY <1>10 DEF Dated
  <2>2. \A i \in Slots : \A y \in d[i] : y \in j.disk[i] \/ y = x
    BY <1>7
  <2> QED
    BY <1>6, <1>10, <2>1, <2>2 DEF Dated
<1>11. PutInto(q, j, k, x)
  BY <1>6, <1>7, <1>9 DEF PutInto
<1> QED
  BY <1>10, <1>11

LEMMA PutIs ==
  ASSUME NEW j, JournalOK(j), j.exists, NEW k \in Slots, NEW x \in Slot, NEW q, q = Put(j, k, x)
  PROVE  /\ JournalOK(q) /\ q.exists = j.exists /\ q.durable = j.durable
         /\ q.slots[k] = x /\ q.disk[k] = j.disk[k] \union {x}
         /\ \A i \in Slots : i # k => q.slots[i] = j.slots[i] /\ q.disk[i] = j.disk[i]
         /\ \A t : Dated(j, t) /\ (x.kind \in {"hdr", "rec"} => x.init <= t + 1) => Dated(q, t)
<1>1. PutInto(q, j, k, x)
  BY PutsInto
<1>2. \A t : Dated(j, t) /\ (x.kind \in {"hdr", "rec"} => x.init <= t + 1) => Dated(q, t)
  BY PutsInto
<1> QED
  BY <1>1, <1>2 DEF PutInto

LEMMA PutMarks ==
  ASSUME NEW j, JournalOK(j), j.exists, NEW k \in Slots, NEW x \in Slot, NEW q, q = Put(j, k, x)
  PROVE  /\ \A i \in Slots : i # k => (Firm(q, i) <=> Firm(j, i)) /\ (Unmarked(q, i) <=> Unmarked(j, i))
         /\ Unmarked(j, k) /\ ~HasMagic(x) => Unmarked(q, k)
<1>1. q.slots[k] = x /\ q.disk[k] = j.disk[k] \union {x} /\ \A i \in Slots : i # k => q.slots[i] = j.slots[i] /\ q.disk[i] = j.disk[i]
  BY PutIs
<1> QED
  BY <1>1 DEF Firm, Unmarked

LEMMA SyncedIs ==
  ASSUME NEW j, JournalOK(j), j.exists, NEW q, q = Synced(j)
  PROVE  /\ JournalOK(q) /\ q.exists /\ q.durable /\ q.slots = j.slots /\ \A k \in Slots : Firm(q, k) /\ q.disk[k] = {j.slots[k]}
         /\ \A k \in Slots : ~HasMagic(j.slots[k]) => Unmarked(q, k)
         /\ \A t : Dated(j, t) => Dated(q, t)
<1>1. j \in Journal /\ j.slots \in [Slots -> Slot] /\ \A i \in Slots : j.slots[i] \in j.disk[i]
  BY DEF JournalOK, Journal
<1>2. PICK d : d = [k \in 1..MaxSlot |-> {j.slots[k]}]
  OBVIOUS
<1>3. d \in [Slots -> SUBSET Slot] /\ \A k \in Slots : d[k] = {j.slots[k]}
  BY <1>1, <1>2 DEF Slots
<1>4. q = [j EXCEPT !.durable = TRUE, !.disk = d]
  BY <1>2 DEF Synced
<1>5. q \in Journal /\ q.exists = j.exists /\ q.durable = TRUE /\ q.slots = j.slots /\ q.disk = d
  BY <1>1, <1>3, <1>4 DEF Journal
<1>6. JournalOK(q)
  BY <1>3, <1>5 DEF JournalOK
<1>7. \A t : Dated(j, t) => Dated(q, t)
  BY <1>1, <1>3, <1>5 DEF Dated
<1> QED
  BY <1>3, <1>5, <1>6, <1>7 DEF Firm, Unmarked

-----------------------------------------------------------------------------
(* How much a journal holds.                                               *)

LEMMA Counts ==
  ASSUME NEW S \in SUBSET Pages
  PROVE  Cardinality(S) \in Nat /\ Cardinality(S) <= MaxPage /\ \A p \in Pages : p \notin S => Cardinality(S \union {p}) = Cardinality(S) + 1 /\ Cardinality(S) + 1 <= MaxPage
<1>1. IsFiniteSet(Pages) /\ Cardinality(Pages) = MaxPage
  <2>1. MaxPage \in Nat
    BY Bounds
  <2>2. IsFiniteSet(1..MaxPage) /\ Cardinality(1..MaxPage) = MaxPage
    BY <2>1, FS_Interval
  <2> QED
    BY <2>2 DEF Pages
<1>2. \A T \in SUBSET Pages : IsFiniteSet(T) /\ Cardinality(T) \in Nat /\ Cardinality(T) <= MaxPage
  BY <1>1, FS_Subset, FS_CardinalityType
<1>3. ASSUME NEW p \in Pages, p \notin S
      PROVE  Cardinality(S \union {p}) = Cardinality(S) + 1 /\ Cardinality(S) + 1 <= MaxPage
  <2>1. Cardinality(S \union {p}) = Cardinality(S) + 1
    BY <1>2, <1>3, FS_AddElement
  <2>2. S \union {p} \in SUBSET Pages
    BY <1>3
  <2> QED
    BY <1>2, <2>1, <2>2
<1> QED
  BY <1>2, <1>3

-----------------------------------------------------------------------------
(* Steps of syncJournal.                                                   *)

\* The connection has the same journal, and what follows it may differ.
SameJournal(P, N) ==
  /\ N.inJournal = P.inJournal /\ N.needSync = P.needSync /\ N.journalHdr = P.journalHdr /\ N.journalOff = P.journalOff
  /\ N.own = P.own /\ N.stamp = P.stamp /\ N.dbOrigSize = P.dbOrigSize /\ (N.eState # "cachemod" <=> P.eState # "cachemod")

LEMMA SameRecords ==
  ASSUME NEW P \in Connection, NEW s \in [Slots -> Slot], Written(P, s), NEW N, SameJournal(P, N),
         NEW x, SameUpTo(x, s, P.journalOff), Left(P, x), Ends(N, x)
  PROVE  /\ Written(N, x) /\ (\A m \in 0..P.journalOff : Recs(x, m) = Recs(s, m)) /\ \A I : Kept(P, s, I) => Kept(N, x, I)
<1>1. /\ Placed(P) /\ Room(P) /\ s[1].kind = "hdr" /\ s[1].orig = P.dbOrigSize
      /\ Ours(P, s) /\ Recorded(P, s)
      /\ Reached(s, 0, P.journalHdr) /\ Segment(P, s)
  BY DEF Written
<1>2. /\ P.journalOff \in Nat /\ P.journalOff >= 1 /\ P.journalOff <= MaxSlot /\ MaxSlot \in Nat /\ P.journalHdr \in Nat /\ P.own \in Nat
  BY WrittenFields
<1>3. \A k \in 1..P.journalOff : x[k] = s[k]
  BY DEF SameUpTo
<1>4. \A m \in 0..P.journalOff : Recs(x, m) = Recs(s, m)
  <2>1. ASSUME NEW m \in 0..P.journalOff
        PROVE  Recs(x, m) = Recs(s, m)
    <3>1. \A i \in 1..m : i \in 1..P.journalOff
      BY <1>2
    <3> QED
      BY <1>3, <3>1 DEF Recs
  <2> QED
    BY <2>1
<1>5. Recs(x, P.journalOff) = Recs(s, P.journalOff) /\ \A i \in Recs(s, P.journalOff) : x[i] = s[i]
  BY <1>2, <1>3, <1>4 DEF Recs
<1>6. Placed(N) /\ Room(N)
  BY <1>1 DEF Placed, Room, SameJournal
<1>7. Ours(N, x)
  BY <1>1, <1>3 DEF Ours, SameJournal
<1>8. Recorded(N, x)
  BY <1>1, <1>5 DEF Recorded, SameJournal
<1>9. Left(N, x)
  BY DEF Left, SameJournal
<1>10. x[1] = s[1]
  BY <1>2, <1>3
<1>11. Segment(P, s) => P.journalHdr <= P.journalOff
  BY <1>2 DEF Segment
<1>12. Reached(x, 0, N.journalHdr)
  <2>1. P.journalHdr \in 0..MaxSlot /\ \A k \in 1..P.journalHdr : x[k] = s[k]
    BY <1>1, <1>2, <1>3, <1>11
  <2> QED
    BY <1>1, <2>1, SameStart DEF SameJournal
<1>13. Segment(N, x)
  <2>1. CASE P.own = 0
    BY <1>1, <2>1 DEF Segment, SameJournal
  <2>2. CASE P.own # 0
    <3>1. P.own \in 1..P.journalOff /\ \A i \in (P.own + 1)..P.journalOff : i \in 1..P.journalOff
      BY <1>1, <1>2, <2>2 DEF Segment
    <3>2. x[P.own] = s[P.own] /\ \A i \in (P.own + 1)..P.journalOff : x[i] = s[i]
      BY <1>3, <3>1
    <3> QED
      BY <1>1, <2>2, <3>2 DEF Segment, SameJournal
  <2> QED
    BY <2>1, <2>2
<1>14. Written(N, x)
  BY <1>1, <1>6, <1>7, <1>8, <1>9, <1>10, <1>12, <1>13 DEF Written, SameJournal
<1>15. \A I : Kept(P, s, I) => Kept(N, x, I)
  BY <1>5 DEF Kept, SameJournal
<1> QED
  BY <1>4, <1>14, <1>15

LEMMA LiveFlush ==
  ASSUME NEW P \in Connection, NEW N, NEW j, JournalOK(j), NEW f, NEW I, NEW t, Writes(P, j, f, I, t), P.eState \in Live, Onward(P, N),
         P.at \notin Rolling, N.at \notin Rolling, NEW q, q.exists, SameUpTo(q.slots, j.slots, P.journalOff), Left(P, q.slots),
         Stage(N, q), Planned(N, f, I), Ends(N, q.slots)
  PROVE  Writes(N, q, f, I, t)
<1>1. /\ P.stamp = t + 1 /\ I[1] <= t /\ Sized(I, P.dbOrigSize)
      /\ Written(P, j.slots) /\ Kept(P, j.slots, I) /\ Changed(P, f, I)
  BY DEF Writes
<1>2. Changed(N, f, I)
  BY <1>1, ChangedStill
<1>3. j.slots \in [Slots -> Slot]
  BY DEF JournalOK, Journal
<1>4. SameJournal(P, N)
  BY DEF SameJournal, Onward
<1>5. Written(N, q.slots) /\ Kept(N, q.slots, I)
  BY <1>1, <1>3, <1>4, SameRecords
<1> QED
  BY <1>1, <1>2, <1>5 DEF Writes, Onward

LEMMA FlushFacts ==
  ASSUME IInv, NEW c \in Conns, NEW P, P = pager[c], P.at \in Filling \union {"write", "sync-db"}
  PROVE  /\ P.eState \in {"cachemod", "dbmod"} /\ P.eState \in Live /\ P.at \notin Rolling
         /\ "exclusive" \in held[c] /\ "reserved" \in held[c]
         /\ P.at \in Filling => P.own # 0 /\ (P.at # "sync-header" => ~Counted(P, jrnl.slots))
         /\ Changed(P, db, Image) /\ Planned(P, db, Image)
         /\ FileOK(db, dbDisk) /\ JournalOK(jrnl) /\ jrnl.slots \in [Slots -> Slot] /\ Dated(jrnl, txn) /\ txn \in 0..TxnsIn[mode] /\ txn \in Nat
         /\ P.journalOff \in Slots /\ P.journalOff \in Nat /\ P.journalOff >= 1 /\ P.journalOff <= MaxSlot /\ MaxSlot \in Nat
         /\ P.journalHdr \in Nat /\ P.own \in Nat /\ P.own <= P.journalOff
<1>0. Typed /\ Files
  BY DEF IInv
<1>1. P \in Connection /\ Locks(P, held[c]) /\ P.eState \in States
  BY Connected, Fields DEF Known
<1>2. P.eState \in {"cachemod", "dbmod"} /\ "exclusive" \in held[c]
  BY <1>1 DEF Locks, States, Looking, Recovering, Rolling, Filling
<1>3. P.eState \in Live /\ P.at \notin Rolling
  BY <1>2 DEF Live, Rolling, Filling
<1>4. /\ "reserved" \in held[c] /\ Changed(P, db, Image) /\ Planned(P, db, Image) /\ Stage(P, jrnl) /\ Written(P, jrnl.slots)
  BY <1>3, LiveFacts
<1>5. P.at \in Filling => P.own # 0 /\ (P.at # "sync-header" => ~Counted(P, jrnl.slots))
  BY <1>3, <1>4 DEF Stage, Filling
<1>6. /\ FileOK(db, dbDisk) /\ JournalOK(jrnl) /\ jrnl.slots \in [Slots -> Slot] /\ Dated(jrnl, txn) /\ txn \in 0..TxnsIn[mode] /\ txn \in Nat
  BY <1>0, TxnFacts DEF Typed, Files, JournalOK, Journal
<1>7. /\ P.journalOff \in Slots /\ P.journalOff \in Nat /\ P.journalOff >= 1 /\ P.journalOff <= MaxSlot /\ MaxSlot \in Nat
      /\ P.journalHdr \in Nat /\ P.own \in Nat
  BY <1>1, <1>4, WrittenFields
<1>8. P.own <= P.journalOff
  BY <1>4, <1>7 DEF Written, Segment
<1> QED
  BY <1>2, <1>3, <1>4, <1>5, <1>6, <1>7, <1>8

\* syncJournal: a header that happens to follow loses its magic (line 50582).
LEMMA PrepareJournalStep ==
  ASSUME IInv, NEW c \in Conns, PrepareJournal(c)
  PROVE  IInv' /\ Image' = Image /\ pager[c].eState \in Live /\ pager'[c].eState \in Live
<1>0. PICK P : P = pager[c]
  OBVIOUS
<1>1. P.at = "prepare" /\ UNCHANGED << held, db, dbDisk, ghost, history >>
  BY <1>0 DEF PrepareJournal
<1>2. PICK N : N = [P EXCEPT !.at = "sync-records"]
  OBVIOUS
<1>3. PICK n : n = P.journalOff + 1
  OBVIOUS
<1>4. /\ P.eState \in {"cachemod", "dbmod"} /\ P.eState \in Live /\ P.at \notin Rolling
      /\ "exclusive" \in held[c] /\ "reserved" \in held[c]
      /\ P.own # 0 /\ ~Counted(P, jrnl.slots)
      /\ Changed(P, db, Image) /\ Planned(P, db, Image)
      /\ FileOK(db, dbDisk) /\ JournalOK(jrnl) /\ jrnl.slots \in [Slots -> Slot] /\ Dated(jrnl, txn) /\ txn \in 0..TxnsIn[mode] /\ txn \in Nat
      /\ P.journalOff \in Nat /\ P.journalOff >= 1 /\ P.journalOff <= MaxSlot /\ MaxSlot \in Nat
      /\ P.journalHdr \in Nat /\ P.own \in Nat /\ P.own <= P.journalOff
  BY <1>0, <1>1, FlushFacts DEF Filling
<1>5. /\ P \in Connection /\ Writes(P, jrnl, db, Image, txn) /\ Locks(P, held[c])
      /\ sound => FirmWriter(P, jrnl, db, dbDisk)
      /\ jrnl.exists /\ Written(P, jrnl.slots) /\ Stage(P, jrnl) /\ (IsHot(jrnl) => "exclusive" \in held[c])
  BY <1>0, <1>4, LiveFacts
<1>6. Become(c, N)
  BY <1>0, <1>2 DEF PrepareJournal, Goto, Become
<1>7. N \in Connection /\ Onward(P, N) /\ N.todo = P.todo /\ N.spilling = P.spilling /\ N.at = "sync-records" /\ N.eState = P.eState
  BY <1>2, <1>5 DEF Connection, Onward, Steps
<1>8. /\ JournalOK(jrnl') /\ jrnl'.exists /\ jrnl'.durable = jrnl.durable /\ Dated(jrnl', txn)
      /\ \A k \in Slots : k # n => jrnl'.slots[k] = jrnl.slots[k] /\ (Firm(jrnl', k) <=> Firm(jrnl, k)) /\ (Unmarked(jrnl', k) <=> Unmarked(jrnl, k))
      /\ n <= MaxSlot => ~HasMagic(jrnl'.slots[n]) /\ jrnl'.slots[n].kind = jrnl.slots[n].kind /\ (jrnl.slots[n].kind \in {"hdr", "rec"} => jrnl'.slots[n].init = jrnl.slots[n].init)
  <2>1. CASE n <= MaxSlot /\ HasMagic(jrnl.slots[n])
    <3>1. PICK x : x = [jrnl.slots[n] EXCEPT !.magic = FALSE]
      OBVIOUS
    <3>2. n \in Slots
      BY <1>3, <1>4, <2>1 DEF Slots
    <3>3. jrnl.slots[n].kind = "hdr" /\ jrnl.slots[n] \in Hdr
      BY <1>4, <2>1, <3>2, SlotKinds DEF HasMagic, IsHeader
    <3>4. x \in Hdr /\ x.kind = "hdr" /\ x.magic = FALSE /\ x.init = jrnl.slots[n].init
      BY <3>1, <3>3 DEF Hdr
    <3>5. x \in Slot /\ ~HasMagic(x)
      BY <3>4 DEF Slot, HasMagic
    <3>6. jrnl' = Put(jrnl, n, x)
      BY <1>0, <1>3, <2>1, <3>1 DEF PrepareJournal
    <3>7. x.init <= txn + 1
      BY <1>4, <3>2, <3>3, <3>4 DEF Dated, JournalOK
    <3> QED
      BY <1>4, <1>5, <3>2, <3>3, <3>4, <3>5, <3>6, <3>7, PutIs, PutMarks
  <2>2. CASE ~(n <= MaxSlot /\ HasMagic(jrnl.slots[n]))
    <3>1. jrnl' = jrnl
      BY <1>0, <1>3, <2>2 DEF PrepareJournal
    <3> QED
      BY <1>4, <1>5, <2>2, <3>1
  <2> QED
    BY <2>1, <2>2
<1>9. SameUpTo(jrnl'.slots, jrnl.slots, P.journalOff)
  <2>1. \A k \in 1..P.journalOff : k \in Slots /\ k # n
    BY <1>3, <1>4 DEF Slots
  <2> QED
    BY <1>8, <2>1 DEF SameUpTo
<1>10. Left(P, jrnl'.slots)
  <2>1. Left(P, jrnl.slots)
    BY <1>5 DEF Written
  <2>2. ASSUME NEW i \in (P.journalOff + 1)..MaxSlot, jrnl'.slots[i].kind \in {"hdr", "rec"}
        PROVE  jrnl'.slots[i].init # P.stamp
    <3>1. i \in Slots
      BY <1>4 DEF Slots
    <3>2. jrnl.slots[i].kind \in {"hdr", "rec"} => jrnl.slots[i].init # P.stamp
      BY <2>1 DEF Left
    <3>3. CASE i = n
      <4>1. n <= MaxSlot
        BY <3>3
      <4>2. jrnl'.slots[n].kind = jrnl.slots[n].kind /\ (jrnl.slots[n].kind \in {"hdr", "rec"} => jrnl'.slots[n].init = jrnl.slots[n].init)
        BY <1>8, <4>1
      <4> QED
        BY <2>2, <3>2, <3>3, <4>2
    <3>4. CASE i # n
      BY <1>8, <2>2, <3>1, <3>2, <3>4
    <3> QED
      BY <3>3, <3>4
  <2> QED
    BY <2>2 DEF Left
<1>11. Ends(N, jrnl'.slots)
  <2>1. P.journalOff < MaxSlot => n <= MaxSlot
    BY <1>3, <1>4
  <2> QED
    BY <1>3, <1>7, <1>8, <2>1 DEF Ends, Onward
<1>12. ~Counted(N, jrnl'.slots) /\ N.own # 0
  <2>1. P.own \in 1..P.journalOff
    BY <1>4
  <2>2. jrnl'.slots[P.own] = jrnl.slots[P.own]
    BY <1>9, <2>1 DEF SameUpTo
  <2> QED
    BY <1>4, <1>7, <2>2 DEF Counted, Onward
<1>13. Stage(N, jrnl')
  BY <1>1, <1>4, <1>5, <1>7, <1>8, <1>12 DEF Stage, Onward, Filling
<1>14. Planned(N, db, Image)
  <2>1. Touched(N) = Touched(P)
    BY <1>7, TouchedStill DEF Onward
  <2> QED
    BY <1>1, <1>4, <1>7, <2>1 DEF Planned, Onward, Pending, Filling
<1>15. Writes(N, jrnl', db, Image, txn)
  <2>1. N.at \notin Rolling
    BY <1>7 DEF Rolling
  <2> QED
    BY <1>4, <1>5, <1>7, <1>8, <1>9, <1>10, <1>11, <1>13, <1>14, <2>1, LiveFlush
<1>16. Locks(N, held[c])
  BY <1>1, <1>4, <1>5, <1>7 DEF Locks, Onward, Filling, Live
<1>17. ASSUME sound
       PROVE  FirmWriter(N, jrnl', db, dbDisk)
  <2>1. FirmWriter(P, jrnl, db, dbDisk)
    BY <1>5, <1>17
  <2>2. Recs(jrnl'.slots, P.journalHdr) = Recs(jrnl.slots, P.journalHdr) /\ \A i \in Recs(jrnl.slots, P.journalHdr) : jrnl'.slots[i] = jrnl.slots[i]
    <3>1. P.journalHdr <= P.journalOff
      BY <1>4, <1>5 DEF Written, Segment
    <3>2. \A k \in 1..P.journalHdr : k \in 1..P.journalOff
      BY <1>4, <3>1
    <3> QED
      BY <1>9, <3>2 DEF Recs, SameUpTo
  <2>3. \A k \in 1..P.journalHdr : k \in Slots /\ k # n
    <3>1. P.journalHdr <= P.journalOff
      BY <1>4, <1>5 DEF Written, Segment
    <3> QED
      BY <1>3, <1>4, <3>1 DEF Slots
  <2>4. P.own \in Slots /\ P.own # n
    BY <1>3, <1>4 DEF Slots
  <2> QED
    BY <1>1, <1>4, <1>7, <1>8, <1>12, <2>1, <2>2, <2>3, <2>4 DEF FirmWriter, Onward, Rolling
<1>18. mode' = mode /\ txn' = txn /\ sound' = sound /\ held' = held /\ db' = db /\ dbDisk' = dbDisk /\ ghost' = ghost
  BY <1>1 DEF history
<1>19. ghost.exists => ~IsHot(jrnl')
  <2>1. ghost.exists => ~IsHot(jrnl)
    BY DEF IInv, Files
  <2>2. jrnl'.slots[1] = jrnl.slots[1]
    BY <1>4, <1>9 DEF SameUpTo
  <2> QED
    BY <1>5, <2>1, <2>2 DEF IsHot
<1>20. IInv' /\ Image' = Image /\ pager'[c] = N
  BY <1>4, <1>5, <1>6, <1>7, <1>8, <1>15, <1>16, <1>17, <1>18, <1>19, WriterStep
<1> QED
  BY <1>0, <1>4, <1>7, <1>20

\* syncJournal: the records are synced (line 50594).
LEMMA SyncRecordsStep ==
  ASSUME IInv, NEW c \in Conns, SyncRecords(c)
  PROVE  IInv' /\ Image' = Image /\ pager[c].eState \in Live /\ pager'[c].eState \in Live
<1>0. PICK P : P = pager[c]
  OBVIOUS
<1>1. P.at = "sync-records" /\ UNCHANGED << held, db, dbDisk, history >> /\ ghost' = NoJournal /\ jrnl' = Synced(jrnl)
  BY <1>0 DEF SyncRecords
<1>2. PICK N : N = [P EXCEPT !.at = "finish"]
  OBVIOUS
<1>4. /\ P.eState \in {"cachemod", "dbmod"} /\ P.eState \in Live /\ P.at \notin Rolling
      /\ "exclusive" \in held[c] /\ "reserved" \in held[c]
      /\ P.own # 0 /\ ~Counted(P, jrnl.slots)
      /\ Changed(P, db, Image) /\ Planned(P, db, Image)
      /\ FileOK(db, dbDisk) /\ JournalOK(jrnl) /\ jrnl.slots \in [Slots -> Slot] /\ Dated(jrnl, txn) /\ txn \in 0..TxnsIn[mode] /\ txn \in Nat
      /\ P.journalOff \in Nat /\ P.journalOff >= 1 /\ P.journalOff <= MaxSlot /\ MaxSlot \in Nat
      /\ P.journalHdr \in Nat /\ P.own \in Nat /\ P.own <= P.journalOff
  BY <1>0, <1>1, FlushFacts DEF Filling
<1>5. /\ P \in Connection /\ Writes(P, jrnl, db, Image, txn) /\ Locks(P, held[c])
      /\ sound => FirmWriter(P, jrnl, db, dbDisk)
      /\ jrnl.exists /\ Written(P, jrnl.slots) /\ Stage(P, jrnl) /\ (IsHot(jrnl) => "exclusive" \in held[c])
  BY <1>0, <1>4, LiveFacts
<1>6. Become(c, N)
  BY <1>0, <1>2 DEF SyncRecords, Goto, Become
<1>7. N \in Connection /\ Onward(P, N) /\ N.todo = P.todo /\ N.spilling = P.spilling /\ N.at = "finish" /\ N.eState = P.eState
  BY <1>2, <1>5 DEF Connection, Onward, Steps
<1>8. /\ JournalOK(jrnl') /\ jrnl'.exists /\ jrnl'.durable /\ Dated(jrnl', txn) /\ jrnl'.slots = jrnl.slots
      /\ \A k \in Slots : Firm(jrnl', k) /\ (~HasMagic(jrnl.slots[k]) => Unmarked(jrnl', k))
  BY <1>1, <1>4, <1>5, SyncedIs
<1>9. SameUpTo(jrnl'.slots, jrnl.slots, P.journalOff) /\ Left(P, jrnl'.slots) /\ Left(P, jrnl.slots)
  BY <1>5, <1>8 DEF SameUpTo, Written
<1>10. Ends(P, jrnl.slots)
  BY <1>5 DEF Written
<1>11. Ends(N, jrnl'.slots) /\ (P.journalOff < MaxSlot => ~HasMagic(jrnl.slots[P.journalOff + 1]))
  BY <1>1, <1>7, <1>8, <1>10 DEF Ends, Onward
<1>12. ~Counted(N, jrnl'.slots) /\ N.own # 0
  BY <1>4, <1>7, <1>8 DEF Counted, Onward
<1>13. Stage(N, jrnl')
  BY <1>1, <1>4, <1>5, <1>7, <1>8, <1>12 DEF Stage, Onward, Filling
<1>14. Planned(N, db, Image)
  <2>1. Touched(N) = Touched(P)
    BY <1>7, TouchedStill DEF Onward
  <2> QED
    BY <1>1, <1>4, <1>7, <2>1 DEF Planned, Onward, Pending, Filling
<1>15. Writes(N, jrnl', db, Image, txn)
  <2>1. N.at \notin Rolling
    BY <1>7 DEF Rolling
  <2> QED
    BY <1>4, <1>5, <1>7, <1>8, <1>9, <1>11, <1>13, <1>14, <2>1, LiveFlush
<1>16. Locks(N, held[c])
  BY <1>1, <1>4, <1>5, <1>7 DEF Locks, Onward, Filling, Live
<1>17. ASSUME sound
       PROVE  FirmWriter(N, jrnl', db, dbDisk)
  <2>1. FirmWriter(P, jrnl, db, dbDisk)
    BY <1>5, <1>17
  <2>2. \A k \in 1..P.journalHdr : k \in Slots
    <3>1. P.journalHdr <= P.journalOff
      BY <1>4, <1>5 DEF Written, Segment
    <3> QED
      BY <1>4, <3>1 DEF Slots
  <2>3. \A k \in 1..P.journalOff : k \in Slots
    BY <1>4 DEF Slots
  <2>4. Unmarked(jrnl', P.own)
    <3>1. P.own \in Slots
      BY <1>4 DEF Slots
    <3>2. ~HasMagic(jrnl.slots[P.own])
      BY <1>4 DEF HasMagic, Counted
    <3> QED
      BY <1>8, <3>1, <3>2
  <2>5. P.journalOff < MaxSlot => Unmarked(jrnl', P.journalOff + 1)
    <3>1. P.journalOff < MaxSlot => P.journalOff + 1 \in Slots
      BY <1>4 DEF Slots
    <3> QED
      BY <1>8, <1>11, <3>1
  <2> QED
    BY <1>1, <1>4, <1>7, <1>8, <1>12, <2>1, <2>2, <2>3, <2>4, <2>5 DEF FirmWriter, Onward, Rolling
<1>18. mode' = mode /\ txn' = txn /\ sound' = sound /\ held' = held /\ db' = db /\ dbDisk' = dbDisk
  BY <1>1 DEF history
<1>19. ~ghost'.exists
  BY <1>1, NoJournalIs
<1>20. IInv' /\ Image' = Image /\ pager'[c] = N
  BY <1>1, <1>4, <1>5, <1>6, <1>7, <1>8, <1>15, <1>16, <1>17, <1>18, <1>19, WriterStep
<1> QED
  BY <1>0, <1>4, <1>7, <1>20

\* Whatever the power leaves of the database file.
LEMMA LiveCovers ==
  ASSUME NEW P \in Connection, P.eState \in Live, NEW j, NEW f, NEW doubts, NEW I, NEW t, Writes(P, j, f, I, t),
         FirmWriter(P, j, f, doubts), NEW q, NEW g, NEW x, MayBe(g, x, doubts, q)
  PROVE  Covers(j.slots, g, I, P.dbOrigSize, P.journalHdr)
<1>1. Sized(I, P.dbOrigSize)
  BY DEF Writes
<1>2. \A p \in Pages : doubts[p] = {f[p]} \/ p > P.dbOrigSize \/ \E i \in Recs(j.slots, P.journalHdr) : j.slots[i].pg = p
  BY DEF FirmWriter
<1>3. ASSUME NEW p \in Pages
      PROVE  (\E i \in Recs(j.slots, P.journalHdr) : j.slots[i].pg = p) \/ Cut(g, P.dbOrigSize)[p] = I[p]
  <2>1. CASE \E i \in Recs(j.slots, P.journalHdr) : j.slots[i].pg = p
    BY <2>1
  <2>2. CASE p > P.dbOrigSize
    BY <1>1, <2>2, CutIs
  <2>3. CASE doubts[p] = {f[p]} /\ ~\E i \in Recs(j.slots, P.journalHdr) : j.slots[i].pg = p
    <3>1. g[p] = f[p]
      BY <2>3, FirmPage
    <3>2. Cut(f, P.dbOrigSize)[p] = I[p]
      BY <2>3, CoversLive DEF Covers
    <3> QED
      BY <3>1, <3>2, CutAt
  <2> QED
    BY <1>2, <2>1, <2>2, <2>3
<1> QED
  BY <1>3 DEF Covers

\* syncJournal: the header gets its magic and its count (line 50602).  From here on the journal is hot.
LEMMA FinishJournalStep ==
  ASSUME IInv, NEW c \in Conns, FinishJournal(c)
  PROVE  IInv' /\ Image' = Image /\ pager[c].eState \in Live /\ pager'[c].eState \in Live
<1>0. PICK P : P = pager[c]
  OBVIOUS
<1>1. P.at = "finish" /\ UNCHANGED << held, db, dbDisk, ghost, history >>
  BY <1>0 DEF FinishJournal
<1>2. PICK N : N = [P EXCEPT !.at = "sync-header"]
  OBVIOUS
<1>3. PICK o : o = P.own
  OBVIOUS
<1>4. /\ P.eState \in {"cachemod", "dbmod"} /\ P.eState \in Live /\ P.at \notin Rolling
      /\ "exclusive" \in held[c] /\ "reserved" \in held[c]
      /\ P.own # 0 /\ ~Counted(P, jrnl.slots)
      /\ Changed(P, db, Image) /\ Planned(P, db, Image)
      /\ FileOK(db, dbDisk) /\ JournalOK(jrnl) /\ jrnl.slots \in [Slots -> Slot] /\ Dated(jrnl, txn) /\ txn \in 0..TxnsIn[mode] /\ txn \in Nat
      /\ P.journalOff \in Slots /\ P.journalOff \in Nat /\ P.journalOff >= 1 /\ P.journalOff <= MaxSlot /\ MaxSlot \in Nat
      /\ P.journalHdr \in Nat /\ P.own \in Nat /\ P.own <= P.journalOff
  BY <1>0, <1>1, FlushFacts DEF Filling
<1>5. /\ P \in Connection /\ Writes(P, jrnl, db, Image, txn) /\ Locks(P, held[c])
      /\ sound => FirmWriter(P, jrnl, db, dbDisk)
      /\ jrnl.exists /\ Written(P, jrnl.slots) /\ Stage(P, jrnl) /\ (IsHot(jrnl) => "exclusive" \in held[c])
      /\ Kept(P, jrnl.slots, Image) /\ P.stamp = txn + 1 /\ Image[1] <= txn /\ Sized(Image, P.dbOrigSize)
  BY <1>0, <1>4, LiveFacts
<1>6. Become(c, N)
  BY <1>0, <1>2 DEF FinishJournal, Goto, Become
<1>7. N \in Connection /\ Onward(P, N) /\ N.todo = P.todo /\ N.spilling = P.spilling /\ N.at = "sync-header" /\ N.eState = P.eState
  BY <1>2, <1>5 DEF Connection, Onward, Steps
<1>8. /\ o \in Slots /\ o = P.journalHdr + 1 /\ o <= P.journalOff /\ jrnl.slots[o].kind = "hdr" /\ jrnl.slots[o] \in Hdr
      /\ \A i \in (o + 1)..P.journalOff : jrnl.slots[i].kind = "rec"
      /\ o \in Nat /\ o >= 1
  <2>1. o \in Slots
    BY <1>3, <1>4 DEF Slots
  <2> QED
    BY <1>3, <1>4, <1>5, <2>1, SlotKinds DEF Written, Segment
<1>9. PICK h : h = [jrnl.slots[o] EXCEPT !.magic = TRUE, !.n = P.journalOff - o]
  OBVIOUS
<1>10. h \in Hdr /\ h \in Slot /\ h.kind = "hdr" /\ h.magic = TRUE /\ h.n = P.journalOff - o /\ h.init = jrnl.slots[o].init /\ h.orig = jrnl.slots[o].orig
  <2>1. P.journalOff - o \in Offsets
    BY <1>4, <1>8 DEF Offsets
  <2> QED
    BY <1>8, <1>9, <2>1 DEF Hdr, Slot
<1>11. jrnl' = Put(jrnl, o, h)
  BY <1>0, <1>3, <1>9 DEF FinishJournal
<1>12. /\ JournalOK(jrnl') /\ jrnl'.exists /\ jrnl'.durable = jrnl.durable /\ jrnl'.slots[o] = h
       /\ jrnl'.disk[o] = jrnl.disk[o] \union {h}
       /\ \A k \in Slots : k # o => jrnl'.slots[k] = jrnl.slots[k] /\ (Firm(jrnl', k) <=> Firm(jrnl, k)) /\ (Unmarked(jrnl', k) <=> Unmarked(jrnl, k))
  BY <1>4, <1>5, <1>8, <1>10, <1>11, PutIs, PutMarks
<1>13. Dated(jrnl', txn)
  <2>1. jrnl.slots[o] \in jrnl.disk[o]
    BY <1>4, <1>8 DEF JournalOK
  <2>2. h.init <= txn + 1
    BY <1>4, <1>8, <1>10, <2>1 DEF Dated
  <2> QED
    BY <1>4, <1>5, <1>8, <1>10, <1>11, <2>2, PutIs
<1>14. /\ Placed(P) /\ Room(P) /\ jrnl.slots[1].kind = "hdr" /\ jrnl.slots[1].orig = P.dbOrigSize
       /\ Ours(P, jrnl.slots) /\ Recorded(P, jrnl.slots) /\ Left(P, jrnl.slots)
       /\ Reached(jrnl.slots, 0, P.journalHdr) /\ Ends(P, jrnl.slots)
  BY <1>5 DEF Written
<1>15. \A k \in 1..P.journalOff : k \in Slots /\ jrnl'.slots[k].kind = jrnl.slots[k].kind /\ jrnl'.slots[k].init = jrnl.slots[k].init
                                  /\ (jrnl.slots[k].kind = "rec" => jrnl'.slots[k] = jrnl.slots[k])
  <2>1. \A k \in 1..P.journalOff : k \in Slots
    BY <1>4 DEF Slots
  <2> QED
    BY <1>8, <1>10, <1>12, <2>1
<1>16. \A m \in 0..P.journalOff : Recs(jrnl'.slots, m) = Recs(jrnl.slots, m) /\ \A i \in Recs(jrnl.slots, m) : jrnl'.slots[i] = jrnl.slots[i]
  <2>1. ASSUME NEW m \in 0..P.journalOff
        PROVE  Recs(jrnl'.slots, m) = Recs(jrnl.slots, m) /\ \A i \in Recs(jrnl.slots, m) : jrnl'.slots[i] = jrnl.slots[i]
    <3>1. \A k \in 1..m : k \in 1..P.journalOff
      BY <1>4
    <3> QED
      BY <1>15, <3>1 DEF Recs
  <2> QED
    BY <2>1
<1>17. Counted(N, jrnl'.slots) /\ N.own = o /\ o # 0
  BY <1>3, <1>4, <1>7, <1>10, <1>12 DEF Counted, Onward
<1>18. Written(N, jrnl'.slots)
  <2>1. Placed(N) /\ Room(N)
    BY <1>7, <1>14 DEF Placed, Room, Onward
  <2>2. Ours(N, jrnl'.slots)
    BY <1>7, <1>14, <1>15 DEF Ours, Onward
  <2>3. Recorded(N, jrnl'.slots)
    <3>1. Recs(jrnl'.slots, P.journalOff) = Recs(jrnl.slots, P.journalOff) /\ \A i \in Recs(jrnl.slots, P.journalOff) : jrnl'.slots[i] = jrnl.slots[i]
      BY <1>4, <1>16
    <3> QED
      BY <1>7, <1>14, <3>1 DEF Recorded, Onward
  <2>4. Left(N, jrnl'.slots)
    <3>1. \A i \in (P.journalOff + 1)..MaxSlot : i \in Slots /\ i # o
      BY <1>4, <1>8 DEF Slots
    <3> QED
      BY <1>7, <1>12, <1>14, <3>1 DEF Left, Onward
  <2>5. jrnl'.slots[1].kind = "hdr" /\ jrnl'.slots[1].orig = N.dbOrigSize
    <3>1. 1 \in Slots
      BY <1>4 DEF Slots
    <3> QED
      BY <1>7, <1>10, <1>12, <1>14, <3>1 DEF Onward
  <2>6. Reached(jrnl'.slots, 0, N.journalHdr)
    <3>1. P.journalHdr \in 0..MaxSlot /\ \A k \in 1..P.journalHdr : k \in Slots /\ k # o
      BY <1>4, <1>8 DEF Slots
    <3> QED
      BY <1>4, <1>7, <1>12, <1>14, <3>1, SameStart DEF Onward
  <2>7. Segment(N, jrnl'.slots)
    <3>1. \A i \in (o + 1)..P.journalOff : i \in 1..P.journalOff
      BY <1>4, <1>8
    <3> QED
      BY <1>7, <1>8, <1>10, <1>12, <1>15, <1>17, <3>1 DEF Segment, Onward
  <2>8. Ends(N, jrnl'.slots)
    <3>1. P.journalOff < MaxSlot => ~HasMagic(jrnl.slots[P.journalOff + 1])
      BY <1>1, <1>14 DEF Ends
    <3>2. P.journalOff < MaxSlot => P.journalOff + 1 \in Slots /\ P.journalOff + 1 # o
      BY <1>4, <1>8 DEF Slots
    <3> QED
      BY <1>7, <1>12, <3>1, <3>2 DEF Ends, Onward
  <2> QED
    BY <2>1, <2>2, <2>3, <2>4, <2>5, <2>6, <2>7, <2>8 DEF Written
<1>19. Stage(N, jrnl')
  BY <1>1, <1>4, <1>5, <1>7, <1>12, <1>17 DEF Stage, Onward, Filling
<1>20. Planned(N, db, Image)
  <2>1. Touched(N) = Touched(P)
    BY <1>7, TouchedStill DEF Onward
  <2> QED
    BY <1>1, <1>4, <1>7, <2>1 DEF Planned, Onward, Pending, Filling
<1>21. Writes(N, jrnl', db, Image, txn)
  <2>1. N.at \notin Rolling
    BY <1>7 DEF Rolling
  <2>2. Changed(N, db, Image)
    BY <1>4, <1>7, ChangedStill
  <2>3. Kept(N, jrnl'.slots, Image)
    <3>1. Recs(jrnl'.slots, P.journalOff) = Recs(jrnl.slots, P.journalOff) /\ \A i \in Recs(jrnl.slots, P.journalOff) : jrnl'.slots[i] = jrnl.slots[i]
      BY <1>4, <1>16
    <3> QED
      BY <1>5, <1>7, <3>1 DEF Kept, Onward
  <2> QED
    BY <1>5, <1>7, <1>12, <1>18, <1>19, <1>20, <2>1, <2>2, <2>3 DEF Writes, Onward
<1>22. Locks(N, held[c])
  BY <1>1, <1>4, <1>5, <1>7 DEF Locks, Onward, Filling, Live
<1>23. IsHot(jrnl') /\ Reached(jrnl'.slots, 0, P.journalOff)
  <2>1. jrnl'.slots \in [Slots -> Slot]
    BY <1>12 DEF JournalOK, Journal
  <2>2. End(N, jrnl'.slots) = P.journalOff
    BY <1>7, <1>17 DEF End, Onward
  <2> QED
    BY <1>4, <1>7, <1>12, <1>18, <2>1, <2>2, EndIs DEF IsHot
<1>24. P.journalHdr <= P.journalOff /\ \A k \in 1..P.journalHdr : k \in 1..P.journalOff /\ k # o
  BY <1>4, <1>8
<1>25. ASSUME sound
       PROVE  FirmWriter(N, jrnl', db, dbDisk)
  <2>1. FirmWriter(P, jrnl, db, dbDisk)
    BY <1>5, <1>25
  <2>2. /\ \A k \in 1..P.journalHdr : Firm(jrnl, k)
        /\ \A k \in 1..P.journalOff : k = P.own \/ Firm(jrnl, k)
        /\ P.journalOff < MaxSlot => Unmarked(jrnl, P.journalOff + 1)
        /\ P.eState = "cachemod" => Certain(db, dbDisk)
        /\ \A p \in Pages : dbDisk[p] = {db[p]} \/ p > P.dbOrigSize \/ \E i \in Recs(jrnl.slots, P.journalHdr) : jrnl.slots[i].pg = p
    BY <1>1, <1>4, <2>1 DEF FirmWriter
  <2>3. \A k \in 1..P.journalHdr : Firm(jrnl', k)
    BY <1>12, <1>15, <1>24, <2>2
  <2>4. \A k \in 1..P.journalOff : k = o \/ Firm(jrnl', k)
    BY <1>3, <1>12, <1>15, <2>2
  <2>5. P.journalOff < MaxSlot => Unmarked(jrnl', P.journalOff + 1)
    <3>1. P.journalOff < MaxSlot => P.journalOff + 1 \in Slots /\ P.journalOff + 1 # o
      BY <1>4, <1>8 DEF Slots
    <3> QED
      BY <1>12, <2>2, <3>1
  <2>6. \A p \in Pages : dbDisk[p] = {db[p]} \/ p > P.dbOrigSize \/ \E i \in Recs(jrnl'.slots, P.journalHdr) : jrnl'.slots[i].pg = p
    <3>1. P.journalHdr \in 0..P.journalOff
      BY <1>4, <1>24
    <3> QED
      BY <1>16, <2>2, <3>1
  <2> QED
    BY <1>3, <1>4, <1>7, <2>2, <2>3, <2>4, <2>5, <2>6 DEF FirmWriter, Onward, Rolling
<1>26. ASSUME sound
       PROVE  Survives(dbDisk, jrnl', Image)
  <2>1. FirmWriter(P, jrnl, db, dbDisk) /\ FirmWriter(N, jrnl', db, dbDisk)
    BY <1>5, <1>25, <1>26
  <2>2. /\ \A k \in 1..P.journalOff : k = o \/ Firm(jrnl', k)
        /\ P.journalOff < MaxSlot => Unmarked(jrnl', P.journalOff + 1)
    BY <1>4, <1>7, <1>17, <2>1 DEF FirmWriter, Onward
  <2>3. Unmarked(jrnl, o) /\ (P.eState = "cachemod" => Certain(db, dbDisk))
    BY <1>1, <1>3, <1>4, <2>1 DEF FirmWriter
  <2>4. IsImage(Image)
    BY <1>4, StampsAre DEF IInv, Files
  <2>5. SUFFICES ASSUME NEW g, NEW x, MayBe(g, x, dbDisk, jrnl')
                 PROVE  Amounts(g, x, Image)
    BY DEF Survives
  <2>6. x \in [Slots -> Slot] /\ g \in [Pages -> Values]
    BY <2>5 DEF MayBe
  <2>7. Covers(jrnl'.slots, g, Image, N.dbOrigSize, N.journalHdr)
    BY <1>4, <1>7, <1>21, <2>1, <2>5, LiveCovers
  <2>8. x[o] \in jrnl.disk[o] \union {h, Junk}
    BY <1>8, <1>12, <2>5, FirmSlot
  <2>9. \A k \in 1..P.journalOff : k # o => x[k] = jrnl'.slots[k]
    BY <1>15, <2>2, <2>5, FirmSlot
  <2>10. CASE HasMagic(x[o])
    <3>1. x[o] = h
      BY <2>3, <2>8, <2>10 DEF Unmarked, HasMagic, IsHeader, Junk
    <3>2. SameUpTo(x, jrnl'.slots, P.journalOff)
      BY <1>12, <2>9, <3>1 DEF SameUpTo
    <3>3. Stops(x, P.journalOff)
      <4>1. P.journalOff < MaxSlot => P.journalOff + 1 \in Slots
        BY <1>4 DEF Slots
      <4> QED
        BY <2>2, <2>5, <4>1, FirmSlot DEF Stops
    <3>4. Covers(jrnl'.slots, g, Image, N.dbOrigSize, P.journalOff)
      <4>1. Recs(jrnl'.slots, P.journalHdr) \subseteq Recs(jrnl'.slots, P.journalOff)
        BY <1>4, <1>24, RecsGrow
      <4> QED
        BY <1>7, <2>7, <4>1 DEF Covers, Onward
    <3>5. P.journalOff = N.journalOff
      BY <1>7 DEF Onward
    <3> QED
      BY <1>4, <1>7, <1>12, <1>21, <1>23, <2>4, <2>6, <3>2, <3>3, <3>4, <3>5, LiveRestores
  <2>11. CASE ~HasMagic(x[o])
    <3>1. CASE P.journalHdr = 0
      <4>1. o = 1 /\ P.eState = "cachemod"
        BY <1>5, <1>8, <3>1 DEF Stage
      <4>2. db = Image /\ Certain(db, dbDisk)
        BY <1>4, <2>3, <4>1 DEF Changed
      <4>3. \A p \in Pages : g[p] = db[p]
        BY <2>5, <4>2, FirmPage DEF Certain
      <4>4. g = db
        BY <1>4, <2>6, <4>3 DEF FileOK
      <4>5. ~HasMagic(x[1]) /\ Replayed(g, x) = g
        BY <2>11, <4>1, ReplayedCold
      <4> QED
        BY <4>2, <4>4, <4>5 DEF Amounts
    <3>2. CASE P.journalHdr # 0
      <4>1. SameUpTo(x, jrnl'.slots, P.journalHdr)
        BY <1>24, <2>9 DEF SameUpTo
      <4>2. Stops(x, P.journalHdr)
        BY <1>8, <2>11 DEF Stops
      <4>3. P.journalHdr \in Slots /\ P.journalHdr <= N.journalOff /\ N.journalHdr = P.journalHdr
        BY <1>4, <1>7, <1>24, <3>2 DEF Slots, Onward
      <4>4. Reached(jrnl'.slots, 0, P.journalHdr)
        BY <1>18, <4>3 DEF Written
      <4> QED
        BY <1>4, <1>7, <1>12, <1>21, <2>4, <2>6, <2>7, <4>1, <4>2, <4>3, <4>4, LiveRestores
    <3> QED
      BY <3>1, <3>2
  <2> QED
    BY <2>10, <2>11
<1>27. mode' = mode /\ txn' = txn /\ sound' = sound /\ held' = held /\ db' = db /\ dbDisk' = dbDisk /\ ghost' = ghost
  BY <1>1 DEF history
<1>28. ~ghost.exists
  BY <1>0, <1>1 DEF IInv, Alone
<1>29. IInv' /\ Image' = Image /\ pager'[c] = N
  BY <1>4, <1>5, <1>6, <1>7, <1>12, <1>13, <1>21, <1>22, <1>23, <1>25, <1>26, <1>27, <1>28, WriterStep
<1> QED
  BY <1>0, <1>4, <1>7, <1>29

\* The records never end where a header may begin.
Unaligned == "aligned" \notin Troubles

\* What is written once the header is synced.
LEMMA ChangedSynced ==
  ASSUME NEW P, NEW N, NEW f, NEW I, Changed(P, f, I), N.eState = "dbmod", N.needSync = {},
         N.cache = P.cache, N.dirty = P.dirty, N.inJournal = P.inJournal, N.dbFileVers = P.dbFileVers, N.dbSize = P.dbSize,
         N.dbOrigSize = P.dbOrigSize, N.stamp = P.stamp
  PROVE  Changed(N, f, I)
<1>1. Touched(N) = Touched(P) /\ \A p : Target(N, I, p) = Target(P, I, p)
  BY TouchedStill
<1>2. \A p \in Pages : PageOK(N, f, I, p)
  BY <1>1 DEF Changed, PageOK
<1> QED
  BY <1>1, <1>2 DEF Changed

\* syncJournal: the header is synced, and pages may be written (line 50609).
LEMMA SyncHeaderStep ==
  ASSUME IInv, Unaligned, NEW c \in Conns, SyncHeader(c)
  PROVE  IInv' /\ Image' = Image /\ pager[c].eState \in Live /\ pager'[c].eState \in Live
<1>0. PICK P : P = pager[c]
  OBVIOUS
<1>1. P.at = "sync-header" /\ UNCHANGED << held, db, dbDisk, ghost, history >>
  BY <1>0 DEF SyncHeader
<1>4. /\ P.eState \in {"cachemod", "dbmod"} /\ P.eState \in Live /\ P.at \notin Rolling
      /\ "exclusive" \in held[c] /\ "reserved" \in held[c]
      /\ P.own # 0
      /\ Changed(P, db, Image) /\ Planned(P, db, Image)
      /\ FileOK(db, dbDisk) /\ JournalOK(jrnl) /\ jrnl.slots \in [Slots -> Slot] /\ Dated(jrnl, txn) /\ txn \in 0..TxnsIn[mode] /\ txn \in Nat
      /\ P.journalOff \in Slots /\ P.journalOff \in Nat /\ P.journalOff >= 1 /\ P.journalOff <= MaxSlot /\ MaxSlot \in Nat
      /\ P.journalHdr \in Nat /\ P.own \in Nat /\ P.own <= P.journalOff
  BY <1>0, <1>1, FlushFacts DEF Filling
<1>5. /\ P \in Connection /\ Writes(P, jrnl, db, Image, txn) /\ Locks(P, held[c])
      /\ sound => FirmWriter(P, jrnl, db, dbDisk)
      /\ jrnl.exists /\ Written(P, jrnl.slots) /\ Stage(P, jrnl) /\ (IsHot(jrnl) => "exclusive" \in held[c])
      /\ Kept(P, jrnl.slots, Image) /\ P.stamp = txn + 1 /\ Image[1] <= txn /\ Sized(Image, P.dbOrigSize)
  BY <1>0, <1>4, LiveFacts
<1>6. Counted(P, jrnl.slots)
  BY <1>1, <1>5 DEF Stage
<1>7. /\ Placed(P) /\ Room(P) /\ jrnl.slots[1].kind = "hdr" /\ jrnl.slots[1].orig = P.dbOrigSize
      /\ Ours(P, jrnl.slots) /\ Recorded(P, jrnl.slots) /\ Left(P, jrnl.slots)
      /\ (P.journalOff < MaxSlot => ~HasMagic(jrnl.slots[P.journalOff + 1]))
  BY <1>5, <1>6 DEF Written, Ends
<1>8. Reached(jrnl.slots, 0, P.journalOff) /\ HasMagic(jrnl.slots[1]) /\ P.journalHdr <= P.journalOff
  <2>1. End(P, jrnl.slots) = P.journalOff
    BY <1>6 DEF End
  <2> QED
    BY <1>4, <1>5, <2>1, EndIs
<1>9. PICK q : q = Synced(jrnl)
  OBVIOUS
<1>10. /\ JournalOK(q) /\ q.exists /\ q.durable /\ Dated(q, txn) /\ q.slots = jrnl.slots
       /\ \A k \in Slots : Firm(q, k) /\ (~HasMagic(jrnl.slots[k]) => Unmarked(q, k))
  BY <1>4, <1>5, <1>9, SyncedIs
<1>11. \A k \in 1..P.journalOff : k \in Slots
  BY <1>4 DEF Slots
<1>12. /\ P.journalOff < MaxSlot => P.journalOff + 1 \in Slots /\ Unmarked(q, P.journalOff + 1)
  <2>1. P.journalOff < MaxSlot => P.journalOff + 1 \in Slots
    BY <1>4 DEF Slots
  <2> QED
    BY <1>7, <1>10, <2>1
<1>13. ASSUME sound
       PROVE  /\ \A p \in Pages : dbDisk[p] = {db[p]} \/ p > P.dbOrigSize \/ \E i \in Recs(jrnl.slots, P.journalOff) : jrnl.slots[i].pg = p
  <2>1. \A p \in Pages : dbDisk[p] = {db[p]} \/ p > P.dbOrigSize \/ \E i \in Recs(jrnl.slots, P.journalHdr) : jrnl.slots[i].pg = p
    BY <1>4, <1>5, <1>13 DEF FirmWriter
  <2>2. Recs(jrnl.slots, P.journalHdr) \subseteq Recs(jrnl.slots, P.journalOff)
    BY <1>4, <1>8, RecsGrow
  <2> QED
    BY <2>1, <2>2
<1>14. mode' = mode /\ txn' = txn /\ sound' = sound /\ held' = held /\ db' = db /\ dbDisk' = dbDisk /\ ghost' = ghost
  BY <1>1 DEF history
<1>15. ~ghost.exists
  <2>1. IsHot(jrnl)
    BY <1>5, <1>8 DEF IsHot
  <2> QED
    BY <2>1 DEF IInv, Files
<1>16. P.journalHdr \in Offsets /\ P.journalOff \in Offsets /\ 0 \in Offsets /\ "write" \in Steps /\ "dbmod" \in States
  BY <1>4, <1>8 DEF Offsets, Steps, States
<1>17. CASE ~P.spilling
  <2>1. PICK N : N = [P EXCEPT !.at = "write", !.needSync = {}, !.eState = "dbmod", !.journalHdr = P.journalOff, !.own = 0]
    OBVIOUS
  <2>2. jrnl' = q /\ Become(c, N)
    <3>1. PICK aligned \in BOOLEAN : /\ aligned => "aligned" \in Troubles
            /\ Become(c, [[P EXCEPT !.at = "write", !.needSync = {}, !.eState = "dbmod", !.journalHdr = P.journalOff]
                            EXCEPT !.own = IF aligned THEN P.journalOff + 1 ELSE 0])
      BY <1>0, <1>17 DEF SyncHeader
    <3>2. ~aligned
      BY <3>1 DEF Unaligned
    <3>3. Become(c, [[P EXCEPT !.at = "write", !.needSync = {}, !.eState = "dbmod", !.journalHdr = P.journalOff] EXCEPT !.own = 0])
      BY <3>1, <3>2
    <3>4. N = [[P EXCEPT !.at = "write", !.needSync = {}, !.eState = "dbmod", !.journalHdr = P.journalOff] EXCEPT !.own = 0]
      BY <1>5, <2>1 DEF Connection
    <3>5. jrnl' = q
      BY <1>0, <1>9, <1>17 DEF SyncHeader
    <3> QED
      BY <3>3, <3>4, <3>5
  <2>3. /\ N \in Connection /\ N.at = "write" /\ N.needSync = {} /\ N.eState = "dbmod" /\ N.journalHdr = P.journalOff /\ N.own = 0
        /\ N.cache = P.cache /\ N.dirty = P.dirty /\ N.inJournal = P.inJournal /\ N.dbFileVers = P.dbFileVers /\ N.dbSize = P.dbSize
        /\ N.dbOrigSize = P.dbOrigSize /\ N.stamp = P.stamp /\ N.journalOff = P.journalOff /\ N.todo = P.todo /\ N.spilling = P.spilling
    BY <1>5, <1>16, <2>1 DEF Connection
  <2>4. N.eState \in Live /\ N.at \notin Rolling
    BY <2>3 DEF Live, Rolling
  <2>5. Written(N, q.slots)
    <3>1. Placed(N) /\ Ours(N, q.slots) /\ Left(N, q.slots)
      BY <1>7, <1>10, <2>3 DEF Placed, Ours, Left
    <3>2. Room(N)
      <4>1. Cardinality(P.inJournal) \in Nat
        BY <1>5, Fields, Counts
      <4> QED
        BY <1>4, <1>7, <2>3, <4>1 DEF Room
    <3>3. Recorded(N, q.slots)
      <4>1. \A i \in Recs(jrnl.slots, P.journalOff) : i <= P.journalOff
        BY DEF Recs
      <4> QED
        BY <1>7, <1>10, <2>3, <4>1 DEF Recorded
    <3>4. Segment(N, q.slots)
      BY <2>3 DEF Segment
    <3>5. Ends(N, q.slots)
      BY <1>7, <1>10, <2>3 DEF Ends
    <3> QED
      BY <1>7, <1>8, <1>10, <2>3, <3>1, <3>2, <3>3, <3>4, <3>5 DEF Written
  <2>6. Stage(N, q)
    <3>1. ~Counted(N, q.slots)
      BY <2>3 DEF Counted
    <3> QED
      BY <1>4, <1>10, <1>17, <2>3, <3>1 DEF Stage, Filling
  <2>7. Kept(N, q.slots, Image)
    BY <1>5, <1>10, <2>3 DEF Kept
  <2>8. Changed(N, db, Image)
    BY <1>4, <2>3, ChangedSynced
  <2>9. Planned(N, db, Image)
    <3>1. Touched(N) = Touched(P)
      BY <2>3, TouchedStill
    <3> QED
      BY <1>1, <1>4, <1>17, <2>3, <3>1 DEF Planned, Pending, Filling
  <2>10. Writes(N, q, db, Image, txn)
    BY <1>5, <1>10, <2>3, <2>4, <2>5, <2>6, <2>7, <2>8, <2>9 DEF Writes
  <2>11. Locks(N, held[c])
    BY <1>4, <1>5, <2>3 DEF Locks, Filling, Live
  <2>12. ASSUME sound
         PROVE  FirmWriter(N, q, db, dbDisk)
    BY <1>10, <1>11, <1>12, <1>13, <2>3, <2>12 DEF FirmWriter, Rolling
  <2>13. IInv' /\ Image' = Image /\ pager'[c] = N
    BY <1>4, <1>10, <1>14, <1>15, <2>2, <2>3, <2>4, <2>10, <2>11, <2>12, WriterStep
  <2> QED
    BY <1>0, <1>4, <2>4, <2>13
<1>18. CASE P.spilling
  <2>0. PICK n : n = P.journalOff + 1
    OBVIOUS
  <2>1. PICK N : N = [P EXCEPT !.at = "write", !.needSync = {}, !.eState = "dbmod", !.journalHdr = P.journalOff, !.journalOff = n, !.own = n]
    OBVIOUS
  <2>2. PICK x : x = Header(FALSE, 0, P.dbOrigSize, P.stamp)
    OBVIOUS
  <2>3. jrnl' = Put(q, n, x) /\ Become(c, N)
    <3>1. Become(c, [[P EXCEPT !.at = "write", !.needSync = {}, !.eState = "dbmod", !.journalHdr = P.journalOff] EXCEPT !.journalOff = n, !.own = n])
      BY <1>0, <1>18, <2>0 DEF SyncHeader
    <3>2. N = [[P EXCEPT !.at = "write", !.needSync = {}, !.eState = "dbmod", !.journalHdr = P.journalOff] EXCEPT !.journalOff = n, !.own = n]
      BY <1>5, <2>1 DEF Connection
    <3>3. jrnl' = Put(q, n, x)
      BY <1>0, <1>9, <1>18, <2>0, <2>2 DEF SyncHeader
    <3> QED
      BY <3>1, <3>2, <3>3
  <2>4. P.journalOff <= 2 * Cardinality(P.inJournal) + 1 /\ Cardinality(P.inJournal) \in Nat /\ Cardinality(P.inJournal) <= MaxPage
    <3>1. P.eState = "cachemod" \/ P.needSync # {}
      BY <1>1, <1>4, <1>18 DEF Planned, Filling, Pending
    <3>2. P.inJournal \in SUBSET Pages
      BY <1>5, Fields
    <3> QED
      BY <1>7, <3>1, <3>2, Counts DEF Room
  <2>5. n \in Slots /\ n \in Nat /\ P.journalOff < MaxSlot /\ n <= MaxSlot /\ n >= 2
    <3>1. MaxPage \in Nat /\ MaxSlot \in Nat /\ MaxSlot >= 2 * MaxPage + 2
      BY Bounds
    <3> QED
      BY <1>4, <2>0, <2>4, <3>1 DEF Slots
  <2>6. x \in Slot /\ x.kind = "hdr" /\ x.init = P.stamp /\ x.n = 0 /\ x.magic = FALSE /\ ~HasMagic(x) /\ x.init <= txn + 1
    <3>1. P.stamp \in Inits
      <4>1. 1 \in 1..P.journalOff /\ 1 \in Slots
        BY <1>4 DEF Slots
      <4>2. jrnl.slots[1].init = P.stamp
        BY <1>7, <4>1 DEF Ours
      <4> QED
        BY <1>4, <1>7, <4>1, <4>2, SlotKinds
    <3>2. P.dbOrigSize \in Pages
      BY <1>5 DEF Sized
    <3>3. x \in Hdr
      BY <2>2, <3>1, <3>2, Bounds DEF Hdr, Header, Offsets
    <3> QED
      BY <1>4, <1>5, <2>2, <3>3 DEF Slot, Header, HasMagic
  <2>7. /\ JournalOK(jrnl') /\ jrnl'.exists /\ jrnl'.durable = q.durable /\ jrnl'.slots[n] = x
        /\ \A k \in Slots : k # n => jrnl'.slots[k] = q.slots[k] /\ (Firm(jrnl', k) <=> Firm(q, k)) /\ (Unmarked(jrnl', k) <=> Unmarked(q, k))
        /\ Unmarked(jrnl', n)
    <3>1. Unmarked(q, n)
      BY <1>12, <2>0, <2>5
    <3>4. JournalOK(q) /\ q.exists /\ n \in Slots /\ x \in Slot /\ jrnl' = Put(q, n, x)
      BY <1>10, <2>3, <2>5, <2>6
    <3>2. /\ JournalOK(jrnl') /\ jrnl'.exists = q.exists /\ jrnl'.durable = q.durable /\ jrnl'.slots[n] = x
          /\ \A k \in Slots : k # n => jrnl'.slots[k] = q.slots[k]
      <4>1. PutInto(jrnl', q, n, x)
        BY <3>4, PutsInto
      <4> QED
        BY <4>1 DEF PutInto
    <3>3. /\ \A k \in Slots : k # n => (Firm(jrnl', k) <=> Firm(q, k)) /\ (Unmarked(jrnl', k) <=> Unmarked(q, k))
          /\ Unmarked(jrnl', n)
      BY <1>10, <2>3, <2>5, <2>6, <3>1, PutMarks
    <3> QED
      BY <1>10, <3>2, <3>3
  <2>8. Dated(jrnl', txn)
    BY <1>10, <2>3, <2>5, <2>6, PutIs
  <2>9. /\ N \in Connection /\ N.at = "write" /\ N.needSync = {} /\ N.eState = "dbmod" /\ N.journalHdr = P.journalOff /\ N.own = n
        /\ N.cache = P.cache /\ N.dirty = P.dirty /\ N.inJournal = P.inJournal /\ N.dbFileVers = P.dbFileVers /\ N.dbSize = P.dbSize
        /\ N.dbOrigSize = P.dbOrigSize /\ N.stamp = P.stamp /\ N.journalOff = n /\ N.todo = P.todo /\ N.spilling = P.spilling
    <3>1. n \in Offsets
      BY <2>5 DEF Offsets
    <3> QED
      BY <1>5, <1>16, <2>1, <3>1 DEF Connection
  <2>10. N.eState \in Live /\ N.at \notin Rolling
    BY <2>9 DEF Live, Rolling
  <2>11. \A k \in 1..P.journalOff : k \in Slots /\ k # n /\ jrnl'.slots[k] = jrnl.slots[k]
    BY <1>4, <1>10, <1>11, <2>0, <2>7
  <2>12. /\ Recs(jrnl'.slots, n) = Recs(jrnl.slots, P.journalOff) /\ Recs(jrnl'.slots, P.journalOff) = Recs(jrnl.slots, P.journalOff)
         /\ \A i \in Recs(jrnl.slots, P.journalOff) : jrnl'.slots[i] = jrnl.slots[i] /\ i <= P.journalOff
    <3>1. \A i : i \in 1..n <=> i \in 1..P.journalOff \/ i = n
      BY <1>4, <2>0, <2>5
    <3> QED
      BY <2>6, <2>7, <2>11, <3>1 DEF Recs
  <2>13. Written(N, jrnl'.slots)
    <3>1. Placed(N)
      BY <1>7, <2>5, <2>9 DEF Placed
    <3>2. Ours(N, jrnl'.slots)
      <4>1. \A i \in 1..n : i \in 1..P.journalOff \/ i = n
        BY <1>4, <2>0, <2>5
      <4> QED
        BY <1>7, <2>6, <2>7, <2>9, <2>11, <4>1 DEF Ours
    <3>3. Left(N, jrnl'.slots)
      <4>1. \A i \in (n + 1)..MaxSlot : i \in (P.journalOff + 1)..MaxSlot /\ i \in Slots /\ i # n
        BY <1>4, <2>0, <2>5 DEF Slots
      <4> QED
        BY <1>7, <1>10, <2>7, <2>9, <4>1 DEF Left
    <3>4. Room(N)
      BY <2>0, <2>4, <1>4, <2>9 DEF Room
    <3>5. Recorded(N, jrnl'.slots)
      BY <1>7, <2>9, <2>12 DEF Recorded
    <3>6. Segment(N, jrnl'.slots)
      <4>1. ~\E i : i \in (n + 1)..n
        BY <2>5
      <4> QED
        BY <2>0, <2>5, <2>6, <2>7, <2>9, <4>1 DEF Segment
    <3>7. Ends(N, jrnl'.slots)
      BY <2>5, <2>6, <2>7, <2>9 DEF Ends, Counted
    <3>8. Reached(jrnl'.slots, 0, N.journalHdr)
      <4>1. P.journalOff \in 0..MaxSlot
        BY <1>4
      <4> QED
        BY <1>4, <1>8, <2>9, <2>11, <4>1, SameStart
    <3>9. jrnl'.slots[1] = jrnl.slots[1]
      BY <1>4, <2>11
    <3> QED
      BY <1>7, <2>9, <3>1, <3>2, <3>3, <3>4, <3>5, <3>6, <3>7, <3>8, <3>9 DEF Written
  <2>14. Stage(N, jrnl')
    <3>1. ~Counted(N, jrnl'.slots)
      BY <2>6, <2>7, <2>9 DEF Counted
    <3> QED
      BY <1>4, <1>10, <1>18, <2>5, <2>7, <2>9, <3>1 DEF Stage, Filling
  <2>15. Kept(N, jrnl'.slots, Image)
    BY <1>5, <2>9, <2>12 DEF Kept
  <2>16. Changed(N, db, Image)
    BY <1>4, <2>9, ChangedSynced
  <2>17. Planned(N, db, Image)
    <3>1. Touched(N) = Touched(P)
      BY <2>9, TouchedStill
    <3> QED
      BY <1>1, <1>4, <1>18, <2>9, <3>1 DEF Planned, Pending, Filling
  <2>18. Writes(N, jrnl', db, Image, txn)
    BY <1>5, <2>7, <2>9, <2>10, <2>13, <2>14, <2>15, <2>16, <2>17 DEF Writes
  <2>19. Locks(N, held[c])
    BY <1>4, <1>5, <2>9 DEF Locks, Filling, Live
  <2>20. ASSUME sound
         PROVE  FirmWriter(N, jrnl', db, dbDisk)
    <3>1. \A k \in 1..N.journalHdr : Firm(jrnl', k)
      BY <1>10, <2>7, <2>9, <2>11
    <3>2. \A p \in Pages : dbDisk[p] = {db[p]} \/ p > P.dbOrigSize \/ \E i \in Recs(jrnl'.slots, N.journalHdr) : jrnl'.slots[i].pg = p
      BY <1>13, <2>9, <2>12, <2>20
    <3> QED
      BY <2>5, <2>7, <2>9, <3>1, <3>2 DEF FirmWriter, Rolling
  <2>21. IInv' /\ Image' = Image /\ pager'[c] = N
    BY <1>4, <1>14, <1>15, <2>3, <2>7, <2>8, <2>9, <2>10, <2>18, <2>19, <2>20, WriterStep
  <2> QED
    BY <1>0, <1>4, <2>10, <2>21
<1> QED
  BY <1>17, <1>18

-----------------------------------------------------------------------------
(* Writing a page.                                                         *)

\* N is P after page p got a new content; new says that the page is journaled.
MarksPage(P, N, p, val, new) ==
  /\ N.eState = P.eState /\ N.dbOrigSize = P.dbOrigSize /\ N.journalHdr = P.journalHdr /\ N.own = P.own /\ N.stamp = P.stamp
  /\ N.dbFileVers = P.dbFileVers
  /\ N.cache[p] = val /\ \A q \in Pages : q # p => N.cache[q] = P.cache[q]
  /\ N.dirty = P.dirty \union {p}
  /\ P.needSync \subseteq N.needSync /\ N.needSync \subseteq P.needSync \union {p}
  /\ new => N.inJournal = P.inJournal \union {p} /\ N.journalOff = P.journalOff + 1 /\ p \in N.needSync
  /\ ~new => /\ N.inJournal = P.inJournal /\ N.journalOff = P.journalOff
             /\ p <= P.dbOrigSize \/ P.eState = "dbmod" => N.needSync = P.needSync
  /\ p > P.dbSize => N.dbSize = p
  /\ ~(p > P.dbSize) => N.dbSize = P.dbSize

LEMMA MarkedTouches ==
  ASSUME NEW P \in Connection, NEW N, NEW p \in Pages, NEW val, NEW new \in BOOLEAN, MarksPage(P, N, p, val, new),
         p <= P.dbSize + 1, new <=> p <= P.dbOrigSize /\ p \notin P.inJournal, P.dbSize >= P.dbOrigSize
  PROVE  Touched(N) = Touched(P) \union {p} /\ \A I : \A q \in Pages : q # p => Target(N, I, q) = Target(P, I, q)
<1>1. P.dbSize \in Nat /\ P.dbOrigSize \in Nat /\ Pages \subseteq Nat /\ p \in Nat
  BY Fields, Bounds
<1>2. N.dbOrigSize = P.dbOrigSize /\ N.stamp = P.stamp
  BY DEF MarksPage
<1>3. ASSUME NEW q \in Pages
      PROVE  P.dbOrigSize < q /\ q <= N.dbSize <=> (P.dbOrigSize < q /\ q <= P.dbSize) \/ (q = p /\ P.dbOrigSize < p)
  <2>1. q \in Nat
    BY <1>1
  <2> QED
    BY <1>1, <2>1 DEF MarksPage
<1>4. N.inJournal = IF new THEN P.inJournal \union {p} ELSE P.inJournal
  BY DEF MarksPage
<1>5. Touched(N) = Touched(P) \union {p}
  <2>1. ~new => p > P.dbOrigSize \/ p \in P.inJournal
    BY <1>1
  <2>2. new => p <= P.dbOrigSize
    OBVIOUS
  <2>3. ASSUME NEW q
        PROVE  q \in Touched(N) <=> q \in Touched(P) \/ q = p
    <3>1. q \in Touched(N) <=> q \in N.inJournal \/ (q \in Pages /\ P.dbOrigSize < q /\ q <= N.dbSize)
      BY <1>2 DEF Touched
    <3>2. q \in Touched(P) <=> q \in P.inJournal \/ (q \in Pages /\ P.dbOrigSize < q /\ q <= P.dbSize)
      BY DEF Touched
    <3>3. q \in Pages /\ P.dbOrigSize < q /\ q <= N.dbSize <=> (q \in Pages /\ P.dbOrigSize < q /\ q <= P.dbSize) \/ (q = p /\ P.dbOrigSize < p)
      BY <1>3
    <3>4. CASE new
      <4>1. ~(P.dbOrigSize < p)
        BY <1>1, <2>2, <3>4
      <4> QED
        BY <1>4, <3>1, <3>2, <3>3, <3>4, <4>1
    <3>5. CASE ~new
      <4>1. P.dbOrigSize < p \/ p \in P.inJournal
        BY <1>1, <2>1, <3>5
      <4> QED
        BY <1>4, <3>1, <3>2, <3>3, <3>5, <4>1
    <3> QED
      BY <3>4, <3>5
  <2> QED
    BY <2>3
<1> QED
  BY <1>2, <1>5 DEF Target

LEMMA MarkedChanged ==
  ASSUME NEW P \in Connection, NEW N, NEW p \in Pages, NEW val, NEW new \in BOOLEAN, MarksPage(P, N, p, val, new),
         p <= P.dbSize + 1, new <=> p <= P.dbOrigSize /\ p \notin P.inJournal,
         NEW f, NEW I, Changed(P, f, I), val = IF p = 1 THEN I[1] + 1 ELSE P.stamp, val # NotCached
  PROVE  Changed(N, f, I) /\ p \in Touched(N)
<1>0. P.dbSize \in Nat /\ P.dbOrigSize \in Nat /\ Pages \subseteq Nat /\ p \in Nat
  BY Fields, Bounds
<1>1. /\ P.dbSize >= P.dbOrigSize /\ P.dirty \subseteq Touched(P)
      /\ \A q \in Pages : PageOK(P, f, I, q)
      /\ P.eState = "cachemod" => f = I
      /\ P.cache[1] # NotCached /\ P.dbFileVers = f[1]
  BY DEF Changed
<1>2. Touched(N) = Touched(P) \union {p} /\ \A q \in Pages : q # p => Target(N, I, q) = Target(P, I, q)
  BY <1>1, MarkedTouches
<1>3. Target(N, I, p) = val
  <2>1. N.stamp = P.stamp
    BY DEF MarksPage
  <2> QED
    BY <1>2, <2>1 DEF Target
<1>4. \A q \in Pages : PageOK(N, f, I, q)
  <2>1. ASSUME NEW q \in Pages, q # p
        PROVE  PageOK(N, f, I, q)
    <3>1. N.cache[q] = P.cache[q] /\ (q \in N.dirty <=> q \in P.dirty) /\ (q \in N.needSync <=> q \in P.needSync) /\ N.dbOrigSize = P.dbOrigSize
      BY <2>1 DEF MarksPage
    <3>2. PageOK(P, f, I, q) /\ Target(N, I, q) = Target(P, I, q)
      BY <1>1, <1>2, <2>1
    <3> QED
      BY <3>1, <3>2 DEF PageOK
  <2>2. PageOK(N, f, I, p)
    <3>1. N.cache[p] = val /\ p \in N.dirty /\ N.dbOrigSize = P.dbOrigSize
      BY DEF MarksPage
    <3>2. PageOK(P, f, I, p)
      BY <1>1
    <3>3. p \in Touched(P) => Target(P, I, p) = val
      BY DEF Target
    <3>4. p \notin Touched(P) => f[p] = I[p]
      BY <3>2 DEF PageOK, Target
    <3>5. f[p] \in {I[p], val}
      BY <3>2, <3>3, <3>4 DEF PageOK
    <3>6. ASSUME p <= P.dbOrigSize, f[p] # I[p]
          PROVE  p \notin N.needSync
      <4>1. p \in Touched(P) /\ p \notin P.needSync
        BY <3>2, <3>4, <3>6 DEF PageOK
      <4>2. p \in P.inJournal
        BY <1>0, <3>6, <4>1 DEF Touched
      <4>3. N.needSync = P.needSync
        BY <3>6, <4>2 DEF MarksPage
      <4> QED
        BY <4>1, <4>3
    <3> QED
      BY <1>3, <3>1, <3>5, <3>6 DEF PageOK
  <2> QED
    BY <2>1, <2>2
<1>5. N.dbSize >= N.dbOrigSize
  BY <1>0, <1>1 DEF MarksPage
<1>6. N.dirty \subseteq Touched(N)
  BY <1>1, <1>2 DEF MarksPage
<1>7. N.cache[1] # NotCached
  <2>1. 1 \in Pages
    BY PagerAssumption DEF Pages
  <2> QED
    BY <1>1, <2>1 DEF MarksPage
<1>8. N.eState = P.eState /\ N.dbFileVers = P.dbFileVers
  BY DEF MarksPage
<1> QED
  BY <1>1, <1>2, <1>4, <1>5, <1>6, <1>7, <1>8 DEF Changed

\* The journal then, with a record of the page if it is new to it.
LEMMA MarkedWritten ==
  ASSUME NEW P \in Connection, NEW N, NEW p \in Pages, NEW val, NEW new \in BOOLEAN, MarksPage(P, N, p, val, new),
         p <= P.dbSize + 1, new <=> p <= P.dbOrigSize /\ p \notin P.inJournal,
         NEW j, JournalOK(j), j.exists, NEW f, NEW I, NEW t \in Nat, Solid(I, t), t <= MaxTxn,
         Written(P, j.slots), Stage(P, j), Kept(P, j.slots, I), Dated(j, t), P.stamp = t + 1,
         P.eState \in {"cachemod", "dbmod"}, P.at = "idle", N.at \in {"idle", "lock"},
         NEW q, new => q = Put(j, P.journalOff + 1, Record(p, I[p], P.stamp)), ~new => q = j
  PROVE  /\ JournalOK(q) /\ q.exists /\ Dated(q, t) /\ q.slots[1] = j.slots[1]
         /\ Written(N, q.slots) /\ Stage(N, q) /\ Kept(N, q.slots, I) /\ N.journalOff \in Slots
         /\ \A doubts : FirmWriter(P, j, f, doubts) => FirmWriter(N, q, f, doubts)
<1>0. j.slots \in [Slots -> Slot] /\ MaxSlot \in Nat /\ Pages \subseteq Nat /\ MaxPage \in Nat /\ MaxSlot >= 2 * MaxPage + 2
  BY Bounds DEF JournalOK, Journal
<1>1. /\ P.journalOff \in Slots /\ P.journalOff \in Nat /\ P.journalOff >= 1 /\ P.journalOff <= MaxSlot
      /\ P.journalHdr \in Nat /\ P.own \in Nat /\ P.stamp \in Nat
  BY WrittenFields
<1>2. /\ Placed(P) /\ Room(P) /\ j.slots[1].kind = "hdr" /\ j.slots[1].orig = P.dbOrigSize
      /\ Ours(P, j.slots) /\ Recorded(P, j.slots) /\ Left(P, j.slots)
      /\ Reached(j.slots, 0, P.journalHdr) /\ Segment(P, j.slots)
  BY DEF Written
<1>3. P.own # 0 /\ ~Counted(P, j.slots) /\ (P.eState = "cachemod" <=> P.journalHdr = 0) /\ (P.journalHdr # 0 => j.durable)
  BY DEF Stage, Filling, Rolling
<1>4. P.own \in 1..P.journalOff /\ P.own = P.journalHdr + 1 /\ P.journalHdr < P.journalOff /\ ~j.slots[P.own].magic
  BY <1>1, <1>2, <1>3 DEF Segment, Counted
<1>5. /\ N.eState = P.eState /\ N.dbOrigSize = P.dbOrigSize /\ N.journalHdr = P.journalHdr /\ N.own = P.own /\ N.stamp = P.stamp
      /\ P.needSync \subseteq N.needSync /\ P.inJournal \subseteq Pages
  BY Fields DEF MarksPage
<1>6. CASE ~new
  <2>1. q = j /\ N.inJournal = P.inJournal /\ N.journalOff = P.journalOff /\ (P.eState = "dbmod" => N.needSync = P.needSync)
    BY <1>6 DEF MarksPage
  <2>2. Written(N, q.slots)
    <3>1. Placed(N) /\ Room(N)
      BY <1>2, <1>5, <2>1 DEF Placed, Room
    <3>2. Ours(N, q.slots) /\ Recorded(N, q.slots) /\ Left(N, q.slots)
      BY <1>2, <1>5, <2>1 DEF Ours, Recorded, Left
    <3>3. Segment(N, q.slots)
      BY <1>2, <1>5, <2>1 DEF Segment
    <3>4. Ends(N, q.slots)
      BY <1>3, <1>5, <2>1 DEF Ends, Counted
    <3> QED
      BY <1>2, <1>5, <2>1, <3>1, <3>2, <3>3, <3>4 DEF Written
  <2>3. Stage(N, q)
    <3>1. ~Counted(N, q.slots)
      BY <1>3, <1>5, <2>1 DEF Counted
    <3> QED
      BY <1>3, <1>5, <2>1, <3>1 DEF Stage, Filling
  <2>4. Kept(N, q.slots, I)
    BY <2>1 DEF Kept
  <2>5. \A doubts : FirmWriter(P, j, f, doubts) => FirmWriter(N, q, f, doubts)
    BY <1>3, <1>5, <2>1 DEF FirmWriter, Rolling
  <2> QED
    BY <1>1, <2>1, <2>2, <2>3, <2>4, <2>5
<1>7. CASE new
  <2>1. PICK n : n = P.journalOff + 1
    OBVIOUS
  <2>2. PICK x : x = Record(p, I[p], P.stamp)
    OBVIOUS
  <2>3. N.inJournal = P.inJournal \union {p} /\ N.journalOff = n /\ p \in N.needSync /\ p \notin P.inJournal /\ p <= P.dbOrigSize
    BY <1>7, <2>1 DEF MarksPage
  <2>4. /\ Cardinality(P.inJournal) \in Nat /\ Cardinality(N.inJournal) = Cardinality(P.inJournal) + 1 /\ Cardinality(N.inJournal) <= MaxPage
        /\ P.journalOff <= 2 * Cardinality(P.inJournal) + 2
    <3>1. P.inJournal \in SUBSET Pages
      BY <1>5
    <3>2. Cardinality(P.inJournal) \in Nat /\ Cardinality(N.inJournal) = Cardinality(P.inJournal) + 1 /\ Cardinality(N.inJournal) <= MaxPage
      BY <2>3, <3>1, Counts
    <3> QED
      BY <1>1, <1>2, <3>2 DEF Room
  <2>5. n \in Slots /\ n \in Nat /\ n <= MaxSlot /\ n >= 2 /\ n <= 2 * Cardinality(N.inJournal) + 1
    <3>1. PICK k : k = Cardinality(P.inJournal)
      OBVIOUS
    <3>2. k \in Nat /\ k + 1 <= MaxPage /\ P.journalOff <= 2 * k + 2 /\ Cardinality(N.inJournal) = k + 1
      BY <2>4, <3>1
    <3>3. n \in Nat /\ n <= MaxSlot /\ n >= 2 /\ n <= 2 * (k + 1) + 1
      BY <1>0, <1>1, <2>1, <3>2
    <3> QED
      BY <1>0, <3>2, <3>3 DEF Slots
  <2>6. x \in Slot /\ x.kind = "rec" /\ x.pg = p /\ x.val = I[p] /\ x.init = P.stamp /\ ~HasMagic(x)
    <3>1. P.stamp \in Inits
      <4>1. 1 \in 1..P.journalOff /\ 1 \in Slots
        BY <1>1, Bounds
      <4>2. j.slots[1].init = P.stamp
        BY <1>2, <4>1 DEF Ours
      <4> QED
        BY <1>0, <1>2, <4>1, <4>2, SlotKinds
    <3>2. I[p] \in Values
      <4>1. I[p] \in Nat /\ I[p] <= t + 1
        BY StampsAre
      <4> QED
        BY <4>1, Bounds DEF Values
    <3>3. x \in Rec
      BY <2>2, <3>1, <3>2 DEF Rec, Record
    <3> QED
      BY <2>2, <3>3 DEF Record, Slot, HasMagic, IsHeader
  <2>7. q = Put(j, n, x)
    BY <1>7, <2>1, <2>2
  <2>8. PutInto(q, j, n, x) /\ Dated(q, t)
    <3>1. x.init <= t + 1
      BY <1>1, <2>6
    <3> QED
      BY <2>5, <2>6, <2>7, <3>1, PutsInto
  <2>9. /\ JournalOK(q) /\ q.exists /\ q.durable = j.durable /\ q.slots[n] = x
        /\ \A k \in Slots : k # n => q.slots[k] = j.slots[k]
    BY <2>8 DEF PutInto
  <2>10. \A k \in 1..P.journalOff : k \in Slots /\ k # n /\ q.slots[k] = j.slots[k]
    <3>1. \A k \in 1..P.journalOff : k \in Slots /\ k # n
      BY <1>0, <1>1, <2>1 DEF Slots
    <3> QED
      BY <2>9, <3>1
  <2>11. /\ Recs(q.slots, n) = Recs(j.slots, P.journalOff) \union {n}
         /\ \A i \in Recs(j.slots, P.journalOff) : q.slots[i] = j.slots[i] /\ i <= P.journalOff
         /\ Recs(q.slots, P.journalHdr) = Recs(j.slots, P.journalHdr)
         /\ \A i \in Recs(j.slots, P.journalHdr) : q.slots[i] = j.slots[i]
    <3>1. \A i : i \in 1..n <=> i \in 1..P.journalOff \/ i = n
      BY <1>1, <2>1, <2>5
    <3>2. \A i \in 1..P.journalHdr : i \in 1..P.journalOff
      BY <1>1, <1>4
    <3> QED
      BY <2>6, <2>9, <2>10, <3>1, <3>2 DEF Recs
  <2>12. Written(N, q.slots)
    <3>1. Placed(N)
      <4>1. p \in 1..P.dbOrigSize
        <5>1. p \in Nat /\ p >= 1 /\ P.dbOrigSize \in Nat
          BY <1>0, Fields DEF Pages
        <5> QED
          BY <2>3, <5>1
      <4> QED
        BY <1>2, <1>5, <2>3, <2>5, <4>1 DEF Placed
    <3>2. Room(N)
      BY <1>5, <2>3, <2>4, <2>5 DEF Room
    <3>3. Ours(N, q.slots)
      <4>1. \A i \in 1..n : i \in 1..P.journalOff \/ i = n
        BY <1>1, <2>1, <2>5
      <4> QED
        BY <1>2, <1>5, <2>3, <2>6, <2>9, <2>10, <4>1 DEF Ours
    <3>4. Recorded(N, q.slots)
      <4>1. ASSUME NEW r \in P.inJournal
            PROVE  \E i \in Recs(q.slots, n) : q.slots[i].pg = r /\ (r \notin N.needSync => i <= P.journalHdr)
        <5>1. PICK i \in Recs(j.slots, P.journalOff) : j.slots[i].pg = r /\ (r \notin P.needSync => i <= P.journalHdr)
          BY <1>2 DEF Recorded
        <5> QED
          BY <1>5, <2>11, <5>1
      <4>2. n \in Recs(q.slots, n) /\ q.slots[n].pg = p
        BY <2>6, <2>9, <2>11
      <4> QED
        BY <1>5, <2>3, <4>1, <4>2 DEF Recorded
    <3>5. Left(N, q.slots)
      <4>1. \A i \in (n + 1)..MaxSlot : i \in (P.journalOff + 1)..MaxSlot /\ i \in Slots /\ i # n
        BY <1>0, <1>1, <2>1, <2>5 DEF Slots
      <4> QED
        BY <1>2, <1>5, <2>3, <2>9, <4>1 DEF Left
    <3>6. Segment(N, q.slots)
      <4>1. q.slots[P.own] = j.slots[P.own] /\ P.own <= n
        BY <1>1, <1>4, <2>1, <2>10
      <4>2. \A i \in (P.own + 1)..n : i = n \/ (i \in (P.own + 1)..P.journalOff /\ i \in 1..P.journalOff)
        BY <1>1, <1>4, <2>1, <2>5
      <4>3. \A i \in (P.own + 1)..n : q.slots[i].kind = "rec"
        BY <1>2, <1>3, <2>6, <2>9, <2>10, <4>2 DEF Segment
      <4> QED
        BY <1>2, <1>3, <1>4, <1>5, <2>3, <4>1, <4>3 DEF Segment
    <3>7. Ends(N, q.slots)
      <4>1. q.slots[P.own] = j.slots[P.own]
        BY <1>4, <2>10
      <4> QED
        BY <1>3, <1>4, <1>5, <4>1 DEF Ends, Counted
    <3>8. Reached(q.slots, 0, N.journalHdr)
      <4>1. P.journalHdr \in 0..MaxSlot /\ \A k \in 1..P.journalHdr : k \in 1..P.journalOff
        BY <1>0, <1>1, <1>4
      <4> QED
        BY <1>0, <1>2, <1>5, <2>10, <4>1, SameStart
    <3>9. q.slots[1] = j.slots[1]
      BY <1>1, <2>10
    <3> QED
      BY <1>2, <1>5, <3>1, <3>2, <3>3, <3>4, <3>5, <3>6, <3>7, <3>8, <3>9 DEF Written
  <2>13. ~Counted(N, q.slots)
    BY <1>3, <1>4, <1>5, <2>10 DEF Counted
  <2>14. Stage(N, q)
    BY <1>3, <1>5, <2>9, <2>13 DEF Stage, Filling
  <2>15. Kept(N, q.slots, I)
    BY <2>3, <2>6, <2>9, <2>11 DEF Kept
  <2>16. ASSUME NEW doubts, FirmWriter(P, j, f, doubts)
         PROVE  FirmWriter(N, q, f, doubts)
    <3>1. /\ \A k \in Slots : k # n => (Firm(q, k) <=> Firm(j, k)) /\ (Unmarked(q, k) <=> Unmarked(j, k))
      BY <2>8 DEF PutInto, Firm, Unmarked
    <3>2. \A k \in 1..P.journalHdr : k \in 1..P.journalOff
      BY <1>1, <1>4
    <3>3. P.own \in Slots /\ P.own # n
      BY <1>4, <2>10
    <3>4. \A k \in 1..N.journalHdr : Firm(q, k)
      BY <1>5, <2>10, <2>16, <3>1, <3>2 DEF FirmWriter, Live
    <3>5. Unmarked(q, N.own)
      BY <1>3, <1>5, <2>16, <3>1, <3>3 DEF FirmWriter, Live
    <3>6. \A r \in Pages : doubts[r] = {f[r]} \/ r > N.dbOrigSize \/ \E i \in Recs(q.slots, N.journalHdr) : q.slots[i].pg = r
      BY <1>5, <2>11, <2>16 DEF FirmWriter, Live
    <3>7. N.eState = "cachemod" => Certain(f, doubts)
      BY <1>5, <2>16 DEF FirmWriter, Live
    <3> QED
      BY <1>3, <1>5, <3>4, <3>5, <3>6, <3>7 DEF FirmWriter, Rolling
  <2>17. q.slots[1] = j.slots[1]
    BY <1>1, <2>10
  <2> QED
    BY <2>3, <2>5, <2>8, <2>9, <2>12, <2>14, <2>15, <2>16, <2>17
<1> QED
  BY <1>6, <1>7

LEMMA MarkedIs ==
  ASSUME NEW c, NEW P \in Connection, NEW p \in Pages, NEW val \in Values, NEW N, N = Marked(c, P, p, val),
         NEW new \in BOOLEAN, new <=> Journaled(c, P, p), new => P.journalOff + 1 \in Offsets
  PROVE  N \in Connection /\ MarksPage(P, N, p, val, new) /\ N.at = P.at /\ N.todo = P.todo /\ N.spilling = P.spilling
<1>1. /\ P.cache \in [Pages -> Cached] /\ P.dirty \subseteq Pages /\ P.needSync \subseteq Pages /\ P.inJournal \subseteq Pages
      /\ P.journalOff \in Offsets /\ P.dbSize \in Sizes
  BY Fields
<1>2. PICK C : C = [P.cache EXCEPT ![p] = val]
  OBVIOUS
<1>3. C \in [Pages -> Cached] /\ C[p] = val /\ \A q \in Pages : q # p => C[q] = P.cache[q]
  BY <1>1, <1>2 DEF Cached
<1>4. PICK J : J = IF new THEN P.inJournal \union {p} ELSE P.inJournal
  OBVIOUS
<1>5. PICK o : o = IF new THEN P.journalOff + 1 ELSE P.journalOff
  OBVIOUS
<1>6. PICK S : S = IF new \/ (p > P.dbOrigSize /\ P.eState # "dbmod") THEN P.needSync \union {p} ELSE P.needSync
  OBVIOUS
<1>7. PICK n : n = IF p > P.dbSize THEN p ELSE P.dbSize
  OBVIOUS
<1>8. PICK D : D = P.dirty \union {p}
  OBVIOUS
<1>9. J \subseteq Pages /\ o \in Offsets /\ S \subseteq Pages /\ n \in Sizes /\ D \subseteq Pages
  <2>1. p \in Sizes
    BY Bounds DEF Sizes, Pages
  <2> QED
    BY <1>1, <1>4, <1>5, <1>6, <1>7, <1>8, <2>1
<1>10. N = [P EXCEPT !.cache = C, !.dirty = D, !.inJournal = J, !.journalOff = o, !.needSync = S, !.dbSize = n]
  BY <1>2, <1>4, <1>5, <1>6, <1>7, <1>8 DEF Marked
<1>11. /\ N \in Connection /\ N.cache = C /\ N.dirty = D /\ N.inJournal = J /\ N.journalOff = o /\ N.needSync = S /\ N.dbSize = n
       /\ N.eState = P.eState /\ N.dbOrigSize = P.dbOrigSize /\ N.journalHdr = P.journalHdr /\ N.own = P.own /\ N.stamp = P.stamp
       /\ N.dbFileVers = P.dbFileVers /\ N.at = P.at /\ N.todo = P.todo /\ N.spilling = P.spilling
  <2>1. PICK M : M = [P EXCEPT !.cache = C, !.dirty = D, !.inJournal = J]
    OBVIOUS
  <2>2. /\ M \in Connection /\ M.cache = C /\ M.dirty = D /\ M.inJournal = J
        /\ M.eState = P.eState /\ M.dbOrigSize = P.dbOrigSize /\ M.journalHdr = P.journalHdr /\ M.own = P.own /\ M.stamp = P.stamp
        /\ M.dbFileVers = P.dbFileVers /\ M.at = P.at /\ M.todo = P.todo /\ M.spilling = P.spilling
    BY <1>3, <1>9, <2>1 DEF Connection
  <2>3. N = [M EXCEPT !.journalOff = o, !.needSync = S, !.dbSize = n]
    BY <1>10, <2>1 DEF Connection
  <2>4. /\ N \in Connection /\ N.journalOff = o /\ N.needSync = S /\ N.dbSize = n
        /\ N.cache = M.cache /\ N.dirty = M.dirty /\ N.inJournal = M.inJournal
        /\ N.eState = M.eState /\ N.dbOrigSize = M.dbOrigSize /\ N.journalHdr = M.journalHdr /\ N.own = M.own /\ N.stamp = M.stamp
        /\ N.dbFileVers = M.dbFileVers /\ N.at = M.at /\ N.todo = M.todo /\ N.spilling = M.spilling
    BY <1>9, <2>2, <2>3 DEF Connection
  <2> QED
    BY <2>2, <2>4
<1>12. p \in Nat /\ P.dbOrigSize \in Nat
  BY Fields, Bounds
<1>13. p <= P.dbOrigSize \/ P.eState = "dbmod" => ~(p > P.dbOrigSize /\ P.eState # "dbmod")
  BY <1>12
<1>14. MarksPage(P, N, p, val, new)
  BY <1>3, <1>4, <1>5, <1>6, <1>7, <1>8, <1>11, <1>13 DEF MarksPage
<1> QED
  BY <1>11, <1>14

\* Room for one more record.
LEMMA RoomFor ==
  ASSUME NEW P \in Connection, Placed(P), Room(P), NEW p \in Pages, p \notin P.inJournal
  PROVE  P.journalOff + 1 \in Offsets
<1>1. MaxPage \in Nat /\ MaxSlot \in Nat /\ MaxSlot >= 2 * MaxPage + 2
  BY Bounds
<1>2. P.inJournal \in SUBSET Pages /\ P.journalOff \in Nat
  BY Fields
<1>3. PICK k : k = Cardinality(P.inJournal)
  OBVIOUS
<1>4. k \in Nat /\ k + 1 <= MaxPage
  BY <1>2, <1>3, Counts
<1>5. P.journalOff <= 2 * k + 2
  BY <1>2, <1>3, <1>4 DEF Room
<1>6. P.journalOff + 1 \in 0..MaxSlot
  BY <1>1, <1>2, <1>4, <1>5
<1> QED
  BY <1>6 DEF Offsets

\* The content that is journaled is that of the image.
LEMMA ContentIs ==
  ASSUME NEW c \in Conns, NEW P, P.cache = pager[c].cache, NEW I, Changed(P, db, I), NEW p \in Pages, p \notin P.inJournal, p <= P.dbOrigSize,
         P.dbOrigSize \in Nat
  PROVE  Content(c, p) = I[p]
<1>1. p \in Nat /\ PageOK(P, db, I, p)
  BY Bounds DEF Changed
<1>2. p \notin Touched(P)
  BY <1>1 DEF Touched
<1>3. Target(P, I, p) = I[p]
  BY <1>2 DEF Target
<1>4. P.cache[p] \in {NotCached, I[p]} /\ db[p] = I[p]
  BY <1>1, <1>3 DEF PageOK
<1> QED
  BY <1>4 DEF Content

\* pager_open_journal leaves a writer that has written nothing.
LEMMA OpenedOK ==
  ASSUME IInv, NEW c \in Conns, pager[c].eState = "locked", txn < TxnsIn[mode], NEW P, P = Opened(pager[c]),
         NEW j, j = OpenJournal(P)
  PROVE  /\ P \in Connection /\ P.eState = "cachemod" /\ P.at = "idle" /\ P.cache = pager[c].cache /\ P.dirty = {} /\ P.inJournal = {}
         /\ JournalOK(j) /\ j.exists /\ ~IsHot(j) /\ Dated(j, txn + 1)
         /\ Writes(P, j, db, Image, txn + 1)
         /\ P.todo = {} /\ P.spilling = FALSE /\ held[c] = {"shared", "reserved"}
         /\ sound => FirmWriter(P, j, db, dbDisk)
<1>0. Typed /\ Files /\ txn \in Nat /\ txn + 1 <= MaxTxn /\ MaxTxn \in Nat
  <2>1. Typed /\ Files
    BY DEF IInv
  <2> QED
    BY <2>1, TxnFacts
<1>1. PICK R : R = pager[c]
  OBVIOUS
<1>2. PICK I : I = Image
  OBVIOUS
<1>3. R \in Connection /\ Known(R, held[c], jrnl, db, I, txn) /\ R.eState = "locked"
  BY <1>1, <1>2, Connected
<1>4. /\ R.dbFileVers = I[1] /\ R.cache[1] # NotCached /\ Sized(I, R.dbSize) /\ Fits(R, I) /\ R.dbOrigSize = R.dbSize
      /\ R.at = "idle" /\ held[c] = {"shared", "reserved"} /\ ~IsHot(jrnl)
      /\ R.dirty = {} /\ R.needSync = {} /\ R.inJournal = {} /\ ~R.spilling /\ R.todo = {}
  BY <1>3 DEF Known, Knows, Locks, Passed, Resting, Live
<1>5. db = I
  BY <1>2, <1>4, ImageIs, Cold
<1>6. Solid(I, txn) /\ I[1] \in Nat /\ I[1] <= txn + 1
  <2>1. Solid(I, txn)
    BY <1>0, <1>2 DEF Files
  <2> QED
    BY <1>0, <2>1, StampsAre
<1>7. P = [R EXCEPT !.eState = "cachemod", !.stamp = txn + 2, !.journalHdr = 0, !.journalOff = 1, !.own = 1]
  BY <1>1 DEF Opened
<1>8. /\ P \in Connection /\ P.eState = "cachemod" /\ P.stamp = txn + 2 /\ P.journalHdr = 0 /\ P.journalOff = 1 /\ P.own = 1
      /\ P.at = R.at /\ P.cache = R.cache /\ P.dirty = R.dirty /\ P.needSync = R.needSync /\ P.inJournal = R.inJournal
      /\ P.dbFileVers = R.dbFileVers /\ P.dbSize = R.dbSize /\ P.dbOrigSize = R.dbOrigSize /\ P.todo = R.todo /\ P.spilling = R.spilling
  <2>1. txn + 2 \in Stamps /\ 0 \in Offsets /\ 1 \in Offsets /\ "cachemod" \in States
    BY <1>0, Bounds DEF Stamps, Offsets, States
  <2> QED
    BY <1>3, <1>7, <2>1 DEF Connection
<1>9. P.spilling = FALSE
  BY <1>4, <1>8, Fields
<1>10. PICK h : h = Header(FALSE, 0, P.dbOrigSize, txn + 2)
  OBVIOUS
<1>11. h \in Slot /\ h.kind = "hdr" /\ h.init = txn + 2 /\ h.orig = P.dbOrigSize /\ h.magic = FALSE /\ h.n = 0 /\ ~HasMagic(h)
  <2>1. txn + 2 \in Inits /\ 0 \in Offsets /\ P.dbOrigSize \in Pages
    BY <1>0, <1>4, <1>8, Bounds DEF Inits, Offsets, Sized
  <2>2. h \in Hdr
    BY <1>10, <2>1 DEF Hdr, Header
  <2> QED
    BY <1>10, <2>2 DEF Header, Slot, HasMagic
<1>12. PICK e : e = [jrnl EXCEPT !.exists = TRUE]
  OBVIOUS
<1>13. JournalOK(jrnl) /\ Dated(jrnl, txn) /\ jrnl \in Journal
  BY <1>0 DEF Typed, Files, JournalOK
<1>14. /\ e \in Journal /\ e.exists = TRUE /\ e.slots = jrnl.slots /\ e.disk = jrnl.disk /\ e.durable = jrnl.durable
  BY <1>12, <1>13 DEF Journal
<1>15. JournalOK(e) /\ Dated(e, txn) /\ Dated(e, txn + 1)
  <2>1. JournalOK(e) /\ Dated(e, txn)
    BY <1>13, <1>14 DEF JournalOK, Dated
  <2>2. txn \in Nat /\ txn + 1 \in Nat /\ txn <= txn + 1
    BY <1>0
  <2>3. PICK u : u = txn + 1
    OBVIOUS
  <2>4. PICK v : v = txn
    OBVIOUS
  <2>5. Dated(e, u)
    BY <1>14, <2>1, <2>2, <2>3, <2>4, Later
  <2> QED
    BY <2>1, <2>3, <2>5
<1>16. 1 \in Slots /\ MaxSlot \in Nat
  BY Bounds
<1>17. j = Put(e, 1, h)
  BY <1>10, <1>12 DEF OpenJournal
<1>18. PutInto(j, e, 1, h) /\ Dated(j, txn + 1)
  <2>1. h.init <= (txn + 1) + 1
    BY <1>0, <1>11
  <2> QED
    BY <1>11, <1>14, <1>15, <1>16, <1>17, <2>1, PutsInto
<1>19. /\ JournalOK(j) /\ j.exists = TRUE /\ j.slots[1] = h /\ j.disk[1] = jrnl.disk[1] \union {h}
       /\ \A i \in Slots : i # 1 => j.slots[i] = jrnl.slots[i]
  BY <1>14, <1>18 DEF PutInto
<1>20. ~IsHot(j)
  BY <1>11, <1>19 DEF IsHot
<1>21. Recs(j.slots, 1) = {} /\ P.inJournal = {}
  BY <1>4, <1>8, <1>11, <1>19 DEF Recs
<1>22. Written(P, j.slots)
  <2>1. Placed(P)
    BY <1>4, <1>8, <1>16 DEF Placed
  <2>2. Room(P)
    <3>1. Cardinality(P.inJournal) \in Nat
      BY <1>8, Fields, Counts
    <3> QED
      BY <1>8, <3>1 DEF Room
  <2>3. Ours(P, j.slots)
    BY <1>8, <1>11, <1>19 DEF Ours
  <2>4. Recorded(P, j.slots)
    BY <1>21 DEF Recorded
  <2>5. Left(P, j.slots)
    <3>1. ASSUME NEW i \in (1 + 1)..MaxSlot, j.slots[i].kind \in {"hdr", "rec"}
          PROVE  j.slots[i].init # txn + 2
      <4>1. i \in Slots /\ i # 1
        BY <1>16 DEF Slots
      <4>2. jrnl.slots[i] \in jrnl.disk[i] /\ j.slots[i] = jrnl.slots[i] /\ jrnl.slots[i] \in Slot
        BY <1>13, <1>19, <4>1 DEF JournalOK, Journal
      <4>3. j.slots[i].init <= txn + 1
        BY <1>13, <3>1, <4>1, <4>2 DEF Dated
      <4>4. j.slots[i].init \in Nat
        BY <3>1, <4>2, SlotKinds, Bounds DEF Inits
      <4> QED
        BY <1>0, <4>3, <4>4
    <3> QED
      BY <1>8, <3>1 DEF Left
  <2>6. Reached(j.slots, 0, P.journalHdr)
    BY <1>8 DEF Reached
  <2>7. Segment(P, j.slots)
    <3>1. ~\E i : i \in (1 + 1)..1
      OBVIOUS
    <3> QED
      BY <1>8, <1>11, <1>19, <3>1 DEF Segment
  <2>8. Ends(P, j.slots)
    BY <1>4, <1>8, <1>11, <1>19 DEF Ends, Counted
  <2> QED
    BY <1>11, <1>19, <2>1, <2>2, <2>3, <2>4, <2>5, <2>6, <2>7, <2>8 DEF Written
<1>23. Stage(P, j)
  <2>1. ~Counted(P, j.slots)
    BY <1>8, <1>11, <1>19 DEF Counted
  <2> QED
    BY <1>4, <1>8, <2>1 DEF Stage, Filling
<1>24. Kept(P, j.slots, I)
  BY <1>8, <1>21 DEF Kept
<1>25. Touched(P) = {}
  <2>1. ASSUME NEW p \in Pages
        PROVE  ~(P.dbOrigSize < p /\ p <= P.dbSize)
    <3>1. P.dbOrigSize \in Nat /\ p \in Nat /\ P.dbSize = P.dbOrigSize
      BY <1>4, <1>8, Fields, Bounds
    <3> QED
      BY <3>1
  <2> QED
    BY <1>21, <2>1 DEF Touched
<1>26. Changed(P, db, I)
  <2>1. \A p \in Pages : PageOK(P, db, I, p)
    BY <1>4, <1>5, <1>8, <1>25 DEF PageOK, Target, Fits
  <2>2. P.dbSize >= P.dbOrigSize
    BY <1>4, <1>8, Fields
  <2> QED
    BY <1>4, <1>5, <1>8, <2>1, <2>2 DEF Changed
<1>27. Planned(P, db, I)
  BY <1>4, <1>5, <1>8, <1>9 DEF Planned, Pending, Filling
<1>28. Writes(P, j, db, I, txn + 1)
  <2>1. P.stamp = (txn + 1) + 1 /\ Sized(I, P.dbOrigSize) /\ P.at \notin Rolling
    BY <1>0, <1>4, <1>8 DEF Rolling
  <2> QED
    BY <1>6, <1>19, <1>22, <1>23, <1>24, <1>26, <1>27, <2>1 DEF Writes
<1>29. ASSUME sound
       PROVE  FirmWriter(P, j, db, dbDisk)
  <2>1. Certain(db, dbDisk) /\ Unmarked(jrnl, 1)
    BY <1>4, <1>29 DEF IInv, Safe, Durable
  <2>2. Unmarked(j, 1)
    BY <1>11, <1>19, <2>1 DEF Unmarked
  <2>3. ~\E k : k \in 1..0
    OBVIOUS
  <2>4. \A p \in Pages : dbDisk[p] = {db[p]}
    BY <2>1 DEF Certain
  <2> QED
    BY <1>4, <1>8, <2>1, <2>2, <2>3, <2>4 DEF FirmWriter
<1> QED
  BY <1>1, <1>2, <1>4, <1>8, <1>9, <1>18, <1>19, <1>20, <1>28, <1>29

\* What both ways to write a page have in common.
LEMMA PageMarked ==
  ASSUME IInv, NEW c \in Conns, NEW P \in Connection, P.cache = pager[c].cache, P.eState \in {"cachemod", "dbmod"}, P.at = "idle",
         NEW j, JournalOK(j), j.exists, NEW t \in Nat, Dated(j, t), t <= MaxTxn, txn <= t, Writes(P, j, db, Image, t),
         NEW p \in Pages, p <= P.dbSize + 1, NEW val, val = IF p = 1 THEN Image[1] + 1 ELSE P.stamp,
         NEW N \in Connection, NEW new \in BOOLEAN, MarksPage(P, N, p, val, new), new <=> p <= P.dbOrigSize /\ p \notin P.inJournal,
         N.at \in {"idle", "lock"}, Planned(N, db, Image), jrnl' = AddRecord(c, j, P, p)
  PROVE  /\ JournalOK(jrnl') /\ jrnl'.exists /\ Dated(jrnl', t) /\ jrnl'.slots[1] = j.slots[1]
         /\ Writes(N, jrnl', db, Image, t) /\ \A doubts : FirmWriter(P, j, db, doubts) => FirmWriter(N, jrnl', db, doubts)
<1>1. PICK I : I = Image
  OBVIOUS
<1>2. /\ P.stamp = t + 1 /\ I[1] <= t /\ Sized(I, P.dbOrigSize) /\ Written(P, j.slots) /\ Stage(P, j) /\ Kept(P, j.slots, I)
      /\ Changed(P, db, I)
  BY <1>1 DEF Writes, Live, Rolling
<1>3. Solid(I, t) /\ I[1] \in Nat
  <2>1. Solid(I, txn) /\ txn \in Nat
    BY <1>1, TxnFacts DEF IInv, Files
  <2>2. Solid(I, t)
    BY <2>1, Later
  <2> QED
    BY <2>2, StampsAre
<1>4. val # NotCached
  <2>1. NotCached = MaxTxn + 3 /\ MaxTxn \in Nat
    BY Bounds
  <2> QED
    BY <1>1, <1>2, <1>3, <2>1
<1>5. P.dbOrigSize \in Nat
  BY Fields
<1>6. new <=> Journaled(c, P, p)
  BY DEF Journaled
<1>7. PICK q : q = jrnl'
  OBVIOUS
<1>8. new => q = Put(j, P.journalOff + 1, Record(p, I[p], P.stamp))
  <2>1. new => Content(c, p) = I[p]
    BY <1>2, <1>5, ContentIs
  <2> QED
    BY <1>6, <1>7, <2>1 DEF AddRecord
<1>9. ~new => q = j
  BY <1>6, <1>7 DEF AddRecord
<1>10. Changed(N, db, I)
  <2>1. val = (IF p = 1 THEN I[1] + 1 ELSE P.stamp)
    BY <1>1
  <2>2. Changed(P, db, I)
    BY <1>2
  <2> QED
    BY <1>4, <2>1, <2>2, MarkedChanged
<1>11. /\ JournalOK(q) /\ q.exists /\ Dated(q, t) /\ q.slots[1] = j.slots[1]
       /\ Written(N, q.slots) /\ Stage(N, q) /\ Kept(N, q.slots, I)
       /\ \A doubts : FirmWriter(P, j, db, doubts) => FirmWriter(N, q, db, doubts)
  BY <1>2, <1>3, <1>8, <1>9, MarkedWritten
<1>12. Writes(N, q, db, I, t)
  <2>1. N.stamp = P.stamp /\ N.dbOrigSize = P.dbOrigSize /\ N.at \notin Rolling
    BY DEF MarksPage, Rolling
  <2> QED
    BY <1>1, <1>2, <1>10, <1>11, <2>1 DEF Writes
<1> QED
  BY <1>1, <1>7, <1>11, <1>12

\* pager_write: the page is journaled, then changed in the cache.
LEMMA WriteStep ==
  ASSUME IInv, NEW c \in Conns, NEW p \in Pages, Write(c, p)
  PROVE  IInv' /\ Image' = Image /\ pager[c].eState \notin {"open", "reader", "error"} /\ pager'[c].eState \in Live
<1>0. Typed /\ txn \in Nat /\ TxnsIn[mode] \in Nat /\ txn <= TxnsIn[mode] /\ TxnsIn[mode] <= MaxTxn /\ MaxTxn \in Nat
  <2>1. Typed
    BY DEF IInv
  <2> QED
    BY <2>1, TxnFacts
<1>1. PICK R : R = pager[c]
  OBVIOUS
<1>2. PICK P : P = IF R.eState = "locked" THEN Opened(R) ELSE R
  OBVIOUS
<1>3. PICK j : j = IF R.eState = "locked" THEN OpenJournal(P) ELSE jrnl
  OBVIOUS
<1>4. /\ R.eState \in Writing /\ R.at = "idle" /\ p # 1 /\ p <= P.dbSize + 1 /\ (R.eState = "locked" => txn < TxnsIn[mode])
      /\ txn' = (IF R.eState = "locked" THEN txn + 1 ELSE txn) /\ jrnl' = AddRecord(c, j, P, p) /\ Become(c, Marked(c, P, p, P.stamp))
      /\ UNCHANGED << held, db, dbDisk, ghost, mode, trouble, sound >>
  BY <1>1, <1>2, <1>3 DEF Write, In
<1>5. PICK t : t = txn'
  OBVIOUS
<1>6. t \in Nat /\ t \in 0..TxnsIn[mode] /\ txn <= t /\ t <= MaxTxn
  BY <1>0, <1>4, <1>5
<1>7. /\ P \in Connection /\ P.cache = R.cache /\ P.eState \in {"cachemod", "dbmod"} /\ P.at = "idle"
      /\ JournalOK(j) /\ j.exists /\ (IsHot(j) => "exclusive" \in held[c]) /\ Dated(j, t) /\ Writes(P, j, db, Image, t)
      /\ Locks(P, held[c]) /\ {"shared", "reserved"} \subseteq held[c] /\ (sound => FirmWriter(P, j, db, dbDisk)) /\ (ghost.exists => ~IsHot(j))
  <2>1. CASE R.eState = "locked"
    <3>1. P = Opened(pager[c]) /\ j = OpenJournal(P) /\ t = txn + 1 /\ txn < TxnsIn[mode] /\ pager[c].eState = "locked"
      BY <1>1, <1>2, <1>3, <1>4, <1>5, <2>1
    <3>2. /\ P \in Connection /\ P.eState = "cachemod" /\ P.at = "idle" /\ P.cache = pager[c].cache /\ P.dirty = {} /\ P.inJournal = {}
          /\ JournalOK(j) /\ j.exists /\ ~IsHot(j) /\ Dated(j, txn + 1)
          /\ Writes(P, j, db, Image, txn + 1)
          /\ P.todo = {} /\ P.spilling = FALSE /\ held[c] = {"shared", "reserved"}
          /\ sound => FirmWriter(P, j, db, dbDisk)
      BY <3>1, OpenedOK
    <3>3. Locks(P, held[c])
      BY <3>2 DEF Locks, Filling, Live
    <3> QED
      BY <1>1, <3>1, <3>2, <3>3
  <2>2. CASE R.eState # "locked"
    <3>1. P = R /\ j = jrnl /\ t = txn /\ R.eState \in {"cachemod", "dbmod"}
      BY <1>2, <1>3, <1>4, <1>5, <2>2 DEF Writing
    <3>2. R.eState \in Live
      BY <3>1 DEF Live
    <3>3. /\ R \in Connection /\ Writes(R, jrnl, db, Image, txn) /\ Locks(R, held[c])
          /\ {"shared", "reserved"} \subseteq held[c] /\ (IsHot(jrnl) => "exclusive" \in held[c])
          /\ (sound => FirmWriter(R, jrnl, db, dbDisk)) /\ jrnl.exists
      BY <1>1, <3>2, LiveFacts
    <3>4. JournalOK(jrnl) /\ Dated(jrnl, txn) /\ (ghost.exists => ~IsHot(jrnl))
      BY <1>0 DEF IInv, Typed, Files
    <3> QED
      BY <1>4, <3>1, <3>3, <3>4
  <2> QED
    BY <2>1, <2>2
<1>8. P.eState \in Live /\ P.at \notin Rolling /\ "idle" \notin Pending
  BY <1>7 DEF Live, Rolling, Pending, Filling
<1>9. Written(P, j.slots) /\ Planned(P, db, Image) /\ P.stamp = t + 1
  BY <1>7, <1>8 DEF Writes
<1>10. PICK new \in BOOLEAN : new <=> Journaled(c, P, p)
  OBVIOUS
<1>11. PICK N : N = Marked(c, P, p, P.stamp)
  OBVIOUS
<1>12. N \in Connection /\ MarksPage(P, N, p, P.stamp, new) /\ N.at = "idle" /\ N.todo = P.todo /\ N.spilling = P.spilling
  <2>1. P.stamp \in Values
    BY <1>6, <1>9, Bounds DEF Values
  <2>2. new => P.journalOff + 1 \in Offsets
    BY <1>7, <1>9, <1>10, RoomFor DEF Journaled, Written
  <2> QED
    BY <1>7, <1>10, <1>11, <2>1, <2>2, MarkedIs
<1>13. N.eState = P.eState
  BY <1>12 DEF MarksPage
<1>14. Planned(N, db, Image)
  BY <1>7, <1>8, <1>9, <1>12, <1>13 DEF Planned, Filling
<1>15. /\ JournalOK(jrnl') /\ jrnl'.exists /\ Dated(jrnl', t) /\ jrnl'.slots[1] = j.slots[1]
       /\ Writes(N, jrnl', db, Image, t) /\ \A doubts : FirmWriter(P, j, db, doubts) => FirmWriter(N, jrnl', db, doubts)
  BY <1>1, <1>4, <1>6, <1>7, <1>10, <1>12, <1>14, PageMarked DEF Journaled
<1>16. Locks(N, held[c])
  BY <1>7, <1>12, <1>13 DEF Locks, Filling, Live
<1>17. IsHot(jrnl') <=> IsHot(j)
  BY <1>7, <1>15 DEF IsHot
<1>18. mode' = mode /\ txn' = t /\ sound' = sound /\ held' = held /\ db' = db /\ dbDisk' = dbDisk /\ ghost' = ghost /\ Become(c, N)
  BY <1>4, <1>5, <1>11
<1>19. FileOK(db, dbDisk)
  BY <1>0 DEF Typed
<1>20. IInv' /\ Image' = Image /\ pager'[c] = N
  BY <1>6, <1>7, <1>8, <1>12, <1>13, <1>15, <1>16, <1>17, <1>18, <1>19, WriterStep
<1> QED
  BY <1>1, <1>4, <1>8, <1>13, <1>20 DEF Writing

\* sqlite3PagerCommitPhaseOne: the change counter is advanced, the dirty pages are listed.
LEMMA CommitPhaseOneStep ==
  ASSUME IInv, NEW c \in Conns, CommitPhaseOne(c)
  PROVE  IInv' /\ Image' = Image /\ pager[c].eState \in Live /\ pager'[c].eState \in Live
<1>0. Typed /\ txn \in Nat /\ TxnsIn[mode] \in Nat /\ txn <= TxnsIn[mode] /\ TxnsIn[mode] <= MaxTxn /\ MaxTxn \in Nat
  <2>1. Typed
    BY DEF IInv
  <2> QED
    BY <2>1, TxnFacts
<1>1. PICK P : P = pager[c]
  OBVIOUS
<1>2. P.eState \in {"cachemod", "dbmod"} /\ P.at = "idle" /\ UNCHANGED << held, db, dbDisk, ghost, history >> /\ jrnl' = AddRecord(c, jrnl, P, 1)
  BY <1>1 DEF CommitPhaseOne, In
<1>3. P.eState \in Live /\ P.at \notin Rolling /\ "idle" \notin Pending /\ "lock" \in Pending /\ "lock" \in Steps
  BY <1>2 DEF Live, Rolling, Pending, Filling, Steps
<1>4. /\ P \in Connection /\ Writes(P, jrnl, db, Image, txn) /\ Locks(P, held[c])
      /\ {"shared", "reserved"} \subseteq held[c] /\ (IsHot(jrnl) => "exclusive" \in held[c])
      /\ (sound => FirmWriter(P, jrnl, db, dbDisk)) /\ jrnl.exists /\ Written(P, jrnl.slots)
      /\ Changed(P, db, Image) /\ Planned(P, db, Image) /\ Image[1] <= txn
  BY <1>1, <1>3, LiveFacts
<1>5. JournalOK(jrnl) /\ Dated(jrnl, txn) /\ (ghost.exists => ~IsHot(jrnl)) /\ FileOK(db, dbDisk) /\ Solid(Image, txn)
  BY <1>0 DEF IInv, Typed, Files
<1>6. PICK val : val = P.dbFileVers + 1
  OBVIOUS
<1>7. val = Image[1] + 1 /\ val \in Values
  <2>1. P.dbFileVers = db[1] /\ db[1] = Image[1]
    BY <1>2, <1>3, <1>4 DEF Changed, Planned
  <2>2. Image[1] \in Nat
    BY <1>0, <1>5, StampsAre
  <2> QED
    BY <1>0, <1>4, <1>6, <2>1, <2>2, Bounds DEF Values
<1>8. 1 \in Pages /\ 1 <= P.dbSize + 1
  BY <1>4, PagerAssumption, Fields, StampsAre, <1>0, <1>5
<1>9. PICK new \in BOOLEAN : new <=> Journaled(c, P, 1)
  OBVIOUS
<1>10. PICK Q : Q = Marked(c, P, 1, val)
  OBVIOUS
<1>11. Q \in Connection /\ MarksPage(P, Q, 1, val, new) /\ Q.at = "idle" /\ Q.todo = P.todo /\ Q.spilling = P.spilling
  <2>1. new => P.journalOff + 1 \in Offsets
    BY <1>4, <1>8, <1>9, RoomFor DEF Journaled, Written
  <2> QED
    BY <1>2, <1>4, <1>7, <1>8, <1>9, <1>10, <2>1, MarkedIs
<1>12. PICK N : N = [Q EXCEPT !.at = "lock", !.todo = Q.dirty]
  OBVIOUS
<1>13. Become(c, N)
  BY <1>1, <1>6, <1>10, <1>12 DEF CommitPhaseOne
<1>14. /\ N \in Connection /\ N.at = "lock" /\ N.todo = N.dirty /\ N.spilling = P.spilling /\ N.cache = Q.cache /\ N.dirty = Q.dirty
       /\ N.needSync = Q.needSync /\ N.inJournal = Q.inJournal /\ N.eState = Q.eState /\ N.dbOrigSize = Q.dbOrigSize
       /\ N.journalHdr = Q.journalHdr /\ N.journalOff = Q.journalOff /\ N.own = Q.own /\ N.stamp = Q.stamp /\ N.dbFileVers = Q.dbFileVers
       /\ N.dbSize = Q.dbSize
  <2>1. Q.dirty \in SUBSET Nat
    BY <1>11, Fields, Bounds
  <2> QED
    BY <1>3, <1>11, <1>12, <2>1 DEF Connection
<1>15. MarksPage(P, N, 1, val, new)
  BY <1>11, <1>14 DEF MarksPage
<1>16. N.eState = P.eState /\ 1 \in N.dirty
  BY <1>15 DEF MarksPage
<1>17. 1 \in Touched(N)
  <2>1. val # NotCached
    BY <1>7, Bounds DEF Values
  <2> QED
    BY <1>4, <1>7, <1>8, <1>9, <1>15, <2>1, MarkedChanged DEF Journaled
<1>18. Planned(N, db, Image)
  <2>1. ~P.spilling /\ db[1] = Image[1]
    BY <1>2, <1>3, <1>4 DEF Planned
  <2> QED
    BY <1>2, <1>3, <1>14, <1>16, <1>17, <2>1 DEF Planned, Filling
<1>19. /\ JournalOK(jrnl') /\ jrnl'.exists /\ Dated(jrnl', txn) /\ jrnl'.slots[1] = jrnl.slots[1]
       /\ Writes(N, jrnl', db, Image, txn) /\ \A doubts : FirmWriter(P, jrnl, db, doubts) => FirmWriter(N, jrnl', db, doubts)
  <2>1. txn <= MaxTxn /\ txn <= txn
    BY <1>0
  <2> QED
    BY <1>0, <1>1, <1>2, <1>4, <1>5, <1>7, <1>8, <1>9, <1>14, <1>15, <1>18, <2>1, PageMarked DEF Journaled
<1>20. Locks(N, held[c])
  BY <1>2, <1>4, <1>14, <1>16 DEF Locks, Filling, Live
<1>21. IsHot(jrnl') <=> IsHot(jrnl)
  BY <1>4, <1>19 DEF IsHot
<1>22. mode' = mode /\ txn' = txn /\ sound' = sound /\ held' = held /\ db' = db /\ dbDisk' = dbDisk /\ ghost' = ghost /\ txn \in 0..TxnsIn[mode] /\ txn <= txn
  BY <1>0, <1>2 DEF history
<1>23. IInv' /\ Image' = Image /\ pager'[c] = N
  BY <1>3, <1>4, <1>5, <1>13, <1>14, <1>16, <1>19, <1>20, <1>21, <1>22, WriterStep
<1> QED
  BY <1>1, <1>3, <1>16, <1>23

-----------------------------------------------------------------------------
(* Writing the database file.                                              *)

\* Page p of the file becomes v, sooner or later.
FileSet(f, g, doubts, later, p, v) ==
  /\ g[p] = v /\ later[p] = doubts[p] \union {v}
  /\ \A q \in Pages : q # p => g[q] = f[q] /\ later[q] = doubts[q]

LEMMA SetsFile ==
  ASSUME NEW f, NEW doubts, FileOK(f, doubts), NEW p \in Pages, NEW v \in Values, NEW g, g = [f EXCEPT ![p] = v],
         NEW later, later = [doubts EXCEPT ![p] = doubts[p] \union {v}]
  PROVE  FileOK(g, later) /\ FileSet(f, g, doubts, later, p, v)
<1>1. f \in [Pages -> Values] /\ doubts \in [Pages -> SUBSET Values] /\ \A q \in Pages : f[q] \in doubts[q]
  BY DEF FileOK
<1>2. g \in [Pages -> Values] /\ later \in [Pages -> SUBSET Values]
  BY <1>1
<1>3. FileSet(f, g, doubts, later, p, v)
  BY <1>1 DEF FileSet
<1>4. \A q \in Pages : g[q] \in later[q]
  BY <1>1, <1>3 DEF FileSet
<1> QED
  BY <1>2, <1>3, <1>4 DEF FileOK

\* N is P after it wrote page p.
WritesOut(P, N, p) ==
  /\ N.eState = P.eState /\ N.needSync = P.needSync /\ N.inJournal = P.inJournal /\ N.dbSize = P.dbSize /\ N.dbOrigSize = P.dbOrigSize
  /\ N.journalHdr = P.journalHdr /\ N.journalOff = P.journalOff /\ N.own = P.own /\ N.stamp = P.stamp
  /\ N.dirty = P.dirty \ {p}
  /\ N.cache[p] \in {NotCached, P.cache[p]} /\ (p = 1 => N.cache[1] = P.cache[1]) /\ \A q \in Pages : q # p => N.cache[q] = P.cache[q]
  /\ p = 1 => N.dbFileVers = P.cache[1]
  /\ p # 1 => N.dbFileVers = P.dbFileVers

\* Where N goes on.
WrittenAt(P, N, p) ==
  /\ N.spilling = FALSE
  /\ P.spilling => N.at = "idle" /\ N.todo = {} /\ p # 1
  /\ ~P.spilling => N.todo = P.todo \ {p} /\ (N.todo = {} => N.at = "sync-db") /\ (N.todo # {} => N.at = "write")

LEMMA WrittenOut ==
  ASSUME NEW P, NEW N, NEW p \in Pages, WritesOut(P, N, p), P.eState = "dbmod", NEW f, NEW I, Changed(P, f, I), p \in P.dirty,
         p <= P.dbOrigSize => p \notin P.needSync, NEW g, NEW doubts, NEW later, FileSet(f, g, doubts, later, p, P.cache[p])
  PROVE  Changed(N, g, I) /\ (p # 1 => g[1] = f[1]) /\ P.cache[p] = Target(P, I, p)
<1>1. /\ P.dbSize >= P.dbOrigSize /\ P.dirty \subseteq Touched(P)
      /\ \A q \in Pages : PageOK(P, f, I, q)
      /\ P.cache[1] # NotCached /\ P.dbFileVers = f[1]
  BY DEF Changed
<1>2. Touched(N) = Touched(P) /\ \A q : Target(N, I, q) = Target(P, I, q)
  BY TouchedStill DEF WritesOut
<1>3. P.cache[p] = Target(P, I, p) /\ g[p] = P.cache[p] /\ 1 \in Pages
  BY <1>1, PagerAssumption DEF PageOK, FileSet, Pages
<1>4. ASSUME NEW q \in Pages
      PROVE  PageOK(N, g, I, q)
  <2>1. PageOK(P, f, I, q)
    BY <1>1
  <2>2. CASE q = p
    BY <1>2, <1>3, <2>2 DEF PageOK, WritesOut
  <2>3. CASE q # p
    <3>1. g[q] = f[q] /\ N.cache[q] = P.cache[q] /\ (q \in N.dirty <=> q \in P.dirty) /\ N.needSync = P.needSync /\ N.dbOrigSize = P.dbOrigSize
      BY <2>3 DEF FileSet, WritesOut
    <3> QED
      BY <1>2, <2>1, <3>1 DEF PageOK
  <2> QED
    BY <2>2, <2>3
<1>5. p # 1 => g[1] = f[1]
  BY <1>3 DEF FileSet
<1>6. N.dbFileVers = g[1] /\ N.cache[1] # NotCached
  BY <1>1, <1>3, <1>5 DEF WritesOut
<1>7. N.dbSize >= N.dbOrigSize /\ N.dirty \subseteq Touched(N) /\ N.eState # "cachemod"
  BY <1>1, <1>2 DEF WritesOut
<1> QED
  BY <1>3, <1>4, <1>5, <1>6, <1>7 DEF Changed

\* pager_write_pagelist: a page is written to the file.
LEMMA WritePageStep ==
  ASSUME IInv, NEW c \in Conns, WritePage(c)
  PROVE  IInv' /\ Image' = Image /\ pager[c].eState \in Live /\ pager'[c].eState \in Live
<1>0. PICK P : P = pager[c]
  OBVIOUS
<1>1. P.at = "write" /\ UNCHANGED << held, jrnl, ghost, history >>
  BY <1>0 DEF WritePage
<1>2. /\ P.eState \in {"cachemod", "dbmod"} /\ P.eState \in Live /\ P.at \notin Rolling
      /\ "exclusive" \in held[c] /\ "reserved" \in held[c]
      /\ Changed(P, db, Image) /\ Planned(P, db, Image)
      /\ FileOK(db, dbDisk) /\ JournalOK(jrnl) /\ jrnl.slots \in [Slots -> Slot] /\ Dated(jrnl, txn) /\ txn \in 0..TxnsIn[mode] /\ txn \in Nat
      /\ P.journalHdr \in Nat /\ P.journalOff \in Nat
  BY <1>0, <1>1, FlushFacts
<1>3. /\ P \in Connection /\ Writes(P, jrnl, db, Image, txn) /\ Locks(P, held[c])
      /\ sound => FirmWriter(P, jrnl, db, dbDisk)
      /\ jrnl.exists /\ Written(P, jrnl.slots) /\ Stage(P, jrnl) /\ (IsHot(jrnl) => "exclusive" \in held[c])
      /\ Kept(P, jrnl.slots, Image) /\ P.stamp = txn + 1 /\ Image[1] <= txn /\ Sized(Image, P.dbOrigSize)
  BY <1>0, <1>2, LiveFacts
<1>4. P.eState = "dbmod"
  BY <1>1, <1>2, <1>3 DEF Locks, Filling, Rolling
<1>5. PICK p : p = Min(P.todo)
  OBVIOUS
<1>6. /\ P.todo # {} /\ P.todo \subseteq P.dirty /\ (P.spilling => 1 \notin P.todo /\ \E q \in Pages : P.todo = {q})
      /\ (~P.spilling => P.todo = P.dirty /\ 1 \in Touched(P))
      /\ \A q \in P.todo : q <= P.dbOrigSize => q \notin P.needSync
  BY <1>1, <1>2 DEF Planned, Pending
<1>7. p \in P.todo /\ p \in P.dirty /\ p \in Pages /\ p \in Nat
  <2>1. P.todo \in SUBSET Nat /\ P.dirty \subseteq Pages
    BY <1>3, Fields
  <2> QED
    BY <1>5, <1>6, <2>1, LeastOf, Bounds
<1>8. PICK v : v = P.cache[p]
  OBVIOUS
<1>9. v = Target(P, Image, p) /\ v \in Values
  <2>1. v = Target(P, Image, p)
    BY <1>2, <1>7, <1>8 DEF Changed, PageOK
  <2>2. txn <= MaxTxn /\ Solid(Image, txn)
    BY TxnFacts DEF IInv, Files
  <2> QED
    BY <1>2, <1>3, <1>7, <2>1, <2>2, TargetIs
<1>10. db' = [db EXCEPT ![p] = v] /\ dbDisk' = [dbDisk EXCEPT ![p] = dbDisk[p] \union {v}]
  BY <1>0, <1>5, <1>8 DEF WritePage
<1>11. FileOK(db', dbDisk') /\ FileSet(db, db', dbDisk, dbDisk', p, v)
  BY <1>2, <1>7, <1>9, <1>10, SetsFile
<1>12. PICK M : M = [P EXCEPT !.dirty = P.dirty \ {p}, !.todo = P.todo \ {p}, !.dbFileVers = IF p = 1 THEN P.cache[1] ELSE P.dbFileVers]
  OBVIOUS
<1>13. /\ M \in Connection /\ M.dirty = P.dirty \ {p} /\ M.todo = P.todo \ {p} /\ M.dbFileVers = (IF p = 1 THEN P.cache[1] ELSE P.dbFileVers)
       /\ M.eState = P.eState /\ M.at = P.at /\ M.cache = P.cache /\ M.needSync = P.needSync /\ M.inJournal = P.inJournal /\ M.dbSize = P.dbSize
       /\ M.dbOrigSize = P.dbOrigSize /\ M.journalHdr = P.journalHdr /\ M.journalOff = P.journalOff /\ M.own = P.own /\ M.stamp = P.stamp
       /\ M.spilling = P.spilling
  <2>1. P.dirty \ {p} \subseteq Pages /\ P.todo \ {p} \subseteq Nat /\ (IF p = 1 THEN P.cache[1] ELSE P.dbFileVers) \in Values
    BY <1>3, <1>8, <1>9, Fields
  <2> QED
    BY <1>3, <1>12, <2>1 DEF Connection
<1>14. \E N \in Connection : Become(c, N) /\ WritesOut(P, N, p) /\ WrittenAt(P, N, p)
  <2>1. CASE P.spilling
    <3>1. PICK C : C = [P.cache EXCEPT ![p] = NotCached]
      OBVIOUS
    <3>2. C \in [Pages -> Cached] /\ C[p] = NotCached /\ \A q \in Pages : q # p => C[q] = P.cache[q]
      BY <1>3, <1>7, <3>1, Fields DEF Cached
    <3>3. PICK N : N = [M EXCEPT !.cache = C, !.at = "idle", !.todo = {}, !.spilling = FALSE]
      OBVIOUS
    <3>4. /\ N \in Connection /\ N.cache = C /\ N.at = "idle" /\ N.todo = {} /\ N.spilling = FALSE
          /\ N.dirty = M.dirty /\ N.dbFileVers = M.dbFileVers
          /\ N.eState = P.eState /\ N.needSync = P.needSync /\ N.inJournal = P.inJournal /\ N.dbSize = P.dbSize
          /\ N.dbOrigSize = P.dbOrigSize /\ N.journalHdr = P.journalHdr /\ N.journalOff = P.journalOff /\ N.own = P.own /\ N.stamp = P.stamp
      BY <1>13, <3>2, <3>3 DEF Connection, Steps
    <3>5. p # 1 /\ 1 \in Pages
      BY <1>6, <1>7, <2>1, PagerAssumption DEF Pages
    <3>6. WritesOut(P, N, p)
      BY <1>7, <1>13, <3>2, <3>4, <3>5 DEF WritesOut
    <3>7. Become(c, N)
      <4>1. Become(c, Stopped([M EXCEPT !.cache[p] = NotCached]))
        BY <1>0, <1>5, <1>12, <2>1 DEF WritePage
      <4>2. [M EXCEPT !.cache[p] = NotCached] = [M EXCEPT !.cache = C]
        BY <1>13, <3>1
      <4>3. Stopped([M EXCEPT !.cache = C]) = N
        BY <1>13, <3>3 DEF Stopped, Connection
      <4> QED
        BY <4>1, <4>2, <4>3
    <3>8. WrittenAt(P, N, p)
      BY <2>1, <3>4, <3>5 DEF WrittenAt
    <3> QED
      BY <3>4, <3>6, <3>7, <3>8
  <2>2. CASE ~P.spilling
    <3>1. PICK N : N = IF M.todo = {} THEN [M EXCEPT !.at = "sync-db"] ELSE M
      OBVIOUS
    <3>2. Become(c, N)
      BY <1>0, <1>5, <1>12, <2>2, <3>1 DEF WritePage
    <3>3. /\ N \in Connection /\ N.at = (IF M.todo = {} THEN "sync-db" ELSE "write")
          /\ N.todo = M.todo /\ N.spilling = M.spilling
          /\ N.cache = P.cache /\ N.dirty = M.dirty /\ N.dbFileVers = M.dbFileVers
          /\ N.eState = P.eState /\ N.needSync = P.needSync /\ N.inJournal = P.inJournal /\ N.dbSize = P.dbSize
          /\ N.dbOrigSize = P.dbOrigSize /\ N.journalHdr = P.journalHdr /\ N.journalOff = P.journalOff /\ N.own = P.own /\ N.stamp = P.stamp
      <4>1. CASE M.todo = {}
        BY <1>13, <3>1, <4>1 DEF Connection, Steps
      <4>2. CASE M.todo # {}
        BY <1>1, <1>13, <3>1, <4>2
      <4> QED
        BY <4>1, <4>2
    <3>4. WritesOut(P, N, p)
      BY <1>7, <1>13, <3>3 DEF WritesOut
    <3>5. N.spilling = FALSE
      BY <1>3, <1>13, <2>2, <3>3, Fields
    <3>6. WrittenAt(P, N, p)
      BY <1>13, <2>2, <3>3, <3>5 DEF WrittenAt
    <3> QED
      BY <3>2, <3>3, <3>4, <3>6
  <2> QED
    BY <2>1, <2>2
<1>15. PICK N \in Connection : Become(c, N) /\ WritesOut(P, N, p) /\ WrittenAt(P, N, p)
  BY <1>14
<1>16. /\ N.eState = P.eState /\ N.needSync = P.needSync /\ N.inJournal = P.inJournal /\ N.dbSize = P.dbSize /\ N.dbOrigSize = P.dbOrigSize
       /\ N.journalHdr = P.journalHdr /\ N.journalOff = P.journalOff /\ N.own = P.own /\ N.stamp = P.stamp /\ N.dirty = P.dirty \ {p}
       /\ N.at \in {"idle", "write", "sync-db"} /\ N.spilling = FALSE
  BY <1>15 DEF WritesOut, WrittenAt
<1>17. Changed(N, db', Image) /\ (p # 1 => db'[1] = db[1])
  <2>1. p <= P.dbOrigSize => p \notin P.needSync
    BY <1>6, <1>7
  <2>2. WritesOut(P, N, p) /\ FileSet(db, db', dbDisk, dbDisk', p, P.cache[p]) /\ Changed(P, db, Image)
    BY <1>2, <1>8, <1>11, <1>15
  <2>3. ASSUME NEW g, NEW later, FileSet(db, g, dbDisk, later, p, P.cache[p])
        PROVE  Changed(N, g, Image) /\ (p # 1 => g[1] = db[1])
    BY <1>4, <1>7, <2>1, <2>2, <2>3, WrittenOut
  <2> QED
    BY <2>2, <2>3
<1>18. Planned(N, db', Image)
  <2>1. Touched(N) = Touched(P)
    BY <1>16, TouchedStill
  <2>2. CASE P.spilling
    <3>1. db[1] = Image[1]
      BY <1>1, <1>2, <1>4, <2>2 DEF Planned
    <3>2. N.at = "idle" /\ N.todo = {} /\ p # 1
      BY <1>15, <2>2 DEF WrittenAt
    <3>3. db'[1] = Image[1]
      BY <1>17, <3>1, <3>2
    <3> QED
      BY <1>4, <1>16, <3>2, <3>3 DEF Planned, Pending, Filling
  <2>3. CASE ~P.spilling
    <3>1. N.todo = P.todo \ {p} /\ (N.todo = {} => N.at = "sync-db") /\ (N.todo # {} => N.at = "write")
      BY <1>15, <2>3 DEF WrittenAt
    <3>2. N.todo = N.dirty /\ 1 \in Touched(N)
      BY <1>6, <1>16, <2>1, <2>3, <3>1
    <3>3. \A q \in N.todo : q <= N.dbOrigSize => q \notin N.needSync
      BY <1>6, <1>16, <3>1
    <3>4. CASE N.todo = {}
      BY <1>4, <1>16, <3>1, <3>2, <3>4 DEF Planned, Pending, Filling
    <3>5. CASE N.todo # {}
      BY <1>4, <1>16, <3>1, <3>2, <3>3, <3>5 DEF Planned, Pending, Filling
    <3> QED
      BY <3>4, <3>5
  <2> QED
    BY <2>2, <2>3
<1>19. Ends(N, jrnl.slots) /\ Stage(N, jrnl)
  <2>1. Ends(P, jrnl.slots)
    BY <1>3 DEF Written
  <2>2. ~Counted(P, jrnl.slots) /\ (P.spilling <=> P.own # 0)
    BY <1>1, <1>3 DEF Stage, Rolling
  <2>3. ~Counted(N, jrnl.slots)
    BY <1>16, <2>2 DEF Counted
  <2>4. Ends(N, jrnl.slots)
    BY <1>16, <2>1, <2>3 DEF Ends
  <2>5. P.spilling <=> N.at = "idle"
    BY <1>15 DEF WrittenAt
  <2>6. Stage(N, jrnl)
    BY <1>3, <1>4, <1>16, <2>2, <2>3, <2>5 DEF Stage, Filling
  <2> QED
    BY <2>4, <2>6
<1>20. Writes(N, jrnl, db', Image, txn)
  <2>1. Written(N, jrnl.slots)
    BY <1>3, <1>16, <1>19, WrittenStill
  <2>2. Kept(N, jrnl.slots, Image) /\ N.at \notin Rolling
    BY <1>3, <1>16 DEF Kept, Rolling
  <2> QED
    BY <1>3, <1>16, <1>17, <1>18, <1>19, <2>1, <2>2 DEF Writes
<1>21. Locks(N, held[c])
  BY <1>2, <1>3, <1>4, <1>16 DEF Locks, Filling, Live
<1>22. IsHot(jrnl) /\ ~ghost.exists
  <2>1. IsImage(Image)
    BY <1>2, StampsAre DEF IInv, Files
  <2>2. IsHot(jrnl)
    BY <1>2, <1>3, <1>4, <2>1, LiveImage
  <2> QED
    BY <2>2 DEF IInv, Files
<1>23. ASSUME sound
       PROVE  FirmWriter(N, jrnl, db', dbDisk')
  <2>1. FirmWriter(P, jrnl, db, dbDisk)
    BY <1>3, <1>23
  <2>2. ASSUME NEW q \in Pages
        PROVE  dbDisk'[q] = {db'[q]} \/ q > N.dbOrigSize \/ \E i \in Recs(jrnl.slots, N.journalHdr) : jrnl.slots[i].pg = q
    <3>1. CASE q # p
      <4>1. dbDisk[q] = {db[q]} \/ q > P.dbOrigSize \/ \E i \in Recs(jrnl.slots, P.journalHdr) : jrnl.slots[i].pg = q
        BY <1>2, <2>1 DEF FirmWriter
      <4> QED
        BY <1>11, <1>16, <3>1, <4>1 DEF FileSet
    <3>2. CASE q = p /\ ~(p > P.dbOrigSize)
      <4>1. P.dbOrigSize \in Nat
        BY <1>3, Fields
      <4>2. p \in Touched(P) /\ p <= P.dbOrigSize /\ p \notin P.needSync
        BY <1>2, <1>6, <1>7, <3>2, <4>1 DEF Changed
      <4>3. p \in P.inJournal
        BY <1>7, <4>1, <4>2 DEF Touched
      <4>4. PICK i \in Recs(jrnl.slots, P.journalOff) : jrnl.slots[i].pg = p /\ i <= P.journalHdr
        BY <1>3, <4>2, <4>3 DEF Written, Recorded
      <4>5. i \in Recs(jrnl.slots, P.journalHdr)
        BY <1>2, <4>4 DEF Recs
      <4> QED
        BY <1>16, <3>2, <4>4, <4>5
    <3>3. CASE q = p /\ p > P.dbOrigSize
      BY <1>16, <3>3
    <3> QED
      BY <3>1, <3>2, <3>3
  <2> QED
    BY <1>1, <1>4, <1>16, <2>1, <2>2 DEF FirmWriter, Live, Rolling
<1>24. mode' = mode /\ txn' = txn /\ sound' = sound /\ held' = held /\ jrnl' = jrnl /\ ghost' = ghost /\ N.eState \in Live /\ N.at # "finish" /\ N.at # "sync-header" /\ txn <= txn
  BY <1>1, <1>2, <1>16 DEF history
<1>25. IInv' /\ Image' = Image /\ pager'[c] = N
  BY <1>2, <1>3, <1>11, <1>15, <1>20, <1>21, <1>22, <1>23, <1>24, WriterStep
<1> QED
  BY <1>0, <1>2, <1>16, <1>25

\* The database file is synced (line 52731).
LEMMA SyncCommitStep ==
  ASSUME IInv, NEW c \in Conns, SyncCommit(c)
  PROVE  IInv' /\ Image' = Image /\ pager[c].eState \in Live /\ pager'[c].eState \in Live
<1>0. PICK P : P = pager[c]
  OBVIOUS
<1>1. P.at = "sync-db" /\ UNCHANGED << held, db, jrnl, ghost, history >> /\ dbDisk' = [p \in Pages |-> {db[p]}]
  BY <1>0 DEF SyncCommit
<1>2. /\ P.eState \in {"cachemod", "dbmod"} /\ P.eState \in Live /\ P.at \notin Rolling
      /\ "exclusive" \in held[c] /\ "reserved" \in held[c]
      /\ Changed(P, db, Image) /\ Planned(P, db, Image)
      /\ FileOK(db, dbDisk) /\ JournalOK(jrnl) /\ jrnl.slots \in [Slots -> Slot] /\ Dated(jrnl, txn) /\ txn \in 0..TxnsIn[mode] /\ txn \in Nat
  BY <1>0, <1>1, FlushFacts
<1>3. /\ P \in Connection /\ Writes(P, jrnl, db, Image, txn) /\ Locks(P, held[c])
      /\ sound => FirmWriter(P, jrnl, db, dbDisk)
      /\ jrnl.exists /\ Written(P, jrnl.slots) /\ Stage(P, jrnl) /\ (IsHot(jrnl) => "exclusive" \in held[c])
      /\ Kept(P, jrnl.slots, Image) /\ P.stamp = txn + 1 /\ Image[1] <= txn /\ Sized(Image, P.dbOrigSize)
  BY <1>0, <1>2, LiveFacts
<1>4. P.eState = "dbmod" /\ P.own = 0 /\ P.dirty = {} /\ 1 \in Touched(P)
  <2>1. P.eState = "dbmod"
    BY <1>1, <1>2, <1>3 DEF Locks, Filling, Rolling
  <2> QED
    BY <1>1, <1>2, <1>3, <2>1 DEF Stage, Planned
<1>5. PICK N : N = [P EXCEPT !.at = "idle", !.todo = {}, !.spilling = FALSE, !.eState = "finished"]
  OBVIOUS
<1>6. Become(c, N)
  <2>1. Become(c, [[P EXCEPT !.at = "idle", !.todo = {}, !.spilling = FALSE] EXCEPT !.eState = "finished"])
    BY <1>0 DEF SyncCommit, Stopped
  <2>2. N = [[P EXCEPT !.at = "idle", !.todo = {}, !.spilling = FALSE] EXCEPT !.eState = "finished"]
    BY <1>3, <1>5 DEF Connection
  <2> QED
    BY <2>1, <2>2
<1>7. /\ N \in Connection /\ N.at = "idle" /\ N.todo = {} /\ N.spilling = FALSE /\ N.eState = "finished"
      /\ N.cache = P.cache /\ N.dirty = P.dirty /\ N.needSync = P.needSync /\ N.inJournal = P.inJournal /\ N.dbFileVers = P.dbFileVers /\ N.dbSize = P.dbSize
      /\ N.dbOrigSize = P.dbOrigSize /\ N.journalHdr = P.journalHdr /\ N.journalOff = P.journalOff /\ N.own = P.own /\ N.stamp = P.stamp
  <2>1. "idle" \in Steps /\ "finished" \in States
    BY DEF Steps, States
  <2> QED
    BY <1>3, <1>5, <2>1 DEF Connection
<1>8. N.eState \in Live /\ N.at \notin Rolling
  BY <1>7 DEF Live, Rolling
<1>9. Touched(N) = Touched(P) /\ \A q : Target(N, Image, q) = Target(P, Image, q)
  BY <1>7, TouchedStill
<1>10. Changed(N, db, Image)
  <2>1. \A q \in Pages : PageOK(N, db, Image, q)
    BY <1>2, <1>7, <1>9 DEF Changed, PageOK
  <2> QED
    BY <1>2, <1>7, <1>9, <2>1 DEF Changed
<1>11. Planned(N, db, Image)
  BY <1>4, <1>7, <1>9 DEF Planned, Pending, Filling
<1>12. Stage(N, jrnl)
  <2>1. ~Counted(N, jrnl.slots)
    BY <1>4, <1>7 DEF Counted
  <2> QED
    BY <1>3, <1>4, <1>7, <2>1 DEF Stage, Filling
<1>13. Written(N, jrnl.slots)
  <2>1. Ends(N, jrnl.slots)
    BY <1>3, <1>4, <1>7 DEF Written, Ends
  <2> QED
    BY <1>3, <1>4, <1>7, <2>1, WrittenStill
<1>14. Writes(N, jrnl, db, Image, txn)
  <2>1. Kept(N, jrnl.slots, Image)
    BY <1>3, <1>7 DEF Kept
  <2> QED
    BY <1>3, <1>7, <1>8, <1>10, <1>11, <1>12, <1>13, <2>1 DEF Writes
<1>15. Locks(N, held[c])
  BY <1>2, <1>3, <1>4, <1>7 DEF Locks, Filling, Live
<1>16. FileOK(db, dbDisk') /\ Certain(db, dbDisk')
  BY <1>1, <1>2 DEF FileOK, Certain
<1>17. ASSUME sound
       PROVE  FirmWriter(N, jrnl, db, dbDisk')
  <2>1. FirmWriter(P, jrnl, db, dbDisk)
    BY <1>3, <1>17
  <2> QED
    BY <1>2, <1>4, <1>7, <1>16, <2>1 DEF FirmWriter, Certain, Rolling
<1>18. IsHot(jrnl) /\ ~ghost.exists
  <2>1. IsImage(Image)
    BY <1>2, StampsAre DEF IInv, Files
  <2>2. IsHot(jrnl)
    BY <1>2, <1>3, <1>4, <2>1, LiveImage
  <2> QED
    BY <2>2 DEF IInv, Files
<1>19. mode' = mode /\ txn' = txn /\ sound' = sound /\ held' = held /\ jrnl' = jrnl /\ ghost' = ghost /\ db' = db /\ N.at # "finish" /\ N.at # "sync-header" /\ txn <= txn
  BY <1>1, <1>2, <1>7 DEF history
<1>20. IInv' /\ Image' = Image /\ pager'[c] = N
  BY <1>2, <1>3, <1>6, <1>7, <1>8, <1>14, <1>15, <1>16, <1>17, <1>18, <1>19, WriterStep
<1> QED
  BY <1>0, <1>2, <1>8, <1>20

-----------------------------------------------------------------------------
(* Errors of a writer that leave the files alone.                           *)

\* A commit fails: the transaction is as before.
LEMMA CommitFailsStep ==
  ASSUME IInv, NEW c \in Conns, CommitFails(c), sound' = FALSE, UNCHANGED << db, dbDisk, mode, txn >>
  PROVE  IInv' /\ Image' = Image /\ pager[c].eState \in Live /\ pager'[c].eState \in Live
<1>0. PICK P : P = pager[c]
  OBVIOUS
<1>1. PICK N : N = [P EXCEPT !.at = "playback", !.todo = {}, !.spilling = FALSE]
  OBVIOUS
<1>2. P.at \in Filling \union {"write", "sync-db"} /\ ~P.spilling /\ held' = held /\ Untouched
  BY <1>0 DEF CommitFails, Flushing, Filling, Untouched
<1>3. P.eState \in {"cachemod", "dbmod"} /\ P.eState \in Live /\ P.at \notin Rolling
  BY <1>0, <1>2, FlushFacts
<1>4. /\ P \in Connection /\ Locks(P, held[c]) /\ Stage(P, jrnl) /\ Written(P, jrnl.slots) /\ Planned(P, db, Image)
  BY <1>0, <1>3, LiveFacts
<1>5. Become(c, N)
  <2>1. Become(c, [[P EXCEPT !.at = "idle", !.todo = {}, !.spilling = FALSE] EXCEPT !.at = "playback"])
    BY <1>0 DEF CommitFails, Stopped
  <2>2. N = [[P EXCEPT !.at = "idle", !.todo = {}, !.spilling = FALSE] EXCEPT !.at = "playback"]
    BY <1>1, <1>4 DEF Connection
  <2> QED
    BY <2>1, <2>2
<1>6. N \in Connection /\ Onward(P, N) /\ N.todo = {} /\ N.spilling = FALSE /\ N.at = "playback"
  <2>1. "playback" \in Steps
    BY DEF Steps
  <2> QED
    BY <1>1, <1>4, <2>1 DEF Connection, Onward
<1>7. Counted(N, jrnl.slots) <=> Counted(P, jrnl.slots)
  BY <1>6 DEF Onward, Counted
<1>8. Ends(N, jrnl.slots)
  <2>1. Ends(P, jrnl.slots)
    BY <1>4 DEF Written
  <2> QED
    BY <1>6, <1>7, <2>1 DEF Ends, Onward
<1>9. Stage(N, jrnl)
  BY <1>3, <1>4, <1>6, <1>7 DEF Stage, Onward, Filling
<1>10. Planned(N, db, Image)
  BY <1>3, <1>6 DEF Planned, Onward, Pending, Filling
<1>11. Locks(N, held[c])
  BY <1>3, <1>4, <1>6 DEF Locks, Onward, Filling, Live
<1>12. N.at \notin Rolling /\ N.at # "finish"
  BY <1>6 DEF Rolling
<1> QED
  BY <1>0, <1>2, <1>3, <1>5, <1>6, <1>8, <1>9, <1>10, <1>11, <1>12, HeldOnward, GoesOn

\* The pager in PAGER_ERROR.
LEMMA ErrorIs ==
  ASSUME NEW N, N = [Fresh EXCEPT !.eState = "error"]
  PROVE  /\ N \in Connection /\ N.eState = "error" /\ N.eState \notin Live /\ N.at = "idle" /\ N.todo = {} /\ Resting(N)
         /\ (\A I : Knows(N, I)) /\ (\A G : "shared" \in G /\ ("exclusive" \in G => "pending" \in G) => Locks(N, G))
         /\ \A G, j : ("reserved" \in G /\ IsHot(j) => "exclusive" \in G) => Passed(N, G, j)
<1>1. /\ N \in Connection /\ N.eState = "error" /\ N.at = "idle" /\ N.todo = {} /\ N.dirty = {} /\ N.needSync = {}
      /\ N.inJournal = {} /\ N.spilling = FALSE /\ N.own = 0 /\ N.journalHdr = 0
  <2>1. "error" \in States
    BY DEF States
  <2> QED
    BY <2>1, FreshIs DEF Connection
<1>2. N.eState \notin Live
  BY <1>1 DEF Live
<1>3. Resting(N)
  BY <1>1 DEF Resting
<1>4. \A I : Knows(N, I)
  BY <1>1 DEF Knows
<1>5. \A G : "shared" \in G /\ ("exclusive" \in G => "pending" \in G) => Locks(N, G)
  BY <1>1, <1>2 DEF Locks, Filling
<1>6. \A G, j : ("reserved" \in G /\ IsHot(j) => "exclusive" \in G) => Passed(N, G, j)
  BY <1>1 DEF Passed
<1> QED
  BY <1>1, <1>2, <1>3, <1>4, <1>5, <1>6

\* The journal stays.
LEMMA GivesUp ==
  ASSUME IInv, NEW c \in Conns, pager[c].eState \in Live, Become(c, [Fresh EXCEPT !.eState = "error"]),
         held' = held, sound' = FALSE, Untouched
  PROVE  IInv' /\ Image' = Image /\ pager[c].eState \in Live /\ pager'[c].eState = "error"
<1>1. PICK N : N = [Fresh EXCEPT !.eState = "error"]
  OBVIOUS
<1>2. /\ N \in Connection /\ N.eState = "error" /\ N.eState \notin Live /\ N.at = "idle" /\ N.todo = {} /\ Resting(N)
      /\ (\A I : Knows(N, I)) /\ (\A G : "shared" \in G /\ ("exclusive" \in G => "pending" \in G) => Locks(N, G))
      /\ \A G, j : ("reserved" \in G /\ IsHot(j) => "exclusive" \in G) => Passed(N, G, j)
  BY <1>1, ErrorIs
<1>3. Locks(pager[c], held[c]) /\ {"shared", "reserved"} \subseteq held[c] /\ (IsHot(jrnl) => "exclusive" \in held[c])
  BY LiveFacts
<1>4. Locks(N, held[c]) /\ Passed(N, held[c], jrnl) /\ Knows(N, Image)
  BY <1>2, <1>3 DEF Locks
<1>5. Known(N, held[c], jrnl, db, Image, txn) /\ N.at # "finish"
  BY <1>2, <1>4, Known0
<1>6. held' = [held EXCEPT ![c] = held[c]] /\ held[c] \in SUBSET LockNames
  BY HeldOnward
<1>7. \A d \in Conns : d # c => Exclude(held[c], held[d]) /\ Exclude(held[d], held[c])
  BY Excluded
<1>8. IInv' /\ Image' = Image
  BY <1>1, <1>2, <1>5, <1>6, <1>7, Quiet
<1>9. pager'[c] = N
  BY <1>1 DEF Become, IInv, Typed
<1> QED
  BY <1>2, <1>8, <1>9

-----------------------------------------------------------------------------
(* The rollback of a transaction by its own connection.                     *)

Rolls(P, N) ==
  /\ N.eState = P.eState /\ N.dirty = P.dirty /\ N.needSync = P.needSync /\ N.inJournal = P.inJournal
  /\ N.dbOrigSize = P.dbOrigSize /\ N.journalHdr = P.journalHdr
  /\ N.journalOff = P.journalOff /\ N.own = P.own /\ N.stamp = P.stamp

\* A page is as it was, or beyond the end, or a record that is on disk says what it was.
Backed(P, s, f, dd) ==
  \A p \in Pages : dd[p] = {f[p]} \/ p > P.dbOrigSize \/ \E i \in Recs(s, P.journalHdr) : s[i].pg = p

LEMMA RollsStep ==
  ASSUME IInv, NEW c \in Conns, NEW P, P = pager[c], P.eState \in Live, P.at \in {"playback"} \union Rolling,
         NEW N \in Connection, Rolls(P, N), N.at \in Rolling, Become(c, N), held' = held, UNCHANGED << jrnl, ghost, history >>,
         FileOK(db', dbDisk'), Undone(N, jrnl.slots, db', Image),
         P.eState = "cachemod" => db' = db /\ dbDisk' = dbDisk,
         sound => Backed(P, jrnl.slots, db', dbDisk') /\ (N.at = "finalize" => Certain(db', dbDisk'))
  PROVE  IInv' /\ Image' = Image /\ pager[c].eState \in Live /\ pager'[c].eState \in Live
<1>1. /\ P \in Connection /\ Writes(P, jrnl, db, Image, txn) /\ Locks(P, held[c])
      /\ {"shared", "reserved"} \subseteq held[c] /\ (IsHot(jrnl) => "exclusive" \in held[c])
      /\ sound => FirmWriter(P, jrnl, db, dbDisk)
      /\ jrnl.exists /\ P.stamp = txn + 1 /\ Image[1] <= txn /\ Sized(Image, P.dbOrigSize)
      /\ Written(P, jrnl.slots) /\ Stage(P, jrnl) /\ Kept(P, jrnl.slots, Image)
  BY LiveFacts
<1>2. /\ N.eState = P.eState /\ N.dirty = P.dirty /\ N.needSync = P.needSync /\ N.inJournal = P.inJournal
      /\ N.dbOrigSize = P.dbOrigSize /\ N.journalHdr = P.journalHdr
      /\ N.journalOff = P.journalOff /\ N.own = P.own /\ N.stamp = P.stamp
  BY DEF Rolls
<1>3. N.at \notin Filling /\ N.at \notin {"lock", "idle", "write", "sync-db"} /\ N.eState \in Live
  BY <1>2 DEF Rolling, Filling
<1>4. P.at \notin Filling /\ P.at \notin {"lock", "idle", "write", "sync-db"}
  BY DEF Rolling, Filling
<1>5. Counted(N, jrnl.slots) <=> Counted(P, jrnl.slots)
  BY <1>2 DEF Counted
<1>6. Written(N, jrnl.slots)
  <2>1. Ends(P, jrnl.slots)
    BY <1>1 DEF Written
  <2>2. Ends(N, jrnl.slots)
    BY <1>2, <1>3, <1>4, <1>5, <2>1 DEF Ends, Filling
  <2> QED
    BY <1>1, <1>2, <2>2, WrittenStill
<1>7. Stage(N, jrnl)
  BY <1>1, <1>2, <1>3, <1>4, <1>5 DEF Stage, Filling
<1>8. Writes(N, jrnl, db', Image, txn)
  <2>1. Kept(N, jrnl.slots, Image)
    BY <1>1, <1>2 DEF Kept
  <2> QED
    BY <1>1, <1>2, <1>6, <1>7, <2>1 DEF Writes
<1>9. Locks(N, held[c])
  BY <1>1, <1>2, <1>3 DEF Locks, Filling, Live, Rolling
<1>10. ASSUME ghost.exists
       PROVE  db' = db /\ dbDisk' = dbDisk /\ ~IsHot(jrnl)
  <2>1. ~IsHot(jrnl)
    BY <1>10 DEF IInv, Files
  <2>2. Solid(Image, txn) /\ txn \in Nat /\ JournalOK(jrnl)
    BY TxnFacts DEF IInv, Files, Typed
  <2>3. P.eState = "cachemod"
    BY <1>1, <2>1, <2>2, StampsAre, LiveImage
  <2> QED
    BY <2>1, <2>3
<1>11. ASSUME sound
       PROVE  FirmWriter(N, jrnl, db', dbDisk')
  <2>1. FirmWriter(P, jrnl, db, dbDisk)
    BY <1>1, <1>11
  <2>2. /\ \A k \in 1..N.journalHdr : Firm(jrnl, k)
        /\ N.own # 0 => Unmarked(jrnl, N.own)
        /\ N.own = 0 => (N.journalOff < MaxSlot => Unmarked(jrnl, N.journalOff + 1))
    BY <1>2, <1>4, <2>1 DEF FirmWriter, Filling
  <2>3. N.eState = "cachemod" => Certain(db', dbDisk')
    BY <1>2, <2>1 DEF FirmWriter
  <2>4. Backed(N, jrnl.slots, db', dbDisk')
    BY <1>2, <1>11 DEF Backed
  <2>5. \A p \in Pages : dbDisk'[p] = {db'[p]} \/ p > N.dbOrigSize \/ \E i \in Recs(jrnl.slots, N.journalHdr) : jrnl.slots[i].pg = p
    BY <2>4 DEF Backed
  <2> QED
    BY <1>3, <1>11, <2>2, <2>3, <2>5 DEF FirmWriter, Filling
<1>12. /\ mode' = mode /\ txn' = txn /\ sound' = sound /\ jrnl' = jrnl /\ ghost' = ghost /\ txn \in Nat /\ txn <= txn
       /\ JournalOK(jrnl) /\ Dated(jrnl, txn) /\ txn \in 0..TxnsIn[mode]
  BY TxnFacts DEF history, IInv, Typed, Files
<1>13. N.at # "finish" /\ N.at # "sync-header" /\ "reserved" \in held[c]
  BY <1>1, <1>3 DEF Filling
<1>14. IInv' /\ Image' = Image /\ pager'[c] = N
  BY <1>1, <1>3, <1>8, <1>9, <1>10, <1>11, <1>12, <1>13, WriterStep
<1> QED
  BY <1>3, <1>14

LEMMA CutsFile ==
  ASSUME NEW f, NEW dd, FileOK(f, dd), NEW n, NEW g, g = Cut(f, n), NEW later, later = [p \in Pages |-> dd[p] \union {g[p]}]
  PROVE  /\ FileOK(g, later) /\ \A p \in Pages : later[p] = dd[p] \union {g[p]}
         /\ \A p \in Pages : g[p] = IF p > n THEN Absent ELSE IF f[p] = Absent THEN Torn ELSE f[p]
<1>1. f \in [Pages -> Values] /\ dd \in [Pages -> SUBSET Values]
  BY DEF FileOK
<1>2. \A p \in Pages : g[p] = IF p > n THEN Absent ELSE IF f[p] = Absent THEN Torn ELSE f[p]
  BY CutAt
<1>3. Absent \in Values /\ Torn \in Values
  BY Bounds DEF Values, Absent
<1>4. \A p \in Pages : g[p] \in Values
  BY <1>1, <1>2, <1>3
<1>5. g \in [Pages -> Values]
  BY <1>4 DEF Cut
<1>6. later \in [Pages -> SUBSET Values] /\ \A p \in Pages : later[p] = dd[p] \union {g[p]}
  BY <1>1, <1>4
<1> QED
  BY <1>2, <1>5, <1>6 DEF FileOK

LEMMA BackedLive ==
  ASSUME NEW P, NEW j, NEW f, NEW dd, FirmWriter(P, j, f, dd), P.eState \in Live
  PROVE  Backed(P, j.slots, f, dd)
BY DEF FirmWriter, Backed

\* What is wrong in the cache or in the file has a record.
LEMMA Recordable ==
  ASSUME NEW P \in Connection, NEW s, Written(P, s), NEW f, NEW I, Changed(P, f, I), NEW p \in Pages, p <= P.dbOrigSize,
         P.cache[p] \notin {NotCached, I[p]} \/ f[p] # I[p]
  PROVE  \E i \in Recs(s, P.journalOff) : s[i].pg = p
<1>1. PageOK(P, f, I, p)
  BY DEF Changed
<1>2. p \in Touched(P)
  BY <1>1 DEF PageOK, Target
<1>3. P.dbOrigSize \in Nat /\ p \in Nat
  BY Fields, Bounds
<1>4. p \in P.inJournal
  BY <1>2, <1>3 DEF Touched
<1> QED
  BY <1>4 DEF Written, Recorded

\* pager_playback of the own transaction: the file is truncated.
LEMMA BeginPlaybackLive ==
  ASSUME IInv, NEW c \in Conns, BeginPlayback(c), pager[c].eState \in Live
  PROVE  IInv' /\ Image' = Image /\ pager[c].eState \in Live /\ pager'[c].eState \in Live
<1>0. PICK P : P = pager[c]
  OBVIOUS
<1>1. P.at = "playback" /\ UNCHANGED << held, jrnl, ghost, history >> /\ P.eState \in Live /\ ~Hot(c) /\ P.at \notin Rolling
  BY <1>0 DEF BeginPlayback, Hot, Live, Rolling
<1>2. /\ P \in Connection /\ Writes(P, jrnl, db, Image, txn) /\ Written(P, jrnl.slots)
      /\ Changed(P, db, Image) /\ Sized(Image, P.dbOrigSize) /\ jrnl.slots[1].orig = P.dbOrigSize
      /\ sound => FirmWriter(P, jrnl, db, dbDisk)
  BY <1>0, <1>1, LiveFacts DEF Written
<1>3. FileOK(db, dbDisk) /\ jrnl.slots \in [Slots -> Slot] /\ Solid(Image, txn) /\ txn \in Nat /\ txn <= MaxTxn
  BY TxnFacts DEF IInv, Files, Typed, JournalOK, Journal
<1>4. PICK s : s = jrnl.slots
  OBVIOUS
<1>5. PICK R : R = Recs(s, P.journalOff)
  OBVIOUS
<1>6. Played(s, P.own) = R /\ Begins(s, P.own, 1)
  BY <1>2, <1>3, <1>4, <1>5, PlaysOwn
<1>7. PICK a : a = IF R = {} THEN "sync" ELSE "pages"
  OBVIOUS
<1>8. PICK n : n = P.dbOrigSize
  OBVIOUS
<1>9. PICK N : N = [P EXCEPT !.at = a, !.todo = R, !.dbSize = n, !.cache = P.cache]
  OBVIOUS
<1>10. /\ Become(c, N)
       /\ WritesFile(c) => db' = Cut(db, n) /\ dbDisk' = [p \in Pages |-> dbDisk[p] \union {Cut(db, n)[p]}]
       /\ ~WritesFile(c) => db' = db /\ dbDisk' = dbDisk
  BY <1>0, <1>1, <1>2, <1>4, <1>6, <1>7, <1>8, <1>9 DEF BeginPlayback
<1>11. WritesFile(c) <=> P.eState # "cachemod"
  BY <1>0, <1>1 DEF WritesFile, Live
<1>12. /\ N \in Connection /\ Rolls(P, N) /\ N.at = a /\ N.todo = R /\ N.dbSize = n /\ N.cache = P.cache /\ N.dbFileVers = P.dbFileVers
  <2>1. "sync" \in Steps /\ "pages" \in Steps /\ R \subseteq Nat /\ n \in Sizes
    BY <1>2, <1>5, <1>8, Fields DEF Steps, Recs
  <2> QED
    BY <1>2, <1>7, <1>9, <2>1 DEF Connection, Rolls
<1>13. FileOK(db', dbDisk')
  BY <1>3, <1>10, <1>11, CutsFile
<1>14. ASSUME NEW p \in Pages
       PROVE  db'[p] = Image[p] \/ \E i \in R : s[i].pg = p /\ i <= P.journalHdr
  <2>1. CASE P.eState = "cachemod"
    BY <1>2, <1>10, <1>11, <2>1 DEF Changed
  <2>2. CASE P.eState # "cachemod"
    <3>1. (\E i \in Recs(s, P.journalHdr) : s[i].pg = p) \/ Cut(db, n)[p] = Image[p]
      BY <1>1, <1>2, <1>4, <1>8, CoversLive DEF Covers
    <3>2. \A i \in Recs(s, P.journalHdr) : i \in R /\ i <= P.journalHdr
      <4>1. P.journalHdr \in Nat /\ P.journalOff \in Nat /\ P.journalHdr <= P.journalOff
        BY <1>2, <1>3, <1>4, WrittenFields, EndIs DEF Written, Segment
      <4> QED
        BY <1>5, <4>1 DEF Recs
    <3> QED
      BY <1>10, <1>11, <2>2, <3>1, <3>2
  <2> QED
    BY <2>1, <2>2
<1>15. Undone(N, s, db', Image)
  <2>1. P.cache[1] # NotCached /\ P.dbFileVers = db[1] /\ 1 \in Pages /\ 1 <= n
    BY <1>2, <1>3, <1>8, Bounds, StampsAre DEF Changed, Sized, Pages
  <2>2. P.dbFileVers = Image[1] \/ \E i \in R : s[i].pg = 1
    BY <1>2, <1>4, <1>5, <1>8, <2>1, Recordable
  <2>3. ASSUME NEW p \in Pages
        PROVE  P.cache[p] \in {NotCached, Image[p]} \/ p > n \/ \E i \in R : s[i].pg = p
    <3>1. p \in Nat /\ n \in Nat
      BY <1>2, <1>8, Fields, Bounds
    <3> QED
      BY <1>2, <1>4, <1>5, <1>8, <3>1, Recordable
  <2>4. P.eState = "cachemod" => db' = Image
    BY <1>2, <1>10, <1>11 DEF Changed
  <2>5. N.dbOrigSize = n /\ N.journalHdr = P.journalHdr /\ N.journalOff = P.journalOff /\ N.eState = P.eState
    BY <1>8, <1>12 DEF Rolls
  <2>6. N.todo # {} <=> N.at = "pages"
    BY <1>7, <1>12
  <2> QED
    BY <1>5, <1>12, <1>14, <2>1, <2>2, <2>3, <2>4, <2>5, <2>6 DEF Undone
<1>16. ASSUME sound
       PROVE  Backed(P, s, db', dbDisk')
  <2>1. Backed(P, s, db, dbDisk)
    BY <1>1, <1>2, <1>4, <1>16, BackedLive
  <2>2. CASE P.eState = "cachemod"
    BY <1>10, <1>11, <2>1, <2>2
  <2>3. CASE P.eState # "cachemod"
    <3>1. ASSUME NEW p \in Pages, p <= n, ~\E i \in Recs(s, P.journalHdr) : s[i].pg = p
          PROVE  dbDisk'[p] = {db'[p]}
      <4>1. p \in Nat /\ n \in Nat
        BY <1>2, <1>8, Fields, Bounds
      <4>2. dbDisk[p] = {db[p]}
        BY <1>8, <2>1, <3>1, <4>1 DEF Backed
      <4>3. Cut(db, n)[p] = Image[p]
        BY <1>1, <1>2, <1>4, <1>8, <3>1, CoversLive DEF Covers
      <4>4. Image[p] # Torn
        <5>1. PICK v : v = Image[p]
          OBVIOUS
        <5>2. v \in Nat /\ v <= txn + 1
          BY <1>3, <5>1, StampsAre
        <5> QED
          BY <1>3, <5>1, <5>2, Bounds
      <4>5. Cut(db, n)[p] = db[p]
        BY <3>1, <4>1, <4>3, <4>4, CutAt
      <4>6. dbDisk'[p] = dbDisk[p] \union {Cut(db, n)[p]} /\ db' = Cut(db, n)
        BY <1>10, <1>11, <2>3
      <4> QED
        BY <4>2, <4>5, <4>6
    <3>2. \A p \in Pages : p \in Nat /\ n \in Nat /\ n = P.dbOrigSize
      BY <1>2, <1>8, Fields, Bounds
    <3> QED
      BY <3>1, <3>2 DEF Backed
  <2> QED
    BY <2>2, <2>3
<1>17. N.at \in Rolling /\ N.at # "finalize"
  BY <1>7, <1>12 DEF Rolling
<1> QED
  BY <1>0, <1>1, <1>4, <1>10, <1>11, <1>12, <1>13, <1>15, <1>16, <1>17, RollsStep

\* N is P after it played back record i, of page p with content v.
Plays(P, N, i, p, v) ==
  /\ N.dbSize = P.dbSize /\ N.todo = P.todo \ {i} /\ N.spilling = P.spilling
  /\ N.at \in {"sync", "pages"} /\ (N.todo # {} <=> N.at = "pages")
  /\ N.cache[p] = (IF P.cache[p] = NotCached THEN NotCached ELSE v)
  /\ \A q \in Pages : q # p => N.cache[q] = P.cache[q]
  /\ p = 1 /\ P.cache[1] # NotCached => N.dbFileVers = v
  /\ ~(p = 1 /\ P.cache[1] # NotCached) => N.dbFileVers = P.dbFileVers

\* What becomes of the file.
Restored(f, g, dd, later, p, v, written) ==
  /\ written => FileSet(f, g, dd, later, p, v)
  /\ ~written => g = f /\ later = dd

LEMMA PlayPageIs ==
  ASSUME NEW c \in Conns, PlayPage(c), Typed, NEW P \in Connection, P = pager[c], NEW i, i = Min(P.todo), P.todo # {},
         NEW p \in Pages, p = jrnl.slots[i].pg, NEW v \in Values, v = jrnl.slots[i].val
  PROVE  /\ i \in P.todo /\ UNCHANGED << held, jrnl, ghost, history >> /\ P.at = "pages"
         /\ \E N \in Connection : Become(c, N) /\ Rolls(P, N) /\ Plays(P, N, i, p, v)
         /\ FileOK(db', dbDisk') /\ Restored(db, db', dbDisk, dbDisk', p, v, WritesFile(c) /\ (Hot(c) \/ i <= P.journalHdr))
<1>1. P.todo \in SUBSET Nat /\ i \in P.todo
  <2>1. P.todo \in SUBSET Nat
    BY Fields
  <2> QED
    BY <2>1, LeastOf
<1>2. PICK w : w = (WritesFile(c) /\ (Hot(c) \/ i <= P.journalHdr))
  OBVIOUS
<1>3. /\ P.at = "pages" /\ UNCHANGED << held, jrnl, ghost, history >>
      /\ w => db' = [db EXCEPT ![p] = v] /\ dbDisk' = [dbDisk EXCEPT ![p] = dbDisk[p] \union {v}]
      /\ ~w => db' = db /\ dbDisk' = dbDisk
  BY <1>2 DEF PlayPage
<1>4. PICK x : x = IF P.cache[p] = NotCached THEN NotCached ELSE v
  OBVIOUS
<1>5. PICK y : y = IF p = 1 /\ P.cache[1] # NotCached THEN v ELSE P.dbFileVers
  OBVIOUS
<1>6. PICK C : C = [P.cache EXCEPT ![p] = x]
  OBVIOUS
<1>7. C \in [Pages -> Cached] /\ C[p] = x /\ \A q \in Pages : q # p => C[q] = P.cache[q]
  <2>1. x \in Cached /\ P.cache \in [Pages -> Cached]
    BY <1>4, Fields DEF Cached
  <2> QED
    BY <1>6, <2>1
<1>8. PICK a : a = IF P.todo = {i} THEN "sync" ELSE "pages"
  OBVIOUS
<1>9. PICK N : N = [P EXCEPT !.at = a, !.todo = P.todo \ {i}, !.cache = C, !.dbFileVers = y]
  OBVIOUS
<1>10. Become(c, N)
  <2>1. Become(c, [P EXCEPT !.at = a, !.todo = P.todo \ {i}, !.cache[p] = x, !.dbFileVers = y])
    BY <1>4, <1>5, <1>8 DEF PlayPage
  <2>2. N = [P EXCEPT !.at = a, !.todo = P.todo \ {i}, !.cache[p] = x, !.dbFileVers = y]
    BY <1>6, <1>9 DEF Connection
  <2> QED
    BY <2>1, <2>2
<1>11. /\ N \in Connection /\ Rolls(P, N) /\ N.at = a /\ N.todo = P.todo \ {i} /\ N.cache = C /\ N.dbFileVers = y
       /\ N.dbSize = P.dbSize /\ N.spilling = P.spilling
  <2>1. "sync" \in Steps /\ "pages" \in Steps /\ y \in Values /\ P.todo \ {i} \subseteq Nat
    BY <1>1, <1>5, Fields DEF Steps
  <2> QED
    BY <1>7, <1>8, <1>9, <2>1 DEF Connection, Rolls
<1>12. Plays(P, N, i, p, v)
  <2>1. N.at \in {"sync", "pages"} /\ (N.todo # {} <=> N.at = "pages")
    BY <1>1, <1>8, <1>11
  <2> QED
    BY <1>4, <1>5, <1>7, <1>11, <2>1 DEF Plays
<1>13. FileOK(db', dbDisk') /\ Restored(db, db', dbDisk, dbDisk', p, v, w)
  <2>1. FileOK(db, dbDisk)
    BY DEF Typed
  <2>2. CASE w
    BY <1>3, <2>1, <2>2, SetsFile DEF Restored
  <2>3. CASE ~w
    BY <1>3, <2>1, <2>3 DEF Restored
  <2> QED
    BY <2>2, <2>3
<1> QED
  BY <1>1, <1>2, <1>3, <1>10, <1>11, <1>12, <1>13

LEMMA PlayedUndone ==
  ASSUME NEW P \in Connection, NEW N \in Connection, NEW i \in P.todo, NEW s, NEW p \in Pages, p = s[i].pg, NEW v \in Values, Rolls(P, N), Plays(P, N, i, p, v),
         NEW f, NEW g, NEW dd, NEW later, NEW I, v = I[p], Undone(P, s, f, I), NEW w, Restored(f, g, dd, later, p, v, w),
         ~w => P.eState = "cachemod" \/ ~(i <= P.journalHdr), P.eState = "cachemod" => ~w
  PROVE  Undone(N, s, g, I)
<1>1. /\ P.dbSize = P.dbOrigSize /\ P.todo \subseteq Recs(s, P.journalOff) /\ P.cache[1] # NotCached
      /\ P.dbFileVers = I[1] \/ \E k \in P.todo : s[k].pg = 1
      /\ P.eState = "cachemod" => f = I
  BY DEF Undone
<1>2. /\ N.eState = P.eState /\ N.dbOrigSize = P.dbOrigSize /\ N.journalHdr = P.journalHdr /\ N.journalOff = P.journalOff
      /\ N.dbSize = P.dbSize /\ N.todo = P.todo \ {i} /\ (N.todo # {} <=> N.at = "pages")
  BY DEF Rolls, Plays
<1>3. N.cache[1] # NotCached
  <2>1. v # NotCached /\ 1 \in Pages
    BY Bounds DEF Values, Pages
  <2>2. CASE p = 1
    BY <1>1, <2>1, <2>2 DEF Plays
  <2>3. CASE p # 1
    BY <1>1, <2>1, <2>3 DEF Plays
  <2> QED
    BY <2>2, <2>3
<1>4. N.dbFileVers = I[1] \/ \E k \in N.todo : s[k].pg = 1
  <2>1. CASE p = 1
    BY <1>1, <2>1 DEF Plays
  <2>2. CASE p # 1
    <3>1. N.dbFileVers = P.dbFileVers
      BY <2>2 DEF Plays
    <3> QED
      BY <1>1, <1>2, <2>2, <3>1
  <2> QED
    BY <2>1, <2>2
<1>5. ASSUME NEW q \in Pages
      PROVE  /\ N.cache[q] \in {NotCached, I[q]} \/ q > N.dbOrigSize \/ \E k \in N.todo : s[k].pg = q
             /\ g[q] = I[q] \/ \E k \in N.todo : s[k].pg = q /\ k <= N.journalHdr
  <2>1. /\ P.cache[q] \in {NotCached, I[q]} \/ q > P.dbOrigSize \/ \E k \in P.todo : s[k].pg = q
        /\ f[q] = I[q] \/ \E k \in P.todo : s[k].pg = q /\ k <= P.journalHdr
    BY DEF Undone
  <2>2. CASE q # p
    <3>1. N.cache[q] = P.cache[q] /\ g[q] = f[q]
      BY <2>2 DEF Plays, Restored, FileSet
    <3> QED
      BY <1>2, <2>1, <2>2, <3>1
  <2>3. CASE q = p
    <3>1. N.cache[p] \in {NotCached, I[p]}
      BY DEF Plays
    <3>2. CASE w
      <4>1. g[p] = I[p]
        BY <3>2 DEF Restored, FileSet
      <4> QED
        BY <2>3, <3>1, <4>1
    <3>3. CASE ~w
      <4>1. g = f
        BY <3>3 DEF Restored
      <4>2. f[p] = I[p] \/ \E k \in P.todo : s[k].pg = p /\ k <= P.journalHdr /\ k # i
        BY <1>1, <2>1, <2>3, <3>3
      <4> QED
        BY <1>2, <2>3, <3>1, <4>1, <4>2
    <3> QED
      BY <3>2, <3>3
  <2> QED
    BY <2>2, <2>3
<1>6. P.eState = "cachemod" => g = I
  BY <1>1 DEF Restored
<1> QED
  BY <1>1, <1>2, <1>3, <1>4, <1>5, <1>6 DEF Undone

\* One record of it.
LEMMA PlayPageLive ==
  ASSUME IInv, NEW c \in Conns, PlayPage(c), pager[c].eState \in Live
  PROVE  IInv' /\ Image' = Image /\ pager[c].eState \in Live /\ pager'[c].eState \in Live
<1>0. PICK P : P = pager[c]
  OBVIOUS
<1>1. P.at = "pages" /\ P.eState \in Live /\ ~Hot(c) /\ P.at \in Rolling
  BY <1>0 DEF PlayPage, Hot, Live, Rolling
<1>2. /\ P \in Connection /\ Written(P, jrnl.slots) /\ Kept(P, jrnl.slots, Image)
      /\ Undone(P, jrnl.slots, db, Image) /\ Sized(Image, P.dbOrigSize)
      /\ sound => FirmWriter(P, jrnl, db, dbDisk)
  BY <1>0, <1>1, LiveFacts
<1>3. Typed /\ jrnl.slots \in [Slots -> Slot]
  BY DEF IInv, Typed, JournalOK, Journal
<1>4. PICK i : i = Min(P.todo)
  OBVIOUS
<1>5. P.todo # {} /\ P.todo \subseteq Recs(jrnl.slots, P.journalOff) /\ P.todo \in SUBSET Nat /\ i \in P.todo
  <2>1. P.todo # {} /\ P.todo \subseteq Recs(jrnl.slots, P.journalOff) /\ P.todo \in SUBSET Nat
    BY <1>1, <1>2, Fields DEF Undone
  <2> QED
    BY <1>4, <2>1, LeastOf
<1>6. PICK p : p = jrnl.slots[i].pg
  OBVIOUS
<1>7. PICK v : v = jrnl.slots[i].val
  OBVIOUS
<1>8. p \in Pages /\ v \in Values /\ v = Image[p]
  <2>1. i \in Slots /\ jrnl.slots[i].kind = "rec" /\ p \in Pages
    BY <1>2, <1>3, <1>5, <1>6, RecordsAre
  <2>2. v \in Values
    BY <1>3, <1>7, <2>1, SlotKinds
  <2> QED
    BY <1>2, <1>5, <1>6, <1>7, <2>1, <2>2 DEF Kept
<1>9. PICK w : w = (WritesFile(c) /\ (Hot(c) \/ i <= P.journalHdr))
  OBVIOUS
<1>10. /\ UNCHANGED << held, jrnl, ghost, history >>
       /\ \E N \in Connection : Become(c, N) /\ Rolls(P, N) /\ Plays(P, N, i, p, v)
       /\ FileOK(db', dbDisk') /\ Restored(db, db', dbDisk, dbDisk', p, v, w)
  BY <1>0, <1>2, <1>3, <1>4, <1>5, <1>6, <1>7, <1>8, <1>9, PlayPageIs
<1>11. PICK N \in Connection : Become(c, N) /\ Rolls(P, N) /\ Plays(P, N, i, p, v)
  BY <1>10
<1>12. (~w => P.eState = "cachemod" \/ ~(i <= P.journalHdr)) /\ (w => i <= P.journalHdr) /\ (P.eState = "cachemod" => ~w)
  BY <1>0, <1>1, <1>9 DEF WritesFile, Live
<1>13. Undone(N, jrnl.slots, db', Image)
  <2>1. ASSUME NEW g, NEW later, Restored(db, g, dbDisk, later, p, v, w)
        PROVE  Undone(N, jrnl.slots, g, Image)
    BY <1>2, <1>5, <1>6, <1>8, <1>11, <1>12, <2>1, PlayedUndone
  <2> QED
    BY <1>10, <2>1
<1>14. P.eState = "cachemod" => db' = db /\ dbDisk' = dbDisk
  BY <1>10, <1>12 DEF Restored
<1>15. N.at \in Rolling /\ N.at # "finalize"
  BY <1>11 DEF Plays, Rolling
<1>16. ASSUME sound
       PROVE  Backed(P, jrnl.slots, db', dbDisk')
  <2>1. Backed(P, jrnl.slots, db, dbDisk)
    BY <1>1, <1>2, <1>16, BackedLive
  <2>2. CASE w
    <3>1. FileSet(db, db', dbDisk, dbDisk', p, v)
      BY <1>10, <2>2 DEF Restored
    <3>2. i \in Recs(jrnl.slots, P.journalHdr)
      <4>1. P.journalHdr \in Nat /\ i \in Recs(jrnl.slots, P.journalOff)
        BY <1>2, <1>5, Fields
      <4> QED
        BY <1>12, <2>2, <4>1 DEF Recs
    <3> QED
      BY <1>6, <2>1, <3>1, <3>2 DEF Backed, FileSet
  <2>3. CASE ~w
    BY <1>10, <2>1, <2>3 DEF Restored
  <2> QED
    BY <2>2, <2>3
<1> QED
  BY <1>0, <1>1, <1>10, <1>11, <1>13, <1>14, <1>15, <1>16, RollsStep

\* The end of it: the database file is synced.
LEMMA SyncPlaybackLive ==
  ASSUME IInv, NEW c \in Conns, SyncPlayback(c), pager[c].eState \in Live
  PROVE  IInv' /\ Image' = Image /\ pager[c].eState \in Live /\ pager'[c].eState \in Live
<1>0. PICK P : P = pager[c]
  OBVIOUS
<1>1. P.at = "sync" /\ P.eState \in Live /\ P.at \in Rolling /\ UNCHANGED << held, db, jrnl, ghost, history >>
  BY <1>0 DEF SyncPlayback, Rolling
<1>2. /\ P \in Connection /\ Undone(P, jrnl.slots, db, Image)
      /\ sound => FirmWriter(P, jrnl, db, dbDisk)
  BY <1>0, <1>1, LiveFacts
<1>3. PICK N : N = [P EXCEPT !.at = "finalize"]
  OBVIOUS
<1>4. Become(c, N) /\ N \in Connection /\ Rolls(P, N) /\ N.at = "finalize"
      /\ N.todo = P.todo /\ N.cache = P.cache /\ N.dbFileVers = P.dbFileVers /\ N.dbSize = P.dbSize
  <2>1. Become(c, N)
    BY <1>0, <1>3 DEF SyncPlayback, Goto, Become
  <2>2. "finalize" \in Steps
    BY DEF Steps
  <2> QED
    BY <1>2, <1>3, <2>1, <2>2 DEF Connection, Rolls
<1>5. P.todo = {}
  BY <1>1, <1>2 DEF Undone
<1>6. Undone(N, jrnl.slots, db, Image)
  BY <1>1, <1>2, <1>4, <1>5 DEF Undone, Rolls
<1>7. WritesFile(c) => dbDisk' = [p \in Pages |-> {db[p]}]
  BY <1>0 DEF SyncPlayback
<1>8. ~WritesFile(c) => dbDisk' = dbDisk /\ P.eState = "cachemod"
  BY <1>0, <1>1 DEF SyncPlayback, WritesFile, Live
<1>9. P.eState = "cachemod" => ~WritesFile(c)
  BY <1>0 DEF WritesFile
<1>10. FileOK(db, dbDisk')
  <2>1. FileOK(db, dbDisk)
    BY DEF IInv, Typed
  <2> QED
    BY <1>7, <1>8, <2>1 DEF FileOK
<1>11. sound => Certain(db, dbDisk')
  BY <1>2, <1>7, <1>8 DEF Certain, FirmWriter, Live
<1>12. Certain(db, dbDisk') => Backed(P, jrnl.slots, db, dbDisk')
  BY DEF Certain, Backed
<1>13. N.at \in Rolling /\ db' = db
  BY <1>1, <1>4 DEF Rolling
<1> QED
  BY <1>0, <1>1, <1>4, <1>6, <1>8, <1>9, <1>10, <1>11, <1>12, <1>13, RollsStep

-----------------------------------------------------------------------------
(* The rollback of a hot journal.                                          *)

\* Every page is certain, beyond the end, or in the journal.
Mended(s, f, dd) ==
  \A p \in Pages : dd[p] = {f[p]} \/ p > s[1].orig \/ \E i \in Played(s, 0) : s[i].pg = p

\* A rollback that is interrupted starts anew.
LEMMA FirmSurvives ==
  ASSUME NEW j, JournalOK(j), \A k \in Slots : Firm(j, k), IsHot(j), NEW I, IsImage(I), Agrees(j, I),
         NEW f, NEW dd, ImageOf(f, j) = I, Mended(j.slots, f, dd)
  PROVE  Survives(dd, j, I)
<1>1. SUFFICES ASSUME NEW g, NEW x, MayBe(g, x, dd, j)
               PROVE  Amounts(g, x, I)
  BY DEF Survives
<1>2. x = j.slots
  <2>1. x \in [Slots -> Slot] /\ j.slots \in [Slots -> Slot]
    BY <1>1 DEF MayBe, JournalOK, Journal
  <2>2. \A k \in Slots : x[k] = j.slots[k]
    BY <1>1, FirmSlot
  <2> QED
    BY <2>1, <2>2
<1>3. HasMagic(j.slots[1]) /\ Replayed(f, j.slots) = I /\ \A i \in Played(j.slots, 0) : j.slots[i].val = I[j.slots[i].pg]
  BY DEF IsHot, ImageOf, Agrees
<1>4. ASSUME NEW p \in Pages, \A i \in Played(j.slots, 0) : j.slots[i].pg # p
      PROVE  Cut(g, j.slots[1].orig)[p] = I[p]
  <2>1. Cut(f, j.slots[1].orig)[p] = I[p]
    BY <1>3, <1>4, ReplayedElsewhere
  <2>2. CASE p > j.slots[1].orig
    BY <2>1, <2>2, CutAt
  <2>3. CASE dd[p] = {f[p]}
    <3>1. g[p] = f[p]
      BY <1>1, <2>3, FirmPage
    <3> QED
      BY <2>1, <3>1, CutAt
  <2> QED
    BY <1>4, <2>2, <2>3 DEF Mended
<1>5. Replayed(g, j.slots) = I
  BY <1>3, <1>4, ReplayedIs
<1> QED
  BY <1>2, <1>3, <1>5 DEF Amounts

\* Who rolls back a hot journal is alone.
LEMMA HotFacts ==
  ASSUME IInv, NEW c \in Conns, NEW P, P = pager[c], P.eState = "open", P.at \in Recovering
  PROVE  /\ P \in Connection /\ held[c] = {"shared", "pending", "exclusive"} /\ "reserved" \notin held[c]
         /\ Recovers(P, jrnl, db, Image) /\ Resting(P) /\ Knows(P, Image) /\ P.own = 0
         /\ (P.at \in {"playback"} \union Rolling => jrnl.exists /\ jrnl.durable)
         /\ (P.at # "pages" => P.todo = {}) /\ (P.at = "pages" => P.todo # {} /\ IsHot(jrnl))
         /\ P.dirty = {} /\ P.needSync = {} /\ P.inJournal = {} /\ ~P.spilling /\ P.journalHdr = 0
         /\ (sound => FirmRecovery(P, jrnl, db, dbDisk) /\ Durable(db, dbDisk, jrnl, ghost, Image))
         /\ Typed /\ JournalOK(jrnl) /\ JournalOK(ghost) /\ FileOK(db, dbDisk) /\ Solid(Image, txn) /\ txn \in Nat /\ txn <= MaxTxn
         /\ txn \in 0..TxnsIn[mode] /\ Dated(jrnl, txn) /\ Dated(ghost, txn) /\ IsImage(Image) /\ Files
<1>1. P \in Connection /\ Known(P, held[c], jrnl, db, Image, txn) /\ (sound => Firmly(P, jrnl, db, dbDisk))
  BY Connected
<1>2. held[c] = {"shared", "pending", "exclusive"} /\ "reserved" \notin held[c]
  <2>1. held[c] = {"shared", "pending", "exclusive"}
    BY OpenLocks
  <2> QED
    BY <2>1
<1>3. Recovers(P, jrnl, db, Image) /\ Resting(P) /\ Knows(P, Image) /\ P.eState \notin Live
  BY <1>1 DEF Known, Live
<1>4. /\ P.dirty = {} /\ P.needSync = {} /\ P.inJournal = {} /\ ~P.spilling /\ P.journalHdr = 0 /\ P.own = 0
      /\ (P.at # "pages" => P.todo = {}) /\ (P.at = "pages" => P.todo # {})
  BY <1>3 DEF Resting
<1>5. P.todo # {} => IsHot(jrnl)
  BY <1>3 DEF Recovers
<1>6. P.at \in {"playback"} \union Rolling => jrnl.exists /\ jrnl.durable
  BY <1>3 DEF Recovers
<1>7. Typed /\ Files
  BY DEF IInv
<1>8. JournalOK(jrnl) /\ JournalOK(ghost) /\ FileOK(db, dbDisk) /\ txn \in 0..TxnsIn[mode]
  BY <1>7 DEF Typed
<1>9. Solid(Image, txn) /\ Dated(jrnl, txn) /\ Dated(ghost, txn) /\ txn \in Nat /\ txn <= MaxTxn
  BY <1>7, TxnFacts DEF Files
<1>10. IsImage(Image)
  BY <1>9, StampsAre
<1>11. sound => FirmRecovery(P, jrnl, db, dbDisk) /\ Durable(db, dbDisk, jrnl, ghost, Image)
  BY <1>1 DEF Firmly, IInv, Safe
<1> QED
  BY <1>1, <1>2, <1>3, <1>4, <1>5, <1>6, <1>7, <1>8, <1>9, <1>10, <1>11

LEMMA HotStep ==
  ASSUME IInv, NEW c \in Conns, NEW P, P = pager[c], P.eState = "open", P.at \in {"playback"} \union Rolling,
         NEW N \in Connection, N.eState = "open", N.at \in Rolling, Become(c, N), held' = held, UNCHANGED << jrnl, ghost, history >>,
         FileOK(db', dbDisk'), Recovers(N, jrnl, db', Image), Resting(N), Knows(N, Image), Image' = Image,
         ~IsHot(jrnl) => db' = db /\ (sound => dbDisk' = dbDisk),
         sound => FirmRecovery(N, jrnl, db', dbDisk')
  PROVE  IInv' /\ Image' = Image /\ pager'[c] = N
<1>1. P.at \in Recovering
  BY DEF Recovering
<1>2. /\ held[c] = {"shared", "pending", "exclusive"} /\ "reserved" \notin held[c] /\ "exclusive" \in held[c] /\ "shared" \in held[c] /\ held[c] # {} /\ "pending" \in held[c]
      /\ sound => Durable(db, dbDisk, jrnl, ghost, Image)
      /\ Typed /\ JournalOK(jrnl) /\ JournalOK(ghost) /\ Solid(Image, txn) /\ txn \in Nat
      /\ txn \in 0..TxnsIn[mode] /\ Dated(jrnl, txn) /\ Dated(ghost, txn) /\ IsImage(Image) /\ Files
  BY <1>1, HotFacts
<1>3. jrnl' = jrnl /\ ghost' = ghost /\ mode' = mode /\ txn' = txn /\ sound' = sound
  BY DEF history
<1>4. N.at \notin Looking /\ N.at # "finish" /\ N.at # "version" /\ N.at # "idle" /\ N.at \in Recovering /\ N.at \notin Filling
  BY DEF Rolling, Looking, Recovering, Filling
<1>5. Known(N, held[c], jrnl, db', Image, txn)
  <2>1. Locks(N, held[c])
    BY <1>2, <1>4 DEF Locks, Live
  <2>2. Passed(N, held[c], jrnl)
    BY <1>2, <1>4 DEF Passed
  <2>3. Writes(N, jrnl, db', Image, txn)
    BY DEF Writes, Live
  <2> QED
    BY <2>1, <2>2, <2>3 DEF Known
<1>6. Files'
  <2>1. ghost.exists => db' = db
    BY <1>2 DEF Files
  <2> QED
    BY <1>2, <1>3, <2>1 DEF Files
<1>7. ASSUME sound
      PROVE  Durable(db', dbDisk', jrnl, ghost, Image) /\ Firmly(N, jrnl, db', dbDisk')
  <2>1. FirmRecovery(N, jrnl, db', dbDisk') /\ Durable(db, dbDisk, jrnl, ghost, Image)
    BY <1>2, <1>7
  <2>2. Firmly(N, jrnl, db', dbDisk')
    BY <2>1 DEF Firmly, FirmWriter, Live
  <2>3. ASSUME IsHot(jrnl)
        PROVE  Survives(dbDisk', jrnl, Image)
    <3>1. \A k \in Slots : Firm(jrnl, k)
      BY <2>1 DEF FirmRecovery
    <3>2. Mended(jrnl.slots, db', dbDisk')
      BY <2>1, <2>3 DEF FirmRecovery, Mended
    <3>3. ImageOf(db', jrnl) = Image /\ Agrees(jrnl, Image)
      <4>1. Agrees(jrnl, Image)
        BY <1>2, <2>3 DEF Files
      <4> QED
        BY <1>3, <4>1, ImageNext
    <3> QED
      BY <1>2, <2>3, <3>1, <3>2, <3>3, FirmSurvives
  <2>4. ASSUME ~IsHot(jrnl)
        PROVE  db' = db /\ dbDisk' = dbDisk
    BY <1>7, <2>4
  <2>5. ghost.exists => ~IsHot(jrnl)
    BY <1>2 DEF Files
  <2> QED
    BY <2>1, <2>2, <2>3, <2>4, <2>5 DEF Durable
<1>8. held' = [held EXCEPT ![c] = held[c]] /\ held[c] \in SUBSET LockNames
  BY HeldOnward
<1>9. IInv'
  BY <1>2, <1>3, <1>4, <1>5, <1>6, <1>7, <1>8, Moves
<1>10. pager'[c] = N
  BY <1>2 DEF Become, Typed
<1> QED
  BY <1>9, <1>10

\* What may be there after a power failure may also be there if less is in doubt.
LEMMA SyncSurvives ==
  ASSUME NEW j, JournalOK(j), j.exists, NEW I, NEW dd, Survives(dd, j, I), NEW q, q = Synced(j)
  PROVE  Survives(dd, q, I)
<1>1. SUFFICES ASSUME NEW g, NEW x, MayBe(g, x, dd, q)
               PROVE  MayBe(g, x, dd, j)
  BY DEF Survives
<1>2. ASSUME NEW k \in Slots
      PROVE  x[k] \in Outcomes(j.disk[k], Junk)
  <2>1. Firm(q, k) /\ q.slots = j.slots
    BY SyncedIs
  <2>2. x[k] = j.slots[k]
    BY <1>1, <2>1, FirmSlot
  <2>3. j.slots[k] \in j.disk[k]
    BY DEF JournalOK
  <2> QED
    BY <2>2, <2>3, OutcomesOf
<1> QED
  BY <1>1, <1>2 DEF MayBe

\* The hot journal is opened, and synced before it is believed.
LEMMA ReopenStep ==
  ASSUME IInv, NEW c \in Conns, Reopen(c)
  PROVE  IInv' /\ Image' = Image /\ pager[c].eState = "open" /\ pager'[c].eState = "open"
<1>0. PICK P : P = pager[c]
  OBVIOUS
<1>1. P.eState = "open" /\ P.at = "reopen" /\ UNCHANGED << db, dbDisk, ghost, history >>
  BY <1>0 DEF Reopen, In
<1>2. /\ P \in Connection /\ held[c] = {"shared", "pending", "exclusive"} /\ "reserved" \notin held[c] /\ "exclusive" \in held[c] /\ held[c] # {}
      /\ Resting(P) /\ Knows(P, Image) /\ P.todo = {}
      /\ sound => Durable(db, dbDisk, jrnl, ghost, Image)
      /\ Typed /\ JournalOK(jrnl) /\ JournalOK(ghost) /\ FileOK(db, dbDisk) /\ txn \in Nat
      /\ txn \in 0..TxnsIn[mode] /\ Dated(jrnl, txn) /\ IsImage(Image) /\ Files
  BY <1>0, <1>1, HotFacts DEF Recovering
<1>3. mode' = mode /\ txn' = txn /\ sound' = sound /\ db' = db /\ dbDisk' = dbDisk /\ ghost' = ghost
  BY <1>1 DEF history
<1>4. CASE jrnl.exists
  <2>1. PICK N : N = [P EXCEPT !.at = "playback"]
    OBVIOUS
  <2>2. Become(c, N) /\ held' = held /\ jrnl' = Synced(jrnl)
    BY <1>0, <1>4, <2>1 DEF Reopen, Goto, Become
  <2>3. /\ N \in Connection /\ N.eState = "open" /\ N.at = "playback" /\ N.todo = {} /\ N.dirty = P.dirty /\ N.needSync = P.needSync
        /\ N.inJournal = P.inJournal /\ N.spilling = P.spilling /\ N.own = P.own /\ N.journalHdr = P.journalHdr
        /\ N.dbFileVers = P.dbFileVers /\ N.cache = P.cache
    <3>1. "playback" \in Steps
      BY DEF Steps
    <3> QED
      BY <1>1, <1>2, <2>1, <3>1 DEF Connection
  <2>4. PICK q : q = Synced(jrnl)
    OBVIOUS
  <2>5. /\ JournalOK(q) /\ q.exists /\ q.durable /\ q.slots = jrnl.slots /\ (\A k \in Slots : Firm(q, k))
        /\ (\A k \in Slots : ~HasMagic(jrnl.slots[k]) => Unmarked(q, k)) /\ Dated(q, txn)
    BY <1>2, <1>4, <2>4, SyncedIs
  <2>6. jrnl' = q /\ (IsHot(q) <=> IsHot(jrnl)) /\ (\A I : Agrees(q, I) <=> Agrees(jrnl, I)) /\ ImageOf(db, q) = ImageOf(db, jrnl)
    BY <1>4, <2>2, <2>4, <2>5 DEF IsHot, Agrees, ImageOf
  <2>7. Image' = Image
    BY <1>3, <2>6, ImageIs, ImageNext
  <2>8. Files'
    BY <1>2, <1>3, <2>5, <2>6, <2>7 DEF Files
  <2>9. Known(N, held[c], q, db, Image, txn)
    <3>1. Locks(N, held[c])
      BY <1>2, <2>3 DEF Locks, Recovering, Filling, Live
    <3>2. Passed(N, held[c], q)
      BY <1>2, <2>3 DEF Passed
    <3>3. Resting(N)
      BY <1>1, <1>2, <2>3 DEF Resting, Live
    <3>4. Writes(N, q, db, Image, txn) /\ Recovers(N, q, db, Image)
      BY <2>3, <2>5 DEF Writes, Recovers, Live, Rolling
    <3>5. Knows(N, Image)
      BY <1>1, <1>2, <2>3 DEF Knows, Fits
    <3> QED
      BY <3>1, <3>2, <3>3, <3>4, <3>5 DEF Known
  <2>10. ASSUME sound
         PROVE  Durable(db, dbDisk, q, ghost, Image) /\ Firmly(N, q, db, dbDisk)
    <3>1. Durable(db, dbDisk, jrnl, ghost, Image)
      BY <1>2, <2>10
    <3>2. IsHot(q) => Survives(dbDisk, q, Image)
      BY <1>2, <1>4, <2>4, <2>6, <3>1, SyncSurvives DEF Durable
    <3>3. ~IsHot(q) => Certain(db, dbDisk) /\ Unmarked(q, 1)
      BY <1>4, <2>5, <2>6, <3>1, Bounds DEF Durable, IsHot
    <3>4. Firmly(N, q, db, dbDisk)
      BY <2>3, <2>5 DEF Firmly, FirmWriter, FirmRecovery, Live, Rolling
    <3> QED
      BY <3>1, <3>2, <3>3, <3>4 DEF Durable
  <2>11. held' = [held EXCEPT ![c] = held[c]] /\ held[c] \in SUBSET LockNames
    BY <2>2, HeldOnward
  <2>12. N.at # "finish"
    BY <2>3
  <2>13. IInv'
    BY <1>2, <1>3, <2>2, <2>3, <2>5, <2>6, <2>7, <2>8, <2>9, <2>10, <2>11, <2>12, Moves
  <2>14. pager'[c] = N
    BY <1>2, <2>2 DEF Become, Typed
  <2> QED
    BY <1>0, <1>1, <2>3, <2>7, <2>13, <2>14
<1>5. CASE ~jrnl.exists
  <2>1. Goto(c, "version") /\ held' = [held EXCEPT ![c] = {"shared"}] /\ jrnl' = jrnl
    BY <1>5 DEF Reopen, LockIs
  <2>2. Untouched
    BY <1>3, <2>1 DEF Untouched
  <2>3. ~IsHot(jrnl)
    BY <1>5 DEF IsHot
  <2>4. \A d \in Conns : d # c => Exclude({"shared"}, held[d]) /\ Exclude(held[d], {"shared"})
    <3>1. "exclusive" \notin {"shared"} /\ "reserved" \notin {"shared"}
      OBVIOUS
    <3> QED
      BY <1>2, <3>1, Compatible
  <2>5. "version" \in Steps /\ Suits("version", {"shared"}) /\ pager[c].at # "pages"
    BY <1>0, <1>1 DEF Steps, Suits, Looking
  <2>6. IInv' /\ Image' = Image
    BY <1>0, <1>1, <1>3, <2>1, <2>2, <2>3, <2>4, <2>5, LooksOn
  <2>7. pager'[c].eState = "open"
    BY <1>0, <1>1, <1>2, <2>1 DEF Goto, Typed, Connection
  <2> QED
    BY <1>0, <1>1, <2>6, <2>7
<1> QED
  BY <1>4, <1>5

\* Before the rollback begins, what the journal does not restore is certain.
LEMMA MendedFirst ==
  ASSUME NEW j, JournalOK(j), IsHot(j), NEW I, NEW t \in Nat, t <= MaxTxn, Solid(I, t), NEW f, NEW dd, FileOK(f, dd), ImageOf(f, j) = I,
         Survives(dd, j, I), NEW p \in Pages, \A i \in Played(j.slots, 0) : j.slots[i].pg # p, p <= j.slots[1].orig
  PROVE  dd[p] = {f[p]} /\ f[p] = I[p] /\ Cut(f, j.slots[1].orig)[p] = f[p]
<1>1. PICK n : n = j.slots[1].orig
  OBVIOUS
<1>2. HasMagic(j.slots[1]) /\ j.slots \in [Slots -> Slot] /\ n \in Nat /\ p \in Nat /\ j.exists
  <2>1. j.slots \in [Slots -> Slot] /\ HasMagic(j.slots[1]) /\ 1 \in Slots /\ j.exists
    BY Bounds DEF JournalOK, Journal, IsHot
  <2>2. n \in Pages
    BY <1>1, <2>1, SlotKinds DEF HasMagic, IsHeader
  <2> QED
    BY <2>1, <2>2, Bounds
<1>3. ~(p > n)
  BY <1>1, <1>2
<1>4. ASSUME NEW g, MayBe(g, j.slots, dd, j)
      PROVE  Cut(g, n)[p] = I[p]
  <2>1. Replayed(g, j.slots) = I
    BY <1>4 DEF Survives, Amounts
  <2> QED
    BY <1>1, <1>2, <2>1, ReplayedElsewhere
<1>5. ASSUME NEW g \in [Pages -> Values], \A q \in Pages : g[q] \in dd[q]
      PROVE  MayBe(g, j.slots, dd, j)
  <2>1. \A q \in Pages : g[q] \in Outcomes(dd[q], Torn)
    BY <1>5, OutcomesOf
  <2>2. \A k \in Slots : j.slots[k] \in Outcomes(j.disk[k], Junk)
    BY OutcomesOf DEF JournalOK
  <2> QED
    BY <1>2, <1>5, <2>1, <2>2 DEF MayBe
<1>6. I[p] # Torn
  <2>1. PICK v : v = I[p]
    OBVIOUS
  <2>2. v \in Nat /\ v <= t + 1
    BY <2>1, StampsAre
  <2> QED
    BY <2>1, <2>2, Bounds
<1>7. f \in [Pages -> Values] /\ dd \in [Pages -> SUBSET Values] /\ \A q \in Pages : f[q] \in dd[q]
  BY DEF FileOK
<1>8. ASSUME NEW v \in dd[p]
      PROVE  v = I[p]
  <2>1. PICK g : g = [f EXCEPT ![p] = v]
    OBVIOUS
  <2>2. g \in [Pages -> Values] /\ g[p] = v /\ \A q \in Pages : g[q] \in dd[q]
    BY <1>7, <2>1
  <2>3. Cut(g, n)[p] = I[p]
    BY <1>4, <1>5, <2>2
  <2> QED
    BY <1>3, <1>6, <2>2, <2>3, CutAt
<1>9. f[p] = I[p] /\ dd[p] = {f[p]}
  BY <1>7, <1>8
<1>10. Cut(f, n)[p] = f[p]
  <2>1. Cut(f, n)[p] = I[p]
    BY <1>4, <1>5, <1>7
  <2> QED
    BY <1>9, <2>1
<1> QED
  BY <1>1, <1>9, <1>10

\* pager_playback of a hot journal: the file is truncated.
LEMMA BeginPlaybackHot ==
  ASSUME IInv, NEW c \in Conns, BeginPlayback(c), pager[c].eState = "open"
  PROVE  IInv' /\ Image' = Image /\ pager[c].eState = "open" /\ pager'[c].eState = "open"
<1>0. PICK P : P = pager[c]
  OBVIOUS
<1>1. P.eState = "open" /\ P.at = "playback" /\ UNCHANGED << held, jrnl, ghost, history >> /\ Hot(c) /\ WritesFile(c)
  BY <1>0 DEF BeginPlayback, Hot, WritesFile
<1>2. /\ P \in Connection /\ P.own = 0 /\ P.todo = {} /\ jrnl.exists /\ jrnl.durable /\ Resting(P) /\ Knows(P, Image)
      /\ (sound => FirmRecovery(P, jrnl, db, dbDisk) /\ Durable(db, dbDisk, jrnl, ghost, Image))
      /\ JournalOK(jrnl) /\ FileOK(db, dbDisk) /\ Solid(Image, txn) /\ txn \in Nat /\ txn <= MaxTxn
  BY <1>0, <1>1, HotFacts DEF Recovering
<1>3. P.dirty = {} /\ P.needSync = {} /\ P.inJournal = {} /\ ~P.spilling /\ P.journalHdr = 0
  BY <1>0, <1>1, HotFacts DEF Recovering
<1>4. PICK s : s = jrnl.slots
  OBVIOUS
<1>5. Begins(s, P.own, 1) <=> HasMagic(s[1])
  BY <1>2 DEF Begins, HasMagic
<1>6. IsHot(jrnl) <=> HasMagic(s[1])
  BY <1>2, <1>4 DEF IsHot
<1>7. jrnl' = jrnl /\ P.at \in {"playback"} \union Rolling
  BY <1>1
<1>8. CASE IsHot(jrnl)
  <2>1. PICK R : R = Played(s, 0)
    OBVIOUS
  <2>2. PICK n : n = s[1].orig
    OBVIOUS
  <2>3. PICK a : a = IF R = {} THEN "sync" ELSE "pages"
    OBVIOUS
  <2>4. PICK C : C = IF R # {} THEN Fresh.cache ELSE P.cache
    OBVIOUS
  <2>5. PICK N : N = [P EXCEPT !.at = a, !.todo = R, !.dbSize = n, !.cache = C]
    OBVIOUS
  <2>6. /\ Become(c, N) /\ db' = Cut(db, n) /\ dbDisk' = [p \in Pages |-> dbDisk[p] \union {Cut(db, n)[p]}]
    <3>1. Begins(s, P.own, 1) /\ Played(s, P.own) = R
      BY <1>2, <1>5, <1>6, <1>8, <2>1
    <3>2. Become(c, N)
      BY <1>0, <1>1, <1>4, <2>2, <2>3, <2>4, <2>5, <3>1 DEF BeginPlayback
    <3>3. db' = Cut(db, n) /\ dbDisk' = [p \in Pages |-> dbDisk[p] \union {Cut(db, n)[p]}]
      BY <1>0, <1>1, <1>4, <2>2, <3>1 DEF BeginPlayback
    <3> QED
      BY <3>2, <3>3
  <2>7. n \in Pages /\ n \in Sizes /\ R \subseteq Slots /\ R \subseteq Nat
    <3>1. s \in [Slots -> Slot] /\ 1 \in Slots
      BY <1>2, <1>4, Bounds DEF JournalOK, Journal
    <3>2. n \in Pages
      BY <1>6, <1>8, <2>2, <3>1, SlotKinds DEF HasMagic, IsHeader
    <3>3. n \in Sizes
      BY <3>2, Bounds DEF Sizes, Pages
    <3>4. R \subseteq Slots
      BY <2>1, PlayedIs
    <3> QED
      BY <3>2, <3>3, <3>4, Bounds
  <2>8. /\ N \in Connection /\ N.eState = "open" /\ N.at = a /\ N.todo = R /\ N.cache = C /\ N.dirty = {} /\ N.needSync = {}
        /\ N.inJournal = {} /\ N.spilling = P.spilling /\ N.own = 0 /\ N.journalHdr = 0 /\ N.dbFileVers = P.dbFileVers
    <3>1. "sync" \in Steps /\ "pages" \in Steps /\ C \in [Pages -> Cached]
      BY <1>2, <2>4, FreshIs, Fields DEF Steps
    <3> QED
      BY <1>1, <1>2, <1>3, <2>3, <2>5, <2>7, <3>1 DEF Connection
  <2>9. FileOK(db', dbDisk')
    BY <1>2, <2>6, CutsFile
  <2>10. Image' = Image
    <3>1. Replayed(Cut(db, n), s) = Replayed(db, s)
      BY <1>6, <1>8, <2>2, ReplayedCut
    <3> QED
      BY <1>2, <1>4, <1>7, <2>6, <3>1, ImageIs, ImageNext DEF ImageOf
  <2>11. ASSUME NEW p \in Pages
         PROVE  db'[p] = Image[p] \/ \E i \in R : s[i].pg = p
    <3>1. ASSUME \A i \in R : s[i].pg # p
          PROVE  Cut(db, n)[p] = Image[p]
      <4>1. Image = Replayed(db, s)
        BY <1>2, <1>4, ImageIs DEF ImageOf
      <4> QED
        BY <1>6, <1>8, <2>1, <2>2, <3>1, <4>1, ReplayedElsewhere
    <3> QED
      BY <2>6, <3>1
  <2>12. Recovers(N, jrnl, db', Image)
    <3>1. R # {} => \A p \in Pages : C[p] = NotCached
      BY <2>4, FreshIs
    <3> QED
      BY <1>2, <1>4, <1>8, <2>1, <2>8, <2>11, <3>1 DEF Recovers
  <2>13. Resting(N)
    BY <1>3, <2>3, <2>8 DEF Resting
  <2>14. Knows(N, Image)
    <3>1. P.dbFileVers <= Image[1] /\ (P.dbFileVers = Image[1] => Fits(P, Image))
      BY <1>1, <1>2 DEF Knows
    <3>2. P.dbFileVers = Image[1] => Fits(N, Image)
      BY <2>4, <2>8, <3>1, FreshIs DEF Fits
    <3> QED
      BY <2>8, <3>1, <3>2 DEF Knows
  <2>15. ASSUME sound
         PROVE  FirmRecovery(N, jrnl, db', dbDisk')
    <3>1. \A k \in Slots : Firm(jrnl, k)
      BY <1>1, <1>2, <2>15 DEF FirmRecovery
    <3>2. Survives(dbDisk, jrnl, Image)
      BY <1>2, <1>8, <2>15 DEF Durable
    <3>3. ASSUME NEW p \in Pages, \A i \in R : s[i].pg # p, p <= n
          PROVE  dbDisk'[p] = {db'[p]}
      <4>1. dbDisk[p] = {db[p]} /\ Cut(db, n)[p] = db[p]
        <5>1. ImageOf(db, jrnl) = Image
          BY ImageIs
        <5> QED
          BY <1>2, <1>4, <1>8, <2>1, <2>2, <3>2, <3>3, <5>1, MendedFirst
      <4>2. dbDisk'[p] = dbDisk[p] \union {Cut(db, n)[p]} /\ db' = Cut(db, n)
        BY <2>6
      <4> QED
        BY <4>1, <4>2
    <3>4. \A p \in Pages : p \in Nat /\ n \in Nat
      BY <2>7, Bounds
    <3>5. N.at # "finalize"
      BY <2>3, <2>8
    <3> QED
      BY <1>4, <2>1, <2>2, <2>8, <3>1, <3>3, <3>4, <3>5 DEF FirmRecovery
  <2>16. N.at \in Rolling
    BY <2>3, <2>8 DEF Rolling
  <2>17. IInv' /\ Image' = Image /\ pager'[c] = N
    BY <1>0, <1>1, <1>7, <1>8, <2>6, <2>8, <2>9, <2>10, <2>12, <2>13, <2>14, <2>15, <2>16, HotStep
  <2> QED
    BY <1>0, <1>1, <2>8, <2>17
<1>9. CASE ~IsHot(jrnl)
  <2>1. PICK N : N = [P EXCEPT !.at = "sync"]
    OBVIOUS
  <2>2. Become(c, N) /\ db' = db /\ dbDisk' = dbDisk
    BY <1>0, <1>4, <1>5, <1>6, <1>9, <2>1 DEF BeginPlayback, Goto, Become
  <2>3. /\ N \in Connection /\ N.eState = "open" /\ N.at = "sync" /\ N.todo = {} /\ N.cache = P.cache /\ N.dirty = {} /\ N.needSync = {}
        /\ N.inJournal = {} /\ N.spilling = P.spilling /\ N.own = 0 /\ N.journalHdr = 0 /\ N.dbFileVers = P.dbFileVers
    <3>1. "sync" \in Steps
      BY DEF Steps
    <3> QED
      BY <1>1, <1>2, <1>3, <2>1, <3>1 DEF Connection
  <2>4. Image' = Image
    BY <1>7, <2>2, ImageIs, ImageNext
  <2>5. Recovers(N, jrnl, db', Image) /\ Resting(N) /\ Knows(N, Image)
    BY <1>1, <1>2, <1>3, <1>9, <2>2, <2>3 DEF Recovers, Resting, Knows, Fits
  <2>6. sound => FirmRecovery(N, jrnl, db', dbDisk')
    BY <1>1, <1>2, <1>9, <2>2, <2>3 DEF FirmRecovery
  <2>7. N.at \in Rolling /\ FileOK(db', dbDisk')
    BY <1>2, <2>2, <2>3 DEF Rolling
  <2>8. IInv' /\ Image' = Image /\ pager'[c] = N
    BY <1>0, <1>1, <1>7, <1>9, <2>2, <2>3, <2>4, <2>5, <2>6, <2>7, HotStep
  <2> QED
    BY <1>0, <1>1, <2>3, <2>8
<1> QED
  BY <1>8, <1>9

\* One record of it.
LEMMA PlayPageHot ==
  ASSUME IInv, NEW c \in Conns, PlayPage(c), pager[c].eState = "open"
  PROVE  IInv' /\ Image' = Image /\ pager[c].eState = "open" /\ pager'[c].eState = "open"
<1>0. PICK P : P = pager[c]
  OBVIOUS
<1>1. P.eState = "open" /\ P.at = "pages" /\ Hot(c) /\ WritesFile(c)
  BY <1>0 DEF PlayPage, Hot, WritesFile
<1>2. /\ P \in Connection /\ P.own = 0 /\ P.todo # {} /\ IsHot(jrnl) /\ jrnl.exists /\ jrnl.durable /\ Resting(P) /\ Knows(P, Image)
      /\ (sound => FirmRecovery(P, jrnl, db, dbDisk))
      /\ JournalOK(jrnl) /\ Typed /\ IsImage(Image) /\ Files /\ Recovers(P, jrnl, db, Image)
  BY <1>0, <1>1, HotFacts DEF Recovering, Rolling
<1>3. P.dirty = {} /\ P.needSync = {} /\ P.inJournal = {} /\ ~P.spilling /\ P.journalHdr = 0
  BY <1>0, <1>1, HotFacts DEF Recovering, Rolling
<1>4. PICK s : s = jrnl.slots
  OBVIOUS
<1>5. /\ P.todo \subseteq Played(s, 0) /\ (\A q \in Pages : db[q] = Image[q] \/ \E k \in P.todo : s[k].pg = q)
      /\ (\A q \in Pages : P.cache[q] = NotCached) /\ Agrees(jrnl, Image) /\ HasMagic(s[1]) /\ s \in [Slots -> Slot]
  BY <1>1, <1>2, <1>4 DEF Recovers, Rolling, Files, IsHot, JournalOK, Journal
<1>6. PICK i : i = Min(P.todo)
  OBVIOUS
<1>7. i \in P.todo /\ i \in Played(s, 0)
  <2>1. P.todo \in SUBSET Nat
    BY <1>2, Fields
  <2> QED
    BY <1>2, <1>5, <1>6, <2>1, LeastOf
<1>8. PICK p : p = s[i].pg
  OBVIOUS
<1>9. PICK v : v = s[i].val
  OBVIOUS
<1>10. p \in Pages /\ v \in Values /\ v = Image[p]
  <2>1. PICK h \in Headers(s, 0) : h < i /\ i <= h + Claims(s, 0, h) /\ GoodUpTo(s, h, i) /\ i \in Slots
    BY <1>7, PlayedIs
  <2>2. h \in Nat /\ i \in Nat
    BY <1>5, <2>1, HeaderFields, Bounds
  <2>3. s[i].kind = "rec"
    <3>1. i \in (h + 1)..i
      BY <2>1, <2>2
    <3> QED
      BY <2>1, <3>1 DEF GoodUpTo, Good
  <2>4. s[i].pg \in Pages /\ s[i].val \in Values
    BY <1>5, <2>1, <2>3, SlotKinds
  <2> QED
    BY <1>4, <1>5, <1>7, <1>8, <1>9, <2>4 DEF Agrees
<1>11. PICK w : w = (WritesFile(c) /\ (Hot(c) \/ i <= P.journalHdr))
  OBVIOUS
<1>12. /\ UNCHANGED << held, jrnl, ghost, history >>
       /\ \E N \in Connection : Become(c, N) /\ Rolls(P, N) /\ Plays(P, N, i, p, v)
       /\ FileOK(db', dbDisk') /\ Restored(db, db', dbDisk, dbDisk', p, v, w)
  BY <1>0, <1>2, <1>4, <1>6, <1>8, <1>9, <1>10, <1>11, PlayPageIs
<1>13. PICK N \in Connection : Become(c, N) /\ Rolls(P, N) /\ Plays(P, N, i, p, v)
  BY <1>12
<1>14. FileSet(db, db', dbDisk, dbDisk', p, v)
  BY <1>1, <1>11, <1>12 DEF Restored
<1>15. ASSUME NEW q \in Pages
       PROVE  db'[q] = Image[q] \/ \E k \in N.todo : s[k].pg = q
  <2>1. N.todo = P.todo \ {i}
    BY <1>13 DEF Plays
  <2>2. CASE q = p
    BY <1>10, <1>14, <2>2 DEF FileSet
  <2>3. CASE q # p
    BY <1>5, <1>8, <1>14, <2>1, <2>3 DEF FileSet
  <2> QED
    BY <2>2, <2>3
<1>16. Image' = Image
  <2>1. ASSUME NEW q \in Pages, \A k \in Played(s, 0) : s[k].pg # q
        PROVE  Cut(db', s[1].orig)[q] = Image[q]
    <3>1. Image = Replayed(db, s)
      BY <1>2, <1>4, ImageIs DEF ImageOf
    <3>2. Cut(db, s[1].orig)[q] = Image[q]
      BY <1>5, <2>1, <3>1, ReplayedElsewhere
    <3>3. q # p
      BY <1>7, <1>8, <2>1
    <3>4. db'[q] = db[q]
      BY <1>14, <3>3 DEF FileSet
    <3> QED
      BY <3>2, <3>4, CutAt
  <2>2. \A k \in Played(s, 0) : s[k].val = Image[s[k].pg]
    BY <1>4, <1>5 DEF Agrees
  <2>3. Replayed(db', s) = Image
    BY <1>2, <1>5, <2>1, <2>2, ReplayedIs
  <2>4. Image' = Replayed(db', s)
    BY <1>2, <1>4, <1>12, ImageNext DEF ImageOf
  <2> QED
    BY <2>3, <2>4
<1>17. \A q \in Pages : N.cache[q] = NotCached
  BY <1>5, <1>13 DEF Plays
<1>18. /\ N.eState = "open" /\ N.at \in {"sync", "pages"} /\ N.todo \subseteq P.todo /\ (N.todo # {} <=> N.at = "pages")
       /\ N.dirty = {} /\ N.needSync = {} /\ N.inJournal = {} /\ N.spilling = P.spilling /\ N.own = 0 /\ N.journalHdr = 0
       /\ N.dbFileVers = P.dbFileVers
  <2>1. 1 \in Pages
    BY Bounds, PagerAssumption, <1>10 DEF Pages
  <2>2. P.cache[1] = NotCached
    BY <1>5, <2>1
  <2>3. N.dbFileVers = P.dbFileVers
    BY <1>13, <2>2 DEF Plays
  <2> QED
    BY <1>1, <1>2, <1>3, <1>13, <2>3 DEF Plays, Rolls
<1>19. Recovers(N, jrnl, db', Image)
  BY <1>2, <1>4, <1>5, <1>15, <1>17, <1>18 DEF Recovers
<1>20. Resting(N)
  BY <1>3, <1>18 DEF Resting
<1>21. Knows(N, Image)
  BY <1>1, <1>2, <1>17, <1>18 DEF Knows, Fits
<1>22. ASSUME sound
       PROVE  FirmRecovery(N, jrnl, db', dbDisk')
  <2>1. FirmRecovery(P, jrnl, db, dbDisk)
    BY <1>2, <1>22
  <2>2. \A k \in Slots : Firm(jrnl, k)
    BY <1>1, <2>1 DEF FirmRecovery, Rolling
  <2>3. \A q \in Pages : dbDisk[q] = {db[q]} \/ q > s[1].orig \/ \E k \in Played(s, 0) : s[k].pg = q
    BY <1>1, <1>2, <1>4, <2>1 DEF FirmRecovery, Rolling
  <2>4. \A q \in Pages : dbDisk'[q] = {db'[q]} \/ q > s[1].orig \/ \E k \in Played(s, 0) : s[k].pg = q
    BY <1>7, <1>8, <1>14, <2>3 DEF FileSet
  <2> QED
    BY <1>4, <1>18, <2>2, <2>4 DEF FirmRecovery
<1>23. N.at \in Rolling /\ P.at \in {"playback"} \union Rolling
  BY <1>1, <1>18 DEF Rolling
<1>24. IInv' /\ Image' = Image /\ pager'[c] = N
  BY <1>0, <1>1, <1>2, <1>12, <1>13, <1>16, <1>18, <1>19, <1>20, <1>21, <1>22, <1>23, HotStep
<1> QED
  BY <1>0, <1>1, <1>18, <1>24

\* The end of it: the database file is synced.
LEMMA SyncPlaybackHot ==
  ASSUME IInv, NEW c \in Conns, SyncPlayback(c), pager[c].eState = "open"
  PROVE  IInv' /\ Image' = Image /\ pager[c].eState = "open" /\ pager'[c].eState = "open"
<1>0. PICK P : P = pager[c]
  OBVIOUS
<1>1. P.eState = "open" /\ P.at = "sync" /\ WritesFile(c) /\ UNCHANGED << held, db, jrnl, ghost, history >>
      /\ dbDisk' = [p \in Pages |-> {db[p]}]
  BY <1>0 DEF SyncPlayback, WritesFile
<1>2. /\ P \in Connection /\ P.own = 0 /\ P.todo = {} /\ jrnl.exists /\ jrnl.durable /\ Resting(P) /\ Knows(P, Image)
      /\ (sound => FirmRecovery(P, jrnl, db, dbDisk) /\ Durable(db, dbDisk, jrnl, ghost, Image))
      /\ FileOK(db, dbDisk) /\ Recovers(P, jrnl, db, Image)
  BY <1>0, <1>1, HotFacts DEF Recovering, Rolling
<1>3. P.dirty = {} /\ P.needSync = {} /\ P.inJournal = {} /\ ~P.spilling /\ P.journalHdr = 0
  BY <1>0, <1>1, HotFacts DEF Recovering, Rolling
<1>4. PICK N : N = [P EXCEPT !.at = "finalize"]
  OBVIOUS
<1>5. Become(c, N)
  BY <1>0, <1>4 DEF SyncPlayback, Goto, Become
<1>6. /\ N \in Connection /\ N.eState = "open" /\ N.at = "finalize" /\ N.todo = {} /\ N.cache = P.cache /\ N.dirty = {} /\ N.needSync = {}
      /\ N.inJournal = {} /\ N.spilling = P.spilling /\ N.own = 0 /\ N.journalHdr = 0 /\ N.dbFileVers = P.dbFileVers
  <2>1. "finalize" \in Steps
    BY DEF Steps
  <2> QED
    BY <1>1, <1>2, <1>3, <1>4, <2>1 DEF Connection
<1>7. Image' = Image
  BY <1>1, ImageIs, ImageNext
<1>8. Recovers(N, jrnl, db, Image) /\ Resting(N) /\ Knows(N, Image)
  BY <1>1, <1>2, <1>3, <1>6 DEF Recovers, Resting, Knows, Fits, Rolling
<1>9. FileOK(db, dbDisk') /\ Certain(db, dbDisk')
  BY <1>1, <1>2 DEF FileOK, Certain
<1>10. sound => FirmRecovery(N, jrnl, db, dbDisk')
  BY <1>1, <1>2, <1>6, <1>9 DEF FirmRecovery, Rolling, Certain
<1>11. ~IsHot(jrnl) => (sound => dbDisk' = dbDisk)
  BY <1>1, <1>2 DEF Durable, Certain, FileOK
<1>12. N.at \in Rolling /\ P.at \in {"playback"} \union Rolling /\ db' = db
  BY <1>1, <1>6 DEF Rolling
<1>13. IInv' /\ Image' = Image /\ pager'[c] = N
  BY <1>0, <1>1, <1>5, <1>6, <1>7, <1>8, <1>9, <1>10, <1>11, <1>12, HotStep
<1> QED
  BY <1>0, <1>1, <1>6, <1>13

-----------------------------------------------------------------------------
(* The end of a transaction.                                               *)

\* If a journal comes back that has been removed, the rollback is as sure as before.
LEMMA GhostSurvives ==
  ASSUME NEW j, JournalOK(j), NEW f, NEW dd, FileOK(f, dd), NEW g, NEW I, I = ImageOf(f, j), Durable(f, dd, j, g, I), Certain(f, dd)
  PROVE  Survives(dd, j, I)
<1>1. CASE IsHot(j)
  BY <1>1 DEF Durable
<1>2. CASE ~IsHot(j)
  <2>1. SUFFICES ASSUME NEW h, NEW x, MayBe(h, x, dd, j)
                 PROVE  Amounts(h, x, I)
    BY DEF Survives
  <2>2. Unmarked(j, 1) /\ I = f /\ 1 \in Slots
    BY <1>2, Cold, Bounds DEF Durable
  <2>3. ~HasMagic(x[1])
    BY <2>1, <2>2, FirmSlot
  <2>4. h = f
    <3>1. h \in [Pages -> Values] /\ f \in [Pages -> Values]
      BY <2>1 DEF MayBe, FileOK
    <3>2. \A p \in Pages : h[p] = f[p]
      BY <2>1, FirmPage DEF Certain
    <3> QED
      BY <3>1, <3>2
  <2> QED
    BY <2>2, <2>3, <2>4, ReplayedCold DEF Amounts
<1> QED
  BY <1>1, <1>2

LEMMA TruncatedIs ==
  ASSUME NEW j \in Journal, j.exists, NEW q, q = Synced([j EXCEPT !.slots = NoJournal.slots])
  PROVE  JournalOK(q) /\ ~IsHot(q) /\ Unmarked(q, 1) /\ \A t : Dated(q, t)
<1>1. PICK s : s = [k \in Slots |-> Empty]
  OBVIOUS
<1>2. PICK d : d = [k \in Slots |-> {Empty}]
  OBVIOUS
<1>3. Empty \in Slot /\ Empty.kind = "none"
  BY DEF Slot, Empty
<1>4. s \in [Slots -> Slot] /\ d \in [Slots -> SUBSET Slot] /\ \A k \in Slots : s[k] = Empty /\ d[k] = {Empty}
  BY <1>1, <1>2, <1>3
<1>5. q = [j EXCEPT !.slots = s, !.durable = TRUE, !.disk = d]
  <2>1. NoJournal.slots = s
    BY <1>1 DEF NoJournal, Slots
  <2>2. PICK i : i = [j EXCEPT !.slots = s]
    OBVIOUS
  <2>3. i.slots = s
    BY <2>2 DEF Journal
  <2>4. q = [i EXCEPT !.durable = TRUE, !.disk = [k \in 1..MaxSlot |-> {i.slots[k]}]]
    BY <2>1, <2>2 DEF Synced
  <2>5. [k \in 1..MaxSlot |-> {i.slots[k]}] = d
    BY <1>2, <1>4, <2>3 DEF Slots
  <2> QED
    BY <2>2, <2>4, <2>5 DEF Journal
<1>6. q \in Journal /\ q.slots = s /\ q.disk = d /\ q.exists
  BY <1>4, <1>5 DEF Journal
<1>7. ~HasMagic(Empty)
  BY <1>3 DEF HasMagic, IsHeader
<1>8. 1 \in Slots
  BY Bounds
<1> QED
  BY <1>3, <1>4, <1>6, <1>7, <1>8 DEF JournalOK, IsHot, Unmarked, Dated

LEMMA ZeroedIs ==
  ASSUME NEW j, JournalOK(j), j.exists, NEW q, q = Synced(Put(j, 1, Zeroed))
  PROVE  JournalOK(q) /\ ~IsHot(q) /\ Unmarked(q, 1) /\ \A t : Dated(j, t) => Dated(q, t)
<1>1. Zeroed \in Slot /\ Zeroed.kind = "zero" /\ 1 \in Slots
  BY Bounds DEF Slot, Zeroed
<1>2. PICK i : i = Put(j, 1, Zeroed)
  OBVIOUS
<1>3. PutInto(i, j, 1, Zeroed) /\ \A t : Dated(j, t) => Dated(i, t)
  BY <1>1, <1>2, PutsInto
<1>4. JournalOK(i) /\ i.exists /\ i.slots[1] = Zeroed
  BY <1>3 DEF PutInto
<1>5. ~HasMagic(Zeroed)
  BY <1>1 DEF HasMagic, IsHeader
<1>6. JournalOK(q) /\ q.slots = i.slots /\ (\A k \in Slots : ~HasMagic(i.slots[k]) => Unmarked(q, k)) /\ \A t : Dated(i, t) => Dated(q, t)
  BY <1>2, <1>4, SyncedIs
<1> QED
  BY <1>1, <1>3, <1>4, <1>5, <1>6 DEF IsHot

LEMMA NoJournalSafe == Unmarked(NoJournal, 1)
<1>1. NoJournal.disk[1] = {Empty}
  BY Bounds DEF NoJournal, Slots
<1>2. ~HasMagic(Empty)
  BY DEF HasMagic, IsHeader, Empty
<1> QED
  BY <1>1, <1>2 DEF Unmarked

\* What is left of the journal and of the ghost.
Closed(j, g, f, dd, t, m, firm) ==
  /\ JournalOK(j) /\ JournalOK(g) /\ Dated(j, t) /\ Dated(g, t) /\ ~IsHot(j)
  /\ g.exists => Solid(ImageOf(f, g), t) /\ m = "delete" /\ ~ExtraSync
  /\ firm => Durable(f, dd, j, g, f)

LEMMA ClosedIs ==
  ASSUME NEW j, NEW g, NEW f, NEW dd, NEW t, NEW m, NEW firm \in BOOLEAN,
         JournalOK(j) /\ JournalOK(g) /\ Dated(j, t) /\ Dated(g, t) /\ ~IsHot(j),
         g.exists => Solid(ImageOf(f, g), t) /\ m = "delete" /\ ~ExtraSync,
         firm => Certain(f, dd) /\ Unmarked(j, 1) /\ (g.exists => Survives(dd, g, ImageOf(f, g)))
  PROVE  Closed(j, g, f, dd, t, m, firm)
BY DEF Closed, Durable

\* pager_end_transaction: the journal is deleted, truncated, or its first header zeroed.
LEMMA Finalized ==
  ASSUME IInv, jrnl.exists, NEW used \in BOOLEAN, FinalizeJournal(used), used \/ ~HasMagic(jrnl.slots[1]),
         UNCHANGED << db, dbDisk, mode, txn >>
  PROVE  Image' = db /\ Closed(jrnl', ghost', db, dbDisk, txn, mode, sound /\ Certain(db, dbDisk))
<1>1. /\ JournalOK(jrnl) /\ JournalOK(ghost) /\ FileOK(db, dbDisk) /\ Dated(jrnl, txn) /\ Dated(ghost, txn) /\ Solid(Image, txn)
      /\ (ghost.exists => Solid(ImageOf(db, ghost), txn) /\ mode = "delete" /\ ~ExtraSync)
      /\ mode \in {"delete", "persist", "truncate"} /\ jrnl \in Journal
  BY PagerAssumption DEF IInv, Typed, Files, JournalOK
<1>2. PICK firm : firm = (sound /\ Certain(db, dbDisk))
  OBVIOUS
<1>3. firm \in BOOLEAN
  BY <1>2
<1>4. firm => Certain(db, dbDisk) /\ Durable(db, dbDisk, jrnl, ghost, Image)
  BY <1>2 DEF IInv, Safe
<1>5. firm /\ ghost.exists => Survives(dbDisk, ghost, ImageOf(db, ghost))
  BY <1>4 DEF Durable
<1>6. CASE mode = "delete"
  <2>1. jrnl' = NoJournal /\ ghost' = IF ExtraSync THEN NoJournal ELSE IF jrnl.durable THEN jrnl ELSE ghost
    BY <1>6 DEF FinalizeJournal
  <2>2. JournalOK(NoJournal) /\ NoJournal.exists = FALSE /\ ~IsHot(NoJournal) /\ \A t : Dated(NoJournal, t)
    BY NoJournalIs
  <2>3. CASE ghost' = NoJournal
    BY <1>3, <1>4, <2>1, <2>2, <2>3, NoJournalSafe, ClosedIs, <1>2, Cold, ImageNext
  <2>4. CASE ~ExtraSync /\ ghost' = jrnl
    <3>1. ImageOf(db, jrnl) = Image
      BY ImageIs
    <3>2. firm => Survives(dbDisk, jrnl, ImageOf(db, jrnl))
      BY <1>1, <1>4, <3>1, GhostSurvives
    <3>3. Closed(jrnl', ghost', db, dbDisk, txn, mode, firm)
      BY <1>1, <1>3, <1>4, <1>6, <2>1, <2>2, <2>4, <3>1, <3>2, NoJournalSafe, ClosedIs
    <3>4. Image' = db
      BY <2>1, <2>2, Cold, ImageNext
    <3> QED
      BY <1>2, <3>3, <3>4
  <2>5. CASE ghost' = ghost
    <3>1. Closed(jrnl', ghost', db, dbDisk, txn, mode, firm)
      BY <1>1, <1>3, <1>4, <1>5, <2>1, <2>2, <2>5, NoJournalSafe, ClosedIs
    <3>2. Image' = db
      BY <2>1, <2>2, Cold, ImageNext
    <3> QED
      BY <1>2, <3>1, <3>2
  <2> QED
    BY <2>1, <2>3, <2>4, <2>5
<1>7. CASE mode # "delete"
  <2>1. ~ghost.exists /\ ghost' \in {ghost, NoJournal}
    BY <1>1, <1>7 DEF FinalizeJournal
  <2>2. JournalOK(ghost') /\ Dated(ghost', txn) /\ ~ghost'.exists
    BY <1>1, <2>1, NoJournalIs
  <2>3. JournalOK(jrnl') /\ ~IsHot(jrnl') /\ Dated(jrnl', txn) /\ (firm => Unmarked(jrnl', 1))
    <3>1. CASE ~used
      <4>1. jrnl' = jrnl /\ ~IsHot(jrnl)
        BY <1>1, <1>7, <3>1 DEF FinalizeJournal, IsHot
      <4> QED
        BY <1>1, <1>4, <4>1 DEF Durable
    <3>2. CASE used /\ mode = "persist"
      <4>1. jrnl' = Synced(Put(jrnl, 1, Zeroed))
        BY <3>2 DEF FinalizeJournal
      <4> QED
        BY <1>1, <4>1, ZeroedIs
    <3>3. CASE used /\ mode = "truncate"
      <4>1. jrnl' = Synced([jrnl EXCEPT !.slots = NoJournal.slots])
        BY <3>3 DEF FinalizeJournal
      <4> QED
        BY <1>1, <4>1, TruncatedIs
    <3> QED
      BY <1>1, <1>7, <3>1, <3>2, <3>3
  <2>4. Closed(jrnl', ghost', db, dbDisk, txn, mode, firm)
    BY <1>3, <1>4, <2>2, <2>3, ClosedIs
  <2>5. Image' = db
    BY <2>3, Cold, ImageNext
  <2> QED
    BY <1>2, <2>4, <2>5
<1> QED
  BY <1>6, <1>7

LEMMA EndsStep ==
  ASSUME IInv, NEW c \in Conns, NEW N \in Connection, NEW G \in SUBSET LockNames, Become(c, N), held' = [held EXCEPT ![c] = G],
         G \subseteq held[c], "reserved" \in held[c] \/ "exclusive" \in held[c],
         jrnl.exists, NEW used \in BOOLEAN, FinalizeJournal(used), used \/ ~HasMagic(jrnl.slots[1]), UNCHANGED << db, dbDisk, mode, txn >>,
         N.eState \notin Live, N.todo = {}, N.at \in {"idle", "version"}, Locks(N, G), "reserved" \notin G, Resting(N), Knows(N, db),
         Solid(db, txn), db = Image \/ ("exclusive" \in held[c] /\ Image[1] < db[1]), sound' => sound /\ Certain(db, dbDisk)
  PROVE  IInv' /\ Image' = db /\ pager'[c] = N
<1>1. Image' = db /\ Closed(jrnl', ghost', db, dbDisk, txn, mode, sound /\ Certain(db, dbDisk))
  BY Finalized
<1>2. db' = db /\ dbDisk' = dbDisk /\ mode' = mode /\ txn' = txn
  OBVIOUS
<1>3. /\ JournalOK(jrnl') /\ JournalOK(ghost') /\ Dated(jrnl', txn) /\ Dated(ghost', txn) /\ ~IsHot(jrnl')
      /\ ghost'.exists => Solid(ImageOf(db, ghost'), txn) /\ mode = "delete" /\ ~ExtraSync
      /\ sound' => Durable(db, dbDisk, jrnl', ghost', db)
  BY <1>1 DEF Closed
<1>4. Typed
  BY DEF IInv
<1>5. FileOK(db, dbDisk) /\ txn \in 0..TxnsIn[mode]
  BY <1>4 DEF Typed
<1>6. Files'
  BY <1>1, <1>2, <1>3 DEF Files
<1>7. Passed(N, G, jrnl')
  BY <1>3 DEF Passed
<1>8. Known(N, G, jrnl', db, db, txn) /\ (\A dd : Firmly(N, jrnl', db, dd)) /\ N.at # "finish"
  BY <1>7, Known0
<1>9. \/ Image' = Image /\ (IsHot(jrnl') => IsHot(jrnl) \/ "exclusive" \in held[c])
      \/ "exclusive" \in held[c] /\ Image[1] < Image'[1]
  BY <1>1, <1>3
<1>10. IInv'
  BY <1>1, <1>2, <1>3, <1>5, <1>6, <1>8, <1>9, Moves
<1>11. pager'[c] = N
  BY <1>4 DEF Become, Typed
<1> QED
  BY <1>1, <1>10, <1>11

\* The file has what was rolled back to.
LEMMA UndoneFile ==
  ASSUME NEW P, NEW s, NEW f, NEW dd, FileOK(f, dd), NEW I, NEW t \in Nat, Solid(I, t), Undone(P, s, f, I), P.todo = {}
  PROVE  f = I
<1>1. \A p \in Pages : f[p] = I[p]
  BY DEF Undone
<1>2. f \in [Pages -> Values] /\ I \in [Pages -> 0..(t + 1)]
  BY DEF FileOK, Solid
<1> QED
  BY <1>1, <1>2

\* A commit makes the file what the transaction has written.
LEMMA CommittedFile ==
  ASSUME NEW P \in Connection, NEW f, NEW dd, FileOK(f, dd), NEW I, NEW t \in Nat, t <= MaxTxn, Solid(I, t), I[1] <= t, P.stamp = t + 1,
         Changed(P, f, I), P.dirty = {}, 1 \in Touched(P), Sized(I, P.dbOrigSize), P.inJournal \subseteq 1..P.dbOrigSize
  PROVE  Solid(f, t) /\ I[1] < f[1] /\ Sized(f, P.dbSize) /\ f[1] = I[1] + 1
<1>1. \A p \in Pages : f[p] = Target(P, I, p)
  BY DEF Changed, PageOK
<1>2. f \in [Pages -> Values]
  BY DEF FileOK
<1>3. \A p \in Pages : f[p] \in 0..(t + 1)
  BY <1>1, TargetIs
<1>4. P.dbSize \in Nat /\ P.dbOrigSize \in Nat /\ P.dbSize \in Sizes /\ P.dbSize >= P.dbOrigSize /\ P.dbOrigSize \in Pages
  BY Fields DEF Changed, Sized
<1>5. P.dbSize \in Pages
  BY <1>4, Bounds DEF Sizes, Pages
<1>6. 1 \in Pages /\ I[1] \in Nat /\ I[1] # Absent
  BY StampsAre
<1>7. f[1] = I[1] + 1 /\ I[1] < f[1]
  BY <1>1, <1>6 DEF Target
<1>8. ASSUME NEW p \in Pages
      PROVE  f[p] = Absent <=> p > P.dbSize
  <2>1. p \in Nat /\ (I[p] = Absent <=> p > P.dbOrigSize)
    BY Bounds DEF Sized
  <2>2. CASE p \in Touched(P)
    <3>1. ~(p > P.dbSize)
      BY <1>4, <2>1, <2>2 DEF Touched
    <3>2. Target(P, I, p) = (IF p = 1 THEN I[1] + 1 ELSE t + 1)
      BY <2>2 DEF Target
    <3>3. Target(P, I, p) # 0
      BY <1>6, <3>2
    <3> QED
      BY <1>1, <3>1, <3>3 DEF Absent
  <2>3. CASE p \notin Touched(P)
    <3>1. f[p] = I[p]
      BY <1>1, <2>3 DEF Target
    <3>2. p > P.dbOrigSize <=> p > P.dbSize
      BY <1>4, <2>1, <2>3 DEF Touched
    <3> QED
      BY <2>1, <3>1, <3>2
  <2> QED
    BY <2>2, <2>3
<1>9. Sized(f, P.dbSize)
  BY <1>5, <1>8 DEF Sized
<1> QED
  BY <1>2, <1>3, <1>5, <1>7, <1>9 DEF Solid

\* What a writer at the end of its transaction knows of the file.
Ready(P, f, dd, I, t, s) ==
  /\ Solid(f, t) /\ (P.at = "finalize" => f = I) /\ (P.at = "commit" => I[1] < f[1] /\ f[1] = I[1] + 1)
  /\ P.dbFileVers = f[1] /\ P.cache[1] # NotCached /\ Sized(f, P.dbSize)
  /\ \A p \in Pages : P.cache[p] \in {NotCached, f[p]} \/ p > P.dbSize
  /\ s => Certain(f, dd)

LEMMA EndFacts ==
  ASSUME IInv, NEW c \in Conns, NEW P, P = pager[c], P.eState # "open", P.at \in {"finalize", "commit"}
  PROVE  /\ P \in Connection /\ P.eState \in Live /\ {"shared", "reserved"} \subseteq held[c] /\ jrnl.exists
         /\ (P.at = "commit" => "exclusive" \in held[c] /\ P.eState = "finished") /\ Ready(P, db, dbDisk, Image, txn, sound)
<1>1. P \in Connection /\ Locks(P, held[c]) /\ P.eState \in States
  BY Connected, Fields DEF Known
<1>2. P.eState \in Live
  BY <1>1 DEF Locks, States, Live
<1>3. /\ Writes(P, jrnl, db, Image, txn) /\ {"shared", "reserved"} \subseteq held[c]
      /\ sound => FirmWriter(P, jrnl, db, dbDisk)
      /\ jrnl.exists /\ P.stamp = txn + 1 /\ Image[1] <= txn /\ Sized(Image, P.dbOrigSize)
      /\ Written(P, jrnl.slots)
      /\ P.at \notin Rolling => Changed(P, db, Image) /\ Planned(P, db, Image)
      /\ P.at \in Rolling => Undone(P, jrnl.slots, db, Image)
  BY <1>2, LiveFacts
<1>4. Solid(Image, txn) /\ txn \in Nat /\ txn <= MaxTxn /\ FileOK(db, dbDisk)
  BY TxnFacts DEF IInv, Files, Typed
<1>5. CASE P.at = "finalize"
  <2>1. Undone(P, jrnl.slots, db, Image) /\ P.todo = {}
    BY <1>3, <1>5 DEF Rolling, Undone
  <2>2. db = Image
    BY <1>4, <2>1, UndoneFile
  <2>3. /\ P.dbFileVers = db[1] /\ P.cache[1] # NotCached /\ P.dbSize = P.dbOrigSize
        /\ \A p \in Pages : P.cache[p] \in {NotCached, db[p]} \/ p > P.dbSize
    BY <2>1, <2>2 DEF Undone
  <2>4. sound => Certain(db, dbDisk)
    BY <1>2, <1>3, <1>5 DEF FirmWriter
  <2> QED
    BY <1>1, <1>2, <1>3, <1>4, <1>5, <2>2, <2>3, <2>4 DEF Ready
<1>6. CASE P.at = "commit"
  <2>1. P.eState = "finished" /\ "exclusive" \in held[c]
    BY <1>1, <1>2, <1>6 DEF Locks, Live, Filling, Rolling
  <2>2. Changed(P, db, Image) /\ P.dirty = {} /\ 1 \in Touched(P)
    BY <1>3, <1>6, <2>1 DEF Rolling, Planned
  <2>3. P.inJournal \subseteq 1..P.dbOrigSize
    BY <1>3 DEF Written, Placed
  <2>4. Solid(db, txn) /\ Image[1] < db[1] /\ Sized(db, P.dbSize) /\ db[1] = Image[1] + 1
    BY <1>1, <1>3, <1>4, <2>2, <2>3, CommittedFile
  <2>5. P.dbFileVers = db[1] /\ P.cache[1] # NotCached /\ \A p \in Pages : P.cache[p] \in {NotCached, db[p]}
    BY <2>2 DEF Changed, PageOK
  <2>6. sound => Certain(db, dbDisk)
    BY <1>2, <1>3, <1>6, <2>1 DEF FirmWriter, Rolling
  <2> QED
    BY <1>1, <1>2, <1>3, <1>6, <2>1, <2>4, <2>5, <2>6 DEF Ready
<1> QED
  BY <1>5, <1>6

\* The end of a transaction: the commit point, or the end of its rollback.
LEMMA EndTransactionLive ==
  ASSUME IInv, NEW c \in Conns, EndTransaction(c), pager[c].eState # "open"
  PROVE  /\ IInv' /\ Image' = db /\ db' = db /\ pager[c].eState \in Live /\ pager'[c].eState = "reader"
         /\ (pager[c].at = "finalize" => Image' = Image)
         /\ (pager[c].at = "commit" => Image'[1] = Image[1] + 1 /\ "exclusive" \in held[c])
<1>0. PICK P : P = pager[c]
  OBVIOUS
<1>1. P.at \in {"finalize", "commit"} /\ UNCHANGED << db, dbDisk, history >> /\ ~Hot(c) /\ held' = [held EXCEPT ![c] = {"shared"}]
  BY <1>0 DEF EndTransaction, Hot, LockIs
<1>2. /\ P \in Connection /\ P.eState \in Live /\ {"shared", "reserved"} \subseteq held[c] /\ jrnl.exists
      /\ (P.at = "commit" => "exclusive" \in held[c]) /\ Ready(P, db, dbDisk, Image, txn, sound)
  BY <1>0, <1>1, EndFacts
<1>3. PICK S : S = Settled(P)
  OBVIOUS
<1>4. PICK N : N = [S EXCEPT !.eState = "reader", !.at = "idle"]
  OBVIOUS
<1>5. Become(c, N) /\ FinalizeJournal(TRUE)
  <2>1. (~Hot(c) \/ HasMagic(jrnl.slots[1])) = TRUE
    BY <1>1
  <2>2. FinalizeJournal(~Hot(c) \/ HasMagic(jrnl.slots[1])) /\ Become(c, N)
    BY <1>0, <1>1, <1>3, <1>4 DEF EndTransaction
  <2> QED
    BY <2>1, <2>2
<1>6. /\ N \in Connection /\ N.eState = "reader" /\ N.at = "idle" /\ N.todo = {} /\ N.dirty = {} /\ N.needSync = {}
      /\ N.inJournal = {} /\ N.spilling = FALSE /\ N.own = 0 /\ N.journalHdr = 0 /\ N.dbFileVers = P.dbFileVers /\ N.dbSize = P.dbSize
      /\ Trimmed(P, N)
  <2>1. S \in Connection /\ "reader" \in States /\ "idle" \in Steps
    BY <1>2, <1>3, SettledIs DEF States, Steps
  <2>2. N \in Connection /\ N.eState = "reader" /\ N.at = "idle" /\ N.todo = S.todo /\ N.dirty = S.dirty /\ N.needSync = S.needSync
        /\ N.inJournal = S.inJournal /\ N.spilling = S.spilling /\ N.own = S.own /\ N.journalHdr = S.journalHdr
        /\ N.dbFileVers = S.dbFileVers /\ N.dbSize = S.dbSize /\ N.cache = S.cache
    BY <1>4, <2>1 DEF Connection
  <2>3. /\ S.dirty = {} /\ S.needSync = {} /\ S.inJournal = {} /\ S.dbFileVers = P.dbFileVers
        /\ S.dbSize = P.dbSize /\ S.journalHdr = 0 /\ S.own = 0 /\ S.todo = {} /\ S.spilling = FALSE
    BY <1>2, <1>3, SettledIs
  <2>4. Trimmed(P, S)
    BY <1>2, <1>3, SettledIs
  <2> QED
    BY <2>2, <2>3, <2>4 DEF Trimmed
<1>7. Resting(N)
  BY <1>6 DEF Resting
<1>8. Locks(N, {"shared"})
  BY <1>6 DEF Locks, Live, Filling
<1>9. /\ Solid(db, txn) /\ (P.at = "finalize" => db = Image) /\ (P.at = "commit" => Image[1] < db[1] /\ db[1] = Image[1] + 1)
      /\ P.dbFileVers = db[1] /\ P.cache[1] # NotCached /\ Sized(db, P.dbSize)
      /\ \A p \in Pages : P.cache[p] \in {NotCached, db[p]} \/ p > P.dbSize
      /\ sound => Certain(db, dbDisk)
  BY <1>2 DEF Ready
<1>10. Knows(N, db)
  <2>1. ~(1 > P.dbSize) /\ 1 \in Pages
    <3>1. P.dbSize \in Pages
      BY <1>9 DEF Sized
    <3> QED
      BY <3>1, Bounds DEF Pages
  <2>2. N.cache[1] # NotCached
    BY <1>6, <1>9, <2>1 DEF Trimmed
  <2>3. Fits(N, db)
    BY <1>6, <1>9 DEF Fits, Trimmed
  <2> QED
    BY <1>6, <1>9, <2>2, <2>3 DEF Knows
<1>11. {"shared"} \in SUBSET LockNames /\ "reserved" \notin {"shared"} /\ {"shared"} \subseteq held[c] /\ N.eState \notin Live /\ TRUE \in BOOLEAN
  BY <1>2, <1>6 DEF Live, LockNames
<1>12. mode' = mode /\ txn' = txn /\ sound' = sound /\ db' = db /\ dbDisk' = dbDisk
  BY <1>1 DEF history
<1>13. IInv' /\ Image' = db /\ pager'[c] = N
  BY <1>1, <1>2, <1>5, <1>6, <1>7, <1>8, <1>9, <1>10, <1>11, <1>12, EndsStep
<1> QED
  BY <1>0, <1>2, <1>6, <1>9, <1>12, <1>13

\* A hot journal has been played back.
LEMMA HotDone ==
  ASSUME IInv, NEW c \in Conns, pager[c].eState = "open", pager[c].at = "finalize"
  PROVE  /\ db = Image /\ (sound => Certain(db, dbDisk)) /\ jrnl.exists /\ Solid(db, txn) /\ txn \in Nat
         /\ held[c] = {"shared", "pending", "exclusive"}
<1>0. PICK P : P = pager[c]
  OBVIOUS
<1>1. P.at \in Recovering /\ P.at \in {"playback"} \union Rolling /\ P.at \in Rolling
  BY <1>0 DEF Recovering, Rolling
<1>2. /\ Recovers(P, jrnl, db, Image) /\ jrnl.exists /\ P.todo = {} /\ held[c] = {"shared", "pending", "exclusive"}
      /\ (sound => FirmRecovery(P, jrnl, db, dbDisk)) /\ FileOK(db, dbDisk) /\ Solid(Image, txn) /\ txn \in Nat
  BY <1>0, <1>1, HotFacts
<1>3. db = Image
  <2>1. CASE IsHot(jrnl)
    <3>1. \A p \in Pages : db[p] = Image[p]
      BY <1>0, <1>1, <1>2, <2>1 DEF Recovers
    <3>2. db \in [Pages -> Values] /\ Image \in [Pages -> 0..(txn + 1)]
      BY <1>2 DEF FileOK, Solid
    <3> QED
      BY <3>1, <3>2
  <2>2. CASE ~IsHot(jrnl)
    BY <2>2, Cold, ImageIs
  <2> QED
    BY <2>1, <2>2
<1>4. sound => Certain(db, dbDisk)
  BY <1>0, <1>2 DEF FirmRecovery
<1> QED
  BY <1>2, <1>3, <1>4

\* The end of the rollback of a hot journal.
LEMMA EndTransactionHot ==
  ASSUME IInv, NEW c \in Conns, EndTransaction(c), pager[c].eState = "open"
  PROVE  IInv' /\ Image' = Image /\ db' = db /\ pager[c].at = "finalize" /\ pager'[c].eState = "open"
<1>0. PICK P : P = pager[c]
  OBVIOUS
<1>1. P.at \in {"finalize", "commit"} /\ UNCHANGED << db, dbDisk, history >> /\ Hot(c) /\ held' = [held EXCEPT ![c] = {"shared"}]
  BY <1>0 DEF EndTransaction, Hot, LockIs
<1>2. P.at = "finalize"
  <2>1. Locks(P, held[c])
    BY <1>0, Connected DEF Known
  <2> QED
    BY <1>0, <1>1, <2>1 DEF Locks, Looking, Recovering, Rolling
<1>3. /\ db = Image /\ (sound => Certain(db, dbDisk)) /\ jrnl.exists /\ Solid(db, txn) /\ held[c] = {"shared", "pending", "exclusive"}
  BY <1>0, <1>2, HotDone
<1>4. P \in Connection /\ Knows(P, Image)
  BY <1>0, <1>2, HotFacts DEF Recovering, Rolling
<1>5. PICK S : S = Settled(P)
  OBVIOUS
<1>6. PICK N : N = [S EXCEPT !.at = "version"]
  OBVIOUS
<1>7. PICK used : used = HasMagic(jrnl.slots[1])
  OBVIOUS
<1>8. Become(c, N) /\ FinalizeJournal(used) /\ used \in BOOLEAN
  <2>1. Become(c, N) /\ FinalizeJournal(~Hot(c) \/ HasMagic(jrnl.slots[1]))
    BY <1>0, <1>1, <1>5, <1>6 DEF EndTransaction
  <2>2. (~Hot(c) \/ HasMagic(jrnl.slots[1])) = used
    <3>1. HasMagic(jrnl.slots[1]) \in BOOLEAN
      <4>1. jrnl.slots[1] \in Slot
        BY Bounds DEF IInv, Typed, JournalOK, Journal
      <4> QED
        BY <4>1, SlotKinds DEF HasMagic, IsHeader
    <3> QED
      BY <1>1, <1>7, <3>1
  <2>3. used \in BOOLEAN
    BY <2>2
  <2> QED
    BY <2>1, <2>2, <2>3
<1>9. /\ N \in Connection /\ N.eState = "open" /\ N.at = "version" /\ N.todo = {} /\ N.dirty = {} /\ N.needSync = {}
      /\ N.inJournal = {} /\ N.spilling = FALSE /\ N.own = 0 /\ N.journalHdr = 0 /\ N.dbFileVers = P.dbFileVers
      /\ Trimmed(P, N)
  <2>1. S \in Connection /\ "version" \in Steps
    BY <1>4, <1>5, SettledIs DEF Steps
  <2>2. N \in Connection /\ N.eState = S.eState /\ N.at = "version" /\ N.todo = S.todo /\ N.dirty = S.dirty /\ N.needSync = S.needSync
        /\ N.inJournal = S.inJournal /\ N.spilling = S.spilling /\ N.own = S.own /\ N.journalHdr = S.journalHdr
        /\ N.dbFileVers = S.dbFileVers /\ N.cache = S.cache
    BY <1>6, <2>1 DEF Connection
  <2>3. /\ S.eState = P.eState /\ S.dirty = {} /\ S.needSync = {} /\ S.inJournal = {} /\ S.dbFileVers = P.dbFileVers
        /\ S.journalHdr = 0 /\ S.own = 0 /\ S.todo = {} /\ S.spilling = FALSE
    BY <1>4, <1>5, SettledIs
  <2>4. Trimmed(P, S)
    BY <1>4, <1>5, SettledIs
  <2> QED
    BY <1>0, <2>2, <2>3, <2>4 DEF Trimmed
<1>10. Resting(N)
  BY <1>9 DEF Resting
<1>11. Locks(N, {"shared"})
  BY <1>9 DEF Locks, Live, Filling, Looking
<1>12. Knows(N, db)
  <2>1. P.dbFileVers <= db[1] /\ (P.dbFileVers = db[1] => Fits(P, db))
    BY <1>0, <1>3, <1>4 DEF Knows
  <2>2. Fits(P, db) => Fits(N, db)
    BY <1>9 DEF Fits, Trimmed
  <2> QED
    BY <1>9, <2>1, <2>2 DEF Knows
<1>13. {"shared"} \in SUBSET LockNames /\ "reserved" \notin {"shared"} /\ {"shared"} \subseteq held[c] /\ N.eState \notin Live /\ "exclusive" \in held[c]
  BY <1>3, <1>9 DEF Live, LockNames
<1>14. mode' = mode /\ txn' = txn /\ sound' = sound /\ db' = db /\ dbDisk' = dbDisk
  BY <1>1 DEF history
<1>15. used \/ ~HasMagic(jrnl.slots[1])
  BY <1>7
<1>16. IInv' /\ Image' = db /\ pager'[c] = N
  BY <1>1, <1>3, <1>8, <1>9, <1>10, <1>11, <1>12, <1>13, <1>14, <1>15, EndsStep
<1> QED
  BY <1>0, <1>2, <1>3, <1>9, <1>14, <1>16

\* An error at the end of a transaction: it may be complete or not.
LEMMA FailsAtEnd ==
  ASSUME IInv, NEW c \in Conns, pager[c].eState # "open", pager[c].at \in {"finalize", "commit"},
         Become(c, [Fresh EXCEPT !.eState = "error"]), held' = [held EXCEPT ![c] = {"shared"}],
         FinalizeJournal(TRUE) \/ UNCHANGED << jrnl, ghost >>, sound' = FALSE, UNCHANGED << db, dbDisk, mode, txn >>
  PROVE  /\ IInv' /\ pager[c].eState \in Live /\ pager'[c].eState = "error"
         /\ (Image' = Image \/ (FinalizeJournal(TRUE) /\ pager[c].at = "commit" /\ Image' = db))
<1>0. PICK P : P = pager[c]
  OBVIOUS
<1>1. /\ P.eState \in Live /\ {"shared", "reserved"} \subseteq held[c] /\ jrnl.exists
      /\ (P.at = "commit" => "exclusive" \in held[c]) /\ Ready(P, db, dbDisk, Image, txn, sound)
  BY <1>0, EndFacts
<1>2. Solid(db, txn) /\ (P.at = "finalize" => db = Image) /\ (P.at = "commit" => Image[1] < db[1])
  BY <1>1 DEF Ready
<1>3. PICK N : N = [Fresh EXCEPT !.eState = "error"]
  OBVIOUS
<1>4. PICK G : G = {"shared"}
  OBVIOUS
<1>5. /\ N \in Connection /\ N.eState = "error" /\ N.eState \notin Live /\ N.at = "idle" /\ N.todo = {} /\ Resting(N)
      /\ (\A I : Knows(N, I)) /\ (\A g : "shared" \in g /\ ("exclusive" \in g => "pending" \in g) => Locks(N, g))
      /\ \A g, j : ("reserved" \in g /\ IsHot(j) => "exclusive" \in g) => Passed(N, g, j)
  BY <1>3, ErrorIs
<1>6. Locks(N, G) /\ Passed(N, G, jrnl) /\ Knows(N, db) /\ Knows(N, Image)
  BY <1>4, <1>5
<1>7. G \in SUBSET LockNames /\ "reserved" \notin G /\ "exclusive" \notin G /\ G \subseteq held[c] /\ held[c] # {} /\ "reserved" \in held[c]
  BY <1>1, <1>4 DEF LockNames
<1>8. N.at \in {"idle", "version"} /\ TRUE \in BOOLEAN /\ N.at # "finish"
  BY <1>5
<1>9. pager'[c] = N
  BY <1>3 DEF Become, IInv, Typed
<1>10. CASE FinalizeJournal(TRUE)
  <2>1. db = Image \/ ("exclusive" \in held[c] /\ Image[1] < db[1])
    BY <1>0, <1>1, <1>2
  <2>2. sound' => sound /\ Certain(db, dbDisk)
    OBVIOUS
  <2>3. Become(c, N) /\ held' = [held EXCEPT ![c] = G]
    BY <1>3, <1>4
  <2>4. IInv' /\ Image' = db
    BY <1>1, <1>2, <1>5, <1>6, <1>7, <1>8, <1>10, <2>1, <2>2, <2>3, EndsStep
  <2> QED
    BY <1>0, <1>1, <1>2, <1>5, <1>9, <1>10, <2>4
<1>11. CASE UNCHANGED << jrnl, ghost >>
  <2>1. Untouched
    BY <1>11 DEF Untouched
  <2>2. Known(N, G, jrnl, db, Image, txn)
    BY <1>5, <1>6, <1>8, Known0
  <2>3. \A d \in Conns : d # c => Exclude(G, held[d]) /\ Exclude(held[d], G)
    BY <1>7, Compatible
  <2>4. IInv' /\ Image' = Image
    BY <1>3, <1>4, <1>5, <1>7, <1>8, <2>1, <2>2, <2>3, Quiet
  <2> QED
    BY <1>0, <1>1, <1>5, <1>9, <2>4
<1> QED
  BY <1>10, <1>11

\* An error in the middle of a rollback or a spill: the state is PAGER_ERROR (pager_error).
LEMMA PagerFailsStep ==
  ASSUME IInv, NEW c \in Conns, PagerFails(c), sound' = FALSE, UNCHANGED << db, dbDisk, mode, txn >>
  PROVE  /\ IInv' /\ pager[c].eState \in Live /\ pager'[c].eState = "error"
         /\ (Image' = Image \/ (FinalizeJournal(TRUE) /\ pager[c].at = "commit" /\ Image' = db))
<1>1. Become(c, [Fresh EXCEPT !.eState = "error"])
  BY DEF PagerFails
<1>2. pager[c].at \in Filling \union {"write"} \/ (pager[c].at \in {"playback", "pages", "sync", "finalize", "commit"} /\ pager[c].eState # "open")
  BY DEF PagerFails, Flushing, Filling, Hot
<1>3. CASE pager[c].at \in {"finalize", "commit"}
  <2>1. pager[c].eState # "open"
    BY <1>2, <1>3 DEF Filling
  <2>2. held' = [held EXCEPT ![c] = {"shared"}] /\ (FinalizeJournal(TRUE) \/ UNCHANGED << jrnl, ghost >>)
    BY <1>3 DEF PagerFails, LockIs
  <2> QED
    BY <1>1, <1>3, <2>1, <2>2, FailsAtEnd
<1>4. CASE pager[c].at \notin {"finalize", "commit"}
  <2>1. held' = held /\ Untouched
    BY <1>4 DEF PagerFails, Untouched
  <2>2. pager[c].eState \in Live
    <3>1. Locks(pager[c], held[c]) /\ pager[c].eState \in States
      BY Connected, Fields DEF Known
    <3> QED
      BY <1>2, <3>1 DEF Locks, States, Live, Looking, Recovering, Rolling, Filling
  <2> QED
    BY <1>1, <2>1, <2>2, GivesUp
<1> QED
  BY <1>3, <1>4

\* An error in sqlite3PagerSharedLock: everything is given back.
LEMMA RecoveryFailsStep ==
  ASSUME IInv, NEW c \in Conns, RecoveryFails(c), sound' = FALSE, UNCHANGED << db, dbDisk, mode, txn >>
  PROVE  IInv' /\ Image' = Image /\ pager[c].eState = "open" /\ pager'[c].eState = "open"
<1>1. /\ pager[c].at \in {"reopen", "playback", "pages", "sync", "finalize"} /\ pager[c].eState = "open"
      /\ Become(c, Fresh) /\ held' = [held EXCEPT ![c] = {}]
      /\ UNCHANGED << jrnl, ghost >> \/ (pager[c].at = "finalize" /\ FinalizeJournal(TRUE))
  BY DEF RecoveryFails, Hot, LockIs
<1>2. PICK G : G = {}
  OBVIOUS
<1>3. held[c] = {"shared", "pending", "exclusive"} /\ Solid(Image, txn) /\ txn \in Nat
  BY <1>1, HotFacts DEF Recovering, Rolling
<1>4. G \in SUBSET LockNames /\ "reserved" \notin G /\ "exclusive" \notin G /\ G \subseteq held[c] /\ held[c] # {} /\ "exclusive" \in held[c]
  BY <1>2, <1>3
<1>5. /\ Fresh \in Connection /\ Fresh.eState = "open" /\ Fresh.eState \notin Live /\ Fresh.at \in {"idle", "version"} /\ Fresh.todo = {}
      /\ Known(Fresh, G, jrnl, db, Image, txn) /\ Fresh.at # "finish"
  BY <1>2, <1>3, FreshIs, FreshKnows DEF Live
<1>6. pager'[c] = Fresh
  BY <1>1 DEF Become, IInv, Typed
<1>7. CASE UNCHANGED << jrnl, ghost >>
  <2>1. Untouched
    BY <1>7 DEF Untouched
  <2>2. \A d \in Conns : d # c => Exclude(G, held[d]) /\ Exclude(held[d], G)
    BY <1>4, Compatible
  <2>3. IInv' /\ Image' = Image
    BY <1>1, <1>2, <1>4, <1>5, <2>1, <2>2, Quiet
  <2> QED
    BY <1>1, <1>5, <1>6, <2>3
<1>8. CASE pager[c].at = "finalize" /\ FinalizeJournal(TRUE)
  <2>1. db = Image /\ jrnl.exists /\ Solid(db, txn)
    BY <1>1, <1>8, HotDone
  <2>2. Locks(Fresh, G) /\ Resting(Fresh) /\ Knows(Fresh, db)
    BY <1>5, <2>1 DEF Known
  <2>3. sound' => sound /\ Certain(db, dbDisk)
    OBVIOUS
  <2>4. held' = [held EXCEPT ![c] = G] /\ TRUE \in BOOLEAN
    BY <1>1, <1>2
  <2>5. IInv' /\ Image' = db
    BY <1>1, <1>4, <1>5, <1>8, <2>1, <2>2, <2>3, <2>4, EndsStep
  <2> QED
    BY <1>1, <1>5, <1>6, <2>1, <2>5
<1> QED
  BY <1>1, <1>7, <1>8

\* Any of the errors.
LEMMA IoErrorStep ==
  ASSUME IInv, NEW c \in Conns, IoError(c)
  PROVE  /\ IInv'
         /\ \/ Image' = Image /\ pager[c].eState \in Live /\ pager'[c].eState \in Live
            \/ Image' = Image /\ pager[c].eState = "open" /\ pager'[c].eState = "open"
            \/ Image' = Image /\ pager[c].eState \in Live /\ pager'[c].eState = "error"
            \/ FinalizeJournal(TRUE) /\ pager[c].at = "commit" /\ Image' = db /\ pager[c].eState \in Live /\ pager'[c].eState = "error"
<1>1. sound' = FALSE /\ UNCHANGED << db, dbDisk, mode, txn >>
  BY DEF IoError
<1>2. CASE CommitFails(c)
  BY <1>1, <1>2, CommitFailsStep
<1>3. CASE PagerFails(c)
  BY <1>1, <1>3, PagerFailsStep
<1>4. CASE RecoveryFails(c)
  BY <1>1, <1>4, RecoveryFailsStep
<1> QED
  BY <1>2, <1>3, <1>4 DEF IoError

-----------------------------------------------------------------------------
(* A power failure.                                                        *)

Extended(fs, S) == {Append(f, v) : f \in fs, v \in S}

\* The picks from the first k sets, for each k up to n.
ArePicks(x, sets, n) == x = [k \in 0..n |-> IF k = 0 THEN {<< >>} ELSE Extended(x[k - 1], sets[k])]

\* They are well defined.
LEMMA PickRecursion ==
  ASSUME NEW sets, NEW n \in Nat
  PROVE  \E x : ArePicks(x, sets, n)
<1> DEFINE One(x, k) == Extended(x, sets[k])
           Bad == {k \in Nat : ~\E x : x = [h \in 0..k |-> IF h = 0 THEN {<< >>} ELSE One(x[h - 1], h)]}
<1>1. SUFFICES ASSUME n \in Bad
               PROVE  FALSE
  BY DEF ArePicks
<1> HIDE DEF One
<1>2. PICK k \in Bad : \A i \in Bad : k <= i
  <2>1. Bad \in SUBSET Nat /\ Bad # {}
    BY <1>1
  <2> HIDE DEF Bad
  <2> QED
    BY <2>1, LeastOf
<1>3. CASE k = 0
  <2>1. PICK x : x = [j \in 0..0 |-> {<< >>}]
    OBVIOUS
  <2>2. x = [j \in 0..0 |-> IF j = 0 THEN {<< >>} ELSE One(x[j - 1], j)]
    BY <2>1
  <2> QED
    BY <1>2, <1>3, <2>2
<1>4. CASE k # 0
  <2>1. k \in Nat /\ k - 1 \in Nat /\ k - 1 \notin Bad
    <3>1. k \in Nat
      BY <1>2
    <3> HIDE DEF Bad
    <3>2. k - 1 \in Nat /\ ~(k <= k - 1)
      BY <1>4, <3>1
    <3> QED
      BY <1>2, <3>1, <3>2
  <2>2. PICK x : x = [j \in 0..(k - 1) |-> IF j = 0 THEN {<< >>} ELSE One(x[j - 1], j)]
    BY <2>1
  <2>3. PICK y : y = [j \in 0..k |-> IF j < k THEN x[j] ELSE One(x[j - 1], j)]
    OBVIOUS
  <2>4. ASSUME NEW j \in 0..k
        PROVE  y[j] = IF j = 0 THEN {<< >>} ELSE One(y[j - 1], j)
    <3>1. j # 0 => j - 1 \in 0..k /\ j - 1 < k /\ y[j - 1] = x[j - 1]
      BY <2>1, <2>3
    <3>2. CASE j < k
      <4>1. y[j] = x[j] /\ j \in 0..(k - 1)
        BY <2>1, <2>3, <3>2
      <4>2. x[j] = IF j = 0 THEN {<< >>} ELSE One(x[j - 1], j)
        BY <2>2, <4>1
      <4> QED
        BY <3>1, <4>1, <4>2
    <3>3. CASE ~(j < k)
      <4>1. j # 0 /\ y[j] = One(x[j - 1], j)
        BY <1>4, <2>1, <2>3, <3>3
      <4> QED
        BY <3>1, <4>1
    <3> QED
      BY <3>2, <3>3
  <2>5. y = [j \in 0..k |-> IF j = 0 THEN {<< >>} ELSE One(y[j - 1], j)]
    BY <2>3, <2>4
  <2> QED
    BY <1>2, <2>5
<1> QED
  BY <1>3, <1>4

\* What is picked is one of each set.
LEMMA PicksAre ==
  ASSUME NEW n \in Nat, NEW sets, DOMAIN sets = 1..n, Len(sets) = n, NEW T, \A k \in 1..n : sets[k] \subseteq T,
         NEW f \in Picks(sets)
  PROVE  f \in [1..n -> T] /\ \A k \in 1..n : f[k] \in sets[k]
<1> DEFINE x == CHOOSE y : ArePicks(y, sets, n)
<1>1. Picks(sets) = x[n]
  BY DEF Picks, ArePicks, Extended
<1>2. ArePicks(x, sets, n)
  <2>1. \E y : ArePicks(y, sets, n)
    BY PickRecursion
  <2> QED
    BY <2>1
<1> HIDE DEF x
<1> DEFINE Q(k) == \A g \in x[k] : g \in Seq(T) /\ Len(g) = k /\ \A i \in 1..k : g[i] \in sets[i]
           Bad == {k \in 0..n : ~Q(k)}
<1>3. \A k \in 0..n : x[k] = IF k = 0 THEN {<< >>} ELSE Extended(x[k - 1], sets[k])
  BY <1>2 DEF ArePicks
<1>4. Q(0)
  <2>1. x[0] = {<< >>}
    BY <1>3
  <2>2. << >> \in Seq(T) /\ Len(<< >>) = 0
    OBVIOUS
  <2> QED
    BY <2>1, <2>2
<1>5. ASSUME NEW k \in 1..n, Q(k - 1)
      PROVE  Q(k)
  <2>1. SUFFICES ASSUME NEW g \in x[k]
                 PROVE  g \in Seq(T) /\ Len(g) = k /\ \A i \in 1..k : g[i] \in sets[i]
    OBVIOUS
  <2>2. k \in 0..n /\ k # 0
    OBVIOUS
  <2>3. PICK h \in x[k - 1], v \in sets[k] : g = Append(h, v)
    <3>1. g \in Extended(x[k - 1], sets[k])
      BY <1>3, <2>1, <2>2
    <3> QED
      BY <3>1 DEF Extended
  <2>4. h \in Seq(T) /\ Len(h) = k - 1 /\ (\A i \in 1..(k - 1) : h[i] \in sets[i]) /\ v \in T
    BY <1>5, <2>3
  <2>5. g \in Seq(T) /\ Len(g) = Len(h) + 1 /\ (\A i \in 1..Len(h) : g[i] = h[i]) /\ g[Len(h) + 1] = v
    BY <2>3, <2>4, AppendProperties
  <2>6. Len(g) = k /\ g[k] = v /\ \A i \in 1..(k - 1) : g[i] = h[i]
    BY <2>4, <2>5
  <2>7. \A i \in 1..k : i = k \/ i \in 1..(k - 1)
    OBVIOUS
  <2> QED
    BY <2>3, <2>4, <2>5, <2>6, <2>7
<1>6. Q(n)
  <2>1. SUFFICES ASSUME Bad # {}
                 PROVE  FALSE
    <3>1. n \in 0..n
      OBVIOUS
    <3> QED
      BY <3>1
  <2>2. PICK k \in Bad : \A i \in Bad : k <= i
    <3>1. Bad \in SUBSET Nat
      OBVIOUS
    <3> HIDE DEF Bad
    <3> QED
      BY <2>1, <3>1, LeastOf
  <2>3. k \in 0..n /\ ~Q(k)
    BY <2>2
  <2> HIDE DEF Q
  <2>4. k # 0
    BY <1>4, <2>3
  <2>5. k \in 1..n /\ k - 1 \in 0..n /\ ~(k <= k - 1)
    BY <2>3, <2>4
  <2>6. Q(k - 1)
    BY <2>2, <2>5
  <2> QED
    BY <1>5, <2>3, <2>5, <2>6
<1>7. f \in Seq(T) /\ Len(f) = n /\ \A i \in 1..n : f[i] \in sets[i]
  BY <1>1, <1>6
<1> QED
  BY <1>7, LenProperties

\* The files after a power failure are among those that were prepared for.
LEMMA Restarted ==
  ASSUME Typed, NEW f \in Picks([p \in Pages |-> Outcomes(dbDisk[p], Torn)]), NEW j, JournalOK(j),
         NEW s \in Picks([k \in 1..MaxSlot |-> Outcomes(j.disk[k], Junk)])
  PROVE  MayBe(f, s, dbDisk, j)
<1>1. ASSUME NEW p \in Pages
      PROVE  Outcomes(dbDisk[p], Torn) \subseteq Values
  <2>1. dbDisk[p] \subseteq Values /\ Torn \in Values
    BY Bounds DEF Typed, FileOK, Values
  <2> QED
    BY <2>1, OutcomesOf
<1>2. ASSUME NEW k \in Slots
      PROVE  Outcomes(j.disk[k], Junk) \subseteq Slot
  <2>1. j.disk[k] \subseteq Slot /\ Junk \in Slot
    BY DEF JournalOK, Journal, Slot
  <2> QED
    BY <2>1, OutcomesOf
<1>3. PICK a : a = [p \in Pages |-> Outcomes(dbDisk[p], Torn)]
  OBVIOUS
<1>4. PICK b : b = [k \in 1..MaxSlot |-> Outcomes(j.disk[k], Junk)]
  OBVIOUS
<1>5. DOMAIN a = 1..MaxPage /\ \A p \in 1..MaxPage : a[p] = Outcomes(dbDisk[p], Torn) /\ a[p] \subseteq Values
  BY <1>1, <1>3 DEF Pages
<1>6. DOMAIN b = 1..MaxSlot /\ \A k \in 1..MaxSlot : b[k] = Outcomes(j.disk[k], Junk) /\ b[k] \subseteq Slot
  BY <1>2, <1>4 DEF Slots
<1>7. Len(a) = MaxPage
  <2>1. a \in Seq(SUBSET Values)
    <3>1. a \in [1..MaxPage -> SUBSET Values] /\ MaxPage \in Nat
      BY <1>3, <1>5, Bounds DEF Pages
    <3> QED
      BY <3>1, SeqDef
  <2> QED
    BY <1>5, <2>1, Bounds, LenProperties
<1>8. Len(b) = MaxSlot
  <2>1. b \in Seq(SUBSET Slot)
    <3>1. b \in [1..MaxSlot -> SUBSET Slot] /\ MaxSlot \in Nat
      BY <1>4, <1>6, Bounds
    <3> QED
      BY <3>1, SeqDef
  <2> QED
    BY <1>6, <2>1, Bounds, LenProperties
<1>9. f \in [1..MaxPage -> Values] /\ \A p \in 1..MaxPage : f[p] \in a[p]
  BY <1>3, <1>5, <1>7, Bounds, PicksAre
<1>10. s \in [1..MaxSlot -> Slot] /\ \A k \in 1..MaxSlot : s[k] \in b[k]
  BY <1>4, <1>6, <1>8, Bounds, PicksAre
<1> QED
  BY <1>5, <1>6, <1>9, <1>10 DEF MayBe, Pages, Slots

\* The journal that is there after a power failure.
LEMMA RestartedJournal ==
  ASSUME NEW j, JournalOK(j), j.exists, NEW s \in [Slots -> Slot], NEW q, q = Synced([j EXCEPT !.slots = s]), NEW f, NEW dd, MayBe(f, s, dd, j)
  PROVE  /\ JournalOK(q) /\ q.exists /\ q.durable /\ q.slots = s /\ (\A k \in Slots : Firm(q, k)) /\ (\A t : Dated(j, t) => Dated(q, t))
         /\ \A k \in Slots : ~HasMagic(s[k]) => Unmarked(q, k)
<1>1. PICK d : d = [k \in Slots |-> {s[k]}]
  OBVIOUS
<1>2. d \in [Slots -> SUBSET Slot] /\ \A k \in Slots : d[k] = {s[k]}
  BY <1>1
<1>3. q = [j EXCEPT !.slots = s, !.durable = TRUE, !.disk = d]
  <2>1. PICK i : i = [j EXCEPT !.slots = s]
    OBVIOUS
  <2>2. i.slots = s
    BY <2>1 DEF JournalOK, Journal
  <2>3. q = [i EXCEPT !.durable = TRUE, !.disk = [k \in 1..MaxSlot |-> {i.slots[k]}]]
    BY <2>1 DEF Synced
  <2>4. [k \in 1..MaxSlot |-> {i.slots[k]}] = d
    BY <1>1, <2>2 DEF Slots
  <2> QED
    BY <2>1, <2>3, <2>4 DEF JournalOK, Journal
<1>4. q \in Journal /\ q.slots = s /\ q.disk = d /\ q.exists /\ q.durable
  BY <1>2, <1>3 DEF JournalOK, Journal
<1>5. JournalOK(q) /\ \A k \in Slots : Firm(q, k)
  BY <1>2, <1>4 DEF JournalOK, Firm
<1>6. ASSUME NEW t, Dated(j, t)
      PROVE  Dated(q, t)
  <2>1. SUFFICES ASSUME NEW k \in Slots, s[k].kind \in {"hdr", "rec"}
                 PROVE  s[k].init <= t + 1
    BY <1>2, <1>4 DEF Dated
  <2>2. s[k] \in j.disk[k] \union {Junk}
    BY FirmSlot
  <2>3. s[k] # Junk
    BY <2>1 DEF Junk
  <2> QED
    BY <1>6, <2>1, <2>2, <2>3 DEF Dated
<1>7. \A k \in Slots : ~HasMagic(s[k]) => Unmarked(q, k)
  BY <1>2, <1>4 DEF Unmarked
<1> QED
  BY <1>4, <1>5, <1>6, <1>7

\* Everybody begins anew.
LEMMA AllFresh ==
  ASSUME NEW J, JournalOK(J), NEW f \in [Pages -> Values], NEW I, NEW t \in Nat, Solid(I, t), Dated(J, t), ImageOf(f, J) = I,
         IsHot(J) => J.durable /\ Agrees(J, I) /\ (\A k \in Slots : Firm(J, k)), ~IsHot(J) => Unmarked(J, 1),
         NEW dd, \A p \in Pages : dd[p] = {f[p]}
  PROVE  Durable(f, dd, J, NoJournal, I)
<1>1. IsImage(I) /\ Certain(f, dd) /\ Mended(J.slots, f, dd)
  BY StampsAre DEF Certain, Mended
<1>2. IsHot(J) => Survives(dd, J, I)
  BY <1>1, FirmSurvives
<1> QED
  BY <1>1, <1>2, NoJournalIs DEF Durable

\* A power failure: the files are among those that were prepared for, everybody begins anew.
LEMMA PowerFailsStep ==
  ASSUME IInv, PowerFails
  PROVE  /\ IInv' /\ ghost' = NoJournal /\ (\A c \in Conns : pager'[c] = Fresh)
         /\ Image' = Image \/ (ghost.exists /\ Image' = ImageOf(db, ghost))
<1>1. /\ sound /\ pager' = [c \in Conns |-> Fresh] /\ held' = [c \in Conns |-> {}] /\ ghost' = NoJournal
      /\ mode' = mode /\ txn' = txn /\ sound' = sound
  BY DEF PowerFails
<1>2. PICK f \in Picks([p \in Pages |-> Outcomes(dbDisk[p], Torn)]) : db' = f /\ dbDisk' = [p \in Pages |-> {f[p]}]
  BY DEF PowerFails
<1>3. PICK j \in {jrnl} \union (IF jrnl.durable THEN {} ELSE {NoJournal, ghost}) :
        \E s \in Picks([k \in 1..MaxSlot |-> Outcomes(j.disk[k], Junk)]) : jrnl' = IF j.exists THEN Synced([j EXCEPT !.slots = s]) ELSE NoJournal
  BY DEF PowerFails
<1>4. PICK s \in Picks([k \in 1..MaxSlot |-> Outcomes(j.disk[k], Junk)]) : jrnl' = IF j.exists THEN Synced([j EXCEPT !.slots = s]) ELSE NoJournal
  BY <1>3
<1>5. /\ Typed /\ JournalOK(jrnl) /\ JournalOK(ghost) /\ FileOK(db, dbDisk) /\ Dated(jrnl, txn) /\ Dated(ghost, txn) /\ Solid(Image, txn)
      /\ (ghost.exists => Solid(ImageOf(db, ghost), txn)) /\ (IsHot(jrnl) => jrnl.durable) /\ mode \in Modes /\ txn \in 0..TxnsIn[mode] /\ txn \in Nat
  BY TxnFacts DEF IInv, Typed, Files
<1>6. JournalOK(NoJournal) /\ NoJournal.exists = FALSE /\ ~IsHot(NoJournal) /\ (\A t : Dated(NoJournal, t)) /\ Unmarked(NoJournal, 1)
  BY NoJournalIs, NoJournalSafe
<1>7. Durable(db, dbDisk, jrnl, ghost, Image)
  BY <1>1 DEF IInv, Safe
<1>8. JournalOK(j) /\ Dated(j, txn) /\ j \in {jrnl, NoJournal, ghost} /\ (j = jrnl \/ ~jrnl.durable)
  BY <1>3, <1>5, <1>6
<1>9. MayBe(f, s, dbDisk, j)
  BY <1>2, <1>4, <1>5, <1>8, Restarted
<1>10. f \in [Pages -> Values] /\ s \in [Slots -> Slot]
  BY <1>9 DEF MayBe
<1>11. Certain(db, dbDisk) => f = db
  <2>1. db \in [Pages -> Values]
    BY <1>5 DEF FileOK
  <2>2. ASSUME Certain(db, dbDisk), NEW p \in Pages
        PROVE  f[p] = db[p]
    BY <1>9, <2>2, FirmPage DEF Certain
  <2> QED
    BY <1>10, <2>1, <2>2
<1>12. PICK q : q = jrnl'
  OBVIOUS
<1>13. PICK I : /\ I = Image \/ (ghost.exists /\ I = ImageOf(db, ghost))
                /\ ImageOf(f, q) = I /\ Solid(I, txn) /\ JournalOK(q) /\ Dated(q, txn)
                /\ (IsHot(q) => q.durable /\ Agrees(q, I) /\ (\A k \in Slots : Firm(q, k))) /\ (~IsHot(q) => Unmarked(q, 1))
  <2>1. CASE j.exists
    <3>1. q = Synced([j EXCEPT !.slots = s])
      BY <1>4, <1>12, <2>1
    <3>2. /\ JournalOK(q) /\ q.exists /\ q.durable /\ q.slots = s /\ (\A k \in Slots : Firm(q, k)) /\ (\A t : Dated(j, t) => Dated(q, t))
          /\ \A k \in Slots : ~HasMagic(s[k]) => Unmarked(q, k)
      BY <1>8, <1>9, <1>10, <2>1, <3>1, RestartedJournal
    <3>3. PICK I : /\ I = Image \/ (ghost.exists /\ I = ImageOf(db, ghost))
                   /\ Solid(I, txn) /\ Survives(dbDisk, j, I)
      <4>1. CASE j = jrnl
        <5>1. Image = ImageOf(db, jrnl)
          BY ImageIs
        <5>2. CASE IsHot(jrnl)
          BY <1>5, <1>7, <4>1, <5>2 DEF Durable
        <5>3. CASE ~IsHot(jrnl)
          <6>1. Certain(db, dbDisk)
            BY <1>7, <5>3 DEF Durable
          <6>2. Survives(dbDisk, jrnl, Image)
            BY <1>5, <1>7, <5>1, <6>1, GhostSurvives
          <6> QED
            BY <1>5, <4>1, <6>2
        <5> QED
          BY <5>2, <5>3
      <4>2. CASE j # jrnl
        <5>1. j = ghost /\ ghost.exists
          BY <1>6, <1>8, <2>1, <4>2
        <5> QED
          BY <1>5, <1>7, <5>1 DEF Durable
      <4> QED
        BY <4>1, <4>2
    <3>4. Amounts(f, s, I)
      BY <1>9, <3>3 DEF Survives
    <3>5. ImageOf(f, q) = I /\ (IsHot(q) => Agrees(q, I))
      BY <3>2, <3>4 DEF Amounts, ImageOf, IsHot, Agrees
    <3>6. ~IsHot(q) => Unmarked(q, 1)
      BY <3>2, Bounds DEF IsHot
    <3> QED
      BY <1>8, <3>2, <3>3, <3>5, <3>6
  <2>2. CASE ~j.exists
    <3>1. q = NoJournal
      BY <1>4, <1>12, <2>2
    <3>2. ~IsHot(jrnl)
      BY <1>5, <1>8, <2>2 DEF IsHot
    <3>3. f = db /\ Image = db
      <4>1. Certain(db, dbDisk)
        BY <1>7, <3>2 DEF Durable
      <4> QED
        BY <1>11, <3>2, <4>1, Cold, ImageIs
    <3>4. ImageOf(f, q) = Image
      BY <1>6, <3>1, <3>3, Cold
    <3> QED
      BY <1>5, <1>6, <3>1, <3>4
  <2> QED
    BY <2>1, <2>2
<1>14. Image' = I
  BY <1>2, <1>12, <1>13, ImageNext
<1>15. Typed'
  <2>1. FileOK(db', dbDisk')
    BY <1>2, <1>10 DEF FileOK
  <2>2. pager' \in [Conns -> Connection] /\ held' \in [Conns -> SUBSET LockNames]
    BY <1>1, FreshIs
  <2> QED
    BY <1>1, <1>5, <1>6, <1>12, <1>13, <2>1, <2>2 DEF Typed
<1>16. Files'
  BY <1>1, <1>6, <1>12, <1>13, <1>14 DEF Files
<1>17. Alone'
  BY <1>1, FreshIs DEF Alone
<1>18. \A c \in Conns : Known(pager'[c], held'[c], jrnl', db', Image', txn')
  BY <1>1, <1>5, <1>13, <1>14, FreshKnows
<1>19. \A c, d \in Conns : c # d => Exclude(held'[c], held'[d])
  BY <1>1 DEF Exclude
<1>20. Safe'
  <2>1. Durable(f, dbDisk', q, NoJournal, I)
    <3>1. \A dd : (\A p \in Pages : dd[p] = {f[p]}) => Durable(f, dd, q, NoJournal, I)
      BY <1>5, <1>10, <1>13, AllFresh
    <3> QED
      BY <1>2, <3>1
  <2>2. \A c \in Conns : Firmly(pager'[c], jrnl', db', dbDisk')
    BY <1>1, <1>5, FreshKnows
  <2> QED
    BY <1>1, <1>2, <1>12, <1>14, <2>1, <2>2 DEF Safe
<1>21. IInv'
  BY <1>15, <1>16, <1>17, <1>18, <1>19, <1>20 DEF IInv
<1>22. \A c \in Conns : pager'[c] = Fresh
  BY <1>1
<1> QED
  BY <1>1, <1>13, <1>14, <1>21, <1>22

-----------------------------------------------------------------------------
(* All steps.                                                              *)

Only(c) == \A d \in Conns : d # c => pager'[d] = pager[d]

Watching(P) == P.eState \notin {"open", "error"}

\* What comes back with a power failure is what came back before, or what is there now.
Fewer ==
  \/ ghost' = NoJournal
  \/ ghost' = ghost /\ (ghost.exists => db' = db)
  \/ ghost' = jrnl /\ db' = db

Steady(c) == Image' = Image /\ Fewer /\ (Watching(pager'[c]) <=> Watching(pager[c]))
Enters(c) == Image' = Image /\ ghost' = ghost /\ db' = db /\ ~Watching(pager[c]) /\ Watching(pager'[c])
Leaves(c) == Image' = Image /\ Fewer /\ ~Watching(pager'[c])
Completes(c) ==
  /\ pager[c].at = "commit" /\ pager[c].eState \in Live /\ Image' = db /\ db' = db /\ FinalizeJournal(TRUE)
  /\ pager'[c].eState \in {"reader", "error"}
Restarts ==
  /\ ghost' = NoJournal /\ (\A c \in Conns : ~Watching(pager'[c]))
  /\ Image' = Image \/ (ghost.exists /\ Image' = ImageOf(db, ghost))

Outcome(c) == Only(c) /\ (Steady(c) \/ Enters(c) \/ Leaves(c) \/ Completes(c))

LEMMA GhostCold ==
  ASSUME IInv, ghost.exists, NEW c \in Conns
  PROVE  /\ ~IsHot(jrnl) /\ (pager[c].eState \in Live => pager[c].eState = "cachemod")
         /\ (pager[c].eState = "open" => pager[c].todo = {} /\ pager[c].own = 0)
<1>0. PICK P : P = pager[c]
  OBVIOUS
<1>1. ~IsHot(jrnl) /\ Typed /\ Solid(Image, txn) /\ JournalOK(jrnl) /\ txn \in Nat
  BY TxnFacts DEF IInv, Files, Typed
<1>2. P \in Connection /\ Known(P, held[c], jrnl, db, Image, txn)
  BY <1>0, Connected
<1>3. ASSUME P.eState \in Live
      PROVE  P.eState = "cachemod"
  <2>1. Writes(P, jrnl, db, Image, txn) /\ IsImage(Image)
    BY <1>1, <1>2, StampsAre DEF Known
  <2> QED
    BY <1>1, <1>2, <1>3, <2>1, LiveImage
<1>4. ASSUME P.eState = "open"
      PROVE  P.todo = {} /\ P.own = 0
  <2>1. P.eState \notin Live /\ Resting(P) /\ Recovers(P, jrnl, db, Image)
    BY <1>2, <1>4 DEF Live, Known
  <2> QED
    BY <1>1, <1>4, <2>1 DEF Resting, Recovers
<1> QED
  BY <1>0, <1>1, <1>3, <1>4

LEMMA LiveWatches ==
  ASSUME NEW P, P.eState \in Live
  PROVE  Watching(P)
BY DEF Live, Watching

\* Looking for a hot journal changes nothing that anybody sees.
LEMMA LooksOutcome ==
  ASSUME IInv, Apart, NEW c \in Conns,
         SharedLock(c) \/ JournalExists(c) \/ CheckReserved(c) \/ FirstByte(c) \/ LockHot(c) \/ GiveUp(c)
  PROVE  IInv' /\ Outcome(c)
<1>1. IInv' /\ Image' = Image
  BY SharedLockStep, JournalExistsStep, CheckReservedStep, FirstByteStep, LockHotStep, GiveUpStep
<1>2. pager[c].eState = "open" /\ UNCHANGED files /\ \E a : Goto(c, a)
  <2>1. CASE SharedLock(c)
    BY <2>1 DEF SharedLock, In
  <2>2. CASE JournalExists(c)
    BY <2>2 DEF JournalExists, In
  <2>3. CASE CheckReserved(c)
    BY <2>3 DEF CheckReserved, In
  <2>4. CASE FirstByte(c)
    BY <2>4 DEF FirstByte, In
  <2>5. CASE LockHot(c)
    BY <2>5 DEF LockHot, In
  <2>6. CASE GiveUp(c)
    BY <2>6 DEF GiveUp, In
  <2> QED
    BY <2>1, <2>2, <2>3, <2>4, <2>5, <2>6
<1>3. PICK a : pager' = [pager EXCEPT ![c].at = a]
  BY <1>2 DEF Goto
<1>4. pager \in [Conns -> Connection]
  BY DEF IInv, Typed
<1>5. pager[c] \in Connection
  BY <1>4
<1>6. Only(c) /\ pager'[c].eState = pager[c].eState
  BY <1>3, <1>4, <1>5 DEF Only, Connection
<1> QED
  BY <1>1, <1>2, <1>6 DEF Outcome, Steady, Fewer, Watching, files

LEMMA Alters ==
  ASSUME IInv, NEW c \in Conns, (\E N : Become(c, N)) \/ (\E a : Goto(c, a))
  PROVE  Only(c)
BY DEF IInv, Typed, Only, Become, Goto

\* Beginning and ending to read.
LEMMA ReadsOutcome ==
  ASSUME IInv, NEW c \in Conns, CheckVersion(c) \/ EndRead(c) \/ Begin(c) \/ EndEmpty(c) \/ EndError(c)
  PROVE  IInv' /\ Outcome(c)
<1>1. UNCHANGED files /\ \E N : Become(c, N)
  BY DEF CheckVersion, EndRead, Begin, EndEmpty, EndError, files
<1>2. Only(c)
  BY <1>1, Alters
<1>3. Fewer /\ ghost' = ghost /\ db' = db
  BY <1>1 DEF files, Fewer
<1>4. CASE CheckVersion(c)
  BY <1>2, <1>3, <1>4, CheckVersionStep DEF Outcome, Enters, Watching
<1>5. CASE EndRead(c)
  BY <1>2, <1>3, <1>5, EndReadStep DEF Outcome, Leaves, Watching
<1>6. CASE Begin(c)
  BY <1>2, <1>3, <1>6, BeginStep DEF Outcome, Steady, Watching
<1>7. CASE EndEmpty(c)
  BY <1>2, <1>3, <1>7, EndEmptyStep DEF Outcome, Steady, Watching
<1>8. CASE EndError(c)
  BY <1>2, <1>3, <1>8, EndErrorStep DEF Outcome, Leaves, Watching
<1> QED
  BY <1>4, <1>5, <1>6, <1>7, <1>8

\* The steps of a transaction before its commit change nothing that others see.
LEMMA WritesOutcome ==
  ASSUME IInv, Unaligned, NEW c \in Conns,
         \/ Rollback(c) \/ CommitPhaseOne(c) \/ LockForCommit(c) \/ PrepareJournal(c) \/ SyncRecords(c)
         \/ FinishJournal(c) \/ SyncHeader(c) \/ WritePage(c) \/ SyncCommit(c) \/ CommitPhaseTwo(c)
  PROVE  IInv' /\ Outcome(c)
<1>1. IInv' /\ Image' = Image /\ pager[c].eState \in Live /\ pager'[c].eState \in Live
  BY RollbackStep, CommitPhaseOneStep, LockForCommitStep, PrepareJournalStep, SyncRecordsStep, FinishJournalStep,
     SyncHeaderStep, WritePageStep, SyncCommitStep, CommitPhaseTwoStep
<1>2. Watching(pager[c]) /\ Watching(pager'[c])
  BY <1>1, LiveWatches
<1>3. (\E N : Become(c, N)) \/ (\E a : Goto(c, a))
  <2>1. CASE Rollback(c) \/ CommitPhaseTwo(c) \/ PrepareJournal(c) \/ SyncRecords(c) \/ FinishJournal(c) \/ LockForCommit(c)
    BY <2>1 DEF Rollback, CommitPhaseTwo, PrepareJournal, SyncRecords, FinishJournal, LockForCommit
  <2>2. CASE CommitPhaseOne(c)
    BY <2>2 DEF CommitPhaseOne
  <2>3. CASE SyncHeader(c)
    BY <2>3 DEF SyncHeader
  <2>4. CASE WritePage(c)
    BY <2>4 DEF WritePage
  <2>5. CASE SyncCommit(c)
    BY <2>5 DEF SyncCommit
  <2> QED
    BY <2>1, <2>2, <2>3, <2>4, <2>5
<1>4. Fewer
  <2>1. CASE WritePage(c)
    <3>1. ghost' = ghost /\ pager[c].at = "write"
      BY <2>1 DEF WritePage
    <3>2. pager[c].eState # "cachemod"
      <4>1. Locks(pager[c], held[c])
        BY Connected DEF Known
      <4> QED
        BY <3>1, <4>1 DEF Locks, Filling, Rolling
    <3>3. ~ghost.exists
      BY <1>1, <3>2, GhostCold
    <3> QED
      BY <3>1, <3>3 DEF Fewer
  <2>2. CASE SyncRecords(c)
    BY <2>2 DEF SyncRecords, Fewer
  <2>3. CASE ~WritePage(c) /\ ~SyncRecords(c)
    <3>1. ghost' = ghost /\ db' = db
      BY <2>3 DEF Rollback, CommitPhaseOne, LockForCommit, PrepareJournal, FinishJournal, SyncHeader, SyncCommit, CommitPhaseTwo, files
    <3> QED
      BY <3>1 DEF Fewer
  <2> QED
    BY <2>1, <2>2, <2>3
<1> QED
  BY <1>1, <1>2, <1>3, <1>4, Alters DEF Outcome, Steady

\* Nor do the pages that are written.
LEMMA PagesOutcome ==
  ASSUME IInv, NEW c \in Conns, NEW p \in Pages, Get(c, p) \/ Write(c, p) \/ Spill(c, p)
  PROVE  IInv' /\ Outcome(c)
<1>1. IInv' /\ Image' = Image /\ Watching(pager[c]) /\ Watching(pager'[c])
  <2>1. CASE Get(c, p)
    BY <2>1, GetStep DEF Watching
  <2>2. CASE Write(c, p)
    BY <2>2, WriteStep, LiveWatches DEF Watching
  <2>3. CASE Spill(c, p)
    BY <2>3, SpillStep, LiveWatches
  <2> QED
    BY <2>1, <2>2, <2>3
<1>2. db' = db /\ ghost' = ghost
  BY DEF Get, Write, Spill, files
<1>3. \E N : Become(c, N)
  <2>1. CASE Get(c, p)
    BY <2>1 DEF Get
  <2>2. CASE Write(c, p)
    BY <2>2 DEF Write
  <2>3. CASE Spill(c, p)
    BY <2>3 DEF Spill
  <2> QED
    BY <2>1, <2>2, <2>3
<1> QED
  BY <1>1, <1>2, <1>3, Alters DEF Outcome, Steady, Fewer

\* Who rolls back is a writer, or has found a hot journal.
LEMMA WhoRolls ==
  ASSUME IInv, NEW c \in Conns, pager[c].at \in {"playback", "pages", "sync", "finalize", "commit"}
  PROVE  pager[c].eState \in Live \/ pager[c].eState = "open"
<1>1. Locks(pager[c], held[c]) /\ pager[c].eState \in States
  BY Connected, Fields DEF Known
<1> QED
  BY <1>1 DEF Locks, States, Live

\* A rollback changes nothing that anybody sees.
LEMMA RollsOutcome ==
  ASSUME IInv, NEW c \in Conns, BeginPlayback(c) \/ PlayPage(c) \/ SyncPlayback(c) \/ Reopen(c)
  PROVE  IInv' /\ Outcome(c)
<1>1. pager[c].eState \in Live \/ pager[c].eState = "open"
  <2>1. Reopen(c) => pager[c].eState = "open"
    BY DEF Reopen, In
  <2>2. ~Reopen(c) => pager[c].at \in {"playback", "pages", "sync"}
    BY DEF BeginPlayback, PlayPage, SyncPlayback
  <2> QED
    BY <2>1, <2>2, WhoRolls
<1>2. /\ IInv' /\ Image' = Image
      /\ \/ pager[c].eState \in Live /\ pager'[c].eState \in Live
         \/ pager[c].eState = "open" /\ pager'[c].eState = "open"
  BY <1>1, BeginPlaybackLive, PlayPageLive, SyncPlaybackLive, BeginPlaybackHot, PlayPageHot, SyncPlaybackHot, ReopenStep
<1>3. Watching(pager[c]) <=> Watching(pager'[c])
  BY <1>2, LiveWatches DEF Watching
<1>4. (\E N : Become(c, N)) \/ (\E a : Goto(c, a))
  <2>1. CASE BeginPlayback(c)
    BY <2>1 DEF BeginPlayback
  <2>2. CASE PlayPage(c)
    BY <2>2 DEF PlayPage
  <2>3. CASE SyncPlayback(c) \/ Reopen(c)
    BY <2>3 DEF SyncPlayback, Reopen
  <2> QED
    BY <2>1, <2>2, <2>3
<1>5. ghost' = ghost
  BY DEF BeginPlayback, PlayPage, SyncPlayback, Reopen
<1>6. ASSUME ghost.exists
      PROVE  db' = db
  <2>0. PICK P : P = pager[c]
    OBVIOUS
  <2>1. /\ ~IsHot(jrnl) /\ (P.eState \in Live => P.eState = "cachemod") /\ (P.eState = "open" => P.todo = {} /\ P.own = 0)
    BY <1>6, <2>0, GhostCold
  <2>2. CASE SyncPlayback(c) \/ Reopen(c)
    BY <2>2 DEF SyncPlayback, Reopen
  <2>3. CASE P.eState # "open"
    <3>1. ~WritesFile(c)
      BY <1>1, <2>0, <2>1, <2>3 DEF WritesFile
    <3>2. BeginPlayback(c) => db' = db
      BY <3>1 DEF BeginPlayback
    <3>3. PlayPage(c) => db' = db
      BY <3>1 DEF PlayPage
    <3> QED
      BY <2>2, <3>2, <3>3
  <2>4. CASE PlayPage(c) /\ P.eState = "open"
    <3>1. P.at = "pages" /\ P.todo = {}
      BY <2>0, <2>1, <2>4 DEF PlayPage
    <3>2. P.todo # {}
      BY <2>0, <2>4, <3>1, HotFacts DEF Recovering, Rolling
    <3> QED
      BY <3>1, <3>2
  <2>5. CASE BeginPlayback(c) /\ P.eState = "open"
    <3>1. P.at = "playback" /\ P.own = 0
      BY <2>0, <2>1, <2>5 DEF BeginPlayback
    <3>2. jrnl.exists
      BY <2>0, <2>5, <3>1, HotFacts DEF Recovering, Rolling
    <3>3. ~Begins(jrnl.slots, P.own, 1)
      BY <2>1, <3>1, <3>2 DEF Begins, IsHot, HasMagic
    <3> QED
      BY <2>0, <2>5, <3>3 DEF BeginPlayback
  <2> QED
    BY <2>2, <2>3, <2>4, <2>5
<1> QED
  BY <1>2, <1>3, <1>4, <1>5, <1>6, Alters DEF Outcome, Steady, Fewer

LEMMA GhostAfter ==
  ASSUME NEW used, FinalizeJournal(used), mode \in Modes
  PROVE  ghost' = NoJournal \/ ghost' = ghost \/ ghost' = jrnl
BY PagerAssumption DEF FinalizeJournal

\* The commit does.
LEMMA EndsOutcome ==
  ASSUME IInv, NEW c \in Conns, EndTransaction(c)
  PROVE  IInv' /\ Outcome(c)
<1>1. pager[c].at \in {"finalize", "commit"} /\ FinalizeJournal(~Hot(c) \/ HasMagic(jrnl.slots[1])) /\ db' = db /\ \E N : Become(c, N)
  BY DEF EndTransaction
<1>2. mode \in Modes
  BY DEF IInv, Typed
<1>3. Fewer
  BY <1>1, <1>2, GhostAfter DEF Fewer
<1>4. CASE pager[c].eState = "open"
  BY <1>1, <1>3, <1>4, EndTransactionHot, Alters DEF Outcome, Steady, Watching
<1>5. CASE pager[c].eState # "open"
  <2>1. /\ IInv' /\ Image' = db /\ db' = db /\ pager[c].eState \in Live /\ pager'[c].eState = "reader"
        /\ (pager[c].at = "finalize" => Image' = Image)
    BY <1>5, EndTransactionLive
  <2>2. CASE pager[c].at = "finalize"
    BY <1>1, <1>3, <2>1, <2>2, LiveWatches, Alters DEF Outcome, Steady, Watching
  <2>3. CASE pager[c].at = "commit"
    <3>1. (~Hot(c) \/ HasMagic(jrnl.slots[1])) = TRUE
      BY <1>5 DEF Hot
    <3>2. FinalizeJournal(TRUE)
      BY <1>1, <3>1
    <3> QED
      BY <1>1, <2>1, <2>3, <3>2, Alters DEF Outcome, Completes
  <2> QED
    BY <1>1, <2>2, <2>3
<1> QED
  BY <1>4, <1>5

\* Errors and crashes.
LEMMA TroubleOutcome ==
  ASSUME IInv, Apart, NEW c \in Conns, IoError(c) \/ Crash(c)
  PROVE  IInv' /\ Outcome(c)
<1>1. CASE Crash(c)
  <2>1. IInv' /\ Image' = Image /\ pager' = [pager EXCEPT ![c] = Fresh]
    BY <1>1, CrashStep
  <2>2. Only(c) /\ pager'[c] = Fresh
    BY <2>1 DEF Only, IInv, Typed
  <2>3. Fewer
    BY <1>1 DEF Crash, files, Fewer
  <2> QED
    BY <2>1, <2>2, <2>3, FreshIs DEF Outcome, Leaves, Watching
<1>2. CASE IoError(c)
  <2>1. db' = db /\ mode \in Modes
    BY <1>2 DEF IoError, IInv, Typed
  <2>2. ghost' = ghost \/ \E used \in BOOLEAN : FinalizeJournal(used)
    BY <1>2 DEF IoError, CommitFails, PagerFails, RecoveryFails
  <2>3. Fewer
    BY <2>1, <2>2, GhostAfter DEF Fewer
  <2>4. \E N : Become(c, N)
    BY <1>2 DEF IoError, CommitFails, PagerFails, RecoveryFails
  <2> QED
    BY <1>2, <2>1, <2>3, <2>4, IoErrorStep, LiveWatches, Alters DEF Outcome, Steady, Leaves, Completes, Watching
<1> QED
  BY <1>1, <1>2

\* The initial states satisfy the invariant.
LEMMA InvInit ==
  ASSUME Init
  PROVE  IInv
<1>1. /\ held = [c \in Conns |-> {}] /\ pager = [c \in Conns |-> Fresh] /\ mode \in Modes /\ dbDisk = [p \in Pages |-> {db[p]}]
      /\ jrnl = NoJournal /\ ghost = NoJournal /\ txn = 0
  BY DEF Init
<1>2. PICK size \in SizesIn[mode] : db = [p \in Pages |-> IF p <= size THEN 1 ELSE Absent]
  BY DEF Init
<1>3. size \in Pages /\ TxnsIn[mode] \in 1..MaxTxn
  BY <1>1, PagerAssumption DEF Pages
<1>4. JournalOK(NoJournal) /\ NoJournal.exists = FALSE /\ ~IsHot(NoJournal) /\ (\A t : Dated(NoJournal, t)) /\ Unmarked(NoJournal, 1)
  BY NoJournalIs, NoJournalSafe
<1>5. Image = db
  BY <1>1, <1>4, Cold, ImageIs
<1>6. Solid(db, 0)
  <2>1. size \in Nat /\ Pages \subseteq Nat
    BY <1>3, Bounds
  <2>2. \A p \in Pages : db[p] = IF p <= size THEN 1 ELSE 0
    BY <1>2 DEF Absent
  <2>3. db \in [Pages -> 0..(0 + 1)]
    BY <1>2, <2>2 DEF Absent
  <2>4. Sized(db, size)
    BY <1>3, <2>1, <2>2 DEF Sized, Absent
  <2> QED
    BY <1>3, <2>3, <2>4 DEF Solid
<1>7. Typed
  <2>1. db \in [Pages -> Values]
    BY <1>2, Bounds DEF Values, Absent, Torn
  <2>2. FileOK(db, dbDisk)
    BY <1>1, <2>1 DEF FileOK
  <2>3. pager \in [Conns -> Connection] /\ held \in [Conns -> SUBSET LockNames]
    BY <1>1, FreshIs
  <2>4. txn \in 0..TxnsIn[mode]
    BY <1>1, <1>3
  <2> QED
    BY <1>1, <1>4, <2>2, <2>3, <2>4 DEF Typed
<1>8. Files
  BY <1>1, <1>4, <1>5, <1>6 DEF Files
<1>9. Alone
  BY <1>1, FreshIs DEF Alone
<1>10. (\A c \in Conns : Known(pager[c], held[c], jrnl, db, Image, txn)) /\ \A c \in Conns : Firmly(pager[c], jrnl, db, dbDisk)
  <2>1. 0 \in Nat
    OBVIOUS
  <2> QED
    BY <1>1, <1>5, <1>6, <2>1, FreshKnows
<1>11. \A c, d \in Conns : c # d => Exclude(held[c], held[d])
  BY <1>1 DEF Exclude
<1>12. Safe
  <2>1. Certain(db, dbDisk)
    BY <1>1 DEF Certain
  <2> QED
    BY <1>1, <1>4, <1>10, <2>1 DEF Safe, Durable
<1> QED
  BY <1>7, <1>8, <1>9, <1>10, <1>11, <1>12 DEF IInv

\* A step that changes nothing keeps it.
LEMMA InvStutter ==
  ASSUME IInv, UNCHANGED vars
  PROVE  IInv' /\ Image' = Image /\ db' = db /\ ghost' = ghost /\ pager' = pager
<1>1. /\ held' = held /\ pager' = pager /\ db' = db /\ dbDisk' = dbDisk /\ jrnl' = jrnl /\ ghost' = ghost /\ mode' = mode
      /\ txn' = txn /\ sound' = sound
  BY DEF vars, files, history
<1>2. Image' = Image
  BY <1>1, ImageIs, ImageNext
<1>3. Typed' /\ Files' /\ Alone' /\ Safe'
  BY <1>1, <1>2 DEF IInv, Typed, Files, Alone, Safe
<1> QED
  BY <1>1, <1>2, <1>3 DEF IInv

\* Every step keeps the invariant, and has one of the outcomes.
LEMMA StepOutcome ==
  ASSUME IInv, Apart, Unaligned, [Next]_vars
  PROVE  /\ IInv'
         /\ \/ Image' = Image /\ db' = db /\ ghost' = ghost /\ pager' = pager
            \/ \E c \in Conns : Outcome(c)
            \/ Restarts
<1>1. CASE UNCHANGED vars
  BY <1>1, InvStutter
<1>2. CASE PowerFails
  BY <1>2, PowerFailsStep, FreshIs DEF Restarts, Watching
<1>3. ASSUME NEW c \in Conns,
             \/ SharedLock(c) \/ JournalExists(c) \/ CheckReserved(c) \/ FirstByte(c) \/ LockHot(c) \/ GiveUp(c)
      PROVE  IInv' /\ Outcome(c)
  BY <1>3, LooksOutcome
<1>4. ASSUME NEW c \in Conns, CheckVersion(c) \/ EndRead(c) \/ Begin(c) \/ EndEmpty(c) \/ EndError(c)
      PROVE  IInv' /\ Outcome(c)
  BY <1>4, ReadsOutcome
<1>5. ASSUME NEW c \in Conns,
             \/ Rollback(c) \/ CommitPhaseOne(c) \/ LockForCommit(c) \/ PrepareJournal(c) \/ SyncRecords(c)
             \/ FinishJournal(c) \/ SyncHeader(c) \/ WritePage(c) \/ SyncCommit(c) \/ CommitPhaseTwo(c)
      PROVE  IInv' /\ Outcome(c)
  BY <1>5, WritesOutcome
<1>6. ASSUME NEW c \in Conns, BeginPlayback(c) \/ PlayPage(c) \/ SyncPlayback(c) \/ Reopen(c)
      PROVE  IInv' /\ Outcome(c)
  BY <1>6, RollsOutcome
<1>7. ASSUME NEW c \in Conns, EndTransaction(c)
      PROVE  IInv' /\ Outcome(c)
  BY <1>7, EndsOutcome
<1>8. ASSUME NEW c \in Conns, IoError(c) \/ Crash(c)
      PROVE  IInv' /\ Outcome(c)
  BY <1>8, TroubleOutcome
<1>9. ASSUME NEW c \in Conns, NEW p \in Pages, Get(c, p) \/ Write(c, p) \/ Spill(c, p)
      PROVE  IInv' /\ Outcome(c)
  BY <1>9, PagesOutcome
<1>10. CASE Next
  BY <1>2, <1>3, <1>4, <1>5, <1>6, <1>7, <1>8, <1>9, <1>10 DEF Next
<1> QED
  BY <1>1, <1>10

-----------------------------------------------------------------------------
(* What the invariant says of the properties.                              *)

LEMMA Shape ==
  ASSUME NEW P \in Connection, NEW H, Locks(P, H), Resting(P), NEW s, P.eState \in Live => Written(P, s)
  PROVE  /\ P.eState \in States /\ P.at \in Steps
         /\ P.eState = "open" /\ P.at = "idle" => H = {}
         /\ P.eState = "reader" => H = {"shared"}
         /\ P.eState \in Writing \union {"finished"} => {"shared", "reserved"} \subseteq H
         /\ P.eState \in {"dbmod", "finished"} => "exclusive" \in H
         /\ P.dirty # {} => P.eState \in {"cachemod", "dbmod", "finished"}
         /\ P.inJournal \subseteq 1..P.dbOrigSize
         /\ P.journalHdr <= P.journalOff /\ P.journalOff <= MaxSlot
<1>1. P.eState \in States /\ P.at \in Steps /\ P.journalOff \in Offsets /\ P.journalHdr \in Nat /\ P.journalOff \in Nat /\ P.own \in Nat
  BY Fields
<1>2. P.journalOff <= MaxSlot
  BY <1>1, Bounds DEF Offsets
<1>3. /\ P.eState = "open" /\ P.at = "idle" => H = {}
      /\ P.eState = "reader" => H = {"shared"}
      /\ P.eState \in {"dbmod", "finished"} => "exclusive" \in H
  BY DEF Locks, Looking, Recovering, Rolling
<1>4. P.eState \in Writing \union {"finished"} => {"shared", "reserved"} \subseteq H
  BY DEF Locks, Live, Writing
<1>5. CASE P.eState \in Live
  <2>1. Placed(P) /\ Segment(P, s)
    BY <1>5 DEF Written
  <2>2. P.journalHdr <= P.journalOff
    BY <1>1, <2>1 DEF Segment
  <2> QED
    BY <1>1, <1>2, <1>3, <1>4, <1>5, <2>1, <2>2 DEF Placed, Live
<1>6. CASE P.eState \notin Live
  <2>1. P.dirty = {} /\ P.inJournal = {} /\ P.journalHdr = 0
    BY <1>6 DEF Resting
  <2> QED
    BY <1>1, <1>2, <1>3, <1>4, <2>1
<1> QED
  BY <1>5, <1>6

\* The invariant implies the properties of the runs.
LEMMA TypesFollow ==
  ASSUME IInv
  PROVE  TypeOK
<1>1. db \in [Pages -> Values]
  BY DEF IInv, Typed, FileOK
<1>2. ASSUME NEW c \in Conns
      PROVE  /\ pager[c] \in Connection /\ Locks(pager[c], held[c]) /\ Resting(pager[c])
             /\ pager[c].eState \in Live => Written(pager[c], jrnl.slots)
  BY Connected DEF Known, Writes
<1> QED
  BY <1>1, <1>2, Shape DEF TypeOK

LEMMA CachesFollow ==
  ASSUME IInv
  PROVE  CacheIsCurrent
<1> SUFFICES ASSUME NEW c \in Conns, CountsOnCache(c)
             PROVE  \A p \in Pages : pager[c].cache[p] \in {NotCached, Image[p]}
  BY DEF CacheIsCurrent
<1>1. Knows(pager[c], Image)
  BY Connected DEF Known
<1> QED
  BY <1>1 DEF CountsOnCache, Knows, Fits

LEMMA ReadersFollow ==
  ASSUME IInv
  PROVE  ReadersSeeCommitted
<1> SUFFICES ASSUME NEW c \in Conns, pager[c].eState = "reader"
             PROVE  Seen(c) = Image
  BY DEF ReadersSeeCommitted
<1>1. Knows(pager[c], Image) /\ Passed(pager[c], held[c], jrnl)
  BY Connected DEF Known
<1>2. Sized(Image, pager[c].dbSize) /\ Fits(pager[c], Image)
  BY <1>1 DEF Knows
<1>3. Image = db
  BY <1>1, Cold, ImageIs DEF Passed
<1>4. \A p \in Pages : Seen(c)[p] = Image[p]
  BY <1>2, <1>3 DEF Seen, Content, Sized, Fits
<1>5. Image \in [Pages -> 0..(txn + 1)]
  BY DEF IInv, Files, Solid
<1> QED
  BY <1>4, <1>5 DEF Seen

-----------------------------------------------------------------------------
(* The pager implements the database.                                      *)

Others == IF ghost.exists THEN {Recovered(ghost)} ELSE {}

Views ==
  [c \in Conns |-> CASE pager[c].eState = "reader" -> Seen(c)
                   [] pager[c].eState \in {"open", "error"} -> << >>
                   [] OTHER -> Image]

ViewsFollow == Views = [c \in Conns |-> IF Watching(pager[c]) THEN Image ELSE << >>]

RInv == IInv /\ ViewsFollow

\* The view of each connection, as the refinement mapping defines it.
LEMMA ViewsAre ==
  ASSUME IInv
  PROVE  ViewsFollow
<1>1. \A c \in Conns : pager[c].eState = "reader" => Seen(c) = Image
  BY ReadersFollow DEF ReadersSeeCommitted
<1>2. ASSUME NEW c \in Conns
      PROVE  Views[c] = IF Watching(pager[c]) THEN Image ELSE << >>
  <2>1. CASE pager[c].eState = "reader"
    BY <1>1, <2>1 DEF Views, Watching
  <2>2. CASE pager[c].eState \in {"open", "error"}
    BY <2>2 DEF Views, Watching
  <2>3. CASE pager[c].eState \notin {"reader", "open", "error"}
    BY <2>3 DEF Views, Watching
  <2> QED
    BY <2>1, <2>2, <2>3
<1> QED
  BY <1>2 DEF Views, ViewsFollow

LEMMA OthersAre == Others = IF ghost.exists THEN {ImageOf(db, ghost)} ELSE {}
BY DEF Others, Recovered, ImageOf

LEMMA OthersNext == Others' = IF ghost'.exists THEN {ImageOf(db', ghost')} ELSE {}
BY DEF Others, Recovered, ImageOf

LEMMA FewerOthers ==
  ASSUME Fewer
  PROVE  Others' \subseteq Others \union {Image}
<1>1. CASE ghost' = NoJournal
  BY <1>1, OthersNext, NoJournalIs
<1>2. CASE ghost' = ghost /\ (ghost.exists => db' = db)
  BY <1>2, OthersAre, OthersNext
<1>3. CASE ghost' = jrnl /\ db' = db
  BY <1>3, OthersNext, ImageIs
<1> QED
  BY <1>1, <1>2, <1>3 DEF Fewer

\* How the steps of the abstract database come about.
LEMMA IsSettle ==
  ASSUME Views' = Views, Image' = Image, Others' \subseteq Others \union {Image}
  PROVE  Abstract!Next
BY DEF Abstract!Next, Abstract!Settle, Views, Others

LEMMA IsBeginRead ==
  ASSUME NEW c \in Conns, Views[c] = << >>, Views' = [Views EXCEPT ![c] = Image], Image' = Image, Others' = Others
  PROVE  Abstract!Next
BY DEF Abstract!Next, Abstract!BeginRead, Abstract!None, Views, Others

LEMMA IsDie ==
  ASSUME NEW c \in Conns, Views' = [d \in Conns |-> IF d = c THEN << >> ELSE Views[d]], Image' = Image, Others' \subseteq Others \union {Image}
  PROVE  Abstract!Next
<1>1. {c} \in (SUBSET Conns) \ {{}} /\ \A d : d \in {c} <=> d = c
  OBVIOUS
<1>2. Abstract!Die({c})
  BY <1>1 DEF Abstract!Die, Abstract!None, Views, Others
<1> QED
  BY <1>1, <1>2 DEF Abstract!Next

LEMMA IsRestart ==
  ASSUME Views' = [c \in Conns |-> << >>], Image' \in {Image} \union Others, Others' \subseteq Others \union {Image}
  PROVE  Abstract!Next
BY DEF Abstract!Next, Abstract!Restart, Abstract!None, Views, Others

LEMMA IsCommit ==
  ASSUME NEW c \in Conns, Views[c] = Image, Image' \in Abstract!Successors(Image), Views' = [Views EXCEPT ![c] = Image'],
         Others' \subseteq {Image'} \union (IF "delete" \in Modes /\ ~ExtraSync THEN {Image} ELSE {})
  PROVE  Abstract!Next
<1>1. Abstract!Commit(c)
  BY DEF Abstract!Commit, Views, Others
<1> QED
  BY <1>1 DEF Abstract!Next

LEMMA IsBotch ==
  ASSUME NEW c \in Conns, Views[c] = Image, Image' \in Abstract!Successors(Image), Views' = [Views EXCEPT ![c] = << >>],
         Others' \subseteq {Image, Image'}
  PROVE  Abstract!Next
<1>1. Abstract!Botch(c)
  BY DEF Abstract!Botch, Abstract!None, Views, Others
<1> QED
  BY <1>1 DEF Abstract!Next

\* A transaction advances the change counter and stamps its other pages.
LEMMA CommitSucceeds ==
  ASSUME IInv, NEW c \in Conns, pager[c].at = "commit", pager[c].eState \in Live
  PROVE  db \in Abstract!Successors(Image) /\ jrnl.durable /\ "exclusive" \in held[c]
<1>0. PICK P : P = pager[c]
  OBVIOUS
<1>1. P \in Connection /\ P.eState = "finished" /\ "exclusive" \in held[c] /\ Ready(P, db, dbDisk, Image, txn, sound)
  <2>1. P.eState # "open"
    BY <1>0 DEF Live
  <2> QED
    BY <1>0, <2>1, EndFacts
<1>2. Written(P, jrnl.slots) /\ Stage(P, jrnl) /\ Changed(P, db, Image) /\ Planned(P, db, Image) /\ P.stamp = txn + 1 /\ Image[1] <= txn
  BY <1>0, LiveFacts DEF Rolling
<1>3. jrnl.durable
  BY <1>1, <1>2 DEF Stage
<1>4. P.dirty = {}
  BY <1>1, <1>2 DEF Planned
<1>5. \A p \in Pages : db[p] = Target(P, Image, p)
  BY <1>2, <1>4 DEF Changed, PageOK
<1>6. Solid(db, txn) /\ Image[1] < db[1] /\ Solid(Image, txn) /\ txn \in Nat /\ txn <= MaxTxn
  BY <1>0, <1>1, TxnFacts DEF Ready, IInv, Files
<1>7. 1 \in Pages /\ Image[1] \in Nat /\ db[1] \in Nat /\ db \in [Pages -> 0..(txn + 1)]
  BY <1>6, StampsAre DEF Solid
<1>8. db \in [Pages -> 0..(MaxTxn + 1)]
  BY <1>6, <1>7, Bounds
<1>9. db # Image /\ db[1] > Image[1]
  BY <1>6, <1>7
<1>10. ASSUME NEW p \in Pages \ {1}, NEW q \in Pages \ {1}, db[p] # Image[p], db[q] # Image[q]
       PROVE  db[p] = db[q]
  <2>1. ASSUME NEW r \in Pages \ {1}, db[r] # Image[r]
        PROVE  db[r] = P.stamp
    BY <1>5, <2>1 DEF Target
  <2> QED
    BY <1>10, <2>1
<1>11. db \in Abstract!Successors(Image)
  BY <1>8, <1>9, <1>10 DEF Abstract!Successors
<1> QED
  BY <1>1, <1>3, <1>11

\* Every outcome is a step of the abstract database, or one that it does not see.
LEMMA OutcomeImplements ==
  ASSUME RInv, RInv', NEW c \in Conns, Outcome(c)
  PROVE  Abstract!Next
<1>1. /\ Views = [d \in Conns |-> IF Watching(pager[d]) THEN Image ELSE << >>]
      /\ Views' = [d \in Conns |-> IF Watching(pager'[d]) THEN Image' ELSE << >>]
  BY DEF RInv, ViewsFollow, Watching
<1>2. \A d \in Conns : d # c => pager'[d] = pager[d]
  BY DEF Outcome, Only
<1>3. CASE Steady(c)
  <2>1. Image' = Image /\ \A d \in Conns : Watching(pager'[d]) <=> Watching(pager[d])
    BY <1>2, <1>3 DEF Steady
  <2>2. Views' = Views
    BY <1>1, <2>1
  <2> QED
    BY <1>3, <2>2, FewerOthers, IsSettle DEF Steady
<1>4. CASE Enters(c)
  <2>1. Image' = Image /\ ~Watching(pager[c]) /\ Watching(pager'[c]) /\ Others' = Others
    BY <1>4, OthersAre, OthersNext DEF Enters
  <2>2. Views[c] = << >> /\ Views' = [Views EXCEPT ![c] = Image]
    BY <1>1, <1>2, <2>1
  <2> QED
    BY <2>1, <2>2, IsBeginRead
<1>5. CASE Leaves(c)
  <2>1. Image' = Image /\ ~Watching(pager'[c])
    BY <1>5 DEF Leaves
  <2>2. Views' = [d \in Conns |-> IF d = c THEN << >> ELSE Views[d]]
    BY <1>1, <1>2, <2>1
  <2> QED
    BY <1>5, <2>1, <2>2, FewerOthers, IsDie DEF Leaves
<1>6. CASE Completes(c)
  <2>1. /\ pager[c].at = "commit" /\ pager[c].eState \in Live /\ Image' = db /\ db' = db /\ FinalizeJournal(TRUE)
        /\ pager'[c].eState \in {"reader", "error"}
    BY <1>6 DEF Completes
  <2>2. db \in Abstract!Successors(Image) /\ jrnl.durable /\ "exclusive" \in held[c]
    BY <2>1, CommitSucceeds DEF RInv
  <2>3. Others' \subseteq IF "delete" \in Modes /\ ~ExtraSync THEN {Image} ELSE {}
    <3>1. mode \in Modes /\ mode \in {"delete", "persist", "truncate"}
      BY PagerAssumption DEF RInv, IInv, Typed
    <3>2. ghost' = NoJournal \/ ("delete" \in Modes /\ ~ExtraSync /\ ghost' = jrnl)
      BY <2>1, <2>2, <3>1 DEF FinalizeJournal
    <3>3. CASE ghost' = NoJournal
      BY <3>3, OthersNext, NoJournalIs
    <3>4. CASE "delete" \in Modes /\ ~ExtraSync /\ ghost' = jrnl
      BY <2>1, <3>4, OthersNext, ImageIs
    <3> QED
      BY <3>2, <3>3, <3>4
  <2>4. ASSUME NEW d \in Conns, d # c
        PROVE  ~Watching(pager[d]) /\ ~Watching(pager'[d])
    <3>1. pager[d].eState = "open"
      BY <2>2, <2>4, Aside DEF RInv
    <3> QED
      BY <1>2, <2>4, <3>1 DEF Watching
  <2>5. Watching(pager[c])
    BY <2>1, LiveWatches
  <2>6. Views[c] = Image
    BY <1>1, <2>5
  <2>7. CASE pager'[c].eState = "reader"
    <3>1. Watching(pager'[c])
      BY <2>7 DEF Watching
    <3>2. Views' = [Views EXCEPT ![c] = Image']
      BY <1>1, <2>4, <3>1
    <3> QED
      BY <2>1, <2>2, <2>3, <2>6, <3>2, IsCommit
  <2>8. CASE pager'[c].eState = "error"
    <3>1. ~Watching(pager'[c])
      BY <2>8 DEF Watching
    <3>2. Views' = [Views EXCEPT ![c] = << >>]
      BY <1>1, <2>4, <3>1
    <3>3. Others' \subseteq {Image, Image'}
      BY <2>3
    <3> QED
      BY <2>1, <2>2, <2>6, <3>2, <3>3, IsBotch
  <2> QED
    BY <2>1, <2>7, <2>8
<1> QED
  BY <1>3, <1>4, <1>5, <1>6 DEF Outcome

\* So is a power failure.
LEMMA RestartImplements ==
  ASSUME RInv, RInv', Restarts
  PROVE  Abstract!Next
<1>1. Views' = [d \in Conns |-> IF Watching(pager'[d]) THEN Image' ELSE << >>]
  BY DEF RInv, ViewsFollow, Watching
<1>2. Views' = [c \in Conns |-> << >>]
  BY <1>1 DEF Restarts
<1>3. Image' \in {Image} \union Others
  BY OthersAre DEF Restarts
<1>4. Others' = {}
  BY OthersNext, NoJournalIs DEF Restarts
<1> QED
  BY <1>2, <1>3, <1>4, IsRestart

\* Every step of the pager is a step of the abstract database.
LEMMA StepImplements ==
  ASSUME RInv, RInv', Apart, Unaligned, [Next]_vars
  PROVE  Abstract!Next
<1>1. \/ Image' = Image /\ db' = db /\ ghost' = ghost /\ pager' = pager
      \/ \E c \in Conns : Outcome(c)
      \/ Restarts
  BY StepOutcome DEF RInv
<1>2. CASE Image' = Image /\ db' = db /\ ghost' = ghost /\ pager' = pager
  <2>1. /\ Views = [d \in Conns |-> IF Watching(pager[d]) THEN Image ELSE << >>]
        /\ Views' = [d \in Conns |-> IF Watching(pager'[d]) THEN Image' ELSE << >>]
    BY DEF RInv, ViewsFollow, Watching
  <2>2. Views' = Views
    BY <1>2, <2>1
  <2>3. Others' = Others
    BY <1>2, OthersAre, OthersNext
  <2> QED
    BY <1>2, <2>2, <2>3, IsSettle
<1> QED
  BY <1>1, <1>2, OutcomeImplements, RestartImplements

-----------------------------------------------------------------------------
(* Theorems.                                                               *)

\* The inductive invariant holds in every behaviour of any number of connections, with any number of
\* pages and transactions, in every journal mode, whichever processes crash or calls
\* of a commit, spill or rollback fail, or however often the power does (sqlite3.c:47728 to 52870).
THEOREM Invariance ==
  ASSUME Apart, Unaligned
  PROVE  Spec => []IInv
<1>1. Init => IInv
  BY InvInit
<1>2. IInv /\ [Next]_vars => IInv'
  BY StepOutcome
<1> QED
  BY <1>1, <1>2, PTL DEF Spec

\* Every variable stays in its range: an older journal never makes a rollback run out of the file, and
\* no two connections get locks that exclude each other.
THEOREM TypeCorrect ==
  ASSUME Apart, Unaligned
  PROVE  Spec => []TypeOK
<1>1. IInv => TypeOK
  BY TypesFollow
<1> QED
  BY <1>1, Invariance, PTL

\* CacheIsCurrent: what a connection has in its cache while it reads, or has begun to write and changed
\* nothing, is what the files amount to; so is what it has kept without a lock, if the change counter
\* it remembers is that of the files, so that it may go on with it (sqlite3.c:51568 to 51643).
THEOREM CachesCurrent ==
  ASSUME Apart, Unaligned
  PROVE  Spec => []CacheIsCurrent
<1>1. IInv => CacheIsCurrent
  BY CachesFollow
<1> QED
  BY <1>1, Invariance, PTL

\* ReadersSeeCommitted: nobody reads the database file while a journal that is to be rolled back lies
\* beside it (sqlite3.c:51312 to 51403).  The run hot_missed shows that this takes Apart.
THEOREM ReadersCommitted ==
  ASSUME Apart, Unaligned
  PROVE  Spec => []ReadersSeeCommitted
<1>1. IInv => ReadersSeeCommitted
  BY ReadersFollow
<1> QED
  BY <1>1, Invariance, PTL

\* ImplementsDatabase: the connections, their caches, locks, journal and file are an atomic database.
\* A transaction takes effect at once, when its journal is finalized (sqlite3.c:48349 to 48476), and
\* as a whole, or not at all, wherever a process dies, a call fails, or the power does.
THEOREM Atomicity ==
  ASSUME Apart, Unaligned
  PROVE  Spec => ImplementsDatabase
<1>1. IInv => RInv
  BY ViewsAre DEF RInv
<1>2. RInv /\ RInv' /\ [Next]_vars => Abstract!Next
  BY StepImplements
<1>3. Abstract!Next => UNCHANGED Abstract!vars \/ Abstract!Next
  OBVIOUS
<1> QED
  BY <1>1, <1>2, <1>3, Invariance, PTL DEF Spec, ImplementsDatabase, Abstract!Spec

=============================================================================
