----------------------------- MODULE FileLocks -----------------------------
(***************************************************************************)
(* What SQLite expects of the locks on a database file (sqlite3.c,          *)
(* unixLock): SHARED, RESERVED, PENDING and EXCLUSIVE, each taken in one    *)
(* step by a connection, whatever process it is in.                         *)
(***************************************************************************)
EXTENDS FiniteSets

CONSTANTS
  Files,    \* the open database files, one per connection
  Owner     \* the process of each file

VARIABLE held     \* the locks each file holds

Locks == {"shared", "reserved", "pending", "exclusive"}

Others(f) == Files \ {f}

NobodyElse(f, l) == \A g \in Others(f) : l \notin held[g]

Grant(f, ls) == held' = [held EXCEPT ![f] = @ \union ls]

Siblings(f) == {g \in Others(f) : Owner[g] = Owner[f]}

\* No new reader while a writer waits for the old ones to leave: PENDING "ensures that no new
\* SHARED locks can be obtained".
Shared(f) ==
  /\ held[f] = {}
  /\ NobodyElse(f, "pending")
  /\ Grant(f, {"shared"})

\* What unixLock does all the same: a file reads along with another of its process, whatever is
\* pending in other processes.  It is no step of Next.
Beside(f) ==
  /\ held[f] = {}
  /\ \E g \in Siblings(f) : "shared" \in held[g]
  /\ \A g \in Siblings(f) : "pending" \notin held[g]
  /\ Grant(f, {"shared"})

Reserved(f) ==
  /\ held[f] = {"shared"}
  /\ NobodyElse(f, "reserved")
  /\ Grant(f, {"reserved"})

\* From SHARED as well, on the way to rolling back a hot journal.
Pending(f) ==
  /\ "shared" \in held[f]
  /\ NobodyElse(f, "pending")
  /\ Grant(f, {"pending"})

\* PENDING and then EXCLUSIVE.
Exclusive(f) ==
  /\ "shared" \in held[f]
  /\ NobodyElse(f, "shared")
  /\ Grant(f, {"pending", "exclusive"})

Lower(f) ==
  /\ held[f] # {}
  /\ \E ls \in {{}, {"shared"}} : ls # held[f] /\ held' = [held EXCEPT ![f] = ls]

\* What unixCheckReservedLock tells a reader: the reserved byte of other processes, and the
\* inode of its own, where PENDING is as good as RESERVED.
SeesReserved(f) ==
  \/ \E g \in Others(f) : "reserved" \in held[g]
  \/ \E g \in Siblings(f) : "pending" \in held[g]

\* The death of a process takes the locks of all its files.
Vanish == \E fs \in SUBSET Files : held' = [f \in Files |-> IF f \in fs THEN {} ELSE held[f]]

Init == held = [f \in Files |-> {}]

Next ==
  \/ \E f \in Files : Shared(f) \/ Reserved(f) \/ Pending(f) \/ Exclusive(f) \/ Lower(f)
  \/ Vanish

Spec == Init /\ [][Next]_held
=============================================================================
