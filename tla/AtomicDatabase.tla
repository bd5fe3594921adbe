--------------------------- MODULE AtomicDatabase ---------------------------
(***************************************************************************)
(* What SQLite promises of a database file (sqlite3.c, "Atomic Commit"):    *)
(* each transaction is applied completely or not at all, whatever processes *)
(* die and even if the power fails, and a reader sees one committed state   *)
(* until it is done.                                                       *)
(***************************************************************************)
EXTENDS Naturals

CONSTANTS
  Conns,
  Pages,
  Counter,    \* the page that every commit increments, or no page at all
  Stamps,     \* what a transaction writes
  Forgets,    \* may the last commit be lost with the power?
  Offers      \* may a commit be left to a failure to complete?

VARIABLES
  image,      \* the committed content: page -> value
  others,     \* the contents that a failure may leave instead
  view        \* what each connection sees: nothing, or a committed content

None == << >>

\* A transaction advances the counter and writes one and the same stamp to any other pages.
Successors(old) ==
  {new \in [Pages -> Stamps] :
     /\ new # old
     /\ Counter \in Pages => new[Counter] > old[Counter]
     /\ \A p, q \in Pages \ {Counter} : new[p] # old[p] /\ new[q] # old[q] => new[p] = new[q]}

BeginRead(c) ==
  /\ view[c] = None
  /\ view' = [view EXCEPT ![c] = image]
  /\ UNCHANGED << image, others >>

EndRead(c) ==
  /\ view[c] # None
  /\ view' = [view EXCEPT ![c] = None]
  /\ UNCHANGED << image, others >>

\* Nobody else may have committed since this connection began to read.
Commit(c) ==
  /\ view[c] = image
  /\ image' \in Successors(image)
  /\ view' = [view EXCEPT ![c] = image']
  /\ others' \subseteq {image'} \union (IF Forgets THEN {image} ELSE {})

\* An error is returned, although the transaction is complete: it may last or not.
Botch(c) ==
  /\ view[c] = image
  /\ image' \in Successors(image)
  /\ view' = [view EXCEPT ![c] = None]
  /\ others' \subseteq {image, image'}

\* A commit that lasts if its process dies now, and is not there yet for the others.
Offer(c) ==
  /\ Offers
  /\ view[c] = image
  /\ \E new \in Successors(image) : others' \subseteq others \union {image, new}
  /\ UNCHANGED << image, view >>

\* Less is in doubt.
Settle == others' \subseteq others \union {image} /\ UNCHANGED << image, view >>

Die(cs) ==
  /\ view' = [c \in Conns |-> IF c \in cs THEN None ELSE view[c]]
  /\ others' \subseteq others \union {image}
  /\ UNCHANGED image

\* What was in doubt is decided when the power is back, or when nobody is reading.
Restart ==
  /\ view' = [c \in Conns |-> None]
  /\ image' \in {image} \union others
  /\ others' \subseteq others \union {image}

Next ==
  \/ \E c \in Conns : BeginRead(c) \/ EndRead(c) \/ Commit(c) \/ Botch(c) \/ Offer(c)
  \/ Settle
  \/ \E cs \in (SUBSET Conns) \ {{}} : Die(cs)
  \/ Restart

vars == << image, others, view >>

\* The initial content is up to the instance.
Spec == [][UNCHANGED vars \/ Next]_vars
=============================================================================
