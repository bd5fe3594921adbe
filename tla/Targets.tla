------------------------------ MODULE Targets ------------------------------
(***************************************************************************)
(* The fuzz targets that are straight calls into a C library:              *)
(* LLVMFuzzerTestOneInput is called for one input after the other in one    *)
(* process, obtains objects of the library, and has to give each of them    *)
(* back exactly once on every way out.  What the libraries make of an input *)
(* is open: a call may reject it wherever the code provides for that.       *)
(* (MCTargets has this module beside two others: hence LibInit, LibNext.)   *)
(***************************************************************************)
EXTENDS Integers, Sequences

CONSTANTS
  Benchmarks  \* the targets considered

-----------------------------------------------------------------------------
(* The programs.  A step names the objects it needs, the object it makes or *)
(* gives back, and how many steps may be skipped after it; a target returns *)
(* when it runs past its last step.                                         *)

\* Makes h; the sanitizers' allocator does not fail.
New(h, needs) == [op |-> "new", h |-> h, needs |-> needs, skips |-> {0}]
\* Makes h, or NULL out of an input the library rejects.
Try(h, needs) == [op |-> "try", h |-> h, needs |-> needs, skips |-> {0}]
\* h = NULL
Zero(h) == [op |-> "zero", h |-> h, needs |-> {}, skips |-> {0}]
\* Makes h the first time the process gets here: a static variable.
Once(h) == [op |-> "once", h |-> h, needs |-> {}, skips |-> {0}]
\* Makes h, which nothing gives back; one name stands for all that is lost in this way.
Leak(h) == [op |-> "once", h |-> h, needs |-> {}, skips |-> {0}]
\* Calls, and tests, that leave the choice of how to go on to the input.
Do(needs, skips) == [op |-> "call", h |-> "", needs |-> needs, skips |-> skips]
\* if (!h)
IfNull(h, skip) == [op |-> "null", h |-> h, needs |-> {}, skips |-> {skip}]
\* h is released, and with it what was given to it.
Free(h) == [op |-> "free", h |-> h, needs |-> {}, skips |-> {0}]
\* h belongs to the owner from now on.
Give(h, owner) == [op |-> "give", h |-> h, needs |-> {owner}, skips |-> {0}]

RETURN == 99

\* sqlite3_open_v2 may make a connection even when it fails, and then rc is not 0.
sqlite ==
  << Do({}, {0, RETURN}),                              \* size < 3
     Do({}, {0, 2}), Leak("unopened"), Do({}, {RETURN}),    \* if( rc ) return 0
     New("db", {}), Do({"db"}, {0}), New("zSql", {}),
     Try("zErrMsg", {"db", "zSql"}),                     \* sqlite3_exec
     Free("zErrMsg"), Free("zSql"), Free("db") >>

libarchive ==
  << New("a", {}), Do({"a"}, {0}),
     Do({"a"}, {0, 1}),                                \* archive_read_next_header
     Do({"a"}, {-1, -2, 0}),                           \* archive_read_data: more, done, fatal
     Free("a") >>

\* Mutant: the source profile is not closed when there is no destination profile.
lcms_unclosed ==
  << Try("src", {}), IfNull("src", RETURN), Try("dst", {}), IfNull("dst", RETURN),
     Do({"src"}, {0}), Try("transform", {"src", "dst"}), Free("src"), Free("dst"),
     IfNull("transform", RETURN), Do({"transform"}, {0}), Free("transform") >>

\* Mutant: the source profile is closed before the transform is made from it.
lcms_hasty ==
  << Try("src", {}), IfNull("src", RETURN), Try("dst", {}), IfNull("dst", 7),
     Do({"src"}, {0}), Free("src"), Try("transform", {"src", "dst"}), Free("dst"),
     IfNull("transform", RETURN), Do({"transform"}, {0}), Free("transform"), Do({}, {RETURN}),
     Free("src") >>

lcms ==
  << Try("src", {}), IfNull("src", RETURN), Try("dst", {}), IfNull("dst", 8),
     Do({"src"}, {0}), Try("transform", {"src", "dst"}), Free("src"), Free("dst"),
     IfNull("transform", RETURN), Do({"transform"}, {0}), Free("transform"), Do({}, {RETURN}),
     Free("src") >>

\* Mutant: no return after the decompressor is destroyed.
libjpeg_falls_through ==
  << New("tj", {}), Do({"tj"}, {0, 1}), Free("tj"),
     New("buf", {}), Do({"buf"}, {0}), Free("tj"), Free("buf") >>

libjpeg ==
  << New("tj", {}), Do({"tj"}, {0, 2}), Free("tj"), Do({}, {RETURN}),    \* header refused
     New("buf", {}), Do({"tj", "buf"}, {0}), Free("tj"), Free("buf") >>

pcre2 ==
  << Do({}, {0, RETURN}), Try("preg", {}), IfNull("preg", RETURN), Do({"preg"}, {0}), Free("preg") >>

libxml2 == << Do({}, {0}), Try("doc", {}), IfNull("doc", RETURN), Free("doc") >>

c_ares == << Try("buf", {}), Free("buf") >>

openssl101f ==
  << Once("sctx"), New("server", {"sctx"}), New("sinbio", {}), New("soutbio", {}),
     Give("sinbio", "server"), Give("soutbio", "server"), Do({"server", "sctx"}, {0}), Free("server") >>

bntest ==
  << New("bctx", {}), New("a", {}), New("b", {}), New("c", {}), New("res1", {}),
     New("openssl.a", {"a"}), New("openssl.b", {"b"}), New("openssl.c", {"c"}),
     Do({"res1", "a", "b", "c", "bctx"}, {0}), New("openssl.exptmod", {"res1"}),
     Free("a"), Free("b"), Free("c"), Free("res1"), Free("bctx") >>

\* "unknown leak here", says the comment on line 67.
gcrytest ==
  << Do({}, {0, 1}), Leak("gcrypt.unknown"), New("a", {}), New("gcrypt.a", {"a"}),
     New("b", {}), New("gcrypt.b", {"b"}), New("c", {}), New("gcrypt.c", {"c"}), New("res1", {}),
     Do({"res1", "a", "b", "c"}, {0}), New("gcrypt.exptmod", {"res1"}),
     Free("a"), Free("b"), Free("c"), Free("res1") >>

results(name) == << Zero(name \o ".a"), Zero(name \o ".b"), Zero(name \o ".c"), Zero(name \o ".exptmod") >>

freeres(name) == << Free(name \o ".a"), Free(name \o ".b"), Free(name \o ".c"), Free(name \o ".exptmod") >>

\* END finds the strings of libgcrypt still NULL when its test is skipped.
openssl102d ==
  results("openssl") \o results("gcrypt")
    \o << Do({}, {0, RETURN}) >>                              \* len < 5
    \o bntest
    \o << Do({"openssl.a", "openssl.c"}, {0, Len(gcrytest) + 1}) >>    \* goto END
    \o gcrytest
    \o << Do({"openssl.exptmod", "gcrypt.exptmod"}, {0}) >>
    \o freeres("openssl") \o freeres("gcrypt")

\* examples/example-hooks.cc: the turn of main for one file, with the log of the hooks.
hooks ==
  << New("f", {}), Do({"f"}, {0}), New("buf", {}), Do({"f", "buf"}, {0}),
     Once("hooks.log"), Do({"buf", "hooks.log"}, {0}), Free("buf"), Free("f") >>

Program == [sqlite |-> sqlite, libarchive |-> libarchive, lcms |-> lcms, libjpeg |-> libjpeg,
            pcre2 |-> pcre2, libxml2 |-> libxml2, c_ares |-> c_ares,
            openssl101f |-> openssl101f, openssl102d |-> openssl102d, hooks |-> hooks]

ASSUME BenchmarksAssumption == Benchmarks \subseteq DOMAIN Program

Statics == {"sctx", "hooks.log"}

\* What the targets do lose, as far as the repository says.
KnownLeaks == {"gcrypt.unknown", "unopened"}

-----------------------------------------------------------------------------
VARIABLES
  target,   \* the benchmark
  line,     \* the next step of its program, 0 between two calls
  objects   \* the objects that exist: name -> "live", "null", or the owner they were given to

libVars == << target, line, objects >>

Step == Program[target][line]
Running == line # 0

With(f, h, s) == [x \in DOMAIN f \union {h} |-> IF x = h THEN s ELSE f[x]]
Without(f, hs) == [x \in DOMAIN f \ hs |-> f[x]]

LibInit == target \in Benchmarks /\ line = 0 /\ objects = << >>

\* The fuzzing engine calls the target with the next input.
NextInput == ~ Running /\ line' = 1 /\ UNCHANGED << target, objects >>

\* The next step, or back to the engine: locals that are NULL are gone then.
Advance(skips, objs) ==
  /\ UNCHANGED target
  /\ \E n \in skips :
       IF line + 1 + n > Len(Program[target])
       THEN line' = 0 /\ objects' = Without(objs, {x \in DOMAIN objs : objs[x] = "null"})
       ELSE line' = line + 1 + n /\ objects' = objs

Make ==
  /\ Running
  /\ \/ Step.op \in {"new", "try"} /\ Advance(Step.skips, With(objects, Step.h, "live"))
     \/ Step.op \in {"try", "zero"} /\ Advance(Step.skips, With(objects, Step.h, "null"))

MakeOnce == Running /\ Step.op = "once" /\ Advance(Step.skips, With(objects, Step.h, "live"))

CallLibrary == Running /\ Step.op = "call" /\ Advance(Step.skips, objects)

Branch ==
  /\ Running /\ Step.op = "null"
  /\ Advance(IF objects[Step.h] = "null" THEN Step.skips ELSE {0}, objects)

Release ==
  /\ Running /\ Step.op = "free"
  /\ Advance(Step.skips, Without(objects, {Step.h} \union {x \in DOMAIN objects : objects[x] = Step.h}))

HandOver ==
  /\ Running /\ Step.op = "give"
  /\ \E owner \in Step.needs : Advance(Step.skips, With(objects, Step.h, owner))

LibNext == NextInput \/ Make \/ MakeOnce \/ CallLibrary \/ Branch \/ Release \/ HandOver

LibSpec == LibInit /\ [][LibNext]_libVars

-----------------------------------------------------------------------------
\* On every way out of a target, whatever the library made of the input, all that was obtained
\* for the input has been given back: besides statics only two known leaks outlive a call, the
\* "unknown leak" of openssl-1.0.2d/target.cc:67 and the connection of ConnectionClosed.
AllGivenBack == ~ Running => DOMAIN objects \subseteq Statics \union KnownLeaks


\* No library function is called with an object that is NULL, already released, or not yet made.
NothingUsedTooLate ==
  Running => \A h \in Step.needs : h \in DOMAIN objects /\ objects[h] # "null"

\* Nothing is released twice, released while another object owns it, or overwritten before
\* it is released.
ReleasedOnce ==
  Running =>
    /\ Step.op = "free" => Step.h \in DOMAIN objects /\ objects[Step.h] \in {"live", "null"}
    /\ Step.op \in {"new", "try"} => Step.h \notin DOMAIN objects \/ objects[Step.h] = "null"

=============================================================================
