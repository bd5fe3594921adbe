------------------------------ MODULE Scripts ------------------------------
(***************************************************************************)
(* The build.sh and test-libfuzzer.sh scripts of every benchmark, as        *)
(* sequences of steps for the interpreter of module Benchmark.  A step is   *)
(* one command whose effect outlives it, or one test that guards the next   *)
(* commands; set -x, export, echo and the flags of a compiler are left out. *)
(*                                                                          *)
(* Paths are the names the scripts use inside the run directory, with       *)
(*   "lib"     for what make leaves inside BUILD (removed with BUILD),      *)
(*   "exe"     for $EXECUTABLE_NAME_BASE, "exe-x" for ...-x,                *)
(*   "engine"  for the archive $LIB_FUZZING_ENGINE, "CORPUS" for $CORPUS,   *)
(*   "fuzz.log" for the fuzz-<job>.log files.                               *)
(* Files under $SCRIPT_DIR are part of the checkout and are never missing.  *)
(***************************************************************************)
EXTENDS Naturals, Sequences

Do(op, src, dst) ==
  [op |-> op, src |-> src, dst |-> dst, cond |-> "always", strict |-> FALSE, skip |-> 0]

\* cmd1 && cmd2: the second runs only when the first succeeded.
AndThen(step) == [step EXCEPT !.cond = "ok"]

\* cmd || exit 1
OrExit(step) == [step EXCEPT !.strict = TRUE]

\* [ ! -e D ] && ...: when D exists the test fails and the n commands after it are skipped.
Unless(dst, n) == [Do("unless", {}, dst) EXCEPT !.skip = n]

\* if [[ ! -d D ]]; then ... fi: the same, but an if that is not taken succeeds.
IfMissing(dst, n) == [Do("if", {}, dst) EXCEPT !.skip = n]

-----------------------------------------------------------------------------
(* The helpers of common.sh.                                               *)

get_git_revision(dir) == << Unless(dir, 2), Do("clone", {}, dir), AndThen(Do("reset", {}, dir)) >>
get_git_tag(dir)      == << Unless(dir, 2), Do("clone", {}, dir), AndThen(Do("reset", {}, dir)) >>
get_svn_revision(dir) == << Unless(dir, 1), Do("svn", {}, dir) >>

\* build_libfuzzer, build_afl, build_honggfuzz and build_coverage: an archive that no script
\* removes (and an object with hooks, which woff2 does remove).
build_fuzzer == << Do("engine", {}, "engine") >>

\* build_fsanitize_fuzzer, the default: the engine is a flag of clang, there is nothing to
\* build, and no file to link beside the others.
fsanitize_fuzzer(script) ==
  LET unlinked == [i \in DOMAIN script |-> [script[i] EXCEPT !.src = @ \ {"engine"}]]
  IN  SelectSeq(unlinked, LAMBDA step : step.op # "engine")

-----------------------------------------------------------------------------
(* Idioms most scripts share.                                              *)

Rm(paths) == << Do("remove", paths, "") >>

\* rm -rf BUILD; cp -rf SRC BUILD; (cd BUILD && configure && make)
build_lib(dir) ==
  Rm({"BUILD", "lib"}) \o << Do("copy", {dir}, "BUILD"), Do("make", {"BUILD"}, "lib") >>

Link(srcs, exe) == << Do("link", srcs \union {"engine"}, exe) >>

FromSource == get_git_revision("SRC") \o build_lib("SRC") \o build_fuzzer

\* if [[ ! -d seeds ]]; then mkdir seeds; cp BUILD/... seeds/; fi
SeedsFromBuild ==
  << IfMissing("seeds", 2), Do("mkdir", {}, "seeds"), Do("fill", {"BUILD"}, "seeds") >>

LinkLib == Link({"BUILD", "lib"}, "exe")

-----------------------------------------------------------------------------
(* build.sh of each benchmark.                                             *)

Boringssl_build    == FromSource \o SeedsFromBuild \o LinkLib
C_ares_build       == FromSource \o LinkLib
Freetype2_build    ==
  FromSource
  \o << IfMissing("seeds", 4), Do("mkdir", {}, "seeds"), Do("clone", {}, "TRT"),
        Do("fill", {"TRT"}, "seeds"), Do("remove", {"TRT"}, "") >>
  \o LinkLib
Guetzli_build      == get_git_tag("SRC") \o build_lib("SRC") \o build_fuzzer \o LinkLib
Harfbuzz_build     == FromSource \o SeedsFromBuild \o LinkLib
Json_build         == FromSource \o << Do("copy", {}, "seeds") >> \o LinkLib
Lcms_build         == FromSource \o LinkLib
Libarchive_build   == FromSource \o LinkLib
Libjpeg_build      == FromSource \o LinkLib
Libpng_build       ==
  << Unless("tar.gz", 1), Do("wget", {}, "tar.gz"),
     Unless("libpng", 1), Do("tar", {"tar.gz"}, "libpng") >>
  \o Rm({"BUILD", "lib"})
  \o << Do("copy", {"libpng"}, "BUILD"), OrExit(Do("make", {"BUILD"}, "lib")),
        OrExit(Do("engine", {}, "engine")) >>
  \o LinkLib \o Link({"BUILD", "lib"}, "exe-structure-aware")
Libssh_build       == FromSource \o LinkLib
Libxml2_build      ==
  get_git_tag("SRC") \o get_git_revision("afl") \o build_lib("SRC") \o build_fuzzer
  \o << Do("copy", {"afl"}, "xml.dict") >> \o LinkLib
Libcxxabi_build    == get_svn_revision("SRC") \o build_fuzzer \o Link({"SRC"}, "exe")
Openssl101f_build  ==
  get_git_tag("SRC") \o build_lib("SRC") \o build_fuzzer \o LinkLib
  \o Rm({"runtime"}) \o << Do("copy", {}, "runtime") >>
Openssl102d_build  == get_git_tag("SRC") \o build_lib("SRC") \o build_fuzzer \o LinkLib
Openssl110c_build  ==
  get_git_tag("SRC") \o build_lib("SRC") \o build_fuzzer
  \o << Do("cc", {"BUILD"}, "bignum.o") >> \o Link({"bignum.o", "lib"}, "exe-bignum")
  \o << Do("cc", {"BUILD"}, "x509.o") >>   \o Link({"x509.o", "lib"}, "exe-x509")
Openthread_build   ==
  Rm({"SRC"}) \o get_git_revision("SRC")
  \o << OrExit(Do("engine", {}, "engine")) >>
  \o Rm({"BUILD", "lib"})
  \o << Do("copy", {"SRC"}, "BUILD"), OrExit(Do("make", {"BUILD", "engine"}, "lib")),
        IfMissing("seeds", 1), Do("copy", {"BUILD"}, "seeds"),
        Do("cp", {"lib"}, "exe-ip6"), Do("cp", {"lib"}, "exe-radio") >>
Pcre2_build        == get_svn_revision("SRC") \o build_lib("SRC") \o build_fuzzer \o LinkLib
Proj4_build        == FromSource \o SeedsFromBuild \o LinkLib
Re2_build          == FromSource \o LinkLib
Sqlite_build       ==
  build_fuzzer \o << Do("cc", {}, "sqlite3.o"), Do("cc", {}, "ossfuzz.o") >>
  \o Link({"sqlite3.o", "ossfuzz.o"}, "exe")
Vorbis_build       ==
  get_git_revision("SRC/ogg") \o get_git_revision("SRC/vorbis")
  \o << Unless("SRC/oss-fuzz", 1), Do("clone-n", {}, "SRC/oss-fuzz"),
        Do("reset", {}, "SRC/oss-fuzz") >>
  \o Rm({"BUILD/ogg"})
  \o << Do("copy", {"SRC/ogg"}, "BUILD/ogg"), Do("make", {"BUILD/ogg"}, "INSTALL/ogg") >>
  \o Rm({"BUILD/vorbis"})
  \o << Do("copy", {"SRC/vorbis"}, "BUILD/vorbis"),
        Do("make", {"BUILD/vorbis"}, "INSTALL/vorbis") >>
  \o build_fuzzer \o Link({"SRC/oss-fuzz", "INSTALL/ogg", "INSTALL/vorbis"}, "exe")
Woff2_build        ==
  get_git_revision("SRC") \o get_git_revision("BROTLI") \o get_git_revision("seeds")
  \o Rm({"objs"}) \o build_fuzzer
  \o << Do("jobs", {"SRC", "BROTLI"}, "objs") >> \o Link({"objs", "SRC"}, "exe")
Wpantund_build     ==
  get_git_revision("SRC") \o << OrExit(Do("engine", {}, "engine")) >>
  \o Rm({"BUILD", "lib"})
  \o << Do("copy", {"SRC"}, "BUILD"), OrExit(Do("make", {"BUILD", "engine"}, "lib")),
        IfMissing("seeds", 1), Do("copy", {"BUILD"}, "seeds"), Do("cp", {"lib"}, "exe") >>

-----------------------------------------------------------------------------
(* test-libfuzzer.sh of each benchmark.                                    *)

\* rm -rf $CORPUS fuzz-*.log; mkdir $CORPUS
Clear(corpus, logs) == Rm({corpus} \union logs) \o << Do("mkdir", {}, corpus) >>

\* [ -e exe ] && ./exe -jobs=... $CORPUS seeds
RunFuzzer(inputs) == << Do("fuzz", {"exe"} \union inputs, "fuzz.log") >>

\* [ -e exe ] && ./exe ... > log (or | tee log): the shell truncates the log itself.
RunFuzzerTo(inputs, log) == << Do("redirect", {"exe"} \union inputs, log) >>

GrepLog(log) == << Do("grep", {log}, "") >>

\* grep PATTERN log || exit 1
GrepLogOrExit(log) == << OrExit(Do("grep", {log}, "")) >>

Standard(inputs) ==
  Clear("CORPUS", {"fuzz.log"}) \o RunFuzzer({"CORPUS"} \union inputs) \o GrepLogOrExit("fuzz.log")

AllLogs == {"fuzz.log", "log", "min.log"}

Boringssl_test   == Standard({"seeds"})
C_ares_test      == Rm({"fuzz.log"}) \o RunFuzzerTo({}, "log") \o GrepLog("log")
Freetype2_test   ==
  Clear("CORPUS", {"fuzz.log"}) \o RunFuzzer({"CORPUS", "seeds"}) \o GrepLog("fuzz.log")
Guetzli_test     == Standard({})
Harfbuzz_test    ==
  Clear("CORPUS", {"fuzz.log"}) \o RunFuzzer({"CORPUS", "seeds"}) \o GrepLog("fuzz.log")
Json_test        == Standard({"seeds"})
Lcms_test        == Standard({})
Libarchive_test  == Standard({})
Libjpeg_test     ==
  Clear("CORPUS", {"fuzz.log"}) \o Rm(AllLogs) \o RunFuzzer({"CORPUS"}) \o GrepLogOrExit("fuzz.log")
test_source_location ==
  Rm(AllLogs) \o RunFuzzer({"CORPUS"}) \o GrepLogOrExit("fuzz.log")
Libpng_test      ==
  Clear("CORPUS", {"fuzz.log"})
  \o test_source_location \o test_source_location \o test_source_location
Libssh_test      == Standard({})
\* The test fetches another afl than build.sh, under the same name: not the revision that
\* build.sh names, if it has to be fetched.
Libxml2_test     ==
  << Unless("afl", 1), Do("clone", {}, "afl") >>
  \o Clear("CORPUS", {"fuzz.log"}) \o RunFuzzer({"CORPUS", "afl"}) \o GrepLog("fuzz.log")
Libcxxabi_test   == Standard({})
Openssl101f_test == Rm({"fuzz.log"}) \o RunFuzzerTo({}, "log") \o GrepLog("log")
Openssl102d_test ==
  Standard({}) \o RunFuzzerTo({}, "min.log") \o GrepLog("min.log") \o GrepLogOrExit("min.log")
Pcre2_test       ==
  Clear("CORPUS", {"fuzz.log"}) \o RunFuzzer({"CORPUS"}) \o GrepLog("fuzz.log")
Proj4_test       == Standard({"seeds"})
Re2_test         ==
  Standard({}) \o Clear("CORPUS-2", {"fuzz.log"})
  \o RunFuzzerTo({"CORPUS", "CORPUS-2"}, "log") \o GrepLog("log") \o GrepLogOrExit("log")
Sqlite_test      == Standard({})
Vorbis_test      == Standard({})
Woff2_test       ==
  Standard({"seeds"})
  \o Clear("CORPUS-1", {"fuzz.log"}) \o RunFuzzer({"CORPUS-1"}) \o GrepLogOrExit("fuzz.log")

-----------------------------------------------------------------------------
\* $1 of build-and-test.sh: the directories that hold a build.sh.
AllDirectories ==
  {"boringssl", "c-ares", "freetype2", "guetzli", "harfbuzz", "json", "lcms", "libarchive",
   "libjpeg-turbo", "libpng", "libssh", "libxml2", "libcxxabi", "openssl-1.0.1f",
   "openssl-1.0.2d", "openssl-1.1.0c", "openthread", "pcre2", "proj4", "re2", "sqlite",
   "vorbis", "woff2", "wpantund"}

BuildIn(b) ==
  CASE b = "boringssl" -> Boringssl_build       [] b = "c-ares" -> C_ares_build
    [] b = "freetype2" -> Freetype2_build       [] b = "guetzli" -> Guetzli_build
    [] b = "harfbuzz" -> Harfbuzz_build         [] b = "json" -> Json_build
    [] b = "lcms" -> Lcms_build                 [] b = "libarchive" -> Libarchive_build
    [] b = "libjpeg-turbo" -> Libjpeg_build     [] b = "libpng" -> Libpng_build
    [] b = "libssh" -> Libssh_build             [] b = "libxml2" -> Libxml2_build
    [] b = "libcxxabi" -> Libcxxabi_build       [] b = "openssl-1.0.1f" -> Openssl101f_build
    [] b = "openssl-1.0.2d" -> Openssl102d_build [] b = "openssl-1.1.0c" -> Openssl110c_build
    [] b = "openthread" -> Openthread_build     [] b = "pcre2" -> Pcre2_build
    [] b = "proj4" -> Proj4_build               [] b = "re2" -> Re2_build
    [] b = "sqlite" -> Sqlite_build             [] b = "vorbis" -> Vorbis_build
    [] b = "woff2" -> Woff2_build               [] b = "wpantund" -> Wpantund_build

\* openssl-1.1.0c, openthread and wpantund have no test-libfuzzer.sh.
TestIn(b) ==
  CASE b = "boringssl" -> Boringssl_test        [] b = "c-ares" -> C_ares_test
    [] b = "freetype2" -> Freetype2_test        [] b = "guetzli" -> Guetzli_test
    [] b = "harfbuzz" -> Harfbuzz_test          [] b = "json" -> Json_test
    [] b = "lcms" -> Lcms_test                  [] b = "libarchive" -> Libarchive_test
    [] b = "libjpeg-turbo" -> Libjpeg_test      [] b = "libpng" -> Libpng_test
    [] b = "libssh" -> Libssh_test              [] b = "libxml2" -> Libxml2_test
    [] b = "libcxxabi" -> Libcxxabi_test        [] b = "openssl-1.0.1f" -> Openssl101f_test
    [] b = "openssl-1.0.2d" -> Openssl102d_test [] b = "pcre2" -> Pcre2_test
    [] b = "proj4" -> Proj4_test                [] b = "re2" -> Re2_test
    [] b = "sqlite" -> Sqlite_test              [] b = "vorbis" -> Vorbis_test
    [] b = "woff2" -> Woff2_test                [] OTHER -> << >>

\* The executables a build.sh promises.
ExecutablesIn(b) ==
  CASE b = "libpng" -> {"exe", "exe-structure-aware"}
    [] b = "openssl-1.1.0c" -> {"exe-bignum", "exe-x509"}
    [] b = "openthread" -> {"exe-ip6", "exe-radio"}
    [] OTHER -> {"exe"}

\* A benchmark is a directory with a value of FUZZING_ENGINE: the default or one of the others.
Engines == {"fsanitize_fuzzer", "archive"}

BuildOf(b) == IF b[2] = "archive" THEN BuildIn(b[1]) ELSE fsanitize_fuzzer(BuildIn(b[1]))

TestOf(b) == TestIn(b[1])

ExecutablesOf(b) == ExecutablesIn(b[1])

AllExecutables == UNION {ExecutablesIn(b) : b \in AllDirectories}

\* What an invocation makes again each time, from sources it fetched now or found there.
AllArtifacts ==
  {"BUILD", "lib", "engine", "objs", "bignum.o", "x509.o", "sqlite3.o", "ossfuzz.o", "BUILD/ogg",
   "BUILD/vorbis", "INSTALL/ogg", "INSTALL/vorbis"} \union AllExecutables \union AllLogs

AllPaths ==
  AllArtifacts \union
  {"SRC", "SRC/ogg", "SRC/vorbis", "SRC/oss-fuzz", "BROTLI", "TRT", "afl", "tar.gz", "libpng",
   "seeds", "xml.dict", "runtime", "CORPUS", "CORPUS-1", "CORPUS-2"}
=============================================================================
