CONSTANTS
  Benchmarks <- MCBenchmarks
  BuildScript <- MCBuildScript
  TestScript <- MCTestScript
  Executables <- MCExecutables
  Paths <- AllPaths
  Artifacts <- AllArtifacts
  Faults = {"clone", "clone-n", "reset", "svn", "wget", "tar", "copy", "fill", "engine", "make",
            "cc", "link", "cp", "jobs", "fuzz", "redirect", "kill"}
  MaxRuns = 2
SPECIFICATION Spec
INVARIANTS
  TypeOK
  DisciplineInv
  ReliableBuild
  ReliablePass
  PassIsOwnLog
  CleanRunBuilds
CHECK_DEADLOCK FALSE
