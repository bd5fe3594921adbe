CONSTANTS
  Benchmarks <- Heartbleed
  BuildScript <- MCBuildScript
  TestScript <- MCTestScript
  Executables <- MCExecutables
  Paths <- AllPaths
  Artifacts <- AllArtifacts
  Faults = {"link"}
  MaxRuns = 2
SPECIFICATION Spec
INVARIANTS
  PassIsOwnBuild
CHECK_DEADLOCK FALSE
