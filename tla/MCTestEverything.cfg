CONSTANTS
  Benchmarks = {re2, openthread}
  Tested = {re2}
  re2 = re2
  openthread = openthread
  MaxRuns = 2
SPECIFICATION Spec
INVARIANTS
  TypeOK
  FreshRunDirs
  ReportsAreOwn
PROPERTIES
  EveryBenchmarkReports
CHECK_DEADLOCK FALSE
