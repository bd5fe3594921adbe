CONSTANTS
  Seeds <- MCSeeds
  MaxSize = 5
  HugeLen = 5
  FuzzLen = 1
  RandomBytes = {0, 1}
  MaxRandom = 2
SPECIFICATION Spec
INVARIANTS
  TypeOK
  NeverHandedEmpty
  RereadsWhatItWrote
  MergesImageData
