CONSTANTS
  kPngHeaderSize = 1
  MaxSize = 3
  MaxDim = 3
  Limit = 4
  WordSize = 16
  MaxRead = 3
  Workers = {w1, w2, w3}
  KeyLen = 2
  MaxLen = 1
  Benchmarks = {"sqlite", "libarchive", "lcms", "libjpeg", "pcre2", "libxml2", "c_ares",
                "openssl101f", "openssl102d", "hooks"}
  Samples <- MCSamples
  Lengths <- MCLengths
SPECIFICATION TargetsSpec
INVARIANTS
  TypeOK
  ReadsTheInput
  BoundedWork
  SshTypeOK
  KeyWholeWhenRead
  NothingHeldBetweenCalls
  AllGivenBack
  NothingUsedTooLate
  ReleasedOnce
  PrintsAlike
  SlicesTile
PROPERTIES
  OnlyErrorsLeak
  CallsReturn
