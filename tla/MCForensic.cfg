SPECIFICATION Spec
CONSTANTS
  Words <- MCWords
  Kinds <- MCKinds
  Hashes <- MCHashes
  Closed = {"dir"}
  LOGFILENAME = "log"
  NoLog = none
  Lines <- MCLines
  Root = "dir"
  Entries <- MCEntries
  Broken = {"a", "s2"}
  ForkFails = TRUE
INVARIANTS
  ArgsAsUsage
  InputKept
  ListedOnce
  CountsNeverAbove
  OrphansOnlyIfInterrupted
  StrayOnlyByOthers
  StopsAfterSigInt
PROPERTIES
  ImplementsListing
CHECK_DEADLOCK FALSE
