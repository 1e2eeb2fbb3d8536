SPECIFICATION HashSpec
CONSTANTS
  Offices = {o1, o2}
  NoOffice = none
  MaxCalls = 2
  ProcessLimit = 3
  ExecFails = TRUE
  Buffered = TRUE
INVARIANTS
  HashOfOwnPassword
  DescriptorsReturned
  KilledOnlyWithoutChild
PROPERTIES
  EveryCallEnds
  FifoEndsUnlessKnot
CHECK_DEADLOCK FALSE
