SPECIFICATION Spec
CONSTANTS
  MAX_BANK_ACCOUNTS = 2
  MAX_BALANCE = 3
  UINT32 = 16
  MIN_PASSWORD_LEN = 2
  MAX_PASSWORD_LEN = 3
  Passwords = {1, 2, 3, 4}
  Pids = {7}
  MaxRuns = 3
  ArgsOf <- MCArgsOf
INVARIANTS
  ProgramTypeOK
  OneReplyLogged
  FifoLeftOnlyUnsent
  OwnAnswer
  SentAsTyped
PROPERTIES
  ImplementsSession
CHECK_DEADLOCK FALSE
