SPECIFICATION HomeSpec
CONSTANTS
  p1 = p1
  p2 = p2
  u1 = u1
  u2 = u2
  u3 = u3
  MAX_BANK_ACCOUNTS = 2
  MAX_BALANCE = 1
  UINT32 = 4
  Passwords = {p1, p2}
  Pids = {u1, u3}
  Offices = {o1, o2}
  NoOffice = none
  AdminPassword = p1
  HashFaults = TRUE
  BUFFER_SIZE = 1
  FifoSize = 1
  MaxRuns = 1
  ClientCalls <- MCCalls
  CallsOf <- MCCallsOfHome
INVARIANTS
  DeadOfLateReplyOrHash
  LogsAgree
  UntakenNowhere
PROPERTIES
  KeepsToConversation
CHECK_DEADLOCK FALSE
