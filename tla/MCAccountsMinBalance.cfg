SPECIFICATION AccountsSpec
CONSTANTS
  p1 = p1
  p2 = p2
  MAX_BANK_ACCOUNTS = 3
  MAX_BALANCE = 4
  UINT32 = 10
  Passwords = {p1, p2}
  Pids = {1}
  Offices = {o1, o2}
  NoOffice = none
  AdminPassword = p1
  HashFaults = FALSE
  ClientCalls <- MCCalls
INVARIANTS
  MinBalanceKept
