--------------------------- MODULE AccountsProofs ---------------------------
(***************************************************************************)
(* Proofs about Accounts, for any number of offices, any table size, any   *)
(* limits and any set of requests.                                          *)
(*                                                                         *)
(* Everything follows from one inductive invariant: the mutexes agree with *)
(* the control of the offices (LocksMatchControl), so an account is used   *)
(* by one office at a time, so what a handler has checked still holds when *)
(* it writes (ChecksStillHold), so no balance leaves its bounds.  The       *)
(* refinement of Bank, and from it the conservation of money, follow.       *)
(***************************************************************************)
EXTENDS Accounts, FiniteSetTheorems, WellFoundedInduction, NaturalsInduction, TLAPS

AccountsInv ==
  AccountsTypeOK /\ LocksMatchControl /\ BalanceBounded /\ ChecksStillHold

-----------------------------------------------------------------------------
(* Facts about constants *)

LEMMA RequestFacts ==
  ASSUME NEW r \in ClientRequests
  PROVE  /\ r.account_id \in AccountIds /\ r.target \in AccountIds
         /\ r.password \in Passwords /\ r.new_password \in Passwords
         /\ r.value \in 0 .. MAX_BALANCE
         /\ r.type \in OpTypes
  BY DEF ClientRequests, Request

LEMMA NoRequestType == NoRequest \in ClientRequests
<1>1. PICK p \in Passwords, i \in Pids : TRUE
  BY RequestsAssumption DEF RequestsAssumption
<1> DEFINE r == [pid |-> i, type |-> "OP_BALANCE", account_id |-> 0, password |-> p,
                 target |-> 0, value |-> 0, new_password |-> p]
<1>2. r \in Request
  BY <1>1, RequestsAssumption DEF RequestsAssumption, Request, OpTypes, AccountIds
<1>3. r \in ClientRequests
  BY <1>2 DEF ClientRequests
<1> QED
  BY <1>3 DEF NoRequest

(* The accounts an operation locks are in the table, Low below High. *)
LEMMA LockFacts ==
  ASSUME NEW r \in ClientRequests
  PROVE  /\ Low(r) \in AccountIds /\ High(r) \in AccountIds
         /\ TwoAccounts(r) =>
              /\ Low(r) < High(r)
              /\ {Low(r), High(r)} = {r.account_id, r.target}
         /\ r.type = "OP_CREATE_ACCOUNT" => ~ TwoAccounts(r) /\ Low(r) = r.target
  BY RequestFacts, RequestsAssumption
     DEF Low, High, TwoAccounts, SenderLower, AccountIds, RequestsAssumption

(* A balance, an amount and their sum are uint32_t, so nothing wraps. *)
LEMMA WrapFacts ==
  ASSUME NEW b \in 0 .. MAX_BALANCE, NEW v \in 0 .. MAX_BALANCE
  PROVE  /\ Wrap(b + v) = b + v
         /\ v <= b => Wrap(b - v) = b - v
         /\ b \in 0 .. UINT32 - 1
  BY RequestsAssumption DEF Wrap, RequestsAssumption

LEMMA ReplyFacts ==
  /\ NoReply \in Reply
  /\ \A c \in RetCodes : MakeErrorReply(c) \in Reply
  /\ MakeCreateReply \in Reply
  /\ \A b \in 0 .. MAX_BALANCE, c \in RetCodes :
       MakeBalanceReply(b) \in Reply /\ MakeTransferReply(b, c) \in Reply
  /\ \A n \in 0 .. Cardinality(Offices) : MakeShutdownReply(n) \in Reply
<1>1. Cardinality(Offices) \in Nat /\ Cardinality(Offices) < UINT32
  BY AccountsAssumption, FS_CardinalityType DEF AccountsAssumption
<1> QED
  BY <1>1, RequestsAssumption
     DEF RequestsAssumption, Reply, NoReply, RetCodes, MakeErrorReply, MakeCreateReply,
         MakeBalanceReply, MakeTransferReply, MakeShutdownReply

-----------------------------------------------------------------------------
(* Initial states *)

LEMMA InitInv == AccountsInit => AccountsInv
<1> SUFFICES ASSUME AccountsInit PROVE AccountsInv
  OBVIOUS
<1>1. AccountsTypeOK
  BY NoRequestType, ReplyFacts, RequestsAssumption, AccountsAssumption
     DEF AccountsInit, AccountsTypeOK, PCs, RequestsAssumption, AccountsAssumption
<1>2. LocksMatchControl
  BY AccountsAssumption DEF AccountsInit, LocksMatchControl, Held, AccountsAssumption
<1>3. BalanceBounded /\ ChecksStillHold
  BY RequestsAssumption
     DEF AccountsInit, BalanceBounded, ChecksStillHold, At, RequestsAssumption
<1> QED
  BY <1>1, <1>2, <1>3 DEF AccountsInv

-----------------------------------------------------------------------------
(* Types *)

LEMMA TypeInductive ==
  ASSUME AccountsInv, NEW o \in Offices, OfficeStep(o)
  PROVE  AccountsTypeOK'
<1> DEFINE r == req[o]
<1> USE DEF AccountsTypeOK, AccountsInv
<1>1. r \in ClientRequests /\ pc \in [Offices -> PCs] /\ reply \in [Offices -> Reply]
  OBVIOUS
<1>2. r.account_id \in AccountIds /\ r.target \in AccountIds
  BY <1>1, RequestFacts
<1>3. balance[r.account_id] \in 0 .. MAX_BALANCE
  BY <1>2 DEF BalanceBounded
<1>4. ASSUME NEW q \in ClientCalls, Take(o, q) PROVE AccountsTypeOK'
  BY <1>4, <1>1, AccountsAssumption
     DEF Take, Goto, PCs, tableVars, AccountsAssumption
<1>5. CASE LockHeader(o)
  BY <1>5, <1>1, <1>2 DEF LockHeader, lockAccount, Goto, PCs, tableVars
<1>6. CASE Validate(o)
  BY <1>6, <1>1, ReplyFacts DEF Validate, SetReply, Goto, PCs, tableVars, RetCodes
<1>7. CASE UnlockHeader(o)
  BY <1>7, <1>1, <1>2 DEF UnlockHeader, unlockAccount, Goto, PCs, tableVars
<1>8. CASE LockLow(o)
  BY <1>8, <1>1, LockFacts DEF LockLow, lockAccount, Goto, PCs, tableVars
<1>9. CASE LockHigh(o)
  BY <1>9, <1>1, LockFacts DEF LockHigh, lockAccount, Goto, PCs, tableVars
<1>10. CASE HandleCreate(o)
  BY <1>10, <1>1, ReplyFacts
     DEF HandleCreate, RefuseWith, CreateCode, Unlocking, SetReply, Goto, PCs, tableVars, RetCodes
<1>11. CASE CreateAccount(o)
  <2>1. r.value \in 0 .. UINT32 - 1 /\ r.new_password \in Passwords
    BY <1>1, RequestFacts, WrapFacts
  <2> QED
    BY <1>11, <1>1, <1>2, <2>1, ReplyFacts
       DEF CreateAccount, Unlocking, SetReply, Goto, PCs, tableVars
<1>12. CASE HandleBalance(o)
  BY <1>12, <1>1, <1>3, ReplyFacts
     DEF HandleBalance, Unlocking, SetReply, Goto, PCs, tableVars, RetCodes
<1>13. CASE HandleTransfer(o)
  BY <1>13, <1>1, <1>3, ReplyFacts
     DEF HandleTransfer, RefuseWith, TransferCode, Unlocking, SetReply, Goto, PCs, tableVars, RetCodes
<1>14. CASE Debit(o)
  <2>1. balance[r.account_id] >= r.value
    BY <1>14 DEF Debit, ChecksStillHold, At
  <2>2. r.value \in 0 .. MAX_BALANCE
    BY <1>1, RequestFacts
  <2>3. Wrap(balance[r.account_id] - r.value) \in 0 .. UINT32 - 1
    BY <1>3, <2>1, <2>2, WrapFacts, RequestsAssumption DEF RequestsAssumption
  <2> QED
    BY <1>14, <1>1, <1>2, <2>3 DEF Debit, Goto, PCs
<1>15. CASE Credit(o)
  <2>1. r.account_id # r.target
    BY <1>15 DEF Credit, At, ChecksStillHold, TwoAccounts
  <2>2. Wrap(balance[r.target] + r.value) \in 0 .. UINT32 - 1
    <3>1. balance[r.target] \in 0 .. MAX_BALANCE /\ r.value \in 0 .. MAX_BALANCE
      BY <1>1, <1>2, RequestFacts DEF BalanceBounded
    <3> QED
      BY <3>1, WrapFacts, RequestsAssumption DEF RequestsAssumption
  <2>3. balance' = [balance EXCEPT ![r.target] = Wrap(@ + r.value)]
    BY <1>15 DEF Credit
  <2>4. balance' \in [AccountIds -> 0 .. UINT32 - 1]
    BY <2>2, <2>3
  <2>5. balance'[r.account_id] \in 0 .. MAX_BALANCE
    BY <1>2, <1>3, <2>1, <2>3
  <2>6. reply' \in [Offices -> Reply]
    BY <1>15, <1>1, <2>5, ReplyFacts DEF Credit, SetReply, RetCodes
  <2> QED
    BY <1>15, <1>1, <2>4, <2>6 DEF Credit, Unlocking, Goto, PCs
<1>16. ASSUME NEW n \in 0 .. Cardinality(Offices), HandleShutdown(o, n)
       PROVE  AccountsTypeOK'
  BY <1>16, <1>1, ReplyFacts DEF HandleShutdown, SetReply, Goto, PCs, tableVars, RetCodes
<1>17. CASE UnlockHigh(o)
  BY <1>17, <1>1, LockFacts DEF UnlockHigh, unlockAccount, Goto, PCs, tableVars
<1>18. CASE UnlockLow(o)
  BY <1>18, <1>1, LockFacts DEF UnlockLow, unlockAccount, Goto, PCs, tableVars
<1>19. CASE Finish(o)
  BY <1>19, <1>1, NoRequestType, ReplyFacts DEF Finish, SetReply, Goto, PCs, tableVars
<1> QED
  BY <1>4, <1>5, <1>6, <1>7, <1>8, <1>9, <1>10, <1>11, <1>12, <1>13, <1>14, <1>15, <1>16,
     <1>17, <1>18, <1>19
     DEF OfficeStep, Work

-----------------------------------------------------------------------------
(* Mutexes *)

(* What one office does leaves the others where they are. *)
LEMMA OthersStay ==
  ASSUME AccountsTypeOK, NEW o \in Offices, OfficeStep(o), NEW p \in Offices \ {o}
  PROVE  pc'[p] = pc[p] /\ req'[p] = req[p] /\ Held(p)' = Held(p)
<1>1. pc'[p] = pc[p] /\ req'[p] = req[p]
  BY DEF AccountsTypeOK, OfficeStep, Work, Take, LockHeader, Validate, UnlockHeader, LockLow,
         LockHigh, HandleCreate, RefuseWith, CreateAccount, HandleBalance, HandleTransfer,
         Debit, Credit, HandleShutdown, UnlockHigh, UnlockLow, Finish, Goto
<1> QED
  BY <1>1 DEF Held

LEMMA LockTaken ==
  ASSUME AccountsTypeOK, LocksMatchControl, NEW o \in Offices, NEW a \in AccountIds,
         lockAccount(o, a), Held(o)' = Held(o) \union {a},
         \A p \in Offices \ {o} : Held(p)' = Held(p)
  PROVE  LocksMatchControl'
  BY AccountsAssumption DEF AccountsAssumption, AccountsTypeOK, LocksMatchControl, lockAccount

LEMMA LockReleased ==
  ASSUME AccountsTypeOK, LocksMatchControl, NEW o \in Offices, NEW a \in Held(o),
         a \in AccountIds, unlockAccount(o, a), Held(o)' = Held(o) \ {a},
         \A p \in Offices \ {o} : Held(p)' = Held(p)
  PROVE  LocksMatchControl'
  BY AccountsAssumption DEF AccountsAssumption, AccountsTypeOK, LocksMatchControl, unlockAccount

LEMMA LockKept ==
  ASSUME LocksMatchControl, NEW o \in Offices, mutex' = mutex, Held(o)' = Held(o),
         \A p \in Offices \ {o} : Held(p)' = Held(p)
  PROVE  LocksMatchControl'
  BY DEF LocksMatchControl

LEMMA LocksInductive ==
  ASSUME AccountsInv, NEW o \in Offices, OfficeStep(o)
  PROVE  LocksMatchControl'
<1> DEFINE r == req[o]
<1> USE DEF AccountsInv
<1>1. pc \in [Offices -> PCs] /\ req \in [Offices -> ClientRequests] /\ r \in ClientRequests
  BY DEF AccountsTypeOK
<1>2. \A p \in Offices \ {o} : Held(p)' = Held(p)
  BY OthersStay
<1>3. /\ r.account_id \in AccountIds /\ Low(r) \in AccountIds /\ High(r) \in AccountIds
      /\ TwoAccounts(r) => Low(r) < High(r)
  BY <1>1, RequestFacts, LockFacts
<1>4. TwoAccounts(r) => Low(r) # High(r)
  BY <1>3 DEF AccountIds
<1>5. ASSUME NEW q \in ClientCalls, Take(o, q) PROVE LocksMatchControl'
  BY <1>5, <1>1, <1>2, LockKept DEF Take, Goto, At, Held
<1>6. CASE LockHeader(o)
  <2>1. Held(o) = {} /\ Held(o)' = {r.account_id}
    BY <1>6, <1>1 DEF LockHeader, Goto, At, Held
  <2> QED
    BY <1>6, <1>2, <1>3, <2>1, LockTaken DEF LockHeader
<1>7. CASE Validate(o)
  BY <1>7, <1>1, <1>2, LockKept DEF Validate, Goto, At, Held
<1>8. CASE UnlockHeader(o)
  <2>1. Held(o) = {r.account_id} /\ Held(o)' = {}
    BY <1>8, <1>1 DEF UnlockHeader, Goto, At, Held
  <2> QED
    BY <1>8, <1>2, <1>3, <2>1, LockReleased DEF UnlockHeader
<1>9. CASE LockLow(o)
  <2>1. Held(o) = {} /\ Held(o)' = {Low(r)}
    BY <1>9, <1>1 DEF LockLow, Goto, At, Held
  <2> QED
    BY <1>9, <1>2, <1>3, <2>1, LockTaken DEF LockLow
<1>10. CASE LockHigh(o)
  <2>1. TwoAccounts(r)
    BY <1>10 DEF LockHigh, At, ChecksStillHold
  <2>2. Held(o) = {Low(r)} /\ Held(o)' = {Low(r), High(r)}
    BY <1>10, <1>1, <2>1 DEF LockHigh, Goto, At, Held
  <2> QED
    BY <1>10, <1>2, <1>3, <2>2, LockTaken DEF LockHigh
<1>11. CASE \/ HandleCreate(o) \/ CreateAccount(o) \/ HandleBalance(o)
            \/ HandleTransfer(o) \/ Debit(o) \/ Credit(o)
  <2>1. /\ pc[o] \in {"handle", "create", "debit", "credit"}
        /\ pc'[o] \in {"create", "debit", "credit", Unlocking(r)}
        /\ req' = req /\ mutex' = mutex
    BY <1>11, <1>1
       DEF HandleCreate, CreateAccount, HandleBalance, HandleTransfer, Debit, Credit,
           RefuseWith, Goto, At
  <2>2. Held(o)' = Held(o)
    BY <2>1 DEF Unlocking, Held
  <2> QED
    BY <1>2, <2>1, <2>2, LockKept
<1>12. ASSUME NEW n \in 0 .. Cardinality(Offices), HandleShutdown(o, n)
       PROVE  LocksMatchControl'
  BY <1>12, <1>1, <1>2, LockKept DEF HandleShutdown, Goto, At, Held
<1>13. CASE UnlockHigh(o)
  <2>1. TwoAccounts(r)
    BY <1>13 DEF UnlockHigh, At, ChecksStillHold
  <2>2. Held(o) = {Low(r), High(r)} /\ Held(o)' = {Low(r)}
    BY <1>13, <1>1, <2>1 DEF UnlockHigh, Goto, At, Held
  <2>3. Held(o)' = Held(o) \ {High(r)}
    BY <1>4, <2>1, <2>2
  <2> QED
    BY <1>13, <1>2, <1>3, <2>2, <2>3, LockReleased DEF UnlockHigh
<1>14. CASE UnlockLow(o)
  <2>1. Held(o) = {Low(r)} /\ Held(o)' = {}
    BY <1>14, <1>1 DEF UnlockLow, Goto, At, Held
  <2> QED
    BY <1>14, <1>2, <1>3, <2>1, LockReleased DEF UnlockLow
<1>15. CASE Finish(o)
  BY <1>15, <1>1, <1>2, LockKept DEF Finish, Goto, At, Held
<1> QED
  BY <1>5, <1>6, <1>7, <1>8, <1>9, <1>10, <1>11, <1>12, <1>13, <1>14, <1>15
     DEF OfficeStep, Work

-----------------------------------------------------------------------------
(* Balances and checks *)

(* An office changes the table only where it holds the mutex. *)
LEMMA WritesAreLocked ==
  ASSUME AccountsInv, NEW o \in Offices, OfficeStep(o), NEW a \in AccountIds \ Held(o)
  PROVE  balance'[a] = balance[a] /\ used'[a] = used[a] /\ secret'[a] = secret[a]
<1> DEFINE r == req[o]
<1>1. r \in ClientRequests
  BY DEF AccountsInv, AccountsTypeOK
<1>2. CASE UNCHANGED tableVars
  BY <1>2 DEF tableVars
<1>3. CASE CreateAccount(o)
  <2>1. At(o, "create") /\ r.type = "OP_CREATE_ACCOUNT"
    BY <1>3 DEF CreateAccount, AccountsInv, ChecksStillHold
  <2>2. r.target \in Held(o)
    BY <1>1, <2>1, LockFacts DEF At, Held
  <2> QED
    BY <1>3, <2>2 DEF CreateAccount, AccountsInv, AccountsTypeOK, tableVars
<1>4. CASE Debit(o) \/ Credit(o)
  <2>1. pc[o] \in {"debit", "credit"} /\ TwoAccounts(r)
    BY <1>4 DEF Debit, Credit, At, AccountsInv, ChecksStillHold
  <2>2. r.account_id \in Held(o) /\ r.target \in Held(o)
    BY <1>1, <2>1, LockFacts DEF Held
  <2> QED
    BY <1>4, <2>2 DEF Debit, Credit, AccountsInv, AccountsTypeOK
<1> QED
  BY <1>2, <1>3, <1>4
     DEF OfficeStep, Work, Take, LockHeader, Validate, UnlockHeader, LockLow, LockHigh,
         HandleCreate, HandleBalance, HandleTransfer, HandleShutdown, UnlockHigh, UnlockLow, Finish

(* Two offices never hold the same account. *)
LEMMA HeldDisjoint ==
  ASSUME LocksMatchControl, NEW o \in Offices, NEW p \in Offices \ {o},
         NEW a \in AccountIds, a \in Held(p)
  PROVE  a \notin Held(o)
  BY DEF LocksMatchControl

LEMMA BalanceInductive ==
  ASSUME AccountsInv, NEW o \in Offices, OfficeStep(o)
  PROVE  BalanceBounded'
<1> DEFINE r == req[o]
<1>1. r \in ClientRequests /\ balance \in [AccountIds -> 0 .. UINT32 - 1]
  BY DEF AccountsInv, AccountsTypeOK
<1>2. r.account_id \in AccountIds /\ r.target \in AccountIds /\ r.value \in 0 .. MAX_BALANCE
  BY <1>1, RequestFacts
<1>3. balance[r.account_id] \in 0 .. MAX_BALANCE /\ balance[r.target] \in 0 .. MAX_BALANCE
  BY <1>2 DEF AccountsInv, BalanceBounded
<1>4. CASE CreateAccount(o)
  BY <1>1, <1>2, <1>4 DEF CreateAccount, tableVars, AccountsInv, BalanceBounded
<1>5. CASE Debit(o)
  <2>1. balance[r.account_id] >= r.value
    BY <1>5 DEF Debit, AccountsInv, ChecksStillHold
  <2>2. Wrap(balance[r.account_id] - r.value) \in 0 .. MAX_BALANCE
    <3>1. Wrap(balance[r.account_id] - r.value) = balance[r.account_id] - r.value
      BY <1>2, <1>3, <2>1, WrapFacts
    <3> QED
      BY <1>2, <1>3, <2>1, <3>1, RequestsAssumption DEF RequestsAssumption
  <2> QED
    BY <1>1, <1>5, <2>2 DEF Debit, AccountsInv, BalanceBounded
<1>6. CASE Credit(o)
  <2>1. balance[r.target] + r.value <= MAX_BALANCE
    BY <1>6 DEF Credit, At, AccountsInv, ChecksStillHold
  <2>2. Wrap(balance[r.target] + r.value) \in 0 .. MAX_BALANCE
    <3>1. Wrap(balance[r.target] + r.value) = balance[r.target] + r.value
      BY <1>2, <1>3, WrapFacts
    <3> QED
      BY <1>2, <1>3, <2>1, <3>1, RequestsAssumption DEF RequestsAssumption
  <2> QED
    BY <1>1, <1>6, <2>2 DEF Credit, AccountsInv, BalanceBounded
<1>7. CASE UNCHANGED balance
  BY <1>7 DEF AccountsInv, BalanceBounded
<1> QED
  BY <1>4, <1>5, <1>6, <1>7
     DEF OfficeStep, Work, Take, LockHeader, Validate, UnlockHeader, LockLow, LockHigh,
         HandleCreate, HandleBalance, HandleTransfer, HandleShutdown, UnlockHigh, UnlockLow,
         Finish, tableVars

LEMMA ChecksInductive ==
  ASSUME AccountsInv, NEW o \in Offices, OfficeStep(o)
  PROVE  ChecksStillHold'
<1> DEFINE Check(p) ==
      LET r == req[p]
      IN  /\ pc[p] \in {"lock_high", "debit", "credit", "unlock_high"} => TwoAccounts(r)
          /\ At(p, "create") => r.type = "OP_CREATE_ACCOUNT" /\ ~ used[r.target]
          /\ At(p, "debit") => balance[r.account_id] >= r.value
          /\ pc[p] \in {"debit", "credit"} => balance[r.target] + r.value <= MAX_BALANCE
<1>1. \A p \in Offices : Check(p)
  BY DEF AccountsInv, ChecksStillHold
<1>2. pc \in [Offices -> PCs] /\ req \in [Offices -> ClientRequests]
  BY DEF AccountsInv, AccountsTypeOK
<1>3. ASSUME NEW p \in Offices \ {o} PROVE Check(p)'
  <2> DEFINE r == req[p]
  <2>1. pc'[p] = pc[p] /\ req'[p] = r /\ r \in ClientRequests
    BY <1>2, OthersStay DEF AccountsInv
  <2>2. r.account_id \in AccountIds /\ r.target \in AccountIds
    BY <2>1, RequestFacts
  <2>3. CASE At(p, "create")
    <3>1. r.target \in Held(p)
      BY <1>1, <2>1, <2>3, LockFacts DEF At, Held
    <3>2. used'[r.target] = used[r.target]
      BY <2>2, <3>1, HeldDisjoint, WritesAreLocked DEF AccountsInv
    <3> QED
      BY <1>1, <2>1, <2>3, <3>2 DEF At
  <2>4. CASE pc[p] \in {"debit", "credit"}
    <3>1. r.account_id \in Held(p) /\ r.target \in Held(p)
      BY <1>1, <2>1, <2>4, LockFacts DEF Held
    <3>2. balance'[r.target] = balance[r.target] /\ balance'[r.account_id] = balance[r.account_id]
      BY <2>2, <3>1, HeldDisjoint, WritesAreLocked DEF AccountsInv
    <3> QED
      BY <1>1, <2>1, <2>4, <3>2 DEF At
  <2> QED
    BY <1>1, <2>1, <2>3, <2>4 DEF At
<1>4. Check(o)'
  <2> DEFINE r == req[o]
  <2>1. r \in ClientRequests
    BY <1>2
  <2>2. r.account_id \in AccountIds /\ r.target \in AccountIds /\ r.value \in 0 .. MAX_BALANCE
    BY <2>1, RequestFacts
  <2>3. balance[r.target] \in 0 .. MAX_BALANCE
    BY <2>2 DEF AccountsInv, BalanceBounded
  <2>4. CASE HandleCreate(o)
    BY <1>2, <2>4, OthersStay
       DEF HandleCreate, RefuseWith, CreateCode, Unlocking, Goto, At, tableVars
  <2>5. CASE HandleTransfer(o)
    <3>1. CASE TransferCode(r) = "OK"
      <4>1. /\ r.account_id # r.target /\ ~ (balance[r.account_id] < r.value)
            /\ ~ (Wrap(balance[r.target] + r.value) > MAX_BALANCE)
        BY <3>1 DEF TransferCode
      <4>2. Wrap(balance[r.target] + r.value) = balance[r.target] + r.value
        BY <2>2, <2>3, WrapFacts
      <4>3. balance[r.account_id] \in 0 .. MAX_BALANCE
        BY <2>2 DEF AccountsInv, BalanceBounded
      <4>4. /\ balance[r.account_id] >= r.value /\ balance[r.target] + r.value <= MAX_BALANCE
        BY <2>2, <2>3, <4>1, <4>2, <4>3, RequestsAssumption DEF RequestsAssumption
      <4> QED
        BY <1>2, <2>5, <3>1, <4>1, <4>4 DEF HandleTransfer, TwoAccounts, Goto, At, tableVars
    <3>2. CASE TransferCode(r) # "OK"
      BY <1>2, <2>5, <3>2 DEF HandleTransfer, RefuseWith, Unlocking, Goto, At, tableVars
    <3> QED
      BY <3>1, <3>2
  <2>6. CASE Debit(o)
    <3>1. r.account_id # r.target /\ TwoAccounts(r)
      BY <1>1, <2>6 DEF Debit, At, TwoAccounts
    <3>2. balance'[r.target] = balance[r.target]
      BY <2>6, <2>2, <3>1 DEF Debit, AccountsInv, AccountsTypeOK
    <3> QED
      BY <1>1, <1>2, <2>6, <3>1, <3>2 DEF Debit, Goto, At
  <2>7. CASE \/ \E q \in ClientCalls : Take(o, q)
             \/ LockHeader(o) \/ Validate(o) \/ UnlockHeader(o)
             \/ LockLow(o) \/ LockHigh(o) \/ CreateAccount(o)
             \/ HandleBalance(o) \/ Credit(o)
             \/ \E n \in 0 .. Cardinality(Offices) : HandleShutdown(o, n)
             \/ UnlockHigh(o) \/ UnlockLow(o) \/ Finish(o)
    <3>1. /\ pc'[o] \notin {"create", "debit", "credit"}
          /\ pc'[o] \in {"lock_high", "unlock_high"} => req'[o] = req[o] /\ TwoAccounts(r)
      BY <1>2, <2>7
         DEF Take, LockHeader, Validate, UnlockHeader, LockLow, LockHigh, CreateAccount,
             HandleBalance, Credit, HandleShutdown, UnlockHigh, UnlockLow, Finish, Goto, Unlocking
    <3> QED
      BY <3>1 DEF At
  <2> QED
    BY <2>4, <2>5, <2>6, <2>7 DEF OfficeStep, Work
<1> QED
  BY <1>3, <1>4 DEF ChecksStillHold

-----------------------------------------------------------------------------
(* Theorems *)

LEMMA InvInductive == AccountsInv /\ [AccountsNext]_accountVars => AccountsInv'
<1> SUFFICES ASSUME AccountsInv, [AccountsNext]_accountVars PROVE AccountsInv'
  OBVIOUS
<1>1. CASE UNCHANGED accountVars
  BY <1>1
     DEF accountVars, AccountsInv, AccountsTypeOK, LocksMatchControl, Held, BalanceBounded,
         ChecksStillHold, At
<1>2. ASSUME NEW o \in Offices, OfficeStep(o) PROVE AccountsInv'
  BY <1>2, TypeInductive, LocksInductive, BalanceInductive, ChecksInductive DEF AccountsInv
<1> QED
  BY <1>1, <1>2 DEF AccountsNext

(* The invariant all the theorems below are read off. *)
THEOREM AccountsInvariant == AccountsSpec => []AccountsInv
  BY InitInv, InvInductive, PTL DEF AccountsSpec

(* The state of the offices, of the mutexes and of the table always has    *)
(* its type: replies are replies, balances are uint32_t.                    *)
THEOREM AccountsTypes == AccountsSpec => []AccountsTypeOK
  BY AccountsInvariant, PTL DEF AccountsInv

(* No handler leaks a mutex, releases one it does not hold, or touches an  *)
(* account without its mutex (lockAccount, unlockAccount,                   *)
(* getDoubleAccountAccess, unlockDoubleAccount).                            *)
THEOREM MutexesMatchControl == AccountsSpec => []LocksMatchControl
  BY AccountsInvariant, PTL DEF AccountsInv

(* No balance wraps around or leaves 0..MAX_BALANCE: the sums and the      *)
(* differences handleTransferRequest forms are those of the integers.       *)
THEOREM BalancesBounded == AccountsSpec => []BalanceBounded
  BY AccountsInvariant, PTL DEF AccountsInv

(* What handleCreateAccountRequest and handleTransferRequest have checked  *)
(* is still so when they write.                                             *)
THEOREM ChecksHoldOn == AccountsSpec => []ChecksStillHold
  BY AccountsInvariant, PTL DEF AccountsInv

LEMMA OpenedOnceStep ==
  AccountsInv /\ [AccountsNext]_accountVars
    => [\A a \in AccountIds : used[a] => used'[a] /\ secret'[a] = secret[a]]_tableVars
<1> SUFFICES ASSUME AccountsInv, NEW o \in Offices, OfficeStep(o), NEW a \in AccountIds, used[a]
             PROVE  used'[a] /\ secret'[a] = secret[a]
  BY DEF AccountsNext, accountVars, tableVars
<1>1. CASE CreateAccount(o)
  <2>1. req[o].target # a
    BY <1>1 DEF CreateAccount, AccountsInv, ChecksStillHold
  <2> QED
    BY <1>1, <2>1 DEF CreateAccount, AccountsInv, AccountsTypeOK, tableVars
<1>2. CASE UNCHANGED <<used, secret>>
  BY <1>2
<1> QED
  BY <1>1, <1>2
     DEF OfficeStep, Work, Take, LockHeader, Validate, UnlockHeader, LockLow, LockHigh,
         HandleCreate, HandleBalance, HandleTransfer, Debit, Credit, HandleShutdown,
         UnlockHigh, UnlockLow, Finish, tableVars

(* An account is opened once and keeps its password, however many          *)
(* creations of its id race for it (handleCreateAccountRequest).            *)
THEOREM AccountsOpenedOnce == AccountsSpec => OpenedOnce
  BY AccountsInvariant, OpenedOnceStep, PTL DEF AccountsSpec, OpenedOnce

-----------------------------------------------------------------------------
(* Deadlock freedom.  An office that waits holding a mutex is in           *)
(* getDoubleAccountAccess and waits for a higher account than it holds.    *)
(* In a set of offices that all wait for one another, the one that waits   *)
(* for the highest account waits for an office that waits for a higher one. *)

LEMMA WaitsUpwards ==
  ASSUME AccountsInv, NEW o \in Offices, NEW a \in Held(o), NEW b \in Wants(o)
  PROVE  a \in AccountIds /\ b \in AccountIds /\ a < b
<1> DEFINE r == req[o]
<1>1. r \in ClientRequests
  BY DEF AccountsInv, AccountsTypeOK
<1>2. At(o, "lock_high") /\ a = Low(r) /\ b = High(r)
  BY DEF Held, Wants, At
<1>3. TwoAccounts(r)
  BY <1>2 DEF AccountsInv, ChecksStillHold, At
<1> QED
  BY <1>1, <1>2, <1>3, LockFacts

LEMMA WantedIsKnown ==
  ASSUME AccountsInv, NEW o \in Offices, NEW a \in Wants(o)
  PROVE  a \in AccountIds
<1>1. req[o] \in ClientRequests
  BY DEF AccountsInv, AccountsTypeOK
<1> QED
  BY <1>1, RequestFacts, LockFacts DEF Wants

(* A set of accounts that is not empty has a highest. *)
LEMMA HighestAccount ==
  ASSUME NEW T \in SUBSET AccountIds, T # {}
  PROVE  \E x \in T : \A y \in T : ~ (x < y)
<1> DEFINE N == MAX_BANK_ACCOUNTS
           D == {n \in Nat : \E a \in T : n = N - a}
           Less == OpToRel(<, Nat)
<1>1. N \in Nat /\ \A a \in T : a \in Nat /\ a < N
  BY RequestsAssumption DEF RequestsAssumption, AccountIds
<1>2. D \subseteq Nat /\ D # {}
  BY <1>1
<1>3. IsWellFoundedOn(Less, Nat)
  BY NatLessThanWellFounded
<1>4. PICK d \in D : \A e \in D : ~ (<<e, d>> \in Less)
  <2> HIDE DEF D, Less
  <2> QED
    BY <1>2, <1>3, WFMin
<1>5. \A e \in D : ~ (e < d)
  BY <1>2, <1>4 DEF OpToRel
<1>6. PICK x \in T : d = N - x
  BY <1>4
<1>7. ASSUME NEW y \in T, x < y PROVE FALSE
  <2>1. N - y \in D /\ N - y < d
    BY <1>1, <1>6, <1>7
  <2> QED
    BY <1>5, <2>1
<1> QED
  BY <1>6, <1>7

LEMMA NoCircularWaitFollows ==
  ASSUME AccountsInv
  PROVE  NoCircularWait
<1> SUFFICES ASSUME NEW S \in SUBSET Offices, S # {},
                    \A o \in S : \E a \in Wants(o) : mutex[a] \in S
             PROVE  FALSE
  BY DEF NoCircularWait
<1> DEFINE T == {a \in AccountIds : \E o \in S : a \in Wants(o) /\ mutex[a] \in S}
<1>1. T # {}
  BY WantedIsKnown
<1>2. PICK x \in T : \A y \in T : ~ (x < y)
  <2> HIDE DEF T
  <2>1. T \in SUBSET AccountIds
    BY DEF T
  <2> QED
    BY <1>1, <2>1, HighestAccount
<1>3. mutex[x] \in S
  BY <1>2
<1>4. x \in Held(mutex[x])
  BY <1>2, <1>3 DEF AccountsInv, LocksMatchControl
<1>5. PICK b \in Wants(mutex[x]) : mutex[b] \in S
  BY <1>3
<1>6. b \in T /\ x < b
  BY <1>3, <1>4, <1>5, WaitsUpwards
<1> QED
  BY <1>2, <1>6

(* The offices never wait for one another's accounts in a circle           *)
(* (getDoubleAccountAccess locks the lower account first).                  *)
THEOREM AccountsDeadlockFree == AccountsSpec => []NoCircularWait
  BY AccountsInvariant, NoCircularWaitFollows, PTL

-----------------------------------------------------------------------------
(* The refinement of Bank.  A request takes effect at one step of its       *)
(* office: the one that refuses it, opens the account, reads the balance,   *)
(* credits the receiver or answers the shutdown.  At that step the office   *)
(* holds the mutexes of all the accounts the outcome depends on, so that    *)
(* no other transfer is half done on them, and the first error of the       *)
(* outcome is the one the handler has found.                                *)

Deciding == {"lock_low", "lock_high", "handle", "debit", "credit", "create"}
Decided == {"unlock_high", "unlock_low", "reply"}

Known(r) == used[r.account_id] /\ secret[r.account_id] = r.password

(* A request has a reply when it has been decided and not before; an       *)
(* office past the validation works for an account that gave its password; *)
(* and an office that is about to write was allowed to.                     *)
ProgressOK(o) ==
  LET r == req[o]
  IN  /\ pc[o] \in Decided => reply[o] # NoReply
      /\ pc[o] \notin Decided \union {"unlock_header"} => reply[o] = NoReply
      /\ pc[o] \in Deciding \union {"shutdown"} => Known(r)
      /\ At(o, "unlock_header") /\ reply[o] = NoReply => Known(r)
      /\ pc[o] \in Deciding => r.type # "OP_SHUTDOWN"
      /\ At(o, "shutdown") => r.type = "OP_SHUTDOWN"
      /\ At(o, "create") => r.account_id = ADMIN_ACCOUNT_ID
      /\ pc[o] \in {"debit", "credit"} =>
           r.type = "OP_TRANSFER" /\ r.account_id # ADMIN_ACCOUNT_ID /\ used[r.target]

ProgressInv == \A o \in Offices : ProgressOK(o)

LEMMA ProgressInit == AccountsInit => ProgressInv
  BY DEF AccountsInit, ProgressInv, ProgressOK, Decided, Deciding, At

LEMMA AnswersAreNoNoReply ==
  /\ \A c \in RetCodes : MakeErrorReply(c) # NoReply
  /\ MakeCreateReply # NoReply
  /\ \A b : MakeBalanceReply(b) # NoReply
  /\ \A b, c : c \in RetCodes => MakeTransferReply(b, c) # NoReply
  /\ \A n : MakeShutdownReply(n) # NoReply
  BY DEF RetCodes, NoReply, MakeErrorReply, MakeCreateReply, MakeBalanceReply,
         MakeTransferReply, MakeShutdownReply

LEMMA CodesAreCodes ==
  ASSUME NEW r
  PROVE  CreateCode(r) \in RetCodes /\ TransferCode(r) \in RetCodes
  BY DEF CreateCode, TransferCode, RetCodes

LEMMA OthersReplyStays ==
  ASSUME AccountsTypeOK, NEW o \in Offices, OfficeStep(o), NEW p \in Offices \ {o}
  PROVE  reply'[p] = reply[p]
  BY DEF AccountsTypeOK, OfficeStep, Work, Take, LockHeader, Validate, UnlockHeader, LockLow,
         LockHigh, HandleCreate, RefuseWith, CreateAccount, HandleBalance, HandleTransfer,
         Debit, Credit, HandleShutdown, UnlockHigh, UnlockLow, Finish, SetReply

LEMMA ProgressOfOthers ==
  ASSUME AccountsInv, ProgressInv, NEW o \in Offices, OfficeStep(o), NEW p \in Offices \ {o}
  PROVE  ProgressOK(p)'
<1> DEFINE r == req[p]
<1>1. pc'[p] = pc[p] /\ req'[p] = r /\ reply'[p] = reply[p]
  BY OthersStay, OthersReplyStays DEF AccountsInv
<1>2. r.account_id \in AccountIds /\ r.target \in AccountIds
  BY RequestFacts DEF AccountsInv, AccountsTypeOK
<1>3. \A a \in AccountIds : used[a] => used'[a] /\ secret'[a] = secret[a]
  <2>1. [\A a \in AccountIds : used[a] => used'[a] /\ secret'[a] = secret[a]]_tableVars
    BY OpenedOnceStep DEF AccountsNext
  <2> QED
    BY <2>1 DEF tableVars
<1>4. ProgressOK(p)
  BY DEF ProgressInv
<1>5. Known(r) => Known(r)'
  BY <1>1, <1>2, <1>3 DEF Known
<1>6. used[r.target] => used'[r.target]
  BY <1>2, <1>3
<1> QED
  BY <1>1, <1>4, <1>5, <1>6 DEF ProgressOK, At

LEMMA ProgressOfOne ==
  ASSUME AccountsInv, ProgressInv, NEW o \in Offices, OfficeStep(o)
  PROVE  ProgressOK(o)'
<1> DEFINE r == req[o]
<1>1. /\ pc \in [Offices -> PCs] /\ req \in [Offices -> ClientRequests]
      /\ reply \in [Offices -> Reply] /\ r \in ClientRequests
  BY DEF AccountsInv, AccountsTypeOK
<1>2. ProgressOK(o)
  BY DEF ProgressInv
<1>3. \A c \in RetCodes : MakeErrorReply(c) # NoReply /\ \A b : MakeTransferReply(b, c) # NoReply
  BY AnswersAreNoNoReply
<1> USE DEF Decided, Deciding, At, Goto, SetReply
<1>4. ASSUME NEW q \in ClientCalls, Take(o, q) PROVE ProgressOK(o)'
  BY <1>4, <1>1, <1>2 DEF Take, ProgressOK, tableVars
<1>5. CASE LockHeader(o)
  BY <1>5, <1>1, <1>2 DEF LockHeader, ProgressOK, tableVars
<1>6. CASE Validate(o)
  <2>1. pc'[o] = "unlock_header" /\ reply[o] = NoReply /\ UNCHANGED <<req, used, secret>>
    BY <1>6, <1>1, <1>2 DEF Validate, ProgressOK, tableVars
  <2>2. ~ Known(r) => reply'[o] # NoReply
    BY <1>6, <1>1, <1>3 DEF Validate, Known, RetCodes
  <2> QED
    BY <2>1, <2>2 DEF ProgressOK, Known
<1>7. CASE UnlockHeader(o)
  BY <1>7, <1>1, <1>2 DEF UnlockHeader, ProgressOK, Known, tableVars
<1>8. CASE LockLow(o) \/ LockHigh(o)
  <2>1. /\ pc[o] \in {"lock_low", "lock_high"} /\ pc'[o] \in {"lock_high", "handle"}
        /\ UNCHANGED <<req, reply, used, secret>>
    BY <1>8, <1>1 DEF LockLow, LockHigh, tableVars
  <2> QED
    BY <1>2, <2>1 DEF ProgressOK, Known
<1>9. CASE HandleCreate(o)
  <2>1. CASE CreateCode(r) = "OK"
    <3>1. r.account_id = ADMIN_ACCOUNT_ID
      BY <2>1 DEF CreateCode
    <3> QED
      BY <1>9, <1>1, <1>2, <2>1, <3>1 DEF HandleCreate, ProgressOK, Known, tableVars
  <2>2. CASE CreateCode(r) # "OK"
    BY <1>9, <1>1, <1>3, <2>2, CodesAreCodes
       DEF HandleCreate, RefuseWith, Unlocking, ProgressOK, tableVars
  <2> QED
    BY <2>1, <2>2
<1>10. CASE CreateAccount(o)
  BY <1>10, <1>1, AnswersAreNoNoReply DEF CreateAccount, Unlocking, ProgressOK
<1>11. CASE HandleBalance(o)
  BY <1>11, <1>1, <1>3, AnswersAreNoNoReply
     DEF HandleBalance, Unlocking, ProgressOK, RetCodes
<1>12. CASE HandleTransfer(o)
  <2>1. CASE TransferCode(r) = "OK"
    <3>1. r.account_id # ADMIN_ACCOUNT_ID /\ used[r.target]
      BY <2>1 DEF TransferCode
    <3> QED
      BY <1>12, <1>1, <1>2, <2>1, <3>1 DEF HandleTransfer, ProgressOK, Known, tableVars
  <2>2. CASE TransferCode(r) # "OK"
    BY <1>12, <1>1, <1>3, <2>2, CodesAreCodes
       DEF HandleTransfer, RefuseWith, Unlocking, ProgressOK
  <2> QED
    BY <2>1, <2>2
<1>13. CASE Debit(o)
  BY <1>13, <1>1, <1>2 DEF Debit, ProgressOK, Known
<1>14. CASE Credit(o)
  <2>1. reply'[o] # NoReply
    BY <1>14, <1>1, <1>3 DEF Credit, RetCodes
  <2> QED
    BY <1>14, <1>1, <2>1 DEF Credit, Unlocking, ProgressOK
<1>15. ASSUME NEW n \in 0 .. Cardinality(Offices), HandleShutdown(o, n)
       PROVE  ProgressOK(o)'
  BY <1>15, <1>1, <1>3, AnswersAreNoNoReply DEF HandleShutdown, ProgressOK, RetCodes
<1>16. CASE UnlockHigh(o) \/ UnlockLow(o)
  <2>1. pc[o] \in Decided /\ pc'[o] \in Decided /\ reply' = reply
    BY <1>16, <1>1 DEF UnlockHigh, UnlockLow
  <2> QED
    BY <1>2, <2>1 DEF ProgressOK
<1>17. CASE Finish(o)
  BY <1>17, <1>1 DEF Finish, ProgressOK
<1> QED
  BY <1>4, <1>5, <1>6, <1>7, <1>8, <1>9, <1>10, <1>11, <1>12, <1>13, <1>14, <1>15, <1>16, <1>17
     DEF OfficeStep, Work

LEMMA ProgressStep ==
  ASSUME AccountsInv, ProgressInv, [AccountsNext]_accountVars
  PROVE  ProgressInv'
<1>1. CASE UNCHANGED accountVars
  BY <1>1 DEF accountVars, ProgressInv, ProgressOK, Known, At
<1>2. ASSUME NEW o \in Offices, OfficeStep(o) PROVE ProgressInv'
  BY <1>2, ProgressOfOne, ProgressOfOthers DEF ProgressInv
<1> QED
  BY <1>1, <1>2 DEF AccountsNext

-----------------------------------------------------------------------------
(* What is settled *)

Leaves(p, a) == At(p, "credit") /\ req[p].account_id = a

LEMMA SettledIs ==
  ASSUME NEW a \in AccountIds
  PROVE  /\ (\A p \in Offices : ~ Leaves(p, a)) => Settled[a] = balance[a]
         /\ \A o \in Offices :
              Leaves(o, a) /\ (\A p \in Offices \ {o} : ~ Leaves(p, a))
                => Settled[a] = balance[a] + req[o].value
<1> DEFINE leaving == {o \in Offices : Leaves(o, a)}
<1>1. Settled[a] = IF leaving = {} THEN balance[a]
                   ELSE balance[a] + req[CHOOSE o \in leaving : TRUE].value
  BY DEF Settled, Leaves
<1>2. ASSUME NEW o \in Offices, Leaves(o, a), \A p \in Offices \ {o} : ~ Leaves(p, a)
      PROVE  leaving # {} /\ (CHOOSE p \in leaving : TRUE) = o
  <2>1. leaving = {o}
    BY <1>2
  <2>2. (CHOOSE p \in {o} : TRUE) = o
    OBVIOUS
  <2> QED
    BY <2>1, <2>2
<1> QED
  BY <1>1, <1>2

LEMMA SettledIsNext ==
  ASSUME NEW a \in AccountIds
  PROVE  /\ (\A p \in Offices : ~ Leaves(p, a)') => Settled'[a] = balance'[a]
         /\ \A o \in Offices :
              Leaves(o, a)' /\ (\A p \in Offices \ {o} : ~ Leaves(p, a)')
                => Settled'[a] = balance'[a] + req'[o].value
<1> DEFINE leaving == {o \in Offices : Leaves(o, a)'}
<1>1. Settled'[a] = IF leaving = {} THEN balance'[a]
                    ELSE balance'[a] + req'[CHOOSE o \in leaving : TRUE].value
  BY DEF Settled, Leaves
<1>2. ASSUME NEW o \in Offices, Leaves(o, a)', \A p \in Offices \ {o} : ~ Leaves(p, a)'
      PROVE  leaving # {} /\ (CHOOSE p \in leaving : TRUE) = o
  <2>1. leaving = {o}
    BY <1>2
  <2>2. (CHOOSE p \in {o} : TRUE) = o
    OBVIOUS
  <2> QED
    BY <2>1, <2>2
<1> QED
  BY <1>1, <1>2

(* The mutex of an account keeps the transfers of the others off it. *)
LEMMA OthersDoNotLeave ==
  ASSUME AccountsInv, NEW o \in Offices, NEW a \in AccountIds, a \in Held(o),
         NEW p \in Offices \ {o}
  PROVE  ~ Leaves(p, a)
<1> SUFFICES ASSUME Leaves(p, a) PROVE FALSE
  OBVIOUS
<1>1. TwoAccounts(req[p]) /\ req[p] \in ClientRequests
  BY DEF Leaves, At, AccountsInv, ChecksStillHold, AccountsTypeOK
<1>2. a \in Held(p)
  BY <1>1, LockFacts DEF Leaves, At, Held
<1> QED
  BY <1>2, HeldDisjoint DEF AccountsInv

(* An office that has not debited its sender leaves no account it holds    *)
(* with money on its way.                                                   *)
LEMMA HeldIsSettled ==
  ASSUME AccountsInv, NEW o \in Offices, ~ At(o, "credit"), NEW a \in AccountIds, a \in Held(o)
  PROVE  Settled[a] = balance[a]
<1>1. \A p \in Offices : ~ Leaves(p, a)
  BY OthersDoNotLeave DEF Leaves
<1> QED
  BY <1>1, SettledIs

LEMMA SettledIsAFunction ==
  /\ Settled = [a \in AccountIds |-> Settled[a]]
  /\ Settled' = [a \in AccountIds |-> Settled'[a]]
  BY DEF Settled

(* An account whose balance is not written, and whose transfers neither    *)
(* begin nor end their second half, stays settled as it was.                *)
LEMMA OtherAccountsSettled ==
  ASSUME NEW a \in AccountIds, balance'[a] = balance[a],
         \A p \in Offices : Leaves(p, a)' <=> Leaves(p, a),
         \A p \in Offices : Leaves(p, a) => req'[p] = req[p]
  PROVE  Settled'[a] = Settled[a]
<1> DEFINE leaving == {o \in Offices : Leaves(o, a)}
           leavingNext == {o \in Offices : Leaves(o, a)'}
           c == CHOOSE o \in leaving : TRUE
<1>1. leavingNext = leaving
  OBVIOUS
<1>2. leaving # {} => req'[c] = req[c]
  <2>1. leaving # {} => c \in leaving
    <3> HIDE DEF leaving
    <3> QED
      OBVIOUS
  <2>2. leaving # {} => c \in Offices /\ Leaves(c, a)
    <3> HIDE DEF c
    <3> QED
      BY <2>1
  <2> HIDE DEF c
  <2> QED
    BY <2>2
<1>3. Settled[a] = IF leaving = {} THEN balance[a] ELSE balance[a] + req[c].value
  BY DEF Settled, Leaves
<1>4. Settled'[a] = IF leavingNext = {} THEN balance'[a]
                    ELSE balance'[a] + req'[CHOOSE o \in leavingNext : TRUE].value
  BY DEF Settled, Leaves
<1> HIDE DEF leaving, leavingNext
<1> QED
  BY <1>1, <1>2, <1>3, <1>4

(* A step that neither writes balances nor begins or ends the second half  *)
(* of a transfer leaves what is settled as it is.                           *)
LEMMA SettledStays ==
  ASSUME UNCHANGED balance,
         \A p \in Offices : At(p, "credit")' <=> At(p, "credit"),
         \A p \in Offices : At(p, "credit") => req'[p] = req[p]
  PROVE  Settled' = Settled
<1>1. ASSUME NEW a \in AccountIds PROVE Settled'[a] = Settled[a]
  BY OtherAccountsSettled DEF Leaves
<1> QED
  BY <1>1, SettledIsAFunction

(* What is settled when it has changed for one or two accounts only. *)
LEMMA SettledBut ==
  ASSUME NEW b \in AccountIds, NEW c \in AccountIds,
         \A a \in AccountIds \ {b, c} : Settled'[a] = Settled[a]
  PROVE  /\ b = c => Settled' = [Settled EXCEPT ![b] = Settled'[b]]
         /\ b # c => Settled' = [Settled EXCEPT ![b] = Settled'[b], ![c] = Settled'[c]]
<1> DEFINE S == Settled
           T == Settled'
<1>1. S = [a \in AccountIds |-> S[a]] /\ T = [a \in AccountIds |-> T[a]]
  BY SettledIsAFunction
<1> HIDE DEF S, T
<1>2. \A a \in AccountIds \ {b, c} : T[a] = S[a]
  BY DEF S, T
<1>3. b = c => T = [S EXCEPT ![b] = T[b]]
  BY <1>1, <1>2
<1>4. b # c => T = [S EXCEPT ![b] = T[b], ![c] = T[c]]
  BY <1>1, <1>2
<1> QED
  BY <1>3, <1>4 DEF S, T

-----------------------------------------------------------------------------
(* Errors *)

(* The names and the types of the messages are the same for Bank. *)
LEMMA SameMessages ==
  /\ Promise!ErrorCodes = ErrorCodes /\ Promise!RetCodes = RetCodes
  /\ Promise!AccountIds = AccountIds /\ Promise!NoReply = NoReply
  /\ Promise!ADMIN_ACCOUNT_ID = ADMIN_ACCOUNT_ID
  /\ \A c : Promise!MakeErrorReply(c) = MakeErrorReply(c)
  /\ Promise!MakeCreateReply = MakeCreateReply
  /\ \A b : Promise!MakeBalanceReply(b) = MakeBalanceReply(b)
  /\ \A b, c : Promise!MakeTransferReply(b, c) = MakeTransferReply(b, c)
  /\ \A n : Promise!MakeShutdownReply(n) = MakeShutdownReply(n)
  BY DEF Promise!ErrorCodes, ErrorCodes, Promise!RetCodes, RetCodes, Promise!AccountIds,
         AccountIds, Promise!NoReply, NoReply, Promise!ADMIN_ACCOUNT_ID, ADMIN_ACCOUNT_ID,
         Promise!MakeErrorReply, MakeErrorReply, Promise!MakeCreateReply, MakeCreateReply,
         Promise!MakeBalanceReply, MakeBalanceReply, Promise!MakeTransferReply,
         MakeTransferReply, Promise!MakeShutdownReply, MakeShutdownReply

LEMMA FirstErrorIs ==
  ASSUME NEW codes, NEW k \in 1 .. 11, ErrorCodes[k] \in codes,
         \A j \in 1 .. k - 1 : ErrorCodes[j] \notin codes
  PROVE  Promise!FirstError(codes) = ErrorCodes[k]
<1> DEFINE First(i) == ErrorCodes[i] \in codes /\ \A j \in 1 .. i - 1 : ErrorCodes[j] \notin codes
           f == CHOOSE i \in 1 .. 11 : First(i)
<1>1. DOMAIN ErrorCodes = 1 .. 11
  BY DEF ErrorCodes
<1>2. f \in 1 .. 11 /\ First(f)
  <2> HIDE DEF First
  <2>1. First(k)
    BY DEF First
  <2> QED
    BY <2>1
<1>3. f = k
  <2> HIDE DEF f
  <2>1. CASE f < k
    BY <1>2, <2>1
  <2>2. CASE k < f
    BY <1>2, <2>2
  <2> QED
    BY <1>2, <2>1, <2>2
<1> QED
  BY <1>1, <1>3, SameMessages DEF Promise!FirstError

LEMMA NumbersOfErrors ==
  /\ ErrorCodes[1] = "SRV_DOWN" /\ ErrorCodes[2] = "SRV_TIMEOUT" /\ ErrorCodes[3] = "USR_DOWN"
  /\ ErrorCodes[4] = "LOGIN_FAIL" /\ ErrorCodes[5] = "OP_NALLOW" /\ ErrorCodes[6] = "ID_IN_USE"
  /\ ErrorCodes[7] = "ID_NOT_FOUND" /\ ErrorCodes[8] = "SAME_ID" /\ ErrorCodes[9] = "NO_FUNDS"
  /\ ErrorCodes[10] = "TOO_HIGH" /\ ErrorCodes[11] = "OTHER"
  BY DEF ErrorCodes

(* The first error of a set that has an error and none of those before it. *)
LEMMA FirstErrors ==
  ASSUME NEW codes, codes \cap {"SRV_DOWN", "SRV_TIMEOUT", "USR_DOWN"} = {}
  PROVE  LET First(c, before) ==
               c \in codes /\ codes \cap before = {} => Promise!FirstError(codes) = c
         IN  /\ First("LOGIN_FAIL", {})
             /\ First("OP_NALLOW", {"LOGIN_FAIL"})
             /\ First("ID_IN_USE", {"LOGIN_FAIL", "OP_NALLOW"})
             /\ First("ID_NOT_FOUND", {"LOGIN_FAIL", "OP_NALLOW", "ID_IN_USE"})
             /\ First("SAME_ID", {"LOGIN_FAIL", "OP_NALLOW", "ID_IN_USE", "ID_NOT_FOUND"})
             /\ First("NO_FUNDS",
                      {"LOGIN_FAIL", "OP_NALLOW", "ID_IN_USE", "ID_NOT_FOUND", "SAME_ID"})
             /\ First("TOO_HIGH",
                      {"LOGIN_FAIL", "OP_NALLOW", "ID_IN_USE", "ID_NOT_FOUND", "SAME_ID",
                       "NO_FUNDS"})
<1> DEFINE Before(k) == \A j \in 1 .. k - 1 : ErrorCodes[j] \notin codes
<1>1. \A k \in 1 .. 11 :
        ErrorCodes[k] \in codes /\ Before(k) => Promise!FirstError(codes) = ErrorCodes[k]
  BY FirstErrorIs
<1>2. Before(4)
  <2>1. \A j \in 1 .. 4 - 1 : j = 1 \/ j = 2 \/ j = 3
    OBVIOUS
  <2> QED
    BY <2>1, NumbersOfErrors
<1>3. \A k \in 1 .. 10 : Before(k) /\ ErrorCodes[k] \notin codes => Before(k + 1)
  <2> SUFFICES ASSUME NEW k \in 1 .. 10, Before(k), ErrorCodes[k] \notin codes,
                      NEW j \in 1 .. (k + 1) - 1
               PROVE  ErrorCodes[j] \notin codes
    OBVIOUS
  <2>1. j = k \/ j \in 1 .. k - 1
    OBVIOUS
  <2> QED
    BY <2>1
<1> HIDE DEF Before
<1>4. /\ "LOGIN_FAIL" \notin codes => Before(5)
      /\ Before(5) /\ "OP_NALLOW" \notin codes => Before(6)
      /\ Before(6) /\ "ID_IN_USE" \notin codes => Before(7)
      /\ Before(7) /\ "ID_NOT_FOUND" \notin codes => Before(8)
      /\ Before(8) /\ "SAME_ID" \notin codes => Before(9)
      /\ Before(9) /\ "NO_FUNDS" \notin codes => Before(10)
  BY <1>2, <1>3, NumbersOfErrors
<1>5. /\ "LOGIN_FAIL" \in codes => Promise!FirstError(codes) = "LOGIN_FAIL"
      /\ Before(5) /\ "OP_NALLOW" \in codes => Promise!FirstError(codes) = "OP_NALLOW"
      /\ Before(6) /\ "ID_IN_USE" \in codes => Promise!FirstError(codes) = "ID_IN_USE"
      /\ Before(7) /\ "ID_NOT_FOUND" \in codes => Promise!FirstError(codes) = "ID_NOT_FOUND"
      /\ Before(8) /\ "SAME_ID" \in codes => Promise!FirstError(codes) = "SAME_ID"
      /\ Before(9) /\ "NO_FUNDS" \in codes => Promise!FirstError(codes) = "NO_FUNDS"
      /\ Before(10) /\ "TOO_HIGH" \in codes => Promise!FirstError(codes) = "TOO_HIGH"
  BY <1>1, <1>2, NumbersOfErrors
<1> QED
  BY <1>4, <1>5

(* The errors Bank sees in a request are those its handler looks for: of   *)
(* an account that exists, when the accounts concerned are settled.        *)
LEMMA ErrorsAre ==
  ASSUME NEW r \in ClientRequests
  PROVE  LET codes == Promise!Errors(r)
             admin == r.account_id = ADMIN_ACCOUNT_ID
         IN  /\ codes \cap {"SRV_DOWN", "SRV_TIMEOUT", "USR_DOWN"} = {}
             /\ "LOGIN_FAIL" \in codes <=> secret[r.account_id] # r.password
             /\ "OP_NALLOW" \in codes <=> (admin # (r.type \in {"OP_CREATE_ACCOUNT", "OP_SHUTDOWN"}))
             /\ "ID_IN_USE" \in codes <=> r.type = "OP_CREATE_ACCOUNT" /\ used[r.target]
             /\ "ID_NOT_FOUND" \in codes <=> r.type = "OP_TRANSFER" /\ ~ used[r.target]
             /\ "SAME_ID" \in codes <=> r.type = "OP_TRANSFER" /\ r.target = r.account_id
             /\ "NO_FUNDS" \in codes <=> r.type = "OP_TRANSFER" /\ Settled[r.account_id] < r.value
             /\ "TOO_HIGH" \in codes <=>
                  /\ r.type = "OP_TRANSFER" /\ r.target # r.account_id
                  /\ Settled[r.target] + r.value > MAX_BALANCE
             /\ codes \subseteq {"LOGIN_FAIL", "OP_NALLOW", "ID_IN_USE", "ID_NOT_FOUND",
                                 "SAME_ID", "NO_FUNDS", "TOO_HIGH"}
<1>1. r.type = "OP_TRANSFER" => r.target # ADMIN_ACCOUNT_ID
  BY DEF ClientRequests, UserIds
<1>2. ADMIN_ACCOUNT_ID = Promise!ADMIN_ACCOUNT_ID
      /\ Promise!RetCodes = {"OK", "SRV_DOWN", "SRV_TIMEOUT", "USR_DOWN", "LOGIN_FAIL",
           "OP_NALLOW", "ID_IN_USE", "ID_NOT_FOUND", "SAME_ID", "NO_FUNDS", "TOO_HIGH", "OTHER"}
  BY SameMessages DEF RetCodes
<1> DEFINE S == Settled
<1> HIDE DEF S
<1> QED
  BY <1>1, <1>2 DEF Promise!Errors

LEMMA OutcomeOfKnown ==
  ASSUME NEW r \in ClientRequests, Known(r)
  PROVE  /\ Promise!Outcome(r) = Promise!FirstError(Promise!Errors(r))
         /\ Promise!Errors(r) = {} => Promise!Outcome(r) = "OK"
         /\ "LOGIN_FAIL" \notin Promise!Errors(r)
  BY ErrorsAre DEF Known, Promise!Outcome, Promise!FirstError

LEMMA OutcomeOfUnknown ==
  ASSUME NEW r \in ClientRequests, ~ Known(r)
  PROVE  Promise!Outcome(r) = IF used[r.account_id] THEN "LOGIN_FAIL" ELSE "ID_NOT_FOUND"
<1>1. used[r.account_id] => "LOGIN_FAIL" \in Promise!Errors(r)
  BY ErrorsAre DEF Known
<1>2. used[r.account_id] => Promise!FirstError(Promise!Errors(r)) = "LOGIN_FAIL"
  BY <1>1, ErrorsAre, FirstErrors
<1> QED
  BY <1>2 DEF Promise!Outcome

LEMMA OutcomeOfBalance ==
  ASSUME NEW r \in ClientRequests, Known(r), r.type = "OP_BALANCE"
  PROVE  Promise!Outcome(r) = IF r.account_id # ADMIN_ACCOUNT_ID THEN "OK" ELSE "OP_NALLOW"
<1>1. CASE r.account_id # ADMIN_ACCOUNT_ID
  <2>1. Promise!Errors(r) = {}
    BY <1>1, ErrorsAre, OutcomeOfKnown
  <2> QED
    BY <1>1, <2>1, OutcomeOfKnown
<1>2. CASE r.account_id = ADMIN_ACCOUNT_ID
  <2>1. "OP_NALLOW" \in Promise!Errors(r)
    BY <1>2, ErrorsAre
  <2> QED
    BY <1>2, <2>1, ErrorsAre, FirstErrors, OutcomeOfKnown
<1> QED
  BY <1>1, <1>2

LEMMA OutcomeOfShutdown ==
  ASSUME NEW r \in ClientRequests, Known(r), r.type = "OP_SHUTDOWN"
  PROVE  Promise!Outcome(r) = IF r.account_id = ADMIN_ACCOUNT_ID THEN "OK" ELSE "OP_NALLOW"
<1>1. CASE r.account_id = ADMIN_ACCOUNT_ID
  <2>1. Promise!Errors(r) = {}
    BY <1>1, ErrorsAre, OutcomeOfKnown
  <2> QED
    BY <1>1, <2>1, OutcomeOfKnown
<1>2. CASE r.account_id # ADMIN_ACCOUNT_ID
  <2>1. "OP_NALLOW" \in Promise!Errors(r)
    BY <1>2, ErrorsAre
  <2> QED
    BY <1>2, <2>1, ErrorsAre, FirstErrors, OutcomeOfKnown
<1> QED
  BY <1>1, <1>2

LEMMA OutcomeOfCreate ==
  ASSUME NEW r \in ClientRequests, Known(r), r.type = "OP_CREATE_ACCOUNT"
  PROVE  Promise!Outcome(r) = CreateCode(r)
<1>1. CASE r.account_id # ADMIN_ACCOUNT_ID
  <2>1. "OP_NALLOW" \in Promise!Errors(r)
    BY <1>1, ErrorsAre
  <2> QED
    BY <1>1, <2>1, ErrorsAre, FirstErrors, OutcomeOfKnown DEF CreateCode
<1>2. CASE r.account_id = ADMIN_ACCOUNT_ID /\ used[r.target]
  <2>1. "ID_IN_USE" \in Promise!Errors(r) /\ "OP_NALLOW" \notin Promise!Errors(r)
    BY <1>2, ErrorsAre
  <2> QED
    BY <1>2, <2>1, ErrorsAre, FirstErrors, OutcomeOfKnown DEF CreateCode
<1>3. CASE r.account_id = ADMIN_ACCOUNT_ID /\ ~ used[r.target]
  <2>1. Promise!Errors(r) = {}
    BY <1>3, ErrorsAre, OutcomeOfKnown
  <2> QED
    BY <1>3, <2>1, OutcomeOfKnown DEF CreateCode
<1> QED
  BY <1>1, <1>2, <1>3

(* The codes of handleTransferRequest, when nothing wraps and both accounts *)
(* are settled.                                                             *)
LEMMA OutcomeOfTransfer ==
  ASSUME NEW r \in ClientRequests, Known(r), r.type = "OP_TRANSFER",
         Settled[r.account_id] = balance[r.account_id],
         Settled[r.target] = balance[r.target],
         Wrap(balance[r.target] + r.value) = balance[r.target] + r.value
  PROVE  Promise!Outcome(r) = TransferCode(r)
<1> DEFINE codes == Promise!Errors(r)
<1>1. r.target # ADMIN_ACCOUNT_ID
  BY DEF ClientRequests, UserIds
<1>2. /\ "LOGIN_FAIL" \notin codes /\ "ID_IN_USE" \notin codes
      /\ Promise!Outcome(r) = Promise!FirstError(codes)
      /\ codes = {} => Promise!Outcome(r) = "OK"
  BY ErrorsAre, OutcomeOfKnown
<1>3. /\ "OP_NALLOW" \in codes <=> r.account_id = ADMIN_ACCOUNT_ID
      /\ "ID_NOT_FOUND" \in codes <=> ~ used[r.target]
      /\ "SAME_ID" \in codes <=> r.target = r.account_id
      /\ "NO_FUNDS" \in codes <=> balance[r.account_id] < r.value
      /\ "TOO_HIGH" \in codes <=>
           r.target # r.account_id /\ balance[r.target] + r.value > MAX_BALANCE
  BY ErrorsAre
<1>4. /\ codes \cap {"SRV_DOWN", "SRV_TIMEOUT", "USR_DOWN"} = {}
      /\ codes \subseteq {"LOGIN_FAIL", "OP_NALLOW", "ID_IN_USE", "ID_NOT_FOUND",
                          "SAME_ID", "NO_FUNDS", "TOO_HIGH"}
  BY ErrorsAre
<1> HIDE DEF codes
<1>5. /\ "OP_NALLOW" \in codes => Promise!FirstError(codes) = "OP_NALLOW"
      /\ "OP_NALLOW" \notin codes /\ "ID_NOT_FOUND" \in codes
           => Promise!FirstError(codes) = "ID_NOT_FOUND"
      /\ "OP_NALLOW" \notin codes /\ "ID_NOT_FOUND" \notin codes /\ "SAME_ID" \in codes
           => Promise!FirstError(codes) = "SAME_ID"
      /\ /\ "OP_NALLOW" \notin codes /\ "ID_NOT_FOUND" \notin codes /\ "SAME_ID" \notin codes
         /\ "NO_FUNDS" \in codes
         => Promise!FirstError(codes) = "NO_FUNDS"
      /\ /\ "OP_NALLOW" \notin codes /\ "ID_NOT_FOUND" \notin codes /\ "SAME_ID" \notin codes
         /\ "NO_FUNDS" \notin codes /\ "TOO_HIGH" \in codes
         => Promise!FirstError(codes) = "TOO_HIGH"
      /\ /\ "OP_NALLOW" \notin codes /\ "ID_NOT_FOUND" \notin codes /\ "SAME_ID" \notin codes
         /\ "NO_FUNDS" \notin codes /\ "TOO_HIGH" \notin codes
         => codes = {}
  BY <1>2, <1>4, FirstErrors
<1> DEFINE low == balance[r.account_id] < r.value
           high == balance[r.target] + r.value > MAX_BALANCE
<1>6. TransferCode(r) =
        IF r.account_id = ADMIN_ACCOUNT_ID THEN "OP_NALLOW"
        ELSE IF ~ used[r.target] THEN "ID_NOT_FOUND"
        ELSE IF r.target = r.account_id THEN "SAME_ID"
        ELSE IF low THEN "NO_FUNDS"
        ELSE IF high THEN "TOO_HIGH" ELSE "OK"
  BY <1>1 DEF TransferCode
<1>7. /\ "NO_FUNDS" \in codes <=> low
      /\ "TOO_HIGH" \in codes <=> r.target # r.account_id /\ high
  BY <1>3
<1> HIDE DEF low, high
<1> QED
  BY <1>2, <1>3, <1>5, <1>6, <1>7

-----------------------------------------------------------------------------
(* Steps *)

Pending == [o \in Offices |-> IF At(o, "idle") THEN {} ELSE {req[o]}]

LEMMA PendingStays ==
  ASSUME req' = req, \A p \in Offices : At(p, "idle")' <=> At(p, "idle")
  PROVE  Pending' = Pending
  BY DEF Pending

LEMMA StutterOfBank ==
  ASSUME Settled' = Settled, Pending' = Pending, UNCHANGED <<used, secret, reply>>
  PROVE  UNCHANGED Promise!bankVars
  BY DEF Promise!bankVars, Pending

LEMMA ExecutesInBank ==
  ASSUME NEW o \in Offices, ~ At(o, "idle"), reply[o] = NoReply, Pending' = Pending,
         \/ Promise!Refuse(o, req[o]) \/ Promise!Create(o, req[o])
         \/ Promise!Transfer(o, req[o]) \/ Promise!ReadBalance(o, req[o])
         \/ Promise!Shutdown(o, req[o])
  PROVE  Promise!Next
<1>1. Pending[o] = {req[o]}
  BY DEF Pending
<1>2. Promise!Execute(o)
  BY <1>1, SameMessages DEF Promise!Execute, Pending
<1> QED
  BY <1>2 DEF Promise!Next

(* A step that refuses a request: no handler but that of a transfer tells  *)
(* a balance with its error.                                                *)
LEMMA RefusesInBank ==
  ASSUME NEW o \in Offices, ~ At(o, "idle"), reply[o] = NoReply, Pending' = Pending,
         Settled' = Settled, UNCHANGED <<used, secret>>,
         Promise!Outcome(req[o]) # "OK",
         SetReply(o, IF req[o].type = "OP_TRANSFER" /\ Known(req[o])
                     THEN MakeTransferReply(Settled[req[o].account_id], Promise!Outcome(req[o]))
                     ELSE MakeErrorReply(Promise!Outcome(req[o])))
  PROVE  Promise!Next
<1>1. Promise!Refuse(o, req[o])
  <2>1. CASE req[o].type = "OP_TRANSFER" /\ Known(req[o])
    BY <2>1, SameMessages DEF Promise!Refuse, Promise!Decide, SetReply, Known
  <2>2. CASE ~ (req[o].type = "OP_TRANSFER" /\ Known(req[o]))
    BY <2>2, SameMessages DEF Promise!Refuse, Promise!Decide, SetReply, Known
  <2> QED
    BY <2>1, <2>2
<1> QED
  BY <1>1, ExecutesInBank

(* The steps that decide nothing: locks, unlocks, and going on to write. *)
LEMMA ControlInBank ==
  ASSUME AccountsInv, NEW o \in Offices,
         \/ LockHeader(o) \/ UnlockHeader(o) \/ LockLow(o) \/ LockHigh(o)
         \/ UnlockHigh(o) \/ UnlockLow(o)
  PROVE  UNCHANGED Promise!bankVars
<1>1. pc \in [Offices -> PCs]
  BY DEF AccountsInv, AccountsTypeOK
<1>2. /\ UNCHANGED <<req, reply, used, balance, secret>>
      /\ pc[o] \notin {"idle", "credit"} /\ pc'[o] \notin {"idle", "credit"}
      /\ \A p \in Offices \ {o} : pc'[p] = pc[p]
  BY <1>1 DEF LockHeader, UnlockHeader, LockLow, LockHigh, UnlockHigh, UnlockLow, Goto, At,
              tableVars
<1>3. \A p \in Offices : /\ At(p, "idle")' <=> At(p, "idle")
                         /\ At(p, "credit")' <=> At(p, "credit")
  BY <1>2 DEF At
<1> QED
  BY <1>2, <1>3, SettledStays, PendingStays, StutterOfBank

LEMMA ValidateInBank ==
  ASSUME AccountsInv, ProgressInv, NEW o \in Offices, Validate(o)
  PROVE  Promise!Next \/ UNCHANGED Promise!bankVars
<1> DEFINE r == req[o]
<1>1. pc \in [Offices -> PCs] /\ r \in ClientRequests
  BY DEF AccountsInv, AccountsTypeOK
<1>2. /\ UNCHANGED <<req, used, balance, secret>> /\ At(o, "validate")
      /\ \A p \in Offices : /\ At(p, "idle")' <=> At(p, "idle")
                            /\ At(p, "credit")' <=> At(p, "credit")
  BY <1>1 DEF Validate, Goto, At, tableVars
<1>3. Settled' = Settled /\ Pending' = Pending
  BY <1>2, SettledStays, PendingStays
<1>4. CASE Known(r)
  <2>1. reply' = reply
    BY <1>4 DEF Validate, Known
  <2> QED
    BY <1>2, <1>3, <2>1, StutterOfBank
<1>5. CASE ~ Known(r)
  <2>1. Promise!Outcome(r) = IF used[r.account_id] THEN "LOGIN_FAIL" ELSE "ID_NOT_FOUND"
    BY <1>1, <1>5, OutcomeOfUnknown
  <2>2. SetReply(o, MakeErrorReply(Promise!Outcome(r)))
    BY <1>5, <2>1 DEF Validate, Known
  <2>3. reply[o] = NoReply
    BY <1>2 DEF ProgressInv, ProgressOK, At, Decided
  <2> QED
    BY <1>2, <1>3, <1>5, <2>1, <2>2, <2>3, RefusesInBank DEF At
<1> QED
  BY <1>4, <1>5

(* What a handler knows when it begins. *)
LEMMA HandlerFacts ==
  ASSUME AccountsInv, ProgressInv, NEW o \in Offices, pc[o] \in {"handle", "create", "debit", "credit"}
  PROVE  /\ req[o] \in ClientRequests /\ Known(req[o]) /\ reply[o] = NoReply
         /\ req[o].account_id \in AccountIds /\ req[o].target \in AccountIds
         /\ req[o].type # "OP_CREATE_ACCOUNT" => req[o].account_id \in Held(o)
         /\ req[o].type \in {"OP_CREATE_ACCOUNT", "OP_TRANSFER"} => req[o].target \in Held(o)
<1> DEFINE r == req[o]
<1>1. r \in ClientRequests
  BY DEF AccountsInv, AccountsTypeOK
<1>2. ProgressOK(o)
  BY DEF ProgressInv
<1>3. Held(o) = IF TwoAccounts(r) THEN {Low(r), High(r)} ELSE {Low(r)}
  BY DEF Held
<1>4. /\ r.type # "OP_CREATE_ACCOUNT" => r.account_id \in Held(o)
      /\ r.type \in {"OP_CREATE_ACCOUNT", "OP_TRANSFER"} => r.target \in Held(o)
  <2>1. CASE TwoAccounts(r)
    BY <1>1, <1>3, <2>1, LockFacts
  <2>2. CASE ~ TwoAccounts(r)
    BY <1>3, <2>2 DEF TwoAccounts, Low
  <2> QED
    BY <2>1, <2>2
<1> QED
  BY <1>1, <1>2, <1>4, RequestFacts DEF ProgressOK, Deciding, Decided

LEMMA HandleCreateInBank ==
  ASSUME AccountsInv, ProgressInv, NEW o \in Offices, HandleCreate(o)
  PROVE  Promise!Next \/ UNCHANGED Promise!bankVars
<1> DEFINE r == req[o]
<1>1. pc \in [Offices -> PCs] /\ pc[o] = "handle" /\ r.type = "OP_CREATE_ACCOUNT"
  BY DEF HandleCreate, At, AccountsInv, AccountsTypeOK
<1>2. r \in ClientRequests /\ Known(r) /\ reply[o] = NoReply
  BY <1>1, HandlerFacts
<1>3. /\ UNCHANGED <<req, used, balance, secret>>
      /\ \A p \in Offices : /\ At(p, "idle")' <=> At(p, "idle")
                            /\ At(p, "credit")' <=> At(p, "credit")
  BY <1>1 DEF HandleCreate, RefuseWith, Unlocking, Goto, At, tableVars
<1>4. Settled' = Settled /\ Pending' = Pending
  BY <1>3, SettledStays, PendingStays
<1>5. CASE CreateCode(r) = "OK"
  BY <1>3, <1>4, <1>5, StutterOfBank DEF HandleCreate
<1>6. CASE CreateCode(r) # "OK"
  <2>1. Promise!Outcome(r) = CreateCode(r)
    BY <1>1, <1>2, OutcomeOfCreate
  <2>2. SetReply(o, MakeErrorReply(Promise!Outcome(r)))
    BY <1>6, <2>1 DEF HandleCreate, RefuseWith
  <2> QED
    BY <1>1, <1>2, <1>3, <1>4, <1>6, <2>1, <2>2, RefusesInBank DEF At
<1> QED
  BY <1>5, <1>6

LEMMA CreateAccountInBank ==
  ASSUME AccountsInv, ProgressInv, NEW o \in Offices, CreateAccount(o)
  PROVE  Promise!Next
<1> DEFINE r == req[o]
           b == r.target
<1>1. /\ pc \in [Offices -> PCs] /\ pc[o] = "create" /\ balance \in [AccountIds -> 0 .. UINT32 - 1]
      /\ used \in [AccountIds -> BOOLEAN] /\ secret \in [AccountIds -> Passwords]
  BY DEF CreateAccount, At, AccountsInv, AccountsTypeOK
<1>2. /\ r.type = "OP_CREATE_ACCOUNT" /\ ~ used[b] /\ r.account_id = ADMIN_ACCOUNT_ID
  BY <1>1 DEF AccountsInv, ChecksStillHold, ProgressInv, ProgressOK, At
<1>3. r \in ClientRequests /\ Known(r) /\ reply[o] = NoReply /\ b \in AccountIds /\ b \in Held(o)
  BY <1>1, <1>2, HandlerFacts
<1>4. /\ req' = req
      /\ \A p \in Offices : /\ At(p, "idle")' <=> At(p, "idle")
                            /\ At(p, "credit")' <=> At(p, "credit")
  BY <1>1 DEF CreateAccount, Unlocking, Goto, At
<1>5. Pending' = Pending
  BY <1>4, PendingStays
<1>6. Promise!Outcome(r) = "OK"
  BY <1>2, <1>3, OutcomeOfCreate DEF CreateCode
<1>7. Promise!Decide(o, Promise!MakeCreateReply)
  BY SameMessages DEF CreateAccount, SetReply, Promise!Decide
<1>8. CASE HashFaults /\ UNCHANGED tableVars
  <2>1. Settled' = Settled /\ UNCHANGED <<used, secret>>
    BY <1>4, <1>8, SettledStays DEF tableVars
  <2>2. Promise!Create(o, r)
    BY <1>2, <1>6, <1>7, <1>8, <2>1 DEF Promise!Create
  <2> QED
    BY <1>1, <1>3, <1>5, <2>2, ExecutesInBank DEF At
<1>9. CASE /\ used' = [used EXCEPT ![b] = TRUE]
           /\ balance' = [balance EXCEPT ![b] = r.value]
           /\ secret' = [secret EXCEPT ![b] = r.new_password]
  <2>1. \A p \in Offices : ~ Leaves(p, b)'
    BY <1>1, <1>3, <1>4, OthersDoNotLeave DEF Leaves, At
  <2>2. Settled'[b] = r.value
    BY <1>1, <1>3, <1>4, <1>9, <2>1, SettledIsNext
  <2>3. ASSUME NEW a \in AccountIds \ {b} PROVE Settled'[a] = Settled[a]
    BY <1>1, <1>4, <1>9, <2>3, OtherAccountsSettled DEF Leaves
  <2>4. Settled' = [Settled EXCEPT ![b] = r.value]
    BY <1>3, <2>2, <2>3, SettledBut
  <2>5. Promise!Create(o, r)
    BY <1>2, <1>6, <1>7, <1>9, <2>4 DEF Promise!Create
  <2> QED
    BY <1>1, <1>3, <1>5, <2>5, ExecutesInBank DEF At
<1> QED
  BY <1>8, <1>9 DEF CreateAccount

LEMMA HandleBalanceInBank ==
  ASSUME AccountsInv, ProgressInv, NEW o \in Offices, HandleBalance(o)
  PROVE  Promise!Next
<1> DEFINE r == req[o]
<1>1. pc \in [Offices -> PCs] /\ pc[o] = "handle" /\ r.type = "OP_BALANCE"
  BY DEF HandleBalance, At, AccountsInv, AccountsTypeOK
<1>2. /\ r \in ClientRequests /\ Known(r) /\ reply[o] = NoReply
      /\ r.account_id \in AccountIds /\ r.account_id \in Held(o)
  BY <1>1, HandlerFacts
<1>3. /\ UNCHANGED <<req, used, balance, secret>>
      /\ \A p \in Offices : /\ At(p, "idle")' <=> At(p, "idle")
                            /\ At(p, "credit")' <=> At(p, "credit")
  BY <1>1 DEF HandleBalance, Unlocking, Goto, At, tableVars
<1>4. Settled' = Settled /\ Pending' = Pending
  BY <1>3, SettledStays, PendingStays
<1>5. Promise!Outcome(r) = IF r.account_id # ADMIN_ACCOUNT_ID THEN "OK" ELSE "OP_NALLOW"
  BY <1>1, <1>2, OutcomeOfBalance
<1>6. CASE r.account_id # ADMIN_ACCOUNT_ID
  <2>1. Settled[r.account_id] = balance[r.account_id]
    BY <1>1, <1>2, HeldIsSettled DEF At
  <2>2. SetReply(o, MakeBalanceReply(Settled[r.account_id]))
    BY <1>6, <2>1 DEF HandleBalance
  <2>3. Promise!ReadBalance(o, r)
    BY <1>1, <1>3, <1>4, <1>5, <1>6, <2>2, SameMessages
       DEF Promise!ReadBalance, Promise!Decide, SetReply
  <2> QED
    BY <1>1, <1>2, <1>4, <2>3, ExecutesInBank DEF At
<1>7. CASE r.account_id = ADMIN_ACCOUNT_ID
  <2>1. SetReply(o, MakeErrorReply(Promise!Outcome(r)))
    BY <1>5, <1>7 DEF HandleBalance
  <2> QED
    BY <1>1, <1>2, <1>3, <1>4, <1>5, <1>7, <2>1, RefusesInBank DEF At
<1> QED
  BY <1>6, <1>7

LEMMA HandleTransferInBank ==
  ASSUME AccountsInv, ProgressInv, NEW o \in Offices, HandleTransfer(o)
  PROVE  Promise!Next \/ UNCHANGED Promise!bankVars
<1> DEFINE r == req[o]
<1>1. pc \in [Offices -> PCs] /\ pc[o] = "handle" /\ r.type = "OP_TRANSFER"
  BY DEF HandleTransfer, At, AccountsInv, AccountsTypeOK
<1>2. /\ r \in ClientRequests /\ Known(r) /\ reply[o] = NoReply
      /\ r.account_id \in AccountIds /\ r.account_id \in Held(o)
      /\ r.target \in AccountIds /\ r.target \in Held(o)
  BY <1>1, HandlerFacts
<1>3. /\ UNCHANGED <<req, used, balance, secret>>
      /\ \A p \in Offices : /\ At(p, "idle")' <=> At(p, "idle")
                            /\ At(p, "credit")' <=> At(p, "credit")
  BY <1>1 DEF HandleTransfer, RefuseWith, Unlocking, Goto, At, tableVars
<1>4. Settled' = Settled /\ Pending' = Pending
  BY <1>3, SettledStays, PendingStays
<1>5. CASE TransferCode(r) = "OK"
  BY <1>3, <1>4, <1>5, StutterOfBank DEF HandleTransfer
<1>6. CASE TransferCode(r) # "OK"
  <2>1. Settled[r.account_id] = balance[r.account_id] /\ Settled[r.target] = balance[r.target]
    BY <1>1, <1>2, HeldIsSettled DEF At
  <2>2. Wrap(balance[r.target] + r.value) = balance[r.target] + r.value
    BY <1>2, RequestFacts, WrapFacts DEF AccountsInv, BalanceBounded
  <2>3. Promise!Outcome(r) = TransferCode(r)
    BY <1>1, <1>2, <2>1, <2>2, OutcomeOfTransfer
  <2>4. SetReply(o, MakeTransferReply(Settled[r.account_id], Promise!Outcome(r)))
    BY <1>6, <2>1, <2>3 DEF HandleTransfer, RefuseWith
  <2> QED
    BY <1>1, <1>2, <1>3, <1>4, <1>6, <2>3, <2>4, RefusesInBank DEF At
<1> QED
  BY <1>5, <1>6

LEMMA DebitInBank ==
  ASSUME AccountsInv, ProgressInv, NEW o \in Offices, Debit(o)
  PROVE  UNCHANGED Promise!bankVars
<1> DEFINE r == req[o]
           b == r.account_id
<1>1. /\ pc \in [Offices -> PCs] /\ pc[o] = "debit"
      /\ balance \in [AccountIds -> 0 .. UINT32 - 1]
  BY DEF Debit, At, AccountsInv, AccountsTypeOK
<1>2. TwoAccounts(r) /\ balance[b] >= r.value
  BY <1>1 DEF AccountsInv, ChecksStillHold, At
<1>3. r \in ClientRequests /\ b \in AccountIds /\ b \in Held(o)
  BY <1>1, <1>2, HandlerFacts DEF TwoAccounts
<1>4. /\ req' = req /\ UNCHANGED <<used, secret, reply>> /\ At(o, "credit")'
      /\ \A p \in Offices : At(p, "idle")' <=> At(p, "idle")
      /\ \A p \in Offices \ {o} : At(p, "credit")' <=> At(p, "credit")
  BY <1>1 DEF Debit, Goto, At
<1>5. balance[b] \in 0 .. MAX_BALANCE /\ r.value \in 0 .. MAX_BALANCE
  BY <1>3, RequestFacts DEF AccountsInv, BalanceBounded
<1>6. balance' = [balance EXCEPT ![b] = balance[b] - r.value]
  BY <1>2, <1>5, WrapFacts DEF Debit
<1>7. Settled'[b] = Settled[b]
  <2>1. Leaves(o, b)' /\ \A p \in Offices \ {o} : ~ Leaves(p, b)'
    BY <1>3, <1>4, OthersDoNotLeave DEF Leaves
  <2>2. Settled'[b] = balance'[b] + r.value
    BY <1>3, <1>4, <2>1, SettledIsNext
  <2>3. Settled[b] = balance[b]
    BY <1>1, <1>3, HeldIsSettled DEF At
  <2>4. balance'[b] = balance[b] - r.value
    BY <1>1, <1>3, <1>6
  <2>5. balance[b] \in Int /\ r.value \in Int
    BY <1>5, RequestsAssumption DEF RequestsAssumption
  <2> QED
    BY <2>2, <2>3, <2>4, <2>5
<1>8. ASSUME NEW a \in AccountIds \ {b} PROVE Settled'[a] = Settled[a]
  <2>1. \A p \in Offices : Leaves(p, a)' <=> Leaves(p, a)
    BY <1>4, <1>8 DEF Leaves
  <2>2. balance'[a] = balance[a]
    BY <1>1, <1>6, <1>8
  <2> QED
    BY <1>4, <2>1, <2>2, OtherAccountsSettled
<1>9. Settled' = Settled
  BY <1>7, <1>8, SettledIsAFunction
<1> QED
  BY <1>4, <1>9, PendingStays, StutterOfBank

(* The transfer takes effect when its receiver is credited. *)
LEMMA CreditInBank ==
  ASSUME AccountsInv, ProgressInv, NEW o \in Offices, Credit(o)
  PROVE  Promise!Next
<1> DEFINE r == req[o]
           b == r.account_id
           c == r.target
<1>1. /\ pc \in [Offices -> PCs] /\ pc[o] = "credit"
      /\ balance \in [AccountIds -> 0 .. UINT32 - 1]
  BY DEF Credit, At, AccountsInv, AccountsTypeOK
<1>2. /\ r.type = "OP_TRANSFER" /\ b # c /\ b # ADMIN_ACCOUNT_ID /\ used[c]
      /\ balance[c] + r.value <= MAX_BALANCE
  BY <1>1 DEF AccountsInv, ChecksStillHold, TwoAccounts, ProgressInv, ProgressOK, At
<1>3. /\ r \in ClientRequests /\ Known(r) /\ reply[o] = NoReply
      /\ b \in AccountIds /\ b \in Held(o) /\ c \in AccountIds /\ c \in Held(o)
  BY <1>1, <1>2, HandlerFacts
<1>4. /\ req' = req /\ UNCHANGED <<used, secret>> /\ ~ At(o, "credit")'
      /\ \A p \in Offices : At(p, "idle")' <=> At(p, "idle")
      /\ \A p \in Offices \ {o} : At(p, "credit")' <=> At(p, "credit")
  BY <1>1 DEF Credit, Unlocking, Goto, At
<1>5. /\ balance[b] \in 0 .. MAX_BALANCE /\ balance[c] \in 0 .. MAX_BALANCE
      /\ r.value \in 0 .. MAX_BALANCE
  BY <1>3, RequestFacts DEF AccountsInv, BalanceBounded
<1>6. balance' = [balance EXCEPT ![c] = balance[c] + r.value]
  BY <1>5, WrapFacts DEF Credit
<1>7. balance[b] \in Int /\ balance[c] \in Int /\ r.value \in Int
  BY <1>5, RequestsAssumption DEF RequestsAssumption
<1>8. balance'[b] = balance[b] /\ balance'[c] = balance[c] + r.value
  BY <1>1, <1>2, <1>3, <1>6
<1>9. Settled[b] = balance[b] + r.value /\ Settled[c] = balance[c]
  <2>1. Leaves(o, b) /\ \A p \in Offices \ {o} : ~ Leaves(p, b)
    BY <1>1, <1>3, OthersDoNotLeave DEF Leaves, At
  <2>2. \A p \in Offices : ~ Leaves(p, c)
    BY <1>2, <1>3, OthersDoNotLeave DEF Leaves
  <2> QED
    BY <1>3, <2>1, <2>2, SettledIs
<1>10. Settled'[b] = Settled[b] - r.value /\ Settled'[c] = Settled[c] + r.value
  <2>1. \A p \in Offices : ~ Leaves(p, b)' /\ ~ Leaves(p, c)'
    BY <1>3, <1>4, OthersDoNotLeave DEF Leaves
  <2>2. Settled'[b] = balance'[b] /\ Settled'[c] = balance'[c]
    BY <1>3, <1>4, <2>1, SettledIsNext
  <2> QED
    BY <1>7, <1>8, <1>9, <2>2
<1>11. ASSUME NEW a \in AccountIds \ {b, c} PROVE Settled'[a] = Settled[a]
  <2>1. \A p \in Offices : Leaves(p, a)' <=> Leaves(p, a)
    BY <1>4, <1>11 DEF Leaves
  <2>2. balance'[a] = balance[a]
    BY <1>1, <1>6, <1>11
  <2> QED
    BY <1>4, <2>1, <2>2, OtherAccountsSettled
<1>12. Settled' = [Settled EXCEPT ![b] = Settled[b] - r.value, ![c] = Settled[c] + r.value]
  <2>1. Settled' = [Settled EXCEPT ![b] = Settled'[b], ![c] = Settled'[c]]
    BY <1>2, <1>3, <1>11, SettledBut
  <2> QED
    BY <1>10, <2>1
<1>13. Promise!Outcome(r) = "OK"
  <2>1. ~ (Settled[b] < r.value) /\ ~ (Settled[c] + r.value > MAX_BALANCE)
    BY <1>2, <1>5, <1>7, <1>9, RequestsAssumption DEF RequestsAssumption
  <2>2. Promise!Errors(r) = {}
    BY <1>2, <1>3, <2>1, ErrorsAre DEF Known
  <2> QED
    BY <1>3, <2>2, OutcomeOfKnown
<1>14. SetReply(o, MakeTransferReply(Settled[b] - r.value, "OK"))
  <2>1. balance'[b] = Settled[b] - r.value
    BY <1>7, <1>8, <1>9
  <2> QED
    BY <2>1 DEF Credit
<1>15. Promise!Transfer(o, r)
  <2>1. [Settled EXCEPT ![b] = Settled[b] - r.value, ![c] = Settled[c] + r.value]
          = [Settled EXCEPT ![b] = @ - r.value, ![c] = @ + r.value]
    <3> DEFINE S == Settled
    <3>1. S = [a \in AccountIds |-> S[a]]
      BY SettledIsAFunction
    <3> HIDE DEF S
    <3>2. [S EXCEPT ![b] = S[b] - r.value, ![c] = S[c] + r.value]
            = [S EXCEPT ![b] = @ - r.value, ![c] = @ + r.value]
      BY <1>2, <1>3, <3>1
    <3> QED
      BY <3>2 DEF S
  <2> QED
    BY <1>2, <1>4, <1>12, <1>13, <1>14, <2>1, SameMessages
       DEF Promise!Transfer, Promise!Decide, SetReply
<1> QED
  BY <1>1, <1>3, <1>4, <1>15, PendingStays, ExecutesInBank DEF At

LEMMA SameCardinality == Promise!Cardinality(Offices) = Cardinality(Offices)
  BY DEF Promise!Cardinality, Cardinality

LEMMA HandleShutdownInBank ==
  ASSUME AccountsInv, ProgressInv, NEW o \in Offices, NEW n \in 0 .. Cardinality(Offices),
         HandleShutdown(o, n)
  PROVE  Promise!Next
<1> DEFINE r == req[o]
<1>1. pc \in [Offices -> PCs] /\ pc[o] = "shutdown" /\ r \in ClientRequests
  BY DEF HandleShutdown, At, AccountsInv, AccountsTypeOK
<1>2. r.type = "OP_SHUTDOWN" /\ Known(r) /\ reply[o] = NoReply
  BY <1>1 DEF ProgressInv, ProgressOK, At, Deciding, Decided
<1>3. /\ UNCHANGED <<req, used, balance, secret>>
      /\ \A p \in Offices : /\ At(p, "idle")' <=> At(p, "idle")
                            /\ At(p, "credit")' <=> At(p, "credit")
  BY <1>1 DEF HandleShutdown, Goto, At, tableVars
<1>4. Settled' = Settled /\ Pending' = Pending
  BY <1>3, SettledStays, PendingStays
<1>5. Promise!Outcome(r) = IF r.account_id = ADMIN_ACCOUNT_ID THEN "OK" ELSE "OP_NALLOW"
  BY <1>1, <1>2, OutcomeOfShutdown
<1>6. CASE r.account_id = ADMIN_ACCOUNT_ID
  <2>1. SetReply(o, MakeShutdownReply(n))
    BY <1>6 DEF HandleShutdown
  <2>2. Promise!Decide(o, Promise!MakeShutdownReply(n))
    BY <2>1, SameMessages DEF SetReply, Promise!Decide
  <2>3. Promise!Shutdown(o, r)
    BY <1>2, <1>3, <1>4, <1>5, <1>6, <2>2, SameCardinality DEF Promise!Shutdown
  <2> QED
    BY <1>1, <1>2, <1>4, <2>3, ExecutesInBank DEF At
<1>7. CASE r.account_id # ADMIN_ACCOUNT_ID
  <2>1. SetReply(o, MakeErrorReply(Promise!Outcome(r)))
    BY <1>5, <1>7 DEF HandleShutdown
  <2> QED
    BY <1>1, <1>2, <1>3, <1>4, <1>5, <1>7, <2>1, RefusesInBank DEF At
<1> QED
  BY <1>6, <1>7

LEMMA TakeInBank ==
  ASSUME AccountsInv, ProgressInv, NEW o \in Offices, NEW q \in ClientCalls, Take(o, q)
  PROVE  Promise!Next
<1>1. /\ pc \in [Offices -> PCs] /\ req \in [Offices -> ClientRequests]
      /\ pc[o] = "idle" /\ req'[o] = q
  BY DEF Take, At, AccountsInv, AccountsTypeOK
<1>2. /\ UNCHANGED <<reply, used, balance, secret>>
      /\ \A p \in Offices : At(p, "credit")' <=> At(p, "credit")
      /\ \A p \in Offices \ {o} : req'[p] = req[p] /\ (At(p, "idle")' <=> At(p, "idle"))
      /\ ~ At(o, "idle")'
  BY <1>1 DEF Take, Goto, At, tableVars
<1>3. Settled' = Settled
  BY <1>1, <1>2, SettledStays DEF At
<1>4. Pending[o] = {} /\ Pending' = [Pending EXCEPT ![o] = {q}]
  BY <1>1, <1>2 DEF Pending, At
<1>5. Promise!Take(o, q)
  BY <1>2, <1>3, <1>4 DEF Promise!Take, Pending
<1> QED
  BY <1>5 DEF Promise!Next

LEMMA FinishInBank ==
  ASSUME AccountsInv, ProgressInv, NEW o \in Offices, Finish(o)
  PROVE  Promise!Next
<1>1. /\ pc \in [Offices -> PCs] /\ req \in [Offices -> ClientRequests] /\ pc[o] = "reply"
  BY DEF Finish, At, AccountsInv, AccountsTypeOK
<1>2. reply[o] # NoReply /\ reply' = [reply EXCEPT ![o] = NoReply]
  BY <1>1 DEF Finish, SetReply, ProgressInv, ProgressOK, Decided
<1>3. /\ UNCHANGED <<used, balance, secret>>
      /\ \A p \in Offices : At(p, "credit")' <=> At(p, "credit")
      /\ \A p \in Offices \ {o} : req'[p] = req[p] /\ (At(p, "idle")' <=> At(p, "idle"))
      /\ At(o, "idle")'
  BY <1>1 DEF Finish, Goto, At, tableVars
<1>4. Settled' = Settled
  BY <1>1, <1>3, SettledStays DEF At
<1>5. Pending' = [Pending EXCEPT ![o] = {}]
  BY <1>1, <1>3 DEF Pending, At
<1>6. Promise!Answer(o)
  BY <1>2, <1>3, <1>4, <1>5, SameMessages DEF Promise!Answer, Pending
<1> QED
  BY <1>6 DEF Promise!Next

-----------------------------------------------------------------------------
LEMMA BankInit == AccountsInit => Promise!Init
<1> SUFFICES ASSUME AccountsInit PROVE Promise!Init
  OBVIOUS
<1>1. \A p \in Offices : pc[p] = "idle"
  BY DEF AccountsInit
<1>2. Settled = [a \in AccountIds |-> 0]
  <2>1. ASSUME NEW a \in AccountIds PROVE Settled[a] = 0
    <3>1. \A p \in Offices : ~ Leaves(p, a)
      BY <1>1 DEF Leaves, At
    <3> QED
      BY <3>1, SettledIs DEF AccountsInit
  <2> QED
    BY <2>1, SettledIsAFunction
<1>3. Pending = [o \in Offices |-> {}]
  BY <1>1 DEF Pending, At
<1> QED
  BY <1>2, <1>3, SameMessages DEF AccountsInit, Promise!Init, Pending

LEMMA BankStep ==
  AccountsInv /\ ProgressInv /\ [AccountsNext]_accountVars => [Promise!Next]_(Promise!bankVars)
<1> SUFFICES ASSUME AccountsInv, ProgressInv, [AccountsNext]_accountVars
             PROVE  [Promise!Next]_(Promise!bankVars)
  OBVIOUS
<1>1. CASE UNCHANGED accountVars
  <2>1. Settled' = Settled /\ Pending' = Pending
    BY <1>1, SettledStays, PendingStays DEF accountVars, At
  <2> QED
    BY <1>1, <2>1, StutterOfBank DEF accountVars
<1>2. ASSUME NEW o \in Offices, OfficeStep(o) PROVE Promise!Next \/ UNCHANGED Promise!bankVars
  BY <1>2, ControlInBank, ValidateInBank, HandleCreateInBank, CreateAccountInBank,
     HandleBalanceInBank, HandleTransferInBank, DebitInBank, CreditInBank,
     HandleShutdownInBank, TakeInBank, FinishInBank
     DEF OfficeStep, Work
<1> QED
  BY <1>1, <1>2 DEF AccountsNext

(* The offices, the locks and the two writes of a transfer implement Bank: *)
(* every request takes effect at one instant, with the reply the table of  *)
(* return codes gives it at that instant (manageRequest and its handlers). *)
THEOREM AccountsImplementBank == AccountsSpec => ImplementsBank
<1>1. AccountsSpec => []ProgressInv
  BY AccountsInvariant, ProgressInit, ProgressStep, PTL DEF AccountsSpec
<1> QED
  BY <1>1, AccountsInvariant, BankInit, BankStep, PTL
     DEF AccountsSpec, ImplementsBank, Promise!Spec

-----------------------------------------------------------------------------
(* Sums.  What SumFunctionOnSet means is a function on the subsets of its   *)
(* set, defined by taking out one element after the other; so its facts     *)
(* need induction, which is stated here for sets of numbers and of subsets. *)

(* A set of numbers that has 0, and after every number the next, is Nat. *)
LEMMA NatInduct ==
  ASSUME NEW K \in SUBSET Nat, 0 \in K, \A k \in K : k + 1 \in K
  PROVE  K = Nat
<1> DEFINE D == Nat \ K
           Less == OpToRel(<, Nat)
<1>1. SUFFICES ASSUME D # {} PROVE FALSE
  OBVIOUS
<1>2. PICK d \in D : \A e \in D : ~ (<<e, d>> \in Less)
  <2>1. IsWellFoundedOn(Less, Nat) /\ D \subseteq Nat
    BY NatLessThanWellFounded
  <2> HIDE DEF D, Less
  <2> QED
    BY <1>1, <2>1, WFMin
<1>3. d \in Nat /\ d # 0 /\ d - 1 \in Nat /\ d - 1 < d
  OBVIOUS
<1>4. d - 1 \in K
  <2>1. <<d - 1, d>> \in Less
    BY <1>3 DEF OpToRel
  <2> QED
    BY <1>2, <1>3, <2>1
<1> QED
  BY <1>3, <1>4

LEMMA SubsetCard ==
  ASSUME NEW S, IsFiniteSet(S), NEW s \in SUBSET S
  PROVE  /\ IsFiniteSet(s) /\ Cardinality(s) \in Nat
         /\ Cardinality(s) = 0 <=> s = {}
         /\ \A x \in s : s \ {x} \in SUBSET S /\ Cardinality(s \ {x}) = Cardinality(s) - 1
  BY FS_Subset, FS_CardinalityType, FS_EmptySet, FS_RemoveElement

(* A set of subsets that has the empty one, and every one whose subsets of *)
(* one element less it has, has them all.                                   *)
LEMMA SubsetInduct ==
  ASSUME NEW S, IsFiniteSet(S), NEW P \in SUBSET SUBSET S, {} \in P,
         \A s \in SUBSET S : s # {} /\ (\A x \in s : s \ {x} \in P) => s \in P
  PROVE  P = SUBSET S
<1> DEFINE K == {k \in Nat : \A s \in SUBSET S : Cardinality(s) <= k => s \in P}
<1>1. 0 \in K
  <2>1. ASSUME NEW s \in SUBSET S, Cardinality(s) <= 0 PROVE s = {}
    BY <2>1, SubsetCard
  <2> QED
    BY <2>1
<1>2. ASSUME NEW k \in K PROVE k + 1 \in K
  <2> SUFFICES ASSUME NEW s \in SUBSET S, Cardinality(s) <= k + 1 PROVE s \in P
    OBVIOUS
  <2>1. ASSUME NEW x \in s PROVE s \ {x} \in P
    <3>1. /\ s \ {x} \in SUBSET S /\ Cardinality(s \ {x}) = Cardinality(s) - 1
          /\ Cardinality(s) \in Nat
      BY <2>1, SubsetCard
    <3>2. Cardinality(s \ {x}) <= k
      BY <3>1
    <3> QED
      BY <3>1, <3>2
  <2> QED
    BY <2>1
<1>3. K = Nat
  <2> HIDE DEF K
  <2>1. K \in SUBSET Nat
    BY DEF K
  <2> QED
    BY <1>1, <1>2, <2>1, NatInduct
<1>4. ASSUME NEW s \in SUBSET S PROVE s \in P
  <2>1. Cardinality(s) \in K
    BY <1>3, SubsetCard
  <2>2. Cardinality(s) <= Cardinality(s)
    BY SubsetCard
  <2> QED
    BY <2>1, <2>2
<1> QED
  BY <1>4

Chosen(s) == CHOOSE x \in s : TRUE
SumRow(f, g, s) == IF s = {} THEN 0 ELSE f[Chosen(s)] + g[s \ {Chosen(s)}]
IsTable(f, S, g) == g = [s \in SUBSET S |-> SumRow(f, g, s)]
SumTable(f, S) == CHOOSE g : IsTable(f, S, g)

LEMMA SumIsInTable ==
  ASSUME NEW f, NEW S
  PROVE  SumFunctionOnSet(f, S) = SumTable(f, S)[S]
  BY DEF SumFunctionOnSet, FoldFunctionOnSet, MapThenFoldSet, SumTable, IsTable, SumRow,
         Chosen

LEMMA ChosenIsIn == ASSUME NEW s, s # {} PROVE Chosen(s) \in s
  BY DEF Chosen

(* There is such a table: it can be filled for one number of elements after *)
(* the other.                                                               *)
LEMMA TableExists ==
  ASSUME NEW S, IsFiniteSet(S), NEW f, \A x \in S : f[x] \in Int
  PROVE  \E g : IsTable(f, S, g)
<1> DEFINE Filled(g, k) == \A s \in SUBSET S : Cardinality(s) <= k => g[s] = SumRow(f, g, s)
           K == {k \in Nat : \E g \in [SUBSET S -> Int] : Filled(g, k)}
<1>1. 0 \in K
  <2> DEFINE g == [s \in SUBSET S |-> 0]
  <2>1. g \in [SUBSET S -> Int]
    OBVIOUS
  <2>2. Filled(g, 0)
    <3> SUFFICES ASSUME NEW s \in SUBSET S, Cardinality(s) <= 0 PROVE g[s] = SumRow(f, g, s)
      OBVIOUS
    <3>1. s = {}
      BY SubsetCard
    <3> QED
      BY <3>1 DEF SumRow
  <2> HIDE DEF g, Filled
  <2> QED
    BY <2>1, <2>2
<1>2. ASSUME NEW k \in K PROVE k + 1 \in K
  <2>1. PICK g \in [SUBSET S -> Int] : Filled(g, k)
    OBVIOUS
  <2> DEFINE h == [s \in SUBSET S |-> SumRow(f, g, s)]
  <2>2. h \in [SUBSET S -> Int]
    <3>1. ASSUME NEW s \in SUBSET S PROVE SumRow(f, g, s) \in Int
      <4>1. CASE s = {}
        BY <4>1 DEF SumRow
      <4>2. CASE s # {}
        <5>1. Chosen(s) \in S /\ s \ {Chosen(s)} \in SUBSET S
          BY <4>2, ChosenIsIn
        <5>2. f[Chosen(s)] \in Int /\ g[s \ {Chosen(s)}] \in Int
          BY <5>1
        <5> QED
          BY <4>2, <5>2 DEF SumRow
      <4> QED
        BY <4>1, <4>2
    <3> QED
      BY <3>1
  <2>3. Filled(h, k + 1)
    <3> SUFFICES ASSUME NEW s \in SUBSET S, Cardinality(s) <= k + 1 PROVE h[s] = SumRow(f, h, s)
      OBVIOUS
    <3>1. CASE s = {}
      BY <3>1 DEF SumRow
    <3>2. CASE s # {}
      <4> DEFINE t == s \ {Chosen(s)}
      <4>1. t \in SUBSET S /\ Cardinality(t) = Cardinality(s) - 1 /\ Cardinality(s) \in Nat
        BY <3>2, ChosenIsIn, SubsetCard
      <4>2. Cardinality(t) <= k
        BY <4>1
      <4>3. g[t] = SumRow(f, g, t)
        BY <2>1, <4>1, <4>2
      <4>4. h[t] = g[t]
        BY <4>1, <4>3
      <4>5. h[s] = SumRow(f, g, s)
        OBVIOUS
      <4> HIDE DEF h
      <4> QED
        BY <3>2, <4>4, <4>5 DEF SumRow
    <3> QED
      BY <3>1, <3>2
  <2>4. k + 1 \in Nat
    OBVIOUS
  <2> HIDE DEF h, Filled
  <2> QED
    BY <2>2, <2>3, <2>4
<1>3. K = Nat
  <2> HIDE DEF K
  <2>1. K \in SUBSET Nat
    BY DEF K
  <2> QED
    BY <1>1, <1>2, <2>1, NatInduct
<1>4. PICK g \in [SUBSET S -> Int] : Filled(g, Cardinality(S))
  <2>1. Cardinality(S) \in Nat
    BY FS_CardinalityType
  <2> HIDE DEF Filled
  <2> QED
    BY <1>3, <2>1
<1>5. ASSUME NEW s \in SUBSET S PROVE g[s] = SumRow(f, g, s)
  <2>1. Cardinality(s) <= Cardinality(S)
    BY FS_Subset
  <2> QED
    BY <1>4, <2>1
<1>6. IsTable(f, S, g)
  BY <1>5 DEF IsTable
<1> QED
  BY <1>6

LEMMA TableRows ==
  ASSUME NEW S, IsFiniteSet(S), NEW f, \A x \in S : f[x] \in Int, NEW s \in SUBSET S
  PROVE  SumTable(f, S)[s] = SumRow(f, SumTable(f, S), s)
<1> DEFINE g == SumTable(f, S)
<1>1. g = [t \in SUBSET S |-> SumRow(f, g, t)]
  <2>1. \E h : IsTable(f, S, h)
    BY TableExists
  <2>2. IsTable(f, S, g)
    BY <2>1 DEF SumTable
  <2> QED
    BY <2>2 DEF IsTable
<1> HIDE DEF g
<1>2. g[s] = SumRow(f, g, s)
  BY <1>1
<1> QED
  BY <1>2 DEF g

(* The tables of two functions that agree, of a set and a subset of it,     *)
(* agree on the subset; and their entries are numbers.                      *)
LEMMA TablesAgree ==
  ASSUME NEW S, IsFiniteSet(S), NEW T \in SUBSET S, NEW f, NEW h,
         \A x \in S : f[x] \in Int, \A x \in T : h[x] = f[x], NEW s \in SUBSET T
  PROVE  SumTable(f, S)[s] \in Int /\ SumTable(h, T)[s] = SumTable(f, S)[s]
<1> DEFINE g == SumTable(f, S)
           k == SumTable(h, T)
           P == {t \in SUBSET T : g[t] \in Int /\ k[t] = g[t]}
<1>1. IsFiniteSet(T)
  BY FS_Subset
<1>2. \A t \in SUBSET T : g[t] = SumRow(f, g, t) /\ k[t] = SumRow(h, k, t)
  <2>1. \A x \in T : h[x] \in Int
    OBVIOUS
  <2>2. \A t \in SUBSET T : t \in SUBSET S
    OBVIOUS
  <2> QED
    BY <1>1, <2>1, <2>2, TableRows
<1> HIDE DEF g, k
<1>3. {} \in P
  <2>1. g[{}] = 0 /\ k[{}] = 0
    BY <1>2 DEF SumRow
  <2> QED
    BY <2>1
<1>4. ASSUME NEW t \in SUBSET T, t # {}, \A x \in t : t \ {x} \in P PROVE t \in P
  <2>1. Chosen(t) \in t /\ t \ {Chosen(t)} \in P
    BY <1>4, ChosenIsIn
  <2>2. /\ f[Chosen(t)] \in Int /\ h[Chosen(t)] = f[Chosen(t)]
        /\ g[t \ {Chosen(t)}] \in Int /\ k[t \ {Chosen(t)}] = g[t \ {Chosen(t)}]
    BY <2>1
  <2>3. /\ g[t] = f[Chosen(t)] + g[t \ {Chosen(t)}]
        /\ k[t] = h[Chosen(t)] + k[t \ {Chosen(t)}]
    BY <1>2, <1>4 DEF SumRow
  <2> QED
    BY <2>2, <2>3
<1>5. P = SUBSET T
  <2> HIDE DEF P
  <2>1. P \in SUBSET SUBSET T
    BY DEF P
  <2> QED
    BY <1>1, <1>3, <1>4, <2>1, SubsetInduct
<1> QED
  BY <1>5 DEF g, k

LEMMA SumType ==
  ASSUME NEW S, IsFiniteSet(S), NEW f, \A x \in S : f[x] \in Int
  PROVE  SumFunctionOnSet(f, S) \in Int
  BY TablesAgree, SumIsInTable

LEMMA SumOfNone ==
  ASSUME NEW f
  PROVE  SumFunctionOnSet(f, {}) = 0
<1>1. IsFiniteSet({}) /\ \A x \in {} : f[x] \in Int
  BY FS_EmptySet
<1> QED
  BY <1>1, TableRows, SumIsInTable DEF SumRow

(* Functions that agree on a set have the same sum over it. *)
LEMMA SumsAgree ==
  ASSUME NEW S, IsFiniteSet(S), NEW f, NEW h,
         \A x \in S : f[x] \in Int, \A x \in S : h[x] = f[x]
  PROVE  SumFunctionOnSet(h, S) = SumFunctionOnSet(f, S)
  BY TablesAgree, SumIsInTable

(* The element that is chosen first can be taken out of the sum ... *)
LEMMA SumTakesChosen ==
  ASSUME NEW S, IsFiniteSet(S), S # {}, NEW f, \A x \in S : f[x] \in Int
  PROVE  SumFunctionOnSet(f, S) = f[Chosen(S)] + SumFunctionOnSet(f, S \ {Chosen(S)})
<1> DEFINE T == S \ {Chosen(S)}
<1>1. SumTable(f, S)[S] = f[Chosen(S)] + SumTable(f, S)[T]
  BY TableRows DEF SumRow
<1>2. SumTable(f, T)[T] = SumTable(f, S)[T]
  BY TablesAgree
<1> QED
  BY <1>1, <1>2, SumIsInTable

(* ... and so can any other: the order does not matter. *)
LEMMA SumTakes ==
  ASSUME NEW S, IsFiniteSet(S), NEW f, \A x \in S : f[x] \in Int, NEW x \in S
  PROVE  SumFunctionOnSet(f, S) = f[x] + SumFunctionOnSet(f, S \ {x})
<1> DEFINE Sum(s) == SumFunctionOnSet(f, s)
           P == {s \in SUBSET S : \A y \in s : Sum(s) = f[y] + Sum(s \ {y})}
<1>1. {} \in P
  OBVIOUS
<1>2. ASSUME NEW s \in SUBSET S, s # {}, \A y \in s : s \ {y} \in P PROVE s \in P
  <2> SUFFICES ASSUME NEW y \in s PROVE Sum(s) = f[y] + Sum(s \ {y})
    OBVIOUS
  <2> DEFINE c == Chosen(s)
  <2>1. c \in s
    BY <1>2, ChosenIsIn
  <2>2. \A t \in SUBSET S : IsFiniteSet(t) /\ Sum(t) \in Int
    BY FS_Subset, SumType
  <2>3. Sum(s) = f[c] + Sum(s \ {c})
    BY <1>2, <2>2, SumTakesChosen
  <2>4. CASE y = c
    BY <2>3, <2>4
  <2>5. CASE y # c
    <3>1. Sum(s \ {c}) = f[y] + Sum((s \ {c}) \ {y})
      BY <1>2, <2>1, <2>5
    <3>2. Sum(s \ {y}) = f[c] + Sum((s \ {y}) \ {c})
      BY <1>2, <2>1, <2>5
    <3>3. (s \ {y}) \ {c} = (s \ {c}) \ {y}
      OBVIOUS
    <3>4. f[c] \in Int /\ f[y] \in Int /\ Sum((s \ {c}) \ {y}) \in Int
      BY <2>1, <2>2
    <3> DEFINE a == f[c]
               b == f[y]
               rest == Sum((s \ {c}) \ {y})
    <3>5. Sum(s) = a + (b + rest) /\ Sum(s \ {y}) = a + rest
      BY <2>3, <3>1, <3>2, <3>3
    <3>6. a \in Int /\ b \in Int /\ rest \in Int
      BY <3>4
    <3> HIDE DEF Sum, a, rest
    <3>7. Sum(s) = b + Sum(s \ {y})
      <4> HIDE DEF b
      <4> QED
        BY <3>5, <3>6
    <3> QED
      BY <3>7
  <2> QED
    BY <2>4, <2>5
<1>3. P = SUBSET S
  <2> HIDE DEF P
  <2>1. P \in SUBSET SUBSET S
    BY DEF P
  <2> QED
    BY <1>1, <1>2, <2>1, SubsetInduct
<1> QED
  BY <1>3

(* One term of a sum changes. *)
LEMMA SumWithout ==
  ASSUME NEW S, IsFiniteSet(S), NEW b \in S, NEW f, NEW h,
         \A x \in S : f[x] \in Int, \A x \in S : h[x] \in Int,
         \A x \in S \ {b} : h[x] = f[x]
  PROVE  SumFunctionOnSet(h, S) = SumFunctionOnSet(f, S) - f[b] + h[b]
<1> DEFINE rest == SumFunctionOnSet(f, S \ {b})
<1>1. IsFiniteSet(S \ {b}) /\ \A x \in S \ {b} : f[x] \in Int
  BY FS_RemoveElement
<1>2. rest \in Int
  BY <1>1, SumType
<1>3. SumFunctionOnSet(h, S \ {b}) = rest
  BY <1>1, SumsAgree
<1>4. SumFunctionOnSet(f, S) = f[b] + rest /\ SumFunctionOnSet(h, S) = h[b] + rest
  BY <1>3, SumTakes
<1> DEFINE fb == f[b]
           hb == h[b]
<1>5. fb \in Int /\ hb \in Int
  OBVIOUS
<1>6. SumFunctionOnSet(f, S) = fb + rest /\ SumFunctionOnSet(h, S) = hb + rest
  BY <1>4
<1> HIDE DEF rest, fb, hb
<1>7. SumFunctionOnSet(h, S) = SumFunctionOnSet(f, S) - fb + hb
  BY <1>2, <1>5, <1>6
<1> QED
  BY <1>7 DEF fb, hb

(* What one of two terms loses the other gains. *)
LEMMA SumOfMove ==
  ASSUME NEW S, IsFiniteSet(S), NEW b \in S, NEW c \in S, b # c, NEW v \in Int,
         NEW f \in [S -> Int], NEW h \in [S -> Int], h[b] = f[b] - v, h[c] = f[c] + v,
         \A x \in S \ {b, c} : h[x] = f[x]
  PROVE  SumFunctionOnSet(h, S) = SumFunctionOnSet(f, S)
<1> DEFINE g == [x \in S |-> IF x = b THEN h[b] ELSE f[x]]
<1>1. /\ g \in [S -> Int] /\ g[b] = f[b] - v /\ g[c] = f[c]
      /\ \A x \in S \ {b} : g[x] = f[x]
  OBVIOUS
<1>2. \A x \in S \ {c} : h[x] = g[x]
  OBVIOUS
<1>3. SumFunctionOnSet(f, S) \in Int /\ f[b] \in Int /\ f[c] \in Int
  BY SumType
<1> HIDE DEF g
<1>4. SumFunctionOnSet(g, S) = SumFunctionOnSet(f, S) - f[b] + g[b]
  <2>1. \A x \in S : f[x] \in Int /\ g[x] \in Int
    BY <1>1
  <2> QED
    BY <1>1, <2>1, SumWithout
<1>5. SumFunctionOnSet(h, S) = SumFunctionOnSet(g, S) - g[c] + h[c]
  <2>1. \A x \in S : g[x] \in Int /\ h[x] \in Int
    BY <1>1, <1>2
  <2> QED
    BY <1>2, <2>1, SumWithout
<1> DEFINE fb == f[b]
           fc == f[c]
           sum == SumFunctionOnSet(f, S)
<1>6. fb \in Int /\ fc \in Int /\ sum \in Int
  BY <1>3
<1>7. SumFunctionOnSet(h, S) = (sum - fb + (fb - v)) - fc + (fc + v)
  BY <1>1, <1>2, <1>4, <1>5
<1> HIDE DEF fb, fc, sum
<1>8. SumFunctionOnSet(h, S) = sum
  BY <1>6, <1>7
<1> QED
  BY <1>8 DEF sum

-----------------------------------------------------------------------------
(* Money.  That it is conserved follows from what Bank promises: of the     *)
(* requests that take effect only a creation and a transfer write balances, *)
(* and the account that is created had none before.                         *)

LEMMA AccountsAreFinite == IsFiniteSet(AccountIds)
<1>1. MAX_BANK_ACCOUNTS \in Nat
  BY RequestsAssumption DEF RequestsAssumption
<1> QED
  BY <1>1, FS_Interval DEF AccountIds

(* An account nobody has opened has no money. *)
UnopenedEmpty == \A a \in AccountIds : ~ used[a] => balance[a] = 0

LEMMA UnopenedInit == AccountsInit => UnopenedEmpty
  BY DEF AccountsInit, UnopenedEmpty

LEMMA UnopenedStep ==
  ASSUME AccountsInv, ProgressInv, UnopenedEmpty, [AccountsNext]_accountVars
  PROVE  UnopenedEmpty'
<1>1. CASE UNCHANGED accountVars
  BY <1>1 DEF accountVars, UnopenedEmpty
<1>2. ASSUME NEW o \in Offices, OfficeStep(o) PROVE UnopenedEmpty'
  <2> DEFINE r == req[o]
  <2>1. /\ used \in [AccountIds -> BOOLEAN] /\ balance \in [AccountIds -> 0 .. UINT32 - 1]
        /\ r.account_id \in AccountIds /\ r.target \in AccountIds
    BY RequestFacts DEF AccountsInv, AccountsTypeOK
  <2>2. CASE UNCHANGED <<used, balance>>
    BY <2>2 DEF UnopenedEmpty
  <2>3. CASE CreateAccount(o)
    BY <2>1, <2>3 DEF CreateAccount, UnopenedEmpty, tableVars
  <2>4. CASE Debit(o) \/ Credit(o)
    <3>1. pc[o] \in {"debit", "credit"} /\ used' = used
      BY <2>4 DEF Debit, Credit, At
    <3>2. used[r.account_id] /\ used[r.target]
      BY <3>1 DEF ProgressInv, ProgressOK, Deciding, Known
    <3>3. \A a \in AccountIds \ {r.account_id, r.target} : balance'[a] = balance[a]
      BY <2>1, <2>4 DEF Debit, Credit
    <3> QED
      BY <3>1, <3>2, <3>3 DEF UnopenedEmpty
  <2> QED
    BY <1>2, <2>2, <2>3, <2>4
       DEF OfficeStep, Work, Take, LockHeader, Validate, UnlockHeader, LockLow, LockHigh,
           HandleCreate, HandleBalance, HandleTransfer, HandleShutdown, UnlockHigh, UnlockLow,
           Finish, tableVars
<1> QED
  BY <1>1, <1>2 DEF AccountsNext

LEMMA SettledType ==
  ASSUME AccountsTypeOK
  PROVE  Settled \in [AccountIds -> Int]
<1>1. ASSUME NEW a \in AccountIds PROVE Settled[a] \in Int
  <2> DEFINE leaving == {o \in Offices : Leaves(o, a)}
             c == CHOOSE o \in leaving : TRUE
  <2>1. Settled[a] = IF leaving = {} THEN balance[a] ELSE balance[a] + req[c].value
    BY DEF Settled, Leaves
  <2>2. balance[a] \in Int
    BY RequestsAssumption DEF AccountsTypeOK, RequestsAssumption
  <2>3. ASSUME leaving # {} PROVE req[c].value \in Int
    <3>1. c \in leaving
      <4> HIDE DEF leaving
      <4> QED
        BY <2>3
    <3> HIDE DEF c
    <3>2. req[c] \in ClientRequests
      BY <3>1 DEF AccountsTypeOK
    <3>3. req[c].value \in 0 .. MAX_BALANCE
      BY <3>2, RequestFacts
    <3> QED
      BY <3>3, RequestsAssumption DEF RequestsAssumption
  <2> HIDE DEF leaving, c
  <2> QED
    BY <2>1, <2>2, <2>3
<1> QED
  BY <1>1, SettledIsAFunction

LEMMA UnopenedSettled ==
  ASSUME ProgressInv, UnopenedEmpty, NEW a \in AccountIds, ~ used[a]
  PROVE  Settled[a] = 0
<1>1. \A p \in Offices : ~ Leaves(p, a)
  BY DEF Leaves, At, ProgressInv, ProgressOK, Deciding, Known
<1> QED
  BY <1>1, SettledIs DEF UnopenedEmpty

(* A request that takes effect has none of the errors looked for here.     *)
LEMMA NoError ==
  ASSUME NEW r \in ClientRequests, Promise!Outcome(r) = "OK"
  PROVE  "ID_IN_USE" \notin Promise!Errors(r) /\ "SAME_ID" \notin Promise!Errors(r)
<1> DEFINE codes == Promise!Errors(r)
<1>1. Promise!FirstError(codes) = "OK"
  BY DEF Promise!Outcome
<1>2. codes \cap {"SRV_DOWN", "SRV_TIMEOUT", "USR_DOWN"} = {}
  BY ErrorsAre
<1> HIDE DEF codes
<1>3. "LOGIN_FAIL" \notin codes
  BY <1>1, <1>2, FirstErrors
<1>4. "OP_NALLOW" \notin codes
  BY <1>1, <1>2, <1>3, FirstErrors
<1>5. "ID_IN_USE" \notin codes
  BY <1>1, <1>2, <1>3, <1>4, FirstErrors
<1>6. "ID_NOT_FOUND" \notin codes
  BY <1>1, <1>2, <1>3, <1>4, <1>5, FirstErrors
<1>7. "SAME_ID" \notin codes
  BY <1>1, <1>2, <1>3, <1>4, <1>5, <1>6, FirstErrors
<1> QED
  BY <1>5, <1>7 DEF codes

(* The accounts that a step opens. *)
Opened == {a \in AccountIds : used'[a] /\ ~ used[a]}

(* A step of Bank that is neither a creation nor a transfer. *)
LEMMA OtherStepConserves ==
  ASSUME AccountsTypeOK, Settled' = Settled, used' = used
  PROVE  /\ SumFunctionOnSet(Settled', AccountIds)
              = SumFunctionOnSet(Settled, AccountIds) + SumFunctionOnSet(Settled', Opened)
<1>1. Opened = {}
  BY DEF Opened
<1>2. SumFunctionOnSet(Settled', Opened) = 0
  BY <1>1, SumOfNone
<1>3. SumFunctionOnSet(Settled, AccountIds) \in Int
  BY SettledType, AccountsAreFinite, SumType
<1> QED
  BY <1>2, <1>3

LEMMA CreationConserves ==
  ASSUME AccountsInv, ProgressInv, UnopenedEmpty, NEW o \in Offices,
         NEW r \in ClientRequests, Promise!Create(o, r)
  PROVE  SumFunctionOnSet(Settled', AccountIds)
           = SumFunctionOnSet(Settled, AccountIds) + SumFunctionOnSet(Settled', Opened)
<1> DEFINE b == r.target
<1>1. /\ b \in AccountIds /\ r.value \in Int /\ r.type = "OP_CREATE_ACCOUNT"
      /\ Promise!Outcome(r) = "OK"
  BY RequestFacts, RequestsAssumption DEF Promise!Create, RequestsAssumption
<1>2. ~ used[b]
  BY <1>1, NoError, ErrorsAre
<1>3. AccountsTypeOK /\ Settled \in [AccountIds -> Int] /\ used \in [AccountIds -> BOOLEAN]
  BY SettledType DEF AccountsInv, AccountsTypeOK
<1>4. Settled[b] = 0
  BY <1>1, <1>2, UnopenedSettled
<1>5. CASE Settled' = Settled /\ used' = used
  BY <1>3, <1>5, OtherStepConserves
<1>6. CASE /\ used' = [used EXCEPT ![b] = TRUE]
           /\ Settled' = [Settled EXCEPT ![b] = r.value]
  <2> DEFINE S == Settled
             T == Settled'
             sum == SumFunctionOnSet(S, AccountIds)
  <2>1. Opened = {b}
    BY <1>1, <1>2, <1>3, <1>6 DEF Opened
  <2>2. /\ \A a \in AccountIds : S[a] \in Int /\ T[a] \in Int
        /\ T[b] = r.value /\ S[b] = 0 /\ \A a \in AccountIds \ {b} : T[a] = S[a]
    <3>1. S \in [AccountIds -> Int] /\ T = [S EXCEPT ![b] = r.value] /\ S[b] = 0
      BY <1>3, <1>4, <1>6
    <3> HIDE DEF S, T
    <3> QED
      BY <1>1, <3>1
  <2> HIDE DEF S, T, sum
  <2>3. SumFunctionOnSet(T, AccountIds) = sum - S[b] + T[b]
    BY <1>1, <2>2, AccountsAreFinite, SumWithout DEF sum
  <2>4. sum \in Int
    BY <2>2, AccountsAreFinite, SumType DEF sum
  <2>5. SumFunctionOnSet(T, {b}) = T[b]
    <3>1. SumFunctionOnSet(T, {b}) = T[b] + SumFunctionOnSet(T, {b} \ {b})
      <4>1. IsFiniteSet({b}) /\ \A x \in {b} : T[x] \in Int
        BY <1>1, <2>2, FS_Singleton
      <4> QED
        BY <4>1, SumTakes
    <3>2. {b} \ {b} = {}
      OBVIOUS
    <3>3. SumFunctionOnSet(T, {b} \ {b}) = 0
      BY <3>2, SumOfNone
    <3> QED
      BY <1>1, <2>2, <3>1, <3>3
  <2>6. SumFunctionOnSet(T, AccountIds) = sum + SumFunctionOnSet(T, Opened)
    BY <1>1, <2>1, <2>2, <2>3, <2>4, <2>5
  <2> QED
    BY <2>6 DEF S, T, sum
<1> QED
  BY <1>5, <1>6 DEF Promise!Create

LEMMA TransferConserves ==
  ASSUME AccountsInv, NEW o \in Offices, NEW r \in ClientRequests, Promise!Transfer(o, r)
  PROVE  SumFunctionOnSet(Settled', AccountIds)
           = SumFunctionOnSet(Settled, AccountIds) + SumFunctionOnSet(Settled', Opened)
<1> DEFINE b == r.account_id
           c == r.target
           S == Settled
<1>1. /\ b \in AccountIds /\ c \in AccountIds /\ r.value \in Int /\ r.type = "OP_TRANSFER"
      /\ Promise!Outcome(r) = "OK" /\ used' = used
  BY RequestFacts, RequestsAssumption DEF Promise!Transfer, RequestsAssumption
<1>2. b # c
  BY <1>1, NoError, ErrorsAre
<1>3. S \in [AccountIds -> Int]
  BY SettledType DEF AccountsInv
<1>4. Settled' = [S EXCEPT ![b] = S[b] - r.value, ![c] = S[c] + r.value]
  <2>1. Settled' = [S EXCEPT ![b] = @ - r.value, ![c] = @ + r.value]
    BY DEF Promise!Transfer
  <2> HIDE DEF S
  <2>2. [S EXCEPT ![b] = @ - r.value, ![c] = @ + r.value]
          = [S EXCEPT ![b] = S[b] - r.value, ![c] = S[c] + r.value]
    BY <1>1, <1>2, <1>3
  <2> QED
    BY <2>1, <2>2
<1> DEFINE v == r.value
           sum == SumFunctionOnSet(S, AccountIds)
<1>5. SumFunctionOnSet(Settled', AccountIds) = sum
  <2>1. v \in Int
    BY <1>1
  <2> DEFINE T == Settled'
  <2>2. T = [S EXCEPT ![b] = S[b] - v, ![c] = S[c] + v]
    BY <1>4
  <2> HIDE DEF S, T, b, c, v
  <2>3. /\ T \in [AccountIds -> Int] /\ T[b] = S[b] - v /\ T[c] = S[c] + v
        /\ \A a \in AccountIds \ {b, c} : T[a] = S[a]
    BY <1>1, <1>2, <1>3, <2>1, <2>2
  <2>4. SumFunctionOnSet(T, AccountIds) = SumFunctionOnSet(S, AccountIds)
    BY <1>1, <1>2, <1>3, <2>1, <2>3, AccountsAreFinite, SumOfMove
  <2> QED
    BY <2>4 DEF T
<1>6. sum \in Int
  BY <1>3, AccountsAreFinite, SumType
<1>7. Opened = {}
  BY <1>1 DEF Opened
<1>8. SumFunctionOnSet(Settled', Opened) = 0
  BY <1>7, SumOfNone
<1> HIDE DEF sum
<1>9. SumFunctionOnSet(Settled', AccountIds) = sum + SumFunctionOnSet(Settled', Opened)
  BY <1>5, <1>6, <1>8
<1> QED
  BY <1>9 DEF sum

LEMMA BankConserves ==
  ASSUME AccountsInv, ProgressInv, UnopenedEmpty, [Promise!Next]_(Promise!bankVars)
  PROVE  SumFunctionOnSet(Settled', AccountIds)
           = SumFunctionOnSet(Settled, AccountIds) + SumFunctionOnSet(Settled', Opened)
<1>1. AccountsTypeOK
  BY DEF AccountsInv
<1>2. CASE Settled' = Settled /\ used' = used
  BY <1>1, <1>2, OtherStepConserves
<1>3. ASSUME NEW o \in Offices, NEW r \in Pending[o],
             Promise!Create(o, r) \/ Promise!Transfer(o, r)
      PROVE  SumFunctionOnSet(Settled', AccountIds)
               = SumFunctionOnSet(Settled, AccountIds) + SumFunctionOnSet(Settled', Opened)
  <2>1. r \in ClientRequests
    BY <1>1 DEF Pending, AccountsTypeOK
  <2> QED
    BY <1>3, <2>1, CreationConserves, TransferConserves
<1>4. CASE UNCHANGED Promise!bankVars
  BY <1>2, <1>4 DEF Promise!bankVars
<1>5. ASSUME NEW o \in Offices, NEW r, Promise!Take(o, r) PROVE Settled' = Settled /\ used' = used
  BY <1>5 DEF Promise!Take
<1>6. ASSUME NEW o \in Offices, Promise!Answer(o) PROVE Settled' = Settled /\ used' = used
  BY <1>6 DEF Promise!Answer
<1>7. ASSUME NEW o \in Offices, Promise!Execute(o)
      PROVE  \/ Settled' = Settled /\ used' = used
             \/ \E r \in Pending[o] : Promise!Create(o, r) \/ Promise!Transfer(o, r)
  <2>1. PICK r \in Pending[o] :
          \/ Promise!Refuse(o, r) \/ Promise!Create(o, r) \/ Promise!Transfer(o, r)
          \/ Promise!ReadBalance(o, r) \/ Promise!Shutdown(o, r)
    BY <1>7 DEF Promise!Execute, Pending
  <2> QED
    BY <2>1 DEF Promise!Refuse, Promise!ReadBalance, Promise!Shutdown
<1> QED
  BY <1>2, <1>3, <1>4, <1>5, <1>6, <1>7 DEF Promise!Next

(* On the account that is opened no transfer is half done. *)
LEMMA OpenedSettled ==
  ASSUME AccountsInv, ProgressInv, NEW o \in Offices, OfficeStep(o), NEW a \in Opened
  PROVE  Settled'[a] = balance'[a]
<1>1. a \in AccountIds /\ used'[a] /\ ~ used[a]
  BY DEF Opened
<1>2. CreateAccount(o)
  BY <1>1
     DEF OfficeStep, Work, Take, LockHeader, Validate, UnlockHeader, LockLow, LockHigh,
         HandleCreate, HandleBalance, HandleTransfer, Debit, Credit, HandleShutdown,
         UnlockHigh, UnlockLow, Finish, tableVars
<1>3. pc'[o] # "credit" /\ \A p \in Offices \ {o} : pc'[p] = pc[p] /\ req'[p] = req[p]
  BY <1>2 DEF CreateAccount, Goto, Unlocking, AccountsInv, AccountsTypeOK
<1>4. \A p \in Offices : ~ Leaves(p, a)'
  BY <1>1, <1>3 DEF Leaves, At, ProgressInv, ProgressOK, Deciding, Known
<1> QED
  BY <1>1, <1>4, SettledIsNext

LEMMA MoneyStep ==
  ASSUME AccountsInv, ProgressInv, UnopenedEmpty, AccountsNext
  PROVE  SumFunction(Settled') = SumFunction(Settled) + SumFunctionOnSet(balance', Opened)
<1>1. PICK o \in Offices : OfficeStep(o)
  BY DEF AccountsNext
<1>2. [Promise!Next]_(Promise!bankVars)
  BY BankStep
<1>3. SumFunctionOnSet(Settled', AccountIds)
        = SumFunctionOnSet(Settled, AccountIds) + SumFunctionOnSet(Settled', Opened)
  BY <1>2, BankConserves
<1>4. DOMAIN Settled = AccountIds /\ DOMAIN Settled' = AccountIds
  BY DEF Settled
<1>5. SumFunctionOnSet(Settled', Opened) = SumFunctionOnSet(balance', Opened)
  <2>1. AccountsInv'
    BY InvInductive
  <2>2. IsFiniteSet(Opened)
    BY AccountsAreFinite, FS_Subset DEF Opened
  <2>3. \A a \in Opened : balance'[a] \in Int
    BY <2>1, RequestsAssumption DEF AccountsInv, AccountsTypeOK, Opened, RequestsAssumption
  <2>4. \A a \in Opened : Settled'[a] = balance'[a]
    BY <1>1, OpenedSettled
  <2> DEFINE T == Settled'
             c == balance'
             A == Opened
  <2>5. IsFiniteSet(A) /\ (\A a \in A : c[a] \in Int) /\ \A a \in A : T[a] = c[a]
    BY <2>2, <2>3, <2>4
  <2> HIDE DEF T, c, A
  <2>6. SumFunctionOnSet(T, A) = SumFunctionOnSet(c, A)
    BY <2>5, SumsAgree
  <2> QED
    BY <2>6 DEF T, c, A
<1> QED
  BY <1>3, <1>4, <1>5 DEF SumFunction

(* Money only appears when an account is opened: the transfers and the     *)
(* creations of any number of offices make and destroy none                 *)
(* (handleTransferRequest, createAccount).                                  *)
THEOREM AccountsConserveMoney == AccountsSpec => MoneyConserved
<1>1. AccountsSpec => []ProgressInv
  BY AccountsInvariant, ProgressInit, ProgressStep, PTL DEF AccountsSpec
<1>2. AccountsSpec => []UnopenedEmpty
  BY <1>1, AccountsInvariant, UnopenedInit, UnopenedStep, PTL DEF AccountsSpec
<1>3. AccountsInv /\ ProgressInv /\ UnopenedEmpty /\ [AccountsNext]_accountVars
        => [SumFunction(Settled') =
              SumFunction(Settled)
              + SumFunctionOnSet(balance', {a \in AccountIds : used'[a] /\ ~ used[a]})]_accountVars
  BY MoneyStep DEF Opened
<1> QED
  BY <1>1, <1>2, <1>3, AccountsInvariant, PTL DEF AccountsSpec, MoneyConserved

=============================================================================
