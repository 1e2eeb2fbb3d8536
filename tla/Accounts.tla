------------------------------- MODULE Accounts -------------------------------
(***************************************************************************)
(* The account table of the server (accounts.c) and what a bank office     *)
(* does to it for one request (manageRequest and the handlers of           *)
(* bankoffice.c).  Every account has a mutex.  An office locks the account *)
(* that asks, checks its password and unlocks it; then it locks what the   *)
(* operation is about, a transfer both its accounts in the order of their  *)
(* numbers, runs the handler and unlocks.                                  *)
(*                                                                         *)
(* How requests reach an office and how replies leave it is the business   *)
(* of BankOffice, which extends this module: here an idle office takes any *)
(* request (Take) and forgets the reply (Finish).  The delay an operation  *)
(* asks for is the time between two steps, which is arbitrary anyway.      *)
(***************************************************************************)
EXTENDS Requests, FiniteSets, Functions

CONSTANTS
  Offices,        \* the bank office threads
  NoOffice,       \* the owner of a mutex that is free
  ClientCalls,    \* the requests that may arrive
  AdminPassword,  \* password of the administrator
  HashFaults      \* TRUE: generateHash may fail to make a hash

ASSUME AccountsAssumption ==
  /\ IsFiniteSet(Offices)
  /\ NoOffice \notin Offices
  /\ ClientCalls \subseteq ClientRequests
  /\ AdminPassword \in Passwords
  /\ HashFaults \in BOOLEAN
  /\ Cardinality(Offices) < UINT32

VARIABLES
  pc,        \* pc[o]: where office o is in manageRequest
  req,       \* req[o]: the request it works on, NoRequest when it is idle
  reply,     \* reply[o]: the reply, NoReply as long as it is not decided
  mutex,     \* accountMutexes: mutex[a] is the office that holds account a's mutex
  used,      \* usedAccounts
  balance,   \* accounts[a].balance
  secret     \* accounts[a].hash and salt, told by the password they come from

tableVars == <<used, balance, secret>>
accountVars == <<pc, req, reply, mutex, used, balance, secret>>

PCs ==
  {"idle", "lock_header", "validate", "unlock_header", "lock_low", "lock_high",
   "handle", "debit", "credit", "create", "unlock_high", "unlock_low",
   "shutdown", "reply"}

(* What is in the request of an office that works on none. *)
NoRequest == CHOOSE r \in ClientRequests : TRUE

(* setupAccounts, before any office exists: only the administrator has an  *)
(* account, with no money (not even that, if its hash could not be made).  *)
AccountsInit ==
  /\ pc = [o \in Offices |-> "idle"]
  /\ req = [o \in Offices |-> NoRequest]
  /\ reply = [o \in Offices |-> NoReply]
  /\ mutex = [a \in AccountIds |-> NoOffice]
  /\ \E created \in {TRUE, ~ HashFaults} :
       used = [a \in AccountIds |-> created /\ a = ADMIN_ACCOUNT_ID]
  /\ balance = [a \in AccountIds |-> 0]
  /\ secret = [a \in AccountIds |-> AdminPassword]

-----------------------------------------------------------------------------
(* Steps of an office and its locks *)

At(o, label) == pc[o] = label
Goto(o, label) == pc' = [pc EXCEPT ![o] = label]
SetReply(o, r) == reply' = [reply EXCEPT ![o] = r]

(* Mutant: a busy mutex is ignored, as with an unchecked trylock. *)
lockAccountAnyway(o, a) == mutex' = [mutex EXCEPT ![a] = o]

lockAccount(o, a) == mutex[a] = NoOffice /\ mutex' = [mutex EXCEPT ![a] = o]

unlockAccount(o, a) == mutex' = [mutex EXCEPT ![a] = NoOffice]

(* The accounts an operation locks, in the order in which it locks them:   *)
(* Low alone, or Low and then High.                                         *)
TwoAccounts(r) == r.type = "OP_TRANSFER" /\ r.account_id # r.target

(* Mutant: the sender is always the first to be locked. *)
SenderAlwaysLower(r) == TRUE

SenderLower(r) == r.account_id < r.target

Low(r) ==
  IF TwoAccounts(r)
  THEN IF SenderLower(r) THEN r.account_id ELSE r.target
  ELSE IF r.type = "OP_CREATE_ACCOUNT" THEN r.target ELSE r.account_id

High(r) == IF SenderLower(r) THEN r.target ELSE r.account_id

-----------------------------------------------------------------------------
(* manageRequest, up to the handler *)

Take(o, r) ==
  /\ At(o, "idle")
  /\ req' = [req EXCEPT ![o] = r]
  /\ Goto(o, "lock_header")
  /\ UNCHANGED <<reply, mutex, tableVars>>

LockHeader(o) ==
  /\ At(o, "lock_header")
  /\ lockAccount(o, req[o].account_id)
  /\ Goto(o, "validate")
  /\ UNCHANGED <<req, reply, tableVars>>

(* generateHash is called to check a password or to create an account, with *)
(* the account's mutex held.  It may never return, and may end the server    *)
(* (HashCoprocess, BankOffice): then the office takes no more steps here.     *)
Hashing(o) == At(o, "create") \/ (At(o, "validate") /\ used[req[o].account_id])

(* validateAccount *)
Validate(o) ==
  LET r == req[o]
  IN  /\ At(o, "validate")
      /\ IF ~ used[r.account_id] THEN SetReply(o, MakeErrorReply("ID_NOT_FOUND"))
         ELSE IF secret[r.account_id] # r.password THEN SetReply(o, MakeErrorReply("LOGIN_FAIL"))
         ELSE UNCHANGED reply
      /\ Goto(o, "unlock_header")
      /\ UNCHANGED <<req, mutex, tableVars>>

(* The switch on the type follows the unlocking of a valid account. *)
UnlockHeader(o) ==
  /\ At(o, "unlock_header")
  /\ unlockAccount(o, req[o].account_id)
  /\ Goto(o, IF reply[o] # NoReply THEN "reply"
             ELSE IF req[o].type = "OP_SHUTDOWN" THEN "shutdown" ELSE "lock_low")
  /\ UNCHANGED <<req, reply, tableVars>>

(* Mutant: a balance is read without the account's mutex. *)
LockLowUnlessReading(o) ==
  /\ At(o, "lock_low")
  /\ IF req[o].type = "OP_BALANCE" THEN UNCHANGED mutex ELSE lockAccount(o, Low(req[o]))
  /\ Goto(o, IF TwoAccounts(req[o]) THEN "lock_high" ELSE "handle")
  /\ UNCHANGED <<req, reply, tableVars>>

(* getSingleAccountAccess, and the first half of getDoubleAccountAccess *)
LockLow(o) ==
  /\ At(o, "lock_low")
  /\ lockAccount(o, Low(req[o]))
  /\ Goto(o, IF TwoAccounts(req[o]) THEN "lock_high" ELSE "handle")
  /\ UNCHANGED <<req, reply, tableVars>>

(* The second half of getDoubleAccountAccess *)
LockHigh(o) ==
  /\ At(o, "lock_high")
  /\ lockAccount(o, High(req[o]))
  /\ Goto(o, "handle")
  /\ UNCHANGED <<req, reply, tableVars>>

-----------------------------------------------------------------------------
(* The handlers.  Each decides on what it reads and goes on to write, or to *)
(* unlock with its reply.                                                   *)

(* Mutant: only one of the two mutexes of a transfer is released. *)
UnlockingOne(r) == "unlock_low"

Unlocking(r) == IF TwoAccounts(r) THEN "unlock_high" ELSE "unlock_low"

RefuseWith(o, r) ==
  /\ SetReply(o, r)
  /\ Goto(o, Unlocking(req[o]))

(* Mutant: an id that is in use is not looked for. *)
CreateCodeAnyId(r) == IF r.account_id # ADMIN_ACCOUNT_ID THEN "OP_NALLOW" ELSE "OK"

CreateCode(r) ==
  IF r.account_id # ADMIN_ACCOUNT_ID THEN "OP_NALLOW"
  ELSE IF used[r.target] THEN "ID_IN_USE"
  ELSE "OK"

HandleCreate(o) ==
  /\ At(o, "handle") /\ req[o].type = "OP_CREATE_ACCOUNT"
  /\ IF CreateCode(req[o]) = "OK"
     THEN Goto(o, "create") /\ UNCHANGED reply
     ELSE RefuseWith(o, MakeErrorReply(CreateCode(req[o])))
  /\ UNCHANGED <<req, mutex, tableVars>>

(* createAccount returns early when there is no hash; the reply is the same. *)
CreateAccount(o) ==
  LET r == req[o]
  IN  /\ At(o, "create")
      /\ \/ /\ used' = [used EXCEPT ![r.target] = TRUE]
            /\ balance' = [balance EXCEPT ![r.target] = r.value]
            /\ secret' = [secret EXCEPT ![r.target] = r.new_password]
         \/ HashFaults /\ UNCHANGED tableVars
      /\ SetReply(o, MakeCreateReply)
      /\ Goto(o, Unlocking(r))
      /\ UNCHANGED <<req, mutex>>

HandleBalance(o) ==
  LET r == req[o]
  IN  /\ At(o, "handle") /\ r.type = "OP_BALANCE"
      /\ SetReply(o, IF r.account_id # ADMIN_ACCOUNT_ID
                     THEN MakeBalanceReply(balance[r.account_id])
                     ELSE MakeErrorReply("OP_NALLOW"))
      /\ Goto(o, Unlocking(r))
      /\ UNCHANGED <<req, mutex, tableVars>>

(* Mutant: an amount one above the balance is let through. *)
TransferCodeOffByOne(r) ==
  IF r.account_id = ADMIN_ACCOUNT_ID THEN "OP_NALLOW"
  ELSE IF ~ used[r.target] THEN "ID_NOT_FOUND"
  ELSE IF r.target = ADMIN_ACCOUNT_ID THEN "OP_NALLOW"
  ELSE IF r.target = r.account_id THEN "SAME_ID"
  ELSE IF balance[r.account_id] + MIN_BALANCE < r.value THEN "NO_FUNDS"
  ELSE IF Wrap(balance[r.target] + r.value) > MAX_BALANCE THEN "TOO_HIGH"
  ELSE "OK"

TransferCode(r) ==
  IF r.account_id = ADMIN_ACCOUNT_ID THEN "OP_NALLOW"
  ELSE IF ~ used[r.target] THEN "ID_NOT_FOUND"
  ELSE IF r.target = ADMIN_ACCOUNT_ID THEN "OP_NALLOW"
  ELSE IF r.target = r.account_id THEN "SAME_ID"
  ELSE IF balance[r.account_id] < r.value THEN "NO_FUNDS"
  ELSE IF Wrap(balance[r.target] + r.value) > MAX_BALANCE THEN "TOO_HIGH"
  ELSE "OK"

HandleTransfer(o) ==
  LET r == req[o]
  IN  /\ At(o, "handle") /\ r.type = "OP_TRANSFER"
      /\ IF TransferCode(r) = "OK"
         THEN Goto(o, "debit") /\ UNCHANGED reply
         ELSE RefuseWith(o, MakeTransferReply(balance[r.account_id], TransferCode(r)))
      /\ UNCHANGED <<req, mutex, tableVars>>

Debit(o) ==
  LET r == req[o]
  IN  /\ At(o, "debit")
      /\ balance' = [balance EXCEPT ![r.account_id] = Wrap(@ - r.value)]
      /\ Goto(o, "credit")
      /\ UNCHANGED <<req, reply, mutex, used, secret>>

Credit(o) ==
  LET r == req[o]
  IN  /\ At(o, "credit")
      /\ balance' = [balance EXCEPT ![r.target] = Wrap(@ + r.value)]
      /\ SetReply(o, MakeTransferReply(balance'[r.account_id], "OK"))
      /\ Goto(o, Unlocking(r))
      /\ UNCHANGED <<req, mutex, used, secret>>

(* handleShutdownRequest, as far as it concerns the accounts: not at all.   *)
(* "n" is what getNumActiveOffices counts.                                  *)
HandleShutdown(o, n) ==
  /\ At(o, "shutdown")
  /\ SetReply(o, IF req[o].account_id = ADMIN_ACCOUNT_ID
                 THEN MakeShutdownReply(n) ELSE MakeErrorReply("OP_NALLOW"))
  /\ Goto(o, "reply")
  /\ UNCHANGED <<req, mutex, tableVars>>

-----------------------------------------------------------------------------
(* unlockDoubleAccount: the higher account first *)
UnlockHigh(o) ==
  /\ At(o, "unlock_high")
  /\ unlockAccount(o, High(req[o]))
  /\ Goto(o, "unlock_low")
  /\ UNCHANGED <<req, reply, tableVars>>

UnlockLow(o) ==
  /\ At(o, "unlock_low")
  /\ unlockAccount(o, Low(req[o]))
  /\ Goto(o, "reply")
  /\ UNCHANGED <<req, reply, tableVars>>

Finish(o) ==
  /\ At(o, "reply")
  /\ SetReply(o, NoReply)
  /\ req' = [req EXCEPT ![o] = NoRequest]
  /\ Goto(o, "idle")
  /\ UNCHANGED <<mutex, tableVars>>

(* What an office does to the accounts for the request it has. *)
Work(o) ==
  \/ LockHeader(o) \/ Validate(o) \/ UnlockHeader(o)
  \/ LockLow(o) \/ LockHigh(o)
  \/ HandleCreate(o) \/ CreateAccount(o) \/ HandleBalance(o)
  \/ HandleTransfer(o) \/ Debit(o) \/ Credit(o)
  \/ UnlockHigh(o) \/ UnlockLow(o)

OfficeStep(o) ==
  \/ \E r \in ClientCalls : Take(o, r)
  \/ Work(o)
  \/ \E n \in 0 .. Cardinality(Offices) : HandleShutdown(o, n)
  \/ Finish(o)

AccountsNext == \E o \in Offices : OfficeStep(o)

AccountsSpec == AccountsInit /\ [][AccountsNext]_accountVars

-----------------------------------------------------------------------------
(* Properties *)

(* Every variable has its type; a balance is some uint32_t. *)
AccountsTypeOK ==
  /\ pc \in [Offices -> PCs]
  /\ req \in [Offices -> ClientRequests]
  /\ reply \in [Offices -> Reply]
  /\ mutex \in [AccountIds -> Offices \union {NoOffice}]
  /\ used \in [AccountIds -> BOOLEAN]
  /\ balance \in [AccountIds -> 0 .. UINT32 - 1]
  /\ secret \in [AccountIds -> Passwords]

(* The accounts whose mutexes an office holds, by where it is. *)
Held(o) ==
  LET r == req[o]
      all == IF TwoAccounts(r) THEN {Low(r), High(r)} ELSE {Low(r)}
  IN  CASE pc[o] \in {"validate", "unlock_header"} -> {r.account_id}
        [] pc[o] \in {"lock_high", "unlock_low"} -> {Low(r)}
        [] pc[o] \in {"handle", "debit", "credit", "create", "unlock_high"} -> all
        [] OTHER -> {}

(* The mutexes are held as the control of the offices says: none is leaked *)
(* by a handler, none is released twice, and no office is in a handler     *)
(* without the mutexes of the accounts it uses (lockAccount, unlockAccount *)
(* and the two double-account functions of bankoffice.c).                   *)
LocksMatchControl ==
  \A o \in Offices, a \in AccountIds : mutex[a] = o <=> a \in Held(o)

(* No balance ever wraps around or leaves 0..MAX_BALANCE, whatever the     *)
(* transfers in progress: what handleTransferRequest checked still holds   *)
(* when it subtracts and adds.                                              *)
BalanceBounded == \A a \in AccountIds : balance[a] \in 0 .. MAX_BALANCE

(* What a handler has checked still holds when it acts on it, however long *)
(* it takes and whatever the other offices do: the id that was free when   *)
(* handleCreateAccountRequest looked is free when createAccount takes it,  *)
(* and the balances that allowed a transfer allow it until it is done.     *)
ChecksStillHold ==
  \A o \in Offices :
    LET r == req[o]
    IN  /\ pc[o] \in {"lock_high", "debit", "credit", "unlock_high"} => TwoAccounts(r)
        /\ At(o, "create") => r.type = "OP_CREATE_ACCOUNT" /\ ~ used[r.target]
        /\ At(o, "debit") => balance[r.account_id] >= r.value
        /\ pc[o] \in {"debit", "credit"} => balance[r.target] + r.value <= MAX_BALANCE

(* The account an office waits for. *)
Wants(o) ==
  CASE At(o, "lock_header") -> {req[o].account_id}
    [] At(o, "lock_low") -> {Low(req[o])}
    [] At(o, "lock_high") -> {High(req[o])}
    [] OTHER -> {}

(* No deadlock among the account mutexes: in every set of offices one does *)
(* not wait for a mutex an office of the set (itself included) holds.      *)
NoCircularWait ==
  \A S \in SUBSET Offices :
    S # {} => \E o \in S : \A a \in Wants(o) : mutex[a] \notin S

(* The account table as the clients may think of it: a transfer takes      *)
(* effect when its receiver is credited, and until then the money it has   *)
(* taken from its sender counts as the sender's.                            *)
Settled ==
  [a \in AccountIds |->
     LET leaving == {o \in Offices : At(o, "credit") /\ req[o].account_id = a}
     IN  IF leaving = {} THEN balance[a]
         ELSE balance[a] + req[CHOOSE o \in leaving : TRUE].value]

(* Money only appears when an account is opened, as its first balance: no  *)
(* interleaving of transfers and creations makes or destroys any.          *)
MoneyConserved ==
  [][SumFunction(Settled') =
       SumFunction(Settled)
       + SumFunctionOnSet(balance', {a \in AccountIds : used'[a] /\ ~ used[a]})]_accountVars

(* An account, once opened, is never opened again: it keeps its password   *)
(* (of two creations of the same id only one takes effect).                *)
OpenedOnce ==
  [][\A a \in AccountIds : used[a] => used'[a] /\ secret'[a] = secret[a]]_tableVars

(* The locks make every request atomic: the offices do what the module     *)
(* Bank promises, each request taking effect at one instant with the reply *)
(* that is right at that instant.                                           *)
Promise ==
  INSTANCE Bank WITH
    balance <- Settled,
    pending <- [o \in Offices |-> IF At(o, "idle") THEN {} ELSE {req[o]}],
    answer <- reply

ImplementsBank == Promise!Spec

-----------------------------------------------------------------------------
(* What types.h says of the return codes and the handlers do not keep *)

(* "final balance would be too low (less than MIN_BALANCE)": a transfer    *)
(* that would leave its sender less than MIN_BALANCE is refused, so every  *)
(* user's account always has that much.                                     *)
MinBalanceKept ==
  \A a \in UserIds : used[a] => Settled[a] >= MIN_BALANCE

(* "operation was performed successfully": while the office still holds    *)
(* the mutex of an account it says it opened, that account exists.          *)
CreatedMeansOpened ==
  \A o \in Offices :
    /\ At(o, "unlock_low")
    /\ req[o].type = "OP_CREATE_ACCOUNT"
    /\ reply[o] = MakeCreateReply
    => used[req[o].target]

Rank(code) == CHOOSE i \in DOMAIN ErrorCodes : ErrorCodes[i] = code

(* "if there is more than one error, the first within this list must be    *)
(* returned": a request its account may not make (only the administrator   *)
(* creates accounts and stops the server, and does nothing else) is never  *)
(* refused for a reason that comes after RC_OP_NALLOW.                      *)
FirstErrorReturned ==
  \A o \in Offices :
    LET r == req[o]
        reserved == r.type \in {"OP_CREATE_ACCOUNT", "OP_SHUTDOWN"}
    IN  /\ reply[o].code \notin {"NONE", "OK"}
        /\ reserved # (r.account_id = ADMIN_ACCOUNT_ID)
        => Rank(reply[o].code) <= Rank("OP_NALLOW")
=============================================================================
