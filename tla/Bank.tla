--------------------------------- MODULE Bank ---------------------------------
(***************************************************************************)
(* What the service promises its clients: every request an office takes is *)
(* executed at one instant between being taken and being answered, on      *)
(* accounts no other request touches at that instant, and its reply is the *)
(* outcome at that instant.  Nothing is said of locks or of the order in   *)
(* which the offices work.                                                 *)
(*                                                                         *)
(* The outcome is not computed the way the handlers do it: each return code *)
(* has its condition, and the first one that applies, in the order of the  *)
(* table of codes (types.h), is the outcome.  The conditions are those of   *)
(* the code (bankoffice.c): a sender must have the amount, and need not keep *)
(* MIN_BALANCE, and an account that is not known has no error but that one. *)
(* In both the table says something else, which Accounts states as          *)
(* MinBalanceKept and FirstErrorReturned.                                   *)
(***************************************************************************)
EXTENDS Requests, FiniteSets

CONSTANTS
  Offices,        \* the bank office threads
  ClientCalls,    \* the requests that may arrive
  AdminPassword,  \* password of the administrator
  HashFaults      \* TRUE: an account the service says it opened may not exist

VARIABLES
  used,      \* used[a]: account a exists
  balance,   \* balance[a]
  secret,    \* secret[a]: the password account a was opened with
  pending,   \* pending[o]: the set of requests office o is working on: {} or {r}
  answer     \* answer[o]: the reply, NoReply as long as it is not decided

bankVars == <<used, balance, secret, pending, answer>>

Init ==
  /\ \E created \in {TRUE, ~ HashFaults} :
       used = [a \in AccountIds |-> created /\ a = ADMIN_ACCOUNT_ID]
  /\ balance = [a \in AccountIds |-> 0]
  /\ secret = [a \in AccountIds |-> AdminPassword]
  /\ pending = [o \in Offices |-> {}]
  /\ answer = [o \in Offices |-> NoReply]

-----------------------------------------------------------------------------
(* The errors of a request of a known account, each with its condition. *)
Errors(r) ==
  LET admin == r.account_id = ADMIN_ACCOUNT_ID
      is(type) == r.type = type
      self == r.target = r.account_id
  IN  {c \in RetCodes :
         \/ c = "LOGIN_FAIL" /\ secret[r.account_id] # r.password
         \/ c = "OP_NALLOW" /\ admin # (is("OP_CREATE_ACCOUNT") \/ is("OP_SHUTDOWN"))
         \/ c = "OP_NALLOW" /\ is("OP_TRANSFER") /\ r.target = ADMIN_ACCOUNT_ID
         \/ c = "ID_IN_USE" /\ is("OP_CREATE_ACCOUNT") /\ used[r.target]
         \/ c = "ID_NOT_FOUND" /\ is("OP_TRANSFER") /\ ~ used[r.target]
         \/ c = "SAME_ID" /\ is("OP_TRANSFER") /\ self
         \/ c = "NO_FUNDS" /\ is("OP_TRANSFER") /\ balance[r.account_id] < r.value
         \/ c = "TOO_HIGH" /\ is("OP_TRANSFER") /\ ~ self
                           /\ balance[r.target] + r.value > MAX_BALANCE}

(* The first code of the list that is in a set of codes, "OK" if none is. *)
FirstError(codes) ==
  IF codes = {} THEN "OK"
  ELSE LET i == CHOOSE i \in DOMAIN ErrorCodes :
                  /\ ErrorCodes[i] \in codes
                  /\ \A j \in 1 .. i - 1 : ErrorCodes[j] \notin codes
       IN  ErrorCodes[i]

(* The code of the reply: an account that is not known has no errors but this. *)
Outcome(r) ==
  IF used[r.account_id] THEN FirstError(Errors(r)) ELSE "ID_NOT_FOUND"

-----------------------------------------------------------------------------
Take(o, r) ==
  /\ pending[o] = {}
  /\ pending' = [pending EXCEPT ![o] = {r}]
  /\ UNCHANGED <<used, balance, secret, answer>>

Decide(o, reply) == answer' = [answer EXCEPT ![o] = reply]

(* An error changes no account.  That of a transfer tells the sender its   *)
(* balance, if it is known to be the sender.                                *)
Refuse(o, r) ==
  LET known == used[r.account_id] /\ secret[r.account_id] = r.password
  IN  /\ Outcome(r) # "OK"
      /\ IF r.type = "OP_TRANSFER" /\ known
         THEN Decide(o, MakeTransferReply(balance[r.account_id], Outcome(r)))
         ELSE Decide(o, MakeErrorReply(Outcome(r)))
      /\ UNCHANGED <<used, balance, secret>>

Create(o, r) ==
  /\ r.type = "OP_CREATE_ACCOUNT" /\ Outcome(r) = "OK"
  /\ \/ /\ used' = [used EXCEPT ![r.target] = TRUE]
        /\ balance' = [balance EXCEPT ![r.target] = r.value]
        /\ secret' = [secret EXCEPT ![r.target] = r.new_password]
     \/ HashFaults /\ UNCHANGED <<used, balance, secret>>
  /\ Decide(o, MakeCreateReply)

Transfer(o, r) ==
  /\ r.type = "OP_TRANSFER" /\ Outcome(r) = "OK"
  /\ balance' = [balance EXCEPT ![r.account_id] = @ - r.value,
                                ![r.target] = @ + r.value]
  /\ Decide(o, MakeTransferReply(balance[r.account_id] - r.value, "OK"))
  /\ UNCHANGED <<used, secret>>

ReadBalance(o, r) ==
  /\ r.type = "OP_BALANCE" /\ Outcome(r) = "OK"
  /\ Decide(o, MakeBalanceReply(balance[r.account_id]))
  /\ UNCHANGED <<used, balance, secret>>

Shutdown(o, r) ==
  /\ r.type = "OP_SHUTDOWN" /\ Outcome(r) = "OK"
  /\ \E n \in 0 .. Cardinality(Offices) : Decide(o, MakeShutdownReply(n))
  /\ UNCHANGED <<used, balance, secret>>

Execute(o) ==
  /\ answer[o] = NoReply
  /\ \E r \in pending[o] :
       Refuse(o, r) \/ Create(o, r) \/ Transfer(o, r) \/ ReadBalance(o, r) \/ Shutdown(o, r)
  /\ UNCHANGED pending

Answer(o) ==
  /\ answer[o] # NoReply
  /\ pending' = [pending EXCEPT ![o] = {}]
  /\ answer' = [answer EXCEPT ![o] = NoReply]
  /\ UNCHANGED <<used, balance, secret>>

Next ==
  \E o \in Offices :
    (\E r \in ClientCalls : Take(o, r)) \/ Execute(o) \/ Answer(o)

Spec == Init /\ [][Next]_bankVars
=============================================================================
