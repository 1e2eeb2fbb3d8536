------------------------------- MODULE Requests -------------------------------
(***************************************************************************)
(* The messages of the home banking service (types.h, constants.h): what a *)
(* user program may put in a request, and what a bank office puts in a     *)
(* reply (replymaker.c).                                                   *)
(*                                                                         *)
(* A request is one record with the fields of the header and of the union  *)
(* it is sent with; a field an operation does not use has the value the    *)
(* definition of ClientRequests gives it.  A password stands for itself.   *)
(***************************************************************************)
EXTENDS Integers

CONSTANTS
  MAX_BANK_ACCOUNTS,  \* entries of the account table
  MAX_BALANCE,        \* largest balance an account may have
  UINT32,             \* number of values of a uint32_t
  Passwords,          \* passwords users may type
  Pids                \* process ids of user programs

ASSUME RequestsAssumption ==
  /\ MAX_BANK_ACCOUNTS \in Nat \ {0, 1}
  /\ MAX_BALANCE \in Nat \ {0}
  /\ UINT32 \in Nat
  /\ 2 * MAX_BALANCE < UINT32
  /\ Passwords # {}
  /\ Pids # {}

ADMIN_ACCOUNT_ID == 0
MIN_BALANCE == 1
AccountIds == 0 .. MAX_BANK_ACCOUNTS - 1
UserIds == AccountIds \ {ADMIN_ACCOUNT_ID}

OpTypes == {"OP_CREATE_ACCOUNT", "OP_BALANCE", "OP_TRANSFER", "OP_SHUTDOWN"}

(* The uint32_t an addition or a subtraction of two of them leaves. *)
Wrap(n) == IF n < 0 THEN n + UINT32 ELSE IF n >= UINT32 THEN n - UINT32 ELSE n

-----------------------------------------------------------------------------
(* Requests *)

Request ==
  [pid : Pids, type : OpTypes, account_id : AccountIds, password : Passwords,
   target : AccountIds, value : 0 .. MAX_BALANCE, new_password : Passwords]

(* The requests a user program sends: the target of a creation or of a     *)
(* transfer is never the administrator, and the balance or the amount is   *)
(* between 1 and MAX_BALANCE.  (The client also lets the account id        *)
(* MAX_BANK_ACCOUNTS through, which is outside the server's tables: what   *)
(* the server does then is not defined, and not described here.)           *)
ClientRequests ==
  {r \in Request :
     r.type \in {"OP_CREATE_ACCOUNT", "OP_TRANSFER"} =>
       r.target \in UserIds /\ r.value \in 1 .. MAX_BALANCE}

-----------------------------------------------------------------------------
(* Replies *)

(* The error codes in the order of ret_code: "if there is more than one    *)
(* error, the first within this list must be returned".                    *)
ErrorCodes ==
  <<"SRV_DOWN", "SRV_TIMEOUT", "USR_DOWN", "LOGIN_FAIL", "OP_NALLOW",
    "ID_IN_USE", "ID_NOT_FOUND", "SAME_ID", "NO_FUNDS", "TOO_HIGH", "OTHER">>

RetCodes ==
  {"OK", "SRV_DOWN", "SRV_TIMEOUT", "USR_DOWN", "LOGIN_FAIL", "OP_NALLOW",
   "ID_IN_USE", "ID_NOT_FOUND", "SAME_ID", "NO_FUNDS", "TOO_HIGH", "OTHER"}

(* "info" is the balance, or the number of active offices, a reply carries *)
(* (0 in a reply that is only a header).                                   *)
Reply == [code : RetCodes \union {"NONE"}, info : 0 .. UINT32 - 1]

NoReply == [code |-> "NONE", info |-> 0]

MakeErrorReply(code) == [code |-> code, info |-> 0]
MakeCreateReply == [code |-> "OK", info |-> 0]
MakeBalanceReply(amount) == [code |-> "OK", info |-> amount]
MakeTransferReply(amount, code) == [code |-> code, info |-> amount]
MakeShutdownReply(offices) == [code |-> "OK", info |-> offices]
=============================================================================
