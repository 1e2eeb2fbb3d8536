------------------------------ MODULE ClientArgs ------------------------------
(***************************************************************************)
(* How the user program makes a request of its command line                *)
(* (processUserArgs, createRequest, user.c 205-303), with the conversions  *)
(* of atoi's int to uint32_t on the way.                                    *)
(*                                                                         *)
(* An argument that is a number is what atoi makes of it, which is 0 of a  *)
(* word that is none; a password is its length, the only thing that is     *)
(* looked at.  The last argument is the sequence of its words, as strtok   *)
(* finds them.                                                              *)
(***************************************************************************)
EXTENDS Requests, Sequences

CONSTANTS MIN_PASSWORD_LEN, MAX_PASSWORD_LEN

ASSUME ClientArgsAssumption ==
  /\ MIN_PASSWORD_LEN \in Nat /\ MAX_PASSWORD_LEN \in Nat
  /\ MIN_PASSWORD_LEN <= MAX_PASSWORD_LEN
  /\ MIN_PASSWORD_LEN .. MAX_PASSWORD_LEN \subseteq Passwords
  /\ 2 * MAX_BANK_ACCOUNTS < UINT32

(* int is as wide as uint32_t *)
Int32 == -(UINT32 \div 2) .. UINT32 \div 2 - 1

UserArgs ==
  [id : Int32, password : Passwords, delay : Int32, opcode : Int32, words : Seq(Int32)]

ToUint32(n) == n % UINT32

(* Mutant: the upper bound, which is what refuses a negative number too, is *)
(* not looked at.                                                            *)
AccountIdNotNegative(n) == ToUint32(n) >= 0

(* The id that makeReqHeader accepts: its test for a negative one is of an *)
(* unsigned number.                                                         *)
HeaderIdOK(n) == ~ (ToUint32(n) < 0 \/ ToUint32(n) > MAX_BANK_ACCOUNTS)

HeaderDelayOK(n) == ~ (ToUint32(n) < 0)

(* makeCreateAccReq and makeTransferReq *)
TargetOK(n) == ~ (ToUint32(n) <= 0 \/ ToUint32(n) > MAX_BANK_ACCOUNTS)
ValueOK(n) == ~ (ToUint32(n) <= 0 \/ ToUint32(n) > MAX_BALANCE)
PasswordOK(length) == length \in MIN_PASSWORD_LEN .. MAX_PASSWORD_LEN

Opcode(type) ==
  CASE type = "OP_CREATE_ACCOUNT" -> 0
    [] type = "OP_BALANCE" -> 1
    [] type = "OP_TRANSFER" -> 2
    [] type = "OP_SHUTDOWN" -> 3

WordsOK(type, words) ==
  /\ type = "OP_CREATE_ACCOUNT" =>
       Len(words) >= 3 /\ TargetOK(words[1]) /\ ValueOK(words[2]) /\ PasswordOK(words[3])
  /\ type = "OP_TRANSFER" =>
       Len(words) >= 2 /\ TargetOK(words[1]) /\ ValueOK(words[2])

(* The requests that come of it.  The account id MAX_BANK_ACCOUNTS is let    *)
(* through, as is a delay that was negative.                                 *)
UserRequest ==
  [pid : Pids, type : OpTypes, account_id : 0 .. MAX_BANK_ACCOUNTS, password : Passwords,
   target : 0 .. MAX_BANK_ACCOUNTS, value : 0 .. MAX_BALANCE, new_password : Passwords]
Delays == 0 .. UINT32 - 1

(* createRequest makes a request of these arguments, or the program exits. *)
Accepted(args) ==
  \E type \in OpTypes :
    /\ args.opcode = Opcode(type)
    /\ HeaderIdOK(args.id) /\ HeaderDelayOK(args.delay)
    /\ WordsOK(type, args.words)

createRequest(pid, args) ==
  LET type == CHOOSE t \in OpTypes : args.opcode = Opcode(t)
      creates == type = "OP_CREATE_ACCOUNT"
      targeted == creates \/ type = "OP_TRANSFER"
  IN  [pid |-> pid, type |-> type,
       account_id |-> ToUint32(args.id), password |-> args.password,
       target |-> IF targeted THEN ToUint32(args.words[1]) ELSE 0,
       value |-> IF targeted THEN ToUint32(args.words[2]) ELSE 0,
       new_password |-> IF creates THEN args.words[3] ELSE MIN_PASSWORD_LEN]

(* Mutant: a negative delay stays one. *)
RequestDelaySigned(args) == args.delay

RequestDelay(args) == ToUint32(args.delay)
=============================================================================
