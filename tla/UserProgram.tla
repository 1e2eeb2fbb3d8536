----------------------------- MODULE UserProgram -----------------------------
(***************************************************************************)
(* The user program (UserSession) run with any arguments (ClientArgs), one *)
(* process after the other, against any server (Conversation).              *)
(***************************************************************************)
EXTENDS Conversation, ClientArgs

CONSTANT ArgsOf(_)  \* ArgsOf(n): the arguments of the n-th process of a pid

ASSUME UserProgramAssumption == \A n \in 1 .. MaxRuns : ArgsOf(n) \subseteq UserArgs

VARIABLES
  args,    \* args[p]: the arguments of the process
  ready    \* ready[p]: the request it has made of them and its delay, <<>> before

userVars == <<args, ready>>
programVars == <<talkVars, userVars>>

Init ==
  /\ TalkInit
  /\ args \in [Pids -> ArgsOf(1)]
  /\ ready = [p \in Pids |-> <<>>]

-----------------------------------------------------------------------------
CheckArgs(p) ==
  /\ IF Accepted(args[p])
     THEN /\ Begin(p)
          /\ ready' = [ready EXCEPT ![p] =
               <<createRequest(p, args[p]), RequestDelay(args[p])>>]
     ELSE Refuse(p) /\ UNCHANGED ready
  /\ UNCHANGED <<args, serverVars>>

Program(p) == CheckArgs(p) \/ (Proceed(p) /\ UNCHANGED userVars)

NextProcess(p) ==
  /\ Follow(p)
  /\ ready' = [ready EXCEPT ![p] = <<>>]
  /\ \E a \in ArgsOf(Len(past[p]) + 2) : args' = [args EXCEPT ![p] = a]

Next ==
  \/ \E p \in Pids : Program(p) \/ NextProcess(p)
  \/ Server /\ UNCHANGED userVars

(* The program goes on whenever it can, and the clock reaches 30 seconds.   *)
(* Nothing is expected of the server.                                       *)
Fairness == \A p \in Pids : WF_programVars(Program(p))

Spec == Init /\ [][Next]_programVars /\ Fairness

-----------------------------------------------------------------------------
(* Properties *)

(* Every variable has its type. *)
ProgramTypeOK ==
  /\ TalkTypeOK
  /\ args \in [Pids -> UserArgs]
  /\ ready \in [Pids -> {<<>>} \union (UserRequest \X Delays)]

AsTyped(a, r, delay) ==
  /\ Opcode(r.type) = a.opcode
  /\ r.account_id = a.id /\ r.account_id \in 0 .. MAX_BANK_ACCOUNTS
  /\ r.type \in {"OP_CREATE_ACCOUNT", "OP_TRANSFER"} =>
       /\ r.target = a.words[1] /\ r.target \in 1 .. MAX_BANK_ACCOUNTS
       /\ r.value = a.words[2] /\ r.value \in 1 .. MAX_BALANCE
  /\ a.delay >= 0 => delay = a.delay

(* A request that is sent says what was typed, whatever the conversions to  *)
(* uint32_t do: ids and amounts in the bounds the user is told of, and the   *)
(* delay unless it was negative, which no check finds (user.c:240).          *)
SentAsTyped ==
  \A p \in Pids : ready[p] # <<>> => AsTyped(args[p], ready[p][1], ready[p][2])

(* Every run of the program ends, alarm or not, and what it shows tells     *)
(* whether the server may have carried out the request.                     *)
ImplementsSession == Promise!Spec
=============================================================================
