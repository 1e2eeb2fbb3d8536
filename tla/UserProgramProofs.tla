-------------------------- MODULE UserProgramProofs --------------------------
(***************************************************************************)
(* Proofs about UserProgram, for any arguments, any pids and any number of *)
(* processes that have the same pid.                                        *)
(***************************************************************************)
EXTENDS UserProgram, ConversationProofs

-----------------------------------------------------------------------------
(* Arguments and requests *)

(* The conversion of an int to uint32_t *)
LEMMA ToUint32Facts ==
  ASSUME NEW n \in Int32
  PROVE  /\ n >= 0 => ToUint32(n) = n
         /\ n < 0 => ToUint32(n) = n + UINT32
         /\ ToUint32(n) \in 0 .. UINT32 - 1
  BY RequestsAssumption DEF RequestsAssumption, ToUint32, Int32

(* A number passes a test for an upper bound only if it is not negative. *)
LEMMA BoundedNotNegative ==
  ASSUME NEW n \in Int32, NEW max \in Nat, 2 * max < UINT32, ToUint32(n) <= max
  PROVE  n \in 0 .. max /\ ToUint32(n) = n
<1>1. UINT32 \in Nat /\ n \in Int /\ n >= -(UINT32 \div 2)
  BY RequestsAssumption DEF RequestsAssumption, Int32
<1>2. 2 * (UINT32 \div 2) <= UINT32
  BY <1>1
<1>3. n >= 0
  BY <1>1, <1>2, ToUint32Facts
<1> QED
  BY <1>1, <1>3, ToUint32Facts

LEMMA WordFacts ==
  ASSUME NEW a \in UserArgs, NEW n \in 1 .. Len(a.words)
  PROVE  a.words[n] \in Int32
  BY DEF UserArgs

(* What passes the tests of makeCreateAccReq and makeTransferReq *)
LEMMA CheckedWords ==
  ASSUME NEW a \in UserArgs, NEW type \in {"OP_CREATE_ACCOUNT", "OP_TRANSFER"},
         WordsOK(type, a.words)
  PROVE  /\ a.words[1] \in 1 .. MAX_BANK_ACCOUNTS /\ ToUint32(a.words[1]) = a.words[1]
         /\ a.words[2] \in 1 .. MAX_BALANCE /\ ToUint32(a.words[2]) = a.words[2]
         /\ type = "OP_CREATE_ACCOUNT" => a.words[3] \in Passwords
<1>1. /\ Len(a.words) \in Nat /\ Len(a.words) >= 2
      /\ type = "OP_CREATE_ACCOUNT" => Len(a.words) >= 3
  BY DEF WordsOK, UserArgs
<1>2. a.words[1] \in Int32 /\ a.words[2] \in Int32
  BY <1>1, WordFacts
<1>3. TargetOK(a.words[1]) /\ ValueOK(a.words[2])
  BY DEF WordsOK
<1>4. a.words[1] \in 1 .. MAX_BANK_ACCOUNTS /\ ToUint32(a.words[1]) = a.words[1]
  <2>1. ToUint32(a.words[1]) \in 1 .. MAX_BANK_ACCOUNTS
    BY <1>2, <1>3, ToUint32Facts, RequestsAssumption DEF TargetOK, RequestsAssumption
  <2> QED
    BY <1>2, <2>1, BoundedNotNegative, RequestsAssumption, ClientArgsAssumption
       DEF RequestsAssumption, ClientArgsAssumption
<1>5. a.words[2] \in 1 .. MAX_BALANCE /\ ToUint32(a.words[2]) = a.words[2]
  <2>1. ToUint32(a.words[2]) \in 1 .. MAX_BALANCE
    BY <1>2, <1>3, ToUint32Facts, RequestsAssumption DEF ValueOK, RequestsAssumption
  <2> QED
    BY <1>2, <2>1, BoundedNotNegative, RequestsAssumption DEF RequestsAssumption
<1>6. type = "OP_CREATE_ACCOUNT" => a.words[3] \in Passwords
  BY ClientArgsAssumption DEF WordsOK, PasswordOK, ClientArgsAssumption
<1> QED
  BY <1>4, <1>5, <1>6

LEMMA RequestAsTyped ==
  ASSUME NEW p \in Pids, NEW a \in UserArgs, Accepted(a)
  PROVE  /\ <<createRequest(p, a), RequestDelay(a)>> \in UserRequest \X Delays
         /\ AsTyped(a, createRequest(p, a), RequestDelay(a))
<1> DEFINE type == CHOOSE t \in OpTypes : a.opcode = Opcode(t)
           creates == type = "OP_CREATE_ACCOUNT"
           targeted == creates \/ type = "OP_TRANSFER"
           r == createRequest(p, a)
<1>1. PICK t \in OpTypes :
        a.opcode = Opcode(t) /\ HeaderIdOK(a.id) /\ HeaderDelayOK(a.delay) /\ WordsOK(t, a.words)
  BY DEF Accepted
<1>2. type \in OpTypes /\ a.opcode = Opcode(type)
  BY <1>1
<1>3. type = t
  <2>1. \A t1, t2 \in OpTypes : Opcode(t1) = Opcode(t2) => t1 = t2
    BY DEF OpTypes, Opcode
  <2> QED
    BY <1>1, <1>2, <2>1
<1>4. WordsOK(type, a.words)
  BY <1>1, <1>3
<1> HIDE DEF type
<1>5. r = [pid |-> p, type |-> type, account_id |-> ToUint32(a.id), password |-> a.password,
           target |-> IF targeted THEN ToUint32(a.words[1]) ELSE 0,
           value |-> IF targeted THEN ToUint32(a.words[2]) ELSE 0,
           new_password |-> IF creates THEN a.words[3] ELSE MIN_PASSWORD_LEN]
  BY DEF createRequest, type
<1>6. a.id \in Int32 /\ a.delay \in Int32 /\ a.password \in Passwords
  BY DEF UserArgs
<1>7. a.id \in 0 .. MAX_BANK_ACCOUNTS /\ ToUint32(a.id) = a.id
  <2>1. ToUint32(a.id) <= MAX_BANK_ACCOUNTS
    BY <1>1, <1>6, ToUint32Facts, RequestsAssumption DEF HeaderIdOK, RequestsAssumption
  <2> QED
    BY <1>6, <2>1, BoundedNotNegative, RequestsAssumption, ClientArgsAssumption
       DEF RequestsAssumption, ClientArgsAssumption
<1>8. targeted => /\ a.words[1] \in 1 .. MAX_BANK_ACCOUNTS /\ ToUint32(a.words[1]) = a.words[1]
                  /\ a.words[2] \in 1 .. MAX_BALANCE /\ ToUint32(a.words[2]) = a.words[2]
                  /\ creates => a.words[3] \in Passwords
  BY <1>4, CheckedWords
<1>9. RequestDelay(a) \in Delays /\ (a.delay >= 0 => RequestDelay(a) = a.delay)
  BY <1>6, ToUint32Facts DEF RequestDelay, Delays
<1>10. r \in UserRequest
  <2>1. MIN_PASSWORD_LEN \in Passwords
    BY ClientArgsAssumption DEF ClientArgsAssumption
  <2>2. 0 \in 0 .. MAX_BANK_ACCOUNTS /\ 0 \in 0 .. MAX_BALANCE
    BY RequestsAssumption DEF RequestsAssumption
  <2> QED
    BY <1>2, <1>5, <1>6, <1>7, <1>8, <2>1, <2>2 DEF UserRequest
<1>11. AsTyped(a, r, RequestDelay(a))
  BY <1>2, <1>5, <1>7, <1>8, <1>9 DEF AsTyped
<1> QED
  BY <1>9, <1>10, <1>11


-----------------------------------------------------------------------------
(* The programs keep to Conversation *)

LEMMA ProgramSteps ==
  ASSUME NEW p \in Pids, Program(p) \/ NextProcess(p)
  PROVE  Acts(p) \/ Follow(p)
<1>1. CheckArgs(p) => Start(p)
  BY DEF CheckArgs, Start, serverVars
<1> QED
  BY <1>1 DEF Program, NextProcess, Acts

LEMMA ProgramTalks == [Next]_programVars => [TalkNext]_talkVars
<1>1. Next => TalkNext
  BY ProgramSteps DEF Next, TalkNext, Acts
<1>2. UNCHANGED programVars => UNCHANGED talkVars
  BY DEF programVars
<1> QED
  BY <1>1, <1>2

(* Whatever the arguments, and whatever server there is, the programs are in *)
(* a conversation with it (user.c:21-56).                                    *)
THEOREM ProgramConverses == Spec => TalkSpec
<1>1. Init => TalkInit
  BY DEF Init
<1> QED
  BY <1>1, ProgramTalks, PTL DEF Spec, TalkSpec

(* So of every pid at most one reply is logged for each process, and a      *)
(* process that shows the result of a request has logged it (user.c:142,199). *)
THEOREM ProgramLogsOneReply == Spec => []OneReplyLogged
BY ProgramConverses, OneReplyIsLogged, PTL

(* A FIFO without a process was left by one that could not write its         *)
(* request, with any arguments (user.c:172).                                 *)
THEOREM ProgramLeavesUnsent == Spec => []FifoLeftOnlyUnsent
BY ProgramConverses, FifosAreLeftUnsent, PTL

(* The reply a user is shown is the one to its request until a process with *)
(* its pid has timed out, with any arguments (user.c:182, fifoMaker.c:42).     *)
THEOREM ProgramShowsOwnAnswer == Spec => []OwnAnswer
BY ProgramConverses, AnswersAreOwn, PTL

(* The safety part of ImplementsSession: what a program shows tells whether *)
(* its request has been sent (user.c:151-219).  That it comes to its end is   *)
(* left to TLC.                                                              *)
THEOREM ProgramIsASession == Spec => Promise!Init /\ [][Promise!Next]_(Promise!sessionVars)
BY ProgramConverses, TalkIsASession, PTL

-----------------------------------------------------------------------------
(* Types *)

LEMMA CheckArgsTypes ==
  ASSUME ProgramTypeOK, NEW p \in Pids, CheckArgs(p)
  PROVE  ready' \in [Pids -> {<<>>} \union (UserRequest \X Delays)] /\ args' = args
<1>1. args[p] \in UserArgs /\ ready \in [Pids -> {<<>>} \union (UserRequest \X Delays)]
  BY DEF ProgramTypeOK
<1>2. CASE Accepted(args[p])
  <2>1. createRequest(p, args[p]) \in UserRequest /\ RequestDelay(args[p]) \in Delays
    BY <1>1, <1>2, RequestAsTyped
  <2>2. <<createRequest(p, args[p]), RequestDelay(args[p])>> \in UserRequest \X Delays
    BY <2>1
  <2> QED
    BY <1>1, <1>2, <2>2 DEF CheckArgs
<1>3. CASE ~ Accepted(args[p])
  BY <1>1, <1>3 DEF CheckArgs
<1> QED
  BY <1>2, <1>3

(* Each step keeps the types, of the arguments and of what is made of them  *)
(* too (user.c:225-301).                                                     *)
THEOREM ArgsTypesStep ==
  ASSUME ProgramTypeOK, TalkInv, [Next]_programVars
  PROVE  ProgramTypeOK'
<1> DEFINE Ready == {<<>>} \union (UserRequest \X Delays)
<1>1. args \in [Pids -> UserArgs] /\ ready \in [Pids -> Ready]
  BY DEF ProgramTypeOK
<1> HIDE DEF Ready
<1>2. ASSUME NEW p \in Pids, CheckArgs(p)
      PROVE  args' \in [Pids -> UserArgs] /\ ready' \in [Pids -> Ready]
  BY <1>1, <1>2, CheckArgsTypes DEF Ready
<1>3. ASSUME NEW p \in Pids, NextProcess(p)
      PROVE  args' \in [Pids -> UserArgs] /\ ready' \in [Pids -> Ready]
  <2>1. Len(past[p]) + 2 \in 1 .. MaxRuns
    BY <1>3, TagFacts, MaxRunsAssumption
       DEF NextProcess, Follow, Again, MaxRunsAssumption, ProgramTypeOK
  <2>2. ArgsOf(Len(past[p]) + 2) \subseteq UserArgs
    BY <2>1, UserProgramAssumption DEF UserProgramAssumption
  <2>3. args' \in [Pids -> UserArgs]
    BY <1>1, <1>3, <2>2 DEF NextProcess
  <2>4. ready' = [ready EXCEPT ![p] = <<>>] /\ <<>> \in Ready
    BY <1>3 DEF NextProcess, Ready
  <2> QED
    BY <1>1, <2>3, <2>4
<1>4. ASSUME UNCHANGED userVars
      PROVE  args' \in [Pids -> UserArgs] /\ ready' \in [Pids -> Ready]
  BY <1>1, <1>4 DEF userVars
<1>5. args' \in [Pids -> UserArgs] /\ ready' \in [Pids -> Ready]
  BY <1>1, <1>2, <1>3, <1>4 DEF Next, Program, programVars
<1>6. TalkTypeOK'
  BY ProgramTalks, TypesStep DEF ProgramTypeOK
<1> QED
  BY <1>5, <1>6 DEF ProgramTypeOK, Ready

(* Every variable has its type, whatever the arguments are (user.c:225-301). *)
THEOREM TypesAreRight == Spec => []ProgramTypeOK
<1>1. Init => ProgramTypeOK
  <2> SUFFICES ASSUME Init
               PROVE  ProgramTypeOK
    OBVIOUS
  <2>1. TalkTypeOK
    BY TypesInit DEF Init
  <2>2. ArgsOf(1) \subseteq UserArgs
    BY UserProgramAssumption, MaxRunsAssumption DEF UserProgramAssumption, MaxRunsAssumption
  <2> QED
    BY <2>1, <2>2 DEF Init, ProgramTypeOK
<1>2. ProgramTypeOK /\ TalkInv /\ [Next]_programVars => ProgramTypeOK'
  BY ArgsTypesStep
<1> QED
  BY <1>1, <1>2, TalkIsRight, ProgramConverses, PTL DEF Spec

-----------------------------------------------------------------------------
(* What is sent *)

(* What a step sends the server is the request as the user typed it          *)
(* (user.c:141, 172).                                                        *)
THEOREM SentStep ==
  ASSUME ProgramTypeOK, SentAsTyped, [Next]_programVars
  PROVE  SentAsTyped'
<1> SUFFICES ASSUME NEW q \in Pids, ready'[q] # <<>>
             PROVE  AsTyped(args'[q], ready'[q][1], ready'[q][2])
  BY DEF SentAsTyped
<1>1. args \in [Pids -> UserArgs] /\ ready \in [Pids -> {<<>>} \union (UserRequest \X Delays)]
  BY DEF ProgramTypeOK
<1>2. CASE args'[q] = args[q] /\ ready'[q] = ready[q]
  BY <1>2 DEF SentAsTyped
<1>3. ASSUME NEW p \in Pids, CheckArgs(p)
      PROVE  AsTyped(args'[q], ready'[q][1], ready'[q][2])
  <2>1. CASE q = p /\ Accepted(args[p])
    <3>1. /\ args' = args
          /\ ready'[q] = <<createRequest(p, args[p]), RequestDelay(args[p])>>
      BY <1>1, <1>3, <2>1 DEF CheckArgs
    <3>2. ready'[q][1] = createRequest(p, args[p]) /\ ready'[q][2] = RequestDelay(args[p])
      BY <3>1
    <3>3. AsTyped(args[p], createRequest(p, args[p]), RequestDelay(args[p]))
      BY <1>1, <2>1, RequestAsTyped
    <3> QED
      BY <2>1, <3>1, <3>2, <3>3
  <2>2. CASE ~ (q = p /\ Accepted(args[p]))
    BY <1>1, <1>2, <1>3, <2>2 DEF CheckArgs
  <2> QED
    BY <2>1, <2>2
<1>4. ASSUME NEW p \in Pids, Program(p), ~ CheckArgs(p)
      PROVE  args'[q] = args[q] /\ ready'[q] = ready[q]
  BY <1>4 DEF Program, userVars
<1>5. ASSUME NEW p \in Pids, NextProcess(p)
      PROVE  args'[q] = args[q] /\ ready'[q] = ready[q]
  <2>1. q # p
    BY <1>1, <1>5 DEF NextProcess
  <2> QED
    BY <1>1, <1>5, <2>1 DEF NextProcess
<1>6. CASE Server /\ UNCHANGED userVars
  BY <1>2, <1>6 DEF userVars
<1>7. CASE UNCHANGED programVars
  BY <1>2, <1>7 DEF programVars, userVars
<1> QED
  BY <1>2, <1>3, <1>4, <1>5, <1>6, <1>7 DEF Next, Program

(* What is sent is what was typed, for any arguments (user.c:225-301).      *)
THEOREM RequestsAreAsTyped == Spec => []SentAsTyped
<1>1. Init => SentAsTyped
  BY DEF Init, SentAsTyped
<1>2. ProgramTypeOK /\ SentAsTyped /\ [Next]_programVars => SentAsTyped'
  BY SentStep
<1> QED
  BY <1>1, <1>2, TypesAreRight, PTL DEF Spec
=============================================================================
