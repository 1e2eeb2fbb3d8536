-------------------------- MODULE BankOfficeProofs --------------------------
(***************************************************************************)
(* Proofs about BankOffice, for any number of users and offices, any queue *)
(* and any requests.                                                        *)
(*                                                                         *)
(* What an office does to the accounts is a step of Accounts, so that      *)
(* AccountsInv carries over.  The rest is about the bounded buffer and the *)
(* shutdown, which depend on each other: the semaphores tell that no       *)
(* request is on its way once the queue is empty, and that only offices    *)
(* that rest are cancelled tells that no place of the queue is lost.  The  *)
(* last part is about the replies.                                          *)
(***************************************************************************)
EXTENDS BankOffice, AccountsProofs

-----------------------------------------------------------------------------
(* The inductive invariant *)

(* Where an office has no request, and where it waits for one or is gone. *)
Requestless == {"start", "wait", "mark", "pop", "clear", "gone"}
Resting == {"start", "wait", "gone"}

(* What the main thread has read is a request of a user. *)
HandOK == main \in {"wait_empty", "push"} => inHand \in ClientCalls

(* An office is idle, or works, as its loop says. *)
LoopMatchesWork == \A o \in Offices : loop[o] \in Requestless => pc[o] = "idle"

(* An office between the taking of a request and the end of it is active. *)
BusyIsActive ==
  \A o \in Offices : loop[o] \notin Resting \union {"mark"} => active[o]

(* The main thread has seen the queue empty, then each office at rest, and *)
(* only then cancels them.                                                  *)
EndInOrder ==
  /\ main \in {"count", "cancel", "stopped"} => queue = <<>>
  /\ scanned # {} => main \in {"count", "cancel", "stopped", "crashed", "killed"}
  /\ main \in {"cancel", "stopped"} => scanned = Offices
  /\ cancelled # {} => main \in {"cancel", "stopped", "crashed", "killed"}
  /\ cancelled \subseteq scanned
  /\ \A o \in scanned : loop[o] \in Resting

OfficeInv ==
  /\ TypeOK /\ HandOK
  /\ SemaphoresMatchQueue
  /\ LoopMatchesWork /\ BusyIsActive /\ EndInOrder

-----------------------------------------------------------------------------
(* The steps of BankOffice as steps of Accounts *)

LEMMA OfficesCount == Cardinality(Offices) \in Nat
  BY AccountsAssumption, FS_CardinalityType DEF AccountsAssumption

LEMMA QueueHead ==
  ASSUME queue \in Seq(ClientCalls), queue # <<>>
  PROVE  /\ Head(queue) \in ClientCalls
         /\ Tail(queue) \in Seq(ClientCalls)
         /\ Len(queue) \in Nat \ {0}
         /\ Len(Tail(queue)) = Len(queue) - 1
  OBVIOUS

(* The steps in which a hash is made change nothing but the children, but   *)
(* for the one that kills the process.                                       *)
HashStep(o) == ForkHash(o) \/ LoseHash(o) \/ EndHash(o) \/ HashKills(o)

LEMMA HashStepChanges ==
  ASSUME NEW o \in Offices, HashStep(o)
  PROVE  /\ UNCHANGED <<accountVars, fifoVars, queueVars, officeVars, endVars, shutdownFD,
                        replyVars>>
         /\ Running /\ loop[o] = "manage" /\ Hashing(o)
         /\ main' = main \/ (HashKills(o) /\ main' = "killed")
  BY DEF HashStep, ForkHash, LoseHash, EndHash, HashKills, InHash, LoopAt

LEMMA OfficeIsOfficeStep ==
  ASSUME queue \in Seq(ClientCalls), NEW o \in Offices, Office(o)
  PROVE  OfficeStep(o) \/ UNCHANGED accountVars
<1>1. CASE PopRequest(o)
  BY <1>1, QueueHead DEF PopRequest, OfficeStep
<1>2. CASE Manage(o)
  BY <1>2 DEF Manage, OfficeStep
<1>3. CASE CountActive(o)
  <2>1. PICK n \in 1 .. Cardinality(Offices) : HandleShutdown(o, n)
    BY <1>3 DEF CountActive
  <2>2. n \in 0 .. Cardinality(Offices)
    BY OfficesCount
  <2> QED
    BY <2>1, <2>2 DEF OfficeStep
<1>4. CASE RefuseShutdown(o)
  <2>1. 0 \in 0 .. Cardinality(Offices)
    BY OfficesCount
  <2> QED
    BY <1>4, <2>1 DEF RefuseShutdown, OfficeStep
<1>5. CASE UserDown(o) \/ CloseReply(o)
  BY <1>5 DEF UserDown, CloseReply, OfficeStep
<1>6. CASE StartOffice(o) \/ WaitFull(o) \/ MarkActive(o) \/ PostEmpty(o) \/ ChmodFifo(o)
           \/ CloseFifo(o) \/ OpenReply(o) \/ WriteReply(o) \/ ClearActive(o) \/ Die(o)
  BY <1>6 DEF StartOffice, WaitFull, MarkActive, PostEmpty, ChmodFifo, CloseFifo, OpenReply,
              WriteReply, ClearActive, Die
<1>7. CASE HashStep(o)
  BY <1>7, HashStepChanges
<1> QED
  BY <1>1, <1>2, <1>3, <1>4, <1>5, <1>6, <1>7 DEF Office, HashStep

LEMMA UserKeepsAccounts ==
  ASSUME NEW p \in Pids, User(p)
  PROVE  UNCHANGED <<accountVars, main, queueVars, officeVars, endVars, childVars, shutdownFD,
                     replyVars>>
  BY DEF User, OpenServer, WriteRequest, CloseServer

LEMMA MainKeepsAccounts ==
  ASSUME Main, ~ Destroy
  PROVE  UNCHANGED accountVars
  BY DEF Main, MakeFifo, OpenRead, OpenWrite, ReadRequest, ReadEndOfFile, WaitEmpty,
         PushRequest, PostFull, SeeQueueEmpty, CheckOffice, CancelOffice

(* Only the destruction of the table is not a step of Accounts. *)
LEMMA AccountsStep ==
  ASSUME queue \in Seq(ClientCalls), [Next]_vars, ~ Destroy
  PROVE  [AccountsNext]_accountVars
<1>1. CASE UNCHANGED vars
  BY <1>1 DEF vars
<1>2. CASE \E p \in Pids : User(p)
  BY <1>2, UserKeepsAccounts
<1>3. CASE Main
  BY <1>3, MainKeepsAccounts
<1>4. CASE \E o \in Offices : Office(o)
  BY <1>4, OfficeIsOfficeStep DEF AccountsNext
<1> QED
  BY <1>1, <1>2, <1>3, <1>4 DEF Next

(* The table that is destroyed keeps the invariant: nobody uses it.        *)
LEMMA DestroyKeepsInv ==
  ASSUME AccountsInv, Destroy
  PROVE  AccountsInv'
<1> USE DEF AccountsInv
<1>1. AccountsTypeOK'
  BY DEF Destroy, AccountsTypeOK
<1>2. LocksMatchControl' /\ BalanceBounded'
  BY DEF Destroy, LocksMatchControl, BalanceBounded, Held, AccountsTypeOK
<1>3. ChecksStillHold'
  BY RequestFacts DEF Destroy, ChecksStillHold, AccountsTypeOK, At
<1> QED
  BY <1>1, <1>2, <1>3

LEMMA AccountsInvKept ==
  ASSUME queue \in Seq(ClientCalls), AccountsInv, [Next]_vars
  PROVE  AccountsInv'
  BY AccountsStep, DestroyKeepsInv, InvInductive

-----------------------------------------------------------------------------
(* Initial states *)

LEMMA CallsAreRequests == ClientCalls \subseteq ClientRequests
  BY AccountsAssumption DEF AccountsAssumption

LEMMA OfficeInvInit == Init => AccountsInv /\ OfficeInv
<1> SUFFICES ASSUME Init PROVE AccountsInv /\ OfficeInv
  OBVIOUS
<1>1. AccountsInv
  BY InitInv DEF Init
<1>2. TypeOK
  BY <1>1, NoRequestType, BankOfficeAssumption
     DEF Init, TypeOK, AccountsInv, UserPCs, MainPCs, LoopPCs, ChildStates, BankOfficeAssumption
<1>3. SemaphoresMatchQueue
  <2>1. \A o \in Offices : loop[o] = "start"
    BY DEF Init
  <2>2. /\ {o \in Offices : loop[o] \in {"post_empty"}} = {}
        /\ {o \in Offices : loop[o] \in {"mark", "pop"}} = {}
    BY <2>1
  <2>3. Count({"post_empty"}) = 0 /\ Count({"mark", "pop"}) = 0
    BY <2>2, FS_EmptySet DEF Count
  <2> QED
    BY <2>3, BankOfficeAssumption DEF Init, SemaphoresMatchQueue, One, BankOfficeAssumption
<1>4. HandOK /\ LoopMatchesWork /\ BusyIsActive /\ EndInOrder
  BY DEF Init, AccountsInit, HandOK, LoopMatchesWork, BusyIsActive, EndInOrder, Requestless,
         Resting
<1> QED
  BY <1>1, <1>2, <1>3, <1>4 DEF OfficeInv

-----------------------------------------------------------------------------
(* Types.  The state of the offices and the accounts is AccountsInv's.     *)

LEMMA UserTypes ==
  ASSUME TypeOK, Next
  PROVE  /\ user' \in [Pids -> UserPCs] /\ call' \in [Pids -> ClientCalls]
         /\ fifo' \in Seq(ClientCalls) /\ writable' \in BOOLEAN
<1> USE DEF TypeOK
<1>1. CASE \E p \in Pids : User(p)
  <2> SUFFICES ASSUME NEW p \in Pids, User(p)
               PROVE  /\ user' \in [Pids -> UserPCs] /\ fifo' \in Seq(ClientCalls)
                      /\ UNCHANGED <<call, writable>>
    BY <1>1
  <2>1. CASE WriteRequest(p)
    <3>1. Append(fifo, call[p]) \in Seq(ClientCalls)
      OBVIOUS
    <3> QED
      BY <2>1, <3>1 DEF WriteRequest, UserStep, UserPCs
  <2>2. CASE OpenServer(p) \/ CloseServer(p)
    BY <2>2 DEF OpenServer, CloseServer, UserStep, UserPCs
  <2> QED
    BY <2>1, <2>2 DEF User
<1>2. CASE Main
  <2>1. CASE ReadRequest
    <3>1. Tail(fifo) \in Seq(ClientCalls)
      BY <2>1 DEF ReadRequest
    <3> QED
      BY <2>1, <3>1 DEF ReadRequest
  <2>2. CASE ~ ReadRequest
    BY <1>2, <2>2
       DEF Main, MakeFifo, OpenRead, OpenWrite, ReadEndOfFile, WaitEmpty, PushRequest, PostFull,
           SeeQueueEmpty, CheckOffice, CancelOffice, Destroy, fifoVars
  <2> QED
    BY <2>1, <2>2
<1>3. ASSUME NEW o \in Offices, Office(o)
      PROVE  UNCHANGED <<user, call, fifo>> /\ writable' \in BOOLEAN
  BY <1>3 DEF Office, StartOffice, WaitFull, MarkActive, PopRequest, PostEmpty, Manage,
              ForkHash, LoseHash, EndHash, HashKills, InHash, ChmodFifo, CloseFifo, CountActive,
              RefuseShutdown, OpenReply, UserDown, WriteReply, CloseReply, ClearActive, Die,
              fifoVars
<1> QED
  BY <1>1, <1>2, <1>3 DEF Next

LEMMA MainTypes ==
  ASSUME TypeOK, HandOK, Next
  PROVE  /\ main' \in MainPCs /\ inHand' \in ClientRequests
         /\ queue' \in Seq(ClientCalls) /\ emptySem' \in Nat /\ fullSem' \in Nat
         /\ HandOK'
         /\ scanned' \subseteq Offices /\ cancelled' \subseteq Offices
<1> USE DEF TypeOK, HandOK
<1>1. CASE \E p \in Pids : User(p)
  BY <1>1, UserKeepsAccounts DEF queueVars, endVars
<1>2. CASE Main
  <2>1. CASE ReadRequest
    <3>1. Head(fifo) \in ClientCalls
      BY <2>1 DEF ReadRequest
    <3> QED
      BY <2>1, <3>1, CallsAreRequests DEF ReadRequest, MainStep, MainPCs, endVars
  <2>2. CASE PushRequest
    BY <2>2, NoRequestType DEF PushRequest, MainStep, MainPCs, endVars
  <2>3. CASE WaitEmpty \/ PostFull
    BY <2>3 DEF WaitEmpty, PostFull, MainStep, MainPCs, endVars
  <2>4. CASE MakeFifo \/ OpenRead \/ OpenWrite \/ ReadEndOfFile \/ SeeQueueEmpty \/ Destroy
    BY <2>4 DEF MakeFifo, OpenRead, OpenWrite, ReadEndOfFile, SeeQueueEmpty, Destroy, MainStep,
                MainPCs, queueVars, endVars
  <2>5. CASE \E o \in Offices : CheckOffice(o) \/ CancelOffice(o)
    BY <2>5 DEF CheckOffice, CancelOffice, MainPCs, queueVars
  <2> QED
    BY <1>2, <2>1, <2>2, <2>3, <2>4, <2>5 DEF Main
<1>3. ASSUME NEW o \in Offices, Office(o)
      PROVE  /\ UNCHANGED <<inHand, endVars>> /\ main' \in {main, "crashed", "killed"}
             /\ queue' \in Seq(ClientCalls) /\ emptySem' \in Nat /\ fullSem' \in Nat
  <2>1. CASE PopRequest(o)
    BY <2>1, QueueHead DEF PopRequest
  <2>2. CASE WaitFull(o) \/ PostEmpty(o)
    BY <2>2 DEF WaitFull, PostEmpty
  <2>3. CASE Manage(o) \/ StartOffice(o) \/ MarkActive(o) \/ ChmodFifo(o) \/ CloseFifo(o)
             \/ CountActive(o) \/ RefuseShutdown(o) \/ OpenReply(o) \/ UserDown(o)
             \/ WriteReply(o) \/ CloseReply(o) \/ ClearActive(o) \/ Die(o)
    BY <2>3 DEF Manage, StartOffice, MarkActive, ChmodFifo, CloseFifo, CountActive,
                RefuseShutdown, OpenReply, UserDown, WriteReply, CloseReply, ClearActive, Die,
                queueVars, endVars
  <2>4. CASE HashStep(o)
    BY <2>4, HashStepChanges DEF queueVars, endVars
  <2> QED
    BY <1>3, <2>1, <2>2, <2>3, <2>4 DEF Office, HashStep
<1> QED
  BY <1>1, <1>2, <1>3 DEF Next, MainPCs, endVars

LEMMA RequestPid == \A r \in ClientRequests : r.pid \in Pids
  BY DEF ClientRequests, Request

LEMMA OfficeTypes ==
  ASSUME TypeOK, Next
  PROVE  /\ loop' \in [Offices -> LoopPCs] /\ active' \in [Offices -> BOOLEAN]
         /\ shutdownFD' \in {"none", "server_fifo", "free"} \union Pids
         /\ replyFD' \in [Offices -> {"none", "own", "shutdown_fd"}]
         /\ inbox' \in [Pids -> SUBSET Pids] /\ served' \subseteq Pids
<1> USE DEF TypeOK
<1>1. CASE \E p \in Pids : User(p)
  BY <1>1, UserKeepsAccounts DEF officeVars, replyVars
<1>2. CASE Main
  BY <1>2 DEF Main, MakeFifo, OpenRead, OpenWrite, ReadRequest, ReadEndOfFile, WaitEmpty,
              PushRequest, PostFull, SeeQueueEmpty, CheckOffice, CancelOffice, Destroy,
              officeVars, replyVars
<1>3. ASSUME NEW o \in Offices, Office(o)
      PROVE  /\ loop' \in [Offices -> LoopPCs] /\ active' \in [Offices -> BOOLEAN]
             /\ shutdownFD' \in {"none", "server_fifo", "free"} \union Pids
             /\ replyFD' \in [Offices -> {"none", "own", "shutdown_fd"}]
             /\ inbox' \in [Pids -> SUBSET Pids] /\ served' \subseteq Pids
  <2>1. req[o].pid \in Pids
    BY RequestPid DEF AccountsTypeOK
  <2>2. CASE StartOffice(o) \/ WaitFull(o) \/ MarkActive(o) \/ PopRequest(o) \/ PostEmpty(o)
             \/ Manage(o) \/ ClearActive(o) \/ Die(o)
    <3>1. loop \in [Offices -> LoopPCs] /\ active \in [Offices -> BOOLEAN]
      OBVIOUS
    <3>2. /\ loop' \in [Offices -> LoopPCs] /\ active' \in [Offices -> BOOLEAN]
          /\ UNCHANGED <<shutdownFD, replyVars>>
      <4> HIDE DEF TypeOK
      <4>1. CASE StartOffice(o) \/ WaitFull(o) \/ MarkActive(o) \/ ClearActive(o) \/ Die(o)
        BY <3>1, <4>1 DEF StartOffice, WaitFull, MarkActive, ClearActive, Die, LoopStep, LoopPCs
      <4>2. CASE PopRequest(o) \/ PostEmpty(o) \/ Manage(o)
        BY <3>1, <4>2 DEF PopRequest, PostEmpty, Manage, LoopStep, LoopPCs, officeVars
      <4> QED
        BY <2>2, <4>1, <4>2
    <3> QED
      BY <3>2 DEF replyVars
  <2>3. CASE ChmodFifo(o) \/ CloseFifo(o) \/ CountActive(o) \/ RefuseShutdown(o)
    BY <2>3 DEF ChmodFifo, CloseFifo, CountActive, RefuseShutdown, LoopStep, LoopPCs, officeVars,
                replyVars
  <2>4. CASE OpenReply(o)
    BY <2>1, <2>4 DEF OpenReply, LoopStep, LoopPCs
  <2>5. CASE WriteReply(o)
    BY <2>1, <2>5 DEF WriteReply, LoopStep, LoopPCs
  <2>6. CASE UserDown(o) \/ CloseReply(o)
    BY <2>1, <2>6 DEF UserDown, CloseReply, LoopStep, LoopPCs
  <2>7. CASE HashStep(o)
    BY <2>7, HashStepChanges DEF officeVars, replyVars
  <2> QED
    BY <1>3, <2>2, <2>3, <2>4, <2>5, <2>6, <2>7 DEF Office, HashStep
<1> QED
  BY <1>1, <1>2, <1>3 DEF Next

LEMMA ChildTypes ==
  ASSUME TypeOK, Next
  PROVE  /\ child' \in [Offices -> ChildStates]
         /\ holds' \in [Offices -> SUBSET (Offices \union {"server_fifo"})]
<1> USE DEF TypeOK
<1>1. CASE \E p \in Pids : User(p)
  BY <1>1, UserKeepsAccounts DEF childVars
<1>2. CASE Main
  BY <1>2 DEF Main, MakeFifo, OpenRead, OpenWrite, ReadRequest, ReadEndOfFile, WaitEmpty,
              PushRequest, PostFull, SeeQueueEmpty, CheckOffice, CancelOffice, Destroy, childVars
<1>3. ASSUME NEW o \in Offices, Office(o)
      PROVE  /\ child' \in [Offices -> ChildStates]
             /\ holds' \in [Offices -> SUBSET (Offices \union {"server_fifo"})]
  <2>1. CASE ForkHash(o)
    <3>1. PICK pipes \in SUBSET OpenPipes(o) :
            holds' = [holds EXCEPT ![o] = pipes \union ({shutdownFD} \intersect {"server_fifo"})]
      BY <2>1 DEF ForkHash
    <3>2. pipes \subseteq Offices
      BY DEF OpenPipes
    <3> QED
      BY <2>1, <3>1, <3>2 DEF ForkHash, ChildStates
  <2>2. CASE LoseHash(o) \/ EndHash(o) \/ Manage(o)
    BY <2>2 DEF LoseHash, EndHash, Manage, HashReturns, ChildStates
  <2>3. CASE ~ ForkHash(o) /\ ~ LoseHash(o) /\ ~ EndHash(o) /\ ~ Manage(o)
    BY <1>3, <2>3
       DEF Office, StartOffice, WaitFull, MarkActive, PopRequest, PostEmpty, HashKills, ChmodFifo,
           CloseFifo, CountActive, RefuseShutdown, OpenReply, UserDown, WriteReply, CloseReply,
           ClearActive, Die, childVars
  <2> QED
    BY <2>1, <2>2, <2>3
<1> QED
  BY <1>1, <1>2, <1>3 DEF Next

LEMMA TypesKept ==
  ASSUME AccountsInv, TypeOK, HandOK, [Next]_vars
  PROVE  TypeOK' /\ HandOK'
<1>1. CASE Next
  <2>1. AccountsTypeOK'
    BY AccountsInvKept DEF TypeOK, AccountsInv
  <2> QED
    BY <1>1, <2>1, UserTypes, MainTypes, OfficeTypes, ChildTypes DEF TypeOK
<1>2. CASE UNCHANGED vars
  BY <1>2 DEF vars, accountVars, tableVars, fifoVars, queueVars, officeVars, endVars, childVars,
              replyVars, TypeOK, AccountsTypeOK, HandOK
<1> QED
  BY <1>1, <1>2

-----------------------------------------------------------------------------
(* The control of the offices *)

(* What a step of an office does to where it is, to its flag and to its    *)
(* request: it moves only itself, and only along the loop.                  *)
LEMMA LoopStepKeepsOthers ==
  ASSUME TypeOK, NEW o \in Offices, Office(o), NEW q \in Offices, q # o
  PROVE  loop'[q] = loop[q] /\ active'[q] = active[q] /\ pc'[q] = pc[q]
<1>1. loop'[q] = loop[q] /\ active'[q] = active[q]
  BY DEF Office, StartOffice, WaitFull, MarkActive, PopRequest, PostEmpty, Manage, ForkHash,
         LoseHash, EndHash, HashKills, InHash, ChmodFifo, CloseFifo, CountActive,
         RefuseShutdown, OpenReply, UserDown, WriteReply, CloseReply, ClearActive, Die,
         LoopStep, officeVars, TypeOK
<1>2. pc'[q] = pc[q]
  <2>1. OfficeStep(o) \/ UNCHANGED accountVars
    BY OfficeIsOfficeStep DEF TypeOK
  <2>2. CASE OfficeStep(o)
    BY <2>2 DEF OfficeStep, Work, Take, LockHeader, Validate, UnlockHeader, LockLow, LockHigh,
         HandleCreate, CreateAccount, RefuseWith, HandleBalance, HandleTransfer, Debit, Credit,
         HandleShutdown, UnlockHigh, UnlockLow, Finish, Goto, TypeOK, AccountsTypeOK
  <2> QED
    BY <2>1, <2>2 DEF accountVars
<1> QED
  BY <1>1, <1>2

LEMMA MainKeepsLoops ==
  ASSUME Main
  PROVE  UNCHANGED <<officeVars, pc, req>>
  BY DEF Main, MakeFifo, OpenRead, OpenWrite, ReadRequest, ReadEndOfFile, WaitEmpty,
         PushRequest, PostFull, SeeQueueEmpty, CheckOffice, CancelOffice, Destroy, accountVars

LEMMA LoopsKept ==
  ASSUME TypeOK, LoopMatchesWork, BusyIsActive, EndInOrder, Next
  PROVE  LoopMatchesWork' /\ BusyIsActive'
<1> USE DEF LoopMatchesWork, BusyIsActive, Requestless, Resting
<1>1. CASE \E p \in Pids : User(p)
  BY <1>1, UserKeepsAccounts DEF officeVars, accountVars
<1>2. CASE Main
  BY <1>2, MainKeepsLoops DEF officeVars
<1>3. ASSUME NEW o \in Offices, Office(o)
      PROVE  /\ loop'[o] \in Requestless => pc'[o] = "idle"
             /\ loop'[o] \notin Resting \union {"mark"} => active'[o]
  <2>0. /\ loop \in [Offices -> LoopPCs] /\ active \in [Offices -> BOOLEAN]
        /\ pc \in [Offices -> PCs]
    BY DEF TypeOK, AccountsTypeOK
  <2>1. CASE StartOffice(o) \/ WaitFull(o) \/ MarkActive(o) \/ ClearActive(o)
    BY <2>0, <2>1 DEF StartOffice, WaitFull, MarkActive, ClearActive, LoopStep, LoopAt, accountVars
  <2>2. CASE PopRequest(o)
    BY <2>0, <2>2 DEF PopRequest, LoopStep, LoopAt
  <2>3. CASE PostEmpty(o) \/ ChmodFifo(o) \/ CloseFifo(o) \/ CountActive(o) \/ OpenReply(o)
             \/ WriteReply(o)
    BY <2>0, <2>3
       DEF PostEmpty, ChmodFifo, CloseFifo, CountActive, OpenReply, WriteReply, LoopStep, LoopAt
  <2>4. CASE Manage(o) \/ RefuseShutdown(o)
    BY <2>4 DEF Manage, RefuseShutdown, LoopAt, officeVars
  <2>5. CASE UserDown(o) \/ CloseReply(o)
    BY <2>0, <2>5 DEF UserDown, CloseReply, LoopStep, LoopAt, Finish, Goto
  <2>6. CASE Die(o)
    BY <2>0, <2>6 DEF Die, EndInOrder, accountVars
  <2>7. CASE HashStep(o)
    BY <2>7, HashStepChanges DEF accountVars, officeVars
  <2> QED
    BY <1>3, <2>1, <2>2, <2>3, <2>4, <2>5, <2>6, <2>7 DEF Office, HashStep
<1>4. ASSUME NEW o \in Offices, Office(o) PROVE LoopMatchesWork' /\ BusyIsActive'
  BY <1>3, <1>4, LoopStepKeepsOthers
<1> QED
  BY <1>1, <1>2, <1>4 DEF Next

-----------------------------------------------------------------------------
(* The semaphores *)

LEMMA CountIsNat == \A L : Count(L) \in Nat
<1> TAKE L
<1>1. IsFiniteSet({o \in Offices : loop[o] \in L})
  BY AccountsAssumption, FS_Subset DEF AccountsAssumption
<1> QED
  BY <1>1, FS_CardinalityType DEF Count

(* An office that goes from one place of its loop to another counts for    *)
(* the one no more and for the other from then on.                          *)
LEMMA CountStep ==
  ASSUME NEW o \in Offices, loop \in [Offices -> LoopPCs], NEW to,
         loop' = [loop EXCEPT ![o] = to], NEW L
  PROVE  Count(L)' = Count(L) + One(to \in L) - One(loop[o] \in L)
<1> DEFINE at == {q \in Offices : loop[q] \in L}
           then == {q \in Offices : loop'[q] \in L}
<1>1. IsFiniteSet(at) /\ Cardinality(at) \in Nat
  BY AccountsAssumption, FS_Subset, FS_CardinalityType DEF AccountsAssumption
<1>2. Count(L) = Cardinality(at) /\ Count(L)' = Cardinality(then)
  BY DEF Count
<1>3. CASE to \in L /\ loop[o] \notin L
  <2>1. then = at \union {o} /\ o \notin at
    BY <1>3
  <2>2. Cardinality(then) = Cardinality(at) + 1
    BY <1>1, <2>1, FS_AddElement
  <2>3. One(to \in L) = 1 /\ One(loop[o] \in L) = 0
    BY <1>3 DEF One
  <2> QED
    BY <1>1, <1>2, <2>2, <2>3
<1>4. CASE to \notin L /\ loop[o] \in L
  <2>1. then = at \ {o} /\ o \in at
    BY <1>4
  <2> HIDE DEF at, then
  <2>2. Cardinality(at \ {o}) = Cardinality(at) - 1
    BY <1>1, <2>1, FS_RemoveElement
  <2>3. One(to \in L) = 0 /\ One(loop[o] \in L) = 1
    BY <1>4 DEF One
  <2> QED
    BY <1>1, <1>2, <2>1, <2>2, <2>3
<1>5. CASE to \in L <=> loop[o] \in L
  <2>1. then = at
    BY <1>5
  <2>2. One(to \in L) = One(loop[o] \in L) /\ One(to \in L) \in Nat
    BY <1>5 DEF One
  <2> QED
    BY <1>1, <1>2, <2>1, <2>2
<1> QED
  BY <1>3, <1>4, <1>5

LEMMA CountsMove ==
  ASSUME loop \in [Offices -> LoopPCs],
         NEW o \in Offices, NEW from \in LoopPCs, NEW to \in LoopPCs, LoopStep(o, from, to)
  PROVE  /\ Count({"post_empty"})'
              = Count({"post_empty"}) + One(to = "post_empty") - One(from = "post_empty")
         /\ Count({"mark", "pop"})'
              = Count({"mark", "pop"}) + One(to \in {"mark", "pop"}) - One(from \in {"mark", "pop"})
<1>1. loop' = [loop EXCEPT ![o] = to] /\ loop[o] = from
  BY DEF LoopStep, LoopAt
<1>2. Count({"post_empty"})'
        = Count({"post_empty"}) + One(to \in {"post_empty"}) - One(loop[o] \in {"post_empty"})
  BY <1>1, CountStep
<1>3. Count({"mark", "pop"})'
        = Count({"mark", "pop"}) + One(to \in {"mark", "pop"}) - One(loop[o] \in {"mark", "pop"})
  BY <1>1, CountStep
<1> QED
  BY <1>1, <1>2, <1>3 DEF One

LEMMA CountSame ==
  ASSUME UNCHANGED loop
  PROVE  \A L : Count(L)' = Count(L)
  BY DEF Count

LEMMA QueueLength == queue \in Seq(ClientCalls) => Len(queue) \in Nat
  OBVIOUS

LEMMA SemaphoresWithMain ==
  ASSUME TypeOK, SemaphoresMatchQueue, HandOK, Main
  PROVE  SemaphoresMatchQueue'
<1> USE DEF SemaphoresMatchQueue, TypeOK, Running, One
<1>1. /\ Count({"post_empty"})' = Count({"post_empty"})
      /\ Count({"mark", "pop"})' = Count({"mark", "pop"})
  BY MainKeepsLoops, CountSame DEF officeVars
<1>2. /\ Count({"post_empty"}) \in Nat /\ Count({"mark", "pop"}) \in Nat
      /\ Len(queue) \in Nat /\ BUFFER_SIZE \in Nat
  BY CountIsNat, QueueLength, BankOfficeAssumption DEF BankOfficeAssumption
<1>3. CASE WaitEmpty
  BY <1>1, <1>2, <1>3 DEF WaitEmpty, MainStep
<1>4. CASE PushRequest
  <2>1. Len(Append(queue, inHand)) = Len(queue) + 1
    BY <1>4 DEF PushRequest, MainStep, HandOK
  <2>2. /\ Len(queue') = Len(queue) + 1 /\ main = "push" /\ main' = "post_full"
        /\ emptySem' = emptySem /\ fullSem' = fullSem
    BY <1>4, <2>1 DEF PushRequest, MainStep
  <2>3. /\ emptySem + Len(queue) + 1 + Count({"post_empty"}) = BUFFER_SIZE
        /\ fullSem + 0 + Count({"mark", "pop"}) = Len(queue)
    BY <2>2
  <2>4. /\ emptySem' + Len(queue') + 0 + Count({"post_empty"})' = BUFFER_SIZE
        /\ fullSem' + 1 + Count({"mark", "pop"})' = Len(queue')
    <3> HIDE DEF TypeOK, SemaphoresMatchQueue
    <3>1. emptySem \in Nat /\ fullSem \in Nat
      BY DEF TypeOK
    <3> QED
      BY <1>1, <1>2, <2>2, <2>3, <3>1
  <2> QED
    BY <2>2, <2>4
<1>5. CASE PostFull
  BY <1>1, <1>2, <1>5 DEF PostFull, MainStep
<1>6. CASE MakeFifo \/ OpenRead \/ OpenWrite \/ ReadRequest \/ ReadEndOfFile \/ SeeQueueEmpty
           \/ Destroy
  BY <1>1, <1>2, <1>6 DEF MakeFifo, OpenRead, OpenWrite, ReadRequest, ReadEndOfFile,
                         SeeQueueEmpty, Destroy, MainStep, queueVars
<1>7. CASE \E o \in Offices : CheckOffice(o) \/ CancelOffice(o)
  BY <1>1, <1>2, <1>7 DEF CheckOffice, CancelOffice, queueVars
<1> QED
  BY <1>3, <1>4, <1>5, <1>6, <1>7 DEF Main

LEMMA SemaphoresWithOffice ==
  ASSUME TypeOK, SemaphoresMatchQueue, EndInOrder, NEW o \in Offices, Office(o)
  PROVE  SemaphoresMatchQueue'
<1> USE DEF SemaphoresMatchQueue, TypeOK, Running, One
<1> SUFFICES ASSUME Running'
             PROVE  /\ emptySem' + Len(queue') + One(main' = "push") + Count({"post_empty"})'
                         = BUFFER_SIZE
                    /\ fullSem' + One(main' = "post_full") + Count({"mark", "pop"})' = Len(queue')
  OBVIOUS
<1>1. Running /\ main' = main
  BY DEF Office, StartOffice, WaitFull, MarkActive, PopRequest, PostEmpty, Manage, ForkHash,
         LoseHash, EndHash, HashKills, InHash, ChmodFifo, CloseFifo, CountActive,
         RefuseShutdown, OpenReply, UserDown, WriteReply, CloseReply, ClearActive, Die,
         LoopStep, LoopAt
<1>2. /\ Count({"post_empty"}) \in Nat /\ Count({"mark", "pop"}) \in Nat
      /\ Len(queue) \in Nat /\ BUFFER_SIZE \in Nat
  BY CountIsNat, QueueLength, BankOfficeAssumption DEF BankOfficeAssumption
<1>3. /\ One(main' = "push") = One(main = "push")
      /\ One(main' = "post_full") = One(main = "post_full")
      /\ One(main = "push") \in Nat /\ One(main = "post_full") \in Nat
  BY <1>1
<1>4. CASE WaitFull(o)
  <2>1. /\ Count({"post_empty"})' = Count({"post_empty"})
        /\ Count({"mark", "pop"})' = Count({"mark", "pop"}) + 1
    BY <1>2, <1>4, CountsMove DEF WaitFull, LoopPCs
  <2> QED
    BY <1>1, <1>2, <1>4, <2>1 DEF WaitFull
<1>5. CASE PopRequest(o)
  <2>1. LoopStep(o, "pop", "post_empty")
    BY <1>5 DEF PopRequest
  <2>2. /\ Count({"post_empty"})' = Count({"post_empty"}) + 1
        /\ Count({"mark", "pop"})' = Count({"mark", "pop"}) - 1
    BY <1>2, <2>1, CountsMove DEF LoopPCs
  <2>3. Len(queue') = Len(queue) - 1 /\ emptySem' = emptySem /\ fullSem' = fullSem
    BY <1>5, QueueHead DEF PopRequest
  <2> HIDE DEF TypeOK, SemaphoresMatchQueue
  <2>4. /\ emptySem \in Nat /\ fullSem \in Nat
    BY DEF TypeOK
  <2>5. /\ emptySem + Len(queue) + One(main = "push") + Count({"post_empty"}) = BUFFER_SIZE
        /\ fullSem + One(main = "post_full") + Count({"mark", "pop"}) = Len(queue)
    BY <1>1 DEF SemaphoresMatchQueue
  <2> HIDE DEF One, Running
  <2>6. emptySem' + Len(queue') + One(main' = "push") + Count({"post_empty"})' = BUFFER_SIZE
    BY <1>3, <1>2, <2>2, <2>3, <2>4, <2>5
  <2>7. fullSem' + One(main' = "post_full") + Count({"mark", "pop"})' = Len(queue')
    <3>1. fullSem + One(main = "post_full") + (Count({"mark", "pop"}) - 1) = Len(queue) - 1
      BY <1>2, <1>3, <2>4, <2>5
    <3> QED
      BY <1>3, <2>2, <2>3, <3>1
  <2> QED
    BY <2>6, <2>7
<1>6. CASE PostEmpty(o)
  <2>1. /\ Count({"post_empty"})' = Count({"post_empty"}) - 1
        /\ Count({"mark", "pop"})' = Count({"mark", "pop"})
    <3>1. LoopStep(o, "post_empty", "manage")
      BY <1>6 DEF PostEmpty
    <3> QED
      BY <1>2, <3>1, CountsMove DEF LoopPCs
  <2>2. emptySem' = emptySem + 1 /\ fullSem' = fullSem /\ queue' = queue
    BY <1>6 DEF PostEmpty
  <2> HIDE DEF TypeOK, SemaphoresMatchQueue
  <2>3. /\ emptySem \in Nat /\ fullSem \in Nat
    BY DEF TypeOK
  <2>4. /\ emptySem + Len(queue) + One(main = "push") + Count({"post_empty"}) = BUFFER_SIZE
        /\ fullSem + One(main = "post_full") + Count({"mark", "pop"}) = Len(queue)
    BY <1>1 DEF SemaphoresMatchQueue
  <2> HIDE DEF One, Running
  <2> QED
    BY <1>3, <1>2, <2>1, <2>2, <2>3, <2>4
<1>7. CASE ~ (WaitFull(o) \/ PopRequest(o) \/ PostEmpty(o))
  <2>1. UNCHANGED queueVars
    BY <1>7 DEF Office, StartOffice, MarkActive, Manage, ForkHash, LoseHash, EndHash, HashKills,
                InHash, ChmodFifo, CloseFifo, CountActive, RefuseShutdown, OpenReply, UserDown,
                WriteReply, CloseReply, ClearActive, Die
  <2>2. /\ Count({"post_empty"})' = Count({"post_empty"})
        /\ Count({"mark", "pop"})' = Count({"mark", "pop"})
    <3>1. CASE MarkActive(o)
      BY <1>2, <3>1, CountsMove DEF MarkActive, LoopPCs
    <3>2. CASE StartOffice(o)
      BY <1>2, <3>2, CountsMove DEF StartOffice, LoopPCs
    <3>3. CASE ClearActive(o)
      BY <1>2, <3>3, CountsMove DEF ClearActive, LoopPCs
    <3>4. CASE Die(o)
      <4>1. loop[o] \notin {"post_empty", "mark", "pop"}
        BY <3>4 DEF Die, EndInOrder, Resting
      <4> QED
        <5>1. loop \in [Offices -> LoopPCs] /\ loop' = [loop EXCEPT ![o] = "gone"]
          BY <3>4 DEF Die
        <5> HIDE DEF One, TypeOK
        <5>2. Count({"post_empty"})'
                = Count({"post_empty"}) + One("gone" \in {"post_empty"})
                  - One(loop[o] \in {"post_empty"})
          BY <5>1, CountStep
        <5>3. Count({"mark", "pop"})'
                = Count({"mark", "pop"}) + One("gone" \in {"mark", "pop"})
                  - One(loop[o] \in {"mark", "pop"})
          BY <5>1, CountStep
        <5> QED
          BY <1>2, <4>1, <5>2, <5>3 DEF One
    <3>5. CASE Manage(o) \/ RefuseShutdown(o)
      BY <3>5, CountSame DEF Manage, RefuseShutdown, officeVars
    <3>8. CASE HashStep(o)
      BY <3>8, CountSame, HashStepChanges DEF officeVars
    <3>6. ASSUME NEW from \in LoopPCs \ {"post_empty", "mark", "pop"},
                 NEW to \in LoopPCs \ {"post_empty", "mark", "pop"}, LoopStep(o, from, to)
          PROVE  /\ Count({"post_empty"})' = Count({"post_empty"})
                 /\ Count({"mark", "pop"})' = Count({"mark", "pop"})
      BY <1>2, <3>6, CountsMove
    <3>7. CASE ChmodFifo(o) \/ CloseFifo(o) \/ CountActive(o) \/ OpenReply(o) \/ UserDown(o)
               \/ WriteReply(o) \/ CloseReply(o)
      BY <3>6, <3>7 DEF ChmodFifo, CloseFifo, CountActive, OpenReply, UserDown, WriteReply,
                        CloseReply, LoopPCs
    <3> QED
      BY <1>7, <3>1, <3>2, <3>3, <3>4, <3>5, <3>7, <3>8 DEF Office, HashStep
  <2> QED
    BY <1>1, <1>2, <2>1, <2>2 DEF queueVars
<1> QED
  BY <1>4, <1>5, <1>6, <1>7

-----------------------------------------------------------------------------
(* The end of the server *)

(* With the queue empty, no office is about to take a request and none can *)
(* come to be.                                                              *)
LEMMA EmptyQueueNobodyComes ==
  ASSUME TypeOK, SemaphoresMatchQueue, Running, queue = <<>>
  PROVE  fullSem = 0 /\ \A o \in Offices : loop[o] \notin {"mark", "pop"}
<1> DEFINE coming == {o \in Offices : loop[o] \in {"mark", "pop"}}
<1>1. IsFiniteSet(coming)
  BY AccountsAssumption, FS_Subset DEF AccountsAssumption
<1>2. Count({"mark", "pop"}) \in Nat
  BY CountIsNat
<1>3. fullSem \in Nat /\ One(main = "post_full") \in Nat /\ Len(queue) = 0
  BY DEF TypeOK, One
<1>4. fullSem + One(main = "post_full") + Count({"mark", "pop"}) = 0
  BY <1>3 DEF SemaphoresMatchQueue
<1>5. fullSem = 0 /\ Count({"mark", "pop"}) = 0
  BY <1>2, <1>3, <1>4
<1>6. coming = {}
  BY <1>1, <1>5, FS_EmptySet DEF Count
<1> QED
  BY <1>5, <1>6

LEMMA EndWithMain ==
  ASSUME TypeOK, SemaphoresMatchQueue, BusyIsActive, EndInOrder, Main
  PROVE  EndInOrder'
<1> USE DEF EndInOrder, TypeOK
<1>1. UNCHANGED loop
  BY MainKeepsLoops DEF officeVars
<1>2. CASE \E o \in Offices : CheckOffice(o)
  <2>1. PICK o \in Offices : CheckOffice(o)
    BY <1>2
  <2>2. loop[o] \notin {"mark", "pop"}
    BY <2>1, EmptyQueueNobodyComes DEF CheckOffice, Running
  <2>3. ~ active[o] => loop[o] \in Resting
    BY <2>2 DEF BusyIsActive
  <2>4. \A q \in scanned' : loop'[q] \in Resting
    BY <1>1, <2>1, <2>3 DEF CheckOffice
  <2>5. cancelled = {}
    BY <2>1 DEF CheckOffice
  <2> QED
    BY <2>1, <2>4, <2>5 DEF CheckOffice, queueVars
<1>3. CASE \E o \in Offices : CancelOffice(o)
  BY <1>1, <1>3 DEF CancelOffice, queueVars
<1>4. CASE PushRequest
  BY <1>1, <1>4 DEF PushRequest, MainStep, endVars
<1>5. CASE SeeQueueEmpty \/ Destroy
  BY <1>1, <1>5 DEF SeeQueueEmpty, Destroy, MainStep, queueVars, endVars
<1>6. CASE MakeFifo \/ OpenRead \/ OpenWrite \/ ReadRequest \/ ReadEndOfFile \/ WaitEmpty
           \/ PostFull
  BY <1>1, <1>6 DEF MakeFifo, OpenRead, OpenWrite, ReadRequest, ReadEndOfFile, WaitEmpty,
                    PostFull, MainStep, queueVars, endVars
<1> QED
  BY <1>2, <1>3, <1>4, <1>5, <1>6 DEF Main

LEMMA EndWithOffice ==
  ASSUME TypeOK, SemaphoresMatchQueue, EndInOrder, NEW o \in Offices, Office(o)
  PROVE  EndInOrder'
<1> USE DEF EndInOrder, TypeOK
<1>1. Running /\ main' \in {main, "crashed", "killed"} /\ UNCHANGED endVars
  BY DEF Office, StartOffice, WaitFull, MarkActive, PopRequest, PostEmpty, Manage, ForkHash,
         LoseHash, EndHash, HashKills, InHash, ChmodFifo, CloseFifo, CountActive,
         RefuseShutdown, OpenReply, UserDown, WriteReply, CloseReply, ClearActive, Die,
         LoopStep, LoopAt, endVars
<1>2. queue = <<>> => queue' = <<>>
  BY DEF Office, StartOffice, WaitFull, MarkActive, PopRequest, PostEmpty, Manage, ForkHash,
         LoseHash, EndHash, HashKills, InHash, ChmodFifo, CloseFifo, CountActive,
         RefuseShutdown, OpenReply, UserDown, WriteReply, CloseReply, ClearActive, Die,
         queueVars
<1>3. o \in scanned => loop'[o] \in Resting
  <2> SUFFICES ASSUME o \in scanned PROVE loop'[o] \in Resting
    OBVIOUS
  <2>1. loop[o] \in Resting /\ queue = <<>>
    BY <1>1 DEF Running
  <2>2. fullSem = 0
    BY <1>1, <2>1, EmptyQueueNobodyComes
  <2>3. CASE StartOffice(o) \/ Die(o)
    BY <2>3 DEF StartOffice, Die, LoopStep, Resting
  <2>4. CASE WaitFull(o)
    BY <2>2, <2>4 DEF WaitFull
  <2> QED
    BY <2>1, <2>3, <2>4
       DEF Office, MarkActive, PopRequest, PostEmpty, Manage, ForkHash, LoseHash, EndHash,
           HashKills, InHash, ChmodFifo, CloseFifo, CountActive, RefuseShutdown, OpenReply,
           UserDown, WriteReply, CloseReply, ClearActive, LoopStep, LoopAt, Resting
<1>4. \A q \in scanned' : loop'[q] \in Resting
  BY <1>1, <1>3, LoopStepKeepsOthers DEF endVars
<1> QED
  BY <1>1, <1>2, <1>4 DEF endVars, Running

-----------------------------------------------------------------------------
(* The inductive step and the theorems *)

LEMMA OfficeInvKept ==
  ASSUME AccountsInv, OfficeInv, [Next]_vars
  PROVE  AccountsInv' /\ OfficeInv'
<1>1. AccountsInv' /\ TypeOK' /\ HandOK'
  BY AccountsInvKept, TypesKept DEF OfficeInv, TypeOK
<1>2. CASE UNCHANGED vars
  <2>1. Count({"post_empty"})' = Count({"post_empty"})
        /\ Count({"mark", "pop"})' = Count({"mark", "pop"})
    BY <1>2, CountSame DEF vars, officeVars
  <2>2. SemaphoresMatchQueue'
    BY <1>2, <2>1 DEF OfficeInv, SemaphoresMatchQueue, vars, queueVars, Running, One
  <2>3. LoopMatchesWork' /\ BusyIsActive' /\ EndInOrder'
    BY <1>2 DEF OfficeInv, LoopMatchesWork, BusyIsActive, EndInOrder, vars, accountVars,
                tableVars, queueVars, officeVars, endVars
  <2> QED
    BY <1>1, <2>2, <2>3 DEF OfficeInv
<1>3. CASE Next
  <2>1. LoopMatchesWork' /\ BusyIsActive'
    BY <1>3, LoopsKept DEF OfficeInv
  <2> SUFFICES SemaphoresMatchQueue' /\ EndInOrder'
    BY <1>1, <2>1 DEF OfficeInv
  <2>2. CASE \E p \in Pids : User(p)
    <3>1. UNCHANGED <<main, queueVars, officeVars, endVars>>
      BY <2>2, UserKeepsAccounts
    <3>2. Count({"post_empty"})' = Count({"post_empty"})
          /\ Count({"mark", "pop"})' = Count({"mark", "pop"})
      BY <3>1, CountSame DEF officeVars
    <3>3. SemaphoresMatchQueue'
      BY <3>1, <3>2 DEF OfficeInv, SemaphoresMatchQueue, queueVars, Running, One
    <3>4. EndInOrder'
      BY <3>1 DEF OfficeInv, EndInOrder, queueVars, officeVars, endVars
    <3> QED
      BY <3>3, <3>4
  <2>3. CASE Main
    BY <2>3, SemaphoresWithMain, EndWithMain DEF OfficeInv
  <2>4. CASE \E o \in Offices : Office(o)
    BY <2>4, SemaphoresWithOffice, EndWithOffice DEF OfficeInv
  <2> QED
    BY <1>3, <2>2, <2>3, <2>4 DEF Next
<1> QED
  BY <1>2, <1>3

(* What follows holds at every moment of the server's life: the accounts   *)
(* keep their invariant whatever the queue and the shutdown do, and the     *)
(* bounded buffer, the offices' flags and the order of the end theirs.      *)
THEOREM OfficeInvariant == Spec => [](AccountsInv /\ OfficeInv)
<1>1. Init => AccountsInv /\ OfficeInv
  BY OfficeInvInit
<1>2. (AccountsInv /\ OfficeInv) /\ [Next]_vars => (AccountsInv /\ OfficeInv)'
  BY OfficeInvKept
<1> QED
  BY <1>1, <1>2, PTL DEF Spec

(* Every variable of the server has its type in every state.               *)
THEOREM ServerTypes == Spec => []TypeOK
<1>1. OfficeInv => TypeOK
  BY DEF OfficeInv
<1> QED
  BY <1>1, OfficeInvariant, PTL

(* The semaphores count what is in the queue (bankoffice.c:                *)
(* addRequestToQueue, getRequestFromQueue), for any number of offices and  *)
(* a queue of any size: nobody finds it full who pushes or empty who pops.  *)
THEOREM SemaphoresCorrect == Spec => []SemaphoresMatchQueue
<1>1. OfficeInv => SemaphoresMatchQueue
  BY DEF OfficeInv
<1> QED
  BY <1>1, OfficeInvariant, PTL

(* The main thread (destroyBankOffices) cancels only offices that have no  *)
(* request and hold no mutex, however the offices take the last requests    *)
(* while it looks at their flags.                                           *)
THEOREM OnlyIdleCancelled == Spec => []CancelledWhenIdle
<1>1. AccountsInv /\ OfficeInv => CancelledWhenIdle
  <2> SUFFICES ASSUME AccountsInv, OfficeInv, NEW o \in cancelled
               PROVE  loop[o] \in {"start", "wait", "gone"} /\ At(o, "idle") /\ Held(o) = {}
    BY DEF CancelledWhenIdle
  <2>1. o \in Offices /\ loop[o] \in Resting
    BY DEF OfficeInv, TypeOK, EndInOrder
  <2>2. pc[o] = "idle"
    BY <2>1 DEF OfficeInv, LoopMatchesWork, Resting, Requestless
  <2> QED
    BY <2>1, <2>2 DEF Resting, At, Held
<1> QED
  BY <1>1, OfficeInvariant, PTL

(* In the whole server a balance stays in its range: what the main thread  *)
(* and the queue do around the accounts does not disturb them.              *)
THEOREM BalancesBoundedInServer == Spec => []BalanceBounded
<1>1. AccountsInv => BalanceBounded
  BY DEF AccountsInv
<1> QED
  BY <1>1, OfficeInvariant, PTL

-----------------------------------------------------------------------------
(* The use of the queue *)

LEMMA QueueStepIs ==
  ASSUME [Next]_vars
  PROVE  \/ PushRequest
         \/ \E o \in Offices : PopRequest(o)
         \/ UNCHANGED queue
  BY DEF vars, queueVars, Next, User, OpenServer, WriteRequest, CloseServer, Main, MakeFifo,
         OpenRead, OpenWrite, ReadRequest, ReadEndOfFile, WaitEmpty, PostFull, SeeQueueEmpty,
         CheckOffice, CancelOffice, Destroy, Office, StartOffice, WaitFull, MarkActive,
         PostEmpty, Manage, ForkHash, LoseHash, EndHash, HashKills, InHash, ChmodFifo,
         CloseFifo, CountActive, RefuseShutdown, OpenReply, UserDown, WriteReply, CloseReply,
         ClearActive, Die

(* The server uses its queue as FifoQueue allows with BUFFER_SIZE places,  *)
(* which is what queue.c implements: nothing is pushed when it is full, so *)
(* that queue_resize is never called, nothing is popped when it is empty,  *)
(* and the office that pops gets the request that has waited the longest   *)
(* (addRequestToQueue, getRequestFromQueue).                                *)
THEOREM QueueIsUsedWell ==
  Spec => [][\/ /\ Len(queue) < BUFFER_SIZE
                /\ \E r \in ClientCalls : queue' = Append(queue, r)
             \/ /\ queue # <<>> /\ queue' = Tail(queue)
                /\ \E o \in Offices : req'[o] = Head(queue)]_queue
<1> DEFINE Put == Len(queue) < BUFFER_SIZE /\ \E r \in ClientCalls : queue' = Append(queue, r)
           Get == /\ queue # <<>> /\ queue' = Tail(queue)
                  /\ \E o \in Offices : req'[o] = Head(queue)
<1>1. ASSUME OfficeInv, AccountsInv, PushRequest PROVE Put
  <2>1. main = "push" /\ queue \in Seq(ClientCalls) /\ emptySem \in Nat /\ inHand \in ClientCalls
    BY <1>1 DEF PushRequest, MainStep, OfficeInv, TypeOK, HandOK
  <2>2. emptySem + Len(queue) + 1 + Count({"post_empty"}) = BUFFER_SIZE
    BY <1>1, <2>1 DEF OfficeInv, SemaphoresMatchQueue, Running, One
  <2>3. Count({"post_empty"}) \in Nat /\ Len(queue) \in Nat
    BY <2>1, AccountsAssumption, FS_Subset, FS_CardinalityType DEF Count, AccountsAssumption
  <2>4. BUFFER_SIZE \in Nat
    BY BankOfficeAssumption DEF BankOfficeAssumption
  <2>5. Len(queue) < BUFFER_SIZE
    BY <2>1, <2>2, <2>3, <2>4
  <2> QED
    BY <1>1, <2>1, <2>5 DEF PushRequest
<1>2. ASSUME AccountsInv, NEW o \in Offices, PopRequest(o) PROVE Get
  <2>1. req'[o] = Head(queue)
    BY <1>2 DEF PopRequest, Take, AccountsInv, AccountsTypeOK
  <2> QED
    BY <1>2, <2>1 DEF PopRequest
<1>3. (AccountsInv /\ OfficeInv) /\ [Next]_vars => [Put \/ Get]_queue
  <2> HIDE DEF Put, Get
  <2> QED
    BY <1>1, <1>2, QueueStepIs
<1> QED
  BY <1>3, OfficeInvariant, PTL DEF Spec

-----------------------------------------------------------------------------
(* The promise of Bank, in the whole server *)

LEMMA ProgressKept ==
  ASSUME AccountsInv, OfficeInv, ProgressInv, [Next]_vars
  PROVE  ProgressInv'
<1>1. queue \in Seq(ClientCalls)
  BY DEF OfficeInv, TypeOK
<1>2. CASE ~ Destroy
  BY <1>1, <1>2, AccountsStep, ProgressStep
<1>3. CASE Destroy
  <2>1. ASSUME NEW o \in Offices PROVE ProgressOK(o)'
    <3>1. loop[o] = "gone" /\ pc' = pc /\ reply' = reply
      BY <1>3 DEF Destroy
    <3>2. pc[o] = "idle"
      BY <3>1 DEF OfficeInv, LoopMatchesWork, Requestless
    <3>3. reply[o] = NoReply
      BY <3>2 DEF ProgressInv, ProgressOK, Decided
    <3> QED
      BY <3>1, <3>2, <3>3 DEF ProgressOK, Decided, Deciding, At
  <2> QED
    BY <2>1 DEF ProgressInv
<1> QED
  BY <1>2, <1>3

(* The whole server keeps the promise of Bank until destroyAccounts: with  *)
(* the semaphores, the queue, the offices that are cancelled and the        *)
(* shutdown around them, the requests still take effect one at a time, each *)
(* with the reply that is right at that instant.                            *)
THEOREM ServerImplementsBank ==
  Spec => Promise!Init /\ [][Promise!Next \/ Destroy]_(Promise!bankVars)
<1>1. Init => Promise!Init /\ ProgressInv
  BY BankInit, ProgressInit DEF Init
<1>2. Spec => []ProgressInv
  <2>1. (AccountsInv /\ OfficeInv) /\ ProgressInv /\ [Next]_vars => ProgressInv'
    BY ProgressKept
  <2> QED
    BY <1>1, <2>1, OfficeInvariant, PTL DEF Spec
<1>3. (AccountsInv /\ OfficeInv) /\ ProgressInv /\ [Next]_vars
        => [Promise!Next \/ Destroy]_(Promise!bankVars)
  <2> SUFFICES ASSUME AccountsInv, OfficeInv, ProgressInv, [Next]_vars, ~ Destroy
               PROVE  [Promise!Next]_(Promise!bankVars)
    OBVIOUS
  <2>1. [AccountsNext]_accountVars
    BY AccountsStep DEF OfficeInv, TypeOK
  <2> QED
    BY <2>1, BankStep
<1> QED
  BY <1>1, <1>2, <1>3, OfficeInvariant, PTL DEF Spec

-----------------------------------------------------------------------------
(* Money in the whole server *)

(* Until the table is destroyed an account nobody has opened is empty. *)
UnopenedWhileOpen == main # "stopped" => UnopenedEmpty

(* When the server has stopped every office rests or is gone. *)
LEMMA StoppedIsStill ==
  ASSUME OfficeInv, main = "stopped", [Next]_vars
  PROVE  UNCHANGED accountVars /\ main' = main
<1>1. \A o \in Offices : loop[o] \in Resting
  BY DEF OfficeInv, EndInOrder
<1>2. CASE UNCHANGED vars
  BY <1>2 DEF vars
<1>3. CASE \E p \in Pids : User(p)
  BY <1>3, UserKeepsAccounts
<1>4. ASSUME Main PROVE FALSE
  BY <1>4 DEF Main, MakeFifo, OpenRead, OpenWrite, ReadRequest, ReadEndOfFile, WaitEmpty,
              PushRequest, PostFull, SeeQueueEmpty, CheckOffice, CancelOffice, Destroy, MainStep
<1>5. ASSUME NEW o \in Offices, Office(o) PROVE UNCHANGED accountVars /\ main' = main
  BY <1>1, <1>5
     DEF Resting, Office, StartOffice, WaitFull, MarkActive, PopRequest, PostEmpty, Manage,
         ForkHash, LoseHash, EndHash, HashKills, InHash, ChmodFifo, CloseFifo, CountActive,
         RefuseShutdown, OpenReply, UserDown, WriteReply, CloseReply, ClearActive, Die,
         LoopStep, LoopAt
<1> QED
  BY <1>2, <1>3, <1>4, <1>5 DEF Next

LEMMA DestroyStops == Destroy => main' = "stopped"
  BY DEF Destroy, MainStep

LEMMA UnopenedKept ==
  ASSUME AccountsInv, OfficeInv, ProgressInv, UnopenedWhileOpen, [Next]_vars
  PROVE  UnopenedWhileOpen'
<1>1. CASE Destroy
  BY <1>1, DestroyStops DEF UnopenedWhileOpen
<1>2. CASE main = "stopped"
  BY <1>2, StoppedIsStill DEF UnopenedWhileOpen
<1>3. CASE ~ Destroy /\ main # "stopped"
  <2>1. [AccountsNext]_accountVars
    BY <1>3, AccountsStep DEF OfficeInv, TypeOK
  <2> QED
    BY <1>3, <2>1, UnopenedStep DEF UnopenedWhileOpen
<1> QED
  BY <1>1, <1>2, <1>3

(* In the whole server, too, money appears only when an account is opened, *)
(* until destroyAccounts forgets all there is.                              *)
THEOREM ServerConservesMoney ==
  Spec => [][\/ Destroy
             \/ SumFunction(Settled') =
                  SumFunction(Settled)
                  + SumFunctionOnSet(balance', {a \in AccountIds : used'[a] /\ ~ used[a]})]_accountVars
<1> DEFINE Conserves ==
             SumFunction(Settled') =
               SumFunction(Settled)
               + SumFunctionOnSet(balance', {a \in AccountIds : used'[a] /\ ~ used[a]})
<1>1. Spec => []ProgressInv
  <2>1. Init => ProgressInv
    BY ProgressInit DEF Init
  <2>2. (AccountsInv /\ OfficeInv) /\ ProgressInv /\ [Next]_vars => ProgressInv'
    BY ProgressKept
  <2> QED
    BY <2>1, <2>2, OfficeInvariant, PTL DEF Spec
<1>2. Spec => []UnopenedWhileOpen
  <2>1. Init => UnopenedWhileOpen
    BY UnopenedInit DEF Init, UnopenedWhileOpen
  <2>2. (AccountsInv /\ OfficeInv) /\ ProgressInv /\ UnopenedWhileOpen /\ [Next]_vars
          => UnopenedWhileOpen'
    BY UnopenedKept
  <2> QED
    BY <1>1, <2>1, <2>2, OfficeInvariant, PTL DEF Spec
<1>3. (AccountsInv /\ OfficeInv) /\ ProgressInv /\ UnopenedWhileOpen /\ [Next]_vars
        => [Destroy \/ Conserves]_accountVars
  <2> SUFFICES ASSUME AccountsInv, OfficeInv, ProgressInv, UnopenedWhileOpen, [Next]_vars,
                      ~ Destroy, ~ UNCHANGED accountVars
               PROVE  Conserves
    OBVIOUS
  <2>1. AccountsNext
    BY AccountsStep DEF OfficeInv, TypeOK
  <2>2. main # "stopped"
    BY StoppedIsStill
  <2> QED
    BY <2>1, <2>2, MoneyStep DEF UnopenedWhileOpen, Opened
<1> QED
  BY <1>1, <1>2, <1>3, OfficeInvariant, PTL DEF Spec

-----------------------------------------------------------------------------
(* The shutdown: no request is lost, whoever sends what while it goes on.   *)
(*                                                                         *)
(* The main thread meets the end of its FIFO only after a shutdown closed   *)
(* the server's write end, before which the FIFO's mode was changed: from   *)
(* then on nobody can open it.  A request that has been written is in one   *)
(* of five places until it has been answered, and when the offices are      *)
(* cancelled four of them are empty.                                        *)

(* Where the main thread has no write end of its FIFO yet, and where it has *)
(* met the end of the FIFO.                                                 *)
Early == {"make_fifo", "open_read", "open_write"}
Late == {"drain", "count", "cancel", "stopped"}
Writing == {"opened", "written"}

EarlyOK == main \in Early => queue = <<>> /\ \A o \in Offices : loop[o] \in Resting

OpenOK == main \notin Early => shutdownFD # "none"

(* The FIFO's mode has been changed when its write end is closed, or about  *)
(* to be.                                                                    *)
ClosedOK ==
  /\ shutdownFD \notin {"none", "server_fifo"} => ~ writable
  /\ \A o \in Offices : loop[o] = "close_fifo" \/ replyFD[o] = "shutdown_fd" => ~ writable

LateOK == main \in Late => ~ writable /\ fifo = <<>> /\ \A p \in Pids : user[p] \notin Writing

CallsOwn == \A p \in Pids : call[p].pid = p

In(s, p) == \E n \in 1 .. Len(s) : s[n].pid = p
InOffice(o, p) == loop[o] \notin Requestless /\ req[o].pid = p

(* Where a request that has been written is *)
Accounted(p) ==
  \/ p \in served
  \/ In(fifo, p) \/ In(queue, p)
  \/ main \in {"wait_empty", "push"} /\ inHand.pid = p
  \/ \E o \in Offices : InOffice(o, p)

AllAccounted == Running => \A p \in Pids : user[p] \in {"written", "sent"} => Accounted(p)

EndInv == EarlyOK /\ OpenOK /\ ClosedOK /\ LateOK /\ CallsOwn /\ AllAccounted

-----------------------------------------------------------------------------
(* The invariant holds before the server has made its FIFO.                 *)
THEOREM EndInvInit == Init => EndInv
<1> SUFFICES ASSUME Init
             PROVE  EndInv
  OBVIOUS
<1>1. EarlyOK /\ OpenOK /\ ClosedOK /\ LateOK
  BY DEF Init, EarlyOK, OpenOK, ClosedOK, LateOK, Early, Late, Resting
<1>2. CallsOwn
  BY BankOfficeAssumption DEF Init, CallsOwn, BankOfficeAssumption
<1>3. AllAccounted
  BY DEF Init, AllAccounted
<1> QED
  BY <1>1, <1>2, <1>3 DEF EndInv

(* What each kind of step leaves alone *)
LEMMA UserLeaves ==
  ASSUME NEW p \in Pids, User(p)
  PROVE  /\ UNCHANGED <<main, call, writable, inHand, queue, req, loop, replyFD, shutdownFD, served>>
         /\ fifo' = fifo \/ (fifo' = Append(fifo, call[p]) /\ WriteRequest(p))
<1>1. UNCHANGED <<accountVars, main, queueVars, officeVars, endVars, shutdownFD, replyVars>>
  BY UserKeepsAccounts
<1>2. UNCHANGED <<call, writable>> /\ (fifo' = fifo \/ (fifo' = Append(fifo, call[p]) /\ WriteRequest(p)))
  BY DEF User, OpenServer, WriteRequest, CloseServer
<1> QED
  BY <1>1, <1>2 DEF accountVars, queueVars, officeVars, replyVars

LEMMA MainLeaves ==
  ASSUME Main
  PROVE  UNCHANGED <<user, call, writable, loop, req, replyFD, served>>
  BY DEF Main, MakeFifo, OpenRead, OpenWrite, ReadRequest, ReadEndOfFile, WaitEmpty,
         PushRequest, PostFull, SeeQueueEmpty, CheckOffice, CancelOffice, Destroy,
         accountVars, fifoVars, officeVars, replyVars

LEMMA OfficeLeaves ==
  ASSUME NEW o \in Offices, Office(o)
  PROVE  /\ UNCHANGED <<user, call, fifo, inHand>> /\ Running
         /\ \/ main' = main
            \/ WriteReply(o) /\ main' = "crashed"
            \/ HashKills(o) /\ main' = "killed"
  BY DEF Office, StartOffice, WaitFull, MarkActive, PopRequest, PostEmpty, Manage, ForkHash,
         LoseHash, EndHash, HashKills, InHash, ChmodFifo, CloseFifo, CountActive,
         RefuseShutdown, OpenReply, UserDown, WriteReply, CloseReply, ClearActive, Die,
         LoopStep, LoopAt, fifoVars, queueVars

(* Only the taking and the finishing of a request change an office's request. *)
LEMMA OfficeKeepsRequest ==
  ASSUME NEW o \in Offices, Office(o), ~ PopRequest(o), ~ UserDown(o), ~ CloseReply(o)
  PROVE  UNCHANGED <<req, queue, served>>
<1>1. CASE Manage(o)
  BY <1>1 DEF Manage, Work, LockHeader, Validate, UnlockHeader, LockLow, LockHigh, HandleCreate,
              CreateAccount, RefuseWith, HandleBalance, HandleTransfer, Debit, Credit, UnlockHigh,
              UnlockLow, queueVars, replyVars
<1>2. CASE CountActive(o)
  BY <1>2 DEF CountActive, HandleShutdown, queueVars, replyVars
<1>3. CASE RefuseShutdown(o)
  BY <1>3 DEF RefuseShutdown, HandleShutdown, queueVars, replyVars
<1>4. CASE HashStep(o)
  BY <1>4, HashStepChanges DEF accountVars, queueVars, replyVars
<1>5. CASE ~ (Manage(o) \/ CountActive(o) \/ RefuseShutdown(o) \/ HashStep(o))
  BY <1>5 DEF Office, HashStep, StartOffice, WaitFull, MarkActive, PostEmpty, ChmodFifo, CloseFifo,
              OpenReply, WriteReply, ClearActive, Die, accountVars, queueVars, replyVars
<1> QED
  BY <1>1, <1>2, <1>3, <1>4, <1>5

-----------------------------------------------------------------------------
(* The end of the FIFO *)

LEMMA FifoEndsWithUser ==
  ASSUME TypeOK, EndInv, NEW p \in Pids, User(p)
  PROVE  EarlyOK' /\ OpenOK' /\ ClosedOK' /\ LateOK' /\ CallsOwn'
<1>1. EarlyOK' /\ OpenOK' /\ ClosedOK' /\ CallsOwn'
  BY UserLeaves DEF EndInv, EarlyOK, OpenOK, ClosedOK, CallsOwn
<1>2. ASSUME main \in Late
      PROVE  fifo' = <<>> /\ \A q \in Pids : user'[q] \notin Writing
  <2>1. /\ ~ writable /\ fifo = <<>> /\ \A q \in Pids : user[q] \notin Writing
    BY <1>2 DEF EndInv, LateOK
  <2>2. OpenServer(p)
    BY <2>1 DEF User, WriteRequest, CloseServer, UserStep, Writing
  <2>3. UserStep(p, "start", "srv_down") /\ fifo' = fifo
    BY <2>1, <2>2 DEF OpenServer
  <2> QED
    BY <2>1, <2>3 DEF UserStep, TypeOK, Writing
<1>3. LateOK'
  BY <1>2, UserLeaves DEF EndInv, LateOK
<1> QED
  BY <1>1, <1>3

LEMMA FifoEndsWithMain ==
  ASSUME TypeOK, EndInv, Main
  PROVE  EarlyOK' /\ OpenOK' /\ ClosedOK' /\ LateOK' /\ CallsOwn'
<1>1. CallsOwn'
  BY MainLeaves DEF EndInv, CallsOwn
<1>2. CASE OpenWrite
  BY <1>1, <1>2, MainLeaves
     DEF OpenWrite, MainStep, EndInv, EarlyOK, OpenOK, ClosedOK, LateOK, Early, Late
<1>3. CASE ReadEndOfFile
  <2>1. main = "read" /\ main' = "drain" /\ fifo' = fifo /\ shutdownFD' = shutdownFD /\ fifo = <<>>
    BY <1>3 DEF ReadEndOfFile, MainStep, fifoVars
  <2>2. shutdownFD \notin {"none", "server_fifo"}
    BY <1>3, <2>1 DEF ReadEndOfFile, EndInv, OpenOK, Early
  <2>3. \A p \in Pids : user[p] \notin Writing
    BY <1>3 DEF ReadEndOfFile, Writing
  <2> QED
    BY <1>1, <2>1, <2>2, <2>3, MainLeaves
       DEF EndInv, EarlyOK, OpenOK, ClosedOK, LateOK, Early, Late
<1>4. CASE ~ OpenWrite /\ ~ ReadEndOfFile
  <2>1. shutdownFD' = shutdownFD
    BY <1>4 DEF Main, MakeFifo, OpenRead, ReadRequest, WaitEmpty, PushRequest, PostFull,
                SeeQueueEmpty, CheckOffice, CancelOffice, Destroy
  <2>2. /\ main \in Early <=> main' \in Early
        /\ main' \in Late => main \in Late
    BY <1>4 DEF Main, MakeFifo, OpenRead, ReadRequest, WaitEmpty, PushRequest, PostFull,
                SeeQueueEmpty, CheckOffice, CancelOffice, Destroy, MainStep, Early, Late
  <2>3. main \in Early => queue' = queue
    BY <1>4 DEF Main, MakeFifo, OpenRead, ReadRequest, WaitEmpty, PushRequest, PostFull,
                SeeQueueEmpty, CheckOffice, CancelOffice, Destroy, MainStep, Early, queueVars
  <2>4. main \in Late => fifo' = fifo
    BY <1>4 DEF Main, MakeFifo, OpenRead, ReadRequest, WaitEmpty, PushRequest, PostFull,
                SeeQueueEmpty, CheckOffice, CancelOffice, Destroy, MainStep, Late, fifoVars
  <2> QED
    BY <1>1, <2>1, <2>2, <2>3, <2>4, MainLeaves DEF EndInv, EarlyOK, OpenOK, ClosedOK, LateOK
<1> QED
  BY <1>2, <1>3, <1>4, <1>1

LEMMA FifoEndsWithOffice ==
  ASSUME TypeOK, SemaphoresMatchQueue, EndInv, NEW o \in Offices, Office(o)
  PROVE  EarlyOK' /\ OpenOK' /\ ClosedOK' /\ LateOK' /\ CallsOwn'
<1>1. CallsOwn'
  BY OfficeLeaves DEF EndInv, CallsOwn
<1>2. writable => \/ writable'
                  \/ ChmodFifo(o) /\ shutdownFD = "server_fifo"
  BY DEF Office, StartOffice, WaitFull, MarkActive, PopRequest, PostEmpty, Manage, ForkHash,
         LoseHash, EndHash, HashKills, InHash, ChmodFifo, CloseFifo, CountActive,
         RefuseShutdown, OpenReply, UserDown, WriteReply, CloseReply, ClearActive, Die,
         fifoVars, TypeOK
<1>3. ~ writable => ~ writable'
  BY DEF Office, StartOffice, WaitFull, MarkActive, PopRequest, PostEmpty, Manage, ForkHash,
         LoseHash, EndHash, HashKills, InHash, ChmodFifo, CloseFifo, CountActive,
         RefuseShutdown, OpenReply, UserDown, WriteReply, CloseReply, ClearActive, Die,
         fifoVars, TypeOK
<1>4. ASSUME main \in Early
      PROVE  /\ loop'[o] \in Resting /\ queue' = queue /\ main' = main
             /\ UNCHANGED <<shutdownFD, replyFD, writable>>
  <2>1. queue = <<>> /\ loop[o] \in Resting /\ Running
    BY <1>4 DEF EndInv, EarlyOK, Early, Running
  <2>2. fullSem = 0
    BY <2>1, EmptyQueueNobodyComes
  <2>3. StartOffice(o) \/ Die(o)
    BY <2>1, <2>2
       DEF Office, WaitFull, MarkActive, PopRequest, PostEmpty, Manage, ForkHash, LoseHash,
           EndHash, HashKills, InHash, ChmodFifo, CloseFifo, CountActive, RefuseShutdown,
           OpenReply, UserDown, WriteReply, CloseReply, ClearActive, LoopStep, LoopAt, Resting
  <2> QED
    BY <2>3 DEF StartOffice, Die, LoopStep, Resting, TypeOK, queueVars, fifoVars, replyVars
<1>5. \A q \in Offices \ {o} : loop'[q] = loop[q]
  BY LoopStepKeepsOthers
<1>6. EarlyOK'
  <2>1. main' \in Early => main \in Early
    BY OfficeLeaves DEF Early
  <2> QED
    BY <1>4, <1>5, <2>1 DEF EndInv, EarlyOK
<1>7. shutdownFD = "none" <=> shutdownFD' = "none"
  <2>1. CASE main \in Early
    BY <1>4, <2>1
  <2>2. CASE main \notin Early
    <3>1. shutdownFD # "none"
      BY <2>2 DEF EndInv, OpenOK
    <3>2. CASE OpenReply(o)
      <4>1. req[o].pid \in Pids
        BY RequestPid DEF TypeOK, AccountsTypeOK
      <4> QED
        BY <3>1, <3>2, <4>1, BankOfficeAssumption DEF OpenReply, BankOfficeAssumption
    <3>3. CASE CloseFifo(o) \/ CloseReply(o)
      BY <3>1, <3>3 DEF CloseFifo, CloseReply
    <3>4. CASE ~ (OpenReply(o) \/ CloseFifo(o) \/ CloseReply(o))
      BY <3>1, <3>4 DEF Office, StartOffice, WaitFull, MarkActive, PopRequest, PostEmpty,
                        Manage, ForkHash, LoseHash, EndHash, HashKills, InHash, ChmodFifo,
                        CountActive, RefuseShutdown, UserDown, WriteReply, ClearActive, Die
    <3> QED
      BY <3>2, <3>3, <3>4
  <2> QED
    BY <2>1, <2>2
<1>8. OpenOK'
  <2>1. main' \notin Early => main \notin Early
    BY <1>4
  <2> QED
    BY <1>7, <2>1 DEF EndInv, OpenOK
<1>9. LateOK'
  <2>1. main' \in Late => main \in Late /\ UNCHANGED <<fifo, user>>
    BY OfficeLeaves DEF Late
  <2> QED
    BY <1>3, <2>1 DEF EndInv, LateOK
<1>10. ClosedOK'
  <2>1. CASE main \in Early
    BY <1>4, <1>5, <2>1 DEF EndInv, EarlyOK, ClosedOK, Resting
  <2>2. CASE main \notin Early
    <3>a. shutdownFD # "none" /\ ClosedOK
      BY <2>2 DEF EndInv, OpenOK
    <3>1. CASE ChmodFifo(o)
      <4>1. ~ writable'
        BY <3>a, <3>1 DEF ChmodFifo, ClosedOK
      <4> QED
        BY <4>1 DEF ClosedOK
    <3>2. CASE CloseFifo(o)
      <4>1. ~ writable
        BY <3>a, <3>2 DEF CloseFifo, LoopStep, LoopAt, ClosedOK
      <4> QED
        BY <1>3, <4>1 DEF ClosedOK
    <3>3. CASE OpenReply(o)
      BY <1>3, <1>5, <3>a, <3>3
         DEF OpenReply, LoopStep, LoopAt, fifoVars, TypeOK, ClosedOK
    <3>4. CASE CloseReply(o)
      BY <1>3, <1>5, <3>a, <3>4
         DEF CloseReply, LoopStep, LoopAt, fifoVars, TypeOK, ClosedOK
    <3>5. CASE ~ (ChmodFifo(o) \/ CloseFifo(o) \/ OpenReply(o) \/ CloseReply(o))
      <4>1. UNCHANGED <<writable, shutdownFD, replyFD>> /\ loop'[o] # "close_fifo"
        BY <3>5 DEF Office, StartOffice, WaitFull, MarkActive, PopRequest, PostEmpty, Manage,
                    ForkHash, LoseHash, EndHash, HashKills, InHash, CountActive, RefuseShutdown,
                    UserDown, WriteReply, ClearActive, Die, LoopStep, LoopAt, fifoVars,
                    officeVars, replyVars, TypeOK
      <4> QED
        BY <1>5, <3>a, <4>1 DEF ClosedOK
    <3> QED
      BY <3>1, <3>2, <3>3, <3>4, <3>5
  <2> QED
    BY <2>1, <2>2
<1> QED
  BY <1>1, <1>6, <1>8, <1>9, <1>10

-----------------------------------------------------------------------------
(* Where the requests are *)

LEMMA AppendedIn ==
  ASSUME NEW s \in Seq(ClientCalls), NEW r \in ClientCalls, NEW p \in Pids
  PROVE  In(Append(s, r), p) <=> In(s, p) \/ r.pid = p
<1> DEFINE t == Append(s, r)
<1>1. /\ Len(s) \in Nat /\ Len(t) = Len(s) + 1 /\ t[Len(s) + 1] = r
      /\ \A n \in 1 .. Len(s) : t[n] = s[n]
  OBVIOUS
<1> HIDE DEF t
<1>2. \A n \in 1 .. Len(t) : n \in 1 .. Len(s) \/ n = Len(s) + 1
  BY <1>1
<1>3. 1 .. Len(s) \subseteq 1 .. Len(t) /\ Len(s) + 1 \in 1 .. Len(t)
  BY <1>1
<1>4. In(t, p) <=> In(s, p) \/ r.pid = p
  BY <1>1, <1>2, <1>3 DEF In
<1> QED
  BY <1>4 DEF t

LEMMA TakenFrom ==
  ASSUME NEW s \in Seq(ClientCalls), s # <<>>, NEW p \in Pids, In(s, p)
  PROVE  Head(s).pid = p \/ In(Tail(s), p)
<1>1. PICK n \in 1 .. Len(s) : s[n].pid = p
  BY DEF In
<1>2. CASE n = 1
  BY <1>1, <1>2
<1>3. CASE n # 1
  <2>1. n - 1 \in 1 .. Len(Tail(s)) /\ Tail(s)[n - 1] = s[n]
    BY <1>3
  <2> QED
    BY <1>1, <2>1 DEF In
<1> QED
  BY <1>2, <1>3

LEMMA AccountedWithUser ==
  ASSUME TypeOK, EndInv, NEW p \in Pids, User(p)
  PROVE  AllAccounted'
<1> SUFFICES ASSUME Running', NEW q \in Pids, user'[q] \in {"written", "sent"}
             PROVE  Accounted(q)'
  BY DEF AllAccounted
<1>1. /\ UNCHANGED <<main, inHand, queue, req, loop, served, call>>
      /\ fifo' = fifo \/ (fifo' = Append(fifo, call[p]) /\ WriteRequest(p))
  BY UserLeaves
<1>2. In(fifo, q) => In(fifo', q)
  <2>1. fifo \in Seq(ClientCalls) /\ call[p] \in ClientCalls
    BY DEF TypeOK
  <2>2. In(Append(fifo, call[p]), q) <=> In(fifo, q) \/ call[p].pid = q
    BY <2>1, AppendedIn
  <2> QED
    BY <1>1, <2>2
<1>3. CASE user[q] \in {"written", "sent"}
  <2>1. Accounted(q)
    BY <1>1, <1>3 DEF EndInv, AllAccounted, Running
  <2> QED
    BY <1>1, <1>2, <2>1 DEF Accounted, InOffice
<1>4. CASE user[q] \notin {"written", "sent"}
  <2>1. q = p /\ WriteRequest(p) /\ user'[p] = "written"
    BY <1>4 DEF User, OpenServer, WriteRequest, CloseServer, UserStep, TypeOK
  <2>2. fifo' = Append(fifo, call[p])
    BY <2>1 DEF WriteRequest, UserStep, TypeOK
  <2>3. call[p] \in ClientCalls /\ call[p].pid = p /\ fifo \in Seq(ClientCalls)
    BY DEF EndInv, CallsOwn, TypeOK
  <2>4. In(fifo', q)
    BY <2>1, <2>2, <2>3, AppendedIn
  <2> QED
    BY <2>4 DEF Accounted
<1> QED
  BY <1>3, <1>4

LEMMA AccountedWithMain ==
  ASSUME TypeOK, HandOK, EndInv, Main
  PROVE  AllAccounted'
<1> SUFFICES ASSUME Running', NEW q \in Pids, user'[q] \in {"written", "sent"}
             PROVE  Accounted(q)'
  BY DEF AllAccounted
<1>1. UNCHANGED <<user, loop, req, served>> /\ main \notin {"crashed", "killed"}
  <2>1. main \notin {"crashed", "killed"}
    BY DEF Main, MakeFifo, OpenRead, OpenWrite, ReadRequest, ReadEndOfFile, WaitEmpty,
         PushRequest, PostFull, SeeQueueEmpty, CheckOffice, CancelOffice, Destroy, MainStep
  <2> QED
    BY <2>1, MainLeaves
<1>2. Accounted(q)
  BY <1>1 DEF EndInv, AllAccounted, Running
<1>3. \A o \in Offices : InOffice(o, q)' <=> InOffice(o, q)
  BY <1>1 DEF InOffice
<1>4. CASE ReadRequest
  <2>1. fifo \in Seq(ClientCalls) /\ fifo # <<>>
    BY <1>4 DEF ReadRequest, TypeOK
  <2>2. /\ main = "read" /\ main' = "wait_empty" /\ queue' = queue
        /\ inHand' = Head(fifo) /\ fifo' = Tail(fifo)
    BY <1>4 DEF ReadRequest, MainStep
  <2>3. In(fifo, q) => inHand'.pid = q \/ In(fifo', q)
    BY <2>1, <2>2, TakenFrom
  <2> QED
    BY <1>1, <1>2, <1>3, <2>2, <2>3 DEF Accounted
<1>5. CASE PushRequest
  <2>1. /\ main = "push" /\ queue' = Append(queue, inHand) /\ fifo' = fifo
        /\ inHand \in ClientCalls /\ queue \in Seq(ClientCalls)
    BY <1>5 DEF PushRequest, MainStep, fifoVars, HandOK, TypeOK
  <2>2. In(queue', q) <=> In(queue, q) \/ inHand.pid = q
    BY <2>1, AppendedIn
  <2> QED
    BY <1>1, <1>2, <1>3, <2>1, <2>2 DEF Accounted
<1>6. CASE ~ ReadRequest /\ ~ PushRequest
  <2>1. /\ UNCHANGED <<fifo, queue, inHand>>
        /\ main \in {"wait_empty", "push"} => main' \in {"wait_empty", "push"}
    BY <1>6 DEF Main, MakeFifo, OpenRead, OpenWrite, ReadEndOfFile, WaitEmpty,
         PostFull, SeeQueueEmpty, CheckOffice, CancelOffice, Destroy, MainStep, fifoVars, queueVars
  <2> QED
    BY <1>1, <1>2, <1>3, <2>1 DEF Accounted
<1> QED
  BY <1>4, <1>5, <1>6

LEMMA AccountedWithOffice ==
  ASSUME TypeOK, LoopMatchesWork, EndInOrder, EndInv, NEW o \in Offices, Office(o)
  PROVE  AllAccounted'
<1> SUFFICES ASSUME Running', NEW p \in Pids, user'[p] \in {"written", "sent"}
             PROVE  Accounted(p)'
  BY DEF AllAccounted
<1>1. UNCHANGED <<user, fifo, inHand, main>> /\ Running
  BY OfficeLeaves DEF Running
<1>2. Accounted(p)
  BY <1>1 DEF EndInv, AllAccounted
<1>3. \A q \in Offices \ {o} : loop'[q] = loop[q]
  BY LoopStepKeepsOthers
<1>4. CASE PopRequest(o)
  <2>1. /\ queue # <<>> /\ queue' = Tail(queue) /\ req' = [req EXCEPT ![o] = Head(queue)]
        /\ loop[o] = "pop" /\ loop'[o] = "post_empty" /\ served' = served
    BY <1>4 DEF PopRequest, Take, LoopStep, LoopAt, replyVars, TypeOK
  <2>2. In(queue, p) => Head(queue).pid = p \/ In(queue', p)
    BY <2>1, TakenFrom DEF TypeOK
  <2>3. Head(queue).pid = p => InOffice(o, p)'
    BY <2>1 DEF InOffice, Requestless, TypeOK, AccountsTypeOK
  <2>4. \A q \in Offices : InOffice(q, p) => InOffice(q, p)'
    BY <1>3, <2>1 DEF InOffice, Requestless, TypeOK, AccountsTypeOK
  <2> QED
    BY <1>1, <1>2, <2>1, <2>2, <2>3, <2>4 DEF Accounted
<1>5. CASE UserDown(o) \/ CloseReply(o)
  <2>1. /\ queue' = queue /\ req' = [req EXCEPT ![o] = NoRequest]
        /\ served' = served \union {req[o].pid}
    BY <1>5 DEF UserDown, CloseReply, Finish, queueVars
  <2>2. \A q \in Offices : InOffice(q, p) => InOffice(q, p)' \/ p \in served'
    BY <1>3, <2>1 DEF InOffice, TypeOK, AccountsTypeOK
  <2> QED
    BY <1>1, <1>2, <2>1, <2>2 DEF Accounted
<1>6. CASE ~ PopRequest(o) /\ ~ (UserDown(o) \/ CloseReply(o))
  <2>1. UNCHANGED <<req, queue, served>>
    BY <1>6, OfficeKeepsRequest
  <2>2. loop[o] \notin Requestless => loop'[o] \notin Requestless
    BY <1>6 DEF Office, StartOffice, WaitFull, MarkActive, PostEmpty, Manage, ForkHash,
                LoseHash, EndHash, HashKills, InHash, ChmodFifo, CloseFifo, CountActive,
                RefuseShutdown, OpenReply, WriteReply, ClearActive, Die, LoopStep, LoopAt,
                Requestless, Resting, EndInOrder, TypeOK, officeVars
  <2>3. \A q \in Offices : InOffice(q, p) => InOffice(q, p)'
    BY <1>3, <2>1, <2>2 DEF InOffice
  <2> QED
    BY <1>1, <1>2, <2>1, <2>3 DEF Accounted
<1> QED
  BY <1>4, <1>5, <1>6

-----------------------------------------------------------------------------
(* Every step of a user, the main thread or an office keeps track of every  *)
(* request, and of how the FIFO comes to its end (server.c:71-92).     *)
THEOREM EndInvStep ==
  ASSUME OfficeInv, EndInv, [Next]_vars
  PROVE  EndInv'
<1> USE DEF OfficeInv
<1>1. ASSUME NEW p \in Pids, User(p)
      PROVE  EndInv'
  BY <1>1, FifoEndsWithUser, AccountedWithUser DEF EndInv
<1>2. CASE Main
  BY <1>2, FifoEndsWithMain, AccountedWithMain DEF EndInv
<1>3. ASSUME NEW o \in Offices, Office(o)
      PROVE  EndInv'
  BY <1>3, FifoEndsWithOffice, AccountedWithOffice DEF EndInv
<1>4. CASE UNCHANGED vars
  BY <1>4 DEF vars, accountVars, fifoVars, queueVars, officeVars, replyVars, EndInv, EarlyOK,
              OpenOK, ClosedOK, LateOK, CallsOwn, AllAccounted, Accounted, In, InOffice, Running
<1> QED
  BY <1>1, <1>2, <1>3, <1>4 DEF Next

(* When the main thread has met the end of the FIFO no request comes any    *)
(* more, and when it cancels the offices every one that was written has been *)
(* answered, or its user found down (bankoffice.c:34, 314).                 *)
THEOREM NothingIsLostAtShutdown == Spec => []NothingLostAtShutdown
<1>1. Init => EndInv
  BY EndInvInit
<1>2. OfficeInv /\ EndInv /\ [Next]_vars => EndInv'
  BY EndInvStep
<1>3. OfficeInv /\ EndInv => NothingLostAtShutdown
  <2> SUFFICES ASSUME OfficeInv, EndInv
               PROVE  NothingLostAtShutdown
    OBVIOUS
  <2>1. main \in Late => fifo = <<>> /\ \A p \in Pids : user[p] \notin Writing
    BY DEF EndInv, LateOK
  <2>2. ASSUME main \in {"cancel", "stopped"}, NEW p \in Pids, user[p] = "sent"
        PROVE  p \in served
    <3>1. fifo = <<>> /\ queue = <<>> /\ \A o \in Offices : loop[o] \in Resting
      BY <2>1, <2>2 DEF OfficeInv, EndInOrder, Late
    <3>2. Accounted(p)
      BY <2>2 DEF EndInv, AllAccounted, Running
    <3>3. ~ In(<<>>, p)
      BY DEF In
    <3> QED
      BY <2>2, <3>1, <3>2, <3>3 DEF Accounted, InOffice, Resting, Requestless
  <2> QED
    BY <2>1, <2>2 DEF NothingLostAtShutdown, Late, Writing
<1> QED
  BY <1>1, <1>2, <1>3, OfficeInvariant, PTL DEF Spec

-----------------------------------------------------------------------------
(* The replies: if the administrator asks once for the server to be stopped, *)
(* every reply comes to the user it is for, and no reply that cannot be sent  *)
(* makes the server exit.  The descriptor of the server's write end is closed *)
(* by a shutdown, and its number used again for the users' FIFOs.  A second   *)
(* shutdown closes whatever that number is open on by then.  That there is    *)
(* none rests on every request being in one place only.                       *)

StopsServer(r) == r.type = "OP_SHUTDOWN" /\ r.account_id = ADMIN_ACCOUNT_ID

(* What is assumed of the users *)
OneShutdown ==
  \A p, q \in Pids : \A r \in CallsOf[p] : \A t \in CallsOf[q] :
    StopsServer(r) /\ StopsServer(t) => p = q

-----------------------------------------------------------------------------
(* A request is in one place. *)

Spots ==
  ({"fifo", "queue"} \X Nat) \union ({"office"} \X Offices)
    \union {<<"hand", 0>>, <<"served", 0>>}

InHand == main \in {"wait_empty", "push"}

IsAt(p, x) ==
  \/ x[1] = "fifo" /\ x[2] \in 1 .. Len(fifo) /\ fifo[x[2]].pid = p
  \/ x[1] = "queue" /\ x[2] \in 1 .. Len(queue) /\ queue[x[2]].pid = p
  \/ x[1] = "hand" /\ InHand /\ inHand.pid = p
  \/ x[1] = "office" /\ InOffice(x[2], p)
  \/ x[1] = "served" /\ p \in served

OneSpot(p) == \A x, y \in Spots : IsAt(p, x) /\ IsAt(p, y) => x = y
Unwritten(p) == user[p] \notin {"written", "sent"} => \A x \in Spots : ~ IsAt(p, x)

PlacesInv == \A p \in Pids : OneSpot(p) /\ Unwritten(p)

(* What is on its way is what its user has sent. *)
FromUser(r) == r = call[r.pid]
SentInv ==
  /\ \A p \in Pids : call[p] \in CallsOf[p]
  /\ \A n \in 1 .. Len(fifo) : FromUser(fifo[n])
  /\ \A n \in 1 .. Len(queue) : FromUser(queue[n])
  /\ InHand => FromUser(inHand)
  /\ \A o \in Offices : loop[o] \notin Requestless => FromUser(req[o])

-----------------------------------------------------------------------------
(* The descriptor *)

Replying == {"write", "close_reply"}

ControlOK(o) ==
  /\ pc[o] = "shutdown" => req[o].type = "OP_SHUTDOWN"
  /\ loop[o] \in {"close_fifo", "count"} => pc[o] = "shutdown" /\ ByAdmin(o)
  /\ loop[o] = "close_fifo" => shutdownFD = "server_fifo"
  /\ loop[o] \in Replying => pc[o] = "reply" /\ replyFD[o] \in {"own", "shutdown_fd"}
  /\ replyFD[o] = "shutdown_fd" => loop[o] \in Replying /\ shutdownFD = req[o].pid

(* A shutdown request that has closed the descriptor *)
HasClosed(p) ==
  \/ p \in served
  \/ \E o \in Offices : InOffice(o, p) /\ (loop[o] = "count" \/ pc[o] = "reply")

ClosedByShutdown ==
  shutdownFD \notin {"none", "server_fifo"} =>
    \E p \in Pids : StopsServer(call[p]) /\ HasClosed(p)

DescriptorInv ==
  /\ \A o \in Offices : ControlOK(o)
  /\ ClosedByShutdown
  /\ RepliesReachTheirUsers
  /\ SurvivesUnsentReply
-----------------------------------------------------------------------------

LEMMA SpotCases ==
  ASSUME NEW x \in Spots
  PROVE  /\ x = <<x[1], x[2]>>
         /\ \/ x[1] \in {"fifo", "queue"} /\ x[2] \in Nat
            \/ x[1] = "office" /\ x[2] \in Offices
            \/ x[1] \in {"hand", "served"} /\ x[2] = 0
  BY DEF Spots

LEMMA SpotMade ==
  /\ \A n \in Nat : <<"fifo", n>> \in Spots /\ <<"queue", n>> \in Spots
  /\ \A o \in Offices : <<"office", o>> \in Spots
  /\ <<"hand", 0>> \in Spots /\ <<"served", 0>> \in Spots
  /\ <<"fifo", 1>> \in Spots /\ <<"queue", 1>> \in Spots
  BY DEF Spots

(* What was in one place before a step is in one place after it, if what is *)
(* in different places after it was in different ones before it.            *)
LEMMA Moved ==
  ASSUME NEW p \in Pids, OneSpot(p), NEW f,
         \A x \in Spots : IsAt(p, x)' => f[x] \in Spots /\ IsAt(p, f[x]),
         \A x, y \in Spots : IsAt(p, x)' /\ IsAt(p, y)' /\ f[x] = f[y] => x = y
  PROVE  /\ OneSpot(p)'
         /\ (\A x \in Spots : ~ IsAt(p, x)) => \A x \in Spots : ~ IsAt(p, x)'
<1>1. \A x, y \in Spots : IsAt(p, x)' /\ IsAt(p, y)' => x = y
  BY DEF OneSpot
<1> QED
  BY <1>1 DEF OneSpot

LEMMA StaysPut ==
  ASSUME NEW p \in Pids, OneSpot(p), \A x \in Spots : IsAt(p, x)' => IsAt(p, x)
  PROVE  /\ OneSpot(p)'
         /\ (\A x \in Spots : ~ IsAt(p, x)) => \A x \in Spots : ~ IsAt(p, x)'
  BY DEF OneSpot

LEMMA PlacesWithUser ==
  ASSUME TypeOK, CallsOwn, PlacesInv, NEW q \in Pids, User(q)
  PROVE  PlacesInv'
<1> SUFFICES ASSUME NEW p \in Pids
             PROVE  OneSpot(p)' /\ Unwritten(p)'
  BY DEF PlacesInv
<1>1. /\ UNCHANGED <<main, inHand, queue, req, loop, served>>
      /\ fifo' = fifo \/ (fifo' = Append(fifo, call[q]) /\ WriteRequest(q))
  BY UserLeaves
<1>2. OneSpot(p) /\ Unwritten(p)
  BY DEF PlacesInv
<1>3. CASE fifo' = fifo
  <2>1. \A x \in Spots : IsAt(p, x)' <=> IsAt(p, x)
    BY <1>1, <1>3 DEF IsAt, InHand, InOffice
  <2>2. OneSpot(p)'
    BY <1>2, <2>1, StaysPut
  <2>3. user'[p] \notin {"written", "sent"} => user[p] \notin {"written", "sent"}
    BY DEF User, OpenServer, WriteRequest, CloseServer, UserStep, TypeOK
  <2> QED
    BY <1>2, <2>1, <2>2, <2>3 DEF Unwritten
<1>4. CASE fifo' = Append(fifo, call[q]) /\ WriteRequest(q)
  <2>1. /\ Len(fifo) \in Nat /\ Len(fifo') = Len(fifo) + 1 /\ fifo'[Len(fifo) + 1] = call[q]
        /\ \A n \in 1 .. Len(fifo) : fifo'[n] = fifo[n]
    BY <1>4 DEF TypeOK
  <2>2. call[q].pid = q
    BY DEF CallsOwn
  <2>3. fifo' # fifo
    BY <2>1
  <2>4. user[q] = "opened" /\ user'[q] = "written" /\ \A r \in Pids \ {q} : user'[r] = user[r]
    BY <1>4, <2>3 DEF WriteRequest, UserStep, TypeOK
  <2>5. ASSUME NEW x \in Spots, IsAt(p, x)'
        PROVE  IsAt(p, x) \/ (p = q /\ x = <<"fifo", Len(fifo) + 1>>)
    <3>1. CASE x[1] = "fifo"
      BY <1>1, <2>1, <2>2, <2>5, <3>1, SpotCases DEF IsAt
    <3>2. CASE x[1] # "fifo"
      BY <1>1, <2>5, <3>2 DEF IsAt, InHand, InOffice
    <3> QED
      BY <3>1, <3>2
  <2>6. CASE p # q
    <3>1. \A x \in Spots : IsAt(p, x)' => IsAt(p, x)
      BY <2>5, <2>6
    <3> QED
      BY <1>2, <2>4, <2>6, <3>1, StaysPut DEF Unwritten
  <2>7. CASE p = q
    <3>1. \A x \in Spots : ~ IsAt(p, x)
      BY <1>2, <2>4, <2>7 DEF Unwritten
    <3>2. \A x \in Spots : IsAt(p, x)' => x = <<"fifo", Len(fifo) + 1>>
      BY <2>5, <3>1
    <3> QED
      BY <2>4, <2>7, <3>2 DEF OneSpot, Unwritten
  <2> QED
    BY <2>6, <2>7
<1> QED
  BY <1>1, <1>3, <1>4

LEMMA PlacesWithMain ==
  ASSUME TypeOK, PlacesInv, Main
  PROVE  PlacesInv'
<1> SUFFICES ASSUME NEW p \in Pids
             PROVE  OneSpot(p)' /\ Unwritten(p)'
  BY DEF PlacesInv
<1>1. UNCHANGED <<user, loop, req, served>>
  BY MainLeaves
<1>2. OneSpot(p) /\ Unwritten(p)
  BY DEF PlacesInv
<1> SUFFICES /\ OneSpot(p)'
             /\ (\A x \in Spots : ~ IsAt(p, x)) => \A x \in Spots : ~ IsAt(p, x)'
  BY <1>1, <1>2 DEF Unwritten
<1>3. \A x \in Spots : x[1] \in {"office", "served"} => (IsAt(p, x)' <=> IsAt(p, x))
  BY <1>1 DEF IsAt, InOffice
<1>4. CASE ReadRequest
  <2> DEFINE f == [x \in Spots |-> IF x[1] = "fifo" THEN <<"fifo", x[2] + 1>>
                                   ELSE IF x[1] = "hand" THEN <<"fifo", 1>> ELSE x]
  <2>1. /\ fifo # <<>> /\ inHand' = Head(fifo) /\ fifo' = Tail(fifo) /\ queue' = queue
        /\ main = "read"
    BY <1>4 DEF ReadRequest, MainStep
  <2>2. /\ Len(fifo) \in Nat \ {0} /\ Len(fifo') = Len(fifo) - 1 /\ inHand' = fifo[1]
        /\ \A n \in 1 .. Len(fifo') : fifo'[n] = fifo[n + 1]
    BY <2>1 DEF TypeOK
  <2>3. ASSUME NEW x \in Spots, IsAt(p, x)'
        PROVE  f[x] \in Spots /\ IsAt(p, f[x])
    <3>1. CASE x[1] = "fifo"
      <4>1. x[2] \in 1 .. Len(fifo') /\ fifo'[x[2]].pid = p
        BY <2>3, <3>1 DEF IsAt
      <4>2. x[2] + 1 \in 1 .. Len(fifo) /\ x[2] + 1 \in Nat /\ fifo[x[2] + 1].pid = p
        BY <2>2, <4>1
      <4>3. f[x] = <<"fifo", x[2] + 1>>
        BY <3>1
      <4>4. <<"fifo", x[2] + 1>> \in Spots /\ IsAt(p, <<"fifo", x[2] + 1>>)
        BY <4>2, SpotMade DEF IsAt
      <4> HIDE DEF f
      <4> QED
        BY <4>3, <4>4
    <3>2. CASE x[1] = "hand"
      <4>1. f[x] = <<"fifo", 1>> /\ inHand'.pid = p
        BY <2>3, <3>2 DEF IsAt
      <4>2. <<"fifo", 1>> \in Spots /\ IsAt(p, <<"fifo", 1>>)
        <5>1. 1 \in 1 .. Len(fifo) /\ fifo[1].pid = p
          BY <2>2, <4>1
        <5> QED
          BY <5>1, SpotMade DEF IsAt
      <4> HIDE DEF f
      <4> QED
        BY <4>1, <4>2
    <3>3. CASE x[1] \notin {"fifo", "hand"}
      <4>1. f[x] = x
        BY <3>3
      <4> QED
        BY <1>3, <2>1, <2>3, <3>3, <4>1, SpotCases DEF IsAt
    <3> QED
      BY <3>1, <3>2, <3>3
  <2>4. ASSUME NEW x \in Spots, NEW y \in Spots, IsAt(p, x)', IsAt(p, y)', f[x] = f[y]
        PROVE  x = y
    <3>1. x[1] = "fifo" => x[2] >= 1 /\ x[2] \in Nat
      BY <2>2, <2>4 DEF IsAt
    <3>2. y[1] = "fifo" => y[2] >= 1 /\ y[2] \in Nat
      BY <2>2, <2>4 DEF IsAt
    <3> QED
      BY <2>4, <3>1, <3>2, SpotCases
  <2> HIDE DEF f
  <2> QED
    BY <1>2, <2>3, <2>4, Moved
<1>5. CASE PushRequest
  <2> DEFINE f == [x \in Spots |-> IF x = <<"queue", Len(queue) + 1>> THEN <<"hand", 0>> ELSE x]
  <2>1. /\ queue' = Append(queue, inHand) /\ fifo' = fifo
        /\ main = "push" /\ main' = "post_full"
    BY <1>5 DEF PushRequest, MainStep, fifoVars
  <2>2. /\ Len(queue) \in Nat /\ Len(queue') = Len(queue) + 1 /\ queue'[Len(queue) + 1] = inHand
        /\ \A n \in 1 .. Len(queue) : queue'[n] = queue[n]
    BY <2>1 DEF TypeOK
  <2>3. ASSUME NEW x \in Spots, IsAt(p, x)'
        PROVE  f[x] \in Spots /\ IsAt(p, f[x]) /\ x[1] # "hand"
    <3>1. CASE x = <<"queue", Len(queue) + 1>>
      <4>1. f[x] = <<"hand", 0>> /\ inHand.pid = p
        BY <2>2, <2>3, <3>1 DEF IsAt
      <4> QED
        BY <2>1, <3>1, <4>1, SpotMade DEF IsAt, InHand
    <3>2. CASE x # <<"queue", Len(queue) + 1>>
      <4>1. f[x] = x
        BY <3>2
      <4>2. x[1] = "queue" => x[2] # Len(queue) + 1
        BY <3>2, SpotCases
      <4>3. IsAt(p, x) /\ x[1] # "hand"
        BY <1>3, <2>1, <2>2, <2>3, <4>2, SpotCases DEF IsAt, InHand
      <4> HIDE DEF f
      <4> QED
        BY <4>1, <4>3
    <3> QED
      BY <3>1, <3>2
  <2>4. \A x, y \in Spots : IsAt(p, x)' /\ IsAt(p, y)' /\ f[x] = f[y] => x = y
    BY <2>3
  <2>5. \A x \in Spots : IsAt(p, x)' => f[x] \in Spots /\ IsAt(p, f[x])
    BY <2>3
  <2> HIDE DEF f
  <2> QED
    BY <1>2, <2>4, <2>5, Moved
<1>6. CASE ~ ReadRequest /\ ~ PushRequest
  <2>1. /\ UNCHANGED <<fifo, queue, inHand>> /\ (main' \in {"wait_empty", "push"} => InHand)
    BY <1>6 DEF Main, MakeFifo, OpenRead, OpenWrite, ReadEndOfFile, WaitEmpty,
         PostFull, SeeQueueEmpty, CheckOffice, CancelOffice, Destroy, MainStep, fifoVars, queueVars,
         InHand
  <2>2. \A x \in Spots : IsAt(p, x)' => IsAt(p, x)
    BY <1>3, <2>1, SpotCases DEF IsAt, InHand
  <2> QED
    BY <1>2, <2>2, StaysPut
<1> QED
  BY <1>4, <1>5, <1>6

LEMMA PlacesWithOffice ==
  ASSUME TypeOK, EndInOrder, PlacesInv, NEW o \in Offices, Office(o)
  PROVE  PlacesInv'
<1> SUFFICES ASSUME NEW p \in Pids
             PROVE  OneSpot(p)' /\ Unwritten(p)'
  BY DEF PlacesInv
<1>1. /\ UNCHANGED <<user, fifo, inHand>> /\ (InHand' => InHand)
      /\ \A q \in Offices \ {o} : loop'[q] = loop[q]
  BY OfficeLeaves, LoopStepKeepsOthers DEF InHand
<1>2. OneSpot(p) /\ Unwritten(p)
  BY DEF PlacesInv
<1> SUFFICES /\ OneSpot(p)'
             /\ (\A x \in Spots : ~ IsAt(p, x)) => \A x \in Spots : ~ IsAt(p, x)'
  BY <1>1, <1>2 DEF Unwritten
<1>3. \A x \in Spots : x[1] \in {"fifo", "hand"} => (IsAt(p, x)' => IsAt(p, x))
  BY <1>1 DEF IsAt
<1>4. CASE PopRequest(o)
  <2> DEFINE f == [x \in Spots |-> IF x[1] = "queue" THEN <<"queue", x[2] + 1>>
                                   ELSE IF x = <<"office", o>> THEN <<"queue", 1>> ELSE x]
  <2>1. /\ queue # <<>> /\ queue' = Tail(queue) /\ req' = [req EXCEPT ![o] = Head(queue)]
        /\ served' = served
    BY <1>4 DEF PopRequest, Take, replyVars
  <2>2. /\ Len(queue) \in Nat \ {0} /\ Len(queue') = Len(queue) - 1 /\ Head(queue) = queue[1]
        /\ \A n \in 1 .. Len(queue') : queue'[n] = queue[n + 1]
    BY <2>1 DEF TypeOK
  <2>3. ASSUME NEW x \in Spots, IsAt(p, x)'
        PROVE  f[x] \in Spots /\ IsAt(p, f[x])
    <3>1. CASE x[1] = "queue"
      <4>1. x[2] \in 1 .. Len(queue') /\ queue'[x[2]].pid = p
        BY <2>3, <3>1 DEF IsAt
      <4>2. x[2] + 1 \in 1 .. Len(queue) /\ x[2] + 1 \in Nat /\ queue[x[2] + 1].pid = p
        BY <2>2, <4>1
      <4>3. f[x] = <<"queue", x[2] + 1>>
        BY <3>1
      <4>4. <<"queue", x[2] + 1>> \in Spots /\ IsAt(p, <<"queue", x[2] + 1>>)
        BY <4>2, SpotMade DEF IsAt
      <4> HIDE DEF f
      <4> QED
        BY <4>3, <4>4
    <3>2. CASE x = <<"office", o>>
      <4>1. f[x] = <<"queue", 1>> /\ req'[o].pid = p
        BY <2>3, <3>2 DEF IsAt, InOffice
      <4>2. req'[o] = queue[1]
        BY <2>1, <2>2 DEF TypeOK, AccountsTypeOK
      <4>3. <<"queue", 1>> \in Spots /\ IsAt(p, <<"queue", 1>>)
        <5>1. 1 \in 1 .. Len(queue) /\ queue[1].pid = p
          BY <2>2, <4>1, <4>2
        <5> QED
          BY <5>1, SpotMade DEF IsAt
      <4> HIDE DEF f
      <4> QED
        BY <4>1, <4>3
    <3>3. CASE x[1] # "queue" /\ x # <<"office", o>>
      <4>1. f[x] = x
        BY <3>3
      <4>2. x[1] = "office" => x[2] \in Offices \ {o}
        BY <3>3, SpotCases
      <4>3. IsAt(p, x)
        BY <1>1, <1>3, <2>1, <2>3, <3>3, <4>2, SpotCases
           DEF IsAt, InOffice, TypeOK, AccountsTypeOK
      <4> HIDE DEF f
      <4> QED
        BY <4>1, <4>3
    <3> QED
      BY <3>1, <3>2, <3>3
  <2>4. ASSUME NEW x \in Spots, NEW y \in Spots, IsAt(p, x)', IsAt(p, y)', f[x] = f[y]
        PROVE  x = y
    <3>1. x[1] = "queue" => x[2] >= 1 /\ x[2] \in Nat
      BY <2>2, <2>4 DEF IsAt
    <3>2. y[1] = "queue" => y[2] >= 1 /\ y[2] \in Nat
      BY <2>2, <2>4 DEF IsAt
    <3> QED
      BY <2>4, <3>1, <3>2, SpotCases
  <2> HIDE DEF f
  <2> QED
    BY <1>2, <2>3, <2>4, Moved
<1>5. CASE UserDown(o) \/ CloseReply(o)
  <2> DEFINE f == [x \in Spots |-> IF x = <<"served", 0>> /\ p \notin served THEN <<"office", o>>
                                   ELSE x]
  <2>1. /\ queue' = queue /\ req' = [req EXCEPT ![o] = NoRequest]
        /\ served' = served \union {req[o].pid}
        /\ loop[o] \notin Requestless /\ loop'[o] = "clear"
    BY <1>5 DEF UserDown, CloseReply, Finish, queueVars, LoopStep, LoopAt, Requestless, TypeOK
  <2>2. ASSUME NEW x \in Spots, IsAt(p, x)'
        PROVE  f[x] \in Spots /\ IsAt(p, f[x]) /\ x # <<"office", o>>
    <3>1. CASE x = <<"served", 0>> /\ p \notin served
      <4>1. f[x] = <<"office", o>> /\ req[o].pid = p
        BY <2>1, <2>2, <3>1 DEF IsAt
      <4> QED
        BY <2>1, <3>1, <4>1, SpotMade DEF IsAt, InOffice
    <3>2. CASE ~ (x = <<"served", 0>> /\ p \notin served)
      <4>1. f[x] = x
        BY <3>2
      <4>2. x # <<"office", o>>
        BY <2>1, <2>2 DEF IsAt, InOffice, Requestless
      <4>3. x[1] = "office" => x[2] \in Offices \ {o}
        BY <4>2, SpotCases
      <4>4. x[1] = "served" => p \in served
        BY <3>2, SpotCases
      <4>5. IsAt(p, x)
        BY <1>1, <1>3, <2>1, <2>2, <4>3, <4>4, SpotCases
           DEF IsAt, InOffice, TypeOK, AccountsTypeOK
      <4> QED
        BY <4>1, <4>2, <4>5
    <3> QED
      BY <3>1, <3>2
  <2>3. \A x, y \in Spots : IsAt(p, x)' /\ IsAt(p, y)' /\ f[x] = f[y] => x = y
    BY <2>2
  <2>4. \A x \in Spots : IsAt(p, x)' => f[x] \in Spots /\ IsAt(p, f[x])
    BY <2>2
  <2> HIDE DEF f
  <2> QED
    BY <1>2, <2>3, <2>4, Moved
<1>6. CASE ~ PopRequest(o) /\ ~ (UserDown(o) \/ CloseReply(o))
  <2>1. UNCHANGED <<req, queue, served>>
    BY <1>6, OfficeKeepsRequest
  <2>2. loop'[o] \notin Requestless => loop[o] \notin Requestless
    BY <1>6 DEF Office, StartOffice, WaitFull, MarkActive, PostEmpty, Manage, ForkHash,
                LoseHash, EndHash, HashKills, InHash, ChmodFifo, CloseFifo, CountActive,
                RefuseShutdown, OpenReply, WriteReply, ClearActive, Die, LoopStep, LoopAt,
                Requestless, TypeOK, officeVars
  <2>3. \A x \in Spots : IsAt(p, x)' => IsAt(p, x)
    BY <1>1, <1>3, <2>1, <2>2, SpotCases DEF IsAt, InOffice
  <2> QED
    BY <1>2, <2>3, StaysPut
<1> QED
  BY <1>4, <1>5, <1>6

-----------------------------------------------------------------------------
(* What is on its way *)

LEMMA SentKept ==
  ASSUME TypeOK, CallsOwn, SentInv, [Next]_vars
  PROVE  SentInv'
<1>1. CASE UNCHANGED vars
  BY <1>1 DEF vars, accountVars, fifoVars, queueVars, officeVars, SentInv, FromUser, InHand
<1>2. ASSUME NEW q \in Pids, User(q)
      PROVE  SentInv'
  <2>1. /\ UNCHANGED <<main, call, inHand, queue, req, loop>>
        /\ fifo' = fifo \/ fifo' = Append(fifo, call[q])
    BY <1>2, UserLeaves
  <2>2. ASSUME NEW n \in 1 .. Len(fifo')
        PROVE  fifo'[n] = call'[fifo'[n].pid]
    <3>1. CASE fifo' = fifo
      BY <2>1, <3>1 DEF SentInv, FromUser
    <3>2. CASE fifo' = Append(fifo, call[q])
      <4>1. (n \in 1 .. Len(fifo) /\ fifo'[n] = fifo[n]) \/ fifo'[n] = call[q]
        BY <3>2 DEF TypeOK
      <4> QED
        BY <2>1, <4>1 DEF SentInv, CallsOwn, FromUser
    <3> QED
      BY <2>1, <3>1, <3>2
  <2> QED
    BY <2>1, <2>2 DEF SentInv, FromUser, InHand
<1>3. CASE Main
  <2>1. UNCHANGED <<call, req, loop>>
    BY <1>3, MainLeaves
  <2>2. CASE ReadRequest
    <3>1. /\ fifo # <<>> /\ inHand' = Head(fifo) /\ fifo' = Tail(fifo) /\ queue' = queue
      BY <2>2 DEF ReadRequest
    <3>2. /\ inHand' = fifo[1] /\ 1 \in 1 .. Len(fifo)
          /\ \A n \in 1 .. Len(fifo') : fifo'[n] = fifo[n + 1] /\ n + 1 \in 1 .. Len(fifo)
      BY <3>1 DEF TypeOK
    <3> QED
      BY <2>1, <3>1, <3>2 DEF SentInv, FromUser
  <2>3. CASE PushRequest
    <3>1. /\ queue' = Append(queue, inHand) /\ fifo' = fifo /\ InHand /\ ~ InHand'
      BY <2>3 DEF PushRequest, MainStep, fifoVars, InHand
    <3>2. \A n \in 1 .. Len(queue') :
            queue'[n] = inHand \/ (n \in 1 .. Len(queue) /\ queue'[n] = queue[n])
      BY <3>1 DEF TypeOK
    <3> QED
      BY <2>1, <3>1, <3>2 DEF SentInv, FromUser
  <2>4. CASE ~ ReadRequest /\ ~ PushRequest
    <3>1. /\ UNCHANGED <<fifo, queue, inHand>> /\ (InHand' => InHand)
      BY <1>3, <2>4 DEF Main, MakeFifo, OpenRead, OpenWrite, ReadEndOfFile, WaitEmpty,
           PostFull, SeeQueueEmpty, CheckOffice, CancelOffice, Destroy, MainStep, fifoVars,
           queueVars, InHand
    <3> QED
      BY <2>1, <3>1 DEF SentInv, FromUser
  <2> QED
    BY <2>2, <2>3, <2>4
<1>4. ASSUME NEW o \in Offices, Office(o)
      PROVE  SentInv'
  <2>1. /\ UNCHANGED <<call, fifo, inHand>> /\ (InHand' => InHand)
        /\ \A q \in Offices \ {o} : loop'[q] = loop[q]
    BY <1>4, OfficeLeaves, LoopStepKeepsOthers DEF InHand
  <2>2. CASE PopRequest(o)
    <3>1. /\ queue # <<>> /\ queue' = Tail(queue) /\ req' = [req EXCEPT ![o] = Head(queue)]
      BY <2>2 DEF PopRequest, Take
    <3>2. /\ Head(queue) = queue[1] /\ 1 \in 1 .. Len(queue)
          /\ \A n \in 1 .. Len(queue') : queue'[n] = queue[n + 1] /\ n + 1 \in 1 .. Len(queue)
      BY <3>1 DEF TypeOK
    <3>3. \A q \in Offices : req'[q] = IF q = o THEN queue[1] ELSE req[q]
      BY <3>1, <3>2 DEF TypeOK, AccountsTypeOK
    <3> QED
      BY <2>1, <3>2, <3>3 DEF SentInv, FromUser
  <2>3. CASE UserDown(o) \/ CloseReply(o)
    <3>1. /\ queue' = queue /\ req' = [req EXCEPT ![o] = NoRequest] /\ loop'[o] = "clear"
      BY <2>3 DEF UserDown, CloseReply, Finish, queueVars, LoopStep, TypeOK
    <3>2. \A q \in Offices \ {o} : req'[q] = req[q]
      BY <3>1 DEF TypeOK, AccountsTypeOK
    <3> QED
      BY <2>1, <3>1, <3>2 DEF SentInv, FromUser, Requestless
  <2>4. CASE ~ PopRequest(o) /\ ~ (UserDown(o) \/ CloseReply(o))
    <3>1. UNCHANGED <<req, queue>>
      BY <1>4, <2>4, OfficeKeepsRequest
    <3>2. loop'[o] \notin Requestless => loop[o] \notin Requestless
      BY <1>4, <2>4 DEF Office, StartOffice, WaitFull, MarkActive, PostEmpty, Manage, ForkHash,
                        LoseHash, EndHash, HashKills, InHash, ChmodFifo, CloseFifo, CountActive,
                        RefuseShutdown, OpenReply, WriteReply, ClearActive, Die, LoopStep,
                        LoopAt, Requestless, TypeOK, officeVars
    <3> QED
      BY <2>1, <3>1, <3>2 DEF SentInv, FromUser
  <2> QED
    BY <2>2, <2>3, <2>4
<1> QED
  BY <1>1, <1>2, <1>3, <1>4 DEF Next

-----------------------------------------------------------------------------
(* The descriptor *)

LEMMA PidsApart ==
  ASSUME TypeOK, NEW o \in Offices
  PROVE  req[o].pid \in Pids /\ req[o].pid \notin {"none", "server_fifo", "free"}
  BY RequestPid, BankOfficeAssumption DEF TypeOK, AccountsTypeOK, BankOfficeAssumption

LEMMA OthersKeep ==
  ASSUME TypeOK, NEW o \in Offices, Office(o), NEW q \in Offices, q # o
  PROVE  /\ loop'[q] = loop[q] /\ pc'[q] = pc[q] /\ req'[q] = req[q] /\ replyFD'[q] = replyFD[q]
<1>1. loop'[q] = loop[q] /\ pc'[q] = pc[q]
  BY LoopStepKeepsOthers
<1>2. req'[q] = req[q]
  <2>1. CASE PopRequest(o)
    BY <2>1 DEF PopRequest, Take, TypeOK, AccountsTypeOK
  <2>2. CASE UserDown(o) \/ CloseReply(o)
    BY <2>2 DEF UserDown, CloseReply, Finish, TypeOK, AccountsTypeOK
  <2> QED
    BY <2>1, <2>2, OfficeKeepsRequest
<1>3. replyFD'[q] = replyFD[q]
  BY DEF Office, StartOffice, WaitFull, MarkActive, PopRequest, PostEmpty, Manage, ForkHash,
         LoseHash, EndHash, HashKills, InHash, ChmodFifo, CloseFifo, CountActive,
         RefuseShutdown, OpenReply, UserDown, WriteReply, CloseReply, ClearActive, Die,
         replyVars, TypeOK
<1> QED
  BY <1>1, <1>2, <1>3

LEMMA WorkGoes ==
  ASSUME TypeOK, NEW o \in Offices, Work(o)
  PROVE  /\ pc[o] \notin {"shutdown", "reply"} /\ UNCHANGED req
         /\ pc'[o] = "shutdown" => req[o].type = "OP_SHUTDOWN"
<1> USE DEF TypeOK, AccountsTypeOK, Goto, At, RefuseWith, Unlocking
<1>1. CASE LockHeader(o) \/ Validate(o) \/ LockLow(o) \/ LockHigh(o) \/ UnlockHigh(o) \/ UnlockLow(o)
  BY <1>1 DEF LockHeader, Validate, LockLow, LockHigh, UnlockHigh, UnlockLow
<1>2. CASE UnlockHeader(o)
  BY <1>2 DEF UnlockHeader
<1>3. CASE HandleCreate(o) \/ CreateAccount(o) \/ HandleBalance(o)
  BY <1>3 DEF HandleCreate, CreateAccount, HandleBalance
<1>4. CASE HandleTransfer(o) \/ Debit(o) \/ Credit(o)
  BY <1>4 DEF HandleTransfer, Debit, Credit
<1> QED
  BY <1>1, <1>2, <1>3, <1>4 DEF Work

(* A request that has closed the descriptor has done so for good. *)
LEMMA ClosedStays ==
  ASSUME TypeOK, EndInOrder, DescriptorInv, NEW o \in Offices, Office(o), NEW p \in Pids, HasClosed(p)
  PROVE  HasClosed(p)'
<1>1. served \subseteq served'
  BY DEF Office, StartOffice, WaitFull, MarkActive, PopRequest, PostEmpty, Manage, ForkHash,
         LoseHash, EndHash, HashKills, InHash, ChmodFifo, CloseFifo, CountActive,
         RefuseShutdown, OpenReply, UserDown, WriteReply, CloseReply, ClearActive, Die,
         replyVars
<1>2. CASE p \in served
  BY <1>1, <1>2 DEF HasClosed
<1>3. CASE p \notin served
  <2>1. PICK q \in Offices : InOffice(q, p) /\ (loop[q] = "count" \/ pc[q] = "reply")
    BY <1>3 DEF HasClosed
  <2>2. CASE q # o
    BY <2>1, <2>2, OthersKeep DEF HasClosed, InOffice
  <2>3. CASE q = o
    <3>a. /\ loop[o] \notin Requestless /\ req[o].pid = p /\ ControlOK(o)
      BY <2>1, <2>3 DEF InOffice, DescriptorInv
    <3>1. CASE UserDown(o) \/ CloseReply(o)
      BY <3>a, <3>1 DEF UserDown, CloseReply, HasClosed
    <3>2. CASE CountActive(o)
      <4>1. loop'[o] = "manage" /\ pc'[o] = "reply" /\ req' = req
        BY <3>2 DEF CountActive, LoopStep, HandleShutdown, Goto, TypeOK, AccountsTypeOK
      <4> QED
        BY <3>a, <4>1 DEF HasClosed, InOffice, Requestless
    <3>3. CASE OpenReply(o) \/ WriteReply(o) \/ PostEmpty(o)
      <4>1. UNCHANGED <<pc, req>> /\ loop'[o] \in {"write", "close_reply", "manage"} /\ loop[o] # "count"
        BY <3>3 DEF OpenReply, WriteReply, PostEmpty, LoopStep, LoopAt, TypeOK, accountVars
      <4> QED
        BY <2>1, <2>3, <3>a, <4>1 DEF HasClosed, InOffice, Requestless
    <3>4. CASE Manage(o) \/ RefuseShutdown(o) \/ ChmodFifo(o) \/ CloseFifo(o)
      <4>1. pc[o] # "reply" /\ loop[o] # "count"
        BY <3>a, <3>4, WorkGoes
           DEF Manage, RefuseShutdown, ChmodFifo, CloseFifo, LoopStep, LoopAt, HandleShutdown, At,
               ControlOK
      <4> QED
        BY <2>1, <2>3, <4>1
    <3>5. CASE StartOffice(o) \/ WaitFull(o) \/ MarkActive(o) \/ PopRequest(o) \/ ClearActive(o)
               \/ Die(o)
      BY <3>a, <3>5 DEF StartOffice, WaitFull, MarkActive, PopRequest, ClearActive, Die, LoopStep,
                        LoopAt, Requestless, Resting, EndInOrder
    <3>6. CASE HashStep(o)
      <4>1. UNCHANGED <<pc, req, loop>>
        BY <3>6, HashStepChanges DEF accountVars, officeVars
      <4> QED
        BY <2>1, <2>3, <4>1 DEF HasClosed, InOffice
    <3> QED
      BY <3>1, <3>2, <3>3, <3>4, <3>5, <3>6 DEF Office, HashStep
  <2> QED
    BY <2>2, <2>3
<1> QED
  BY <1>2, <1>3

(* Two offices do not have the same user's request. *)
LEMMA OneOffice ==
  ASSUME PlacesInv, NEW o \in Offices, NEW q \in Offices, NEW p \in Pids,
         InOffice(o, p), InOffice(q, p)
  PROVE  o = q
<1>1. /\ <<"office", o>> \in Spots /\ <<"office", q>> \in Spots
      /\ IsAt(p, <<"office", o>>) /\ IsAt(p, <<"office", q>>)
  BY SpotMade DEF IsAt
<1> QED
  BY <1>1 DEF PlacesInv, OneSpot

LEMMA NotServed ==
  ASSUME PlacesInv, NEW o \in Offices, NEW p \in Pids, InOffice(o, p)
  PROVE  p \notin served
<1>1. <<"office", o>> \in Spots /\ IsAt(p, <<"office", o>>) /\ <<"served", 0>> \in Spots
  BY SpotMade DEF IsAt
<1>2. p \in served => IsAt(p, <<"served", 0>>)
  BY DEF IsAt
<1> QED
  BY <1>1, <1>2 DEF PlacesInv, OneSpot

(* With one shutdown request, the office that has it closes the server's    *)
(* write end, and nothing else.                                              *)
LEMMA ClosesServerFifo ==
  ASSUME OneShutdown, OfficeInv, EndInv, PlacesInv, SentInv, DescriptorInv,
         NEW o \in Offices, ChmodFifo(o)
  PROVE  shutdownFD = "server_fifo"
<1>1. /\ loop[o] = "manage" /\ pc[o] = "shutdown" /\ ByAdmin(o) /\ Running
  BY DEF ChmodFifo, LoopStep, LoopAt, At
<1>2. PICK p : p = req[o].pid
  OBVIOUS
<1>3. p \in Pids /\ InOffice(o, p) /\ req[o] = call[p]
  BY <1>1, <1>2, PidsApart DEF OfficeInv, SentInv, FromUser, InOffice, Requestless
<1>4. StopsServer(call[p]) /\ call[p] \in CallsOf[p]
  BY <1>1, <1>3 DEF DescriptorInv, ControlOK, ByAdmin, StopsServer, SentInv
<1>5. shutdownFD # "none"
  BY <1>1 DEF EndInv, EarlyOK, OpenOK, Resting
<1>6. ASSUME shutdownFD \notin {"none", "server_fifo"}
      PROVE  FALSE
  <2>1. PICK q \in Pids : StopsServer(call[q]) /\ HasClosed(q)
    BY <1>6 DEF DescriptorInv, ClosedByShutdown
  <2>2. q = p
    BY <1>3, <1>4, <2>1 DEF OneShutdown, SentInv
  <2>3. p \notin served
    BY <1>3, NotServed
  <2>4. PICK r \in Offices : InOffice(r, p) /\ (loop[r] = "count" \/ pc[r] = "reply")
    BY <2>1, <2>2, <2>3 DEF HasClosed
  <2>5. r = o
    BY <1>3, <2>4, OneOffice
  <2> QED
    BY <1>1, <2>4, <2>5
<1> QED
  BY <1>5, <1>6

LEMMA OthersControl ==
  ASSUME OneShutdown, OfficeInv, PlacesInv, SentInv, DescriptorInv,
         NEW o \in Offices, Office(o), NEW q \in Offices, q # o
  PROVE  ControlOK(q)'
<1>1. TypeOK /\ ControlOK(o) /\ ControlOK(q)
  BY DEF OfficeInv, DescriptorInv
<1>2. /\ loop'[q] = loop[q] /\ pc'[q] = pc[q] /\ req'[q] = req[q] /\ replyFD'[q] = replyFD[q]
  BY <1>1, OthersKeep
<1>3. CASE shutdownFD' = shutdownFD
  BY <1>1, <1>2, <1>3 DEF ControlOK, ByAdmin
<1> SUFFICES ASSUME shutdownFD' # shutdownFD
             PROVE  loop[q] # "close_fifo" /\ replyFD[q] # "shutdown_fd"
  BY <1>1, <1>2, <1>3 DEF ControlOK, ByAdmin
<1>4. CASE CloseFifo(o)
  <2>1. loop[o] = "close_fifo" /\ shutdownFD = "server_fifo" /\ pc[o] = "shutdown" /\ ByAdmin(o)
    BY <1>1, <1>4 DEF CloseFifo, LoopStep, LoopAt, ControlOK
  <2>2. replyFD[q] # "shutdown_fd"
    BY <1>1, <2>1, PidsApart DEF ControlOK
  <2>3. ASSUME loop[q] = "close_fifo"
        PROVE  FALSE
    <3>1. pc[q] = "shutdown" /\ ByAdmin(q)
      BY <1>1, <2>3 DEF ControlOK
    <3>2. req[o] = call[req[o].pid] /\ req[q] = call[req[q].pid]
      BY <2>1, <2>3 DEF SentInv, FromUser, Requestless
    <3>3. StopsServer(req[o]) /\ StopsServer(req[q])
      BY <1>1, <2>1, <3>1 DEF ControlOK, ByAdmin, StopsServer
    <3>4. req[o].pid \in Pids /\ req[q].pid \in Pids
      BY <1>1, PidsApart
    <3>5. call[req[o].pid] \in CallsOf[req[o].pid] /\ call[req[q].pid] \in CallsOf[req[q].pid]
      BY <3>4 DEF SentInv
    <3>6. req[o].pid = req[q].pid
      BY <3>2, <3>3, <3>4, <3>5 DEF OneShutdown
    <3>7. InOffice(o, req[o].pid) /\ InOffice(q, req[o].pid)
      BY <2>1, <2>3, <3>6 DEF InOffice, Requestless
    <3> QED
      BY <3>4, <3>7, OneOffice
  <2> QED
    BY <2>2, <2>3
<1>5. CASE OpenReply(o)
  <2>1. shutdownFD = "free"
    BY <1>5 DEF OpenReply
  <2> QED
    BY <1>1, <2>1, PidsApart DEF ControlOK
<1>6. CASE CloseReply(o)
  <2>1. loop[o] = "close_reply" /\ replyFD[o] = "shutdown_fd"
    BY <1>6 DEF CloseReply, LoopStep, LoopAt
  <2>2. shutdownFD = req[o].pid
    BY <1>1, <2>1 DEF ControlOK
  <2>3. loop[q] # "close_fifo"
    BY <1>1, <2>2, PidsApart DEF ControlOK
  <2>4. ASSUME replyFD[q] = "shutdown_fd"
        PROVE  FALSE
    <3>1. loop[q] \in Replying /\ req[q].pid = req[o].pid
      BY <1>1, <2>2, <2>4 DEF ControlOK
    <3>2. InOffice(o, req[o].pid) /\ InOffice(q, req[o].pid)
      BY <2>1, <3>1 DEF InOffice, Requestless, Replying
    <3> QED
      BY <1>1, <3>2, OneOffice, PidsApart
  <2> QED
    BY <2>3, <2>4
<1>7. CASE ~ (CloseFifo(o) \/ OpenReply(o) \/ CloseReply(o))
  BY <1>7 DEF Office, StartOffice, WaitFull, MarkActive, PopRequest, PostEmpty, Manage,
              ForkHash, LoseHash, EndHash, HashKills, InHash, ChmodFifo, CountActive,
              RefuseShutdown, UserDown, WriteReply, ClearActive, Die
<1> QED
  BY <1>4, <1>5, <1>6, <1>7

LEMMA OwnControl ==
  ASSUME OneShutdown, OfficeInv, EndInv, PlacesInv, SentInv, DescriptorInv,
         NEW o \in Offices, Office(o)
  PROVE  ControlOK(o)'
<1>1. TypeOK /\ ControlOK(o) /\ EndInOrder
  BY DEF OfficeInv, DescriptorInv
<1>2. CASE ChmodFifo(o)
  <2>1. shutdownFD = "server_fifo"
    BY <1>2, ClosesServerFifo
  <2>2. /\ UNCHANGED <<pc, req, replyFD, shutdownFD>> /\ loop[o] = "manage"
        /\ loop'[o] = "close_fifo" /\ pc[o] = "shutdown" /\ ByAdmin(o)
    BY <1>1, <1>2 DEF ChmodFifo, LoopStep, LoopAt, At, accountVars, replyVars, TypeOK
  <2> QED
    BY <1>1, <2>1, <2>2 DEF ControlOK, Replying, ByAdmin
<1>3. CASE CloseFifo(o)
  <2>1. /\ UNCHANGED <<pc, req, replyFD>> /\ loop[o] = "close_fifo" /\ loop'[o] = "count"
    BY <1>1, <1>3 DEF CloseFifo, LoopStep, LoopAt, accountVars, replyVars, TypeOK
  <2> QED
    BY <1>1, <2>1 DEF ControlOK, Replying, ByAdmin
<1>4. CASE CountActive(o) \/ RefuseShutdown(o)
  <2>1. /\ UNCHANGED <<req, replyFD, shutdownFD>> /\ pc'[o] = "reply" /\ loop'[o] = "manage"
        /\ loop[o] \notin Replying
    BY <1>1, <1>4 DEF CountActive, RefuseShutdown, HandleShutdown, Goto, LoopStep, LoopAt,
                      officeVars,
                      replyVars, TypeOK, AccountsTypeOK, Replying
  <2> QED
    BY <1>1, <2>1 DEF ControlOK, Replying
<1>5. CASE Manage(o)
  <2>1. /\ UNCHANGED <<req, replyFD, shutdownFD>> /\ loop[o] = "manage" /\ loop' = loop
        /\ (pc'[o] = "shutdown" => req[o].type = "OP_SHUTDOWN")
    BY <1>1, <1>5, WorkGoes DEF Manage, LoopAt, officeVars, replyVars
  <2> QED
    BY <1>1, <2>1 DEF ControlOK, Replying
<1>6. CASE OpenReply(o)
  <2>1. /\ UNCHANGED <<pc, req>> /\ loop[o] = "manage" /\ loop'[o] = "write" /\ pc[o] = "reply"
        /\ replyFD'[o] \in {"own", "shutdown_fd"}
        /\ replyFD'[o] = "shutdown_fd" => shutdownFD' = req[o].pid
    BY <1>1, <1>6 DEF OpenReply, LoopStep, LoopAt, At, accountVars, TypeOK
  <2> QED
    BY <1>1, <2>1 DEF ControlOK, Replying
<1>7. CASE WriteReply(o)
  <2>1. UNCHANGED <<pc, req, replyFD, shutdownFD>> /\ loop[o] = "write" /\ loop'[o] = "close_reply"
    BY <1>1, <1>7 DEF WriteReply, LoopStep, LoopAt, accountVars, replyVars, TypeOK
  <2> QED
    BY <1>1, <2>1 DEF ControlOK, Replying
<1>8. CASE CloseReply(o) \/ UserDown(o)
  <2>1. /\ loop'[o] = "clear" /\ pc'[o] = "idle" /\ (CloseReply(o) => replyFD'[o] = "none")
        /\ UserDown(o) => replyFD' = replyFD /\ loop[o] = "manage"
    BY <1>1, <1>8 DEF CloseReply, UserDown, Finish, Goto, LoopStep, LoopAt, TypeOK, AccountsTypeOK
  <2>2. replyFD'[o] # "shutdown_fd"
    BY <1>1, <1>8, <2>1 DEF ControlOK, Replying
  <2> QED
    BY <2>1, <2>2 DEF ControlOK, Replying
<1>9. CASE PopRequest(o)
  <2>1. /\ loop[o] = "pop" /\ loop'[o] = "post_empty" /\ pc'[o] = "lock_header" /\ replyFD' = replyFD
    BY <1>1, <1>9 DEF PopRequest, Take, Goto, LoopStep, LoopAt, replyVars, TypeOK, AccountsTypeOK
  <2> QED
    BY <1>1, <2>1 DEF ControlOK, Replying
<1>10. CASE PostEmpty(o) \/ StartOffice(o) \/ WaitFull(o) \/ MarkActive(o) \/ ClearActive(o) \/ Die(o)
  <2>1. /\ UNCHANGED <<pc, req, replyFD, shutdownFD>> /\ loop[o] \notin Replying
        /\ loop'[o] \in {"manage", "wait", "mark", "pop", "gone"}
    BY <1>1, <1>10 DEF PostEmpty, StartOffice, WaitFull, MarkActive, ClearActive, Die, LoopStep,
                       LoopAt,
                       accountVars, replyVars, TypeOK, EndInOrder, Resting, Replying
  <2> QED
    BY <1>1, <2>1 DEF ControlOK, Replying
<1>11. CASE HashStep(o)
  <2>1. UNCHANGED <<pc, req, loop, replyFD, shutdownFD>>
    BY <1>11, HashStepChanges DEF accountVars, officeVars, replyVars
  <2> QED
    BY <1>1, <2>1 DEF ControlOK, ByAdmin
<1> QED
  BY <1>2, <1>3, <1>4, <1>5, <1>6, <1>7, <1>8, <1>9, <1>10, <1>11 DEF Office, HashStep

LEMMA ClosedKept ==
  ASSUME OfficeInv, SentInv, DescriptorInv, NEW o \in Offices, Office(o)
  PROVE  ClosedByShutdown'
<1>1. TypeOK /\ ControlOK(o) /\ EndInOrder /\ call' = call
  BY OfficeLeaves DEF OfficeInv, DescriptorInv
<1>2. ASSUME shutdownFD \notin {"none", "server_fifo"}
      PROVE  ClosedByShutdown'
  <2>1. PICK p \in Pids : StopsServer(call[p]) /\ HasClosed(p)
    BY <1>2 DEF DescriptorInv, ClosedByShutdown
  <2>2. HasClosed(p)'
    BY <1>1, <2>1, ClosedStays
  <2> QED
    BY <1>1, <2>1, <2>2 DEF ClosedByShutdown
<1>3. CASE CloseFifo(o)
  <2>1. /\ UNCHANGED <<pc, req>> /\ loop[o] = "close_fifo" /\ loop'[o] = "count"
        /\ pc[o] = "shutdown" /\ ByAdmin(o)
    BY <1>1, <1>3 DEF CloseFifo, LoopStep, LoopAt, accountVars, TypeOK, ControlOK
  <2>2. req[o].pid \in Pids /\ req[o] = call[req[o].pid] /\ StopsServer(req[o])
    BY <1>1, <2>1, PidsApart
       DEF SentInv, FromUser, Requestless, ControlOK, ByAdmin, StopsServer
  <2>3. HasClosed(req[o].pid)'
    BY <2>1 DEF HasClosed, InOffice, Requestless
  <2>4. PICK p \in Pids : p = req[o].pid
    BY <2>2
  <2>5. StopsServer(call'[p]) /\ HasClosed(p)'
    BY <1>1, <2>1, <2>2, <2>4 DEF HasClosed, InOffice, Requestless
  <2> QED
    BY <2>5 DEF ClosedByShutdown
<1>4. ASSUME shutdownFD \in {"none", "server_fifo"}, ~ CloseFifo(o)
      PROVE  shutdownFD' = shutdownFD
  <2>1. CASE OpenReply(o)
    BY <1>4, <2>1 DEF OpenReply
  <2>2. CASE CloseReply(o)
    <3>1. replyFD[o] # "shutdown_fd"
      BY <1>1, <1>4, PidsApart DEF ControlOK
    <3> QED
      BY <2>2, <3>1 DEF CloseReply
  <2>3. CASE ~ (OpenReply(o) \/ CloseReply(o))
    BY <1>4, <2>3 DEF Office, StartOffice, WaitFull, MarkActive, PopRequest, PostEmpty, Manage,
                      ForkHash, LoseHash, EndHash, HashKills, InHash, ChmodFifo, CountActive,
                      RefuseShutdown, UserDown, WriteReply, ClearActive, Die
  <2> QED
    BY <2>1, <2>2, <2>3
<1> QED
  BY <1>2, <1>3, <1>4 DEF ClosedByShutdown

LEMMA RepliesKept ==
  ASSUME TypeOK, DescriptorInv, NEW o \in Offices, Office(o)
  PROVE  RepliesReachTheirUsers' /\ SurvivesUnsentReply'
<1>1. CASE WriteReply(o)
  <2>1. loop[o] = "write" /\ ControlOK(o)
    BY <1>1 DEF WriteReply, LoopStep, LoopAt, DescriptorInv
  <2>2. ReplyTo(o) = req[o].pid /\ ReplyTo(o) # "free" /\ req[o].pid \in Pids
    BY <2>1, PidsApart DEF ReplyTo, ControlOK, Replying
  <2>3. main' = main /\ inbox' = [inbox EXCEPT ![req[o].pid] = inbox[req[o].pid] \union {req[o].pid}]
    BY <1>1, <2>2 DEF WriteReply
  <2> QED
    BY <2>2, <2>3 DEF DescriptorInv, RepliesReachTheirUsers, SurvivesUnsentReply, TypeOK
<1>2. CASE ~ WriteReply(o)
  <2>1. main' \in {main, "killed"} /\ inbox' = inbox
    BY <1>2 DEF Office, StartOffice, WaitFull, MarkActive, PopRequest, PostEmpty, Manage,
                ForkHash, LoseHash, EndHash, HashKills, InHash, ChmodFifo, CloseFifo,
                CountActive, RefuseShutdown, OpenReply, UserDown, CloseReply, ClearActive, Die,
                replyVars
  <2> QED
    BY <2>1 DEF DescriptorInv, RepliesReachTheirUsers, SurvivesUnsentReply
<1> QED
  BY <1>1, <1>2

LEMMA DescriptorWithMain ==
  ASSUME TypeOK, EndInv, DescriptorInv, Main
  PROVE  DescriptorInv'
<1>1. UNCHANGED <<call, loop, req, pc, replyFD, served>>
  BY MainLeaves, MainKeepsLoops
<1>2. inbox' = inbox /\ main' # "crashed"
  BY DEF Main, MakeFifo, OpenRead, OpenWrite, ReadRequest, ReadEndOfFile, WaitEmpty,
         PushRequest, PostFull, SeeQueueEmpty, CheckOffice, CancelOffice, Destroy, MainStep,
         replyVars
<1>3. \A p \in Pids : HasClosed(p)' <=> HasClosed(p)
  BY <1>1 DEF HasClosed, InOffice
<1>4. CASE shutdownFD' = shutdownFD
  BY <1>1, <1>2, <1>3, <1>4
     DEF DescriptorInv, ControlOK, ByAdmin, ClosedByShutdown, RepliesReachTheirUsers,
         SurvivesUnsentReply
<1>5. CASE shutdownFD' # shutdownFD
  <2>1. OpenWrite
    BY <1>5 DEF Main, MakeFifo, OpenRead, ReadRequest, ReadEndOfFile, WaitEmpty,
         PushRequest, PostFull, SeeQueueEmpty, CheckOffice, CancelOffice, Destroy
  <2>2. main \in Early /\ shutdownFD' = "server_fifo"
    BY <2>1 DEF OpenWrite, MainStep, Early
  <2>3. \A o \in Offices : loop[o] \in Resting
    BY <2>2 DEF EndInv, EarlyOK
  <2>4. \A o \in Offices : ControlOK(o)'
    BY <1>1, <2>3 DEF DescriptorInv, ControlOK, Resting, Replying
  <2> QED
    BY <1>1, <1>2, <2>2, <2>4
       DEF DescriptorInv, ClosedByShutdown, RepliesReachTheirUsers, SurvivesUnsentReply
<1> QED
  BY <1>4, <1>5

-----------------------------------------------------------------------------
(* The inductive invariant and the theorems *)

RepliesInv == PlacesInv /\ SentInv /\ DescriptorInv

(* At the start nobody has sent or closed anything.                          *)
THEOREM RepliesInvInit == Init => RepliesInv
<1> SUFFICES ASSUME Init
             PROVE  RepliesInv
  OBVIOUS
<1>1. \A o \in Offices : loop[o] = "start" /\ pc[o] = "idle" /\ replyFD[o] = "none"
  BY DEF Init, AccountsInit
<1>2. main = "make_fifo" /\ fifo = <<>> /\ queue = <<>> /\ served = {} /\ shutdownFD = "none"
  BY DEF Init
<1>3. \A p \in Pids : \A x \in Spots : ~ IsAt(p, x)
  BY <1>1, <1>2, SpotCases DEF IsAt, InHand, InOffice, Requestless
<1>4. PlacesInv
  BY <1>3 DEF PlacesInv, OneSpot, Unwritten
<1>5. SentInv
  BY <1>1, <1>2 DEF Init, SentInv, InHand, Requestless
<1>6. DescriptorInv
  BY <1>1, <1>2 DEF Init, DescriptorInv, ControlOK, Replying, ClosedByShutdown,
                    RepliesReachTheirUsers, SurvivesUnsentReply
<1> QED
  BY <1>4, <1>5, <1>6 DEF RepliesInv

(* With one shutdown request every step keeps each request in one place and  *)
(* the descriptor of the server's write end with one owner                    *)
(* (bankoffice.c:186-194, 375-387).                                            *)
THEOREM RepliesInvStep ==
  ASSUME OneShutdown, OfficeInv, EndInv, RepliesInv, [Next]_vars
  PROVE  RepliesInv'
<1>1. TypeOK /\ EndInOrder /\ CallsOwn
  BY DEF OfficeInv, EndInv
<1>2. SentInv'
  BY <1>1, SentKept DEF RepliesInv
<1>3. ASSUME NEW p \in Pids, User(p)
      PROVE  PlacesInv' /\ DescriptorInv'
  <2>1. PlacesInv'
    BY <1>1, <1>3, PlacesWithUser DEF RepliesInv
  <2>2. UNCHANGED <<accountVars, main, officeVars, shutdownFD, replyVars, call>>
    BY <1>3, UserKeepsAccounts, UserLeaves
  <2>3. DescriptorInv'
    BY <2>2 DEF accountVars, officeVars, replyVars, RepliesInv, DescriptorInv, ControlOK, ByAdmin,
                ClosedByShutdown, HasClosed, InOffice, RepliesReachTheirUsers, SurvivesUnsentReply
  <2> QED
    BY <2>1, <2>3
<1>4. CASE Main
  BY <1>1, <1>2, <1>4, PlacesWithMain, DescriptorWithMain DEF RepliesInv
<1>5. ASSUME NEW o \in Offices, Office(o)
      PROVE  PlacesInv' /\ DescriptorInv'
  <2>1. PlacesInv'
    BY <1>1, <1>5, PlacesWithOffice DEF RepliesInv
  <2>2. \A q \in Offices : ControlOK(q)'
    BY <1>5, OwnControl, OthersControl DEF RepliesInv
  <2>3. ClosedByShutdown' /\ RepliesReachTheirUsers' /\ SurvivesUnsentReply'
    BY <1>1, <1>5, ClosedKept, RepliesKept DEF RepliesInv
  <2> QED
    BY <2>1, <2>2, <2>3 DEF DescriptorInv
<1>6. CASE UNCHANGED vars
  <2>1. PlacesInv'
    BY <1>6 DEF vars, accountVars, fifoVars, queueVars, officeVars, replyVars, RepliesInv,
                PlacesInv,
                OneSpot, Unwritten, IsAt, InHand, InOffice
  <2>2. DescriptorInv'
    BY <1>6 DEF vars, fifoVars, accountVars, officeVars, replyVars, RepliesInv, DescriptorInv,
                ControlOK, ByAdmin, ClosedByShutdown, HasClosed, InOffice, RepliesReachTheirUsers,
                SurvivesUnsentReply
  <2> QED
    BY <1>2, <2>1, <2>2 DEF RepliesInv
<1> QED
  BY <1>2, <1>3, <1>4, <1>5, <1>6 DEF RepliesInv, Next

(* In every state of the service each request is in one place and the         *)
(* descriptor of the server's write end has one owner (bankoffice.c:186-194,  *)
(* 372-386).                                                                  *)
THEOREM RepliesAreRight ==
  ASSUME OneShutdown
  PROVE  Spec => []RepliesInv
<1>1. Init => EndInv /\ RepliesInv
  BY EndInvInit, RepliesInvInit
<1>2. OfficeInv /\ EndInv /\ RepliesInv /\ [Next]_vars => (EndInv /\ RepliesInv)'
  BY EndInvStep, RepliesInvStep
<1> QED
  BY <1>1, <1>2, OfficeInvariant, PTL DEF Spec

(* If the administrator asks once for the server to be stopped, every reply *)
(* comes to the FIFO of the user it is for, though the number of the server's *)
(* write end is used again for the users' FIFOs (bankoffice.c:375-387).       *)
THEOREM RepliesReachUsers ==
  ASSUME OneShutdown
  PROVE  Spec => []RepliesReachTheirUsers
<1>1. RepliesInv => RepliesReachTheirUsers
  BY DEF RepliesInv, DescriptorInv
<1> QED
  BY <1>1, RepliesAreRight, PTL

(* If the administrator asks once for the server to be stopped, no reply is *)
(* written to a descriptor that is closed, and the server does not exit for  *)
(* it: the second request is what it takes (bankoffice.c:190, 381).           *)
THEOREM OneShutdownIsSurvived ==
  ASSUME OneShutdown
  PROVE  Spec => []SurvivesUnsentReply
<1>1. RepliesInv => SurvivesUnsentReply
  BY DEF RepliesInv, DescriptorInv
<1> QED
  BY <1>1, RepliesAreRight, PTL
=============================================================================
