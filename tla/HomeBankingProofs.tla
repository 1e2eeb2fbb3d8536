-------------------------- MODULE HomeBankingProofs --------------------------
(***************************************************************************)
(* Proofs about HomeBanking: the server and the user programs together,    *)
(* for any number of both.                                                  *)
(*                                                                         *)
(* Every step is a step of BankOffice, or leaves it alone, or is the one by *)
(* which a user that has gone kills the server; so its invariants carry     *)
(* over.  What a user is shown is then tied to where its request is: one    *)
(* that was not sent is nowhere (LinkInv), and one that an office answers   *)
(* has its user waiting or timed out, with nothing in its FIFO before the   *)
(* reply (WaitInv).                                                         *)
(***************************************************************************)
EXTENDS HomeBanking, BankOfficeProofs

-----------------------------------------------------------------------------
(* The steps of the service as steps of BankOffice *)

LEMMA HomeSteps ==
  ASSUME [HomeNext]_homeVars
  PROVE  [Next]_vars \/ \E o \in Offices : BreakPipe(o)
<1>1. ASSUME NEW p \in Pids, UserProgram(p) PROVE [Next]_vars
  BY <1>1 DEF UserProgram, OpenAndSee, WriteAndSee, CloseAndGo, Next, User
<1>2. ASSUME NEW o \in Offices, ServerOffice(o), ~ BreakPipe(o) PROVE Office(o)
  BY <1>2 DEF ServerOffice, OpenReplyTo, FindUserDown, SendTo, Inside, Office
<1>3. CASE HomeNext
  BY <1>1, <1>2, <1>3 DEF HomeNext, Next
<1>4. CASE UNCHANGED homeVars
  BY <1>4 DEF homeVars
<1> QED
  BY <1>3, <1>4

(* A server that dies keeps what is known of it but that it runs. *)
LEMMA OfficeInvAtEnd ==
  ASSUME OfficeInv, NEW o \in Offices, BreakPipe(o)
  PROVE  OfficeInv'
<1>1. /\ UNCHANGED <<accountVars, fifoVars, queueVars, officeVars, endVars, childVars, shutdownFD,
                     replyVars>>
      /\ main' = "crashed"
  BY DEF BreakPipe
<1>2. TypeOK' /\ HandOK'
  BY <1>1 DEF OfficeInv, TypeOK, HandOK, AccountsTypeOK, accountVars, fifoVars, queueVars,
              officeVars, endVars, childVars, replyVars, MainPCs
<1>3. SemaphoresMatchQueue'
  BY <1>1 DEF SemaphoresMatchQueue, Running
<1>4. LoopMatchesWork' /\ BusyIsActive'
  BY <1>1 DEF OfficeInv, LoopMatchesWork, BusyIsActive, accountVars, officeVars
<1>5. EndInOrder'
  BY <1>1 DEF OfficeInv, EndInOrder, queueVars, officeVars, endVars
<1> QED
  BY <1>2, <1>3, <1>4, <1>5 DEF OfficeInv

LEMMA AccountsInvAtEnd ==
  ASSUME AccountsInv, NEW o \in Offices, BreakPipe(o)
  PROVE  AccountsInv'
<1>1. UNCHANGED accountVars
  BY DEF BreakPipe
<1> QED
  BY <1>1, InvInductive

LEMMA EndInvAtEnd ==
  ASSUME EndInv, NEW o \in Offices, BreakPipe(o)
  PROVE  EndInv'
<1>1. /\ UNCHANGED <<accountVars, fifoVars, queueVars, officeVars, endVars, shutdownFD, replyVars>>
      /\ main' = "crashed" /\ loop[o] = "write"
  BY DEF BreakPipe, LoopAt
<1>2. EarlyOK' /\ LateOK' /\ AllAccounted'
  BY <1>1 DEF EarlyOK, LateOK, AllAccounted, Early, Late, Running
<1>3. main \notin Early
  BY <1>1 DEF EndInv, EarlyOK, Resting
<1>4. OpenOK' /\ ClosedOK' /\ CallsOwn'
  BY <1>1, <1>3 DEF EndInv, OpenOK, ClosedOK, CallsOwn, fifoVars, officeVars, replyVars
<1> QED
  BY <1>2, <1>4 DEF EndInv

LEMMA PlacesAtEnd ==
  ASSUME PlacesInv, NEW o \in Offices, BreakPipe(o)
  PROVE  PlacesInv'
<1>1. /\ UNCHANGED <<user, fifo, queue, inHand, loop, req, served>> /\ ~ InHand'
  BY DEF BreakPipe, fifoVars, queueVars, officeVars, accountVars, replyVars, InHand
<1>2. \A p \in Pids : \A x \in Spots : IsAt(p, x)' => IsAt(p, x)
  BY <1>1 DEF IsAt, InOffice
<1>3. \A p \in Pids : OneSpot(p)' /\ Unwritten(p)'
  BY <1>1, <1>2, StaysPut DEF PlacesInv, Unwritten
<1> QED
  BY <1>3 DEF PlacesInv

ServerInv == AccountsInv /\ OfficeInv /\ EndInv /\ PlacesInv

LEMMA ServerInvInit == Init => ServerInv
  BY OfficeInvInit, EndInvInit, RepliesInvInit DEF ServerInv, RepliesInv

LEMMA PlacesKept ==
  ASSUME OfficeInv, EndInv, PlacesInv, [Next]_vars
  PROVE  PlacesInv'
<1>1. TypeOK /\ EndInOrder /\ CallsOwn
  BY DEF OfficeInv, EndInv
<1>2. CASE UNCHANGED vars
  BY <1>2 DEF vars, accountVars, fifoVars, queueVars, officeVars, replyVars, PlacesInv,
              OneSpot, Unwritten, IsAt, InHand, InOffice
<1> QED
  BY <1>1, <1>2, PlacesWithUser, PlacesWithMain, PlacesWithOffice DEF Next

LEMMA ServerInvStep ==
  ASSUME ServerInv, [HomeNext]_homeVars
  PROVE  ServerInv'
<1>1. CASE [Next]_vars
  BY <1>1, OfficeInvKept, EndInvStep, PlacesKept DEF ServerInv
<1>2. ASSUME NEW o \in Offices, BreakPipe(o) PROVE ServerInv'
  BY <1>2, AccountsInvAtEnd, OfficeInvAtEnd, EndInvAtEnd, PlacesAtEnd DEF ServerInv
<1> QED
  BY <1>1, <1>2, HomeSteps

-----------------------------------------------------------------------------
(* The user programs *)

SessionTypes ==
  /\ step \in [Pids -> Steps]
  /\ alarm \in [Pids -> BOOLEAN]
  /\ reads \in [Pids -> BOOLEAN] /\ came \in [Pids -> BOOLEAN]
  /\ arrived \in [Pids -> Seq(Tags)]
  /\ result \in [Pids -> Results]
  /\ past = [p \in Pids |-> <<>>]

(* Where a user program is, where it is in sendRequest, and what it shows *)
LinkOK(p) ==
  /\ \/ step[p] \in {"start", "make_fifo", "open"} /\ user[p] = "start" /\ result[p] = "none"
     \/ step[p] = "write" /\ user[p] = "opened" /\ result[p] = "none"
     \/ step[p] = "close" /\ user[p] = "written" /\ result[p] = "none"
     \/ step[p] \in {"arm", "open_own", "opening", "read"} /\ user[p] = "sent" /\ result[p] = "none"
     \/ step[p] = "got" /\ user[p] = "sent" /\ result[p] \in {"reply", "OTHER"}
     \/ /\ step[p] \in {"log", "delete", "ended"}
        /\ \/ user[p] = "srv_down" /\ result[p] = "SRV_DOWN"
           \/ user[p] = "sent" /\ result[p] \in {"reply", "OTHER", "SRV_TIMEOUT"}
     \/ step[p] \in {"delete", "ended"} /\ user[p] = "sent" /\ result[p] = "USR_DOWN"
     \/ step[p] = "ended" /\ user[p] = "failed" /\ result[p] = "not_sent"
     \/ step[p] = "ended" /\ user[p] = "start" /\ result[p] = "no_fifo"
  /\ alarm[p] => step[p] \in {"open_own", "opening", "read", "got"} \/ result[p] = "USR_DOWN"

LinkInv == SessionTypes /\ \A p \in Pids : LinkOK(p)

LEMMA TagIsTag ==
  ASSUME SessionTypes, NEW p \in Pids
  PROVE  Tag(p) \in Tags
<1>1. past[p] = <<>> /\ Len(<<>>) = 0
  BY DEF SessionTypes
<1>2. 1 \in 1 .. MaxRuns
  BY MaxRunsAssumption DEF MaxRunsAssumption
<1> QED
  BY <1>1, <1>2 DEF Tag, Tags

LEMMA LinkInvInit == HomeInit => LinkInv
<1> SUFFICES ASSUME HomeInit PROVE LinkInv
  OBVIOUS
<1>1. SessionTypes
  BY DEF HomeInit, SessionInit, SessionTypes, Steps, Results
<1>2. \A p \in Pids : LinkOK(p)
  BY DEF HomeInit, Init, SessionInit, LinkOK
<1> QED
  BY <1>1, <1>2 DEF LinkInv

(* A step of a program is about itself only. *)
LEMMA ProgramKeepsOthers ==
  ASSUME SessionTypes, NEW p \in Pids, UserProgram(p)
  PROVE  /\ SessionTypes'
         /\ \A q \in Pids \ {p} :
              /\ step'[q] = step[q] /\ alarm'[q] = alarm[q] /\ reads'[q] = reads[q]
              /\ came'[q] = came[q] /\ arrived'[q] = arrived[q] /\ result'[q] = result[q]
<1> USE DEF SessionTypes, From, To, StepTo, Shows, Exit, ownVars, resultVars, Steps, Results
<1>0. /\ SessionTypes
      /\ arrived' = [arrived EXCEPT ![p] = <<>>]
           => /\ arrived' \in [Pids -> Seq(Tags)]
              /\ \A q \in Pids \ {p} : arrived'[q] = arrived[q]
  <2>1. <<>> \in Seq(Tags)
    OBVIOUS
  <2> QED
    BY <2>1
<1>1. CASE OpenAndSee(p) \/ WriteAndSee(p) \/ CloseAndGo(p)
  BY <1>0, <1>1 DEF OpenAndSee, WriteAndSee, CloseAndGo, SendOpen, SendWrite, SendClose
<1>2. CASE Begin(p) \/ MakeUserFifo(p)
  BY <1>0, <1>2 DEF Begin, MakeUserFifo
<1>3. CASE EnableTimeoutAlarm(p) \/ OpenOwn(p) \/ OpenOwnFails(p) \/ OpenedOwn(p)
  BY <1>3 DEF EnableTimeoutAlarm, OpenOwn, OpenOwnFails, OpenedOwn
<1>4. CASE ReadReply(p)
  BY <1>4 DEF ReadReply
<1>5. CASE ReadNothing(p)
  BY <1>5 DEF ReadNothing
<1>6. CASE DisableTimeoutAlarm(p)
  BY <1>0, <1>6 DEF DisableTimeoutAlarm
<1>7. CASE AlarmRings(p)
  <2>1. (reads[p] /\ ~ From(p, "opening")) \in BOOLEAN
    BY ZenonT(20)
  <2> QED
    BY <1>7, <2>1 DEF AlarmRings
<1>8. CASE LogReply(p)
  BY <1>8 DEF LogReply
<1>9. CASE DeleteUserFifo(p)
  BY <1>0, <1>9 DEF DeleteUserFifo
<1> QED
  BY <1>1, <1>2, <1>3, <1>4, <1>5, <1>6, <1>7, <1>8, <1>9 DEF UserProgram, Apart, Await

LEMMA ProgramLinks ==
  ASSUME TypeOK, SessionTypes, NEW p \in Pids, LinkOK(p), UserProgram(p)
  PROVE  LinkOK(p)'
<1> USE DEF SessionTypes, LinkOK, From, To, StepTo, Shows, Exit, ownVars, resultVars
<1>1. CASE OpenAndSee(p)
  BY <1>1 DEF OpenAndSee, OpenServer, SendOpen, UserStep, TypeOK
<1>2. CASE WriteAndSee(p)
  BY <1>2 DEF WriteAndSee, WriteRequest, SendWrite, UserStep, TypeOK
<1>3. CASE CloseAndGo(p)
  BY <1>3 DEF CloseAndGo, CloseServer, SendClose, UserStep, TypeOK
<1> SUFFICES ASSUME Apart(p), user' = user
             PROVE  LinkOK(p)'
  BY <1>1, <1>2, <1>3 DEF UserProgram, vars, fifoVars
<1>4. CASE Begin(p) \/ MakeUserFifo(p)
  BY <1>4 DEF Begin, MakeUserFifo
<1>5. CASE EnableTimeoutAlarm(p) \/ OpenOwn(p) \/ OpenOwnFails(p) \/ OpenedOwn(p)
  BY <1>5 DEF EnableTimeoutAlarm, OpenOwn, OpenOwnFails, OpenedOwn
<1>6. CASE ReadReply(p) \/ ReadNothing(p)
  BY <1>6 DEF ReadReply, ReadNothing
<1>7. CASE DisableTimeoutAlarm(p) \/ AlarmRings(p)
  BY <1>7 DEF DisableTimeoutAlarm, AlarmRings
<1>8. CASE LogReply(p) \/ DeleteUserFifo(p)
  BY <1>8 DEF LogReply, DeleteUserFifo
<1> QED
  BY <1>4, <1>5, <1>6, <1>7, <1>8 DEF Apart, Await

(* The server does nothing to a user but to open and to fill its FIFO. *)
LEMMA ServerLeaves ==
  ASSUME TypeOK, SessionTypes, NEW o \in Offices, ServerOffice(o)
  PROVE  SessionTypes' /\ UNCHANGED <<user, step, alarm, reads, result, past>>
<1>1. user' = user
  BY OfficeLeaves DEF ServerOffice, OpenReplyTo, FindUserDown, SendTo, Inside, Office,
                      BreakPipe, fifoVars
<1>2. CASE OpenReplyTo(o)
  BY <1>1, <1>2 DEF OpenReplyTo, OpenedByServer, resultVars, SessionTypes
<1>3. CASE SendTo(o)
  <2>1. CASE UNCHANGED sessionVars
    BY <1>1, <2>1 DEF sessionVars, ownVars, resultVars, SessionTypes
  <2>2. CASE WrittenByServer(ReplyTo(o), Tag(req[o].pid))
    <3>1. PICK t \in Tags : arrived' = [arrived EXCEPT ![ReplyTo(o)] = Append(@, t)]
      <4>1. req[o].pid \in Pids
        BY RequestPid DEF TypeOK, AccountsTypeOK
      <4> QED
        BY <2>2, <4>1, TagIsTag DEF WrittenByServer
    <3>2. \A s \in Seq(Tags) : Append(s, t) \in Seq(Tags)
      OBVIOUS
    <3>3. arrived' \in [Pids -> Seq(Tags)]
      BY <3>1, <3>2 DEF SessionTypes
    <3> QED
      BY <1>1, <2>2, <3>3 DEF WrittenByServer, resultVars, SessionTypes
  <2> QED
    BY <1>3, <2>1, <2>2 DEF SendTo
<1>4. CASE UNCHANGED sessionVars
  BY <1>1, <1>4 DEF sessionVars, ownVars, resultVars, SessionTypes
<1> QED
  BY <1>2, <1>3, <1>4 DEF ServerOffice, FindUserDown, BreakPipe, Inside

LEMMA LinkInvStep ==
  ASSUME TypeOK, LinkInv, [HomeNext]_homeVars
  PROVE  LinkInv'
<1>1. ASSUME NEW p \in Pids, UserProgram(p) PROVE LinkInv'
  <2>1. \A q \in Pids \ {p} : user'[q] = user[q]
    BY <1>1 DEF UserProgram, OpenAndSee, WriteAndSee, CloseAndGo, OpenServer, WriteRequest,
                CloseServer, UserStep, TypeOK, vars, fifoVars
  <2>2. SessionTypes' /\ LinkOK(p)'
    BY <1>1, ProgramKeepsOthers, ProgramLinks DEF LinkInv
  <2>3. ASSUME NEW q \in Pids \ {p} PROVE LinkOK(q)'
    BY <1>1, <2>1, ProgramKeepsOthers DEF LinkInv, LinkOK
  <2> QED
    BY <2>2, <2>3 DEF LinkInv
<1>2. CASE Main /\ UNCHANGED sessionVars
  BY <1>2, MainLeaves DEF LinkInv, LinkOK, SessionTypes, sessionVars, ownVars, resultVars
<1>3. ASSUME NEW o \in Offices, ServerOffice(o) PROVE LinkInv'
  BY <1>3, ServerLeaves DEF LinkInv, LinkOK
<1>4. CASE UNCHANGED homeVars
  BY <1>4 DEF LinkInv, LinkOK, SessionTypes, homeVars, vars, fifoVars, sessionVars, ownVars,
              resultVars
<1> QED
  BY <1>1, <1>2, <1>3, <1>4 DEF HomeNext

LEMMA LinksHold == HomeSpec => [](ServerInv /\ LinkInv)
<1>1. HomeInit => ServerInv /\ LinkInv
  BY ServerInvInit, LinkInvInit DEF HomeInit
<1>2. (ServerInv /\ LinkInv) /\ [HomeNext]_homeVars => (ServerInv /\ LinkInv)'
  BY ServerInvStep, LinkInvStep DEF ServerInv, OfficeInv
<1> QED
  BY <1>1, <1>2, PTL DEF HomeSpec

(* A request that has not been written is nowhere. *)
LEMMA NotWrittenNowhere ==
  ASSUME ServerInv, LinkInv, NEW p \in Pids,
         result[p] \in {"SRV_DOWN", "not_sent", "no_fifo"}
  PROVE  \A x \in Spots : ~ IsAt(p, x)
<1>1. user[p] \notin {"written", "sent"}
  BY DEF LinkInv, LinkOK
<1> QED
  BY <1>1 DEF ServerInv, PlacesInv, Unwritten

(* For any number of users and offices: a user that is told that the server *)
(* is down, or whose write fails, has its request neither in the server's    *)
(* FIFO nor in the main thread's hand, in the queue or with an office        *)
(* (user.c:161-178).                                                          *)
THEOREM UntakenIsNowhere == HomeSpec => []UntakenNowhere
<1>1. ServerInv /\ LinkInv => UntakenNowhere
  <2> SUFFICES ASSUME ServerInv, LinkInv, NEW p \in Pids, result[p] \in {"SRV_DOWN", "not_sent"}
               PROVE  /\ \A i \in DOMAIN fifo : fifo[i].pid # p
                      /\ main \in {"wait_empty", "push"} => inHand.pid # p
                      /\ \A i \in DOMAIN queue : queue[i].pid # p
                      /\ \A o \in Offices : ~ At(o, "idle") => req[o].pid # p
    BY DEF UntakenNowhere
  <2>1. \A x \in Spots : ~ IsAt(p, x)
    BY NotWrittenNowhere
  <2>2. fifo \in Seq(ClientCalls) /\ queue \in Seq(ClientCalls)
    BY DEF ServerInv, OfficeInv, TypeOK
  <2>3. ASSUME NEW i \in DOMAIN fifo PROVE fifo[i].pid # p
    <3>1. i \in 1 .. Len(fifo) /\ i \in Nat
      BY <2>2
    <3>2. <<"fifo", i>> \in Spots
      BY <3>1, SpotMade
    <3> QED
      BY <2>1, <3>1, <3>2 DEF IsAt
  <2>4. ASSUME NEW i \in DOMAIN queue PROVE queue[i].pid # p
    <3>1. i \in 1 .. Len(queue) /\ i \in Nat
      BY <2>2
    <3>2. <<"queue", i>> \in Spots
      BY <3>1, SpotMade
    <3> QED
      BY <2>1, <3>1, <3>2 DEF IsAt
  <2>5. main \in {"wait_empty", "push"} => inHand.pid # p
    BY <2>1, SpotMade DEF IsAt, InHand
  <2>6. ASSUME NEW o \in Offices, ~ At(o, "idle") PROVE req[o].pid # p
    <3>1. loop[o] \notin Requestless
      BY <2>6 DEF ServerInv, OfficeInv, LoopMatchesWork, At
    <3> QED
      BY <2>1, <3>1, SpotMade DEF IsAt, InOffice
  <2> QED
    BY <2>3, <2>4, <2>5, <2>6
<1> QED
  BY <1>1, LinksHold, PTL

-----------------------------------------------------------------------------
(* The replies *)

(* An office at this place of its loop has the request of p. *)
Holds(o, label, p) == loop[o] = label /\ req[o].pid = p
Someone(label, p) == \E o \in Offices : Holds(o, label, p)

(* The FIFO of p: who reads it, who has opened it, what is in it.  A user    *)
(* whom an office is about to answer waits for it or has timed out.           *)
WaitOK(p) ==
  /\ reads[p] => step[p] \in {"opening", "read", "got", "log", "delete"}
  /\ came[p] => p \in inbox[p] \/ Someone("write", p)
  /\ step[p] = "read" => came[p]
  /\ arrived[p] # <<>> => p \in inbox[p]
  /\ step[p] \in {"opening", "read"} /\ p \in inbox[p] => arrived[p] # <<>>
  /\ p \in inbox[p] =>
       /\ step[p] \in {"opening", "read", "got", "log", "delete", "ended"}
       /\ p \in served \/ Someone("close_reply", p)
  /\ Someone("close_reply", p) => p \in inbox[p]
  /\ Running /\ Someone("write", p) =>
       \/ step[p] \in {"opening", "read"} /\ reads[p]
       \/ result[p] = "SRV_TIMEOUT"
  /\ result[p] = "USR_DOWN" => ~ reads[p]

(* What p is shown *)
ShownOK(p) ==
  /\ result[p] = "reply" => p \in inbox[p]
  /\ result[p] = "OTHER" => ~ Running
  /\ p \in served \ inbox[p] => result[p] \in {"none", "SRV_TIMEOUT", "USR_DOWN"}

(* The reply to a user whose alarm clock rang after an office had opened its *)
(* FIFO, if it was a reply that killed the server                            *)
DeadByLateReply ==
  main = "crashed" =>
    \E o \in Offices : loop[o] = "write" /\ result[req[o].pid] = "SRV_TIMEOUT"

WaitInv ==
  /\ Running => RepliesInv
  /\ \A p \in Pids : WaitOK(p) /\ ShownOK(p)
  /\ DeadByLateReply

LEMMA WaitInvInit == HomeInit => WaitInv
<1> SUFFICES ASSUME HomeInit PROVE WaitInv
  OBVIOUS
<1>1. \A o \in Offices : loop[o] = "start"
  BY DEF HomeInit, Init
<1>2. /\ main = "make_fifo" /\ served = {} /\ \A p \in Pids : inbox[p] = {}
  BY DEF HomeInit, Init
<1>3. \A p \in Pids : /\ ~ reads[p] /\ ~ came[p] /\ arrived[p] = <<>> /\ step[p] = "start"
                      /\ result[p] = "none"
  BY DEF HomeInit, SessionInit
<1>4. RepliesInv
  BY RepliesInvInit DEF HomeInit
<1>5. \A p \in Pids : WaitOK(p) /\ ShownOK(p)
  BY <1>1, <1>2, <1>3 DEF WaitOK, ShownOK, Someone, Holds, Running
<1> QED
  BY <1>2, <1>4, <1>5 DEF WaitInv, DeadByLateReply

(* A user that is answered has no other place where its request is. *)
LEMMA HeldByOne ==
  ASSUME ServerInv, NEW o \in Offices, loop[o] \notin Requestless
  PROVE  /\ req[o].pid \in Pids /\ req[o].pid \notin served
         /\ \A q \in Offices : loop[q] \notin Requestless /\ req[q].pid = req[o].pid => q = o
<1>1. req[o].pid \in Pids
  BY RequestPid DEF ServerInv, OfficeInv, TypeOK, AccountsTypeOK
<1>2. InOffice(o, req[o].pid)
  BY DEF InOffice
<1>3. PlacesInv
  BY DEF ServerInv
<1>4. req[o].pid \notin served
  BY <1>1, <1>2, <1>3, NotServed
<1>5. ASSUME NEW q \in Offices, loop[q] \notin Requestless, req[q].pid = req[o].pid PROVE q = o
  BY <1>1, <1>2, <1>3, <1>5, OneOffice DEF InOffice
<1> QED
  BY <1>1, <1>4, <1>5

(* An office that is about to answer p, of which nothing has come to p yet *)
LEMMA NotYetAnswered ==
  ASSUME ServerInv, NEW p \in Pids, WaitOK(p), NEW o \in Offices, req[o].pid = p,
         loop[o] \notin Requestless, loop[o] # "close_reply"
  PROVE  p \notin inbox[p] /\ p \notin served
<1>1. p \notin served /\ \A q \in Offices : loop[q] \notin Requestless /\ req[q].pid = p => q = o
  BY HeldByOne
<1>2. ~ Someone("close_reply", p)
  BY <1>1 DEF Someone, Holds, Requestless
<1> QED
  BY <1>1, <1>2 DEF WaitOK

LEMMA ProgramLeaves ==
  ASSUME NEW p \in Pids, UserProgram(p)
  PROVE  UNCHANGED <<main, loop, req, inbox, served>>
<1>1. CASE User(p)
  BY <1>1, UserKeepsAccounts DEF accountVars, officeVars, replyVars
<1>2. CASE UNCHANGED vars
  BY <1>2 DEF vars, accountVars, officeVars, replyVars
<1> QED
  BY <1>1, <1>2 DEF UserProgram, OpenAndSee, WriteAndSee, CloseAndGo, User

(* While the server runs, an office that is about to write has the FIFO open. *)
LEMMA WritersHaveIt ==
  ASSUME OfficeInv, RepliesInv, Running, NEW o \in Offices, loop[o] = "write"
  PROVE  ReplyTo(o) = req[o].pid /\ HasWriter(req[o].pid)
<1>1. \/ replyFD[o] = "own"
      \/ replyFD[o] = "shutdown_fd" /\ shutdownFD = req[o].pid
  BY DEF RepliesInv, DescriptorInv, ControlOK, Replying
<1> QED
  BY <1>1 DEF ReplyTo, HasWriter

LEMMA WaitWithProgram ==
  ASSUME ServerInv, LinkInv, Running => RepliesInv, NEW p \in Pids, WaitOK(p), ShownOK(p),
         UserProgram(p)
  PROVE  WaitOK(p)' /\ ShownOK(p)'
<1>1. UNCHANGED <<main, loop, req, inbox, served>>
  BY ProgramLeaves
<1>2. /\ Someone("write", p)' <=> Someone("write", p)
      /\ Someone("close_reply", p)' <=> Someone("close_reply", p)
      /\ Running' <=> Running
  BY <1>1 DEF Someone, Holds, Running
<1>3. SessionTypes /\ LinkOK(p)
  BY DEF LinkInv
<1>4. user[p] \in {"start", "opened"} => p \notin served
  <2>1. user[p] \in {"start", "opened"} => ~ IsAt(p, <<"served", 0>>)
    BY SpotMade DEF ServerInv, PlacesInv, Unwritten
  <2> QED
    BY <2>1 DEF IsAt
<1>5. Someone("write", p) => p \notin inbox[p] /\ p \notin served
  BY NotYetAnswered DEF Someone, Holds, Requestless
<1> USE <1>1, <1>2, <1>3 DEF SessionTypes, WaitOK, ShownOK, From, To, StepTo, Shows, Exit,
        ownVars, resultVars
<1>6. CASE OpenAndSee(p) \/ WriteAndSee(p) \/ CloseAndGo(p)
  BY <1>4, <1>6 DEF OpenAndSee, WriteAndSee, CloseAndGo, SendOpen, SendWrite, SendClose, LinkOK
<1>7. CASE Begin(p) \/ MakeUserFifo(p)
  BY <1>4, <1>7 DEF Begin, MakeUserFifo, LinkOK
<1>8. CASE EnableTimeoutAlarm(p) \/ OpenOwn(p) \/ OpenOwnFails(p)
  BY <1>8 DEF EnableTimeoutAlarm, OpenOwn, OpenOwnFails, LinkOK
<1>9. CASE OpenedOwn(p)
  BY <1>9 DEF OpenedOwn, LinkOK
<1>10. CASE ReadReply(p)
  BY <1>5, <1>10 DEF ReadReply
<1>11. CASE ~ HasWriter(p) /\ ReadNothing(p)
  <2>1. PICK o \in Offices : Holds(o, "write", p)
    BY <1>11 DEF ReadNothing, Someone
  <2>2. ~ Running
    BY <1>11, <2>1, WritersHaveIt DEF Holds, ServerInv
  <2>3. Someone("write", p)
    BY <2>1 DEF Someone
  <2> QED
    BY <1>5, <1>11, <2>2, <2>3 DEF ReadNothing
<1>12. CASE DisableTimeoutAlarm(p)
  BY <1>12 DEF DisableTimeoutAlarm, LinkOK
<1>13. CASE AlarmRings(p)
  BY <1>13 DEF AlarmRings, LinkOK
<1>14. CASE LogReply(p) \/ DeleteUserFifo(p)
  BY <1>14 DEF LogReply, DeleteUserFifo, LinkOK
<1> QED
  BY <1>6, <1>7, <1>8, <1>9, <1>10, <1>11, <1>12, <1>13, <1>14 DEF UserProgram, Apart, Await

(* An office that moves is at another place, and the others stay. *)
LEMMA HoldersMove ==
  ASSUME TypeOK, NEW o \in Offices, Office(o), NEW p \in Pids, NEW label
  PROVE  /\ loop[o] # label /\ loop'[o] # label => (Someone(label, p)' <=> Someone(label, p))
         /\ loop'[o] # label /\ Someone(label, p)' => Someone(label, p)
         /\ loop[o] # label /\ Someone(label, p) => Someone(label, p)'
         /\ Someone(label, p) => Someone(label, p)' \/ Holds(o, label, p)
         /\ Someone(label, p)' => Someone(label, p) \/ Holds(o, label, p)'
<1>1. \A q \in Offices : q # o => loop'[q] = loop[q] /\ req'[q] = req[q]
  BY OthersKeep
<1> QED
  BY <1>1 DEF Someone, Holds

LEMMA WaitWithInside ==
  ASSUME ServerInv, NEW o \in Offices, Inside(o), UNCHANGED sessionVars,
         NEW p \in Pids, WaitOK(p), ShownOK(p)
  PROVE  WaitOK(p)' /\ ShownOK(p)' /\ main' = main
<1>1. /\ Office(o) /\ TypeOK /\ EndInOrder
      /\ UNCHANGED <<step, reads, came, arrived, result>>
  BY DEF Inside, Office, ServerInv, OfficeInv, sessionVars, ownVars, resultVars
<1>2. inbox' = inbox /\ main' = main
  BY DEF Inside, StartOffice, WaitFull, MarkActive, PopRequest, PostEmpty, Manage, ForkHash,
         LoseHash, EndHash, InHash, ChmodFifo, CloseFifo, CountActive, RefuseShutdown,
         CloseReply, ClearActive, Die, replyVars
<1>3. /\ loop[o] # "write" /\ loop'[o] # "write" /\ loop'[o] # "close_reply"
      /\ loop[o] = "close_reply" => CloseReply(o)
  BY <1>1 DEF Inside, StartOffice, WaitFull, MarkActive, PopRequest, PostEmpty, Manage,
              ForkHash, LoseHash, EndHash, InHash, ChmodFifo, CloseFifo, CountActive,
              RefuseShutdown, CloseReply, ClearActive, Die, LoopStep, LoopAt, officeVars,
              TypeOK, EndInOrder, Resting
<1>4. Someone("write", p)' <=> Someone("write", p)
  BY <1>1, <1>3, HoldersMove
<1>5. Someone("close_reply", p)' => Someone("close_reply", p)
  BY <1>1, <1>3, HoldersMove
<1>6. CASE CloseReply(o)
  <2>1. served' = served \union {req[o].pid} /\ loop[o] = "close_reply"
    BY <1>6 DEF CloseReply, LoopStep, LoopAt
  <2>2. Someone("close_reply", p) => Someone("close_reply", p)' \/ req[o].pid = p
    BY <1>1, HoldersMove DEF Holds
  <2>3. req[o].pid = p => p \in inbox[p]
    BY <2>1 DEF WaitOK, Someone, Holds
  <2> QED
    BY <1>1, <1>2, <1>4, <1>5, <2>1, <2>2, <2>3 DEF WaitOK, ShownOK, Running
<1>7. CASE ~ CloseReply(o)
  <2>1. served' = served
    BY <1>7 DEF Inside, StartOffice, WaitFull, MarkActive, PopRequest, PostEmpty, Manage,
                ForkHash, LoseHash, EndHash, InHash, ChmodFifo, CloseFifo, CountActive,
                RefuseShutdown, ClearActive, Die, replyVars
  <2>2. Someone("close_reply", p)' <=> Someone("close_reply", p)
    BY <1>1, <1>3, <1>7, HoldersMove
  <2> QED
    BY <1>1, <1>2, <1>4, <2>1, <2>2 DEF WaitOK, ShownOK, Running
<1> QED
  BY <1>6, <1>7

(* A request that an office has was sent, and its user is shown nothing yet, *)
(* or that it timed out.                                                     *)
LEMMA NothingShownYet ==
  ASSUME ServerInv, LinkInv, Running, NEW p \in Pids, WaitOK(p), ShownOK(p),
         NEW o \in Offices, req[o].pid = p, loop[o] \notin Requestless, loop[o] # "close_reply"
  PROVE  /\ result[p] \in {"none", "SRV_TIMEOUT", "USR_DOWN"}
         /\ p \notin inbox[p] /\ p \notin served
<1>1. p \notin inbox[p] /\ p \notin served
  BY NotYetAnswered
<1>2. IsAt(p, <<"office", o>>) /\ <<"office", o>> \in Spots
  BY SpotMade DEF IsAt, InOffice
<1>3. result[p] \notin {"SRV_DOWN", "not_sent", "no_fifo"}
  BY <1>2, NotWrittenNowhere
<1>4. result[p] \notin {"reply", "OTHER"}
  BY <1>1 DEF ShownOK
<1> QED
  BY <1>1, <1>3, <1>4 DEF LinkInv, LinkOK

LEMMA WaitWithOpen ==
  ASSUME ServerInv, LinkInv, NEW o \in Offices, OpenReplyTo(o),
         NEW p \in Pids, WaitOK(p), ShownOK(p)
  PROVE  WaitOK(p)' /\ ShownOK(p)' /\ main' = main
<1>1. /\ Office(o) /\ TypeOK /\ Running
      /\ UNCHANGED <<main, inbox, served, req, step, reads, arrived, result>>
      /\ loop[o] = "manage" /\ loop'[o] = "write" /\ reads[req[o].pid]
      /\ came' = [came EXCEPT ![req[o].pid] = TRUE]
  BY DEF OpenReplyTo, OpenReply, OpenedByServer, Reachable, Office, ServerInv, OfficeInv,
         accountVars, resultVars, LoopStep, LoopAt, TypeOK
<1>2. Someone("close_reply", p)' <=> Someone("close_reply", p)
  BY <1>1, HoldersMove
<1>3. came'[p] = (came[p] \/ p = req[o].pid)
  BY <1>1 DEF LinkInv, SessionTypes
<1>4. CASE p # req[o].pid
  <2>1. Someone("write", p)' <=> Someone("write", p)
    BY <1>1, <1>4, HoldersMove DEF Holds
  <2> QED
    BY <1>1, <1>2, <1>3, <1>4, <2>1 DEF WaitOK, ShownOK, Running
<1>5. CASE p = req[o].pid
  <2>1. Someone("write", p)'
    BY <1>1, <1>5 DEF Someone, Holds
  <2>2. result[p] \in {"none", "SRV_TIMEOUT", "USR_DOWN"} /\ p \notin inbox[p]
    BY <1>1, <1>5, NothingShownYet DEF Requestless
  <2>3. step[p] \in {"opening", "read"} \/ result[p] = "SRV_TIMEOUT"
    BY <1>1, <1>5, <2>2 DEF WaitOK, LinkInv, LinkOK
  <2> QED
    BY <1>1, <1>2, <1>3, <1>5, <2>1, <2>2, <2>3 DEF WaitOK, ShownOK, Running
<1> QED
  BY <1>4, <1>5

LEMMA WaitWithDown ==
  ASSUME ServerInv, LinkInv, NEW o \in Offices, FindUserDown(o),
         NEW p \in Pids, WaitOK(p), ShownOK(p)
  PROVE  WaitOK(p)' /\ ShownOK(p)' /\ main' = main
<1>1. /\ Office(o) /\ TypeOK /\ Running
      /\ UNCHANGED <<main, inbox, step, reads, came, arrived, result>>
      /\ served' = served \union {req[o].pid}
      /\ loop[o] = "manage" /\ loop'[o] = "clear"
  BY DEF FindUserDown, UserDown, Office, ServerInv, OfficeInv, sessionVars, ownVars,
         resultVars, LoopStep, LoopAt, TypeOK
<1>2. /\ Someone("close_reply", p)' <=> Someone("close_reply", p)
      /\ Someone("write", p)' <=> Someone("write", p)
  BY <1>1, HoldersMove
<1>3. p = req[o].pid => result[p] \in {"none", "SRV_TIMEOUT", "USR_DOWN"}
  BY <1>1, NothingShownYet DEF Requestless
<1> QED
  BY <1>1, <1>2, <1>3 DEF WaitOK, ShownOK, Running

LEMMA WaitWithSend ==
  ASSUME ServerInv, LinkInv, RepliesInv, NEW o \in Offices, SendTo(o),
         NEW p \in Pids, WaitOK(p), ShownOK(p)
  PROVE  WaitOK(p)' /\ ShownOK(p)' /\ main' = main
<1>1. /\ Office(o) /\ TypeOK /\ OfficeInv /\ Running
      /\ UNCHANGED <<served, req>> /\ loop[o] = "write" /\ loop'[o] = "close_reply"
  BY DEF SendTo, WriteReply, Office, ServerInv, OfficeInv, accountVars, LoopStep, LoopAt, TypeOK
<1>2. ReplyTo(o) = req[o].pid /\ req[o].pid \in Pids /\ ReplyTo(o) # "free"
  BY <1>1, WritersHaveIt, PidsApart
<1>3. /\ inbox' = [inbox EXCEPT ![req[o].pid] = @ \union {req[o].pid}] /\ main' = main
      /\ WrittenByServer(req[o].pid, Tag(req[o].pid))
  BY <1>2 DEF SendTo, WriteReply
<1>4. /\ UNCHANGED <<step, reads, came, result>> /\ reads[req[o].pid]
      /\ arrived' = [arrived EXCEPT ![req[o].pid] = Append(@, Tag(req[o].pid))]
  BY <1>3 DEF WrittenByServer, resultVars
<1>5. CASE p # req[o].pid
  <2>1. inbox'[p] = inbox[p] /\ arrived'[p] = arrived[p]
    BY <1>1, <1>2, <1>3, <1>4, <1>5 DEF TypeOK, LinkInv, SessionTypes
  <2>2. /\ Someone("write", p)' <=> Someone("write", p)
        /\ Someone("close_reply", p)' <=> Someone("close_reply", p)
    BY <1>1, <1>5, HoldersMove DEF Holds
  <2> QED
    BY <1>1, <1>3, <1>4, <2>1, <2>2 DEF WaitOK, ShownOK, Running
<1>6. CASE p = req[o].pid
  <2>1. p \in inbox'[p]
    BY <1>1, <1>3, <1>6 DEF TypeOK
  <2>2. arrived'[p] # <<>>
    <3>1. arrived[p] \in Seq(Tags) /\ arrived'[p] = Append(arrived[p], Tag(p))
      BY <1>4, <1>6 DEF LinkInv, SessionTypes
    <3>2. Tag(p) \in Tags
      BY TagIsTag DEF LinkInv
    <3> QED
      BY <3>1, <3>2
  <2>3. Someone("close_reply", p)'
    BY <1>1, <1>6 DEF Someone, Holds
  <2>4. ~ Someone("write", p)'
    <3>1. Someone("write", p)' => \E q \in Offices : q # o /\ loop[q] = "write" /\ req[q].pid = p
      BY <1>1, OthersKeep DEF Someone, Holds
    <3>2. \A q \in Offices : loop[q] \notin Requestless /\ req[q].pid = p => q = o
      BY <1>1, <1>6, HeldByOne DEF Requestless
    <3> QED
      BY <3>1, <3>2 DEF Requestless
  <2> QED
    BY <1>1, <1>3, <1>4, <1>6, <2>1, <2>2, <2>3, <2>4 DEF WaitOK, ShownOK, Running
<1> QED
  BY <1>5, <1>6

LEMMA RepliesWhileRunning ==
  ASSUME OneShutdown, ServerInv, Running => RepliesInv, [HomeNext]_homeVars, Running'
  PROVE  RepliesInv'
<1>1. [Next]_vars
  BY HomeSteps DEF BreakPipe, Running
<1>2. Running
  BY <1>1, MainLeaves, OfficeLeaves, UserKeepsAccounts
     DEF Next, vars, Main, MakeFifo, OpenRead, OpenWrite, ReadRequest, ReadEndOfFile, WaitEmpty,
         PushRequest, PostFull, SeeQueueEmpty, CheckOffice, CancelOffice, Destroy, MainStep, Running
<1> QED
  BY <1>1, <1>2, RepliesInvStep DEF ServerInv

LEMMA WaitInvStep ==
  ASSUME OneShutdown, ServerInv, LinkInv, WaitInv, [HomeNext]_homeVars
  PROVE  WaitInv'
<1>1. (Running => RepliesInv)'
  BY RepliesWhileRunning DEF WaitInv
<1>2. ASSUME NEW p \in Pids, UserProgram(p)
      PROVE  (\A q \in Pids : WaitOK(q) /\ ShownOK(q))' /\ DeadByLateReply'
  <2>1. UNCHANGED <<main, loop, req, inbox, served>>
    BY <1>2, ProgramLeaves
  <2>2. WaitOK(p)' /\ ShownOK(p)'
    BY <1>2, WaitWithProgram DEF WaitInv
  <2>3. ASSUME NEW q \in Pids \ {p} PROVE WaitOK(q)' /\ ShownOK(q)'
    BY <1>2, <2>1, ProgramKeepsOthers DEF WaitInv, WaitOK, ShownOK, Someone, Holds, Running, LinkInv
  <2>4. result[p] = "SRV_TIMEOUT" => result'[p] = "SRV_TIMEOUT"
    BY <1>2 DEF UserProgram, OpenAndSee, WriteAndSee, CloseAndGo, SendOpen, SendWrite,
                SendClose, Apart, Begin, MakeUserFifo, Await, EnableTimeoutAlarm, OpenOwn,
                OpenOwnFails, OpenedOwn, ReadReply, ReadNothing, DisableTimeoutAlarm,
                AlarmRings, LogReply, DeleteUserFifo, From, To, StepTo, Shows, Exit, resultVars,
                LinkInv, LinkOK, SessionTypes
  <2>5. \A q \in Pids : result[q] = "SRV_TIMEOUT" => result'[q] = "SRV_TIMEOUT"
    BY <1>2, <2>4, ProgramKeepsOthers DEF LinkInv
  <2>6. \A o \in Offices : req[o].pid \in Pids
    BY RequestPid DEF ServerInv, OfficeInv, TypeOK, AccountsTypeOK
  <2>7. DeadByLateReply'
    BY <2>1, <2>5, <2>6 DEF WaitInv, DeadByLateReply
  <2> QED
    BY <2>2, <2>3, <2>7
<1>3. CASE Main /\ UNCHANGED sessionVars
  <2>1. UNCHANGED <<loop, req, inbox, served>> /\ Running /\ Running'
    BY <1>3, MainLeaves DEF Main, MakeFifo, OpenRead, OpenWrite, ReadRequest, ReadEndOfFile,
                            WaitEmpty, PushRequest, PostFull, SeeQueueEmpty, CheckOffice,
                            CancelOffice, Destroy, MainStep, replyVars, Running
  <2> QED
    BY <1>1, <1>3, <2>1 DEF WaitInv, WaitOK, ShownOK, Someone, Holds, Running, DeadByLateReply,
         sessionVars, ownVars, resultVars
<1>4. ASSUME NEW o \in Offices, ServerOffice(o), ~ BreakPipe(o), ~ HashKills(o)
      PROVE  (\A q \in Pids : WaitOK(q) /\ ShownOK(q))' /\ DeadByLateReply'
  <2>1. Office(o) /\ Running /\ RepliesInv
    BY <1>4, OfficeLeaves DEF ServerOffice, OpenReplyTo, FindUserDown, SendTo, Inside, Office,
                              WaitInv
  <2>2. ASSUME NEW p \in Pids
        PROVE  WaitOK(p)' /\ ShownOK(p)' /\ main' = main
    BY <1>4, <2>1, WaitWithInside, WaitWithOpen, WaitWithDown, WaitWithSend
       DEF ServerOffice, WaitInv
  <2>3. main' = main
    BY <2>2, RequestPid DEF ServerInv, OfficeInv, TypeOK, AccountsTypeOK
  <2> QED
    BY <2>1, <2>2, <2>3 DEF DeadByLateReply, Running
<1>5. ASSUME NEW o \in Offices, BreakPipe(o)
      PROVE  (\A q \in Pids : WaitOK(q) /\ ShownOK(q))' /\ DeadByLateReply'
  <2>1. /\ UNCHANGED <<loop, req, inbox, served, step, reads, came, arrived, result>>
        /\ Running /\ ~ Running' /\ loop[o] = "write" /\ ~ reads[ReplyTo(o)]
    BY <1>5 DEF BreakPipe, LoopAt, accountVars, officeVars, replyVars, sessionVars, ownVars,
                resultVars, Running
  <2>2. ReplyTo(o) = req[o].pid /\ req[o].pid \in Pids
    BY <2>1, WritersHaveIt, RequestPid DEF WaitInv, ServerInv, OfficeInv, TypeOK, AccountsTypeOK
  <2>3. result[req[o].pid] = "SRV_TIMEOUT"
    BY <2>1, <2>2 DEF WaitInv, WaitOK, Someone, Holds
  <2>4. DeadByLateReply'
    BY <2>1, <2>3 DEF DeadByLateReply
  <2>5. \A p \in Pids : WaitOK(p)' /\ ShownOK(p)'
    BY <2>1 DEF WaitInv, WaitOK, ShownOK, Someone, Holds
  <2> QED
    BY <2>4, <2>5
<1>6. CASE UNCHANGED homeVars
  BY <1>1, <1>6 DEF WaitInv, WaitOK, ShownOK, Someone, Holds, Running, DeadByLateReply, homeVars,
       vars, accountVars, officeVars, replyVars, sessionVars, ownVars, resultVars
<1>7. ASSUME NEW o \in Offices, ServerOffice(o), HashKills(o)
      PROVE  (\A q \in Pids : WaitOK(q) /\ ShownOK(q))' /\ DeadByLateReply'
  <2>1. UNCHANGED <<loop, req, inbox, served>> /\ main' = "killed" /\ LoopAt(o, "manage")
    BY <1>7 DEF HashKills, InHash, accountVars, officeVars, replyVars
  <2>2. UNCHANGED <<step, reads, came, arrived, result>>
    <3>1. UNCHANGED sessionVars
      BY <1>7, <2>1 DEF ServerOffice, OpenReplyTo, OpenReply, FindUserDown, UserDown, SendTo,
           WriteReply, BreakPipe, LoopStep, LoopAt, TypeOK, ServerInv, OfficeInv
    <3> QED
      BY <3>1 DEF sessionVars, ownVars, resultVars
  <2> QED
    BY <2>1, <2>2 DEF WaitInv, WaitOK, ShownOK, Someone, Holds, Running, DeadByLateReply
<1> QED
  BY <1>1, <1>2, <1>3, <1>4, <1>5, <1>6, <1>7 DEF HomeNext, WaitInv

LEMMA WaitsHold ==
  ASSUME OneShutdown
  PROVE  HomeSpec => [](ServerInv /\ LinkInv /\ WaitInv)
<1>1. HomeInit => WaitInv
  BY WaitInvInit
<1>2. (ServerInv /\ LinkInv) /\ WaitInv /\ [HomeNext]_homeVars => WaitInv'
  BY WaitInvStep
<1> QED
  BY <1>1, <1>2, LinksHold, PTL DEF HomeSpec

-----------------------------------------------------------------------------
(* The end of the server *)

(* A child is lost only where that can be. *)
LostByFault == \A o \in Offices : child[o] = "lost" => HashFaults

(* The lost child of an office that was about to create an account, or to     *)
(* compare the password of one that exists, if it was a hash that killed      *)
(* the server                                                                  *)
DeadByHash ==
  main = "killed" =>
    \E o \in Offices :
      /\ HashFaults /\ child[o] = "lost" /\ reply[o] = NoReply
      /\ req[o].type = "OP_CREATE_ACCOUNT" \/ used[req[o].account_id]

HashInv == ProgressInv /\ LostByFault /\ DeadByHash

LEMMA HashInvInit == HomeInit => HashInv
<1> SUFFICES ASSUME HomeInit PROVE HashInv
  OBVIOUS
<1>1. ProgressInv
  BY ProgressInit DEF HomeInit, Init
<1> QED
  BY <1>1 DEF HomeInit, Init, HashInv, LostByFault, DeadByHash

(* An office that makes a hash has not decided its request. *)
LEMMA HashingFacts ==
  ASSUME AccountsInv, ProgressInv, NEW o \in Offices, Hashing(o)
  PROVE  /\ reply[o] = NoReply
         /\ req[o].type = "OP_CREATE_ACCOUNT" \/ used[req[o].account_id]
  BY DEF Hashing, At, ProgressInv, ProgressOK, Decided, AccountsInv, ChecksStillHold

(* The progress of the requests is what it was in Accounts; when the table is *)
(* destroyed there is none.                                                    *)
LEMMA RequestsProgress ==
  ASSUME AccountsInv, OfficeInv, ProgressInv, [Next]_vars
  PROVE  ProgressInv'
<1>1. CASE ~ Destroy
  BY <1>1, AccountsStep, ProgressStep DEF OfficeInv, TypeOK
<1>2. CASE Destroy
  <2>1. \A o \in Offices : pc[o] = "idle"
    BY <1>2 DEF Destroy, OfficeInv, LoopMatchesWork, Requestless
  <2>2. UNCHANGED <<pc, reply>>
    BY <1>2 DEF Destroy
  <2> QED
    BY <2>1, <2>2 DEF ProgressInv, ProgressOK, Decided, Deciding, At
<1> QED
  BY <1>1, <1>2

LEMMA LostByFaultKept ==
  ASSUME TypeOK, LostByFault, [Next]_vars
  PROVE  LostByFault'
<1>1. CASE \E p \in Pids : User(p)
  BY <1>1, UserKeepsAccounts DEF childVars, LostByFault
<1>2. CASE Main
  BY <1>2 DEF Main, MakeFifo, OpenRead, OpenWrite, ReadRequest, ReadEndOfFile, WaitEmpty,
              PushRequest, PostFull, SeeQueueEmpty, CheckOffice, CancelOffice, Destroy, childVars,
              LostByFault
<1>3. ASSUME NEW o \in Offices, Office(o) PROVE LostByFault'
  <2>1. CASE ForkHash(o) \/ LoseHash(o) \/ EndHash(o) \/ Manage(o)
    BY <2>1 DEF ForkHash, LoseHash, EndHash, Manage, HashReturns, LostByFault, TypeOK
  <2>2. CASE ~ (ForkHash(o) \/ LoseHash(o) \/ EndHash(o) \/ Manage(o))
    <3>1. child' = child
      BY <1>3, <2>2
         DEF Office, StartOffice, WaitFull, MarkActive, PopRequest, PostEmpty, HashKills,
             ChmodFifo, CloseFifo, CountActive, RefuseShutdown, OpenReply, UserDown, WriteReply,
             CloseReply, ClearActive, Die, childVars
    <3> QED
      BY <3>1 DEF LostByFault
  <2> QED
    BY <2>1, <2>2
<1>4. CASE UNCHANGED vars
  BY <1>4 DEF vars, childVars, LostByFault
<1> QED
  BY <1>1, <1>2, <1>3, <1>4 DEF Next

LEMMA HashInvStep ==
  ASSUME ServerInv, HashInv, [HomeNext]_homeVars
  PROVE  HashInv'
<1> USE DEF HashInv
<1>1. CASE [Next]_vars
  <2>1. ProgressInv' /\ LostByFault'
    BY <1>1, RequestsProgress, LostByFaultKept DEF ServerInv, OfficeInv
  <2>2. CASE main' # "killed"
    BY <2>1, <2>2 DEF DeadByHash
  <2>3. CASE main = "killed"
    <3>1. ~ Main /\ \A o \in Offices : ~ Office(o)
      BY <2>3, OfficeLeaves DEF Main, MakeFifo, OpenRead, OpenWrite, ReadRequest, ReadEndOfFile,
           WaitEmpty, PushRequest, PostFull, SeeQueueEmpty, CheckOffice, CancelOffice, Destroy,
           MainStep, Running
    <3>2. UNCHANGED <<accountVars, main, childVars>>
      BY <1>1, <3>1, UserKeepsAccounts DEF Next, vars
    <3> QED
      BY <2>1, <3>2 DEF DeadByHash, accountVars, tableVars, childVars
  <2>4. CASE main # "killed" /\ main' = "killed"
    <3>1. PICK o \in Offices : HashKills(o)
      <4>1. ~ Main
        BY <2>4 DEF Main, MakeFifo, OpenRead, OpenWrite, ReadRequest, ReadEndOfFile,
             WaitEmpty, PushRequest, PostFull, SeeQueueEmpty, CheckOffice, CancelOffice, Destroy,
             MainStep
      <4> QED
        BY <1>1, <2>4, <4>1, OfficeLeaves, UserKeepsAccounts DEF Next, vars
    <3>2. /\ child[o] = "lost" /\ Hashing(o) /\ UNCHANGED <<reply, req, used, child>>
      BY <3>1 DEF HashKills, InHash, accountVars, tableVars, childVars
    <3>3. HashFaults
      BY <3>2 DEF LostByFault
    <3> QED
      BY <2>1, <3>2, <3>3, HashingFacts DEF DeadByHash, ServerInv
  <2> QED
    BY <2>2, <2>3, <2>4
<1>2. ASSUME NEW o \in Offices, BreakPipe(o) PROVE HashInv'
  <2>1. UNCHANGED <<accountVars, childVars>> /\ main' = "crashed"
    BY <1>2 DEF BreakPipe
  <2>2. ProgressInv'
    BY <2>1, ProgressStep DEF ServerInv
  <2> QED
    BY <2>1, <2>2 DEF LostByFault, DeadByHash, childVars
<1> QED
  BY <1>1, <1>2, HomeSteps

LEMMA HashHolds == HomeSpec => []HashInv
<1>1. HomeInit => HashInv
  BY HashInvInit
<1>2. (ServerInv /\ LinkInv) /\ HashInv /\ [HomeNext]_homeVars => HashInv'
  BY HashInvStep
<1> QED
  BY <1>1, <1>2, LinksHold, PTL DEF HomeSpec

(* If the administrator asks once for the server to be stopped, two things   *)
(* alone kill it, for any number of users and offices: the reply to a user    *)
(* whose alarm clock rang after the server had opened its FIFO                *)
(* (bankoffice.c:376), and the hash that has no child to make it, for an      *)
(* account to create or one whose password is checked (accounts.c:107,        *)
(* bankoffice.c:99) - so never a request of an account that does not exist.   *)
THEOREM OnlyLateReplyOrHashKills ==
  ASSUME OneShutdown
  PROVE  HomeSpec => []DeadOfLateReplyOrHash
<1>1. WaitInv /\ HashInv => DeadOfLateReplyOrHash
  BY DEF WaitInv, HashInv, DeadByLateReply, DeadByHash, DeadOfLateReplyOrHash
<1> QED
  BY <1>1, WaitsHold, HashHolds, PTL

-----------------------------------------------------------------------------
(* The users' logs *)

(* If the administrator asks once for the server to be stopped, what the     *)
(* users are shown agrees with what the server has sent and logged, however   *)
(* the alarm clocks and the offices race (user.c:182, bankoffice.c:367).       *)
THEOREM WhatIsShownWasSent ==
  ASSUME OneShutdown
  PROVE  HomeSpec => []LogsAgree
<1>1. ServerInv /\ LinkInv /\ WaitInv => LogsAgree
  <2> SUFFICES ASSUME ServerInv, LinkInv, WaitInv, NEW p \in Pids
               PROVE  /\ result[p] = "reply" => p \in inbox[p]
                      /\ result[p] \in {"SRV_DOWN", "not_sent"} => p \notin inbox[p] \union served
                      /\ p \in served \ inbox[p] => result[p] \in {"none", "SRV_TIMEOUT", "USR_DOWN"}
                      /\ result[p] = "OTHER" => ~ Running
    BY DEF LogsAgree
  <2>1. WaitOK(p) /\ ShownOK(p)
    BY DEF WaitInv
  <2>2. result[p] \in {"SRV_DOWN", "not_sent"} => p \notin inbox[p] \union served
    <3> SUFFICES ASSUME result[p] \in {"SRV_DOWN", "not_sent"}
                 PROVE  p \notin served /\ ~ Someone("close_reply", p)
      BY <2>1 DEF WaitOK
    <3>1. \A x \in Spots : ~ IsAt(p, x)
      BY NotWrittenNowhere
    <3> QED
      BY <3>1, SpotMade DEF IsAt, InOffice, Someone, Holds, Requestless
  <2> QED
    BY <2>1, <2>2 DEF ShownOK, Running
<1> QED
  BY <1>1, WaitsHold, PTL

-----------------------------------------------------------------------------
(* What the users see of the server *)

(* The proofs about Conversation, for this server *)
AnyServer ==
  INSTANCE ConversationProofs WITH
    up <- Up, taken <- AskedTags, due <- DueTags, ends <- OpenEnds

(* The steps of the programs are the same in Conversation. *)
LEMMA SameSteps ==
  ASSUME NEW p, NEW b, NEW tag
  PROVE  /\ Talk!Begin(p) <=> Begin(p)
         /\ Talk!MakeUserFifo(p) <=> MakeUserFifo(p)
         /\ Talk!SendOpen(p, b) <=> SendOpen(p, b)
         /\ Talk!SendWrite(p, b) <=> SendWrite(p, b)
         /\ Talk!SendClose(p) <=> SendClose(p)
         /\ Talk!Await(p) <=> Await(p)
         /\ Talk!ReadNothing(p) <=> ReadNothing(p)
         /\ Talk!Reachable(p) <=> Reachable(p)
         /\ Talk!OpenedByServer(p) <=> OpenedByServer(p)
         /\ Talk!WrittenByServer(p, tag) <=> WrittenByServer(p, tag)
         /\ Talk!Tag(p) = Tag(p)
         /\ Talk!sessionVars = sessionVars
         /\ (UNCHANGED Talk!sessionVars) <=> UNCHANGED sessionVars
<1> USE DEF From, To, StepTo, Shows, Exit, ownVars, resultVars, sessionVars,
            Talk!From, Talk!To, Talk!StepTo, Talk!Shows, Talk!Exit, Talk!ownVars,
            Talk!resultVars, Talk!sessionVars
<1>1. Talk!Begin(p) <=> Begin(p)
  BY DEF Begin, Talk!Begin
<1>2. Talk!MakeUserFifo(p) <=> MakeUserFifo(p)
  BY DEF MakeUserFifo, Talk!MakeUserFifo
<1>3. /\ Talk!SendOpen(p, b) <=> SendOpen(p, b)
      /\ Talk!SendWrite(p, b) <=> SendWrite(p, b)
      /\ Talk!SendClose(p) <=> SendClose(p)
  BY DEF SendOpen, SendWrite, SendClose, Talk!SendOpen, Talk!SendWrite, Talk!SendClose
<1>4. /\ Talk!EnableTimeoutAlarm(p) <=> EnableTimeoutAlarm(p)
      /\ Talk!OpenOwn(p) <=> OpenOwn(p)
      /\ Talk!OpenOwnFails(p) <=> OpenOwnFails(p)
      /\ Talk!OpenedOwn(p) <=> OpenedOwn(p)
      /\ Talk!ReadReply(p) <=> ReadReply(p)
  BY DEF EnableTimeoutAlarm, OpenOwn, OpenOwnFails, OpenedOwn, ReadReply, Talk!EnableTimeoutAlarm,
         Talk!OpenOwn, Talk!OpenOwnFails, Talk!OpenedOwn, Talk!ReadReply
<1>5. /\ Talk!DisableTimeoutAlarm(p) <=> DisableTimeoutAlarm(p)
      /\ Talk!AlarmRings(p) <=> AlarmRings(p)
      /\ Talk!LogReply(p) <=> LogReply(p)
      /\ Talk!DeleteUserFifo(p) <=> DeleteUserFifo(p)
  BY DEF DisableTimeoutAlarm, AlarmRings, LogReply, DeleteUserFifo, Talk!DisableTimeoutAlarm,
         Talk!AlarmRings, Talk!LogReply, Talk!DeleteUserFifo
<1>6. Talk!Await(p) <=> Await(p)
  BY <1>4, <1>5 DEF Await, Talk!Await
<1>7. Talk!ReadNothing(p) <=> ReadNothing(p)
  BY DEF ReadNothing, Talk!ReadNothing
<1>8. /\ Talk!Reachable(p) <=> Reachable(p)
      /\ Talk!OpenedByServer(p) <=> OpenedByServer(p)
      /\ Talk!WrittenByServer(p, tag) <=> WrittenByServer(p, tag)
  BY DEF Reachable, OpenedByServer, WrittenByServer, Talk!Reachable, Talk!OpenedByServer,
         Talk!WrittenByServer
<1>9. Talk!Tag(p) = Tag(p)
  BY DEF Tag, Talk!Tag
<1> QED
  BY <1>1, <1>2, <1>3, <1>6, <1>7, <1>8, <1>9

(* Here each pid is used once. *)
LEMMA FirstTag ==
  ASSUME SessionTypes, NEW p \in Pids
  PROVE  Len(past[p]) + 1 = 1 /\ Tag(p) = <<p, 1>>
<1>1. Len(past[p]) = 0
  BY DEF SessionTypes
<1> QED
  BY <1>1 DEF Tag

LEMMA TagsAreKept ==
  ASSUME SessionTypes, SessionTypes'
  PROVE  past' = past /\ \A p : Tag(p)' = Tag(p)
  BY DEF SessionTypes, Tag

(* What is in the sets that the users see *)
LEMMA SetsOfTags ==
  ASSUME SessionTypes, NEW p \in Pids
  PROVE  /\ Tag(p) \in AskedTags <=> p \in Asked
         /\ Tag(p) \in DueTags <=> p \in Unanswered
  BY FirstTag DEF AskedTags, DueTags, Asked, Unanswered

LEMMA InEnds == \A e : e \in OpenEnds <=> \E o \in Offices : Answering(o) /\ e = EndOf(o)
  BY DEF OpenEnds

(* Nothing that the users see has changed. *)
LEMMA ServerLooksSame ==
  ASSUME SessionTypes, SessionTypes', Up' = Up, Asked' = Asked, Unanswered' = Unanswered,
         \A o \in Offices : /\ Answering(o)' <=> Answering(o)
                            /\ Answering(o) => loop'[o] = loop[o] /\ req'[o] = req[o]
  PROVE  UNCHANGED Talk!serverVars
<1>1. AskedTags' = AskedTags /\ DueTags' = DueTags
  BY TagsAreKept DEF AskedTags, DueTags
<1>2. \A o \in Offices : Answering(o) => EndOf(o)' = EndOf(o)
  BY TagsAreKept DEF EndOf
<1>3. OpenEnds' = OpenEnds
  BY <1>2 DEF OpenEnds
<1> QED
  BY <1>1, <1>3 DEF Talk!serverVars

LEMMA UnansweredKept ==
  ASSUME Up' = Up, Asked' = Asked, served' = served,
         \A o \in Offices : /\ Answering(o)' <=> Answering(o)
                            /\ Answering(o) => req'[o] = req[o]
  PROVE  Unanswered' = Unanswered
  BY DEF Unanswered

(* The server comes to its end, by itself or not. *)
LEMMA ServerEnds ==
  ASSUME SessionTypes, SessionTypes', Up, ~ Up', Asked' = Asked, UNCHANGED sessionVars
  PROVE  Talk!ServerDies
<1>1. AskedTags' = AskedTags
  BY TagsAreKept DEF AskedTags
<1>2. DueTags' = {} /\ OpenEnds' = {}
  BY DEF DueTags, Unanswered, OpenEnds, Answering
<1>3. Up' = FALSE
  BY DEF Up, Running
<1> QED
  BY <1>1, <1>2, <1>3, SameSteps DEF Talk!ServerDies, Talk!Gone

(* The programs *)

LEMMA SeenInConversation ==
  ASSUME ServerInv, LinkInv, LinkInv', NEW p \in Pids, OpenAndSee(p)
  PROVE  Talk!Open(p)
<1> DEFINE seen == user'[p] = "opened"
<1>1. SendOpen(p, seen) /\ seen \in {FALSE, Up}
  <2>1. seen => Up
    BY DEF OpenAndSee, OpenServer, UserStep, HasReader, Up, Running, ServerInv, OfficeInv, TypeOK
  <2> QED
    BY <2>1 DEF OpenAndSee, Up, Running
<1>2. UNCHANGED <<main, loop, req, inbox, served>>
  BY ProgramLeaves DEF UserProgram
<1>3. Asked' = Asked
  BY DEF OpenAndSee, OpenServer, UserStep, Asked, ServerInv, OfficeInv, TypeOK
<1>4. UNCHANGED Talk!serverVars
  <2>1. Up' = Up /\ \A o \in Offices : Answering(o)' <=> Answering(o)
    BY <1>2 DEF Up, Running, Answering
  <2> QED
    BY <1>2, <1>3, <2>1, UnansweredKept, ServerLooksSame DEF LinkInv
<1> HIDE DEF seen
<1> QED
  BY <1>1, <1>4, SameSteps DEF Talk!Open

LEMMA WrittenInConversation ==
  ASSUME ServerInv, LinkInv, LinkInv', NEW p \in Pids, WriteAndSee(p)
  PROVE  Talk!Write(p)
<1> DEFINE room == user'[p] = "written"
<1>1. SendWrite(p, room) /\ room \in {FALSE, Up}
  <2>1. room => Up
    BY DEF WriteAndSee, WriteRequest, UserStep, HasReader, Up, Running, ServerInv, OfficeInv, TypeOK
  <2> QED
    BY <2>1 DEF WriteAndSee, Up, Running
<1>2. UNCHANGED <<main, loop, req, inbox, served>>
  BY ProgramLeaves DEF UserProgram
<1>3. Up' = Up /\ \A o \in Offices : Answering(o)' <=> Answering(o)
  BY <1>2 DEF Up, Running, Answering
<1>4. OpenEnds' = OpenEnds
  <2>1. \A o \in Offices : EndOf(o)' = EndOf(o)
    BY <1>2, TagsAreKept DEF EndOf, LinkInv
  <2> QED
    BY <1>3, <2>1 DEF OpenEnds
<1>5. user[p] = "opened" /\ (room \/ user'[p] = "failed") /\ user' = [user EXCEPT ![p] = user'[p]]
  BY DEF WriteAndSee, WriteRequest, UserStep, ServerInv, OfficeInv, TypeOK
<1>6. user \in [Pids -> UserPCs]
  BY DEF ServerInv, OfficeInv, TypeOK
<1>7. CASE ~ room
  <2>1. Asked' = Asked
    BY <1>5, <1>6, <1>7 DEF Asked
  <2>2. UNCHANGED Talk!serverVars
    BY <1>2, <1>3, <2>1, UnansweredKept, ServerLooksSame DEF LinkInv
  <2>3. Talk!Arrives(p, room)
    BY <1>7, <2>2 DEF Talk!Arrives, Talk!serverVars
  <2> HIDE DEF room
  <2> QED
    BY <1>1, <2>2, <2>3, SameSteps DEF Talk!Write, Talk!serverVars
<1>8. CASE room
  <2>1. Asked' = Asked \union {p}
    BY <1>5, <1>6, <1>8 DEF Asked
  <2>2. \A x \in Spots : ~ IsAt(p, x)
    BY <1>5 DEF ServerInv, PlacesInv, Unwritten
  <2>3. p \notin served
    BY <2>2, SpotMade DEF IsAt
  <2>4. \A o \in Offices : Answering(o) => req[o].pid # p
    BY <2>2, SpotMade DEF IsAt, InOffice, Answering, Requestless
  <2>5. Unanswered' = Unanswered \union {p}
    BY <1>1, <1>2, <1>3, <1>8, <2>1, <2>3, <2>4 DEF Unanswered
  <2>6. AskedTags' = AskedTags \union {Tag(p)} /\ DueTags' = DueTags \union {Tag(p)}
    BY <2>1, <2>5, TagsAreKept DEF AskedTags, DueTags, LinkInv
  <2>7. Talk!Arrives(p, room)
    BY <1>8, <2>6, SameSteps DEF Talk!Arrives
  <2> HIDE DEF room
  <2> QED
    BY <1>1, <1>3, <1>4, <2>7, SameSteps DEF Talk!Write
<1> QED
  BY <1>7, <1>8

(* Nobody has the FIFO open, as nobody answers: each office that does has     *)
(* the FIFO of its own user open.                                            *)
LEMMA NoEndWithoutWriter ==
  ASSUME Running => RepliesInv, LinkInv, NEW p \in Pids, ~ HasWriter(p)
  PROVE  \A e \in OpenEnds : e.tag[1] # p
<1> SUFFICES ASSUME NEW o \in Offices, Answering(o), EndOf(o).tag[1] = p
             PROVE  FALSE
  BY InEnds
<1>1. Running /\ loop[o] \in Replying
  BY DEF Answering, Up, Running, Replying
<1>2. req[o].pid = p
  BY DEF EndOf, Tag
<1>3. \/ replyFD[o] = "own"
      \/ replyFD[o] = "shutdown_fd" /\ shutdownFD = req[o].pid
  BY <1>1 DEF RepliesInv, DescriptorInv, ControlOK
<1> QED
  BY <1>1, <1>2, <1>3 DEF HasWriter

LEMMA ProgramInConversation ==
  ASSUME ServerInv, LinkInv, LinkInv', Running => RepliesInv, NEW p \in Pids, UserProgram(p)
  PROVE  Talk!Start(p) \/ Talk!Proceed(p)
<1>1. CASE OpenAndSee(p)
  BY <1>1, SeenInConversation DEF Talk!Proceed
<1>2. CASE WriteAndSee(p)
  BY <1>2, WrittenInConversation DEF Talk!Proceed
<1>3. ASSUME Asked' = Asked
      PROVE  UNCHANGED Talk!serverVars
  <2>1. UNCHANGED <<main, loop, req, inbox, served>>
    BY ProgramLeaves
  <2>2. Up' = Up /\ \A o \in Offices : Answering(o)' <=> Answering(o)
    BY <2>1 DEF Up, Running, Answering
  <2> QED
    BY <1>3, <2>1, <2>2, UnansweredKept, ServerLooksSame DEF LinkInv
<1>4. CASE CloseAndGo(p)
  <2>1. Asked' = Asked
    BY <1>4 DEF CloseAndGo, CloseServer, UserStep, Asked, ServerInv, OfficeInv, TypeOK
  <2> QED
    BY <1>3, <1>4, <2>1, SameSteps DEF CloseAndGo, Talk!Proceed
<1>5. CASE Apart(p) /\ UNCHANGED vars
  <2>1. UNCHANGED Talk!serverVars
    BY <1>3, <1>5 DEF vars, fifoVars, Asked
  <2>2. CASE ~ HasWriter(p) /\ ReadNothing(p)
    BY <2>1, <2>2, NoEndWithoutWriter, SameSteps DEF Talk!Proceed, Talk!MeetEnd
  <2> QED
    BY <1>5, <2>1, <2>2, SameSteps DEF Apart, Talk!Proceed, Talk!Start
<1> QED
  BY <1>1, <1>2, <1>4, <1>5 DEF UserProgram

(* The main thread *)

LEMMA MainInConversation ==
  ASSUME SessionTypes, SessionTypes', Main, UNCHANGED sessionVars
  PROVE  Talk!ServerDies \/ UNCHANGED Talk!talkVars
<1>1. UNCHANGED <<user, loop, req, served>>
  BY MainLeaves
<1>2. Asked' = Asked
  BY <1>1 DEF Asked
<1>3. Up
  BY DEF Main, MakeFifo, OpenRead, OpenWrite, ReadRequest, ReadEndOfFile, WaitEmpty, PushRequest,
         PostFull, SeeQueueEmpty, CheckOffice, CancelOffice, Destroy, MainStep, Up, Running
<1>4. CASE Up'
  <2>1. Up' = Up /\ \A o \in Offices : Answering(o)' <=> Answering(o)
    BY <1>1, <1>3, <1>4 DEF Up, Running, Answering
  <2>2. UNCHANGED Talk!serverVars
    BY <1>1, <1>2, <2>1, UnansweredKept, ServerLooksSame
  <2> QED
    BY <2>2, SameSteps DEF Talk!talkVars
<1>5. CASE ~ Up'
  BY <1>2, <1>3, <1>5, ServerEnds
<1> QED
  BY <1>4, <1>5

(* The offices *)

(* The FIFOs that other offices have open *)
OtherEnds(o) == {EndOf(q) : q \in {r \in Offices \ {o} : Answering(r)}}

LEMMA EndsOfOffice ==
  ASSUME TypeOK, SessionTypes, SessionTypes', NEW o \in Offices, Office(o), main' = main
  PROVE  /\ OpenEnds = OtherEnds(o) \union (IF Answering(o) THEN {EndOf(o)} ELSE {})
         /\ OpenEnds' = OtherEnds(o) \union (IF Answering(o)' THEN {EndOf(o)'} ELSE {})
         /\ Up' = Up
         /\ \A q \in Offices \ {o} : Answering(q)' <=> Answering(q)
<1>1. \A q \in Offices \ {o} : loop'[q] = loop[q] /\ req'[q] = req[q]
  BY OthersKeep
<1>2. Up' = Up
  BY DEF Up, Running
<1>3. \A q \in Offices \ {o} : (Answering(q)' <=> Answering(q)) /\ EndOf(q)' = EndOf(q)
  BY <1>1, <1>2, TagsAreKept DEF Answering, EndOf
<1>4. OtherEnds(o)' = OtherEnds(o)
  BY <1>3 DEF OtherEnds
<1>5. OpenEnds = OtherEnds(o) \union (IF Answering(o) THEN {EndOf(o)} ELSE {})
  BY DEF OpenEnds, OtherEnds
<1>6. OpenEnds' = OtherEnds(o)' \union (IF Answering(o)' THEN {EndOf(o)'} ELSE {})
  BY DEF OpenEnds, OtherEnds
<1> QED
  BY <1>2, <1>3, <1>4, <1>5, <1>6

(* An office that has a request, of a user that is owed a reply *)
LEMMA OfficeServesAsked ==
  ASSUME ServerInv, Running, NEW o \in Offices, loop[o] \notin Requestless
  PROVE  /\ Up /\ req[o].pid \in Asked /\ req[o].pid \notin served
         /\ \A q \in Offices \ {o} : Answering(q) => req[q].pid # req[o].pid
<1>1. /\ req[o].pid \in Pids /\ req[o].pid \notin served
      /\ \A q \in Offices : loop[q] \notin Requestless /\ req[q].pid = req[o].pid => q = o
  BY HeldByOne
<1>2. req[o].pid \in Asked
  <2>1. IsAt(req[o].pid, <<"office", o>>) /\ <<"office", o>> \in Spots
    BY SpotMade DEF IsAt, InOffice
  <2> QED
    BY <1>1, <2>1 DEF ServerInv, PlacesInv, Unwritten, Asked
<1>3. Up
  BY DEF ServerInv, OfficeInv, EndInOrder, Resting, Requestless, Running, Up
<1> QED
  BY <1>1, <1>2, <1>3 DEF Answering, Requestless

(* The requests that are owed a reply, after a step of an office that has one *)
LEMMA UnansweredWithOffice ==
  ASSUME ServerInv, SessionTypes, SessionTypes', NEW o \in Offices, Office(o), main' = main,
         loop[o] \notin Requestless, NEW p, p = req[o].pid,
         served' \in {served, served \union {p}}, Answering(o)' \/ p \in served',
         Answering(o)' => req'[o] = req[o]
  PROVE  /\ p \in Unanswered <=> ~ Answering(o)
         /\ AskedTags' = AskedTags /\ DueTags' = DueTags \ {Tag(p)}
<1>1. Running /\ user' = user
  BY OfficeLeaves
<1>2. /\ Up /\ p \in Asked /\ p \notin served
      /\ \A q \in Offices \ {o} : Answering(q) => req[q].pid # p
  BY <1>1, OfficeServesAsked
<1>3. /\ Up' = Up /\ \A q \in Offices \ {o} : Answering(q)' <=> Answering(q)
      /\ \A q \in Offices \ {o} : req'[q] = req[q]
  BY EndsOfOffice, OthersKeep DEF ServerInv, OfficeInv
<1>4. p \in Unanswered <=> ~ Answering(o)
  BY <1>2 DEF Unanswered
<1>5. Asked' = Asked
  BY <1>1 DEF Asked
<1>6. p \notin Unanswered'
  BY DEF Unanswered
<1>7. ASSUME NEW r, r # p
      PROVE  r \in Unanswered' <=> r \in Unanswered
  <2>1. r \in served' <=> r \in served
    BY <1>7
  <2>2. (Answering(o) => req[o].pid # r) /\ (Answering(o)' => req'[o].pid # r)
    BY <1>7
  <2> QED
    BY <1>3, <1>5, <2>1, <2>2 DEF Unanswered
<1>8. Unanswered' = Unanswered \ {p}
  BY <1>6, <1>7
<1>9. DueTags' = DueTags \ {Tag(p)}
  <2>1. Unanswered \subseteq Pids /\ p \in Pids
    BY <1>2 DEF Unanswered, Asked
  <2>2. \A r \in Unanswered : Tag(r) = Tag(p) => r = p
    BY <2>1, FirstTag
  <2>3. DueTags' = {Tag(r) : r \in Unanswered \ {p}}
    BY <1>8, TagsAreKept DEF DueTags
  <2> QED
    BY <2>2, <2>3 DEF DueTags
<1>10. AskedTags' = AskedTags
  BY <1>5, TagsAreKept DEF AskedTags
<1> QED
  BY <1>4, <1>9, <1>10

LEMMA OpenInConversation ==
  ASSUME ServerInv, LinkInv, LinkInv', NEW o \in Offices, OpenReplyTo(o)
  PROVE  Talk!Server
<1> DEFINE p == req[o].pid
<1>1. /\ loop[o] = "manage" /\ loop'[o] = "write" /\ Office(o) /\ TypeOK
      /\ UNCHANGED <<main, req, served>> /\ OpenedByServer(p) /\ Reachable(p)
  BY DEF OpenReplyTo, OpenReply, OpenedByServer, Office, ServerInv, OfficeInv, TypeOK, LoopStep,
         LoopAt, accountVars
<1>2. Running /\ SessionTypes /\ SessionTypes'
  BY <1>1, OfficeLeaves DEF LinkInv
<1>3. Up /\ p \in Asked /\ ~ Answering(o) /\ Answering(o)'
  BY <1>1, <1>2, OfficeServesAsked DEF Requestless, Answering, Up, Running
<1>4. /\ p \in Unanswered /\ AskedTags' = AskedTags /\ DueTags' = DueTags \ {Tag(p)}
  BY <1>1, <1>2, <1>3, UnansweredWithOffice DEF Requestless
<1>5. EndOf(o)' = [tag |-> Tag(p), run |-> Len(past[p]) + 1, written |-> FALSE]
  BY <1>1, <1>2, <1>3, FirstTag, TagsAreKept DEF EndOf, Asked
<1>6. OpenEnds' = OpenEnds \union {EndOf(o)'} /\ Up' = Up
  BY <1>1, <1>2, <1>3, EndsOfOffice
<1>7. Tag(p) \in DueTags /\ Tag(p)[1] = p
  BY <1>4 DEF DueTags, Tag
<1> HIDE DEF p
<1>8. Talk!ServerOpens(Tag(p))
  BY <1>1, <1>4, <1>5, <1>6, <1>7, SameSteps DEF Talk!ServerOpens
<1> QED
  BY <1>7, <1>8 DEF Talk!Server

LEMMA DownInConversation ==
  ASSUME ServerInv, LinkInv, LinkInv', NEW o \in Offices, FindUserDown(o)
  PROVE  Talk!Server
<1> DEFINE p == req[o].pid
<1>1. /\ loop[o] = "manage" /\ loop'[o] = "clear" /\ Office(o) /\ TypeOK
      /\ main' = main /\ served' = served \union {p} /\ ~ Reachable(p) /\ UNCHANGED sessionVars
  BY DEF FindUserDown, UserDown, Office, ServerInv, OfficeInv, TypeOK, LoopStep, LoopAt
<1>2. Running /\ SessionTypes /\ SessionTypes'
  BY <1>1, OfficeLeaves DEF LinkInv
<1>3. Up /\ p \in Asked /\ ~ Answering(o) /\ ~ Answering(o)'
  BY <1>1, <1>2, OfficeServesAsked DEF Requestless, Answering
<1>4. /\ p \in Unanswered /\ AskedTags' = AskedTags /\ DueTags' = DueTags \ {Tag(p)}
  BY <1>1, <1>2, <1>3, UnansweredWithOffice DEF Requestless
<1>5. OpenEnds' = OpenEnds /\ Up' = Up
  BY <1>1, <1>2, <1>3, EndsOfOffice
<1>6. Tag(p) \in DueTags /\ Tag(p)[1] = p
  BY <1>4 DEF DueTags, Tag
<1> HIDE DEF p
<1>7. Talk!ServerOpens(Tag(p))
  BY <1>1, <1>4, <1>5, <1>6, SameSteps DEF Talk!ServerOpens
<1> QED
  BY <1>6, <1>7 DEF Talk!Server

(* The end that an office has open is of the user whose request it has, and  *)
(* no other office has one of that user.                                     *)
LEMMA EndIsItsOwn ==
  ASSUME ServerInv, SessionTypes, NEW o \in Offices, Answering(o)
  PROVE  /\ EndOf(o) \in OpenEnds /\ EndOf(o) \notin OtherEnds(o)
         /\ EndOf(o).tag = Tag(req[o].pid) /\ EndOf(o).tag[1] = req[o].pid
         /\ EndOf(o).run = Len(past[req[o].pid]) + 1
         /\ EndOf(o).written <=> loop[o] = "close_reply"
<1>1. /\ req[o].pid \in Pids
      /\ \A q \in Offices : loop[q] \notin Requestless /\ req[q].pid = req[o].pid => q = o
  BY HeldByOne DEF Answering, Requestless
<1>2. EndOf(o) \in OpenEnds
  BY InEnds
<1>3. \A q : EndOf(q).tag[1] = req[q].pid
  BY DEF EndOf, Tag
<1>4. EndOf(o) \notin OtherEnds(o)
  <2> SUFFICES ASSUME NEW q \in Offices \ {o}, Answering(q), EndOf(q) = EndOf(o)
               PROVE  FALSE
    BY DEF OtherEnds
  <2> QED
    BY <1>1, <1>3 DEF Answering, Requestless
<1> QED
  BY <1>1, <1>2, <1>3, <1>4, FirstTag DEF EndOf

LEMMA SendInConversation ==
  ASSUME ServerInv, LinkInv, LinkInv', RepliesInv, NEW o \in Offices, SendTo(o)
  PROVE  Talk!Server
<1> DEFINE p == req[o].pid
<1> DEFINE e == EndOf(o)
<1>1. /\ loop[o] = "write" /\ loop'[o] = "close_reply" /\ Office(o) /\ TypeOK
      /\ UNCHANGED <<req, served>> /\ OfficeInv
  BY DEF SendTo, WriteReply, Office, ServerInv, OfficeInv, TypeOK, LoopStep, LoopAt, accountVars
<1>2. Running /\ SessionTypes /\ SessionTypes'
  BY <1>1, OfficeLeaves DEF LinkInv
<1>3. ReplyTo(o) = p /\ p \in Pids /\ ReplyTo(o) # "free"
  BY <1>1, <1>2, WritersHaveIt, PidsApart
<1>4. main' = main /\ WrittenByServer(p, Tag(p)) /\ reads[p]
  BY <1>3 DEF SendTo, WriteReply, WrittenByServer
<1>5. Up /\ Answering(o) /\ Answering(o)'
  BY <1>1, <1>2, <1>4, OfficeServesAsked DEF Requestless, Answering, Up, Running
<1>6. p \notin Unanswered /\ AskedTags' = AskedTags /\ DueTags' = DueTags \ {Tag(p)}
  BY <1>1, <1>2, <1>4, <1>5, UnansweredWithOffice DEF Requestless
<1>7. DueTags' = DueTags
  BY <1>2, <1>3, <1>6, SetsOfTags
<1>8. EndOf(o)' = [tag |-> e.tag, run |-> e.run, written |-> TRUE]
  <2>1. e.tag = Tag(p) /\ e.run = 1
    BY DEF EndOf
  <2>2. EndOf(o)' = [tag |-> Tag(p), run |-> 1, written |-> TRUE]
    BY <1>1, <1>2, TagsAreKept DEF EndOf
  <2> HIDE DEF e
  <2> QED
    BY <2>1, <2>2
<1>9. OpenEnds' = (OpenEnds \ {e}) \union {[tag |-> e.tag, run |-> e.run, written |-> TRUE]} /\ Up' = Up
  <2>1. /\ OpenEnds' = OtherEnds(o) \union {EndOf(o)'} /\ Up' = Up
        /\ OpenEnds = OtherEnds(o) \union {e}
    BY <1>1, <1>2, <1>4, <1>5, EndsOfOffice
  <2>2. e \notin OtherEnds(o)
    BY <1>2, <1>5, EndIsItsOwn
  <2> HIDE DEF e
  <2> QED
    BY <1>8, <2>1, <2>2
<1>10. /\ e \in OpenEnds /\ ~ e.written /\ e.tag = Tag(p) /\ e.tag[1] = p
       /\ e.run = Len(past[p]) + 1
  BY <1>1, <1>2, <1>5, EndIsItsOwn
<1> HIDE DEF p, e
<1>11. Talk!ServerWrites(e)
  BY <1>4, <1>6, <1>7, <1>9, <1>10, SameSteps DEF Talk!ServerWrites
<1> QED
  BY <1>10, <1>11 DEF Talk!Server

LEMMA CloseInConversation ==
  ASSUME ServerInv, LinkInv, LinkInv', NEW o \in Offices, CloseReply(o), UNCHANGED sessionVars
  PROVE  Talk!Server
<1> DEFINE p == req[o].pid
<1>1. /\ loop[o] = "close_reply" /\ loop'[o] = "clear" /\ Office(o) /\ TypeOK
      /\ main' = main /\ served' = served \union {p}
  BY DEF CloseReply, Office, ServerInv, OfficeInv, TypeOK, LoopStep, LoopAt
<1>2. Running /\ SessionTypes /\ SessionTypes'
  BY <1>1, OfficeLeaves DEF LinkInv
<1>3. Up /\ p \in Asked /\ Answering(o) /\ ~ Answering(o)'
  BY <1>1, <1>2, OfficeServesAsked DEF Requestless, Answering
<1>4. p \notin Unanswered /\ AskedTags' = AskedTags /\ DueTags' = DueTags \ {Tag(p)}
  BY <1>1, <1>2, <1>3, UnansweredWithOffice DEF Requestless
<1>5. DueTags' = DueTags
  BY <1>2, <1>3, <1>4, SetsOfTags DEF Asked
<1>6. OpenEnds' = OpenEnds \ {EndOf(o)} /\ Up' = Up
  BY <1>1, <1>2, <1>3, EndsOfOffice, EndIsItsOwn
<1>7. EndOf(o) \in OpenEnds /\ EndOf(o).written
  BY <1>1, <1>2, <1>3, EndIsItsOwn
<1>8. Talk!ServerCloses(EndOf(o))
  BY <1>4, <1>5, <1>6, <1>7, SameSteps DEF Talk!ServerCloses
<1> QED
  BY <1>7, <1>8 DEF Talk!Server

LEMMA InsideInConversation ==
  ASSUME ServerInv, LinkInv, LinkInv', NEW o \in Offices, Inside(o), ~ CloseReply(o),
         UNCHANGED sessionVars
  PROVE  UNCHANGED Talk!talkVars
<1>1. Office(o) /\ TypeOK /\ EndInOrder /\ SessionTypes /\ SessionTypes'
  BY DEF Inside, Office, ServerInv, OfficeInv, LinkInv
<1>2. main' = main /\ served' = served /\ user' = user
  BY <1>1, OfficeLeaves DEF Inside, StartOffice, WaitFull, MarkActive, PopRequest, PostEmpty,
                            Manage, ForkHash, LoseHash, EndHash, InHash, ChmodFifo, CloseFifo,
                            CountActive, RefuseShutdown, ClearActive, Die, replyVars
<1>3. /\ loop[o] \notin {"write", "close_reply"} /\ loop'[o] \notin {"write", "close_reply"}
  BY <1>1 DEF Inside, StartOffice, WaitFull, MarkActive, PopRequest, PostEmpty, Manage,
              ForkHash, LoseHash, EndHash, InHash, ChmodFifo, CloseFifo, CountActive,
              RefuseShutdown, ClearActive, Die, LoopStep, LoopAt, officeVars, TypeOK,
              EndInOrder, Resting
<1>4. \A q \in Offices \ {o} : loop'[q] = loop[q] /\ req'[q] = req[q]
  BY <1>1, OthersKeep
<1>5. Up' = Up /\ Asked' = Asked
  BY <1>2 DEF Up, Running, Asked
<1>6. \A q \in Offices : /\ Answering(q)' <=> Answering(q)
                         /\ Answering(q) => loop'[q] = loop[q] /\ req'[q] = req[q]
  BY <1>3, <1>4, <1>5 DEF Answering
<1>7. UNCHANGED Talk!serverVars
  BY <1>1, <1>2, <1>5, <1>6, UnansweredKept, ServerLooksSame
<1> QED
  BY <1>7, SameSteps DEF Talk!talkVars

LEMMA OfficeInConversation ==
  ASSUME ServerInv, LinkInv, LinkInv', Running => RepliesInv, NEW o \in Offices, ServerOffice(o)
  PROVE  Talk!Server \/ UNCHANGED Talk!talkVars
<1>1. CASE BreakPipe(o)
  <2>1. /\ loop[o] = "write" /\ Running /\ main' = "crashed" /\ user' = user
        /\ UNCHANGED sessionVars
    BY <1>1 DEF BreakPipe, LoopAt, fifoVars
  <2>2. Up /\ ~ Up' /\ Asked' = Asked
    BY <2>1, OfficeServesAsked DEF Requestless, Up, Running, Asked
  <2>3. Talk!ServerDies
    BY <2>1, <2>2, ServerEnds DEF LinkInv
  <2> QED
    BY <2>3 DEF Talk!Server
<1>2. CASE SendTo(o)
  <2>1. RepliesInv
    BY <1>2 DEF SendTo, WriteReply, LoopStep, LoopAt
  <2> QED
    BY <1>2, <2>1, SendInConversation
<1>3. CASE Inside(o) /\ UNCHANGED sessionVars
  BY <1>3, CloseInConversation, InsideInConversation
<1>4. CASE HashKills(o) /\ UNCHANGED sessionVars
  <2>1. loop[o] = "manage" /\ Running /\ main' = "killed" /\ user' = user
    BY <1>4 DEF HashKills, InHash, LoopAt, fifoVars
  <2>2. Up /\ ~ Up' /\ Asked' = Asked
    BY <2>1, OfficeServesAsked DEF Requestless, Up, Running, Asked
  <2>3. Talk!ServerDies
    BY <1>4, <2>2, ServerEnds DEF LinkInv
  <2> QED
    BY <2>3 DEF Talk!Server
<1> QED
  BY <1>1, <1>2, <1>3, <1>4, OpenInConversation, DownInConversation DEF ServerOffice

-----------------------------------------------------------------------------
(* The service as a conversation *)

(* Each step of the service is one of Conversation, or none: a user's step in *)
(* sendRequest is one with the server's FIFO, an office's in sendReply one    *)
(* with the user's, and nothing else is seen (user.c:33-51, bankoffice.c:365). *)
THEOREM ConversationStep ==
  ASSUME ServerInv, LinkInv, LinkInv', Running => RepliesInv, [HomeNext]_homeVars
  PROVE  [Talk!TalkNext]_(Talk!talkVars)
<1>1. ASSUME NEW p \in Pids, UserProgram(p) PROVE Talk!TalkNext
  BY <1>1, ProgramInConversation DEF Talk!TalkNext
<1>2. CASE Main /\ UNCHANGED sessionVars
  <2>1. Talk!ServerDies \/ UNCHANGED Talk!talkVars
    BY <1>2, MainInConversation DEF LinkInv
  <2> QED
    BY <2>1 DEF Talk!TalkNext, Talk!Server
<1>3. ASSUME NEW o \in Offices, ServerOffice(o) PROVE [Talk!TalkNext]_(Talk!talkVars)
  BY <1>3, OfficeInConversation DEF Talk!TalkNext
<1>4. CASE UNCHANGED homeVars
  <2>1. UNCHANGED <<main, user, loop, req, served>> /\ UNCHANGED sessionVars
    BY <1>4 DEF homeVars, vars, fifoVars, officeVars, accountVars, replyVars
  <2>2. Up' = Up /\ Asked' = Asked /\ \A o \in Offices : Answering(o)' <=> Answering(o)
    BY <2>1 DEF Up, Running, Asked, Answering
  <2>3. UNCHANGED Talk!serverVars
    BY <2>1, <2>2, UnansweredKept, ServerLooksSame DEF LinkInv
  <2> QED
    BY <2>1, <2>3, SameSteps DEF Talk!talkVars
<1> QED
  BY <1>1, <1>2, <1>3, <1>4 DEF HomeNext

(* The service starts as a conversation does. *)
LEMMA ConversationInit == HomeInit => Talk!TalkInit
<1> SUFFICES ASSUME HomeInit PROVE Talk!TalkInit
  OBVIOUS
<1>1. Talk!SessionInit
  BY DEF HomeInit, SessionInit, Talk!SessionInit
<1>2. Asked = {} /\ Up \in BOOLEAN
  BY DEF HomeInit, Init, Asked, Up, Running
<1>3. AskedTags = {} /\ DueTags = {}
  BY <1>2 DEF AskedTags, DueTags, Unanswered
<1>4. OpenEnds = {}
  BY DEF HomeInit, Init, OpenEnds, Answering
<1> QED
  BY <1>1, <1>2, <1>3, <1>4 DEF Talk!TalkInit

(* If the administrator asks once for the server to be stopped, what the     *)
(* users see of the server is a server of Conversation: it takes a request    *)
(* once, answers it once and to the user it is from, and closes what it opens *)
(* (bankoffice.c:365-385).                                                    *)
THEOREM HomeConverses ==
  ASSUME OneShutdown
  PROVE  HomeSpec => KeepsToConversation
<1>1. HomeInit => Talk!TalkInit
  BY ConversationInit
<1>2. /\ ServerInv /\ LinkInv /\ WaitInv /\ (ServerInv /\ LinkInv /\ WaitInv)'
      /\ [HomeNext]_homeVars
      => [Talk!TalkNext]_(Talk!talkVars)
  BY ConversationStep DEF WaitInv
<1> QED
  BY <1>1, <1>2, WaitsHold, PTL DEF HomeSpec, KeepsToConversation, Talk!TalkSpec

(* What is proved about Conversation is about the same steps. *)
LEMMA AnyServerSteps ==
  /\ Talk!TalkInit <=> AnyServer!TalkInit
  /\ Talk!TalkNext <=> AnyServer!TalkNext
  /\ (UNCHANGED Talk!talkVars) <=> (UNCHANGED AnyServer!talkVars)
<1>1. Talk!TalkInit <=> AnyServer!TalkInit
  BY DEF Talk!TalkInit, AnyServer!TalkInit, Talk!SessionInit, AnyServer!SessionInit
<1> USE DEF Talk!From, AnyServer!From, Talk!To, AnyServer!To, Talk!StepTo, AnyServer!StepTo,
            Talk!Shows, AnyServer!Shows, Talk!Exit, AnyServer!Exit, Talk!ownVars, AnyServer!ownVars,
            Talk!resultVars, AnyServer!resultVars, Talk!sessionVars, AnyServer!sessionVars,
            Talk!serverVars, AnyServer!serverVars, Talk!Tag, AnyServer!Tag
<1>2. (UNCHANGED Talk!talkVars) <=> (UNCHANGED AnyServer!talkVars)
  BY DEF Talk!talkVars, AnyServer!talkVars
<1>3. ASSUME NEW p
      PROVE  /\ Talk!Start(p) <=> AnyServer!Start(p)
             /\ Talk!Follow(p) <=> AnyServer!Follow(p)
  BY DEF Talk!Start, AnyServer!Start, Talk!Begin, AnyServer!Begin, Talk!Refuse, AnyServer!Refuse,
         Talk!Follow, AnyServer!Follow, Talk!Again, AnyServer!Again
<1>4. ASSUME NEW p
      PROVE  /\ Talk!MakeUserFifo(p) <=> AnyServer!MakeUserFifo(p)
             /\ Talk!Open(p) <=> AnyServer!Open(p)
             /\ Talk!Write(p) <=> AnyServer!Write(p)
             /\ Talk!SendClose(p) <=> AnyServer!SendClose(p)
             /\ Talk!MeetEnd(p) <=> AnyServer!MeetEnd(p)
  BY DEF Talk!MakeUserFifo, AnyServer!MakeUserFifo, Talk!Open, AnyServer!Open, Talk!SendOpen,
         AnyServer!SendOpen, Talk!Write, AnyServer!Write, Talk!SendWrite, AnyServer!SendWrite,
         Talk!Arrives, AnyServer!Arrives, Talk!SendClose, AnyServer!SendClose, Talk!MeetEnd,
         AnyServer!MeetEnd, Talk!ReadNothing, AnyServer!ReadNothing
<1>5. ASSUME NEW p PROVE Talk!Await(p) <=> AnyServer!Await(p)
  BY DEF Talk!Await, AnyServer!Await, Talk!EnableTimeoutAlarm, AnyServer!EnableTimeoutAlarm,
         Talk!OpenOwn, AnyServer!OpenOwn, Talk!OpenOwnFails, AnyServer!OpenOwnFails,
         Talk!OpenedOwn, AnyServer!OpenedOwn, Talk!ReadReply, AnyServer!ReadReply,
         Talk!DisableTimeoutAlarm, AnyServer!DisableTimeoutAlarm, Talk!AlarmRings,
         AnyServer!AlarmRings, Talk!LogReply, AnyServer!LogReply, Talk!DeleteUserFifo,
         AnyServer!DeleteUserFifo
<1>6. Talk!Server <=> AnyServer!Server
  BY DEF Talk!Server, AnyServer!Server, Talk!ServerOpens, AnyServer!ServerOpens,
         Talk!ServerWrites, AnyServer!ServerWrites, Talk!ServerCloses, AnyServer!ServerCloses,
         Talk!ServerDies, AnyServer!ServerDies, Talk!Gone, AnyServer!Gone, Talk!Reachable,
         AnyServer!Reachable, Talk!OpenedByServer, AnyServer!OpenedByServer,
         Talk!WrittenByServer, AnyServer!WrittenByServer
<1>7. Talk!TalkNext <=> AnyServer!TalkNext
  BY <1>3, <1>4, <1>5, <1>6 DEF Talk!TalkNext, AnyServer!TalkNext, Talk!Proceed, AnyServer!Proceed
<1> QED
  BY <1>1, <1>2, <1>7

LEMMA ConversationIsOne == KeepsToConversation => AnyServer!TalkSpec
<1>1. [Talk!TalkNext]_(Talk!talkVars) => [AnyServer!TalkNext]_(AnyServer!talkVars)
  BY AnyServerSteps
<1>2. Talk!TalkInit => AnyServer!TalkInit
  BY AnyServerSteps
<1> QED
  BY <1>1, <1>2, PTL DEF KeepsToConversation, Talk!TalkSpec, AnyServer!TalkSpec

LEMMA AnyServerAssumptions == AnyServer!RequestsAssumption /\ AnyServer!MaxRunsAssumption
  BY RequestsAssumption, MaxRunsAssumption
     DEF RequestsAssumption, MaxRunsAssumption, AnyServer!RequestsAssumption,
         AnyServer!MaxRunsAssumption

(* So what holds of user programs with any server holds of them with this   *)
(* one, for any number of both.  A process logs one reply at most, and one   *)
(* that shows a reply, a server that is down or a timeout has logged it       *)
(* (user.c:142, 199).                                                         *)
THEOREM HomeLogsOneReply ==
  ASSUME OneShutdown
  PROVE  HomeSpec => []OneReplyLogged
<1>1. AnyServer!OneReplyLogged => OneReplyLogged
  BY DEF AnyServer!OneReplyLogged, OneReplyLogged, AnyServer!From, From
<1>2. AnyServer!TalkSpec => []AnyServer!OneReplyLogged
  BY AnyServer!OneReplyIsLogged, AnyServerAssumptions
<1> QED
  BY <1>1, <1>2, HomeConverses, ConversationIsOne, PTL

(* A FIFO that is left behind was left by a process whose write failed       *)
(* (user.c:172).                                                              *)
THEOREM HomeLeavesUnsent ==
  ASSUME OneShutdown
  PROVE  HomeSpec => []FifoLeftOnlyUnsent
<1>1. AnyServer!FifoLeftOnlyUnsent => FifoLeftOnlyUnsent
  BY DEF AnyServer!FifoLeftOnlyUnsent, FifoLeftOnlyUnsent, AnyServer!LeftUnsent, LeftUnsent
<1>2. AnyServer!TalkSpec => []AnyServer!FifoLeftOnlyUnsent
  BY AnyServer!FifosAreLeftUnsent, AnyServerAssumptions
<1> QED
  BY <1>1, <1>2, HomeConverses, ConversationIsOne, PTL

(* The reply a user is shown is the one to its own request (user.c:182).     *)
THEOREM HomeShowsOwnAnswer ==
  ASSUME OneShutdown
  PROVE  HomeSpec => []OwnAnswer
<1>1. AnyServer!OwnAnswer => OwnAnswer
  BY DEF AnyServer!OwnAnswer, OwnAnswer, AnyServer!GaveUp, GaveUp, AnyServer!Tag, Tag
<1>2. AnyServer!TalkSpec => []AnyServer!OwnAnswer
  BY AnyServer!AnswersAreOwn, AnyServerAssumptions
<1> QED
  BY <1>1, <1>2, HomeConverses, ConversationIsOne, PTL

(* What Session sees of the users is the same. *)
LEMMA SamePromise ==
  /\ Talk!Promise!Init <=> AnyServer!Promise!Init
  /\ [Talk!Promise!Next]_(Talk!Promise!sessionVars)
       <=> [AnyServer!Promise!Next]_(AnyServer!Promise!sessionVars)
<1> USE DEF Talk!Phase, AnyServer!Phase, Talk!Tag, AnyServer!Tag
<1>1. Talk!Promise!Init <=> AnyServer!Promise!Init
  BY DEF Talk!Promise!Init, AnyServer!Promise!Init
<1>2. Talk!Promise!Next <=> AnyServer!Promise!Next
  BY DEF Talk!Promise!Next, AnyServer!Promise!Next, Talk!Promise!Ask, AnyServer!Promise!Ask,
         Talk!Promise!Send, AnyServer!Promise!Send, Talk!Promise!Conclude,
         AnyServer!Promise!Conclude, Talk!Promise!Again, AnyServer!Promise!Again,
         Talk!Promise!MaybeDone, AnyServer!Promise!MaybeDone, Talk!Promise!NotSent,
         AnyServer!Promise!NotSent
<1>3. (UNCHANGED Talk!Promise!sessionVars) <=> (UNCHANGED AnyServer!Promise!sessionVars)
  BY DEF Talk!Promise!sessionVars, AnyServer!Promise!sessionVars
<1> QED
  BY <1>1, <1>2, <1>3

(* What a user is shown tells whether its request is with the server         *)
(* (user.c:151-219): the safety part of Session, of the whole service.        *)
THEOREM HomeIsASession ==
  ASSUME OneShutdown
  PROVE  HomeSpec => Talk!Promise!Init /\ [][Talk!Promise!Next]_(Talk!Promise!sessionVars)
<1>1. AnyServer!TalkSpec =>
        /\ AnyServer!Promise!Init
        /\ [][AnyServer!Promise!Next]_(AnyServer!Promise!sessionVars)
  BY AnyServer!TalkIsASession, AnyServerAssumptions
<1>2. AnyServer!Promise!Init => Talk!Promise!Init
  BY SamePromise
<1>3. [AnyServer!Promise!Next]_(AnyServer!Promise!sessionVars)
        => [Talk!Promise!Next]_(Talk!Promise!sessionVars)
  BY SamePromise
<1> QED
  BY <1>1, <1>2, <1>3, HomeConverses, ConversationIsOne, PTL
=============================================================================
