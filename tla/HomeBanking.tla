----------------------------- MODULE HomeBanking -----------------------------
(***************************************************************************)
(* The whole service: the server (BankOffice) and the user programs        *)
(* (UserSession), joined by their FIFOs.  A user opens its own FIFO only    *)
(* after it has sent its request and leaves it when its alarm clock rings, *)
(* so that the office that answers may come too early, in time or too late. *)
(*                                                                         *)
(* A step of a user in sendRequest is one of both modules, as is an         *)
(* office's use of a user's FIFO; every other step is one of one module     *)
(* alone.  Here each pid is used once.                                      *)
(***************************************************************************)
EXTENDS BankOffice, UserSession

homeVars == <<vars, sessionVars>>

HomeInit == Init /\ SessionInit

-----------------------------------------------------------------------------
(* The user programs *)

OpenAndSee(p) == OpenServer(p) /\ SendOpen(p, user'[p] = "opened")

(* Mutant: a FIFO that the request has filled is taken for one it found full. *)
WriteSeenFull(p) == WriteRequest(p) /\ SendWrite(p, user'[p] = "written" /\ Len(fifo') < FifoSize)

WriteAndSee(p) == WriteRequest(p) /\ SendWrite(p, user'[p] = "written")

CloseAndGo(p) == CloseServer(p) /\ SendClose(p)

(* The FIFO of p is open to write in the server, which dies with all it has *)
(* open.                                                                    *)
HasWriter(p) ==
  Running /\ (shutdownFD = p \/ \E o \in Offices : replyFD[o] = "own" /\ req[o].pid = p)

Apart(p) ==
  \/ Begin(p) \/ MakeUserFifo(p) \/ Await(p)
  \/ ~ HasWriter(p) /\ ReadNothing(p)

UserProgram(p) ==
  \/ OpenAndSee(p) \/ WriteAndSee(p) \/ CloseAndGo(p)
  \/ Apart(p) /\ UNCHANGED vars

-----------------------------------------------------------------------------
(* The server *)

OpenReplyTo(o) == OpenReply(o) /\ OpenedByServer(req[o].pid)

(* Mutant: an office gives a reply up although its user waits for it. *)
FindUserDownAnyway(o) == UserDown(o) /\ UNCHANGED sessionVars

FindUserDown(o) == UserDown(o) /\ ~ Reachable(req[o].pid) /\ UNCHANGED sessionVars

SendTo(o) ==
  /\ WriteReply(o)
  /\ IF ReplyTo(o) = "free" THEN UNCHANGED sessionVars
     ELSE WrittenByServer(ReplyTo(o), Tag(req[o].pid))

(* The user has closed its FIFO since the office opened it: SIGPIPE, whose   *)
(* action nobody has changed.                                               *)
BreakPipe(o) ==
  /\ LoopAt(o, "write")
  /\ ReplyTo(o) # "free" /\ ~ reads[ReplyTo(o)]
  /\ main' = "crashed"
  /\ UNCHANGED <<accountVars, fifoVars, queueVars, officeVars, endVars, childVars, shutdownFD,
                 replyVars, sessionVars>>

Inside(o) ==
  \/ StartOffice(o) \/ WaitFull(o) \/ MarkActive(o) \/ PopRequest(o) \/ PostEmpty(o)
  \/ Manage(o)
  \/ ForkHash(o) \/ LoseHash(o) \/ EndHash(o)
  \/ ChmodFifo(o) \/ CloseFifo(o) \/ CountActive(o) \/ RefuseShutdown(o)
  \/ CloseReply(o) \/ ClearActive(o) \/ Die(o)

ServerOffice(o) ==
  \/ OpenReplyTo(o) \/ FindUserDown(o) \/ SendTo(o) \/ BreakPipe(o)
  \/ (Inside(o) \/ HashKills(o)) /\ UNCHANGED sessionVars

HomeNext ==
  \/ \E p \in Pids : UserProgram(p)
  \/ Main /\ UNCHANGED sessionVars
  \/ \E o \in Offices : ServerOffice(o)

HomeSpec == HomeInit /\ [][HomeNext]_homeVars

-----------------------------------------------------------------------------
(* Properties *)

(* With one request to stop it, the server dies of two things only: an       *)
(* office writes to a user who stopped waiting after the server had opened   *)
(* its FIFO (bankoffice.c:376), or has no child to make the hash that it      *)
(* needs to create an account or to check the password of one that exists    *)
(* (accounts.c:107, bankoffice.c:99).                                         *)
DeadOfLateReplyOrHash ==
  /\ main = "crashed" =>
       \E o \in Offices : loop[o] = "write" /\ result[req[o].pid] = "SRV_TIMEOUT"
  /\ main = "killed" =>
       \E o \in Offices :
         /\ HashFaults /\ child[o] = "lost" /\ reply[o] = NoReply
         /\ req[o].type = "OP_CREATE_ACCOUNT" \/ used[req[o].account_id]

(* The user's log and the server's agree: a user who is shown a reply was    *)
(* sent it, one who was sent it is shown it or timed out, and one whom the   *)
(* server found down times out, or could not open its FIFO.  Nothing at all  *)
(* is read only from a server that has died.                                 *)
LogsAgree ==
  \A p \in Pids :
    /\ result[p] = "reply" => p \in inbox[p]
    /\ result[p] \in {"SRV_DOWN", "not_sent"} => p \notin inbox[p] \union served
    /\ p \in served \ inbox[p] => result[p] \in {"none", "SRV_TIMEOUT", "USR_DOWN"}
    /\ result[p] = "OTHER" => ~ Running

(* A user who is told that the server is down, or whose write failed, has    *)
(* its request nowhere in the server.                                        *)
UntakenNowhere ==
  \A p \in Pids : result[p] \in {"SRV_DOWN", "not_sent"} =>
    /\ \A i \in DOMAIN fifo : fifo[i].pid # p
    /\ main \in {"wait_empty", "push"} => inHand.pid # p
    /\ \A i \in DOMAIN queue : queue[i].pid # p
    /\ \A o \in Offices : ~ At(o, "idle") => req[o].pid # p

(* What its users can see of this server: that it has not ended, whose       *)
(* requests it has been sent and owes a reply, and the FIFOs it has open.    *)
(* With that it is a server as Conversation expects, if no reply goes to     *)
(* another user (RepliesReachTheirUsers).                                    *)
Up == Running /\ main # "stopped"
Answering(o) == Up /\ loop[o] \in {"write", "close_reply"}
Asked == {p \in Pids : user[p] \in {"written", "sent"}}
Unanswered ==
  {p \in Asked : Up /\ p \notin served /\ \A o \in Offices : Answering(o) => req[o].pid # p}

AskedTags == {Tag(p) : p \in Asked}
DueTags == {Tag(p) : p \in Unanswered}
EndOf(o) == [tag |-> Tag(req[o].pid), run |-> 1, written |-> loop[o] = "close_reply"]
OpenEnds == {EndOf(o) : o \in {q \in Offices : Answering(q)}}

Talk ==
  INSTANCE Conversation WITH up <- Up, taken <- AskedTags, due <- DueTags, ends <- OpenEnds

(* Whatever the server does, its users see one that takes a request once,   *)
(* answers it once, to whom it came from, and closes what it opens: what    *)
(* holds of users with any server (Conversation) holds of them with this     *)
(* one (bankoffice.c:365-385).                                                *)
KeepsToConversation == Talk!TalkSpec
=============================================================================
