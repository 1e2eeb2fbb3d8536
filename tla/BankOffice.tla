------------------------------ MODULE BankOffice ------------------------------
(***************************************************************************)
(* The server as a whole (server.c, bankoffice.c): the main thread reads   *)
(* requests from the server FIFO and puts them in a queue, the bank        *)
(* offices take them out, do the work on the accounts (Accounts) and send  *)
(* the replies; two semaphores count the free and the used places of the   *)
(* queue.  A shutdown request closes the server's own write end of the     *)
(* FIFO, so that the main thread meets the end of the file when the last   *)
(* user has closed its own; it then waits until there is nothing left to   *)
(* do, cancels the offices and destroys everything.                         *)
(*                                                                         *)
(* Of a user (user.c) this is the side that sends: sendRequest.  Whether   *)
(* its FIFO has a reader when the reply comes is left open.                 *)
(*                                                                         *)
(* The queue is a sequence (RequestQueue implements one) and, because only *)
(* queueMutex's owner uses it, each use of it is one step.                  *)
(***************************************************************************)
EXTENDS Accounts, Sequences

CONSTANTS
  BUFFER_SIZE,   \* places in the queue
  FifoSize,      \* bound: requests the server FIFO holds
  CallsOf        \* CallsOf[p]: the requests user p may send

ASSUME BankOfficeAssumption ==
  /\ BUFFER_SIZE \in Nat \ {0}
  /\ FifoSize \in Nat \ {0}
  /\ IsFiniteSet(Pids)
  /\ CallsOf \in [Pids -> SUBSET ClientCalls]
  /\ \A p \in Pids : \A r \in CallsOf[p] : r.pid = p
  /\ Offices # {} /\ "server_fifo" \notin Offices
  /\ Pids \intersect {"none", "server_fifo", "free"} = {}

VARIABLES
  user,       \* user[p]: where user p is in sendRequest
  call,       \* call[p]: the request it sends
  fifo,       \* the requests in the server FIFO
  writable,   \* the mode of the server FIFO lets users write to it
  main,       \* where the main thread is
  inHand,     \* the request it has read and not yet queued
  queue,      \* the requests in the queue
  emptySem,   \* queueEmptySem
  fullSem,    \* queueFullSem
  loop,       \* loop[o]: where office o is in runBankOffice
  active,     \* activeOffices
  scanned,    \* the offices waitForRequestFinish has counted as not active
  cancelled,  \* the offices the main thread has cancelled
  child,      \* child[o]: the sha256sum that office o has forked, if any
  holds,      \* holds[o]: whose input pipes it has inherited, and the server FIFO
  shutdownFD, \* what the descriptor of that number is open on
  replyFD,    \* replyFD[o]: the descriptor office o sends its reply on
  inbox,      \* inbox[p]: the users whose replies have come to p's FIFO
  served      \* the users whose requests have been answered, or were USR_DOWN

fifoVars == <<user, call, fifo, writable>>
queueVars == <<inHand, queue, emptySem, fullSem>>
endVars == <<scanned, cancelled>>
childVars == <<child, holds>>
replyVars == <<replyFD, inbox, served>>
officeVars == <<loop, active>>
vars ==
  <<accountVars, fifoVars, main, queueVars, officeVars, endVars, childVars, shutdownFD, replyVars>>

UserPCs == {"start", "opened", "written", "sent", "srv_down", "failed"}

(* The process ends in three ways: stopped, crashed because a reply could   *)
(* not be written, or killed because a hash could not be made.              *)
MainPCs ==
  {"make_fifo", "open_read", "open_write", "read", "wait_empty", "push", "post_full",
   "drain", "count", "cancel", "destroy", "stopped", "crashed", "killed"}
LoopPCs ==
  {"start", "wait", "mark", "pop", "post_empty", "manage", "close_fifo", "count",
   "write", "close_reply", "clear", "gone"}
ChildStates == {"none", "runs", "ended", "lost"}

(* The main thread has set up the accounts and started the offices; what   *)
(* is in activeOffices is what malloc left there.                           *)
Init ==
  /\ AccountsInit
  /\ user = [p \in Pids |-> "start"]
  /\ call \in [Pids -> ClientCalls] /\ \A p \in Pids : call[p] \in CallsOf[p]
  /\ fifo = <<>> /\ writable = TRUE
  /\ main = "make_fifo" /\ inHand = NoRequest
  /\ queue = <<>> /\ emptySem = BUFFER_SIZE /\ fullSem = 0
  /\ loop = [o \in Offices |-> "start"]
  /\ active \in [Offices -> BOOLEAN]
  /\ scanned = {} /\ cancelled = {}
  /\ child = [o \in Offices |-> "none"] /\ holds = [o \in Offices |-> {}]
  /\ shutdownFD = "none"
  /\ replyFD = [o \in Offices |-> "none"]
  /\ inbox = [p \in Pids |-> {}] /\ served = {}

Running == main \notin {"crashed", "killed"}

-----------------------------------------------------------------------------
(* A user: sendRequest *)

UserStep(p, from, to) == user[p] = from /\ user' = [user EXCEPT ![p] = to]

(* The FIFO can be opened without waiting while the main thread reads it,  *)
(* or waits for somebody to write to it.                                    *)
HasReader == Running /\ main \notin {"make_fifo", "stopped"}

OpenServer(p) ==
  /\ IF HasReader /\ writable THEN UserStep(p, "start", "opened")
     ELSE UserStep(p, "start", "srv_down")
  /\ UNCHANGED <<accountVars, call, fifo, writable, main, queueVars, officeVars, endVars,
                 childVars, shutdownFD, replyVars>>

(* A FIFO that is full makes a user give up (the write does not wait), and *)
(* one that nobody reads any more kills it.                                 *)
WriteRequest(p) ==
  /\ IF HasReader /\ Len(fifo) < FifoSize
     THEN UserStep(p, "opened", "written") /\ fifo' = Append(fifo, call[p])
     ELSE UserStep(p, "opened", "failed") /\ UNCHANGED fifo
  /\ UNCHANGED <<accountVars, call, writable, main, queueVars, officeVars, endVars, childVars,
                 shutdownFD, replyVars>>

CloseServer(p) ==
  /\ UserStep(p, "written", "sent")
  /\ UNCHANGED <<accountVars, call, fifo, writable, main, queueVars, officeVars, endVars,
                 childVars, shutdownFD, replyVars>>

User(p) == OpenServer(p) \/ WriteRequest(p) \/ CloseServer(p)

-----------------------------------------------------------------------------
(* The main thread: main and readRequests *)

MainStep(from, to) == main = from /\ main' = to

MakeFifo ==
  /\ MainStep("make_fifo", "open_read")
  /\ UNCHANGED <<accountVars, fifoVars, queueVars, officeVars, endVars, childVars, shutdownFD,
                 replyVars>>

(* Opening the FIFO to read waits for the first user that opens it, which  *)
(* may have closed it again meanwhile.                                      *)
OpenRead ==
  /\ \E p \in Pids : user[p] \notin {"start", "srv_down"}
  /\ MainStep("open_read", "open_write")
  /\ UNCHANGED <<accountVars, fifoVars, queueVars, officeVars, endVars, childVars, shutdownFD,
                 replyVars>>

OpenWrite ==
  /\ MainStep("open_write", "read")
  /\ shutdownFD' = "server_fifo"
  /\ UNCHANGED <<accountVars, fifoVars, queueVars, officeVars, endVars, childVars, replyVars>>

ReadRequest ==
  /\ MainStep("read", "wait_empty")
  /\ fifo # <<>>
  /\ inHand' = Head(fifo) /\ fifo' = Tail(fifo)
  /\ UNCHANGED <<accountVars, user, call, writable, queue, emptySem, fullSem, officeVars,
                 endVars, childVars, shutdownFD, replyVars>>

(* Nobody has the FIFO open to write any more: not the server, no user and *)
(* no child of the server that was forked while the server had.              *)
ReadEndOfFile ==
  /\ MainStep("read", "drain")
  /\ fifo = <<>>
  /\ shutdownFD # "server_fifo"
  /\ \A o \in Offices : "server_fifo" \notin holds[o]
  /\ \A p \in Pids : user[p] \notin {"opened", "written"}
  /\ UNCHANGED <<accountVars, fifoVars, queueVars, officeVars, endVars, childVars, shutdownFD,
                 replyVars>>

(* Mutant: a request is put in the queue whether there is a place or not. *)
WaitEmptyNot ==
  /\ MainStep("wait_empty", "push")
  /\ emptySem' = emptySem - 1
  /\ UNCHANGED <<accountVars, fifoVars, inHand, queue, fullSem, officeVars, endVars, childVars,
                 shutdownFD, replyVars>>

(* addRequestToQueue: wait for a place, push, signal. *)
WaitEmpty ==
  /\ MainStep("wait_empty", "push")
  /\ emptySem > 0 /\ emptySem' = emptySem - 1
  /\ UNCHANGED <<accountVars, fifoVars, inHand, queue, fullSem, officeVars, endVars, childVars,
                 shutdownFD, replyVars>>

PushRequest ==
  /\ MainStep("push", "post_full")
  /\ queue' = Append(queue, inHand) /\ inHand' = NoRequest
  /\ UNCHANGED <<accountVars, fifoVars, emptySem, fullSem, officeVars, endVars, childVars,
                 shutdownFD, replyVars>>

(* Mutant: the offices are not signalled. *)
PostFullNot ==
  /\ MainStep("post_full", "read")
  /\ UNCHANGED <<accountVars, fifoVars, queueVars, officeVars, endVars, childVars, shutdownFD,
                 replyVars>>

PostFull ==
  /\ MainStep("post_full", "read")
  /\ fullSem' = fullSem + 1
  /\ UNCHANGED <<accountVars, fifoVars, inHand, queue, emptySem, officeVars, endVars,
                 childVars, shutdownFD, replyVars>>

(* Mutant: only the offices are waited for, not the queue. *)
SeeQueueAnyway ==
  /\ MainStep("drain", "count")
  /\ UNCHANGED <<accountVars, fifoVars, queueVars, officeVars, endVars, childVars, shutdownFD,
                 replyVars>>

(* destroyBankOffices: wait until the queue is seen empty, then until a    *)
(* look at one office after the other finds none that is active.            *)
SeeQueueEmpty ==
  /\ MainStep("drain", "count")
  /\ queue = <<>>
  /\ UNCHANGED <<accountVars, fifoVars, queueVars, officeVars, endVars, childVars, shutdownFD,
                 replyVars>>

CheckOffice(o) ==
  /\ main = "count" /\ o \notin scanned
  /\ scanned' = IF active[o] THEN {} ELSE scanned \union {o}
  /\ main' = IF scanned' = Offices THEN "cancel" ELSE "count"
  /\ UNCHANGED <<accountVars, fifoVars, queueVars, officeVars, cancelled, childVars,
                 shutdownFD, replyVars>>

(* The offices are cancelled one by one, each joined before the next. *)
CancelOffice(o) ==
  /\ main = "cancel" /\ o \notin cancelled
  /\ \A p \in cancelled : loop[p] = "gone"
  /\ cancelled' = cancelled \union {o}
  /\ UNCHANGED <<accountVars, fifoVars, main, queueVars, officeVars, scanned, childVars,
                 shutdownFD, replyVars>>

(* destroyQueue, destroyAccounts, and the FIFO is closed and unlinked. *)
Destroy ==
  /\ MainStep("cancel", "stopped")
  /\ \A o \in Offices : loop[o] = "gone"
  /\ used' = [a \in AccountIds |-> FALSE]
  /\ UNCHANGED <<pc, req, reply, mutex, balance, secret, fifoVars, queueVars, officeVars,
                 endVars, childVars, shutdownFD, replyVars>>

Main ==
  \/ MakeFifo \/ OpenRead \/ OpenWrite \/ ReadRequest \/ ReadEndOfFile
  \/ WaitEmpty \/ PushRequest \/ PostFull
  \/ SeeQueueEmpty
  \/ \E o \in Offices : CheckOffice(o) \/ CancelOffice(o)
  \/ Destroy

-----------------------------------------------------------------------------
(* A bank office: runBankOffice and getRequestFromQueue *)

LoopAt(o, label) == Running /\ loop[o] = label
LoopStep(o, from, to) == LoopAt(o, from) /\ loop' = [loop EXCEPT ![o] = to]

StartOffice(o) ==
  /\ LoopStep(o, "start", "wait")
  /\ active' = [active EXCEPT ![o] = FALSE]
  /\ UNCHANGED <<accountVars, fifoVars, main, queueVars, endVars, childVars, shutdownFD,
                 replyVars>>

WaitFull(o) ==
  /\ LoopStep(o, "wait", "mark")
  /\ fullSem > 0 /\ fullSem' = fullSem - 1
  /\ UNCHANGED <<accountVars, fifoVars, main, inHand, queue, emptySem, active, endVars,
                 childVars, shutdownFD, replyVars>>

(* Mutant: the office is not marked active before it takes the request. *)
MarkActiveNot(o) ==
  /\ LoopStep(o, "mark", "pop")
  /\ UNCHANGED <<accountVars, fifoVars, main, queueVars, active, endVars, childVars,
                 shutdownFD, replyVars>>

MarkActive(o) ==
  /\ LoopStep(o, "mark", "pop")
  /\ active' = [active EXCEPT ![o] = TRUE]
  /\ UNCHANGED <<accountVars, fifoVars, main, queueVars, endVars, childVars, shutdownFD,
                 replyVars>>

PopRequest(o) ==
  /\ LoopStep(o, "pop", "post_empty")
  /\ queue # <<>>
  /\ queue' = Tail(queue)
  /\ Take(o, Head(queue))
  /\ UNCHANGED <<fifoVars, main, inHand, emptySem, fullSem, active, endVars, childVars,
                 shutdownFD, replyVars>>

(* Mutant: the place of the request is not given back. *)
PostEmptyNot(o) ==
  /\ LoopStep(o, "post_empty", "manage")
  /\ UNCHANGED <<accountVars, fifoVars, main, queueVars, active, endVars, childVars,
                 shutdownFD, replyVars>>

PostEmpty(o) ==
  /\ LoopStep(o, "post_empty", "manage")
  /\ emptySem' = emptySem + 1
  /\ UNCHANGED <<accountVars, fifoVars, main, inHand, queue, fullSem, active, endVars,
                 childVars, shutdownFD, replyVars>>

(* An account is created, and the password of one checked, with a hash that *)
(* a child makes (HashCoprocess).  The child gets what the server has open  *)
(* when it is forked, as far as it matters here: the pipes to the children  *)
(* of other calls, unless these are through with them, and the server FIFO. *)
InHash(o) == LoopAt(o, "manage") /\ Hashing(o)

OpenPipes(o) ==
  {p \in Offices \ {o} : loop[p] = "manage" /\ Hashing(p) /\ child[p] # "ended"}

ForkHash(o) ==
  /\ InHash(o) /\ child[o] = "none"
  /\ child' = [child EXCEPT ![o] = "runs"]
  /\ \E pipes \in SUBSET OpenPipes(o) :
       holds' = [holds EXCEPT ![o] =
                   pipes \union ({shutdownFD} \intersect {"server_fifo"})]
  /\ UNCHANGED <<accountVars, fifoVars, main, queueVars, officeVars, endVars, shutdownFD,
                 replyVars>>

(* There is no child, or it cannot become sha256sum. *)
LoseHash(o) ==
  /\ InHash(o) /\ child[o] = "none" /\ HashFaults
  /\ child' = [child EXCEPT ![o] = "lost"]
  /\ UNCHANGED <<accountVars, fifoVars, main, queueVars, officeVars, endVars, holds, shutdownFD,
                 replyVars>>

Inherited(o) == \E p \in Offices : o \in holds[p]

(* The child meets the end of its input, which nobody has open any more. *)
EndHash(o) ==
  /\ InHash(o) /\ child[o] = "runs" /\ ~ Inherited(o)
  /\ child' = [child EXCEPT ![o] = "ended"]
  /\ holds' = [holds EXCEPT ![o] = {}]
  /\ UNCHANGED <<accountVars, fifoVars, main, queueVars, officeVars, endVars, shutdownFD,
                 replyVars>>

(* Without a child the password is written to a pipe nobody reads (SIGPIPE), *)
(* or validateAccount compares with NULL.                                     *)
HashKills(o) ==
  /\ InHash(o) /\ child[o] = "lost" /\ ~ Inherited(o)
  /\ main' = "killed"
  /\ UNCHANGED <<accountVars, fifoVars, queueVars, officeVars, endVars, childVars, shutdownFD,
                 replyVars>>

(* generateHash returns with the hash, or createAccount with none. *)
HashReturns(o) ==
  /\ \/ child[o] = "ended" /\ (At(o, "create") => used'[req[o].target])
     \/ child[o] = "lost" /\ ~ Inherited(o) /\ At(o, "create") /\ used' = used
  /\ child' = [child EXCEPT ![o] = "none"]

(* manageRequest, as far as it is about the accounts *)
Manage(o) ==
  /\ LoopAt(o, "manage")
  /\ Work(o)
  /\ IF Hashing(o) THEN HashReturns(o) ELSE UNCHANGED child
  /\ UNCHANGED <<fifoVars, main, queueVars, officeVars, endVars, holds, shutdownFD, replyVars>>

(* After manageRequest, with the reply sent or not *)
ClearActive(o) ==
  /\ LoopStep(o, "clear", "wait")
  /\ active' = [active EXCEPT ![o] = FALSE]
  /\ UNCHANGED <<accountVars, fifoVars, main, queueVars, endVars, childVars, shutdownFD,
                 replyVars>>

(* A thread that is cancelled dies at its next call that is a cancellation *)
(* point; there is one (a log entry is written) in every stretch of it.    *)
Die(o) ==
  /\ Running /\ o \in cancelled /\ loop[o] # "gone"
  /\ loop' = [loop EXCEPT ![o] = "gone"]
  /\ UNCHANGED <<accountVars, fifoVars, main, queueVars, active, endVars, childVars,
                 shutdownFD, replyVars>>

-----------------------------------------------------------------------------
(* handleShutdownRequest: fchmod, close, and count the active offices one  *)
(* after the other, which may be any number from the one that counts up.    *)

ByAdmin(o) == req[o].account_id = ADMIN_ACCOUNT_ID

ChmodFifo(o) ==
  /\ LoopStep(o, "manage", "close_fifo")
  /\ At(o, "shutdown") /\ ByAdmin(o)
  /\ writable' = (writable /\ shutdownFD # "server_fifo")
  /\ UNCHANGED <<accountVars, user, call, fifo, main, queueVars, active, endVars, childVars,
                 shutdownFD, replyVars>>

(* Mutant: the server's write end stays open. *)
CloseFifoNot(o) ==
  /\ LoopStep(o, "close_fifo", "count")
  /\ UNCHANGED <<accountVars, fifoVars, main, queueVars, active, endVars, childVars,
                 shutdownFD, replyVars>>

(* Whatever the descriptor of that number is open on by now is closed. *)
CloseFifo(o) ==
  /\ LoopStep(o, "close_fifo", "count")
  /\ shutdownFD' = "free"
  /\ UNCHANGED <<accountVars, fifoVars, main, queueVars, active, endVars, childVars,
                 replyVars>>

(* Mutant: the descriptor is closed once more after it has been. *)
CountActiveClosing(o) ==
  /\ LoopStep(o, "count", "manage")
  /\ \E n \in 1 .. Cardinality(Offices) : HandleShutdown(o, n)
  /\ shutdownFD' = "free"
  /\ UNCHANGED <<fifoVars, main, queueVars, active, endVars, childVars, replyVars>>

CountActive(o) ==
  /\ LoopStep(o, "count", "manage")
  /\ \E n \in 1 .. Cardinality(Offices) : HandleShutdown(o, n)
  /\ UNCHANGED <<fifoVars, main, queueVars, active, endVars, childVars, shutdownFD, replyVars>>

RefuseShutdown(o) ==
  /\ LoopAt(o, "manage")
  /\ ~ ByAdmin(o) /\ HandleShutdown(o, 0)
  /\ UNCHANGED <<fifoVars, main, queueVars, officeVars, endVars, childVars, shutdownFD,
                 replyVars>>

-----------------------------------------------------------------------------
(* sendReply.  A descriptor that is opened gets the lowest number that is  *)
(* free: once the server's write end is closed, its number.                 *)

OpenReply(o) ==
  /\ LoopStep(o, "manage", "write")
  /\ At(o, "reply")
  /\ IF shutdownFD = "free"
     THEN /\ replyFD' = [replyFD EXCEPT ![o] = "shutdown_fd"]
          /\ shutdownFD' = req[o].pid
     ELSE /\ replyFD' = [replyFD EXCEPT ![o] = "own"]
          /\ UNCHANGED shutdownFD
  /\ UNCHANGED <<accountVars, fifoVars, main, queueVars, active, endVars, childVars, inbox,
                 served>>

(* Nobody reads the user's FIFO: USR_DOWN is logged, and that is all. *)
UserDown(o) ==
  /\ LoopStep(o, "manage", "clear")
  /\ Finish(o)
  /\ served' = served \union {req[o].pid}
  /\ UNCHANGED <<fifoVars, main, queueVars, active, endVars, childVars, shutdownFD, replyFD,
                 inbox>>

(* Whose FIFO the descriptor is open on, if it still is. *)
ReplyTo(o) == IF replyFD[o] = "own" THEN req[o].pid ELSE shutdownFD

(* A write to a descriptor that is closed makes the server exit. *)
WriteReply(o) ==
  /\ LoopStep(o, "write", "close_reply")
  /\ IF ReplyTo(o) = "free" THEN main' = "crashed" /\ UNCHANGED inbox
     ELSE /\ inbox' = [inbox EXCEPT ![ReplyTo(o)] = @ \union {req[o].pid}]
          /\ UNCHANGED main
  /\ UNCHANGED <<accountVars, fifoVars, queueVars, active, endVars, childVars, shutdownFD,
                 replyFD, served>>

CloseReply(o) ==
  /\ LoopStep(o, "close_reply", "clear")
  /\ Finish(o)
  /\ served' = served \union {req[o].pid}
  /\ replyFD' = [replyFD EXCEPT ![o] = "none"]
  /\ shutdownFD' = IF replyFD[o] = "shutdown_fd" THEN "free" ELSE shutdownFD
  /\ UNCHANGED <<fifoVars, main, queueVars, active, endVars, childVars, inbox>>

Office(o) ==
  \/ StartOffice(o) \/ WaitFull(o) \/ MarkActive(o) \/ PopRequest(o) \/ PostEmpty(o)
  \/ Manage(o)
  \/ ForkHash(o) \/ LoseHash(o) \/ EndHash(o) \/ HashKills(o)
  \/ ChmodFifo(o) \/ CloseFifo(o) \/ CountActive(o) \/ RefuseShutdown(o)
  \/ OpenReply(o) \/ UserDown(o) \/ WriteReply(o) \/ CloseReply(o)
  \/ ClearActive(o) \/ Die(o)

-----------------------------------------------------------------------------
Next ==
  \/ \E p \in Pids : User(p)
  \/ Main
  \/ \E o \in Offices : Office(o)

(* Every thread that can go on does so in the end, and a user that has     *)
(* opened the server FIFO writes its request and closes it.  Nothing makes *)
(* a user start.                                                            *)
Fairness ==
  /\ WF_vars(Main)
  /\ \A o \in Offices : WF_vars(Office(o))
  /\ WF_vars(\E p \in Pids : WriteRequest(p) \/ CloseServer(p))

Spec == Init /\ [][Next]_vars /\ Fairness

-----------------------------------------------------------------------------
(* Properties *)

(* Every variable has its type. *)
TypeOK ==
  /\ AccountsTypeOK
  /\ user \in [Pids -> UserPCs] /\ call \in [Pids -> ClientCalls]
  /\ fifo \in Seq(ClientCalls) /\ writable \in BOOLEAN
  /\ main \in MainPCs /\ inHand \in ClientRequests
  /\ queue \in Seq(ClientCalls) /\ emptySem \in Nat /\ fullSem \in Nat
  /\ loop \in [Offices -> LoopPCs] /\ active \in [Offices -> BOOLEAN]
  /\ scanned \subseteq Offices /\ cancelled \subseteq Offices
  /\ child \in [Offices -> ChildStates]
  /\ holds \in [Offices -> SUBSET (Offices \union {"server_fifo"})]
  /\ shutdownFD \in {"none", "server_fifo", "free"} \union Pids
  /\ replyFD \in [Offices -> {"none", "own", "shutdown_fd"}]
  /\ inbox \in [Pids -> SUBSET Pids] /\ served \subseteq Pids

Count(labels) == Cardinality({o \in Offices : loop[o] \in labels})
One(condition) == IF condition THEN 1 ELSE 0

(* The semaphores and the queue agree at every step of the main thread and *)
(* of the offices, as long as there are any: the places are those that are *)
(* free, used, about to be filled or about to be given back.  So queue_push *)
(* never finds the queue full (queue_resize is never called) and queue_pop *)
(* never finds it empty.                                                    *)
SemaphoresMatchQueue ==
  Running =>
    /\ emptySem + Len(queue) + One(main = "push") + Count({"post_empty"}) = BUFFER_SIZE
    /\ fullSem + One(main = "post_full") + Count({"mark", "pop"}) = Len(queue)

(* An office that is cancelled waits for a request: it has none, holds no  *)
(* account's mutex and has taken nothing from the semaphores.  This is     *)
(* what the order in getRequestFromQueue is for: the office is marked      *)
(* active before the queue may be seen empty.                               *)
CancelledWhenIdle ==
  \A o \in cancelled :
    loop[o] \in {"start", "wait", "gone"} /\ At(o, "idle") /\ Held(o) = {}

(* Once the main thread has met the end of the FIFO, no request comes any  *)
(* more; once it cancels the offices, every request that was written has   *)
(* been dealt with.                                                         *)
NothingLostAtShutdown ==
  /\ main \in {"drain", "count", "cancel", "stopped"} =>
       fifo = <<>> /\ \A p \in Pids : user[p] \notin {"opened", "written"}
  /\ main \in {"cancel", "stopped"} =>
       \A p \in Pids : user[p] = "sent" => p \in served

(* A user's FIFO receives no reply but its own user's. *)
RepliesReachTheirUsers == \A p \in Pids : inbox[p] \subseteq {p}

(* The offices that an office waits for: those whose children have          *)
(* inherited its pipe, and the one that holds the mutex it wants.           *)
WaitsFor(o) ==
  {p \in Offices :
     \/ child[o] \in {"runs", "lost"} /\ o \in holds[p]
     \/ \E a \in Wants(o) : mutex[a] = p}

(* An office that waits for ever: everyone it waits for, itself included,   *)
(* may be held up as well.                                                  *)
HeldUp(o) ==
  \E knot \in SUBSET Offices :
    o \in knot /\ \A p \in knot : WaitsFor(p) \intersect knot # {}

(* Every request that is written is answered, or its user found down,       *)
(* unless the server has died, or children have tied a knot (HashCoprocess) *)
(* that holds up the office that has the request, or all of them            *)
(* (accounts.c:76).                                                         *)
EveryRequestServed ==
  \A p \in Pids :
    user[p] = "written" ~>
      \/ p \in served \/ ~ Running
      \/ \E o \in Offices : HeldUp(o) /\ ~ At(o, "idle") /\ req[o].pid = p
      \/ \A o \in Offices : HeldUp(o)

(* After a shutdown request of the administrator the server stops, unless   *)
(* it has died or an office is held up for ever, which stays active.        *)
ShutdownCompletes ==
  ~ writable ~> main = "stopped" \/ ~ Running \/ \E o \in Offices : HeldUp(o)

(* "unable to send reply message to user" is a return code (RC_USR_DOWN):  *)
(* a reply that cannot be sent is logged as such and the server goes on.   *)
SurvivesUnsentReply == main # "crashed"

=============================================================================
