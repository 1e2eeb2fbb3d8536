----------------------------- MODULE UserSession -----------------------------
(***************************************************************************)
(* The user program (user.c) from the request it has made to its end: its  *)
(* own FIFO, the request sent, the alarm clock, the reply read, logged and *)
(* shown.  The server is seen through the FIFOs only: "came" tells that it *)
(* has opened the user's FIFO, "arrived" what is in it.                     *)
(*                                                                         *)
(* Process ids are used again, and the name of a FIFO is a pid: "past"     *)
(* holds how earlier processes with the same pid ended.  A request is told *)
(* by its tag, the pid and the how-manieth process of that pid sent it, and *)
(* so is the reply to it.                                                   *)
(***************************************************************************)
EXTENDS Requests, Sequences

CONSTANT MaxRuns  \* bound: processes that have the same pid, one after the other

ASSUME MaxRunsAssumption == MaxRuns \in Nat \ {0}

VARIABLES
  step,     \* step[p]: where the process with pid p is
  alarm,    \* alarm[p]: its alarm clock runs
  own,      \* own[p]: the FIFO of that pid exists
  reads,    \* reads[p]: the process has it open to read, or waits to
  came,     \* came[p]: somebody has opened it to write since then
  arrived,  \* arrived[p]: the tags of the replies in it
  result,   \* result[p]: what the process shows its user in the end
  answer,   \* answer[p]: the tag of the reply it shows, if it is one of the server
  logged,   \* logged[p]: the replies it has logged
  past      \* past[p]: the results of the earlier processes with that pid

ownVars == <<own, reads, came, arrived>>
resultVars == <<result, answer>>
sessionVars == <<step, alarm, ownVars, resultVars, logged, past>>

Steps ==
  {"start", "make_fifo", "open", "write", "close", "arm", "open_own", "opening", "read",
   "got", "log", "delete", "ended"}

Results ==
  {"none", "refused", "no_fifo", "SRV_DOWN", "not_sent", "SRV_TIMEOUT", "USR_DOWN", "OTHER",
   "reply"}

Tags == Pids \X (1 .. MaxRuns)
Tag(p) == <<p, Len(past[p]) + 1>>

SessionInit ==
  /\ step = [p \in Pids |-> "start"]
  /\ alarm = [p \in Pids |-> FALSE]
  /\ own = [p \in Pids |-> FALSE]
  /\ reads = [p \in Pids |-> FALSE]
  /\ came = [p \in Pids |-> FALSE]
  /\ arrived = [p \in Pids |-> <<>>]
  /\ result = [p \in Pids |-> "none"]
  /\ answer = [p \in Pids |-> <<>>]
  /\ logged = [p \in Pids |-> 0]
  /\ past = [p \in Pids |-> <<>>]

-----------------------------------------------------------------------------
(* Steps of the program *)

From(p, label) == step[p] = label
To(p, label) == step' = [step EXCEPT ![p] = label]
StepTo(p, from, to) == From(p, from) /\ To(p, to)
Shows(p, r) == result' = [result EXCEPT ![p] = r] /\ UNCHANGED answer

(* exit: the program's end of its FIFO is closed, and what is in it is gone. *)
Exit(p) ==
  /\ To(p, "ended")
  /\ reads' = [reads EXCEPT ![p] = FALSE]
  /\ came' = [came EXCEPT ![p] = FALSE]
  /\ arrived' = [arrived EXCEPT ![p] = <<>>]

(* The arguments make a request, or the program exits. *)
Begin(p) ==
  /\ StepTo(p, "start", "make_fifo")
  /\ UNCHANGED <<alarm, ownVars, resultVars, logged, past>>

Refuse(p) ==
  /\ From(p, "start") /\ Exit(p) /\ Shows(p, "refused")
  /\ UNCHANGED <<alarm, own, logged, past>>

(* makeUserFifo: one that exists is not taken over. *)
MakeUserFifo(p) ==
  /\ From(p, "make_fifo")
  /\ IF own[p]
     THEN Exit(p) /\ Shows(p, "no_fifo") /\ UNCHANGED own
     ELSE /\ To(p, "open") /\ own' = [own EXCEPT ![p] = TRUE]
          /\ UNCHANGED <<reads, came, arrived, resultVars>>
  /\ UNCHANGED <<alarm, logged, past>>

(* sendRequest: "up" and "taken" tell what the server's FIFO does. *)
SendOpen(p, up) ==
  /\ From(p, "open")
  /\ IF up THEN To(p, "write") /\ UNCHANGED resultVars
     ELSE To(p, "log") /\ Shows(p, "SRV_DOWN")
  /\ UNCHANGED <<alarm, ownVars, logged, past>>

(* The write fails (the FIFO is full) or kills the program (nobody reads it *)
(* any more): either way the program's own FIFO stays behind.               *)
SendWrite(p, taken) ==
  /\ From(p, "write")
  /\ IF taken THEN To(p, "close") /\ UNCHANGED <<reads, came, arrived, resultVars>>
     ELSE Exit(p) /\ Shows(p, "not_sent")
  /\ UNCHANGED <<alarm, own, logged, past>>

SendClose(p) ==
  /\ StepTo(p, "close", "arm")
  /\ UNCHANGED <<alarm, ownVars, resultVars, logged, past>>

-----------------------------------------------------------------------------
(* awaitReply *)

(* Mutant: the alarm clock is not set. *)
EnableNoAlarm(p) ==
  /\ StepTo(p, "arm", "open_own")
  /\ UNCHANGED <<alarm, ownVars, resultVars, logged, past>>

EnableTimeoutAlarm(p) ==
  /\ StepTo(p, "arm", "open_own")
  /\ alarm' = [alarm EXCEPT ![p] = TRUE]
  /\ UNCHANGED <<ownVars, resultVars, logged, past>>

(* A reader that waits for a writer counts as one. *)
OpenOwn(p) ==
  /\ StepTo(p, "open_own", "opening")
  /\ reads' = [reads EXCEPT ![p] = TRUE]
  /\ UNCHANGED <<alarm, own, came, arrived, resultVars, logged, past>>

(* A FIFO that cannot be opened: nothing is logged and the alarm clock goes *)
(* on, but the program has almost ended.                                     *)
OpenOwnFails(p) ==
  /\ StepTo(p, "open_own", "delete")
  /\ Shows(p, "USR_DOWN")
  /\ UNCHANGED <<alarm, ownVars, logged, past>>

(* Mutant: the FIFO is opened without waiting for a writer. *)
OpenedOwnAtOnce(p) ==
  /\ StepTo(p, "opening", "read")
  /\ UNCHANGED <<alarm, ownVars, resultVars, logged, past>>

OpenedOwn(p) ==
  /\ StepTo(p, "opening", "read")
  /\ came[p]
  /\ UNCHANGED <<alarm, ownVars, resultVars, logged, past>>

ReadReply(p) ==
  /\ StepTo(p, "read", "got")
  /\ arrived[p] # <<>>
  /\ arrived' = [arrived EXCEPT ![p] = Tail(@)]
  /\ answer' = [answer EXCEPT ![p] = <<Head(arrived[p])>>]
  /\ result' = [result EXCEPT ![p] = "reply"]
  /\ UNCHANGED <<alarm, own, reads, came, logged, past>>

(* Nobody has the FIFO open to write any more, and nothing was written: the *)
(* reply is what newReply left in it.                                       *)
ReadNothing(p) ==
  /\ StepTo(p, "read", "got")
  /\ arrived[p] = <<>>
  /\ Shows(p, "OTHER")
  /\ UNCHANGED <<alarm, ownVars, logged, past>>

(* Mutant: the alarm clock goes on. *)
DisableNothing(p) ==
  /\ StepTo(p, "got", "log")
  /\ reads' = [reads EXCEPT ![p] = FALSE]
  /\ arrived' = [arrived EXCEPT ![p] = <<>>]
  /\ UNCHANGED <<alarm, own, came, resultVars, logged, past>>

(* disableTimeoutAlarm, and the FIFO is closed. *)
DisableTimeoutAlarm(p) ==
  /\ StepTo(p, "got", "log")
  /\ alarm' = [alarm EXCEPT ![p] = FALSE]
  /\ reads' = [reads EXCEPT ![p] = FALSE]
  /\ arrived' = [arrived EXCEPT ![p] = <<>>]
  /\ UNCHANGED <<own, came, resultVars, logged, past>>

(* sigAlarmHandler: whatever has been read by then is not looked at.  A     *)
(* program that still waits for a writer does not any more.                 *)
AlarmRings(p) ==
  /\ alarm[p] /\ ~ From(p, "ended")
  /\ alarm' = [alarm EXCEPT ![p] = FALSE]
  /\ reads' = [reads EXCEPT ![p] = @ /\ ~ From(p, "opening")]
  /\ To(p, "log")
  /\ result' = [result EXCEPT ![p] = "SRV_TIMEOUT"]
  /\ answer' = [answer EXCEPT ![p] = <<>>]
  /\ UNCHANGED <<own, came, arrived, logged, past>>

-----------------------------------------------------------------------------
(* logReply has no line for the reply newReply makes. *)
LogReply(p) ==
  /\ StepTo(p, "log", "delete")
  /\ logged' = [logged EXCEPT ![p] = IF result[p] = "OTHER" THEN @ ELSE @ + 1]
  /\ UNCHANGED <<alarm, ownVars, resultVars, past>>

(* Mutant: the program's FIFO stays. *)
DeleteNothing(p) ==
  /\ From(p, "delete") /\ Exit(p)
  /\ alarm' = [alarm EXCEPT ![p] = FALSE]
  /\ UNCHANGED <<own, resultVars, logged, past>>

(* deleteUserFifo, the reply is shown, and the program ends. *)
DeleteUserFifo(p) ==
  /\ From(p, "delete") /\ Exit(p)
  /\ own' = [own EXCEPT ![p] = FALSE]
  /\ alarm' = [alarm EXCEPT ![p] = FALSE]
  /\ UNCHANGED <<resultVars, logged, past>>

Await(p) ==
  \/ EnableTimeoutAlarm(p) \/ OpenOwn(p) \/ OpenOwnFails(p) \/ OpenedOwn(p) \/ ReadReply(p)
  \/ DisableTimeoutAlarm(p) \/ AlarmRings(p) \/ LogReply(p) \/ DeleteUserFifo(p)

(* Another process gets the pid, and starts from nothing but the FIFO. *)
Again(p) ==
  /\ StepTo(p, "ended", "start")
  /\ Len(past[p]) + 1 < MaxRuns
  /\ past' = [past EXCEPT ![p] = Append(@, result[p])]
  /\ result' = [result EXCEPT ![p] = "none"]
  /\ answer' = [answer EXCEPT ![p] = <<>>]
  /\ logged' = [logged EXCEPT ![p] = 0]
  /\ UNCHANGED <<alarm, ownVars>>

-----------------------------------------------------------------------------
(* What the server does to a user's FIFO: it is there to be opened when it  *)
(* has a reader, and a reply goes to the reader or, when it has gone, kills *)
(* the server by SIGPIPE.                                                   *)
Reachable(p) == own[p] /\ reads[p]

OpenedByServer(p) ==
  /\ Reachable(p)
  /\ came' = [came EXCEPT ![p] = TRUE]
  /\ UNCHANGED <<step, alarm, own, reads, arrived, resultVars, logged, past>>

WrittenByServer(p, tag) ==
  /\ reads[p]
  /\ arrived' = [arrived EXCEPT ![p] = Append(@, tag)]
  /\ UNCHANGED <<step, alarm, own, reads, came, resultVars, logged, past>>

-----------------------------------------------------------------------------
(* Properties *)

(* Every variable has its type. *)
SessionTypeOK ==
  /\ step \in [Pids -> Steps]
  /\ alarm \in [Pids -> BOOLEAN] /\ own \in [Pids -> BOOLEAN]
  /\ reads \in [Pids -> BOOLEAN] /\ came \in [Pids -> BOOLEAN]
  /\ arrived \in [Pids -> Seq(Tags)]
  /\ result \in [Pids -> Results] /\ answer \in [Pids -> Seq(Tags)]
  /\ logged \in [Pids -> Nat]
  /\ past \in [Pids -> Seq(Results)]

(* A process logs one reply at most, and one that ends with a reply, a      *)
(* server that was down or a timeout has logged it: the alarm never rings   *)
(* once the reply has been logged (user.c:142, 199).                         *)
OneReplyLogged ==
  \A p \in Pids :
    /\ logged[p] <= 1
    /\ From(p, "ended") /\ result[p] \in {"reply", "SRV_DOWN", "SRV_TIMEOUT"} => logged[p] = 1

LeftUnsent(results) ==
  \E i \in DOMAIN results :
    /\ results[i] = "not_sent"
    /\ \A j \in i + 1 .. Len(results) : results[j] \in {"none", "refused", "no_fifo"}

(* A FIFO that no process has any more was left by one that could not write *)
(* its request (user.c:172), and it stops every later process of that pid.  *)
FifoLeftOnlyUnsent ==
  \A p \in Pids :
    own[p] /\ step[p] \in {"start", "make_fifo", "ended"} =>
      LeftUnsent(Append(past[p], result[p]))

(* One of the first n processes of a pid timed out, or could not open its   *)
(* FIFO.                                                                      *)
GaveUp(p, n) ==
  \E j \in DOMAIN past[p] : j <= n /\ past[p][j] \in {"SRV_TIMEOUT", "USR_DOWN"}

(* The reply a user is shown is the one to its request as long as no process *)
(* with its pid has given up waiting: from then on each may be shown the     *)
(* reply to the request of the one before it (user.c:182, fifoMaker.c:42).    *)
OwnAnswer ==
  \A p \in Pids : \A i \in DOMAIN answer[p] :
    LET tag == answer[p][i]
    IN  \/ tag = Tag(p)
        \/ tag[1] = p /\ GaveUp(p, tag[2])
=============================================================================
