-------------------------- MODULE ConversationProofs -------------------------
(***************************************************************************)
(* Proofs about Conversation, for any pids, any number of processes that   *)
(* have the same pid and any server that answers a request once.            *)
(***************************************************************************)
EXTENDS Conversation, SequenceTheorems, TLAPS

(* A step of a process, from its arguments to its end *)
Acts(p) == Start(p) \/ Proceed(p)

Sending == {"start", "make_fifo", "open", "write"}
Logging == {"SRV_DOWN", "SRV_TIMEOUT", "OTHER", "reply"}
Concluding == Logging \union {"USR_DOWN"}
NeverSent == {"refused", "no_fifo", "not_sent", "SRV_DOWN"}

(* What a program shows and has logged, by where it is.  The alarm clock    *)
(* runs only while there is no result that could be logged already.          *)
Control(p) ==
  /\ alarm[p] =>
       \/ step[p] \in {"open_own", "opening", "read", "got"}
       \/ step[p] = "delete" /\ result[p] = "USR_DOWN"
  /\ step[p] \notin {"got", "log", "delete", "ended"} => result[p] = "none"
  /\ step[p] = "got" => result[p] \in {"OTHER", "reply"}
  /\ step[p] = "log" => result[p] \in Logging
  /\ step[p] = "delete" => result[p] \in Concluding
  /\ step[p] = "ended" => result[p] # "none"
  /\ step[p] \notin {"delete", "ended"} => logged[p] = 0
  /\ step[p] \in {"delete", "ended"} =>
       logged[p] = IF result[p] \in Logging \ {"OTHER"} THEN 1 ELSE 0
  /\ answer[p] # <<>> => result[p] = "reply"
  /\ result[p] = "reply" => Len(answer[p]) = 1
  /\ Len(past[p]) < MaxRuns

(* A request is taken from a program that has sent it, and once. *)
TakenOK(p) ==
  /\ \A n \in 1 .. MaxRuns : <<p, n>> \in taken => n <= Len(past[p]) + 1
  /\ Tag(p) \in taken <=> step[p] \notin Sending /\ result[p] \notin NeverSent

TalkInv == \A p \in Pids : Control(p) /\ TakenOK(p)

LEMMA TagFacts ==
  ASSUME TalkTypeOK, TalkInv, NEW p \in Pids
  PROVE  /\ Tag(p) \in Tags /\ Tag(p)[1] = p /\ Tag(p)[2] = Len(past[p]) + 1
         /\ Len(past[p]) \in Nat /\ Len(past[p]) + 1 \in 1 .. MaxRuns
<1>1. Len(past[p]) \in Nat /\ Len(past[p]) < MaxRuns /\ MaxRuns \in Nat
  BY MaxRunsAssumption DEF TalkTypeOK, SessionTypeOK, TalkInv, Control, MaxRunsAssumption
<1> QED
  BY <1>1 DEF Tag, Tags

(* The variables have their types before any user has started.               *)
THEOREM TypesInit == TalkInit => TalkTypeOK
<1> SUFFICES ASSUME TalkInit
             PROVE  TalkTypeOK
  OBVIOUS
<1>1. SessionTypeOK
  BY DEF TalkInit, SessionInit, SessionTypeOK, Steps, Results
<1> QED
  BY <1>1 DEF TalkInit, TalkTypeOK

(* The inductive invariant holds before any user has started.                *)
THEOREM TalkInvInit == TalkInit => TalkInv
<1> SUFFICES ASSUME TalkInit, NEW p \in Pids
             PROVE  Control(p) /\ TakenOK(p)
  BY DEF TalkInv
<1> QED
  BY MaxRunsAssumption
     DEF TalkInit, SessionInit, Control, TakenOK, Sending, NeverSent, Concluding, Logging,
         MaxRunsAssumption

(* A user's FIFO has replies in it, the first of which is read. *)
LEMMA FifoFacts ==
  ASSUME SessionTypeOK, NEW p \in Pids
  PROVE  /\ \A t \in Tags : Append(arrived[p], t) \in Seq(Tags)
         /\ <<>> \in Seq(Tags)
         /\ arrived[p] # <<>> => /\ Head(arrived[p]) \in Tags
                                 /\ <<Head(arrived[p])>> \in Seq(Tags)
                                 /\ Tail(arrived[p]) \in Seq(Tags)
         /\ \A r \in Results : Append(past[p], r) \in Seq(Results)
<1>1. arrived[p] \in Seq(Tags) /\ past[p] \in Seq(Results)
  BY DEF SessionTypeOK
<1> QED
  BY <1>1

(* The parts steps are made of *)
LEMMA ToTypes ==
  ASSUME SessionTypeOK, NEW p \in Pids, NEW label \in Steps, To(p, label)
  PROVE  step' \in [Pids -> Steps]
  BY DEF To, SessionTypeOK

LEMMA ShowsTypes ==
  ASSUME SessionTypeOK, NEW p \in Pids, NEW r \in Results, result' = [result EXCEPT ![p] = r]
  PROVE  result' \in [Pids -> Results]
  BY DEF SessionTypeOK

LEMMA ExitTypes ==
  ASSUME SessionTypeOK, NEW p \in Pids, Exit(p)
  PROVE  /\ step' \in [Pids -> Steps]
         /\ reads' \in [Pids -> BOOLEAN] /\ came' \in [Pids -> BOOLEAN]
         /\ arrived' \in [Pids -> Seq(Tags)]
<1>1. step' \in [Pids -> Steps]
  BY ToTypes DEF Exit, Steps
<1>2. reads' \in [Pids -> BOOLEAN] /\ came' \in [Pids -> BOOLEAN]
  BY DEF Exit, SessionTypeOK
<1>3. arrived' \in [Pids -> Seq(Tags)]
  BY FifoFacts DEF Exit, SessionTypeOK
<1> QED
  BY <1>1, <1>2, <1>3

LEMMA SendingTypes ==
  ASSUME SessionTypeOK, NEW p \in Pids,
         \/ Begin(p) \/ Refuse(p) \/ MakeUserFifo(p) \/ SendClose(p)
         \/ \E b \in BOOLEAN : SendOpen(p, b) \/ SendWrite(p, b)
  PROVE  SessionTypeOK'
<1>1. CASE Begin(p) \/ SendClose(p)
  <2>1. step' \in [Pids -> Steps]
    BY <1>1, ToTypes DEF Begin, SendClose, StepTo, Steps
  <2> QED
    BY <1>1, <2>1 DEF Begin, SendClose, ownVars, resultVars, SessionTypeOK
<1>2. CASE Refuse(p)
  <2>1. result' \in [Pids -> Results]
    BY <1>2, ShowsTypes DEF Refuse, Shows, Results
  <2> QED
    BY <1>2, <2>1, ExitTypes DEF Refuse, Shows, SessionTypeOK
<1>3. CASE MakeUserFifo(p) /\ own[p]
  <2>1. result' \in [Pids -> Results]
    BY <1>3, ShowsTypes DEF MakeUserFifo, Shows, Results
  <2> QED
    BY <1>3, <2>1, ExitTypes DEF MakeUserFifo, Shows, SessionTypeOK
<1>4. CASE MakeUserFifo(p) /\ ~ own[p]
  <2>1. step' \in [Pids -> Steps]
    BY <1>4, ToTypes DEF MakeUserFifo, Steps
  <2>2. own' \in [Pids -> BOOLEAN]
    BY <1>4 DEF MakeUserFifo, SessionTypeOK
  <2> QED
    BY <1>4, <2>1, <2>2 DEF MakeUserFifo, resultVars, SessionTypeOK
<1>5. ASSUME NEW b \in BOOLEAN, SendOpen(p, b)
      PROVE  SessionTypeOK'
  <2>1. step' \in [Pids -> Steps]
    BY <1>5, ToTypes DEF SendOpen, Steps
  <2>2. result' \in [Pids -> Results] /\ answer' = answer
    BY <1>5, ShowsTypes DEF SendOpen, Shows, resultVars, Results, SessionTypeOK
  <2> QED
    BY <1>5, <2>1, <2>2 DEF SendOpen, ownVars, SessionTypeOK
<1>6. ASSUME NEW b \in BOOLEAN, SendWrite(p, b)
      PROVE  SessionTypeOK'
  <2>1. CASE b
    <3>1. step' \in [Pids -> Steps]
      BY <1>6, <2>1, ToTypes DEF SendWrite, Steps
    <3> QED
      BY <1>6, <2>1, <3>1 DEF SendWrite, resultVars, SessionTypeOK
  <2>2. CASE ~ b
    <3>1. result' \in [Pids -> Results]
      BY <1>6, <2>2, ShowsTypes DEF SendWrite, Shows, Results
    <3> QED
      BY <1>6, <2>2, <3>1, ExitTypes DEF SendWrite, Shows, SessionTypeOK
  <2> QED
    BY <2>1, <2>2
<1> QED
  BY <1>1, <1>2, <1>3, <1>4, <1>5, <1>6

LEMMA AwaitTypes ==
  ASSUME SessionTypeOK, NEW p \in Pids, Await(p) \/ ReadNothing(p)
  PROVE  SessionTypeOK'
<1>1. CASE EnableTimeoutAlarm(p)
  <2>1. step' \in [Pids -> Steps] /\ alarm' \in [Pids -> BOOLEAN]
    BY <1>1, ToTypes DEF EnableTimeoutAlarm, StepTo, Steps, SessionTypeOK
  <2> QED
    BY <1>1, <2>1 DEF EnableTimeoutAlarm, ownVars, resultVars, SessionTypeOK
<1>2. CASE OpenOwn(p)
  <2>1. step' \in [Pids -> Steps] /\ reads' \in [Pids -> BOOLEAN]
    BY <1>2, ToTypes DEF OpenOwn, StepTo, Steps, SessionTypeOK
  <2> QED
    BY <1>2, <2>1 DEF OpenOwn, resultVars, SessionTypeOK
<1>2a. CASE OpenOwnFails(p)
  <2>1. step' \in [Pids -> Steps] /\ result' \in [Pids -> Results]
    BY <1>2a, ToTypes, ShowsTypes DEF OpenOwnFails, Shows, StepTo, Steps, Results
  <2> QED
    BY <1>2a, <2>1 DEF OpenOwnFails, Shows, ownVars, SessionTypeOK
<1>3. CASE OpenedOwn(p)
  <2>1. step' \in [Pids -> Steps]
    BY <1>3, ToTypes DEF OpenedOwn, StepTo, Steps
  <2> QED
    BY <1>3, <2>1 DEF OpenedOwn, ownVars, resultVars, SessionTypeOK
<1>4. CASE ReadReply(p)
  <2>1. step' \in [Pids -> Steps] /\ result' \in [Pids -> Results]
    BY <1>4, ToTypes, ShowsTypes DEF ReadReply, StepTo, Steps, Results
  <2>2. arrived' \in [Pids -> Seq(Tags)] /\ answer' \in [Pids -> Seq(Tags)]
    <3>1. /\ Tail(arrived[p]) \in Seq(Tags) /\ <<Head(arrived[p])>> \in Seq(Tags)
          /\ arrived' = [arrived EXCEPT ![p] = Tail(arrived[p])]
          /\ answer' = [answer EXCEPT ![p] = <<Head(arrived[p])>>]
      BY <1>4, FifoFacts DEF ReadReply
    <3> QED
      BY <3>1 DEF SessionTypeOK
  <2> QED
    BY <1>4, <2>1, <2>2 DEF ReadReply, SessionTypeOK
<1>5. CASE ReadNothing(p)
  <2>1. step' \in [Pids -> Steps] /\ result' \in [Pids -> Results]
    BY <1>5, ToTypes, ShowsTypes DEF ReadNothing, Shows, StepTo, Steps, Results
  <2> QED
    BY <1>5, <2>1 DEF ReadNothing, Shows, ownVars, SessionTypeOK
<1>6. CASE DisableTimeoutAlarm(p)
  <2>1. step' \in [Pids -> Steps]
    BY <1>6, ToTypes DEF DisableTimeoutAlarm, StepTo, Steps
  <2>2. /\ alarm' \in [Pids -> BOOLEAN] /\ reads' \in [Pids -> BOOLEAN]
        /\ arrived' \in [Pids -> Seq(Tags)]
    BY <1>6, FifoFacts DEF DisableTimeoutAlarm, SessionTypeOK
  <2> QED
    BY <1>6, <2>1, <2>2 DEF DisableTimeoutAlarm, resultVars, SessionTypeOK
<1>7. CASE AlarmRings(p)
  <2>1. step' \in [Pids -> Steps] /\ result' \in [Pids -> Results]
    BY <1>7, ToTypes, ShowsTypes DEF AlarmRings, Steps, Results
  <2>2. alarm' \in [Pids -> BOOLEAN] /\ reads' \in [Pids -> BOOLEAN]
    BY <1>7 DEF AlarmRings, From, SessionTypeOK
  <2>3. answer' \in [Pids -> Seq(Tags)]
    BY <1>7, FifoFacts DEF AlarmRings, SessionTypeOK
  <2> QED
    BY <1>7, <2>1, <2>2, <2>3 DEF AlarmRings, SessionTypeOK
<1>8. CASE LogReply(p)
  <2>1. step' \in [Pids -> Steps] /\ logged' \in [Pids -> Nat]
    BY <1>8, ToTypes DEF LogReply, StepTo, Steps, SessionTypeOK
  <2> QED
    BY <1>8, <2>1 DEF LogReply, ownVars, resultVars, SessionTypeOK
<1>9. CASE DeleteUserFifo(p)
  <2>1. own' \in [Pids -> BOOLEAN] /\ alarm' \in [Pids -> BOOLEAN]
    BY <1>9 DEF DeleteUserFifo, SessionTypeOK
  <2> QED
    BY <1>9, <2>1, ExitTypes DEF DeleteUserFifo, resultVars, SessionTypeOK
<1> QED
  BY <1>1, <1>2, <1>2a, <1>3, <1>4, <1>5, <1>6, <1>7, <1>8, <1>9 DEF Await

LEMMA AgainTypes ==
  ASSUME SessionTypeOK, NEW p \in Pids, Again(p)
  PROVE  SessionTypeOK'
<1>1. step' \in [Pids -> Steps] /\ result' \in [Pids -> Results]
  BY ToTypes, ShowsTypes DEF Again, StepTo, Steps, Results
<1>2. past' \in [Pids -> Seq(Results)]
  <2>1. /\ past[p] \in Seq(Results) /\ result[p] \in Results
        /\ past' = [past EXCEPT ![p] = Append(past[p], result[p])]
    BY DEF Again, SessionTypeOK
  <2>2. Append(past[p], result[p]) \in Seq(Results)
    BY <2>1
  <2> QED
    BY <2>1, <2>2 DEF SessionTypeOK
<1>3. answer' \in [Pids -> Seq(Tags)] /\ logged' \in [Pids -> Nat]
  BY FifoFacts DEF Again, SessionTypeOK
<1> QED
  BY <1>1, <1>2, <1>3 DEF Again, ownVars, SessionTypeOK

LEMMA ServerSideTypes ==
  ASSUME SessionTypeOK, NEW p \in Pids,
         OpenedByServer(p) \/ \E tag \in Tags : WrittenByServer(p, tag)
  PROVE  SessionTypeOK'
<1>1. CASE OpenedByServer(p)
  <2>1. came' \in [Pids -> BOOLEAN]
    BY <1>1 DEF OpenedByServer, SessionTypeOK
  <2> QED
    BY <1>1, <2>1 DEF OpenedByServer, resultVars, SessionTypeOK
<1>2. ASSUME NEW tag \in Tags, WrittenByServer(p, tag)
      PROVE  SessionTypeOK'
  <2>1. /\ Append(arrived[p], tag) \in Seq(Tags)
        /\ arrived' = [arrived EXCEPT ![p] = Append(arrived[p], tag)]
    BY <1>2, FifoFacts DEF WrittenByServer
  <2>2. arrived' \in [Pids -> Seq(Tags)]
    BY <2>1 DEF SessionTypeOK
  <2> QED
    BY <1>2, <2>2 DEF WrittenByServer, resultVars, SessionTypeOK
<1> QED
  BY <1>1, <1>2

LEMMA ProgramTypesStep ==
  ASSUME TalkTypeOK, TalkInv, NEW p \in Pids, Acts(p)
  PROVE  TalkTypeOK'
<1>1. CASE Start(p)
  <2>1. SessionTypeOK'
    BY <1>1, SendingTypes DEF Start, TalkTypeOK
  <2> QED
    BY <1>1, <2>1 DEF Start, serverVars, TalkTypeOK
<1>2. CASE Write(p)
  <2>1. PICK room \in {FALSE, up} :
          SendWrite(p, room) /\ Arrives(p, room) /\ UNCHANGED <<up, ends>>
    BY <1>2 DEF Write
  <2>2. room \in BOOLEAN
    BY <2>1 DEF TalkTypeOK
  <2>3. SessionTypeOK'
    BY <2>1, <2>2, SendingTypes DEF TalkTypeOK
  <2>4. taken' \subseteq Tags /\ due' \subseteq taken'
    BY <2>1, TagFacts DEF Arrives, TalkTypeOK
  <2> QED
    BY <2>1, <2>3, <2>4 DEF TalkTypeOK
<1>3. CASE ~ Start(p) /\ ~ Write(p)
  <2>1. UNCHANGED <<serverVars>>
    BY <1>3 DEF Acts, Proceed, Open, MeetEnd
  <2>2. SessionTypeOK'
    BY <1>3, SendingTypes, AwaitTypes DEF Acts, Proceed, Open, MeetEnd, TalkTypeOK
  <2> QED
    BY <2>1, <2>2 DEF serverVars, TalkTypeOK
<1> QED
  BY <1>1, <1>2, <1>3

LEMMA FollowTypes ==
  ASSUME TalkTypeOK, NEW p \in Pids, Follow(p)
  PROVE  TalkTypeOK'
<1>1. SessionTypeOK'
  BY AgainTypes DEF Follow, TalkTypeOK
<1> QED
  BY <1>1 DEF Follow, serverVars, TalkTypeOK

LEMMA ServerTypes ==
  ASSUME TalkTypeOK, TalkInv, Server
  PROVE  TalkTypeOK'
<1> DEFINE End == [tag : Tags, run : 1 .. MaxRuns, written : BOOLEAN]
<1>1. SessionTypeOK /\ due \subseteq taken /\ taken \subseteq Tags /\ ends \subseteq End
  BY DEF TalkTypeOK
<1>2. \A t \in Tags : t[1] \in Pids
  BY DEF Tags
<1>3. ASSUME NEW tag \in due, ServerOpens(tag)
      PROVE  TalkTypeOK'
  <2>1. tag \in Tags /\ tag[1] \in Pids
    BY <1>1, <1>2
  <2>2. SessionTypeOK'
    <3>1. CASE Reachable(tag[1])
      BY <1>1, <1>3, <2>1, <3>1, ServerSideTypes DEF ServerOpens
    <3>2. CASE ~ Reachable(tag[1])
      BY <1>1, <1>3, <3>2 DEF ServerOpens, sessionVars, ownVars, resultVars, SessionTypeOK
    <3> QED
      BY <3>1, <3>2
  <2>3. ends' \subseteq End
    <3>1. [tag |-> tag, run |-> Len(past[tag[1]]) + 1, written |-> FALSE] \in End
      BY <2>1, TagFacts
    <3> HIDE DEF End
    <3> QED
      BY <1>1, <1>3, <3>1 DEF ServerOpens
  <2> QED
    BY <1>1, <1>3, <2>2, <2>3 DEF ServerOpens, TalkTypeOK
<1>4. ASSUME NEW e \in ends, ServerWrites(e)
      PROVE  TalkTypeOK'
  <2>1. e \in End /\ e.tag \in Tags /\ e.tag[1] \in Pids
    BY <1>1, <1>2
  <2>2. CASE reads[e.tag[1]] /\ e.run = Len(past[e.tag[1]]) + 1
    <3>1. SessionTypeOK'
      BY <1>1, <1>4, <2>1, <2>2, ServerSideTypes DEF ServerWrites
    <3>2. [tag |-> e.tag, run |-> e.run, written |-> TRUE] \in End
      BY <2>1
    <3>3. ends' \subseteq End
      BY <1>1, <1>4, <2>2, <3>2 DEF ServerWrites
    <3> QED
      BY <1>1, <1>4, <2>2, <3>1, <3>3 DEF ServerWrites, TalkTypeOK
  <2>3. CASE ~ (reads[e.tag[1]] /\ e.run = Len(past[e.tag[1]]) + 1)
    <3>1. UNCHANGED sessionVars /\ Gone
      BY <1>4, <2>3 DEF ServerWrites
    <3>2. SessionTypeOK'
      BY <1>1, <3>1 DEF sessionVars, ownVars, resultVars, SessionTypeOK
    <3> QED
      BY <3>1, <3>2 DEF Gone, TalkTypeOK
  <2> QED
    BY <2>2, <2>3
<1>5. ASSUME NEW e \in ends, ServerCloses(e)
      PROVE  TalkTypeOK'
  <2>1. SessionTypeOK'
    BY <1>1, <1>5 DEF ServerCloses, sessionVars, ownVars, resultVars, SessionTypeOK
  <2> QED
    BY <1>5, <2>1 DEF ServerCloses, TalkTypeOK
<1>6. CASE ServerDies
  <2>1. SessionTypeOK'
    BY <1>1, <1>6 DEF ServerDies, sessionVars, ownVars, resultVars, SessionTypeOK
  <2> QED
    BY <1>6, <2>1 DEF ServerDies, Gone, TalkTypeOK
<1> QED
  BY <1>3, <1>4, <1>5, <1>6 DEF Server

(* Every step of a user, its alarm or the server keeps the types (user.c).   *)
THEOREM TypesStep ==
  ASSUME TalkTypeOK, TalkInv, [TalkNext]_talkVars
  PROVE  TalkTypeOK'
<1>1. CASE TalkNext
  BY <1>1, ProgramTypesStep, FollowTypes, ServerTypes DEF TalkNext, Acts
<1>2. CASE UNCHANGED talkVars
  BY <1>2 DEF talkVars, sessionVars, ownVars, resultVars, serverVars,
              SessionTypeOK, TalkTypeOK
<1> QED
  BY <1>1, <1>2

-----------------------------------------------------------------------------
(* What a step does to the program of one pid, and leaves of the others *)

(* All a program has, its FIFO apart *)
Keeps(p) ==
  /\ step'[p] = step[p] /\ alarm'[p] = alarm[p]
  /\ result'[p] = result[p] /\ answer'[p] = answer[p]
  /\ logged'[p] = logged[p] /\ past'[p] = past[p]

LEMMA SendingKeepsOthers ==
  ASSUME SessionTypeOK, NEW p \in Pids, NEW q \in Pids \ {p},
         \/ Begin(p) \/ Refuse(p) \/ MakeUserFifo(p) \/ SendClose(p)
         \/ \E b \in BOOLEAN : SendOpen(p, b) \/ SendWrite(p, b)
  PROVE  Keeps(q)
<1>1. CASE Begin(p) \/ SendClose(p)
  BY <1>1 DEF Begin, SendClose, StepTo, To, resultVars, Keeps, SessionTypeOK
<1>2. CASE Refuse(p)
  BY <1>2 DEF Refuse, Exit, Shows, To, Keeps, SessionTypeOK
<1>3. CASE MakeUserFifo(p)
  BY <1>3 DEF MakeUserFifo, Exit, Shows, To, resultVars, Keeps, SessionTypeOK
<1>4. ASSUME NEW b \in BOOLEAN, SendOpen(p, b)
      PROVE  Keeps(q)
  BY <1>4 DEF SendOpen, Shows, To, resultVars, Keeps, SessionTypeOK
<1>5. ASSUME NEW b \in BOOLEAN, SendWrite(p, b)
      PROVE  Keeps(q)
  BY <1>5 DEF SendWrite, Exit, Shows, To, resultVars, Keeps, SessionTypeOK
<1> QED
  BY <1>1, <1>2, <1>3, <1>4, <1>5

LEMMA AwaitKeepsOthers ==
  ASSUME SessionTypeOK, NEW p \in Pids, NEW q \in Pids \ {p}, Await(p) \/ ReadNothing(p)
  PROVE  Keeps(q)
<1>1. CASE EnableTimeoutAlarm(p) \/ OpenOwn(p) \/ OpenedOwn(p)
  BY <1>1 DEF EnableTimeoutAlarm, OpenOwn, OpenOwnFails, OpenedOwn, StepTo, To, resultVars,
              Keeps, SessionTypeOK
<1>2. CASE ReadReply(p) \/ ReadNothing(p) \/ OpenOwnFails(p)
  BY <1>2 DEF ReadReply, ReadNothing, OpenOwnFails, Shows, StepTo, To, Keeps, SessionTypeOK
<1>3. CASE DisableTimeoutAlarm(p) \/ AlarmRings(p)
  BY <1>3 DEF DisableTimeoutAlarm, AlarmRings, StepTo, To, resultVars, Keeps, SessionTypeOK
<1>4. CASE LogReply(p) \/ DeleteUserFifo(p)
  BY <1>4 DEF LogReply, DeleteUserFifo, Exit, StepTo, To, resultVars, Keeps, SessionTypeOK
<1> QED
  BY <1>1, <1>2, <1>3, <1>4 DEF Await

LEMMA AgainKeepsOthers ==
  ASSUME SessionTypeOK, NEW p \in Pids, NEW q \in Pids \ {p}, Again(p)
  PROVE  Keeps(q)
  BY DEF Again, StepTo, To, Keeps, SessionTypeOK

LEMMA ServerKeepsAll ==
  ASSUME TalkTypeOK, Server, NEW q \in Pids
  PROVE  Keeps(q)
<1>1. \A p : OpenedByServer(p) => Keeps(q)
  BY DEF OpenedByServer, resultVars, Keeps
<1>2. \A p, tag : WrittenByServer(p, tag) => Keeps(q)
  BY DEF WrittenByServer, resultVars, Keeps
<1>3. UNCHANGED sessionVars => Keeps(q)
  BY DEF sessionVars, resultVars, Keeps
<1> QED
  BY <1>1, <1>2, <1>3 DEF Server, ServerOpens, ServerWrites, ServerCloses, ServerDies

LEMMA KeptControl ==
  ASSUME NEW q \in Pids, Keeps(q), Control(q)
  PROVE  Control(q)'
  BY DEF Keeps, Control

LEMMA SendingControl ==
  ASSUME SessionTypeOK, NEW p \in Pids, Control(p),
         \/ Begin(p) \/ Refuse(p) \/ MakeUserFifo(p) \/ SendClose(p)
         \/ \E b \in BOOLEAN : SendOpen(p, b) \/ SendWrite(p, b)
  PROVE  Control(p)'
<1>1. CASE Begin(p) \/ SendClose(p)
  BY <1>1 DEF Begin, SendClose, StepTo, From, To, resultVars, Control, SessionTypeOK
<1>2. CASE Refuse(p)
  BY <1>2 DEF Refuse, Exit, Shows, From, To, Control, Concluding, Logging, SessionTypeOK
<1>3. CASE MakeUserFifo(p)
  BY <1>3 DEF MakeUserFifo, Exit, Shows, From, To, resultVars, Control, Concluding, Logging,
              SessionTypeOK
<1>4. ASSUME NEW b \in BOOLEAN, SendOpen(p, b)
      PROVE  Control(p)'
  BY <1>4 DEF SendOpen, Shows, From, To, resultVars, Control, Concluding, Logging, SessionTypeOK
<1>5. ASSUME NEW b \in BOOLEAN, SendWrite(p, b)
      PROVE  Control(p)'
  BY <1>5 DEF SendWrite, Exit, Shows, From, To, resultVars, Control, Concluding, Logging,
              SessionTypeOK
<1> QED
  BY <1>1, <1>2, <1>3, <1>4, <1>5

LEMMA AwaitControl ==
  ASSUME SessionTypeOK, NEW p \in Pids, Control(p), Await(p) \/ ReadNothing(p)
  PROVE  Control(p)'
<1>1. CASE EnableTimeoutAlarm(p)
  BY <1>1 DEF EnableTimeoutAlarm, StepTo, From, To, resultVars, Control, SessionTypeOK
<1>2. CASE OpenOwn(p)
  BY <1>2 DEF OpenOwn, StepTo, From, To, resultVars, Control, SessionTypeOK
<1>2a. CASE OpenOwnFails(p)
  BY <1>2a DEF OpenOwnFails, Shows, StepTo, From, To, Control, Concluding, Logging, SessionTypeOK
<1>3. CASE OpenedOwn(p)
  BY <1>3 DEF OpenedOwn, StepTo, From, To, resultVars, Control, SessionTypeOK
<1>4. CASE ReadReply(p)
  BY <1>4 DEF ReadReply, StepTo, From, To, Control, SessionTypeOK
<1>5. CASE ReadNothing(p)
  BY <1>5 DEF ReadNothing, Shows, StepTo, From, To, Control, SessionTypeOK
<1>6. CASE DisableTimeoutAlarm(p)
  BY <1>6 DEF DisableTimeoutAlarm, StepTo, From, To, resultVars, Control, Concluding, Logging,
              SessionTypeOK
<1>7. CASE AlarmRings(p)
  BY <1>7 DEF AlarmRings, From, To, Control, Concluding, Logging, SessionTypeOK
<1>8. CASE LogReply(p)
  BY <1>8 DEF LogReply, StepTo, From, To, resultVars, Control, Concluding, Logging, SessionTypeOK
<1>9. CASE DeleteUserFifo(p)
  BY <1>9 DEF DeleteUserFifo, Exit, From, To, resultVars, Control, Concluding, Logging,
              SessionTypeOK
<1> QED
  BY <1>1, <1>2, <1>2a, <1>3, <1>4, <1>5, <1>6, <1>7, <1>8, <1>9 DEF Await

LEMMA AgainControl ==
  ASSUME SessionTypeOK, NEW p \in Pids, Control(p), Again(p)
  PROVE  Control(p)'
<1>1. /\ past[p] \in Seq(Results) /\ result[p] \in Results
      /\ past'[p] = Append(past[p], result[p])
      /\ Len(past[p]) + 1 < MaxRuns
  BY DEF Again, SessionTypeOK
<1>2. Len(past'[p]) = Len(past[p]) + 1
  BY <1>1
<1> QED
  BY <1>1, <1>2 DEF Again, StepTo, From, To, ownVars, Control, Concluding, Logging, SessionTypeOK

LEMMA KeptTaken ==
  ASSUME TalkTypeOK, TalkInv, NEW p \in Pids, NEW q \in Pids \ {p}, Keeps(q),
         taken' = taken \/ taken' = taken \union {Tag(p)}
  PROVE  TakenOK(q)'
<1>1. \A n \in 1 .. MaxRuns : <<q, n>> \in taken' <=> <<q, n>> \in taken
  BY DEF Tag
<1>2. Tag(q)' = Tag(q) /\ (Tag(q) \in taken' <=> Tag(q) \in taken)
  BY DEF Keeps, Tag
<1>3. TakenOK(q)
  BY DEF TalkInv
<1> QED
  BY <1>1, <1>2, <1>3 DEF Keeps, TakenOK

(* The steps of a program that put nothing in the server's FIFO *)
LEMMA SameTag ==
  ASSUME NEW p \in Pids, past'[p] = past[p]
  PROVE  Tag(p)' = Tag(p)
  BY DEF Tag

LEMMA ProgramTaken ==
  ASSUME TalkTypeOK, TalkInv, NEW p \in Pids, Acts(p)
  PROVE  TakenOK(p)'
<1>a. SessionTypeOK /\ Control(p) /\ TakenOK(p)
  BY DEF TalkTypeOK, TalkInv
<1>1. CASE Write(p)
  <2>1. PICK room \in {FALSE, up} : SendWrite(p, room) /\ Arrives(p, room)
    BY <1>1 DEF Write
  <2>2. From(p, "write") /\ past' = past
    BY <2>1 DEF SendWrite
  <2>3. CASE room
    <3>1. step'[p] = "close" /\ result' = result /\ taken' = taken \union {Tag(p)}
      BY <1>a, <2>1, <2>3 DEF SendWrite, To, resultVars, Arrives, SessionTypeOK
    <3>2. \A n \in 1 .. MaxRuns : <<p, n>> \in taken' => n <= Len(past[p]) + 1
      BY <1>a, <3>1, TagFacts DEF TakenOK, Tag
    <3> QED
      BY <1>a, <2>2, <3>1, <3>2, SameTag DEF TakenOK, Sending, NeverSent, Control, From
  <2>4. CASE ~ room
    <3>1. step'[p] = "ended" /\ result'[p] = "not_sent" /\ taken' = taken
      BY <1>a, <2>1, <2>4 DEF SendWrite, Exit, To, Shows, Arrives, SessionTypeOK
    <3> QED
      BY <1>a, <2>2, <3>1, SameTag DEF TakenOK, Sending, NeverSent, From
  <2> QED
    BY <2>1, <2>3, <2>4 DEF TalkTypeOK
<1>2. CASE ~ Write(p)
  <2>1. taken' = taken
    BY <1>2 DEF Acts, Proceed, Start, Open, MeetEnd, serverVars
  <2>2. past' = past
    BY <1>2
       DEF Acts, Proceed, Start, Open, MeetEnd, Begin, Refuse, MakeUserFifo, SendOpen,
           SendClose, Await, EnableTimeoutAlarm, OpenOwn, OpenOwnFails, OpenedOwn, ReadReply,
           ReadNothing, DisableTimeoutAlarm, AlarmRings, LogReply, DeleteUserFifo
  <2>3. \/ step[p] \in Sending /\ step'[p] \in Sending
        \/ step[p] \in Sending /\ result'[p] \in NeverSent /\ step'[p] \notin Sending
        \/ /\ step[p] \notin Sending /\ step'[p] \notin Sending
           /\ result[p] \in NeverSent <=> result'[p] \in NeverSent
    <3>1. CASE Begin(p) \/ SendClose(p)
      BY <1>a, <3>1 DEF Begin, SendClose, StepTo, From, To, resultVars, Sending, SessionTypeOK
    <3>2. CASE Refuse(p)
      BY <1>a, <3>2 DEF Refuse, Exit, From, To, Shows, Sending, NeverSent, SessionTypeOK
    <3>3. CASE MakeUserFifo(p)
      BY <1>a, <3>3 DEF MakeUserFifo, Exit, From, To, Shows, Sending, NeverSent, SessionTypeOK
    <3>4. CASE Open(p)
      BY <1>a, <3>4 DEF Open, SendOpen, From, To, Shows, Sending, NeverSent, SessionTypeOK
    <3>5. CASE Await(p) \/ MeetEnd(p)
      <4>1. CASE EnableTimeoutAlarm(p) \/ OpenOwn(p) \/ OpenedOwn(p)
        BY <1>a, <4>1 DEF EnableTimeoutAlarm, OpenOwn, OpenOwnFails, OpenedOwn, StepTo, From,
                          To, resultVars, Sending, SessionTypeOK
      <4>2. CASE ReadReply(p) \/ ReadNothing(p) \/ OpenOwnFails(p)
        BY <1>a, <4>2 DEF ReadReply, ReadNothing, OpenOwnFails, Shows, StepTo, From, To, Control,
                          Sending, NeverSent, SessionTypeOK
      <4>3. CASE DisableTimeoutAlarm(p) \/ LogReply(p)
        BY <1>a, <4>3 DEF DisableTimeoutAlarm, LogReply, StepTo, From, To, resultVars,
                          Sending, SessionTypeOK
      <4>4. CASE AlarmRings(p)
        BY <1>a, <4>4 DEF AlarmRings, From, To, Control, Sending, NeverSent, SessionTypeOK
      <4>5. CASE DeleteUserFifo(p)
        BY <1>a, <4>5 DEF DeleteUserFifo, Exit, From, To, resultVars, Sending, SessionTypeOK
      <4> QED
        BY <3>5, <4>1, <4>2, <4>3, <4>4, <4>5 DEF MeetEnd, Await
    <3> QED
      BY <1>2, <3>1, <3>2, <3>3, <3>4, <3>5 DEF Acts, Proceed, Start
  <2> QED
    BY <1>a, <2>1, <2>2, <2>3, SameTag DEF TakenOK
<1> QED
  BY <1>1, <1>2

LEMMA AgainTaken ==
  ASSUME TalkTypeOK, TalkInv, NEW p \in Pids, Follow(p)
  PROVE  TakenOK(p)'
<1>1. SessionTypeOK /\ TakenOK(p) /\ taken' = taken
  BY DEF TalkTypeOK, TalkInv, Follow, serverVars
<1>2. /\ past[p] \in Seq(Results) /\ result[p] \in Results
      /\ past'[p] = Append(past[p], result[p]) /\ Len(past[p]) + 1 < MaxRuns
      /\ step'[p] = "start"
  BY <1>1 DEF Follow, Again, StepTo, To, SessionTypeOK
<1>3. Len(past'[p]) = Len(past[p]) + 1 /\ Len(past[p]) \in Nat
  BY <1>2
<1>4. \A n \in 1 .. MaxRuns : <<p, n>> \in taken' => n <= Len(past'[p]) + 1
  BY <1>1, <1>3 DEF TakenOK
<1>5. Tag(p)' \notin taken'
  <2>1. Tag(p)' = <<p, Len(past[p]) + 2>>
    BY <1>3 DEF Tag
  <2>2. Len(past[p]) + 2 \in 1 .. MaxRuns /\ ~ (Len(past[p]) + 2 <= Len(past[p]) + 1)
    BY <1>2, <1>3, MaxRunsAssumption DEF MaxRunsAssumption
  <2> QED
    BY <1>1, <2>1, <2>2 DEF TakenOK
<1> QED
  BY <1>2, <1>4, <1>5 DEF TakenOK, Sending

(* Every step keeps the inductive invariant: who may be where, with which FIFO, *)
(* logged line and reply (user.c:141-217).                                   *)
THEOREM TalkInvStep ==
  ASSUME TalkTypeOK, TalkInv, [TalkNext]_talkVars
  PROVE  TalkInv'
<1> SUFFICES ASSUME NEW q \in Pids
             PROVE  Control(q)' /\ TakenOK(q)'
  BY DEF TalkInv
<1>a. SessionTypeOK /\ Control(q) /\ TakenOK(q)
  BY DEF TalkTypeOK, TalkInv
<1>1. ASSUME NEW p \in Pids, Acts(p)
      PROVE  Control(q)' /\ TakenOK(q)'
  <2>1. \/ Begin(p) \/ Refuse(p) \/ MakeUserFifo(p) \/ SendClose(p)
        \/ \E b \in BOOLEAN : SendOpen(p, b) \/ SendWrite(p, b)
        \/ Await(p) \/ ReadNothing(p)
    BY <1>1 DEF Acts, Proceed, Start, Open, Write, MeetEnd, TalkTypeOK
  <2>2. CASE q = p
    BY <1>a, <1>1, <2>1, <2>2, SendingControl, AwaitControl, ProgramTaken
  <2>3. CASE q # p
    <3>1. Keeps(q)
      BY <1>a, <2>1, <2>3, SendingKeepsOthers, AwaitKeepsOthers
    <3>2. taken' = taken \/ taken' = taken \union {Tag(p)}
      BY <1>1 DEF Acts, Proceed, Start, Open, Write, Arrives, MeetEnd, serverVars
    <3> QED
      BY <1>a, <2>3, <3>1, <3>2, KeptControl, KeptTaken
  <2> QED
    BY <2>2, <2>3
<1>2. ASSUME NEW p \in Pids, Follow(p)
      PROVE  Control(q)' /\ TakenOK(q)'
  <2>1. Again(p) /\ taken' = taken
    BY <1>2 DEF Follow, serverVars
  <2>2. CASE q = p
    BY <1>a, <1>2, <2>1, <2>2, AgainControl, AgainTaken
  <2>3. CASE q # p
    BY <1>a, <2>1, <2>3, AgainKeepsOthers, KeptControl, KeptTaken
  <2> QED
    BY <2>2, <2>3
<1>3. CASE Server
  <2>1. Keeps(q) /\ taken' = taken
    BY <1>3, ServerKeepsAll
       DEF Server, ServerOpens, ServerWrites, ServerCloses, ServerDies, Gone
  <2>2. Tag(q)' = Tag(q)
    BY <2>1 DEF Keeps, Tag
  <2> QED
    BY <1>a, <2>1, <2>2, KeptControl DEF Keeps, TakenOK
<1>4. CASE UNCHANGED talkVars
  <2>1. Keeps(q) /\ taken' = taken /\ Tag(q)' = Tag(q)
    BY <1>4 DEF talkVars, sessionVars, serverVars, resultVars, Keeps, Tag
  <2> QED
    BY <1>a, <2>1, KeptControl DEF Keeps, TakenOK
<1> QED
  BY <1>1, <1>2, <1>3, <1>4 DEF TalkNext, Acts

-----------------------------------------------------------------------------
(* What is left behind *)

Blocked == {"none", "refused", "no_fifo"}

(* A process that got no further than its own FIFO changes nothing. *)
LEMMA LeftByEarlier ==
  ASSUME NEW s \in Seq(Results), NEW r \in Blocked, NEW t \in Blocked,
         LeftUnsent(Append(s, r))
  PROVE  LeftUnsent(Append(s, t))
<1>1. PICK i \in DOMAIN Append(s, r) :
        /\ Append(s, r)[i] = "not_sent"
        /\ \A j \in i + 1 .. Len(Append(s, r)) : Append(s, r)[j] \in Blocked
  BY DEF LeftUnsent, Blocked
<1>2. i \in 1 .. Len(s) /\ s[i] = "not_sent"
  BY <1>1 DEF Blocked
<1>3. \A j \in i + 1 .. Len(s) : s[j] \in Blocked
  BY <1>1, <1>2
<1>4. i \in DOMAIN Append(s, t) /\ Append(s, t)[i] = "not_sent"
  BY <1>2
<1>5. \A j \in i + 1 .. Len(Append(s, t)) : Append(s, t)[j] \in Blocked
  BY <1>2, <1>3 DEF Blocked
<1> QED
  BY <1>4, <1>5 DEF LeftUnsent, Blocked

LEMMA LeftBefore ==
  ASSUME NEW s \in Seq(Results), NEW r \in Blocked, LeftUnsent(s)
  PROVE  LeftUnsent(Append(s, r))
<1>1. PICK i \in DOMAIN s :
        s[i] = "not_sent" /\ \A j \in i + 1 .. Len(s) : s[j] \in Blocked
  BY DEF LeftUnsent, Blocked
<1>2. i \in DOMAIN Append(s, r) /\ Append(s, r)[i] = "not_sent"
  BY <1>1
<1>3. \A j \in i + 1 .. Len(Append(s, r)) : Append(s, r)[j] \in Blocked
  BY <1>1 DEF Blocked
<1> QED
  BY <1>2, <1>3 DEF LeftUnsent, Blocked

LEMMA LeftByLast ==
  ASSUME NEW s \in Seq(Results)
  PROVE  LeftUnsent(Append(s, "not_sent"))
<1>1. /\ Len(s) + 1 \in DOMAIN Append(s, "not_sent")
      /\ Append(s, "not_sent")[Len(s) + 1] = "not_sent"
      /\ Len(Append(s, "not_sent")) = Len(s) + 1
  OBVIOUS
<1>2. \A j \in Len(s) + 2 .. Len(s) + 1 : FALSE
  OBVIOUS
<1> QED
  BY <1>1, <1>2 DEF LeftUnsent

Waits(p) == step[p] \in {"start", "make_fifo", "ended"}
LeftOK(p) == own[p] /\ Waits(p) => LeftUnsent(Append(past[p], result[p]))

LEMMA SendingLeft ==
  ASSUME SessionTypeOK, NEW p \in Pids, Control(p), LeftOK(p),
         \/ Begin(p) \/ Refuse(p) \/ MakeUserFifo(p) \/ SendClose(p)
         \/ \E b \in BOOLEAN : SendOpen(p, b) \/ SendWrite(p, b)
  PROVE  LeftOK(p)'
<1>a. past[p] \in Seq(Results)
  BY DEF SessionTypeOK
<1>1. CASE Begin(p) \/ SendClose(p)
  BY <1>1 DEF Begin, SendClose, StepTo, From, To, ownVars, resultVars, LeftOK, Waits, SessionTypeOK
<1>2. CASE Refuse(p)
  <2>1. result[p] = "none" /\ result'[p] = "refused" /\ past' = past /\ own' = own /\ Waits(p)
    BY <1>2 DEF Refuse, From, Shows, Control, Waits, SessionTypeOK
  <2> QED
    BY <1>a, <2>1, LeftByEarlier DEF LeftOK, Blocked
<1>3. CASE MakeUserFifo(p)
  <2>1. result[p] = "none" /\ past' = past /\ Waits(p)
    BY <1>3 DEF MakeUserFifo, From, Control, Waits
  <2>2. CASE own[p]
    <3>1. result'[p] = "no_fifo" /\ own' = own
      BY <1>3, <2>2 DEF MakeUserFifo, Shows, SessionTypeOK
    <3> QED
      BY <1>a, <2>1, <3>1, LeftByEarlier DEF LeftOK, Blocked
  <2>3. CASE ~ own[p]
    BY <1>3, <2>3 DEF MakeUserFifo, To, LeftOK, Waits, SessionTypeOK
  <2> QED
    BY <2>2, <2>3
<1>4. ASSUME NEW b \in BOOLEAN, SendOpen(p, b)
      PROVE  LeftOK(p)'
  BY <1>4 DEF SendOpen, To, LeftOK, Waits, SessionTypeOK
<1>5. ASSUME NEW b \in BOOLEAN, SendWrite(p, b)
      PROVE  LeftOK(p)'
  <2>1. CASE b
    BY <1>5, <2>1 DEF SendWrite, To, LeftOK, Waits, SessionTypeOK
  <2>2. CASE ~ b
    <3>1. result'[p] = "not_sent" /\ past' = past
      BY <1>5, <2>2 DEF SendWrite, Shows, SessionTypeOK
    <3> QED
      BY <1>a, <3>1, LeftByLast DEF LeftOK
  <2> QED
    BY <2>1, <2>2
<1> QED
  BY <1>1, <1>2, <1>3, <1>4, <1>5

LEMMA AwaitLeft ==
  ASSUME SessionTypeOK, NEW p \in Pids, Await(p) \/ ReadNothing(p)
  PROVE  LeftOK(p)'
<1>1. CASE DeleteUserFifo(p)
  BY <1>1 DEF DeleteUserFifo, LeftOK, SessionTypeOK
<1>2. CASE ~ DeleteUserFifo(p)
  <2>1. \E label \in {"open_own", "opening", "read", "got", "log", "delete"} : To(p, label)
    BY <1>2 DEF Await, EnableTimeoutAlarm, OpenOwn, OpenOwnFails, OpenedOwn, ReadReply, ReadNothing,
                DisableTimeoutAlarm, AlarmRings, LogReply, StepTo
  <2> QED
    BY <2>1 DEF To, LeftOK, Waits, SessionTypeOK
<1> QED
  BY <1>1, <1>2

LEMMA AgainLeft ==
  ASSUME SessionTypeOK, NEW p \in Pids, LeftOK(p), Again(p)
  PROVE  LeftOK(p)'
<1>1. /\ past[p] \in Seq(Results) /\ result[p] \in Results
      /\ past'[p] = Append(past[p], result[p]) /\ result'[p] = "none" /\ own' = own
      /\ Waits(p)
  BY DEF Again, StepTo, From, ownVars, Waits, SessionTypeOK
<1>2. Append(past[p], result[p]) \in Seq(Results)
  BY <1>1
<1> QED
  BY <1>1, <1>2, LeftBefore DEF LeftOK, Blocked

LEMMA SessionLeftOthers ==
  ASSUME SessionTypeOK, NEW p \in Pids, NEW q \in Pids \ {p}, LeftOK(q), Keeps(q),
         \/ Begin(p) \/ Refuse(p) \/ MakeUserFifo(p) \/ SendClose(p)
         \/ \E b \in BOOLEAN : SendOpen(p, b) \/ SendWrite(p, b)
         \/ Await(p) \/ ReadNothing(p) \/ Again(p)
  PROVE  LeftOK(q)'
<1>1. own'[q] = own[q]
  BY DEF Begin, Refuse, MakeUserFifo, SendClose, SendOpen, SendWrite, Await, ReadNothing, Again,
         EnableTimeoutAlarm, OpenOwn, OpenOwnFails, OpenedOwn, ReadReply, DisableTimeoutAlarm,
         AlarmRings, LogReply, DeleteUserFifo, ownVars, SessionTypeOK
<1> QED
  BY <1>1 DEF LeftOK, Waits, Keeps

(* A step leaves a FIFO behind only where the request has not gone out       *)
(* (user.c:163-178).                                                         *)
THEOREM LeftStep ==
  ASSUME TalkTypeOK, TalkInv, FifoLeftOnlyUnsent, [TalkNext]_talkVars
  PROVE  FifoLeftOnlyUnsent'
<1> SUFFICES ASSUME NEW q \in Pids
             PROVE  LeftOK(q)'
  BY DEF FifoLeftOnlyUnsent, LeftOK, Waits
<1>a. SessionTypeOK /\ Control(q) /\ LeftOK(q)
  BY DEF TalkTypeOK, TalkInv, FifoLeftOnlyUnsent, LeftOK, Waits
<1>1. ASSUME NEW p \in Pids, Acts(p) \/ Follow(p)
      PROVE  LeftOK(q)'
  <2>1. \/ \/ Begin(p) \/ Refuse(p) \/ MakeUserFifo(p) \/ SendClose(p)
           \/ \E b \in BOOLEAN : SendOpen(p, b) \/ SendWrite(p, b)
        \/ Await(p) \/ ReadNothing(p)
        \/ Again(p)
    BY <1>1 DEF Acts, Proceed, Follow, Start, Open, Write, MeetEnd, TalkTypeOK
  <2>2. CASE q = p
    BY <1>a, <2>1, <2>2, SendingLeft, AwaitLeft, AgainLeft
  <2>3. CASE q # p
    <3>1. Keeps(q)
      BY <1>a, <2>1, <2>3, SendingKeepsOthers, AwaitKeepsOthers, AgainKeepsOthers
    <3> QED
      BY <1>a, <2>1, <2>3, <3>1, SessionLeftOthers
  <2> QED
    BY <2>2, <2>3
<1>2. CASE Server
  <2>1. Keeps(q)
    BY <1>2, ServerKeepsAll
  <2>2. own' = own
    BY <1>2 DEF Server, ServerOpens, ServerWrites, ServerCloses, ServerDies, OpenedByServer,
                WrittenByServer, sessionVars, ownVars
  <2> QED
    BY <1>a, <2>1, <2>2 DEF LeftOK, Waits, Keeps
<1>3. CASE UNCHANGED talkVars
  BY <1>a, <1>3 DEF talkVars, sessionVars, ownVars, resultVars, LeftOK, Waits
<1> QED
  BY <1>1, <1>2, <1>3 DEF TalkNext, Acts

(* The program keeps to its order: it logs a result once, and the alarm does *)
(* not ring after that.                                                      *)
THEOREM TalkIsRight == TalkSpec => [](TalkTypeOK /\ TalkInv)
<1>1. TalkInit => TalkTypeOK /\ TalkInv
  BY TypesInit, TalkInvInit
<1>2. TalkTypeOK /\ TalkInv /\ [TalkNext]_talkVars => (TalkTypeOK /\ TalkInv)'
  BY TypesStep, TalkInvStep
<1> QED
  BY <1>1, <1>2, PTL DEF TalkSpec

(* Every variable has its type, whatever the arguments are (user.c:225-301). *)
THEOREM TalkTypes == TalkSpec => []TalkTypeOK
  BY TalkIsRight, PTL

(* No process logs two replies, and one that ends with a reply, a server    *)
(* that is down or a timeout has logged one (user.c:142, 199).               *)
THEOREM OneReplyIsLogged == TalkSpec => []OneReplyLogged
<1>1. ASSUME TalkTypeOK, TalkInv, NEW p \in Pids
      PROVE  /\ logged[p] <= 1
             /\ From(p, "ended") /\ result[p] \in {"reply", "SRV_DOWN", "SRV_TIMEOUT"}
                  => logged[p] = 1
  <2>1. Control(p) /\ logged[p] \in Nat
    BY <1>1 DEF TalkTypeOK, SessionTypeOK, TalkInv
  <2> QED
    BY <2>1 DEF Control, Concluding, Logging, From
<1>2. TalkTypeOK /\ TalkInv => OneReplyLogged
  BY <1>1 DEF OneReplyLogged
<1> QED
  BY <1>2, TalkIsRight, PTL

(* A FIFO that no process has was left by one whose request could not be    *)
(* written (user.c:172).                                                     *)
THEOREM FifosAreLeftUnsent == TalkSpec => []FifoLeftOnlyUnsent
<1>1. TalkInit => FifoLeftOnlyUnsent
  BY DEF TalkInit, SessionInit, FifoLeftOnlyUnsent
<1>2. TalkTypeOK /\ TalkInv /\ FifoLeftOnlyUnsent /\ [TalkNext]_talkVars
        => FifoLeftOnlyUnsent'
  BY LeftStep
<1> QED
  BY <1>1, <1>2, TalkIsRight, PTL DEF TalkSpec

-----------------------------------------------------------------------------
(* The promise of Session *)

IsSent(p) == Tag(p) \in taken
Shown(p) == IF step[p] = "ended" THEN result[p] ELSE "none"


LEMMA PromiseStep ==
  ASSUME NEW p \in Pids,
         \A q \in Pids \ {p} :
           Phase(q)' = Phase(q) /\ (IsSent(q)' <=> IsSent(q)) /\ Shown(q)' = Shown(q),
         \/ Phase(p)' = Phase(p) /\ (IsSent(p)' <=> IsSent(p)) /\ Shown(p)' = Shown(p)
         \/ /\ Phase(p) = "idle" /\ Phase(p)' = "asking"
            /\ IsSent(p)' <=> IsSent(p)
            /\ Shown(p)' = Shown(p)
         \/ Phase(p) = "asking" /\ Phase(p)' = "asking" /\ IsSent(p)' /\ Shown(p)' = Shown(p)
         \/ /\ Phase(p) # "over" /\ Phase(p)' = "over"
            /\ IsSent(p)' <=> IsSent(p)
            /\ Shown(p)' \in IF IsSent(p) THEN Promise!MaybeDone ELSE Promise!NotSent
         \/ Phase(p) = "over" /\ Phase(p)' = "idle" /\ ~ IsSent(p)' /\ Shown(p)' = "none"
  PROVE  [Promise!Next]_(Promise!sessionVars)
<1> DEFINE phase == [q \in Pids |-> Phase(q)]
           sent == {q \in Pids : Tag(q) \in taken}
           shown == [q \in Pids |-> IF step[q] = "ended" THEN result[q] ELSE "none"]
<1>1. /\ phase[p] = Phase(p) /\ shown[p] = Shown(p) /\ (p \in sent <=> IsSent(p))
      /\ phase' = [phase EXCEPT ![p] = Phase(p)']
      /\ shown' = [shown EXCEPT ![p] = Shown(p)']
      /\ sent' = IF IsSent(p)' THEN sent \union {p} ELSE sent \ {p}
  <2>1. phase' = [phase EXCEPT ![p] = Phase(p)']
    OBVIOUS
  <2>2. shown' = [shown EXCEPT ![p] = Shown(p)']
    BY DEF Shown
  <2>3. sent' = IF IsSent(p)' THEN sent \union {p} ELSE sent \ {p}
    BY DEF IsSent
  <2> QED
    BY <2>1, <2>2, <2>3 DEF Shown, IsSent
<1>a. Phase(p)' = Phase(p) => phase' = phase
  OBVIOUS
<1>b. Shown(p)' = Shown(p) => shown' = shown
  BY DEF Shown
<1>c. (IsSent(p)' <=> IsSent(p)) => sent' = sent
  BY DEF IsSent
<1>2. CASE Phase(p)' = Phase(p) /\ (IsSent(p)' <=> IsSent(p)) /\ Shown(p)' = Shown(p)
  <2>1. phase' = phase /\ sent' = sent /\ shown' = shown
    BY <1>2, <1>a, <1>b, <1>c
  <2> QED
    BY <2>1 DEF Promise!sessionVars
<1>3. CASE /\ Phase(p) = "idle" /\ Phase(p)' = "asking"
           /\ IsSent(p)' <=> IsSent(p)
           /\ Shown(p)' = Shown(p)
  <2>1. phase[p] = "idle" /\ phase' = [phase EXCEPT ![p] = "asking"] /\ sent' = sent
        /\ shown' = shown
    BY <1>1, <1>3, <1>a, <1>b, <1>c
  <2> QED
    BY <2>1 DEF Promise!Next, Promise!Ask
<1>4. CASE Phase(p) = "asking" /\ Phase(p)' = "asking" /\ IsSent(p)' /\ Shown(p)' = Shown(p)
  <2>1. phase[p] = "asking" /\ sent' = sent \union {p} /\ phase' = phase /\ shown' = shown
    BY <1>1, <1>4, <1>a, <1>b, <1>c
  <2> QED
    BY <2>1 DEF Promise!Next, Promise!Send
<1>5. CASE /\ Phase(p) # "over" /\ Phase(p)' = "over"
           /\ IsSent(p)' <=> IsSent(p)
           /\ Shown(p)' \in IF IsSent(p) THEN Promise!MaybeDone ELSE Promise!NotSent
  <2>1. /\ phase[p] # "over" /\ phase' = [phase EXCEPT ![p] = "over"] /\ sent' = sent
        /\ shown' = [shown EXCEPT ![p] = Shown(p)']
        /\ Shown(p)' \in IF p \in sent THEN Promise!MaybeDone ELSE Promise!NotSent
    BY <1>1, <1>5, <1>a, <1>b, <1>c
  <2>2. Promise!Conclude(p)
    BY <2>1 DEF Promise!Conclude
  <2> QED
    BY <2>2 DEF Promise!Next
<1>6. CASE Phase(p) = "over" /\ Phase(p)' = "idle" /\ ~ IsSent(p)' /\ Shown(p)' = "none"
  <2>1. /\ phase[p] = "over" /\ phase' = [phase EXCEPT ![p] = "idle"] /\ sent' = sent \ {p}
        /\ shown' = [shown EXCEPT ![p] = "none"]
    BY <1>1, <1>6
  <2> QED
    BY <2>1 DEF Promise!Next, Promise!Again
<1> QED
  BY <1>2, <1>3, <1>4, <1>5, <1>6

LEMMA OthersLook ==
  ASSUME NEW p \in Pids, NEW q \in Pids \ {p}, Keeps(q),
         taken' = taken \/ taken' = taken \union {Tag(p)}
  PROVE  Phase(q)' = Phase(q) /\ (IsSent(q)' <=> IsSent(q)) /\ Shown(q)' = Shown(q)
<1>1. Phase(q)' = Phase(q) /\ Shown(q)' = Shown(q)
  BY DEF Keeps, Phase, Shown
<1>2. Tag(q)' = Tag(q) /\ Tag(q) # Tag(p)
  BY DEF Keeps, Tag
<1> QED
  BY <1>1, <1>2 DEF IsSent

LEMMA ProgramPromise ==
  ASSUME TalkTypeOK, TalkInv, TalkInv', NEW p \in Pids, Acts(p)
  PROVE  [Promise!Next]_(Promise!sessionVars)
<1>a. SessionTypeOK /\ Control(p) /\ TakenOK(p) /\ Control(p)' /\ TakenOK(p)'
  BY DEF TalkTypeOK, TalkInv
<1>b. \/ Begin(p) \/ Refuse(p) \/ MakeUserFifo(p) \/ SendClose(p)
      \/ \E b \in BOOLEAN : SendOpen(p, b) \/ SendWrite(p, b)
      \/ Await(p) \/ ReadNothing(p)
  BY DEF Acts, Proceed, Start, Open, Write, MeetEnd, TalkTypeOK
<1>c. /\ taken' = taken \/ taken' = taken \union {Tag(p)}
      /\ taken' # taken => \E b \in {TRUE} : SendWrite(p, b)
  BY DEF Acts, Proceed, Start, Open, Write, Arrives, MeetEnd, serverVars, TalkTypeOK
<1>d. \A q \in Pids \ {p} :
        Phase(q)' = Phase(q) /\ (IsSent(q)' <=> IsSent(q)) /\ Shown(q)' = Shown(q)
  BY <1>a, <1>b, <1>c, SendingKeepsOthers, AwaitKeepsOthers, OthersLook
<1>e. /\ IsSent(p) <=> step[p] \notin Sending /\ result[p] \notin NeverSent
      /\ IsSent(p)' <=> step'[p] \notin Sending /\ result'[p] \notin NeverSent
  BY <1>a DEF TakenOK, IsSent
<1>1. CASE Begin(p)
  <2>1. step[p] = "start" /\ step'[p] = "make_fifo"
    BY <1>a, <1>1 DEF Begin, StepTo, From, To, SessionTypeOK
  <2> QED
    BY <1>d, <1>e, <2>1, PromiseStep DEF Phase, Shown, Sending
<1>2. ASSUME step[p] # "ended", ~ IsSent(p), step'[p] = "ended", result'[p] \in NeverSent
      PROVE  [Promise!Next]_(Promise!sessionVars)
  <2>1. /\ Phase(p) # "over" /\ Phase(p)' = "over" /\ ~ IsSent(p)'
        /\ Shown(p)' \in Promise!NotSent
    BY <1>2, <1>e DEF Phase, Shown, NeverSent, Promise!NotSent
  <2> QED
    BY <1>d, <1>2, <2>1, PromiseStep
<1>3. CASE Refuse(p)
  <2>1. step[p] = "start" /\ step'[p] = "ended" /\ result'[p] = "refused"
    BY <1>a, <1>3 DEF Refuse, Exit, Shows, From, To, SessionTypeOK
  <2> QED
    BY <1>2, <1>e, <2>1 DEF Sending, NeverSent
<1>4. ASSUME step[p] \notin {"start", "ended"}, step'[p] \notin {"start", "ended"},
             IsSent(p)' <=> IsSent(p)
      PROVE  [Promise!Next]_(Promise!sessionVars)
  <2>1. Phase(p)' = Phase(p) /\ Shown(p)' = Shown(p)
    BY <1>4 DEF Phase, Shown
  <2> QED
    BY <1>d, <1>4, <2>1, PromiseStep
<1>5. CASE MakeUserFifo(p)
  <2>1. step[p] = "make_fifo"
    BY <1>5 DEF MakeUserFifo, From
  <2>2. CASE own[p]
    <3>1. step'[p] = "ended" /\ result'[p] = "no_fifo"
      BY <1>a, <1>5, <2>2 DEF MakeUserFifo, Exit, Shows, To, SessionTypeOK
    <3> QED
      BY <1>2, <1>e, <2>1, <3>1 DEF Sending, NeverSent
  <2>3. CASE ~ own[p]
    <3>1. step'[p] = "open"
      BY <1>a, <1>5, <2>3 DEF MakeUserFifo, To, SessionTypeOK
    <3> QED
      BY <1>4, <1>e, <2>1, <3>1 DEF Sending
  <2> QED
    BY <2>2, <2>3
<1>6. ASSUME NEW b \in BOOLEAN, SendOpen(p, b)
      PROVE  [Promise!Next]_(Promise!sessionVars)
  <2>1. step[p] = "open"
    BY <1>6 DEF SendOpen, From
  <2>2. CASE b
    <3>1. step'[p] = "write"
      BY <1>a, <1>6, <2>2 DEF SendOpen, To, SessionTypeOK
    <3> QED
      BY <1>4, <1>e, <2>1, <3>1 DEF Sending
  <2>3. CASE ~ b
    <3>1. step'[p] = "log" /\ result'[p] = "SRV_DOWN"
      BY <1>a, <1>6, <2>3 DEF SendOpen, Shows, To, SessionTypeOK
    <3> QED
      BY <1>4, <1>e, <2>1, <3>1 DEF Sending, NeverSent
  <2> QED
    BY <2>2, <2>3
<1>7. ASSUME NEW b \in BOOLEAN, SendWrite(p, b)
      PROVE  [Promise!Next]_(Promise!sessionVars)
  <2>1. step[p] = "write" /\ result[p] = "none"
    BY <1>a, <1>7 DEF SendWrite, From, Control
  <2>2. CASE b
    <3>1. step'[p] = "close" /\ result' = result
      BY <1>a, <1>7, <2>2 DEF SendWrite, To, resultVars, SessionTypeOK
    <3>2. /\ Phase(p) = "asking" /\ Phase(p)' = "asking" /\ IsSent(p)'
          /\ Shown(p)' = Shown(p)
      BY <1>e, <2>1, <3>1 DEF Phase, Shown, Sending, NeverSent
    <3> QED
      BY <1>d, <3>2, PromiseStep
  <2>3. CASE ~ b
    <3>1. step'[p] = "ended" /\ result'[p] = "not_sent"
      BY <1>a, <1>7, <2>3 DEF SendWrite, Exit, Shows, To, SessionTypeOK
    <3> QED
      BY <1>2, <1>e, <2>1, <3>1 DEF Sending, NeverSent
  <2> QED
    BY <2>2, <2>3
<1>8. CASE DeleteUserFifo(p)
  <2>1. /\ step[p] = "delete" /\ step'[p] = "ended" /\ result' = result
        /\ result[p] \in Concluding
    BY <1>a, <1>8 DEF DeleteUserFifo, Exit, From, To, resultVars, Control, SessionTypeOK
  <2>2. /\ Phase(p) # "over" /\ Phase(p)' = "over" /\ (IsSent(p)' <=> IsSent(p))
        /\ Shown(p)' \in IF IsSent(p) THEN Promise!MaybeDone ELSE Promise!NotSent
    BY <1>e, <2>1 DEF Phase, Shown, Sending, NeverSent, Concluding, Logging,
                      Promise!MaybeDone, Promise!NotSent
  <2> QED
    BY <1>d, <2>2, PromiseStep
<1>9. CASE SendClose(p) \/ (Await(p) /\ ~ DeleteUserFifo(p)) \/ ReadNothing(p)
  <2>1. /\ step[p] \in Steps \ (Sending \union {"ended"})
        /\ step'[p] \in Steps \ (Sending \union {"ended"})
    <3>1. step[p] \in {"close", "arm", "open_own", "opening", "read", "got", "log", "delete"}
      BY <1>a, <1>9
         DEF SendClose, Await, EnableTimeoutAlarm, OpenOwn, OpenOwnFails, OpenedOwn, ReadReply,
             ReadNothing, DisableTimeoutAlarm, AlarmRings, LogReply, StepTo, From, Control
    <3>2. \E label \in {"arm", "open_own", "opening", "read", "got", "log", "delete"} :
            To(p, label)
      BY <1>9 DEF SendClose, Await, EnableTimeoutAlarm, OpenOwn, OpenOwnFails, OpenedOwn, ReadReply,
                  ReadNothing, DisableTimeoutAlarm, AlarmRings, LogReply, StepTo
    <3> QED
      BY <1>a, <3>1, <3>2 DEF To, Steps, Sending, SessionTypeOK
  <2>2. taken' = taken
    BY <1>c, <1>9, <2>1
       DEF SendWrite, SendClose, Await, EnableTimeoutAlarm, OpenOwn, OpenOwnFails, OpenedOwn,
           ReadReply, ReadNothing, DisableTimeoutAlarm, AlarmRings, LogReply, From, Sending
  <2>3. past' = past
    BY <1>9 DEF SendClose, Await, EnableTimeoutAlarm, OpenOwn, OpenOwnFails, OpenedOwn, ReadReply,
                ReadNothing, DisableTimeoutAlarm, AlarmRings, LogReply
  <2> QED
    BY <1>4, <2>1, <2>2, <2>3 DEF IsSent, Tag, Sending
<1> QED
  BY <1>b, <1>1, <1>3, <1>5, <1>6, <1>7, <1>8, <1>9

(* Every step of a user program is one of the session it promises, or none of *)
(* them (user.c:163-217).                                                    *)
THEOREM PromiseKept ==
  ASSUME TalkTypeOK, TalkInv, TalkInv', [TalkNext]_talkVars
  PROVE  [Promise!Next]_(Promise!sessionVars)
<1>a. SessionTypeOK
  BY DEF TalkTypeOK
<1>1. ASSUME NEW p \in Pids, Acts(p)
      PROVE  [Promise!Next]_(Promise!sessionVars)
  BY <1>1, ProgramPromise
<1>2. ASSUME NEW p \in Pids, Follow(p)
      PROVE  [Promise!Next]_(Promise!sessionVars)
  <2>1. taken' = taken /\ Again(p)
    BY <1>2 DEF Follow, serverVars
  <2>2. \A q \in Pids \ {p} :
          Phase(q)' = Phase(q) /\ (IsSent(q)' <=> IsSent(q)) /\ Shown(q)' = Shown(q)
    BY <1>a, <2>1, AgainKeepsOthers, OthersLook
  <2>3. step[p] = "ended" /\ step'[p] = "start"
    BY <1>a, <2>1 DEF Again, StepTo, From, To, SessionTypeOK
  <2>4. ~ IsSent(p)'
    BY <2>3 DEF TalkInv, TakenOK, IsSent, Sending
  <2> QED
    BY <2>2, <2>3, <2>4, PromiseStep DEF Phase, Shown
<1>3. ASSUME \A q \in Pids : Keeps(q), taken' = taken
      PROVE  [Promise!Next]_(Promise!sessionVars)
  <2>1. \A q \in Pids :
          Phase(q)' = Phase(q) /\ (IsSent(q)' <=> IsSent(q)) /\ Shown(q)' = Shown(q)
    BY <1>3 DEF Keeps, Phase, IsSent, Tag, Shown
  <2>2. PICK p \in Pids : TRUE
    BY RequestsAssumption DEF RequestsAssumption
  <2> QED
    BY <2>1, <2>2, PromiseStep
<1>4. CASE Server
  BY <1>3, <1>4, ServerKeepsAll
     DEF Server, ServerOpens, ServerWrites, ServerCloses, ServerDies, Gone
<1>5. CASE UNCHANGED talkVars
  BY <1>3, <1>5 DEF talkVars, sessionVars, serverVars, resultVars, Keeps
<1> QED
  BY <1>1, <1>2, <1>4, <1>5 DEF TalkNext, Acts

(* What the program shows tells whether its request has been sent, and each *)
(* of its steps is one of Session or none (user.c:151-219).  That it comes   *)
(* to an end is left to TLC.                                                *)
THEOREM TalkIsASession == TalkSpec => Promise!Init /\ [][Promise!Next]_(Promise!sessionVars)
<1>1. TalkInit => Promise!Init
  BY DEF TalkInit, SessionInit, Phase, Promise!Init
<1>2. TalkTypeOK /\ TalkInv /\ TalkInv' /\ [TalkNext]_talkVars
        => [Promise!Next]_(Promise!sessionVars)
  BY PromiseKept
<1> QED
  BY <1>1, <1>2, TalkIsRight, PTL DEF TalkSpec

-----------------------------------------------------------------------------
(* Whose reply a user is shown *)

(* The requests the server has not replied to, the replies in a FIFO, and   *)
(* those still on their way to a user                                        *)
Owed == due \union {e.tag : e \in {f \in ends : ~ f.written}}
Inbox(p) == {arrived[p][i] : i \in DOMAIN arrived[p]}
Live(t) == t \in Owed \union Inbox(t[1])
Reading == {"opening", "read", "got", "log", "delete"}

(* A server that is gone has nothing, and a reply is written to one FIFO. *)
ServerInv ==
  /\ ~ up => due = {} /\ ends = {}
  /\ \A e \in ends : e.tag \in taken \ due
  /\ \A e, f \in ends : e.tag = f.tag => e = f

(* A request is waiting for its reply, or that is in the FIFO, or has been  *)
(* read: one of the three, and once.                                        *)
RepliesOnce(p) ==
  /\ Inbox(p) \subseteq taken \ Owed
  /\ \A t \in Inbox(p) : t[1] = p
  /\ \A i, j \in DOMAIN arrived[p] : arrived[p][i] = arrived[p][j] => i = j
  /\ \A i \in DOMAIN answer[p] : answer[p][i] \in taken \ (Owed \union Inbox(p))

(* A program whose FIFO has been opened reads a reply unless the server died. *)
NoOther(p) ==
  /\ reads[p] \/ came[p] \/ arrived[p] # <<>> => step[p] \in Reading
  /\ step[p] = "read" => came[p]
  /\ came[p] /\ step[p] \in {"opening", "read"} =>
       \/ arrived[p] # <<>> \/ ~ up
       \/ \E e \in ends : ~ e.written /\ e.tag[1] = p /\ e.run = Len(past[p]) + 1
  /\ result[p] = "OTHER" => ~ up

(* A reply that comes after its process has ended is one of a process that  *)
(* timed out, or that took the reply to an earlier one that had.             *)
LateOK(p) == \A t \in taken : t[1] = p /\ Live(t) /\ t[2] <= Len(past[p]) => GaveUp(p, t[2])

Own(p) == \A i \in DOMAIN answer[p] :
  answer[p][i] = Tag(p) \/ (answer[p][i][1] = p /\ GaveUp(p, answer[p][i][2]))

ReplyInv == ServerInv /\ \A p \in Pids : RepliesOnce(p) /\ NoOther(p) /\ LateOK(p) /\ Own(p)

(* No reply is on its way to anybody at the start.                           *)
THEOREM ReplyInvInit == TalkInit => ReplyInv
<1> SUFFICES ASSUME TalkInit
             PROVE  ReplyInv
  OBVIOUS
<1>1. ServerInv
  BY DEF TalkInit, ServerInv
<1>2. ASSUME NEW p \in Pids
      PROVE  RepliesOnce(p) /\ NoOther(p) /\ LateOK(p) /\ Own(p)
  BY DEF TalkInit, SessionInit, RepliesOnce, NoOther, LateOK, Own, Inbox
<1> QED
  BY <1>1, <1>2 DEF ReplyInv

(* What a step takes and what is owed after it *)
LEMMA TakenStep ==
  ASSUME TalkTypeOK, [TalkNext]_talkVars
  PROVE  /\ taken \subseteq taken'
         /\ \A t \in taken' \ taken : \E p \in Pids : t = Tag(p) /\ past' = past
<1>1. ASSUME NEW p \in Pids, Write(p)
      PROVE  taken' \in {taken, taken \union {Tag(p)}} /\ past' = past
  BY <1>1 DEF Write, SendWrite, Arrives, TalkTypeOK
<1>2. ASSUME NEW p \in Pids, Acts(p), ~ Write(p)
      PROVE  taken' = taken
  BY <1>2 DEF Acts, Proceed, Start, Open, MeetEnd, serverVars
<1>3. ASSUME NEW p \in Pids, Follow(p)
      PROVE  taken' = taken
  BY <1>3 DEF Follow, serverVars
<1>4. CASE Server
  BY <1>4 DEF Server, ServerOpens, ServerWrites, ServerCloses, ServerDies, Gone
<1>5. CASE UNCHANGED talkVars
  BY <1>5 DEF talkVars, serverVars
<1>6. CASE TalkNext
  BY <1>6, <1>1, <1>2, <1>3, <1>4 DEF TalkNext, Acts
<1> QED
  BY <1>5, <1>6

LEMMA WriteIsNew ==
  ASSUME TalkTypeOK, TalkInv, NEW p \in Pids, Write(p)
  PROVE  /\ Tag(p) \notin taken /\ UNCHANGED <<up, ends>>
         /\ \/ taken' = taken /\ due' = due
            \/ taken' = taken \union {Tag(p)} /\ due' = due \union {Tag(p)} /\ up
<1>1. PICK room \in {FALSE, up} :
        SendWrite(p, room) /\ Arrives(p, room) /\ UNCHANGED <<up, ends>>
  BY DEF Write
<1>2. Tag(p) \notin taken
  BY <1>1 DEF SendWrite, From, TalkInv, TakenOK, Sending
<1>3. CASE room
  <2>1. up
    BY <1>1, <1>3
  <2>2. taken' = taken \union {Tag(p)} /\ due' = due \union {Tag(p)}
    BY <1>1, <1>3 DEF Arrives
  <2> QED
    BY <1>1, <1>2, <2>1, <2>2
<1>4. CASE ~ room
  <2>1. taken' = taken /\ due' = due
    BY <1>1, <1>4 DEF Arrives
  <2> QED
    BY <1>1, <1>2, <2>1
<1> QED
  BY <1>3, <1>4

LEMMA ProgramServerSame ==
  ASSUME NEW p \in Pids, Acts(p) \/ Follow(p)
  PROVE  Write(p) \/ UNCHANGED serverVars
  BY DEF Acts, Proceed, Follow, Start, Open, MeetEnd

LEMMA ServerInvStep ==
  ASSUME TalkTypeOK, TalkInv, ServerInv, [TalkNext]_talkVars
  PROVE  ServerInv'
<1>1. CASE UNCHANGED serverVars
  BY <1>1 DEF ServerInv, serverVars
<1>2. ASSUME NEW p \in Pids, Write(p)
      PROVE  ServerInv'
  BY <1>2, WriteIsNew DEF ServerInv
<1>3. ASSUME NEW tag \in due, ServerOpens(tag)
      PROVE  ServerInv'
  <2>1. up /\ tag \in taken /\ \A e \in ends : e.tag # tag
    BY <1>3 DEF ServerInv, TalkTypeOK
  <2> DEFINE new == [tag |-> tag, run |-> Len(past[tag[1]]) + 1, written |-> FALSE]
  <2>a. new.tag = tag /\ (ends' = ends \/ ends' = ends \union {new})
    BY <1>3 DEF ServerOpens
  <2>2. /\ up' = up /\ taken' = taken /\ due' = due \ {tag}
        /\ \A e \in ends' : e \in ends \/ e.tag = tag
        /\ \A e, f \in ends' : e \notin ends /\ f \notin ends => e = f
    <3>1. up' = up /\ taken' = taken /\ due' = due \ {tag}
      BY <1>3 DEF ServerOpens
    <3> HIDE DEF new
    <3> QED
      BY <2>a, <3>1
  <2> QED
    BY <2>1, <2>2 DEF ServerInv
<1>4. ASSUME NEW e \in ends, ServerWrites(e)
      PROVE  ServerInv'
  <2>1. CASE Gone
    BY <2>1 DEF Gone, ServerInv
  <2>2. CASE UNCHANGED <<up, taken, due>> /\ ends' = (ends \ {e}) \union {[tag |-> e.tag, run |-> e.run, written |-> TRUE]}
    <3>1. [tag |-> e.tag, run |-> e.run, written |-> TRUE].tag = e.tag /\ up
      BY DEF TalkTypeOK, ServerInv
    <3>2. \A f \in ends' : f \in ends \ {e} \/ f = [tag |-> e.tag, run |-> e.run, written |-> TRUE]
      BY <2>2
    <3>3. \A f \in ends \ {e} : f.tag # e.tag
      BY DEF ServerInv
    <3> QED
      BY <2>2, <3>1, <3>2, <3>3 DEF ServerInv
  <2> QED
    BY <1>4, <2>1, <2>2 DEF ServerWrites
<1>5. ASSUME NEW e \in ends, ServerCloses(e)
      PROVE  ServerInv'
  BY <1>5 DEF ServerCloses, ServerInv
<1>6. CASE ServerDies
  BY <1>6 DEF ServerDies, Gone, ServerInv
<1>7. CASE Server
  BY <1>3, <1>4, <1>5, <1>6, <1>7 DEF Server
<1>8. CASE UNCHANGED talkVars
  BY <1>1, <1>8 DEF talkVars
<1> QED
  BY <1>1, <1>2, <1>7, <1>8, ProgramServerSame DEF TalkNext, Acts

(* What is owed has just been taken or was owed, and a reply that is written *)
(* is owed no more.                                                          *)
LEMMA OwedStep ==
  ASSUME TalkTypeOK, TalkInv, ServerInv, [TalkNext]_talkVars
  PROVE  Owed' \subseteq Owed \union (taken' \ taken)
<1>1. CASE UNCHANGED serverVars
  BY <1>1 DEF Owed, serverVars
<1>2. ASSUME NEW p \in Pids, Write(p)
      PROVE  Owed' \subseteq Owed \union (taken' \ taken)
  BY <1>2, WriteIsNew DEF Owed
<1>3. ASSUME NEW tag \in due, ServerOpens(tag)
      PROVE  Owed' \subseteq Owed
  <2>1. due' = due \ {tag} /\ \A e \in ends' : e \in ends \/ e.tag = tag
    BY <1>3 DEF ServerOpens
  <2> QED
    BY <2>1 DEF Owed
<1>4. ASSUME NEW e \in ends, ServerWrites(e) \/ ServerCloses(e)
      PROVE  Owed' \subseteq Owed
  <2>1. due' \subseteq due /\ \A f \in ends' : f \in ends \/ f = [tag |-> e.tag, run |-> e.run, written |-> TRUE]
    BY <1>4 DEF ServerWrites, ServerCloses, Gone
  <2>2. [tag |-> e.tag, run |-> e.run, written |-> TRUE].written = TRUE
    BY DEF TalkTypeOK
  <2> QED
    BY <2>1, <2>2 DEF Owed
<1>5. CASE ServerDies
  BY <1>5 DEF ServerDies, Gone, Owed
<1>6. CASE Server
  BY <1>3, <1>4, <1>5, <1>6 DEF Server
<1>7. CASE UNCHANGED talkVars
  BY <1>1, <1>7 DEF talkVars
<1> QED
  BY <1>1, <1>2, <1>6, <1>7, ProgramServerSame DEF TalkNext, Acts

(* What becomes of the replies in a user's FIFO: they are kept or dropped,  *)
(* the first is read, or one more comes.                                    *)
Drops(p) ==
  /\ arrived'[p] \in {arrived[p], <<>>}
  /\ answer'[p] = <<>> \/ (answer'[p] = answer[p] /\ past'[p] = past[p])

Reads(p) ==
  /\ arrived[p] # <<>> /\ arrived'[p] = Tail(arrived[p])
  /\ answer'[p] = <<Head(arrived[p])>> /\ past'[p] = past[p]

Gets(p) ==
  \E t \in Owed \ Owed' :
    /\ t[1] = p /\ arrived'[p] = Append(arrived[p], t)
    /\ answer'[p] = answer[p] /\ past'[p] = past[p]

LEMMA SessionFifo ==
  ASSUME SessionTypeOK, NEW p \in Pids, NEW q \in Pids,
         \/ Begin(p) \/ Refuse(p) \/ MakeUserFifo(p) \/ SendClose(p)
         \/ \E b \in BOOLEAN : SendOpen(p, b) \/ SendWrite(p, b)
         \/ Await(p) \/ ReadNothing(p) \/ Again(p)
  PROVE  /\ Drops(q) \/ Reads(q)
         /\ q # p => reads'[q] = reads[q] /\ came'[q] = came[q] /\ arrived'[q] = arrived[q]
<1> DEFINE Goal == /\ Drops(q) \/ Reads(q)
                   /\ q # p => /\ reads'[q] = reads[q] /\ came'[q] = came[q]
                               /\ arrived'[q] = arrived[q]
<1>1. CASE Begin(p) \/ SendClose(p)
  BY <1>1 DEF Begin, SendClose, ownVars, resultVars, Drops
<1>2. CASE Refuse(p) \/ MakeUserFifo(p)
  BY <1>2 DEF Refuse, MakeUserFifo, Exit, Shows, resultVars, Drops, SessionTypeOK
<1>3. ASSUME NEW b \in BOOLEAN, SendOpen(p, b) \/ SendWrite(p, b)
      PROVE  Goal
  BY <1>3 DEF SendOpen, SendWrite, Exit, Shows, ownVars, resultVars, Drops, SessionTypeOK
<1>4. CASE EnableTimeoutAlarm(p) \/ OpenOwn(p) \/ OpenedOwn(p)
  BY <1>4 DEF EnableTimeoutAlarm, OpenOwn, OpenOwnFails, OpenedOwn, ownVars, resultVars, Drops,
              SessionTypeOK
<1>5. CASE ReadReply(p)
  <2>1. CASE q = p
    BY <1>5, <2>1 DEF ReadReply, Reads, SessionTypeOK
  <2>2. CASE q # p
    BY <1>5, <2>2 DEF ReadReply, Drops, SessionTypeOK
  <2> QED
    BY <2>1, <2>2
<1>6. CASE ReadNothing(p) \/ LogReply(p) \/ OpenOwnFails(p)
  BY <1>6 DEF ReadNothing, LogReply, OpenOwnFails, Shows, ownVars, resultVars, Drops
<1>7. CASE DisableTimeoutAlarm(p) \/ AlarmRings(p)
  BY <1>7 DEF DisableTimeoutAlarm, AlarmRings, resultVars, Drops, SessionTypeOK
<1>8. CASE DeleteUserFifo(p)
  BY <1>8 DEF DeleteUserFifo, Exit, resultVars, Drops, SessionTypeOK
<1>9. CASE Again(p)
  <2>1. q # p => answer'[q] = answer[q] /\ past'[q] = past[q]
    BY <1>9, AgainKeepsOthers DEF Keeps
  <2>2. answer'[p] = <<>>
    BY <1>9 DEF Again, SessionTypeOK
  <2>3. reads' = reads /\ came' = came /\ arrived' = arrived
    BY <1>9 DEF Again, ownVars
  <2> QED
    BY <2>1, <2>2, <2>3 DEF Drops
<1> QED
  BY <1>1, <1>2, <1>3, <1>4, <1>5, <1>6, <1>7, <1>8, <1>9 DEF Await

(* The server puts one reply, which it owed, in one FIFO. *)
LEMMA ServerFifo ==
  ASSUME TalkTypeOK, ServerInv, Server, NEW q \in Pids
  PROVE  /\ Drops(q) \/ Gets(q)
         /\ reads'[q] = reads[q]
         /\ came'[q] = came[q] \/ Reachable(q)
<1>a. SessionTypeOK /\ ends \subseteq [tag : Tags, run : 1 .. MaxRuns, written : BOOLEAN]
  BY DEF TalkTypeOK
<1>1. ASSUME NEW tag \in due, ServerOpens(tag)
      PROVE  Drops(q) /\ reads'[q] = reads[q] /\ (came'[q] = came[q] \/ Reachable(q))
  <2>1. CASE UNCHANGED sessionVars
    BY <2>1 DEF sessionVars, ownVars, resultVars, Drops
  <2>2. CASE Reachable(tag[1]) /\ OpenedByServer(tag[1])
    BY <1>a, <2>2 DEF OpenedByServer, resultVars, Drops, SessionTypeOK
  <2> QED
    BY <1>1, <2>1, <2>2 DEF ServerOpens
<1>2. ASSUME NEW e \in ends, ServerWrites(e)
      PROVE  (Drops(q) \/ Gets(q)) /\ reads'[q] = reads[q] /\ came'[q] = came[q]
  <2>1. CASE UNCHANGED sessionVars
    BY <2>1 DEF sessionVars, ownVars, resultVars, Drops
  <2>2. CASE /\ WrittenByServer(e.tag[1], e.tag) /\ due' = due
             /\ ends' = (ends \ {e}) \union {[tag |-> e.tag, run |-> e.run, written |-> TRUE]}
    <3>1. e.tag \in Owed
      BY <1>2 DEF ServerWrites, Owed
    <3>2. e.tag \notin Owed'
      <4>1. [tag |-> e.tag, run |-> e.run, written |-> TRUE].written = TRUE
        BY <1>a
      <4>2. \A f \in ends' : f.tag = e.tag => f.written
        BY <2>2, <4>1 DEF ServerInv
      <4> QED
        BY <2>2, <4>2 DEF Owed, ServerInv
    <3>3. CASE e.tag[1] = q
      BY <1>a, <2>2, <3>1, <3>2, <3>3 DEF WrittenByServer, resultVars, Gets, SessionTypeOK
    <3>4. CASE e.tag[1] # q
      BY <1>a, <2>2, <3>4 DEF WrittenByServer, resultVars, Drops, SessionTypeOK
    <3> QED
      BY <2>2, <3>3, <3>4 DEF WrittenByServer
  <2> QED
    BY <1>2, <2>1, <2>2 DEF ServerWrites
<1>3. CASE UNCHANGED sessionVars
  BY <1>3 DEF sessionVars, ownVars, resultVars, Drops
<1> QED
  BY <1>1, <1>2, <1>3 DEF Server, ServerCloses, ServerDies

LEMMA FifoStep ==
  ASSUME TalkTypeOK, ServerInv, [TalkNext]_talkVars, NEW q \in Pids
  PROVE  Drops(q) \/ Reads(q) \/ Gets(q)
<1>1. ASSUME NEW p \in Pids, Acts(p) \/ Follow(p)
      PROVE  Drops(q) \/ Reads(q)
  BY <1>1, SessionFifo
     DEF Acts, Proceed, Follow, Start, Open, Write, MeetEnd, TalkTypeOK
<1>2. CASE Server
  BY <1>2, ServerFifo
<1>3. CASE UNCHANGED talkVars
  BY <1>3 DEF talkVars, sessionVars, ownVars, resultVars, Drops
<1> QED
  BY <1>1, <1>2, <1>3 DEF TalkNext, Acts

LEMMA RepliesOnceStep ==
  ASSUME TalkTypeOK, TalkInv, ServerInv, [TalkNext]_talkVars,
         NEW q \in Pids, RepliesOnce(q)
  PROVE  RepliesOnce(q)'
<1>a. /\ taken \subseteq taken' /\ Owed' \subseteq Owed \union (taken' \ taken)
      /\ Owed \subseteq taken
  BY TakenStep, OwedStep DEF Owed, ServerInv, TalkTypeOK
<1>b. arrived[q] \in Seq(Tags) /\ answer[q] \in Seq(Tags)
  BY DEF TalkTypeOK, SessionTypeOK
<1>1. CASE Drops(q)
  <2>1. Inbox(q)' \subseteq Inbox(q)
    BY <1>1 DEF Drops, Inbox
  <2> QED
    BY <1>a, <1>1, <2>1 DEF Drops, RepliesOnce
<1>2. CASE Reads(q)
  <2>1. /\ arrived[q] # <<>> /\ arrived'[q] = Tail(arrived[q])
        /\ answer'[q] = <<Head(arrived[q])>>
    BY <1>2 DEF Reads
  <2>2. /\ DOMAIN arrived'[q] = 1 .. Len(arrived[q]) - 1 /\ Len(arrived[q]) \in Nat \ {0}
        /\ \A i \in DOMAIN arrived'[q] : arrived'[q][i] = arrived[q][i + 1]
        /\ \A i \in DOMAIN arrived'[q] : i + 1 \in DOMAIN arrived[q] /\ i + 1 # 1 /\ i \in Int
        /\ 1 \in DOMAIN arrived[q] /\ Head(arrived[q]) = arrived[q][1]
    BY <1>b, <2>1
  <2>3. Inbox(q)' \subseteq Inbox(q) /\ arrived[q][1] \in Inbox(q) \ Inbox(q)'
    BY <2>2 DEF Inbox, RepliesOnce
  <2>4. \A i, j \in DOMAIN arrived'[q] : arrived'[q][i] = arrived'[q][j] => i = j
    BY <2>2 DEF RepliesOnce
  <2>5. \A i \in DOMAIN answer'[q] : answer'[q][i] = arrived[q][1]
    BY <2>1, <2>2
  <2> QED
    BY <1>a, <2>3, <2>4, <2>5 DEF RepliesOnce
<1>3. CASE Gets(q)
  <2>1. PICK t \in Owed \ Owed' :
          t[1] = q /\ arrived'[q] = Append(arrived[q], t) /\ answer'[q] = answer[q]
    BY <1>3 DEF Gets
  <2>2. /\ DOMAIN arrived'[q] = 1 .. Len(arrived[q]) + 1 /\ Len(arrived[q]) \in Nat
        /\ DOMAIN arrived[q] = 1 .. Len(arrived[q])
        /\ \A i \in DOMAIN arrived[q] : arrived'[q][i] = arrived[q][i]
        /\ arrived'[q][Len(arrived[q]) + 1] = t
    BY <1>b, <2>1
  <2>3. Inbox(q)' \subseteq Inbox(q) \union {t}
    BY <2>2 DEF Inbox
  <2>4. t \in taken /\ t \notin Inbox(q)
    BY <1>a, <2>1 DEF RepliesOnce
  <2>5. \A i, j \in DOMAIN arrived'[q] : arrived'[q][i] = arrived'[q][j] => i = j
    BY <2>2, <2>4 DEF RepliesOnce, Inbox
  <2>6. \A i \in DOMAIN answer[q] : answer[q][i] # t
    BY <2>1 DEF RepliesOnce
  <2> QED
    BY <1>a, <2>1, <2>3, <2>4, <2>5, <2>6 DEF RepliesOnce
<1> QED
  BY <1>1, <1>2, <1>3, FifoStep

(* The steps of the program itself that end in its being told nothing *)
LEMMA ProgramNoOther ==
  ASSUME TalkTypeOK, TalkInv, NEW p \in Pids, NoOther(p), Acts(p) \/ Follow(p)
  PROVE  NoOther(p)'
<1>a. SessionTypeOK /\ Control(p)
  BY DEF TalkTypeOK, TalkInv
<1>b. UNCHANGED <<up, ends>>
  BY ProgramServerSame, WriteIsNew DEF serverVars
<1>1. ASSUME step[p] \notin Reading, step'[p] \notin Reading,
             \/ reads'[p] = reads[p] /\ came'[p] = came[p] /\ arrived'[p] = arrived[p]
             \/ reads'[p] = FALSE /\ came'[p] = FALSE /\ arrived'[p] = <<>>,
             result'[p] = "OTHER" => result[p] = "OTHER"
      PROVE  NoOther(p)'
  BY <1>1, <1>b DEF NoOther, Reading
<1>2. CASE Begin(p) \/ SendClose(p)
  BY <1>a, <1>1, <1>2
     DEF Begin, SendClose, StepTo, From, To, ownVars, resultVars, Reading, SessionTypeOK
<1>3. CASE Refuse(p)
  BY <1>a, <1>1, <1>3 DEF Refuse, Exit, Shows, From, To, Reading, SessionTypeOK
<1>4. CASE MakeUserFifo(p)
  <2>1. step[p] = "make_fifo"
    BY <1>4 DEF MakeUserFifo, From
  <2>2. CASE own[p]
    <3>1. /\ step'[p] = "ended" /\ result'[p] = "no_fifo"
          /\ reads'[p] = FALSE /\ came'[p] = FALSE /\ arrived'[p] = <<>>
      BY <1>a, <1>4, <2>2 DEF MakeUserFifo, Exit, Shows, To, SessionTypeOK
    <3> QED
      BY <1>1, <2>1, <3>1 DEF Reading
  <2>3. CASE ~ own[p]
    <3>1. /\ step'[p] = "open" /\ result' = result
          /\ reads' = reads /\ came' = came /\ arrived' = arrived
      BY <1>a, <1>4, <2>3 DEF MakeUserFifo, To, resultVars, SessionTypeOK
    <3> QED
      BY <1>1, <2>1, <3>1 DEF Reading
  <2> QED
    BY <2>2, <2>3
<1>5. ASSUME NEW b \in BOOLEAN, SendOpen(p, b)
      PROVE  NoOther(p)'
  <2>1. step[p] = "open" /\ reads' = reads /\ came' = came /\ arrived' = arrived
    BY <1>5 DEF SendOpen, From, ownVars
  <2>2. CASE b
    <3>1. step'[p] = "write" /\ result' = result
      BY <1>a, <1>5, <2>2 DEF SendOpen, To, resultVars, SessionTypeOK
    <3> QED
      BY <1>1, <2>1, <3>1 DEF Reading
  <2>3. CASE ~ b
    <3>1. step'[p] = "log" /\ result'[p] = "SRV_DOWN"
      BY <1>a, <1>5, <2>3 DEF SendOpen, Shows, To, SessionTypeOK
    <3> QED
      BY <1>b, <2>1, <3>1 DEF NoOther, Reading
  <2> QED
    BY <2>2, <2>3
<1>6. ASSUME NEW b \in BOOLEAN, SendWrite(p, b)
      PROVE  NoOther(p)'
  <2>1. step[p] = "write"
    BY <1>6 DEF SendWrite, From
  <2>2. CASE b
    <3>1. /\ step'[p] = "close" /\ result' = result
          /\ reads' = reads /\ came' = came /\ arrived' = arrived
      BY <1>a, <1>6, <2>2 DEF SendWrite, To, resultVars, SessionTypeOK
    <3> QED
      BY <1>1, <2>1, <3>1 DEF Reading
  <2>3. CASE ~ b
    <3>1. /\ step'[p] = "ended" /\ result'[p] = "not_sent"
          /\ reads'[p] = FALSE /\ came'[p] = FALSE /\ arrived'[p] = <<>>
      BY <1>a, <1>6, <2>3 DEF SendWrite, Exit, Shows, To, SessionTypeOK
    <3> QED
      BY <1>1, <2>1, <3>1 DEF Reading
  <2> QED
    BY <2>2, <2>3
<1>7. CASE EnableTimeoutAlarm(p)
  BY <1>a, <1>1, <1>7
     DEF EnableTimeoutAlarm, StepTo, From, To, ownVars, resultVars, Reading, SessionTypeOK
<1>8. CASE OpenOwn(p)
  BY <1>a, <1>b, <1>8
     DEF OpenOwn, StepTo, From, To, resultVars, NoOther, Reading, SessionTypeOK
<1>8a. CASE OpenOwnFails(p)
  BY <1>a, <1>b, <1>8a
     DEF OpenOwnFails, Shows, StepTo, From, To, ownVars, NoOther, Reading, SessionTypeOK
<1>9. CASE OpenedOwn(p)
  BY <1>a, <1>b, <1>9
     DEF OpenedOwn, StepTo, From, To, ownVars, resultVars, NoOther, Reading, SessionTypeOK
<1>10. CASE ReadReply(p)
  BY <1>a, <1>b, <1>10 DEF ReadReply, StepTo, From, To, NoOther, Reading, SessionTypeOK
<1>11. CASE MeetEnd(p)
  <2>1. /\ \A e \in ends : ~ (e.tag[1] = p /\ e.run = Len(past[p]) + 1)
        /\ step[p] = "read" /\ step'[p] = "got" /\ arrived[p] = <<>>
    BY <1>a, <1>11 DEF MeetEnd, ReadNothing, StepTo, From, To, SessionTypeOK
  <2>2. ~ up
    BY <2>1 DEF NoOther
  <2> QED
    BY <1>b, <2>1, <2>2 DEF NoOther, Reading
<1>12. CASE DisableTimeoutAlarm(p)
  BY <1>a, <1>b, <1>12
     DEF DisableTimeoutAlarm, StepTo, From, To, resultVars, NoOther, Reading, SessionTypeOK
<1>13. CASE AlarmRings(p)
  BY <1>a, <1>b, <1>13 DEF AlarmRings, From, To, NoOther, Reading, SessionTypeOK
<1>14. CASE LogReply(p)
  BY <1>a, <1>b, <1>14
     DEF LogReply, StepTo, From, To, ownVars, resultVars, NoOther, Reading, SessionTypeOK
<1>15. CASE DeleteUserFifo(p)
  BY <1>a, <1>b, <1>15
     DEF DeleteUserFifo, Exit, From, To, resultVars, NoOther, Reading, SessionTypeOK
<1>16. CASE Follow(p)
  <2>1. /\ step[p] = "ended" /\ step'[p] = "start" /\ result'[p] = "none"
        /\ reads' = reads /\ came' = came /\ arrived' = arrived
    BY <1>a, <1>16 DEF Follow, Again, StepTo, From, To, ownVars, SessionTypeOK
  <2> QED
    BY <1>1, <2>1 DEF Reading
<1>17. CASE Acts(p)
  <2>1. \/ Begin(p) \/ SendClose(p) \/ Refuse(p) \/ MakeUserFifo(p)
        \/ \E b \in BOOLEAN : SendOpen(p, b) \/ SendWrite(p, b)
        \/ Await(p) \/ MeetEnd(p)
    BY <1>17 DEF Acts, Proceed, Start, Open, Write, TalkTypeOK
  <2> QED
    BY <2>1, <1>2, <1>3, <1>4, <1>5, <1>6, <1>7, <1>8, <1>8a, <1>9, <1>10, <1>11, <1>12, <1>13,
       <1>14, <1>15 DEF Await
<1> QED
  BY <1>16, <1>17

(* The FIFO of a program that the server opens, and one that it writes to *)
LEMMA ServerNoOther ==
  ASSUME TalkTypeOK, ServerInv, Server, NEW q \in Pids, NoOther(q)
  PROVE  NoOther(q)'
<1> DEFINE Mine(e) == ~ e.written /\ e.tag[1] = q /\ e.run = Len(past[q]) + 1
<1>a. /\ SessionTypeOK /\ Keeps(q)
      /\ ends \subseteq [tag : Tags, run : 1 .. MaxRuns, written : BOOLEAN]
  BY ServerKeepsAll DEF TalkTypeOK
<1>b. ASSUME /\ reads'[q] = reads[q] /\ up' \in {up, FALSE}
             /\ came[q] => came'[q]
             /\ came'[q] = came[q] \/ reads[q]
             /\ arrived'[q] = arrived[q] \/ reads[q],
             \/ ~ up'
             \/ /\ came'[q] = came[q] /\ arrived'[q] = arrived[q]
                /\ \A e \in ends : Mine(e) => e \in ends'
             \/ \E e \in ends' : Mine(e)
             \/ arrived'[q] # <<>>
      PROVE  NoOther(q)'
  <2>1. /\ step'[q] = step[q] /\ past'[q] = past[q] /\ result'[q] = result[q]
        /\ up \in BOOLEAN /\ came[q] \in BOOLEAN /\ reads[q] \in BOOLEAN
    BY <1>a DEF Keeps, SessionTypeOK, TalkTypeOK
  <2>2. reads'[q] \/ came'[q] \/ arrived'[q] # <<>> => step'[q] \in Reading
    BY <1>b, <2>1 DEF NoOther
  <2>a. step'[q] = "read" => came'[q]
    BY <1>b, <2>1 DEF NoOther
  <2>b. result'[q] = "OTHER" => ~ up'
    BY <1>b, <2>1 DEF NoOther
  <2>3. came'[q] /\ step'[q] \in {"opening", "read"} =>
          arrived'[q] # <<>> \/ ~ up' \/ \E e \in ends' : Mine(e)
    BY <1>b, <2>1 DEF NoOther
  <2> QED
    BY <2>1, <2>2, <2>3, <2>a, <2>b DEF NoOther
<1>1. ASSUME NEW tag \in due, ServerOpens(tag)
      PROVE  NoOther(q)'
  <2> DEFINE new == [tag |-> tag, run |-> Len(past[tag[1]]) + 1, written |-> FALSE]
  <2>1. CASE UNCHANGED sessionVars /\ ends' = ends
    BY <1>1, <1>b, <2>1 DEF ServerOpens, sessionVars, ownVars
  <2>2. CASE /\ Reachable(tag[1]) /\ OpenedByServer(tag[1])
             /\ ends' = ends \union {new}
    <3>1. UNCHANGED <<up, reads, arrived>>
      BY <1>1, <2>2 DEF ServerOpens, OpenedByServer
    <3>2. CASE tag[1] = q
      <4>1. came'[q] = TRUE /\ reads[q]
        BY <1>a, <2>2, <3>2 DEF OpenedByServer, Reachable, SessionTypeOK
      <4>2. new \in ends' /\ Mine(new)
        BY <2>2, <3>2
      <4> HIDE DEF new
      <4>3. \E e \in ends' : Mine(e)
        BY <4>2
      <4> QED
        BY <1>b, <3>1, <4>1, <4>3
    <3>3. CASE tag[1] # q
      <4>1. came'[q] = came[q]
        BY <1>a, <2>2, <3>3 DEF OpenedByServer, SessionTypeOK
      <4> QED
        BY <1>b, <2>2, <3>1, <4>1
    <3> QED
      BY <3>2, <3>3
  <2> QED
    BY <1>1, <2>1, <2>2 DEF ServerOpens
<1>2. ASSUME NEW e \in ends, ServerWrites(e)
      PROVE  NoOther(q)'
  <2>1. CASE UNCHANGED sessionVars /\ Gone
    BY <1>b, <2>1 DEF Gone, sessionVars, ownVars
  <2>2. CASE /\ WrittenByServer(e.tag[1], e.tag) /\ up' = up
             /\ ends' = (ends \ {e}) \union {[tag |-> e.tag, run |-> e.run, written |-> TRUE]}
    <3>1. UNCHANGED <<up, reads, came>>
      BY <2>2 DEF WrittenByServer
    <3>2. CASE e.tag[1] = q
      <4>1. arrived[q] \in Seq(Tags) /\ arrived'[q] = Append(arrived[q], e.tag) /\ reads[q]
        BY <1>a, <2>2, <3>2 DEF WrittenByServer, SessionTypeOK
      <4>2. arrived'[q] # <<>>
        BY <1>a, <4>1
      <4> QED
        BY <1>b, <3>1, <4>1, <4>2
    <3>3. CASE e.tag[1] # q
      <4>1. arrived'[q] = arrived[q]
        BY <1>a, <2>2, <3>3 DEF WrittenByServer, SessionTypeOK
      <4>2. \A f \in ends : Mine(f) => f \in ends'
        BY <2>2, <3>3
      <4> QED
        BY <1>b, <3>1, <4>1, <4>2
    <3> QED
      BY <3>2, <3>3
  <2> QED
    BY <1>2, <2>1, <2>2 DEF ServerWrites
<1>3. ASSUME NEW e \in ends, ServerCloses(e)
      PROVE  NoOther(q)'
  <2>1. UNCHANGED <<up, reads, came, arrived>> /\ \A f \in ends : Mine(f) => f \in ends'
    BY <1>3 DEF ServerCloses, sessionVars, ownVars
  <2> QED
    BY <1>b, <2>1
<1>4. CASE ServerDies
  BY <1>b, <1>4 DEF ServerDies, Gone, sessionVars, ownVars
<1> QED
  BY <1>1, <1>2, <1>3, <1>4 DEF Server

LEMMA OthersNoOther ==
  ASSUME TalkTypeOK, TalkInv, NEW p \in Pids, NEW q \in Pids \ {p}, NoOther(q),
         Acts(p) \/ Follow(p)
  PROVE  NoOther(q)'
<1>1. \/ \/ Begin(p) \/ Refuse(p) \/ MakeUserFifo(p) \/ SendClose(p)
         \/ \E b \in BOOLEAN : SendOpen(p, b) \/ SendWrite(p, b)
      \/ Await(p) \/ ReadNothing(p)
      \/ Again(p)
  BY DEF Acts, Proceed, Follow, Start, Open, Write, MeetEnd, TalkTypeOK
<1>2. Keeps(q) /\ reads'[q] = reads[q] /\ came'[q] = came[q] /\ arrived'[q] = arrived[q]
  BY <1>1, SendingKeepsOthers, AwaitKeepsOthers, AgainKeepsOthers, SessionFifo DEF TalkTypeOK
<1>3. UNCHANGED <<up, ends>>
  BY ProgramServerSame, WriteIsNew DEF serverVars
<1> QED
  BY <1>2, <1>3 DEF NoOther, Keeps

(* A reply that is on its way after a step was so before, unless its request *)
(* has just been taken.                                                      *)
LEMMA LiveStep ==
  ASSUME TalkTypeOK, TalkInv, ServerInv, [TalkNext]_talkVars, NEW q \in Pids,
         NEW t \in taken, t[1] = q, Live(t)'
  PROVE  Live(t)
<1>1. t \in Owed' => t \in Owed
  BY OwedStep
<1>2. arrived[q] \in Seq(Tags)
  BY DEF TalkTypeOK, SessionTypeOK
<1>3. Inbox(q)' \subseteq Inbox(q) \union Owed
  <2>1. CASE Drops(q)
    BY <2>1 DEF Drops, Inbox
  <2>2. CASE Reads(q)
    <3>1. \A i \in DOMAIN Tail(arrived[q]) :
            i + 1 \in DOMAIN arrived[q] /\ Tail(arrived[q])[i] = arrived[q][i + 1]
      BY <1>2, <2>2 DEF Reads
    <3> QED
      BY <2>2, <3>1 DEF Reads, Inbox
  <2>3. CASE Gets(q)
    BY <1>2, <2>3 DEF Gets, Inbox
  <2> QED
    BY <2>1, <2>2, <2>3, FifoStep
<1> QED
  BY <1>1, <1>3 DEF Live

LEMMA LateStep ==
  ASSUME TalkTypeOK, TalkInv, ReplyInv, [TalkNext]_talkVars, NEW q \in Pids,
         past'[q] = past[q]
  PROVE  LateOK(q)'
<1> SUFFICES ASSUME NEW t \in taken', t[1] = q, Live(t)', t[2] <= Len(past[q])
             PROVE  GaveUp(q, t[2])
  BY DEF LateOK, GaveUp
<1>1. t \in taken
  <2>1. SUFFICES ASSUME t \notin taken
                 PROVE  FALSE
    OBVIOUS
  <2>2. PICK p \in Pids : t = Tag(p)
    BY <2>1, TakenStep
  <2>3. p = q /\ t[2] = Len(past[q]) + 1 /\ Len(past[q]) \in Nat
    BY <2>2, TagFacts
  <2> QED
    BY <2>3
<1>2. Live(t)
  BY <1>1, LiveStep DEF ReplyInv
<1> QED
  BY <1>1, <1>2 DEF ReplyInv, LateOK

(* When a process ends with a reply to its request on its way, it or one    *)
(* before it has given up waiting.                                          *)
LEMMA AgainLate ==
  ASSUME TalkTypeOK, TalkInv, ReplyInv, NEW q \in Pids, Follow(q)
  PROVE  LateOK(q)'
<1>1. /\ UNCHANGED <<arrived, serverVars>> /\ step[q] = "ended"
      /\ past[q] \in Seq(Results) /\ result[q] \in Results
      /\ past'[q] = Append(past[q], result[q])
  BY DEF Follow, Again, StepTo, From, ownVars, TalkTypeOK, SessionTypeOK
<1>2. /\ Len(past[q]) \in Nat /\ DOMAIN past[q] = 1 .. Len(past[q])
      /\ DOMAIN past'[q] = 1 .. Len(past[q]) + 1 /\ Len(past'[q]) = Len(past[q]) + 1
      /\ past'[q][Len(past[q]) + 1] = result[q]
      /\ \A j \in DOMAIN past[q] : past'[q][j] = past[q][j]
  BY <1>1
<1>3. \A n : GaveUp(q, n) => GaveUp(q, n)'
  BY <1>2 DEF GaveUp
<1>4. SUFFICES ASSUME NEW t \in taken, t[1] = q, Live(t), t[2] <= Len(past[q]) + 1
               PROVE  GaveUp(q, t[2])'
  BY <1>1, <1>2 DEF LateOK, Live, Owed, Inbox, serverVars
<1>5. t = <<q, t[2]>> /\ t[2] \in 1 .. MaxRuns
  BY <1>4 DEF TalkTypeOK, Tags
<1>6. CASE t[2] <= Len(past[q])
  BY <1>3, <1>4, <1>6 DEF ReplyInv, LateOK
<1>7. CASE t[2] = Len(past[q]) + 1
  <2>1. t = Tag(q) /\ Tag(q) \in taken
    BY <1>4, <1>5, <1>7 DEF Tag
  <2>2. result[q] \in {"SRV_TIMEOUT", "USR_DOWN", "OTHER", "reply"}
    BY <1>1, <2>1 DEF TalkInv, TakenOK, Control, NeverSent, Results
  <2>3. CASE result[q] \in {"SRV_TIMEOUT", "USR_DOWN"}
    BY <1>2, <1>7, <2>3 DEF GaveUp
  <2>4. CASE result[q] = "OTHER"
    <3>1. arrived[q] = <<>> /\ due = {} /\ ends = {}
      BY <1>1, <2>4 DEF ReplyInv, ServerInv, NoOther, Reading
    <3> QED
      BY <1>4, <3>1 DEF Live, Owed, Inbox
  <2>5. CASE result[q] = "reply"
    <3>1. 1 \in DOMAIN answer[q]
      <4>1. answer[q] \in Seq(Tags) /\ Len(answer[q]) = 1
        BY <2>5 DEF TalkInv, Control, TalkTypeOK, SessionTypeOK
      <4> QED
        BY <4>1
    <3>2. answer[q][1] # t
      BY <1>4, <3>1 DEF ReplyInv, RepliesOnce, Live
    <3>3. GaveUp(q, answer[q][1][2])
      BY <2>1, <3>1, <3>2 DEF ReplyInv, Own
    <3>4. GaveUp(q, t[2])
      BY <1>2, <1>7, <3>3 DEF GaveUp
    <3> QED
      BY <1>3, <3>4
  <2> QED
    BY <2>2, <2>3, <2>4, <2>5
<1> QED
  BY <1>2, <1>4, <1>5, <1>6, <1>7

LEMMA OwnStep ==
  ASSUME TalkTypeOK, TalkInv, ReplyInv, [TalkNext]_talkVars, NEW q \in Pids
  PROVE  Own(q)'
<1>1. CASE answer'[q] = <<>>
  BY <1>1 DEF Own
<1>2. CASE answer'[q] = answer[q] /\ past'[q] = past[q]
  BY <1>2 DEF ReplyInv, Own, Tag, GaveUp
<1>3. CASE Reads(q)
  <2>1. /\ arrived[q] \in Seq(Tags) /\ arrived[q] # <<>>
        /\ answer'[q] = <<Head(arrived[q])>> /\ past'[q] = past[q]
    BY <1>3 DEF Reads, TalkTypeOK, SessionTypeOK
  <2> DEFINE t == Head(arrived[q])
  <2>2. t \in Inbox(q)
    BY <2>1 DEF Inbox
  <2>3. t \in taken /\ t[1] = q /\ Live(t)
    BY <2>2 DEF ReplyInv, RepliesOnce, Live
  <2>4. t = <<q, t[2]>> /\ t[2] \in 1 .. MaxRuns
    BY <2>3 DEF TalkTypeOK, Tags
  <2>5. t[2] <= Len(past[q]) + 1
    BY <2>3, <2>4 DEF TalkInv, TakenOK
  <2>6. t = Tag(q) \/ GaveUp(q, t[2])
    <3>1. CASE t[2] = Len(past[q]) + 1
      BY <2>4, <3>1 DEF Tag
    <3>2. CASE t[2] <= Len(past[q])
      BY <2>3, <3>2 DEF ReplyInv, LateOK
    <3> QED
      BY <2>4, <2>5, <3>1, <3>2, TagFacts
  <2>7. \A i \in DOMAIN answer'[q] : answer'[q][i] = t
    BY <2>1
  <2>8. Tag(q)' = Tag(q) /\ \A n : GaveUp(q, n)' <=> GaveUp(q, n)
    BY <2>1 DEF Tag, GaveUp
  <2> HIDE DEF t
  <2> QED
    BY <2>3, <2>6, <2>7, <2>8 DEF Own
<1> QED
  BY <1>1, <1>2, <1>3, FifoStep DEF Drops, Gets, ReplyInv

(* Every step keeps each reply on its way to the user that asked for it, and to *)
(* nobody else (bankoffice.c:369, user.c:182).                               *)
THEOREM ReplyInvStep ==
  ASSUME TalkTypeOK, TalkInv, ReplyInv, [TalkNext]_talkVars
  PROVE  ReplyInv'
<1>1. ServerInv'
  BY ServerInvStep DEF ReplyInv
<1>2. ASSUME NEW q \in Pids
      PROVE  RepliesOnce(q)'
  BY RepliesOnceStep DEF ReplyInv
<1>3. ASSUME NEW q \in Pids
      PROVE  NoOther(q)'
  <2>1. ASSUME NEW p \in Pids, Acts(p) \/ Follow(p)
        PROVE  NoOther(q)'
    BY <2>1, ProgramNoOther, OthersNoOther DEF ReplyInv
  <2>2. CASE Server
    BY <2>2, ServerNoOther DEF ReplyInv
  <2>3. CASE UNCHANGED talkVars
    BY <2>3 DEF talkVars, sessionVars, serverVars, ownVars, resultVars, ReplyInv, NoOther
  <2> QED
    BY <2>1, <2>2, <2>3 DEF TalkNext, Acts
<1>4. ASSUME NEW q \in Pids
      PROVE  LateOK(q)'
  <2>1. CASE Follow(q)
    BY <2>1, AgainLate
  <2>2. CASE ~ Follow(q)
    <3>1. past'[q] = past[q]
      <4>1. ASSUME NEW p \in Pids, Acts(p)
            PROVE  past'[q] = past[q]
        BY <4>1
           DEF Acts, Proceed, Start, Open, Write, MeetEnd, Begin, Refuse, MakeUserFifo,
               SendOpen, SendWrite, SendClose, Await, EnableTimeoutAlarm, OpenOwn, OpenOwnFails,
               OpenedOwn, ReadReply, ReadNothing, DisableTimeoutAlarm, AlarmRings, LogReply,
               DeleteUserFifo
      <4>2. ASSUME NEW p \in Pids \ {q}, Follow(p)
            PROVE  past'[q] = past[q]
        BY <4>2, AgainKeepsOthers DEF Follow, Keeps, TalkTypeOK
      <4>3. CASE Server
        BY <4>3, ServerKeepsAll DEF Keeps
      <4>4. CASE UNCHANGED talkVars
        BY <4>4 DEF talkVars, sessionVars
      <4> QED
        BY <2>2, <4>1, <4>2, <4>3, <4>4 DEF TalkNext, Acts
    <3> QED
      BY <3>1, LateStep
  <2> QED
    BY <2>1, <2>2
<1>5. ASSUME NEW q \in Pids
      PROVE  Own(q)'
  BY OwnStep
<1> QED
  BY <1>1, <1>2, <1>3, <1>4, <1>5 DEF ReplyInv

(* A user is shown the reply to its own request until a process with its    *)
(* pid has given up, whatever the server does (user.c:182, fifoMaker.c:42).   *)
THEOREM AnswersAreOwn == TalkSpec => []OwnAnswer
<1>1. TalkInit => ReplyInv
  BY ReplyInvInit
<1>2. TalkTypeOK /\ TalkInv /\ ReplyInv /\ [TalkNext]_talkVars => ReplyInv'
  BY ReplyInvStep
<1>3. ReplyInv => OwnAnswer
  BY DEF ReplyInv, Own, OwnAnswer
<1> QED
  BY <1>1, <1>2, <1>3, TalkIsRight, PTL DEF TalkSpec
=============================================================================
