---------------------------- MODULE Conversation ----------------------------
(***************************************************************************)
(* User programs (UserSession), one process after the other for each pid,  *)
(* and a server of which nothing is known but what its FIFOs show: it takes *)
(* requests or not, answers each request it has once, as late as it likes,  *)
(* and may die at any time.  UserProgram adds the arguments of the          *)
(* processes; HomeBanking has a server that keeps to this.                  *)
(***************************************************************************)
EXTENDS UserSession

VARIABLES
  up,      \* the server has not ended
  taken,   \* the tags of the requests the server has ever taken
  due,     \* those of them it has and has not replied to
  ends     \* the FIFOs the server has open: [tag, run, written], run being the
           \* number of the process whose FIFO it is

serverVars == <<up, taken, due, ends>>
talkVars == <<sessionVars, serverVars>>

TalkInit ==
  /\ SessionInit
  /\ up \in BOOLEAN /\ taken = {} /\ due = {} /\ ends = {}

-----------------------------------------------------------------------------
(* A program, from its request on *)

(* The FIFO of the server is there to be opened while the server reads it    *)
(* and lets users write to it; a server that is being shut down does not,    *)
(* and answers yet.                                                          *)
Open(p) == \E seen \in {FALSE, up} : SendOpen(p, seen) /\ UNCHANGED serverVars

Arrives(p, room) ==
  LET tags == IF room THEN {Tag(p)} ELSE {}
  IN  taken' = taken \union tags /\ due' = due \union tags

(* Mutant: a write that fails goes unnoticed. *)
WriteUnchecked(p) ==
  \E room \in {FALSE, up} : SendWrite(p, TRUE) /\ Arrives(p, room) /\ UNCHANGED <<up, ends>>

(* The server's FIFO may be full, or the server may have gone. *)
Write(p) ==
  \E room \in {FALSE, up} : SendWrite(p, room) /\ Arrives(p, room) /\ UNCHANGED <<up, ends>>

(* Nothing to read, and nobody left to write. *)
MeetEnd(p) ==
  /\ \A e \in ends : ~ (e.tag[1] = p /\ e.run = Len(past[p]) + 1)
  /\ ReadNothing(p)
  /\ UNCHANGED serverVars

Proceed(p) ==
  \/ MakeUserFifo(p) /\ UNCHANGED serverVars
  \/ Open(p) \/ Write(p)
  \/ SendClose(p) /\ UNCHANGED serverVars
  \/ Await(p) /\ UNCHANGED serverVars
  \/ MeetEnd(p)

(* Its arguments make a request, or not. *)
Start(p) == (Begin(p) \/ Refuse(p)) /\ UNCHANGED serverVars

Follow(p) == Again(p) /\ UNCHANGED serverVars

-----------------------------------------------------------------------------
(* The server, as sendReply shows it *)

Gone == up' = FALSE /\ due' = {} /\ ends' = {} /\ UNCHANGED taken

ServerOpens(tag) ==
  /\ tag \in due /\ due' = due \ {tag}
  /\ IF Reachable(tag[1])
     THEN /\ OpenedByServer(tag[1])
          /\ ends' = ends \union
               {[tag |-> tag, run |-> Len(past[tag[1]]) + 1, written |-> FALSE]}
     ELSE UNCHANGED <<sessionVars, ends>>
  /\ UNCHANGED <<up, taken>>

ServerWrites(e) ==
  /\ e \in ends /\ ~ e.written
  /\ IF reads[e.tag[1]] /\ e.run = Len(past[e.tag[1]]) + 1
     THEN /\ WrittenByServer(e.tag[1], e.tag)
          /\ ends' = (ends \ {e}) \union {[tag |-> e.tag, run |-> e.run, written |-> TRUE]}
          /\ UNCHANGED <<up, taken, due>>
     ELSE UNCHANGED sessionVars /\ Gone

ServerCloses(e) ==
  /\ e \in ends /\ e.written
  /\ ends' = ends \ {e}
  /\ UNCHANGED <<sessionVars, up, taken, due>>

ServerDies == up /\ Gone /\ UNCHANGED sessionVars

Server ==
  \/ \E tag \in due : ServerOpens(tag)
  \/ \E e \in ends : ServerWrites(e) \/ ServerCloses(e)
  \/ ServerDies

-----------------------------------------------------------------------------
TalkNext ==
  \/ \E p \in Pids : Start(p) \/ Proceed(p) \/ Follow(p)
  \/ Server

TalkSpec == TalkInit /\ [][TalkNext]_talkVars

-----------------------------------------------------------------------------
(* Properties *)

(* Every variable has its type. *)
TalkTypeOK ==
  /\ SessionTypeOK
  /\ up \in BOOLEAN /\ taken \subseteq Tags /\ due \subseteq taken
  /\ ends \subseteq [tag : Tags, run : 1 .. MaxRuns, written : BOOLEAN]

Phase(p) ==
  CASE step[p] = "start" -> "idle"
    [] step[p] = "ended" -> "over"
    [] OTHER -> "asking"

Promise ==
  INSTANCE Session WITH
    phase <- [p \in Pids |-> Phase(p)],
    sent <- {p \in Pids : Tag(p) \in taken},
    result <- [p \in Pids |-> IF step[p] = "ended" THEN result[p] ELSE "none"]
=============================================================================
