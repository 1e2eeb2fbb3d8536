------------------------- MODULE HashCoprocessProofs -------------------------
(***************************************************************************)
(* Proofs about HashCoprocess, for any offices, any number of calls and any *)
(* bound of processes.                                                      *)
(***************************************************************************)
EXTENDS HashCoprocess, FiniteSetTheorems, TLAPS

Sides == {"in_r", "in_w", "out_r", "out_w"}
Texts == Seq(Calls \union {ServerFifo})

(* How far a call has come *)
Stage(c) ==
  IF calls[c[1]] < c[2] THEN "future"
  ELSE IF calls[c[1]] = c[2] /\ at[c[1]] # "idle" THEN at[c[1]]
  ELSE "done"

Early == {"future", "pipe_in", "fork"}
Forked == {"close_in_r", "close_out_w", "write"}

(* The ends a call has open in the server at a stage *)
OpenAt(stage) ==
  CASE stage = "pipe_in" -> {"out_r", "out_w"}
    [] stage \in {"fork", "close_in_r"} -> Sides
    [] stage = "close_out_w" -> Sides \ {"in_r"}
    [] stage \in {"write", "close_in_w"} -> {"out_r", "in_w"}
    [] stage \in {"read", "close_out_r"} -> {"out_r"}
    [] OTHER -> {}

(* A child is that of its own pipes. *)
ChildOK(c) ==
  /\ child[c].state # "none" => child[c].pipes = c
  /\ Stage(c) \in Early => child[c].state = "none"

EndsOK(c) ==
  \A x \in Sides :
    <<c, x>> \in open <=>
      \/ x \in OpenAt(Stage(c))
      \/ Stage(c) = "done" /\ returned[c] = <<>> /\ x = "out_r"

(* There is no hash yet, but what a child that could not be sha256sum wrote. *)
NoHashYet(c) == output[c] = <<>> \/ (output[c] = <<Printed>> /\ child[c].state = "failed")

ReturnOK(c) ==
  \/ returned[c] \in {<<>>, <<c>>}
  \/ returned[c] = Printed /\ child[c].state = "failed"

(* The password is written, hashed and read once, and by nobody else. *)
DataOK(c) ==
  /\ Stage(c) \in Early => output[c] = <<>>
  /\ Stage(c) \in Early \union Forked => input[c] = <<>> /\ NoHashYet(c) /\ returned[c] = <<>>
  /\ Stage(c) = "close_in_w" => input[c] = <<c>> /\ NoHashYet(c) /\ returned[c] = <<>>
  /\ Stage(c) = "read" =>
       /\ returned[c] = <<>>
       /\ \/ input[c] = <<c>> /\ NoHashYet(c)
          \/ output[c] = <<<<c>>>> /\ child[c].state = "zombie"
  /\ Stage(c) = "close_out_r" => returned[c] # <<>>

NoProcessLeft == Cardinality(Processes) >= ProcessLimit

(* The password has a reader, or there is no child to read it. *)
ReaderOK(c) ==
  Stage(c) \in Forked =>
    \/ <<c, "in_r">> \in child[c].open
    \/ child[c].state = "none" /\ NoProcessLeft
    \/ ExecFails /\ child[c].state = "failed"

CallOK(c) ==
  /\ ReturnOK(c)
  /\ ChildOK(c)
  /\ ~ killed => EndsOK(c) /\ DataOK(c) /\ ReaderOK(c)

OfficeOK(o) == at[o] # "idle" => fds[o] = Call(o) /\ Call(o) \in Calls

HashInv ==
  /\ \A o \in Offices : OfficeOK(o)
  /\ \A c \in Calls : CallOK(c)
  /\ KilledOnlyWithoutChild

-----------------------------------------------------------------------------
(* At the start no office is in generateHash and nothing is open but the server's FIFO. *)
THEOREM HashTypesInit == HashInit => HashTypeOK
<1> SUFFICES ASSUME HashInit
             PROVE  HashTypeOK
  OBVIOUS
<1>1. NoChild \in [state : {"none", "forked", "hashing", "zombie", "failed"},
                   pipes : Calls \union {ServerFifo}, open : SUBSET Ends]
  BY DEF NoChild
<1>2. <<>> \in Seq(Calls) /\ <<>> \in Texts /\ <<>> \in Seq(Texts)
  BY DEF Texts
<1>3. FifoEnd \in Ends /\ MaxCalls \in Nat
  BY HashCoprocessAssumption DEF FifoEnd, Ends, ServerFifo, HashCoprocessAssumption
<1>4. child \in [Calls -> [state : {"none", "forked", "hashing", "zombie", "failed"},
                          pipes : Calls \union {ServerFifo}, open : SUBSET Ends]]
  <2> HIDE DEF NoChild
  <2> QED
    BY <1>1 DEF HashInit
<1>5. at \in [Offices -> Places] /\ calls \in [Offices -> 0 .. MaxCalls]
  BY <1>3 DEF HashInit, Places
<1>6. fds \in [Offices -> Calls \union {ServerFifo}] /\ \A o \in Offices : at[o] = "idle"
  BY DEF HashInit
<1> QED
  BY <1>2, <1>3, <1>4, <1>5, <1>6 DEF HashInit, HashTypeOK, Texts

(* No call has been made at the start: every call is still in the future.    *)
THEOREM HashInvInit == HashInit => HashInv
<1> SUFFICES ASSUME HashInit
             PROVE  HashInv
  OBVIOUS
<1>1. ASSUME NEW c \in Calls
      PROVE  CallOK(c)
  <2>1. Stage(c) = "future"
    BY DEF HashInit, Calls, Stage
  <2>2. child[c].state = "none" /\ input[c] = <<>> /\ output[c] = <<>> /\ returned[c] = <<>>
    BY DEF HashInit, NoChild
  <2>3. \A x \in Sides : <<c, x>> \notin open
    BY HashCoprocessAssumption
       DEF HashInit, HashCoprocessAssumption, Calls, FifoEnd, ServerFifo
  <2> QED
    BY <2>1, <2>2, <2>3
       DEF CallOK, ReturnOK, ChildOK, EndsOK, DataOK, NoHashYet, ReaderOK, OpenAt, Early, Forked
<1>2. \A o \in Offices : OfficeOK(o)
  BY DEF HashInit, OfficeOK
<1> QED
  BY <1>1, <1>2 DEF HashInit, HashInv, KilledOnlyWithoutChild

LEMMA CallsFinite == IsFiniteSet(Calls)
<1>1. IsFiniteSet(1 .. MaxCalls)
  BY HashCoprocessAssumption, FS_Interval DEF HashCoprocessAssumption
<1>2. IsFiniteSet(Offices)
  BY HashCoprocessAssumption DEF HashCoprocessAssumption
<1> QED
  BY <1>1, <1>2, FS_Product DEF Calls

(* No process is ever gone, and none that has ended runs again. *)
LEMMA ProcessesStay ==
  ASSUME HashTypeOK,
         \A c \in Calls : child[c].state # "none" => child'[c].state # "none",
         NoProcessLeft
  PROVE  NoProcessLeft'
<1>1. Processes \subseteq Processes' /\ Processes' \subseteq Calls
  BY DEF Processes
<1>2. IsFiniteSet(Processes) /\ IsFiniteSet(Processes')
  BY <1>1, CallsFinite, FS_Subset
<1>3. Cardinality(Processes) <= Cardinality(Processes')
  BY <1>1, <1>2, FS_Subset
<1>4. Cardinality(Processes) \in Nat /\ Cardinality(Processes') \in Nat /\ ProcessLimit \in Nat
  BY <1>2, FS_CardinalityType, HashCoprocessAssumption DEF HashCoprocessAssumption
<1> QED
  BY <1>3, <1>4 DEF NoProcessLeft

-----------------------------------------------------------------------------
(* Types *)

ChildType == [state : {"none", "forked", "hashing", "zombie", "failed"},
              pipes : Calls \union {ServerFifo}, open : SUBSET Ends]

LEMMA GoesTypes ==
  ASSUME HashTypeOK, NEW o \in Offices, NEW from \in Places, NEW to \in Places, Goes(o, from, to)
  PROVE  at' \in [Offices -> Places] /\ at'[o] = to /\ \A p \in Offices \ {o} : at'[p] = at[p]
  BY DEF Goes, HashTypeOK

LEMMA EndTypes ==
  ASSUME NEW c \in Calls, NEW x \in Sides
  PROVE  <<c, x>> \in Ends
  BY DEF Ends, Sides

(* A step that leaves an office in its call, or out of it *)
LEMMA StayTypes ==
  ASSUME HashTypeOK, NEW o \in Offices, NEW from \in Places \ {"idle"}, NEW to \in Places,
         Goes(o, from, to), fds' = fds
  PROVE  /\ at' \in [Offices -> Places]
         /\ \A p \in Offices : at'[p] # "idle" => fds'[p] \in Calls
         /\ fds[o] \in Calls
<1>1. at[o] = from
  BY DEF Goes
<1> QED
  BY <1>1, GoesTypes DEF HashTypeOK

LEMMA CloseEndTypes ==
  ASSUME HashTypeOK, NEW o \in Offices, NEW end, NEW from \in Places \ {"idle"}, NEW to \in Places,
         CloseEnd(o, end, from, to)
  PROVE  HashTypeOK'
<1>1. Goes(o, from, to) /\ fds' = fds /\ open' \subseteq open
  BY DEF CloseEnd
<1> QED
  BY <1>1, StayTypes DEF CloseEnd, pipeVars, HashTypeOK

LEMMA OfficeTypes ==
  ASSUME HashTypeOK, NEW o \in Offices, OfficeOK(o), Office(o)
  PROVE  HashTypeOK'
<1>1. CASE PipeOut(o)
  <2>1. /\ calls[o] \in 0 .. MaxCalls /\ calls[o] < MaxCalls /\ MaxCalls \in Nat
        /\ calls' = [calls EXCEPT ![o] = calls[o] + 1]
    BY <1>1, HashCoprocessAssumption DEF PipeOut, HashTypeOK, HashCoprocessAssumption
  <2>2. calls' \in [Offices -> 0 .. MaxCalls] /\ calls'[o] \in 1 .. MaxCalls
    BY <2>1 DEF HashTypeOK
  <2>3. <<o, calls'[o]>> \in Calls
    BY <2>2 DEF Calls
  <2>4. /\ fds' \in [Offices -> Calls \union {ServerFifo}]
        /\ fds'[o] \in Calls /\ \A p \in Offices \ {o} : fds'[p] = fds[p]
    <3>1. fds' = [fds EXCEPT ![o] = <<o, calls'[o]>>]
      BY <1>1 DEF PipeOut
    <3>2. fds \in [Offices -> Calls \union {ServerFifo}]
      BY DEF HashTypeOK
    <3> DEFINE c == <<o, calls'[o]>>
    <3> HIDE DEF c
    <3>3. c \in Calls /\ fds' = [fds EXCEPT ![o] = c]
      BY <2>3, <3>1 DEF c
    <3> QED
      BY <3>2, <3>3
  <2>5. open' \subseteq Ends
    <3>1. open' = open \union {<<fds'[o], "out_r">>, <<fds'[o], "out_w">>}
      BY <1>1 DEF PipeOut
    <3>2. <<fds'[o], "out_r">> \in Ends /\ <<fds'[o], "out_w">> \in Ends
      BY <2>4, EndTypes DEF Sides
    <3>3. open \subseteq Ends
      BY DEF HashTypeOK
    <3> QED
      BY <3>1, <3>2, <3>3
  <2>6. Goes(o, "idle", "pipe_in")
    BY <1>1 DEF PipeOut
  <2>7. /\ at' \in [Offices -> Places]
        /\ \A p \in Offices : at'[p] # "idle" => fds'[p] \in Calls
    BY <2>4, <2>6, GoesTypes DEF Places, HashTypeOK
  <2> QED
    BY <1>1, <2>2, <2>4, <2>5, <2>7 DEF PipeOut, pipeVars, HashTypeOK
<1>2. CASE PipeIn(o)
  <2>1. Goes(o, "pipe_in", "fork") /\ fds' = fds
    BY <1>2 DEF PipeIn
  <2>2. open' \subseteq Ends
    BY <1>2, <2>1, StayTypes, EndTypes DEF PipeIn, Places, Sides, HashTypeOK
  <2> QED
    BY <1>2, <2>1, <2>2, StayTypes DEF PipeIn, Places, pipeVars, HashTypeOK
<1>3. CASE Fork(o)
  <2>1. Goes(o, "fork", "close_in_r") /\ fds' = fds
    BY <1>3 DEF Fork
  <2>2. [state |-> "forked", pipes |-> fds[o], open |-> open] \in ChildType
    BY DEF HashTypeOK, ChildType
  <2>3. child' \in [Calls -> ChildType]
    BY <1>3, <2>2 DEF Fork, HashTypeOK, ChildType
  <2> QED
    BY <1>3, <2>1, <2>3, StayTypes DEF Fork, Places, pipeVars, HashTypeOK, ChildType
<1>4. CASE CloseInR(o) \/ CloseOutW(o) \/ CloseInW(o) \/ CloseOutR(o)
  BY <1>4, CloseEndTypes DEF CloseInR, CloseOutW, CloseInW, CloseOutR, Places
<1>5. CASE WritePassword(o)
  <2>1. Goes(o, "write", "close_in_w") /\ fds' = fds
    BY <1>5 DEF WritePassword
  <2>2. fds[o] \in Calls /\ input[fds[o]] \in Seq(Calls)
    BY <2>1, StayTypes DEF Places, HashTypeOK
  <2>3. Call(o) \in Calls
    BY <2>1 DEF OfficeOK, Goes
  <2>4. input' \in [Calls -> Seq(Calls)]
    <3>1. Append(input[fds[o]], Call(o)) \in Seq(Calls)
      BY <2>2, <2>3
    <3> QED
      BY <1>5, <3>1 DEF WritePassword, HashTypeOK
  <2> QED
    BY <1>5, <2>1, <2>4, StayTypes DEF WritePassword, Places, HashTypeOK
<1>6. CASE BreakPipe(o)
  BY <1>6 DEF BreakPipe, pipeVars, HashTypeOK
<1>7. CASE ReadHash(o)
  <2>1. Goes(o, "read", "close_out_r") /\ fds' = fds
    BY <1>7 DEF ReadHash
  <2>2. fds[o] \in Calls /\ output[fds[o]] \in Seq(Texts) /\ output[fds[o]] # <<>>
    BY <1>7, <2>1, StayTypes DEF ReadHash, Places, HashTypeOK, Texts
  <2>3. Tail(output[fds[o]]) \in Seq(Texts) /\ Head(output[fds[o]]) \in Texts
    BY <2>2
  <2>4. output' \in [Calls -> Seq(Texts)] /\ returned' \in [Calls -> Texts]
    BY <1>7, <2>3 DEF ReadHash, HashTypeOK, Texts
  <2> QED
    BY <1>7, <2>1, <2>4, StayTypes DEF ReadHash, Places, HashTypeOK, Texts
<1>8. CASE ReadNothing(o)
  <2>1. Goes(o, "read", "idle") /\ fds' = fds
    BY <1>8 DEF ReadNothing
  <2> QED
    BY <1>8, <2>1, StayTypes DEF ReadNothing, Places, pipeVars, HashTypeOK
<1> QED
  BY <1>1, <1>2, <1>3, <1>4, <1>5, <1>6, <1>7, <1>8 DEF Office

LEMMA BecomesTypes ==
  ASSUME HashTypeOK, NEW c \in Calls,
         NEW state \in {"none", "forked", "hashing", "zombie", "failed"},
         NEW ends \in SUBSET Ends, Becomes(c, state, ends)
  PROVE  /\ child' \in [Calls -> ChildType]
         /\ child'[c].state = state /\ child'[c].open = ends /\ child'[c].pipes = child[c].pipes
         /\ \A d \in Calls \ {c} : child'[d] = child[d]
  BY DEF Becomes, HashTypeOK, ChildType

LEMMA ChildTypes ==
  ASSUME HashTypeOK, NEW c \in Calls, ChildOK(c), Child(c)
  PROVE  HashTypeOK'
<1>a. child[c] \in ChildType
  BY DEF HashTypeOK, ChildType
<1>1. CASE Exec(c)
  <2>1. child' \in [Calls -> ChildType]
    <3>1. child[c].open \subseteq Ends
      BY <1>a DEF ChildType
    <3>2. CASE RunSha256sum(c)
      BY <3>1, <3>2, BecomesTypes DEF RunSha256sum
    <3>3. CASE GiveUp(c)
      BY <3>3, BecomesTypes DEF GiveUp
    <3> QED
      BY <1>1, <3>2, <3>3 DEF Exec
  <2>2. output' \in [Calls -> Seq(Texts)]
    <3>1. output \in [Calls -> Seq(Texts)]
      BY DEF HashTypeOK, Texts
    <3>2. Printed \in Texts
      BY DEF Printed, Texts
    <3>3. child[c].pipes = c
      BY <1>1 DEF Exec, ChildOK
    <3>4. Append(output[c], Printed) \in Seq(Texts)
      BY <3>1, <3>2
    <3>5. output' = output \/ output' = [output EXCEPT ![c] = Append(output[c], Printed)]
      BY <1>1, <3>3 DEF Exec, RunSha256sum, GiveUp
    <3> QED
      BY <3>1, <3>4, <3>5
  <2> QED
    BY <1>1, <2>1, <2>2 DEF Exec, HashTypeOK, ChildType, Texts
<1>2. CASE Hash(c)
  <2>1. child[c].state = "hashing" /\ child[c].pipes = c
    BY <1>2 DEF Hash, ChildOK
  <2>2. child' \in [Calls -> ChildType]
    BY <1>2, BecomesTypes DEF Hash
  <2>3. /\ input[c] \in Seq(Calls) /\ input[c] \in Texts /\ <<>> \in Seq(Calls)
        /\ output[c] \in Seq(Texts)
    <3>1. input[c] \in Seq(Calls)
      BY DEF HashTypeOK
    <3> QED
      BY <3>1 DEF HashTypeOK, Texts
  <2>4. Append(output[c], input[c]) \in Seq(Texts)
    BY <2>3
  <2>5. /\ output' = [output EXCEPT ![c] = Append(output[c], input[c])]
        /\ input' = [input EXCEPT ![c] = <<>>]
    BY <1>2, <2>1 DEF Hash
  <2>6. output' \in [Calls -> Seq(Texts)] /\ input' \in [Calls -> Seq(Calls)]
    BY <2>3, <2>4, <2>5 DEF HashTypeOK, Texts
  <2> QED
    BY <1>2, <2>2, <2>6 DEF Hash, HashTypeOK, ChildType, Texts
<1> QED
  BY <1>1, <1>2 DEF Child

(* Every step keeps the types, an office in a call having pipes (accounts.c:66). *)
THEOREM HashTypesStep ==
  ASSUME HashTypeOK, HashInv, [HashNext]_hashVars
  PROVE  HashTypeOK'
<1>1. ASSUME NEW o \in Offices, Office(o)
      PROVE  HashTypeOK'
  BY <1>1, OfficeTypes DEF HashInv
<1>2. ASSUME NEW c \in Calls, Child(c)
      PROVE  HashTypeOK'
  BY <1>2, ChildTypes DEF HashInv, CallOK
<1>3. CASE CloseServerFifo
  BY <1>3 DEF CloseServerFifo, pipeVars, HashTypeOK
<1>4. CASE UNCHANGED hashVars
  BY <1>4 DEF hashVars, pipeVars, HashTypeOK
<1> QED
  BY <1>1, <1>2, <1>3, <1>4 DEF HashNext

-----------------------------------------------------------------------------
(* The call of an office in one, and the calls a step does not touch *)

LEMMA CallStage ==
  ASSUME HashTypeOK, NEW o \in Offices, OfficeOK(o), at[o] # "idle"
  PROVE  /\ Call(o) \in Calls /\ fds[o] = Call(o) /\ Call(o)[1] = o /\ Call(o)[2] = calls[o]
         /\ Stage(Call(o)) = at[o]
<1>1. Call(o) \in Calls /\ fds[o] = Call(o) /\ calls[o] \in 0 .. MaxCalls
  BY DEF OfficeOK, HashTypeOK
<1>2. calls[o] \in Int
  BY <1>1, HashCoprocessAssumption DEF HashCoprocessAssumption
<1> QED
  BY <1>1, <1>2 DEF Call, Stage

(* A call stays at its stage unless its own office moves. *)
LEMMA OtherStage ==
  ASSUME HashTypeOK, NEW o \in Offices, calls' = calls,
         \A p \in Offices \ {o} : at'[p] = at[p],
         NEW c \in Calls, c[1] # o \/ (c # Call(o))
  PROVE  Stage(c)' = Stage(c)
<1>1. c = <<c[1], c[2]>> /\ c[1] \in Offices
  BY DEF Calls
<1>2. CASE c[1] # o
  BY <1>1, <1>2 DEF Stage
<1>3. CASE c[1] = o
  BY <1>1, <1>3 DEF Stage, Call
<1> QED
  BY <1>2, <1>3

Untouched(c) ==
  /\ Stage(c)' = Stage(c) /\ child'[c] = child[c]
  /\ input'[c] = input[c] /\ output'[c] = output[c] /\ returned'[c] = returned[c]
  /\ \A x \in Sides : <<c, x>> \in open' <=> <<c, x>> \in open

LEMMA UntouchedOK ==
  ASSUME NEW c \in Calls, CallOK(c), Untouched(c), killed' = killed \/ killed',
         NoProcessLeft => NoProcessLeft'
  PROVE  CallOK(c)'
<1>1. ChildOK(c)'
  BY DEF CallOK, ChildOK, Untouched
<1>2. EndsOK(c) => EndsOK(c)'
  BY DEF EndsOK, Untouched
<1>3. DataOK(c) => DataOK(c)'
  BY DEF NoHashYet, DataOK, Untouched
<1>4. ReaderOK(c) => ReaderOK(c)'
  BY DEF ReaderOK, Untouched
<1> QED
  BY <1>1, <1>2, <1>3, <1>4 DEF CallOK, ReturnOK, Untouched

(* A step of an office in a call touches no other call. *)
LEMMA OfficeMoves ==
  ASSUME HashTypeOK, HashInv, NEW o \in Offices, NEW c, c = Call(o),
         NEW from \in Places \ {"idle"}, NEW to \in Places,
         Goes(o, from, to), calls' = calls, fds' = fds, killed' = killed,
         NoProcessLeft => NoProcessLeft',
         \A d \in Calls \ {c} :
           /\ child'[d] = child[d] /\ input'[d] = input[d]
           /\ output'[d] = output[d] /\ returned'[d] = returned[d]
           /\ \A x \in Sides : <<d, x>> \in open' <=> <<d, x>> \in open
  PROVE  /\ c \in Calls /\ fds[o] = c /\ ~ killed /\ ~ killed'
         /\ Stage(c) = from
         /\ Stage(c)' = IF to = "idle" THEN "done" ELSE to
         /\ CallOK(c) /\ EndsOK(c) /\ DataOK(c) /\ ReaderOK(c)
         /\ \A d \in Calls \ {c} : CallOK(d)'
         /\ \A p \in Offices : OfficeOK(p)'
<1>1. at[o] = from /\ ~ killed /\ at[o] # "idle"
  BY DEF Goes
<1>2. at'[o] = to /\ \A p \in Offices \ {o} : at'[p] = at[p]
  BY GoesTypes
<1>3. OfficeOK(o)
  BY DEF HashInv
<1>4. /\ c \in Calls /\ fds[o] = c /\ c[1] = o /\ c[2] = calls[o]
      /\ Stage(c) = from
  BY <1>1, <1>3, CallStage
<1>5. Stage(c)' = IF to = "idle" THEN "done" ELSE to
  <2>1. calls[o] \in Int
    BY HashCoprocessAssumption DEF HashTypeOK, HashCoprocessAssumption
  <2> QED
    BY <1>2, <1>4, <2>1 DEF Stage
<1>6. CallOK(c) /\ EndsOK(c) /\ DataOK(c) /\ ReaderOK(c)
  BY <1>1, <1>4 DEF HashInv, CallOK
<1>7. ASSUME NEW d \in Calls \ {c}
      PROVE  CallOK(d)'
  <2>1. Untouched(d)
    BY <1>2, OtherStage DEF Untouched
  <2> QED
    BY <2>1, UntouchedOK DEF HashInv
<1>8. ASSUME NEW p \in Offices
      PROVE  OfficeOK(p)'
  BY <1>1, <1>2 DEF HashInv, OfficeOK, Call
<1> QED
  BY <1>1, <1>4, <1>5, <1>6, <1>7, <1>8

LEMMA CloseEndOK ==
  ASSUME HashTypeOK, HashInv, NEW o \in Offices, NEW x \in Sides,
         NEW from \in Places \ {"idle"}, NEW to \in Places, CloseEnd(o, x, from, to),
         OpenAt(IF to = "idle" THEN "done" ELSE to) = OpenAt(from) \ {x},
         to \in Forked => from \in Forked,
         to \notin {"pipe_in", "fork", "close_in_w", "close_out_r"},
         to = "read" => from = "close_in_w",
         to = "idle" => from = "close_out_r"
  PROVE  (\A c \in Calls : CallOK(c)') /\ \A p \in Offices : OfficeOK(p)'
<1>a. PICK c : c = Call(o)
  OBVIOUS
<1>1. /\ Goes(o, from, to) /\ calls' = calls /\ fds' = fds /\ killed' = killed
      /\ child' = child /\ input' = input /\ output' = output /\ returned' = returned
      /\ open' = open \ {<<fds[o], x>>} /\ fds[o] = c
  BY <1>a, CallStage DEF CloseEnd, pipeVars, HashInv, Goes
<1>2. NoProcessLeft => NoProcessLeft'
  BY <1>1 DEF NoProcessLeft, Processes
<1>3. /\ c \in Calls /\ ~ killed'
      /\ Stage(c) = from /\ Stage(c)' = IF to = "idle" THEN "done" ELSE to
      /\ CallOK(c) /\ EndsOK(c) /\ DataOK(c) /\ ReaderOK(c)
      /\ \A d \in Calls \ {c} : CallOK(d)'
      /\ \A p \in Offices : OfficeOK(p)'
  <2>1. \A d \in Calls \ {c} : \A y \in Sides : <<d, y>> \in open' <=> <<d, y>> \in open
    BY <1>1
  <2> QED
    BY <1>a, <1>1, <1>2, <2>1, OfficeMoves
<1>4. ChildOK(c)'
  BY <1>1, <1>3 DEF CallOK, ChildOK, Early, Places
<1>5. EndsOK(c)'
  <2>1. from = "done" => FALSE
    BY DEF Places
  <2>2. to = "idle" => returned'[c] # <<>>
    BY <1>1, <1>3 DEF NoHashYet, DataOK
  <2>3. to = "done" => FALSE
    BY DEF Places
  <2> QED
    BY <1>1, <1>3, <2>1, <2>2, <2>3 DEF EndsOK
<1>6. DataOK(c)'
  BY <1>1, <1>3 DEF NoHashYet, DataOK, Early, Forked, Places
<1>7. ReaderOK(c)'
  BY <1>1, <1>2, <1>3 DEF ReaderOK, Forked
<1> QED
  BY <1>1, <1>3, <1>4, <1>5, <1>6, <1>7 DEF CallOK, ReturnOK

(* A step of an office in generateHash keeps what is known of every call, of *)
(* its own and of the others' (accounts.c:66-120).                           *)
THEOREM OfficeInv ==
  ASSUME HashTypeOK, HashInv, NEW o \in Offices, Office(o)
  PROVE  (\A c \in Calls : CallOK(c)') /\ \A p \in Offices : OfficeOK(p)'
<1> DEFINE Goal == (\A c \in Calls : CallOK(c)') /\ \A p \in Offices : OfficeOK(p)'
<1>1. CASE CloseInR(o)
  <2>1. OpenAt("close_out_w") = OpenAt("close_in_r") \ {"in_r"}
    BY DEF OpenAt
  <2> QED
    BY <1>1, <2>1, CloseEndOK DEF CloseInR, Places, Sides, Forked
<1>2. CASE CloseOutW(o)
  <2>1. OpenAt("write") = OpenAt("close_out_w") \ {"out_w"}
    BY DEF OpenAt, Sides
  <2> QED
    BY <1>2, <2>1, CloseEndOK DEF CloseOutW, Places, Sides, Forked
<1>3. CASE CloseInW(o)
  <2>1. OpenAt("read") = OpenAt("close_in_w") \ {"in_w"}
    BY DEF OpenAt
  <2> QED
    BY <1>3, <2>1, CloseEndOK DEF CloseInW, Places, Sides, Forked
<1>4. CASE CloseOutR(o)
  <2>1. OpenAt("done") = OpenAt("close_out_r") \ {"out_r"}
    BY DEF OpenAt
  <2> QED
    BY <1>4, <2>1, CloseEndOK DEF CloseOutR, Places, Sides, Forked
<1>5. CASE PipeIn(o)
  <2>1. PICK c : c = Call(o)
    OBVIOUS
  <2>2. /\ Goes(o, "pipe_in", "fork") /\ calls' = calls /\ fds' = fds /\ killed' = killed
        /\ child' = child /\ input' = input /\ output' = output /\ returned' = returned
        /\ open' = open \union {<<c, "in_r">>, <<c, "in_w">>}
    BY <1>5, <2>1, CallStage DEF PipeIn, pipeVars, HashInv, Goes
  <2>3. \A d \in Calls \ {c} : \A y \in Sides : <<d, y>> \in open' <=> <<d, y>> \in open
    BY <2>2
  <2>4. NoProcessLeft => NoProcessLeft'
    BY <2>2 DEF NoProcessLeft, Processes
  <2>5. /\ c \in Calls /\ Stage(c) = "pipe_in" /\ Stage(c)' = "fork"
        /\ CallOK(c) /\ EndsOK(c) /\ DataOK(c)
        /\ \A d \in Calls \ {c} : CallOK(d)'
        /\ \A p \in Offices : OfficeOK(p)'
    BY <2>1, <2>2, <2>3, <2>4, OfficeMoves DEF Places
  <2>6. EndsOK(c)'
    BY <2>2, <2>5 DEF EndsOK, OpenAt, Sides
  <2>7. ChildOK(c)' /\ DataOK(c)' /\ ReaderOK(c)'
    BY <2>2, <2>5 DEF CallOK, ChildOK, DataOK, NoHashYet, ReaderOK, Early, Forked
  <2> QED
    BY <2>2, <2>5, <2>6, <2>7 DEF CallOK, ReturnOK, DataOK, Early
<1>6. CASE Fork(o)
  <2>1. PICK c : c = Call(o)
    OBVIOUS
  <2>2. /\ Goes(o, "fork", "close_in_r") /\ calls' = calls /\ fds' = fds /\ killed' = killed
        /\ open' = open /\ input' = input /\ output' = output /\ returned' = returned
        /\ c \in Calls /\ fds[o] = c
        /\ child' = IF Cardinality(Processes) < ProcessLimit
                    THEN [child EXCEPT ![c] = [state |-> "forked", pipes |-> c, open |-> open]]
                    ELSE child
    BY <1>6, <2>1, CallStage DEF Fork, pipeVars, HashInv, Goes
  <2>3. \A d \in Calls \ {c} : child'[d] = child[d]
    BY <2>2 DEF HashTypeOK
  <2>4. NoProcessLeft => NoProcessLeft'
    <3>1. ASSUME NEW d \in Calls, child[d].state # "none"
          PROVE  child'[d].state # "none"
      BY <2>2, <2>3, <3>1 DEF HashTypeOK
    <3> QED
      BY <3>1, ProcessesStay
  <2>5. /\ Stage(c) = "fork" /\ Stage(c)' = "close_in_r"
        /\ CallOK(c) /\ EndsOK(c) /\ DataOK(c)
        /\ \A d \in Calls \ {c} : CallOK(d)'
        /\ \A p \in Offices : OfficeOK(p)'
    BY <2>1, <2>2, <2>3, <2>4, OfficeMoves DEF Places
  <2>6. EndsOK(c)' /\ DataOK(c)'
    BY <2>2, <2>5 DEF EndsOK, DataOK, NoHashYet, OpenAt, Early, Forked
  <2>7. ChildOK(c)' /\ ReaderOK(c)'
    <3>1. CASE Cardinality(Processes) < ProcessLimit
      <4>1. child'[c] = [state |-> "forked", pipes |-> c, open |-> open]
        BY <2>2, <3>1 DEF HashTypeOK
      <4>2. <<c, "in_r">> \in open
        BY <2>5 DEF EndsOK, OpenAt, Sides
      <4> QED
        BY <2>5, <4>1, <4>2 DEF ChildOK, ReaderOK, Early
    <3>2. CASE ~ (Cardinality(Processes) < ProcessLimit)
      <4>1. NoProcessLeft
        <5>1. Cardinality(Processes) \in Nat
          BY CallsFinite, FS_Subset, FS_CardinalityType DEF Processes
        <5> QED
          BY <3>2, <5>1, HashCoprocessAssumption DEF NoProcessLeft, HashCoprocessAssumption
      <4> QED
        BY <2>2, <2>4, <2>5, <3>2, <4>1 DEF CallOK, ChildOK, ReaderOK, Early
    <3> QED
      BY <3>1, <3>2
  <2>8. CallOK(c)'
    <3>1. returned'[c] = <<>>
      BY <2>2, <2>5 DEF DataOK, Early
    <3> QED
      BY <2>6, <2>7, <3>1 DEF CallOK, ReturnOK
  <2> QED
    BY <2>2, <2>5, <2>8
<1>7. CASE WritePassword(o)
  <2>1. PICK c : c = Call(o)
    OBVIOUS
  <2>2. /\ Goes(o, "write", "close_in_w") /\ calls' = calls /\ fds' = fds /\ killed' = killed
        /\ open' = open /\ child' = child /\ output' = output /\ returned' = returned
        /\ c \in Calls /\ fds[o] = c
        /\ input' = [input EXCEPT ![c] = Append(input[c], c)]
    BY <1>7, <2>1, CallStage DEF WritePassword, HashInv, Goes
  <2>3. \A d \in Calls \ {c} : input'[d] = input[d]
    BY <2>2 DEF HashTypeOK
  <2>4. NoProcessLeft => NoProcessLeft'
    BY <2>2 DEF NoProcessLeft, Processes
  <2>5. /\ Stage(c) = "write" /\ Stage(c)' = "close_in_w"
        /\ CallOK(c) /\ EndsOK(c) /\ DataOK(c)
        /\ \A d \in Calls \ {c} : CallOK(d)'
        /\ \A p \in Offices : OfficeOK(p)'
    BY <2>1, <2>2, <2>3, <2>4, OfficeMoves DEF Places
  <2>6. input'[c] = <<c>>
    <3>1. input[c] = <<>>
      BY <2>5 DEF NoHashYet, DataOK, Forked
    <3> QED
      BY <2>2, <3>1 DEF HashTypeOK
  <2>7. EndsOK(c)' /\ ChildOK(c)' /\ DataOK(c)' /\ ReaderOK(c)'
    BY <2>2, <2>5, <2>6
       DEF CallOK, EndsOK, ChildOK, DataOK, NoHashYet, ReaderOK, OpenAt, Early, Forked
  <2> QED
    BY <2>2, <2>5, <2>7 DEF CallOK, ReturnOK
<1>8. CASE ReadHash(o)
  <2>1. PICK c : c = Call(o)
    OBVIOUS
  <2>2. /\ Goes(o, "read", "close_out_r") /\ calls' = calls /\ fds' = fds /\ killed' = killed
        /\ open' = open /\ child' = child /\ input' = input
        /\ c \in Calls /\ fds[o] = c /\ output[c] # <<>>
        /\ output' = [output EXCEPT ![c] = Tail(output[c])]
        /\ returned' = [returned EXCEPT ![c] = Head(output[c])]
    BY <1>8, <2>1, CallStage DEF ReadHash, HashInv, Goes
  <2>3. \A d \in Calls \ {c} : output'[d] = output[d] /\ returned'[d] = returned[d]
    BY <2>2 DEF HashTypeOK
  <2>4. NoProcessLeft => NoProcessLeft'
    BY <2>2 DEF NoProcessLeft, Processes
  <2>5. /\ Stage(c) = "read" /\ Stage(c)' = "close_out_r"
        /\ CallOK(c) /\ EndsOK(c) /\ DataOK(c)
        /\ \A d \in Calls \ {c} : CallOK(d)'
        /\ \A p \in Offices : OfficeOK(p)'
    BY <2>1, <2>2, <2>3, <2>4, OfficeMoves DEF Places
  <2>6. returned'[c] = <<c>> \/ (returned'[c] = Printed /\ child'[c].state = "failed")
    <3>1. \/ output[c] = <<<<c>>>>
          \/ output[c] = <<Printed>> /\ child[c].state = "failed"
      BY <2>2, <2>5 DEF NoHashYet, DataOK
    <3>2. returned'[c] = Head(output[c])
      BY <2>2 DEF HashTypeOK
    <3> QED
      BY <2>2, <3>1, <3>2
  <2>a. returned'[c] # <<>>
    BY <2>6 DEF Printed
  <2>7. EndsOK(c)' /\ ChildOK(c)' /\ DataOK(c)' /\ ReaderOK(c)'
    BY <2>2, <2>5, <2>a
       DEF CallOK, EndsOK, ChildOK, DataOK, NoHashYet, ReaderOK, OpenAt, Early, Forked
  <2> QED
    BY <2>2, <2>5, <2>6, <2>7 DEF CallOK, ReturnOK
<1>9. CASE ReadNothing(o)
  <2>1. PICK c : c = Call(o)
    OBVIOUS
  <2>2. /\ Goes(o, "read", "idle") /\ calls' = calls /\ fds' = fds /\ killed' = killed
        /\ open' = open /\ child' = child /\ UNCHANGED pipeVars /\ returned' = returned
    BY <1>9 DEF ReadNothing
  <2>3. NoProcessLeft => NoProcessLeft'
    BY <2>2 DEF NoProcessLeft, Processes
  <2>4. /\ Stage(c) = "read" /\ Stage(c)' = "done"
        /\ CallOK(c) /\ EndsOK(c) /\ DataOK(c)
        /\ \A d \in Calls \ {c} : CallOK(d)'
        /\ \A p \in Offices : OfficeOK(p)'
    BY <2>1, <2>2, <2>3, OfficeMoves DEF Places, pipeVars
  <2>5. EndsOK(c)' /\ ChildOK(c)' /\ DataOK(c)' /\ ReaderOK(c)'
    BY <2>2, <2>4
       DEF CallOK, EndsOK, ChildOK, DataOK, NoHashYet, ReaderOK, OpenAt, Early, Forked, Sides
  <2> QED
    BY <2>2, <2>4, <2>5 DEF CallOK, ReturnOK
<1>10. CASE BreakPipe(o)
  <2>1. /\ killed' /\ UNCHANGED <<at, calls, fds, child, pipeVars, returned>>
    BY <1>10 DEF BreakPipe
  <2>2. \A c \in Calls : Stage(c)' = Stage(c)
    BY <2>1 DEF Stage
  <2> QED
    BY <2>1, <2>2 DEF HashInv, CallOK, ReturnOK, ChildOK, OfficeOK, Call
<1>11. CASE PipeOut(o)
  <2>1. PICK c : c = <<o, calls[o] + 1>>
    OBVIOUS
  <2>2. /\ calls[o] \in 0 .. MaxCalls /\ calls[o] < MaxCalls /\ MaxCalls \in Nat
        /\ at[o] = "idle" /\ at'[o] = "pipe_in"
        /\ \A p \in Offices \ {o} : at'[p] = at[p]
    BY <1>11, GoesTypes, HashCoprocessAssumption
       DEF PipeOut, Goes, Places, HashTypeOK, HashCoprocessAssumption
  <2>3. /\ calls'[o] = calls[o] + 1 /\ \A p \in Offices \ {o} : calls'[p] = calls[p]
    BY <1>11 DEF PipeOut, HashTypeOK
  <2>4. c \in Calls /\ c[1] = o /\ c[2] = calls[o] + 1
    BY <2>1, <2>2 DEF Calls
  <2>5. /\ fds'[o] = c /\ \A p \in Offices \ {o} : fds'[p] = fds[p]
    <3>1. fds' = [fds EXCEPT ![o] = c]
      BY <1>11, <2>1, <2>3 DEF PipeOut
    <3> QED
      BY <3>1 DEF HashTypeOK
  <2>6. /\ open' = open \union {<<c, "out_r">>, <<c, "out_w">>}
        /\ UNCHANGED <<child, input, output, returned, killed>>
    BY <1>11, <2>5 DEF PipeOut, pipeVars
  <2>7. ~ killed
    BY <1>11 DEF PipeOut, Goes
  <2>8. Stage(c) = "future" /\ Stage(c)' = "pipe_in"
    BY <2>2, <2>3, <2>4 DEF Stage
  <2>9. ASSUME NEW d \in Calls, d # c
        PROVE  CallOK(d)'
    <3>1. d = <<d[1], d[2]>> /\ d[1] \in Offices /\ d[2] \in 1 .. MaxCalls
      BY DEF Calls
    <3>2. Stage(d)' = Stage(d)
      <4>1. CASE d[1] = o
        <5>1. d[2] # calls[o] + 1
          BY <2>1, <2>9, <3>1, <4>1
        <5> QED
          BY <2>2, <2>3, <3>1, <4>1, <5>1 DEF Stage
      <4>2. CASE d[1] # o
        BY <2>2, <2>3, <3>1, <4>2 DEF Stage
      <4> QED
        BY <4>1, <4>2
    <3>3. Untouched(d)
      BY <2>6, <2>9, <3>2 DEF Untouched
    <3>4. NoProcessLeft => NoProcessLeft'
      BY <2>6 DEF NoProcessLeft, Processes
    <3> QED
      BY <2>6, <3>3, <3>4, UntouchedOK DEF HashInv
  <2>10. CallOK(c)'
    <3>1. CallOK(c) /\ EndsOK(c) /\ DataOK(c)
      BY <2>4, <2>7 DEF HashInv, CallOK
    <3>2. EndsOK(c)'
      BY <2>6, <2>8, <3>1 DEF EndsOK, OpenAt
    <3>3. ChildOK(c)' /\ DataOK(c)' /\ ReaderOK(c)'
      BY <2>6, <2>8, <3>1 DEF CallOK, ChildOK, DataOK, NoHashYet, ReaderOK, Early, Forked
    <3> QED
      BY <2>6, <3>1, <3>2, <3>3 DEF CallOK, ReturnOK
  <2>11. ASSUME NEW p \in Offices
         PROVE  OfficeOK(p)'
    <3>1. CASE p = o
      BY <2>1, <2>3, <2>4, <2>5, <3>1 DEF OfficeOK, Call
    <3>2. CASE p # o
      BY <2>2, <2>3, <2>5, <3>2 DEF HashInv, OfficeOK, Call
    <3> QED
      BY <3>1, <3>2
  <2> QED
    BY <2>9, <2>10, <2>11
<1> QED
  BY <1>1, <1>2, <1>3, <1>4, <1>5, <1>6, <1>7, <1>8, <1>9, <1>10, <1>11 DEF Office

-----------------------------------------------------------------------------
(* The steps of a child *)

(* A child that starts sha256sum or hashes keeps what is known of every     *)
(* call: the one that forked it, and those it only has the ends of           *)
(* (accounts.c:82-94).                                                        *)
THEOREM ChildInv ==
  ASSUME HashTypeOK, HashInv, NEW c \in Calls, Child(c)
  PROVE  (\A d \in Calls : CallOK(d)') /\ \A p \in Offices : OfficeOK(p)'
<1>1. /\ UNCHANGED <<at, calls, fds, open, returned, killed>>
      /\ child[c].state \in {"forked", "hashing"}
      /\ child'[c].state \in {"hashing", "zombie", "failed"}
      /\ child'[c].pipes = child[c].pipes
      /\ \A d \in Calls \ {c} : child'[d] = child[d]
  <2>1. CASE Exec(c)
    BY <2>1 DEF Exec, RunSha256sum, GiveUp, Becomes, HashTypeOK
  <2>2. CASE Hash(c)
    BY <2>2 DEF Hash, Becomes, HashTypeOK
  <2> QED
    BY <2>1, <2>2 DEF Child
<1>2. CallOK(c) /\ child[c].pipes = c /\ Stage(c) \notin Early
  BY <1>1 DEF HashInv, CallOK, ChildOK
<1>3. \A d \in Calls \ {c} : input'[d] = input[d] /\ output'[d] = output[d]
  <2>1. CASE Exec(c)
    BY <1>2, <2>1 DEF Exec, RunSha256sum, GiveUp, HashTypeOK
  <2>2. CASE Hash(c)
    BY <1>2, <2>2 DEF Hash, HashTypeOK
  <2> QED
    BY <2>1, <2>2 DEF Child
<1>4. NoProcessLeft => NoProcessLeft'
  BY <1>1, ProcessesStay
<1>5. \A d \in Calls : Stage(d)' = Stage(d)
  BY <1>1 DEF Stage
<1>6. ASSUME NEW d \in Calls \ {c}
      PROVE  CallOK(d)'
  <2>1. Untouched(d)
    BY <1>1, <1>3, <1>5 DEF Untouched
  <2> QED
    BY <1>1, <1>4, <2>1, UntouchedOK DEF HashInv
<1>7. ChildOK(c)'
  BY <1>1, <1>2, <1>5 DEF ChildOK
<1>8. ASSUME ~ killed
      PROVE  EndsOK(c)' /\ DataOK(c)' /\ ReaderOK(c)'
  <2>1. EndsOK(c) /\ DataOK(c) /\ ReaderOK(c)
    BY <1>2, <1>8 DEF CallOK
  <2>2. EndsOK(c)'
    BY <1>1, <1>5, <2>1 DEF EndsOK
  <2>3. CASE Exec(c)
    <3>1. input' = input /\ child[c].state = "forked"
      BY <2>3 DEF Exec
    <3>2. \/ /\ child'[c].open = child[c].open \ {<<c, "out_r">>, <<c, "in_w">>}
             /\ output'[c] = output[c]
          \/ /\ ExecFails /\ child'[c].state = "failed"
             /\ output'[c] = output[c] \/ output'[c] = Append(output[c], Printed)
      BY <1>2, <2>3 DEF Exec, RunSha256sum, GiveUp, Becomes, HashTypeOK
    <3>3. DataOK(c)'
      <4>1. Stage(c) \in Early \union Forked \union {"close_in_w", "read"} => output[c] = <<>>
        BY <2>1, <3>1 DEF DataOK, NoHashYet
      <4>2. Append(<<>>, Printed) = <<Printed>>
        OBVIOUS
      <4>3. output[c] = <<>> => NoHashYet(c)'
        BY <3>2, <4>2 DEF NoHashYet
      <4>4. output[c] # <<<<c>>>> \/ Stage(c) # "read"
        BY <4>1
      <4> QED
        BY <1>1, <1>2, <1>5, <2>1, <3>1, <4>1, <4>3 DEF DataOK
    <3>4. ReaderOK(c)'
      BY <1>5, <2>1, <3>1, <3>2 DEF ReaderOK
    <3> QED
      BY <2>2, <3>3, <3>4
  <2>4. CASE Hash(c)
    <3>1. /\ <<c, "in_w">> \notin open /\ child[c].state = "hashing"
          /\ output' = [output EXCEPT ![c] = Append(output[c], input[c])]
          /\ input' = [input EXCEPT ![c] = <<>>]
          /\ Becomes(c, "zombie", {})
      BY <1>2, <2>4 DEF Hash
    <3>2. child'[c].state = "zombie"
      BY <3>1 DEF Becomes, HashTypeOK
    <3>3. Stage(c) \notin Early \union Forked \union {"close_in_w"}
      BY <1>2, <2>1, <3>1 DEF EndsOK, OpenAt, Sides, Forked
    <3>4. Stage(c) = "read" => output'[c] = <<<<c>>>>
      <4>1. ASSUME Stage(c) = "read"
            PROVE  output[c] = <<>> /\ input[c] = <<c>>
        BY <2>1, <3>1, <4>1 DEF NoHashYet, DataOK
      <4>2. output'[c] = Append(output[c], input[c])
        BY <3>1 DEF HashTypeOK
      <4>3. Append(<<>>, <<c>>) = <<<<c>>>>
        OBVIOUS
      <4> QED
        BY <4>1, <4>2, <4>3
    <3>5. DataOK(c)'
      BY <1>1, <1>5, <2>1, <3>2, <3>3, <3>4 DEF NoHashYet, DataOK
    <3>6. ReaderOK(c)'
      BY <1>5, <3>3 DEF ReaderOK
    <3> QED
      BY <2>2, <3>5, <3>6
  <2> QED
    BY <2>3, <2>4 DEF Child
<1>9. CallOK(c)'
  BY <1>1, <1>2, <1>7, <1>8 DEF CallOK, ReturnOK
<1>10. \A p \in Offices : OfficeOK(p)'
  BY <1>1 DEF HashInv, OfficeOK, Call
<1> QED
  BY <1>6, <1>9, <1>10

-----------------------------------------------------------------------------
(* The inductive invariant *)

(* A step of an office kills the server only when nobody is there to read. *)
LEMMA OfficeKills ==
  ASSUME HashTypeOK, HashInv, NEW o \in Offices, Office(o)
  PROVE  KilledOnlyWithoutChild'
<1>1. CASE BreakPipe(o)
  <2>1. /\ ~ killed /\ at[o] = "write" /\ Holders(<<fds[o], "in_r">>) = {} /\ child' = child
    BY <1>1 DEF BreakPipe
  <2>2. PICK c : c = Call(o)
    OBVIOUS
  <2>3. c \in Calls /\ fds[o] = c /\ Stage(c) = "write"
    BY <2>1, <2>2, CallStage DEF HashInv
  <2>4. ReaderOK(c)
    BY <2>1, <2>3 DEF HashInv, CallOK
  <2>5. <<c, "in_r">> \notin child[c].open
    BY <2>1, <2>3 DEF Holders
  <2>6. \/ child[c].state = "none" /\ Cardinality(Processes) >= ProcessLimit
        \/ ExecFails /\ child[c].state = "failed"
    BY <2>3, <2>4, <2>5 DEF ReaderOK, Forked, NoProcessLeft
  <2>7. at' = at /\ calls' = calls /\ child' = child
    BY <1>1 DEF BreakPipe
  <2> QED
    BY <2>1, <2>2, <2>6, <2>7 DEF KilledOnlyWithoutChild, Call, Processes
<1>2. CASE ~ BreakPipe(o)
  <2>1. ~ killed /\ ~ killed'
    BY <1>2 DEF Office, PipeOut, PipeIn, Fork, CloseInR, CloseOutW, CloseInW, CloseOutR,
                CloseEnd, WritePassword, ReadHash, ReadNothing, Goes
  <2> QED
    BY <2>1 DEF KilledOnlyWithoutChild
<1> QED
  BY <1>1, <1>2

(* When the server is killed its children go on, and what killed it stays. *)
LEMMA ChildKills ==
  ASSUME HashTypeOK, HashInv, NEW c \in Calls, Child(c)
  PROVE  KilledOnlyWithoutChild'
<1>1. killed' = killed /\ at' = at /\ calls' = calls /\ KilledOnlyWithoutChild
  BY DEF Child, Exec, Hash, HashInv
<1>2. /\ child[c].state \in {"forked", "hashing"} /\ child'[c].state # "none"
      /\ \A d \in Calls \ {c} : child'[d] = child[d]
  <2>1. CASE Exec(c)
    BY <2>1 DEF Exec, RunSha256sum, GiveUp, Becomes, HashTypeOK
  <2>2. CASE Hash(c)
    BY <2>2 DEF Hash, Becomes, HashTypeOK
  <2> QED
    BY <2>1, <2>2 DEF Child
<1>3. NoProcessLeft => NoProcessLeft'
  BY <1>2, ProcessesStay
<1> SUFFICES ASSUME killed
             PROVE  KilledOnlyWithoutChild'
  BY <1>1 DEF KilledOnlyWithoutChild
<1>4. PICK o \in Offices :
        /\ at[o] = "write"
        /\ \/ child[Call(o)].state = "none" /\ NoProcessLeft
           \/ ExecFails /\ child[Call(o)].state = "failed"
  BY <1>1 DEF KilledOnlyWithoutChild, NoProcessLeft
<1>5. Call(o)' = Call(o) /\ Call(o) \in Calls
  BY <1>1, <1>4 DEF Call, HashInv, OfficeOK
<1>6. child'[Call(o)] = child[Call(o)]
  BY <1>2, <1>4, <1>5
<1> QED
  BY <1>1, <1>3, <1>4, <1>5, <1>6 DEF KilledOnlyWithoutChild, NoProcessLeft

(* Every step of offices, children or the shutdown keeps what is known of   *)
(* each call of generateHash (accounts.c:62-120).                             *)
THEOREM HashInvStep ==
  ASSUME HashTypeOK, HashInv, [HashNext]_hashVars
  PROVE  HashInv'
<1>1. ASSUME NEW o \in Offices, Office(o)
      PROVE  HashInv'
  BY <1>1, OfficeInv, OfficeKills DEF HashInv
<1>2. ASSUME NEW c \in Calls, Child(c)
      PROVE  HashInv'
  BY <1>2, ChildInv, ChildKills DEF HashInv
<1>3. CASE CloseServerFifo \/ UNCHANGED hashVars
  <2>1. UNCHANGED <<at, calls, fds, child, input, output, returned, killed>>
    BY <1>3 DEF CloseServerFifo, hashVars, pipeVars
  <2>2. \A c \in Calls : \A x \in Sides : <<c, x>> \in open' <=> <<c, x>> \in open
    BY <1>3, HashCoprocessAssumption
       DEF CloseServerFifo, hashVars, FifoEnd, ServerFifo, Calls, HashCoprocessAssumption
  <2>3. \A c \in Calls : Untouched(c)
    BY <2>1, <2>2 DEF Untouched, Stage
  <2>4. NoProcessLeft => NoProcessLeft'
    BY <2>1 DEF NoProcessLeft, Processes
  <2>5. \A c \in Calls : CallOK(c)'
    BY <2>1, <2>3, <2>4, UntouchedOK DEF HashInv
  <2>6. \A p \in Offices : OfficeOK(p)'
    BY <2>1 DEF HashInv, OfficeOK, Call
  <2>7. KilledOnlyWithoutChild'
    BY <2>1 DEF HashInv, KilledOnlyWithoutChild, Processes, Call
  <2> QED
    BY <2>5, <2>6, <2>7 DEF HashInv
<1> QED
  BY <1>1, <1>2, <1>3 DEF HashNext

(* Every call is at its stage, with the ends, the data and the reader of it. *)
THEOREM HashIsRight == HashSpec => [](HashTypeOK /\ HashInv)
<1>1. HashInit => HashTypeOK /\ HashInv
  BY HashTypesInit, HashInvInit
<1>2. HashTypeOK /\ HashInv /\ [HashNext]_hashVars => (HashTypeOK /\ HashInv)'
  BY HashTypesStep, HashInvStep
<1> QED
  BY <1>1, <1>2, PTL DEF HashSpec

(* However many offices fork at once, a call returns the hash of its own    *)
(* password or NULL (accounts.c:70).                                          *)
THEOREM HashesAreOwn == HashSpec => []HashOfOwnPassword
<1>1. HashTypeOK /\ HashInv => HashOfOwnPassword
  BY DEF HashInv, CallOK, ReturnOK, HashOfOwnPassword
<1> QED
  BY <1>1, HashIsRight, PTL

(* A call that has returned has left the server no descriptor, or the one   *)
(* it could not read when it returned NULL (accounts.c:116).                  *)
THEOREM DescriptorsAreReturned == HashSpec => []DescriptorsReturned
<1>1. HashTypeOK /\ HashInv => DescriptorsReturned
  <2> SUFFICES ASSUME HashTypeOK, HashInv, NEW c \in Calls, ~ killed,
                      c[2] < calls[c[1]] \/ (c[2] = calls[c[1]] /\ at[c[1]] = "idle")
               PROVE  {e \in open : e[1] = c}
                        = IF returned[c] = <<>> THEN {<<c, "out_r">>} ELSE {}
    BY DEF DescriptorsReturned
  <2>1. Stage(c) = "done"
    <3>1. c[1] \in Offices /\ c[2] \in Int
      BY DEF Calls
    <3>2. calls[c[1]] \in Int
      BY <3>1, HashCoprocessAssumption DEF HashTypeOK, HashCoprocessAssumption
    <3> QED
      BY <3>1, <3>2 DEF Stage
  <2>2. \A x \in Sides : <<c, x>> \in open <=> (returned[c] = <<>> /\ x = "out_r")
    BY <2>1 DEF HashInv, CallOK, EndsOK, OpenAt
  <2>3. \A e \in open : e[1] = c => \E x \in Sides : e = <<c, x>>
    BY DEF HashTypeOK, Ends, Sides
  <2> QED
    BY <2>2, <2>3 DEF Sides
<1> QED
  BY <1>1, HashIsRight, PTL

(* SIGPIPE kills the server only once children could not be made any more   *)
(* or could not be made sha256sum (accounts.c:76, 93).                        *)
THEOREM KilledWithoutChild == HashSpec => []KilledOnlyWithoutChild
<1>1. HashTypeOK /\ HashInv => KilledOnlyWithoutChild
  BY DEF HashInv
<1> QED
  BY <1>1, HashIsRight, PTL
=============================================================================
