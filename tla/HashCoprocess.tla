---------------------------- MODULE HashCoprocess ----------------------------
(***************************************************************************)
(* generateHash (accounts.c): an office makes two pipes, forks, writes the *)
(* password to the child's standard input and reads the hash from its      *)
(* standard output; the child is sha256sum, which hashes what it reads     *)
(* until nobody has its input open to write.  Offices do so at the same    *)
(* time in one process, so that a child inherits whatever pipe ends the    *)
(* others have open at its fork, and keeps them (none is closed on exec).  *)
(* No child is ever waited for: when it has ended it still is a process.   *)
(*                                                                         *)
(* A call is told by its office and number, a pipe by the call that made   *)
(* it, and a password or a hash by the call it belongs to.                 *)
(***************************************************************************)
EXTENDS Naturals, FiniteSets, Sequences

CONSTANTS
  Offices,      \* the bank office threads
  NoOffice,     \* none of them
  MaxCalls,     \* bound: calls of an office
  ProcessLimit, \* processes the server's user may have at once
  ExecFails,    \* sha256sum may not be there to be run
  Buffered      \* the server's standard output is no terminal: what it has printed
                \* may not have been written yet

ASSUME HashCoprocessAssumption ==
  /\ IsFiniteSet(Offices) /\ NoOffice \notin Offices
  /\ MaxCalls \in Nat /\ ProcessLimit \in Nat
  /\ ExecFails \in BOOLEAN /\ Buffered \in BOOLEAN

Calls == Offices \X (1 .. MaxCalls)
ServerFifo == <<NoOffice, 0>>

(* An open end of a pipe: "in" leads to the child, "out" from it. *)
Ends == (Calls \union {ServerFifo}) \X {"in_r", "in_w", "out_r", "out_w"}
FifoEnd == <<ServerFifo, "in_w">>

(* What the server has printed and not written, where a hash is expected. *)
Printed == <<ServerFifo>>

VARIABLES
  at,        \* at[o]: where office o is in generateHash
  calls,     \* calls[o]: how many calls it has made
  fds,       \* fds[o]: the call whose pipes are in fd1 and fd2
  open,      \* the ends the server has open
  child,     \* child[c]: the process that call c forked: its state, the pipes that
             \* are its standard input and output, and the ends it has open
  input,     \* input[c]: the passwords in the pipe to the child
  output,    \* output[c]: the hashes in the pipe from it, or what else it wrote
  returned,  \* returned[c]: the hashes call c has returned: at most one, <<>> for NULL
  killed     \* SIGPIPE has killed the server

pipeVars == <<input, output>>
hashVars == <<at, calls, fds, open, child, pipeVars, returned, killed>>

Places ==
  {"idle", "pipe_in", "fork", "close_in_r", "close_out_w", "write", "close_in_w", "read",
   "close_out_r"}

NoChild == [state |-> "none", pipes |-> ServerFifo, open |-> {}]

HashInit ==
  /\ at = [o \in Offices |-> "idle"]
  /\ calls = [o \in Offices |-> 0]
  /\ fds = [o \in Offices |-> ServerFifo]
  /\ open = {FifoEnd}
  /\ child = [c \in Calls |-> NoChild]
  /\ input = [c \in Calls |-> <<>>] /\ output = [c \in Calls |-> <<>>]
  /\ returned = [c \in Calls |-> <<>>]
  /\ killed = FALSE

-----------------------------------------------------------------------------
(* Steps of an office *)

Call(o) == <<o, calls[o]>>
Goes(o, from, to) == ~ killed /\ at[o] = from /\ at' = [at EXCEPT ![o] = to]
Holders(end) == {c \in Calls : end \in child[c].open}
Processes == {c \in Calls : child[c].state # "none"}

(* Mutant: other calls write over the pipes of a call, fd1 and fd2 being static. *)
PipeOutStatic(o) ==
  /\ Goes(o, "idle", "pipe_in")
  /\ calls[o] < MaxCalls
  /\ calls' = [calls EXCEPT ![o] = @ + 1]
  /\ fds' = [p \in Offices |-> <<o, calls'[o]>>]
  /\ open' = open \union {<<<<o, calls'[o]>>, "out_r">>, <<<<o, calls'[o]>>, "out_w">>}
  /\ UNCHANGED <<child, pipeVars, returned, killed>>

PipeOut(o) ==
  /\ Goes(o, "idle", "pipe_in")
  /\ calls[o] < MaxCalls
  /\ calls' = [calls EXCEPT ![o] = @ + 1]
  /\ fds' = [fds EXCEPT ![o] = <<o, calls'[o]>>]
  /\ open' = open \union {<<fds'[o], "out_r">>, <<fds'[o], "out_w">>}
  /\ UNCHANGED <<child, pipeVars, returned, killed>>

(* Mutant: the server's end to read is closed before the fork. *)
PipeInToWrite(o) ==
  /\ Goes(o, "pipe_in", "fork")
  /\ open' = open \union {<<fds[o], "in_w">>}
  /\ UNCHANGED <<calls, fds, child, pipeVars, returned, killed>>

PipeIn(o) ==
  /\ Goes(o, "pipe_in", "fork")
  /\ open' = open \union {<<fds[o], "in_r">>, <<fds[o], "in_w">>}
  /\ UNCHANGED <<calls, fds, child, pipeVars, returned, killed>>

(* The child gets every end the server has open.  A fork that fails goes    *)
(* unnoticed.                                                                *)
Fork(o) ==
  /\ Goes(o, "fork", "close_in_r")
  /\ child' = IF Cardinality(Processes) < ProcessLimit
              THEN [child EXCEPT ![Call(o)] =
                      [state |-> "forked", pipes |-> fds[o], open |-> open]]
              ELSE child
  /\ UNCHANGED <<calls, fds, open, pipeVars, returned, killed>>

CloseEnd(o, end, from, to) ==
  /\ Goes(o, from, to)
  /\ open' = open \ {<<fds[o], end>>}
  /\ UNCHANGED <<calls, fds, child, pipeVars, returned, killed>>

CloseInR(o) == CloseEnd(o, "in_r", "close_in_r", "close_out_w")
CloseOutW(o) == CloseEnd(o, "out_w", "close_out_w", "write")

(* Mutant: the child is never shown the end of its input. *)
CloseInWNot(o) == CloseEnd(o, "in_r", "close_in_w", "read")

CloseInW(o) == CloseEnd(o, "in_w", "close_in_w", "read")

(* Whoever has the other end open will do. *)
WritePassword(o) ==
  /\ Goes(o, "write", "close_in_w")
  /\ Holders(<<fds[o], "in_r">>) # {}
  /\ input' = [input EXCEPT ![fds[o]] = Append(@, Call(o))]
  /\ UNCHANGED <<calls, fds, open, child, output, returned, killed>>

BreakPipe(o) ==
  /\ ~ killed /\ at[o] = "write"
  /\ Holders(<<fds[o], "in_r">>) = {}
  /\ killed' = TRUE /\ open' = {}
  /\ UNCHANGED <<at, calls, fds, child, pipeVars, returned>>

ReadHash(o) ==
  /\ Goes(o, "read", "close_out_r")
  /\ output[fds[o]] # <<>>
  /\ output' = [output EXCEPT ![fds[o]] = Tail(@)]
  /\ returned' = [returned EXCEPT ![Call(o)] = Head(output[fds[o]])]
  /\ UNCHANGED <<calls, fds, open, child, input, killed>>

(* The end of the file makes generateHash return NULL at once, and so does  *)
(* text that is shorter than a hash.                                         *)
ReadNothing(o) ==
  /\ Goes(o, "read", "idle")
  /\ output[fds[o]] = <<>>
  /\ \/ <<fds[o], "out_w">> \notin open /\ Holders(<<fds[o], "out_w">>) = {}
     \/ Buffered /\ child[Call(o)].state = "failed"
  /\ UNCHANGED <<calls, fds, open, child, pipeVars, returned, killed>>

(* Mutant: the last descriptor is not closed. *)
CloseOutRNot(o) ==
  /\ Goes(o, "close_out_r", "idle")
  /\ UNCHANGED <<calls, fds, open, child, pipeVars, returned, killed>>

CloseOutR(o) == CloseEnd(o, "out_r", "close_out_r", "idle")

Office(o) ==
  \/ PipeOut(o) \/ PipeIn(o) \/ Fork(o) \/ CloseInR(o) \/ CloseOutW(o)
  \/ WritePassword(o) \/ BreakPipe(o) \/ CloseInW(o)
  \/ ReadHash(o) \/ ReadNothing(o) \/ CloseOutR(o)

(* A shutdown closes the server's write end of its FIFO (bankoffice.c).     *)
CloseServerFifo ==
  /\ ~ killed /\ FifoEnd \in open /\ open' = open \ {FifoEnd}
  /\ UNCHANGED <<at, calls, fds, child, pipeVars, returned, killed>>

-----------------------------------------------------------------------------
(* Steps of a child *)

Becomes(c, state, ends) ==
  child' = [child EXCEPT ![c].state = state, ![c].open = ends]

(* Its own ends of the parent's are closed, the others are its standard     *)
(* input and output, and it is sha256sum from now on.                        *)
RunSha256sum(c) ==
  /\ Becomes(c, "hashing",
       child[c].open \ {<<child[c].pipes, "out_r">>, <<child[c].pipes, "in_w">>})
  /\ UNCHANGED output

(* There is no sha256sum: the child exits, and that writes its copy of what *)
(* the server has printed to its standard output, which is the pipe.         *)
GiveUp(c) ==
  /\ ExecFails
  /\ Becomes(c, "failed", {})
  /\ \/ UNCHANGED output
     \/ Buffered /\ output' = [output EXCEPT ![child[c].pipes] = Append(@, Printed)]

Exec(c) ==
  /\ child[c].state = "forked"
  /\ RunSha256sum(c) \/ GiveUp(c)
  /\ UNCHANGED <<at, calls, fds, open, input, returned, killed>>

(* sha256sum meets the end of its input, prints the hash and ends. *)
Hash(c) ==
  LET pipes == child[c].pipes
  IN  /\ child[c].state = "hashing"
      /\ <<pipes, "in_w">> \notin open /\ Holders(<<pipes, "in_w">>) = {}
      /\ output' = [output EXCEPT ![pipes] = Append(@, input[pipes])]
      /\ input' = [input EXCEPT ![pipes] = <<>>]
      /\ Becomes(c, "zombie", {})
      /\ UNCHANGED <<at, calls, fds, open, returned, killed>>

Child(c) == Exec(c) \/ Hash(c)

HashNext ==
  \/ \E o \in Offices : Office(o)
  \/ \E c \in Calls : Child(c)
  \/ CloseServerFifo

(* An office that has begun goes on, and so does a child. *)
HashFairness ==
  /\ \A o \in Offices : WF_hashVars(at[o] # "idle" /\ Office(o))
  /\ \A c \in Calls : WF_hashVars(Child(c))

HashSpec == HashInit /\ [][HashNext]_hashVars /\ HashFairness

-----------------------------------------------------------------------------
(* Properties *)

(* Every variable has its type, and an office in a call has pipes. *)
HashTypeOK ==
  /\ at \in [Offices -> Places] /\ calls \in [Offices -> 0 .. MaxCalls]
  /\ fds \in [Offices -> Calls \union {ServerFifo}]
  /\ \A o \in Offices : at[o] # "idle" => fds[o] \in Calls
  /\ open \subseteq Ends
  /\ child \in [Calls -> [state : {"none", "forked", "hashing", "zombie", "failed"},
                          pipes : Calls \union {ServerFifo}, open : SUBSET Ends]]
  /\ input \in [Calls -> Seq(Calls)]
  /\ output \in [Calls -> Seq(Seq(Calls \union {ServerFifo}))]
  /\ returned \in [Calls -> Seq(Calls \union {ServerFifo})]
  /\ killed \in BOOLEAN

(* A call returns the hash of its own password, whatever the others have    *)
(* open and fork meanwhile, or NULL (accounts.c:70); only one whose own      *)
(* child could not be made sha256sum may return something else instead.      *)
HashOfOwnPassword ==
  \A c \in Calls :
    \/ returned[c] \in {<<>>, <<c>>}
    \/ returned[c] = Printed /\ child[c].state = "failed"

(* A call that has returned a hash has left nothing open in the server, and *)
(* one that has returned NULL one end, that of the pipe it could not read    *)
(* (accounts.c:116): NULLs use the server's descriptors up.                  *)
DescriptorsReturned ==
  \A c \in Calls :
    /\ c[2] < calls[c[1]] \/ (c[2] = calls[c[1]] /\ at[c[1]] = "idle")
    /\ ~ killed
    => {e \in open : e[1] = c} = IF returned[c] = <<>> THEN {<<c, "out_r">>} ELSE {}

(* SIGPIPE kills the server only in a call that writes its password without *)
(* a child of its own: it could not be made, the processes being used up by  *)
(* children nobody has waited for, or could not be made sha256sum            *)
(* (accounts.c:76, 93).                                                       *)
KilledOnlyWithoutChild ==
  killed =>
    \E o \in Offices :
      /\ at[o] = "write"
      /\ \/ child[Call(o)].state = "none" /\ Cardinality(Processes) >= ProcessLimit
         \/ ExecFails /\ child[Call(o)].state = "failed"

(* Children that wait for one another's copies of the ends of their input   *)
(* pipes, each forked while the other's pipe was open (accounts.c:76).       *)
Knot ==
  \E knot \in SUBSET {c \in Calls : child[c].state = "hashing"} \ {{}} :
    \A c \in knot : \E d \in knot : <<child[c].pipes, "in_w">> \in child[d].open

(* A call comes to its end, unless children have tied a knot: then the      *)
(* offices wait for ever.                                                     *)
EveryCallEnds ==
  \A o \in Offices : at[o] # "idle" ~> at[o] = "idle" \/ killed \/ Knot

(* Once the server has closed its end of its own FIFO, so have its children *)
(* in the end, and it can meet the end of the file; a knot never lets it.     *)
FifoEndsUnlessKnot ==
  FifoEnd \notin open ~> Holders(FifoEnd) = {} \/ Knot
=============================================================================
