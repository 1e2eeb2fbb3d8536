------------------------------- MODULE Forensic -------------------------------
(***************************************************************************)
(* forensic (forensic.c of PROJ1): it lists a file, or the files of a       *)
(* directory and, with -r, of those below, each of which is scanned by a    *)
(* process of its own that the process of the directory above has forked.   *)
(*                                                                         *)
(* With -o the lines go to a file, by way of the standard output, and every *)
(* process tells the first one of each directory and file it begins with,   *)
(* by SIGUSR1 and SIGUSR2.  A signal that is pending is not pending twice,  *)
(* and one that comes while its process waits for its children ends that    *)
(* wait.  SIGINT goes to every process there is.                             *)
(*                                                                         *)
(* A process is told by the directory it scans.                             *)
(***************************************************************************)
EXTENDS ForensicArgs

CONSTANTS
  Root,      \* the directory that may be asked for
  Entries,   \* Entries[d]: the directories and the files in directory d
  Broken,    \* files and directories of which one may not be open to be read
  ForkFails  \* fork may fail

Dirs == DOMAIN Entries
Files == ((UNION {Entries[d] : d \in Dirs}) \ Dirs) \union Words
Below(d) == {f \in Entries[d] : f \notin Dirs}

(* The directories are a tree, of which the command line may name the root. *)
ASSUME ForensicAssumption ==
  /\ IsFiniteSet(UNION {Entries[d] : d \in Dirs}) /\ IsFiniteSet(Dirs)
  /\ Words \intersect Dirs = {Root} /\ Kinds[Root] = "dir"
  /\ \A d, e \in Dirs : d # e => Entries[d] \intersect Entries[e] = {}
  /\ \A d \in Dirs : Root \notin Entries[d]
  /\ \A above \in SUBSET Dirs :
       Root \in above /\ (\A d \in above : Entries[d] \intersect Dirs \subseteq above) => above = Dirs
  /\ ForkFails \in BOOLEAN

VARIABLES
  path,       \* what is to be looked at
  broken,     \* what cannot be opened to be read
  at,         \* at[d]: where the process that scans d is
  left,       \* left[d]: the entries it has not read yet
  entry,      \* entry[d]: the one it has read last
  lines,      \* lines[f]: how often file f has been listed
  astray,     \* the processes whose standard output is the output file of -o
  saved,      \* those whose standard output was that before scanfile
  numDirs,    \* the two counters of the first process
  numFiles,
  pending,    \* the SIGUSR1 and SIGUSR2 it has not handled yet
  stray,      \* it has printed a message into the output file
  pressed,    \* the processes SIGINT was sent to
  unheeded,   \* those of them that have not handled it yet
  flag,       \* flag[d]: receivedSigInt
  late        \* <<d, f>>: process d has begun with file f after it handled SIGINT

usrVars == <<numDirs, numFiles, pending, stray>>
intVars == <<pressed, unheeded, flag>>
scanVars == <<path, broken, at, left, entry, lines, astray, saved, usrVars, intVars, late>>
forensicVars == <<argVars, scanVars>>

Places ==
  {"off", "enter", "opendir", "loop", "fork", "begin", "redirect", "list", "restore",
   "wait", "done", "crashed", "failed"}
Ended == {"off", "done", "crashed", "failed"}

Init ==
  /\ ArgsInit
  /\ path = NoLog
  /\ broken \in {{}} \union {{x} : x \in Broken}
  /\ at = [d \in Dirs |-> "off"]
  /\ left = [d \in Dirs |-> {}]
  /\ entry = [d \in Dirs |-> NoLog]
  /\ lines = [f \in Files |-> 0]
  /\ astray = {} /\ saved = {}
  /\ numDirs = 0 /\ numFiles = 0 /\ pending = {} /\ stray = FALSE
  /\ pressed = {} /\ unheeded = {} /\ flag = [d \in Dirs |-> FALSE] /\ late = {}

-----------------------------------------------------------------------------
(* A step of process d *)

Moves(d, from, to) == at[d] = from /\ at' = [at EXCEPT ![d] = to]
Alive(d) == at[d] \notin Ended

(* Mutant: the handlers of the two signals are swapped. *)
HandlesSwapped(signal) ==
  /\ numDirs' = numDirs + IF signal = "USR2" THEN 1 ELSE 0
  /\ numFiles' = numFiles + IF signal = "USR1" THEN 1 ELSE 0
  /\ pending' = pending \ {signal}
  /\ stray' = (stray \/ Root \in astray)

(* The first process handles a signal: what it prints goes wherever its      *)
(* standard output leads at that time.                                       *)
Handles(signal) ==
  /\ numDirs' = numDirs + IF signal = "USR1" THEN 1 ELSE 0
  /\ numFiles' = numFiles + IF signal = "USR2" THEN 1 ELSE 0
  /\ pending' = pending \ {signal}
  /\ stray' = (stray \/ Root \in astray)

(* signalUSR1 and signalUSR2.  The signal a process sends itself is handled  *)
(* before kill returns.                                                       *)
Tells(d, signal) ==
  IF opts.o /\ d = Root THEN Handles(signal)
  ELSE IF opts.o /\ Alive(Root)
       THEN pending' = pending \union {signal} /\ UNCHANGED <<numDirs, numFiles, stray>>
       ELSE UNCHANGED usrVars

(* main, with a directory or with a file: the words are not looked at again. *)
Start ==
  /\ status = "ok" /\ status' = "run"
  /\ path' = Last(argv) /\ argv' = <<>>
  /\ IF kind[Last(argv)] = "dir"
     THEN at' = [at EXCEPT ![Root] = "enter"] /\ UNCHANGED entry
     ELSE /\ at' = [at EXCEPT ![Root] = "begin"]
          /\ entry' = [entry EXCEPT ![Root] = Last(argv)]
  /\ UNCHANGED <<i, opts, kind, emptied, broken, left, lines, astray, saved, usrVars, intVars, late>>

ScanDir(d) ==
  /\ Moves(d, "enter", "opendir")
  /\ Tells(d, "USR1")
  /\ UNCHANGED <<argVars, path, broken, left, entry, lines, astray, saved, intVars, late>>

(* A directory that cannot be opened is read all the same. *)
OpenDir(d) ==
  /\ Moves(d, "opendir", IF d \in broken THEN "crashed" ELSE "loop")
  /\ left' = [left EXCEPT ![d] = left[d] \union Entries[d]]
  /\ UNCHANGED <<argVars, path, broken, entry, lines, astray, saved, usrVars, intVars, late>>

(* The entries come in any order. *)
ReadEntry(d) ==
  /\ ~ flag[d]
  /\ \E e \in left[d] :
       /\ left' = [left EXCEPT ![d] = @ \ {e}]
       /\ entry' = [entry EXCEPT ![d] = e]
       /\ Moves(d, "loop", CASE e \notin Dirs -> "begin"
                             [] e \in Dirs /\ opts.r -> "fork"
                             [] OTHER -> "loop")
  /\ UNCHANGED <<argVars, path, broken, lines, astray, saved, usrVars, intVars, late>>

EndOfDir(d) ==
  /\ Moves(d, "loop", "wait")
  /\ flag[d] \/ left[d] = {}
  /\ UNCHANGED <<argVars, path, broken, left, entry, lines, astray, saved, usrVars, intVars, late>>

(* fork waits for no signal: one that is pending is handled before.          *)
ForkWith(d, unread, flagged) ==
  /\ d \notin unheeded
  /\ \/ /\ at[d] = "fork"
        /\ at' = [at EXCEPT ![d] = "loop", ![entry[d]] = "enter"]
        /\ left' = [left EXCEPT ![entry[d]] = unread]
        /\ flag' = [flag EXCEPT ![entry[d]] = flagged]
        /\ astray' = IF d \in astray THEN astray \union {entry[d]} ELSE astray
     \/ ForkFails /\ Moves(d, "fork", "failed") /\ UNCHANGED <<left, flag, astray>>
  /\ UNCHANGED <<argVars, path, broken, entry, lines, saved, usrVars, pressed, unheeded, late>>

(* Mutant: the child does not return from scanDir, and goes on with the      *)
(* directory of its parent.                                                   *)
ForkFallsThrough(d) == ForkWith(d, left[d], flag[d])

(* Mutant: the child does not know of a SIGINT that came before it was.      *)
ForkUnflagged(d) == ForkWith(d, {}, FALSE)

Fork(d) == ForkWith(d, {}, flag[d])

-----------------------------------------------------------------------------
(* scanfile *)

Begins(d) == late' = IF d \in pressed \ unheeded \/ (pressed # {} /\ d \notin pressed)
                     THEN late \union {<<d, entry[d]>>} ELSE late

(* Mutant: the first process is told when the output is redirected already. *)
BeginRedirected(d) ==
  /\ Moves(d, "begin", IF opts.o THEN "redirect" ELSE "list")
  /\ IF opts.o /\ d = Root
     THEN stray' = TRUE /\ numFiles' = numFiles + 1 /\ UNCHANGED <<numDirs, pending>>
     ELSE Tells(d, "USR2")
  /\ Begins(d)
  /\ UNCHANGED <<argVars, path, broken, left, entry, lines, astray, saved, intVars>>

BeginFile(d) ==
  /\ Moves(d, "begin", IF opts.o THEN "redirect" ELSE "list")
  /\ Tells(d, "USR2") /\ Begins(d)
  /\ UNCHANGED <<argVars, path, broken, left, entry, lines, astray, saved, intVars>>

Redirect(d) ==
  /\ Moves(d, "redirect", "list")
  /\ saved' = IF d \in astray THEN saved \union {d} ELSE saved \ {d}
  /\ astray' = astray \union {d}
  /\ UNCHANGED <<argVars, path, broken, left, entry, lines, usrVars, intVars, late>>

(* Mutant: scanDir ends with the first file. *)
AfterFileWait == IF kind[path] = "dir" THEN "wait" ELSE "done"

(* Back in scanDir, or in main *)
AfterFile == IF kind[path] = "dir" THEN "loop" ELSE "done"

(* The standard output stays redirected after a file that cannot be opened. *)
(* A file that can be opened is listed: that the programs asked about it can *)
(* be run is left to them.                                                   *)
ListFile(d) ==
  LET readable == entry[d] \notin broken
  IN  /\ Moves(d, "list", IF readable THEN "restore" ELSE AfterFile)
      /\ lines' = [lines EXCEPT ![entry[d]] = @ + IF readable THEN 1 ELSE 0]
      /\ UNCHANGED <<argVars, path, broken, left, entry, astray, saved, usrVars, intVars, late>>

Restore(d) ==
  /\ Moves(d, "restore", AfterFile)
  /\ astray' = IF d \in saved THEN astray ELSE astray \ {d}
  /\ UNCHANGED <<argVars, path, broken, left, entry, lines, saved, usrVars, intVars, late>>

-----------------------------------------------------------------------------
(* waitForChildren, and the signals that may end it *)

Children(d) == {c \in Entries[d] \intersect Dirs : at[c] # "off"}

(* Mutant: one child is waited for. *)
WaitOnce(d) ==
  /\ Moves(d, "wait", "done")
  /\ Children(d) = {} \/ \E c \in Children(d) : ~ Alive(c)
  /\ UNCHANGED <<argVars, path, broken, left, entry, lines, astray, saved, usrVars, intVars,
                 late>>

WaitForChildren(d) ==
  /\ Moves(d, "wait", "done")
  /\ \A c \in Children(d) : ~ Alive(c)
  /\ UNCHANGED <<argVars, path, broken, left, entry, lines, astray, saved, usrVars, intVars,
                 late>>

(* A signal that comes between two waits ends neither. *)
Interrupts(d) == UNCHANGED at \/ Moves(d, "wait", "done")

HandleUsr(signal) ==
  /\ signal \in pending /\ Alive(Root)
  /\ Handles(signal) /\ Interrupts(Root)
  /\ UNCHANGED <<argVars, path, broken, left, entry, lines, astray, saved, intVars, late>>

HandleInt(d) ==
  /\ d \in unheeded /\ Alive(d)
  /\ unheeded' = unheeded \ {d}
  /\ flag' = [flag EXCEPT ![d] = TRUE]
  /\ Interrupts(d)
  /\ UNCHANGED <<argVars, path, broken, left, entry, lines, astray, saved, usrVars, pressed,
                 late>>

(* CTRL+C *)
PressInt ==
  /\ pressed = {} /\ \E d \in Dirs : Alive(d)
  /\ pressed' = {d \in Dirs : Alive(d)} /\ unheeded' = pressed'
  /\ UNCHANGED <<argVars, path, broken, at, left, entry, lines, astray, saved, usrVars, flag,
                 late>>

Process(d) ==
  \/ ScanDir(d) \/ OpenDir(d) \/ ReadEntry(d) \/ EndOfDir(d) \/ Fork(d)
  \/ BeginFile(d) \/ Redirect(d) \/ ListFile(d) \/ Restore(d)
  \/ WaitForChildren(d)

Next ==
  \/ ProcessArgs /\ UNCHANGED scanVars
  \/ Start
  \/ \E d \in Dirs : Process(d) \/ HandleInt(d)
  \/ \E signal \in {"USR1", "USR2"} : HandleUsr(signal)
  \/ PressInt

(* Every process goes on whenever it can, and handles its signals. *)
Fairness == WF_forensicVars(Next)

Spec == Init /\ [][Next]_forensicVars /\ Fairness

-----------------------------------------------------------------------------
(* Properties *)

(* Every variable has its type; what a process has yet to read is of its    *)
(* own directory.                                                            *)
ForensicTypeOK ==
  /\ status \in {"args", "ok", "run", "1", "2", "4", "5", "6", "7", "8", "9"}
  /\ path \in Words \union {NoLog}
  /\ at \in [Dirs -> Places] /\ entry \in [Dirs -> Dirs \union Files \union {NoLog}]
  /\ left \in [Dirs -> SUBSET (Dirs \union Files)] /\ \A d \in Dirs : left[d] \subseteq Entries[d]
  /\ lines \in [Files -> Nat] /\ astray \subseteq Dirs /\ saved \subseteq Dirs
  /\ numDirs \in Nat /\ numFiles \in Nat /\ pending \subseteq {"USR1", "USR2"}
  /\ unheeded \subseteq pressed /\ pressed \subseteq Dirs
  /\ flag \in [Dirs -> BOOLEAN] /\ late \subseteq Dirs \X Files

(* No file is listed twice, by whatever processes (forensic.c:384).          *)
ListedOnce == \A f \in Files : lines[f] <= 1

(* The first process never counts more directories or files than have been  *)
(* begun with; signals that come together are one (forensic.c:466).           *)
CountsNeverAbove ==
  LET begun(d) == {f \in Entries[d] \ (Dirs \union left[d]) : ~ (at[d] = "begin" /\ entry[d] = f)}
      read == {d \in Dirs : at[d] \notin {"off", "enter", "opendir"}}
  IN  /\ numDirs <= Cardinality({d \in Dirs : at[d] \notin {"off", "enter"}})
      /\ numFiles <= IF path # NoLog /\ kind[path] = "dir"
                     THEN Cardinality(UNION {begun(d) : d \in read})
                     ELSE 1

(* A process that has ended while one below it has not was interrupted: by  *)
(* SIGINT, by an error or, the first one, by what -o has it told             *)
(* (forensic.c:399).                                                          *)
OrphansOnlyIfInterrupted ==
  \A d \in Dirs : \A c \in Children(d) :
    ~ Alive(d) /\ Alive(c) =>
      pressed # {} \/ at[d] \in {"crashed", "failed"} \/ (opts.o /\ d = Root)

(* The first process prints its messages into the output file only if there *)
(* are or were other processes to send it signals, or something could not be *)
(* opened, after which the output may stay redirected (forensic.c:213, 454):  *)
(* alone, and with all it looks at readable, it tells itself of each file     *)
(* before it redirects its output (forensic.c:197), and never after.          *)
StrayOnlyByOthers ==
  stray => (\E d \in Dirs \ {Root} : at[d] # "off") \/ broken # {}

(* Once it has handled SIGINT a process begins with one more file at most,   *)
(* and one that was forked later with none (forensic.c:368, 384).             *)
StopsAfterSigInt ==
  \A d \in Dirs :
    Cardinality({f \in Files : <<d, f>> \in late}) <= IF d \in pressed THEN 1 ELSE 0

Wanted ==
  CASE path = NoLog -> {}
    [] path # NoLog /\ kind[path] # "dir" -> {path} \ broken
    [] OTHER -> (UNION {Entries[d] : d \in IF opts.r THEN Dirs ELSE {Root}}) \ (Dirs \union broken)

Failed(d) == at[d] \in {"crashed", "failed"}
Over == status \notin {"args", "ok"} /\ \A d \in Dirs : ~ Alive(d)

Promise ==
  INSTANCE Listing WITH
    wanted <- Wanted, listed <- {f \in Files : lines[f] > 0}, over <- Over,
    excused <- pressed # {} \/ (\E d \in Dirs : Failed(d)) \/ (Over /\ status # "run")

(* forensic ends with all its processes, and has listed what was asked for   *)
(* unless SIGINT or an error kept it from that.                               *)
ImplementsListing == Promise!Spec
=============================================================================
