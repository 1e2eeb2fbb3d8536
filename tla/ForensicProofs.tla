---------------------------- MODULE ForensicProofs ----------------------------
(***************************************************************************)
(* Proofs about Forensic, for any tree of directories and any command       *)
(* lines: what the arguments are taken for, that no file is listed twice,   *)
(* that the counts are never above what was begun with, and what a process  *)
(* does after a signal.                                                     *)
(***************************************************************************)
EXTENDS Forensic, FiniteSetTheorems, TLAPS

(* The processes that have not read their directory, and those that have a  *)
(* file they have not listed                                                 *)
Unread == {"off", "enter", "opendir"}
AtFile == {"begin", "redirect", "list"}

Scanning == status = "run" /\ kind[path] = "dir"
OneFile == status = "run" /\ kind[path] # "dir"

(* Nothing has happened before the arguments are looked at. *)
Quiet ==
  IF status = "run" THEN path \in Words
  ELSE /\ path = NoLog /\ \A d \in Dirs : at[d] = "off" /\ left[d] = {}
       /\ \A f \in Files : lines[f] = 0
       /\ numDirs = 0 /\ numFiles = 0

FileInv ==
  OneFile =>
    /\ \A d \in Dirs \ {Root} : at[d] = "off"
    /\ at[Root] \in AtFile \union {"restore", "done"}
    /\ entry[Root] = path
    /\ at[Root] \in AtFile => lines[path] = 0
    /\ \A f \in Files : lines[f] <= 1

(* What process d has not read is listed by nobody and scanned by nobody.   *)
TreeOK(d) ==
  /\ at[d] \in Unread => left[d] = {} /\ \A f \in Below(d) : lines[f] = 0
  /\ \A f \in left[d] \ Dirs : lines[f] = 0
  /\ at[d] \in AtFile => entry[d] \in Below(d) \ left[d] /\ lines[entry[d]] = 0
  /\ at[d] = "fork" => entry[d] \in (Entries[d] \intersect Dirs) \ left[d] /\ at[entry[d]] = "off"
  /\ \A e \in Entries[d] \intersect Dirs : at[d] \in Unread \/ e \in left[d] => at[e] = "off"

TreeInv ==
  Scanning =>
    /\ \A d \in Dirs : TreeOK(d)
    /\ \A f \in Files : lines[f] <= 1

ScanInv == ForensicTypeOK /\ Quiet /\ FileInv /\ TreeInv

-----------------------------------------------------------------------------
(* SIGINT *)

HeededBy(d) == d \in pressed \ unheeded
SigIntOK(d) ==
  /\ HeededBy(d) => flag[d]
  /\ d \in pressed => at[d] # "off"
  /\ pressed # {} /\ d \notin pressed /\ Alive(d) =>
       flag[d] /\ at[d] \in {"enter", "opendir", "loop", "wait"}
  /\ \A f \in Files : <<d, f>> \in late => HeededBy(d) /\ at[d] # "begin"
  /\ \A f, g \in Files : <<d, f>> \in late /\ <<d, g>> \in late => f = g
SigIntInv == \A d \in Dirs : SigIntOK(d)

(* SIGUSR1 and SIGUSR2 *)
OthersRun == \E d \in Dirs \ {Root} : at[d] # "off"
UsrInv ==
  /\ pending # {} => opts.o /\ OthersRun
  /\ Root \in saved => broken # {}
  /\ Root \in astray => broken # {} \/ at[Root] \in {"list", "restore"}

(* The directories and files that have been begun with *)
BegunDirs == {d \in Dirs : at[d] \notin {"off", "enter"}}
BegunIn(d) == {f \in Entries[d] \ (Dirs \union left[d]) : ~ (at[d] = "begin" /\ entry[d] = f)}
BegunFiles == UNION {BegunIn(d) : d \in {e \in Dirs : at[e] \notin Unread}}
Waiting(signal) == IF signal \in pending THEN 1 ELSE 0
CountInv ==
  /\ Scanning => /\ numDirs + Waiting("USR1") <= Cardinality(BegunDirs)
                 /\ numFiles + Waiting("USR2") <= Cardinality(BegunFiles)
  /\ OneFile => /\ numDirs = 0 /\ pending = {} /\ numFiles <= 1
                /\ at[Root] = "begin" => numFiles = 0

SignalInv == SigIntInv /\ UsrInv /\ OrphansOnlyIfInterrupted /\ StrayOnlyByOthers /\ CountInv

-----------------------------------------------------------------------------
(* The arguments *)

Names == UNION {Hashes[w] : w \in Words}
OptionsFound ==
  [r : BOOLEAN, hashes : SUBSET Names, o : BOOLEAN, outfile : Words \union {NoLog}, v : BOOLEAN]

ArgsTypeOK ==
  /\ argv \in Seq(Words) /\ i \in Nat \ {0}
  /\ kind \in [Words -> {"dir", "file", "other", "none"}] /\ kind[Root] = "dir"
  /\ opts \in OptionsFound

Excused(w) ==
  \/ \E k \in 1 .. Len(argv) - 1 : argv[k] = "-o" /\ argv[k + 1] = w
  \/ opts.v /\ LOGFILENAME = w

(* What has been looked at is a reading of the line that means the options   *)
(* found; every reading of the line has an option at the word that is next.  *)
ArgsInv ==
  /\ ArgsTypeOK
  /\ status = "ok" => argv # <<>>
  /\ status \in {"args", "ok"} => \A w \in emptied : Excused(w)
  /\ status = "args" => \E places \in Readings(i - 1) : Means(places)
  /\ status = "args" => i <= Len(argv) + 1 \/ argv = <<>>
  /\ status = "args" => \A places \in Readings(Len(argv) - 1) : i < Len(argv) => i \in places
  /\ ArgsAsUsage

-----------------------------------------------------------------------------

LEMMA TreeFacts ==
  /\ Root \in Dirs /\ Root \in Words /\ Words \subseteq Files
  /\ \A w \in Words : w \in Dirs => w = Root
  /\ \A d \in Dirs : Below(d) \subseteq Files /\ Below(d) \intersect Dirs = {}
                     /\ Below(d) \subseteq Entries[d] /\ Root \notin Entries[d]
  /\ \A d, e \in Dirs : \A f : f \in Entries[d] /\ f \in Entries[e] => d = e
<1>1. \A d, e \in Dirs : \A f : f \in Entries[d] /\ f \in Entries[e] => d = e
  BY ForensicAssumption
<1>2. ASSUME NEW d \in Dirs, NEW f \in Below(d)
      PROVE  f \in Files
  <2>1. f \in Entries[d] /\ f \notin Dirs
    BY DEF Below
  <2>2. f \in UNION {Entries[e] : e \in Dirs}
    BY <2>1
  <2> QED
    BY <2>1, <2>2 DEF Files
<1>3. Root \in Dirs /\ Root \in Words /\ \A w \in Words : w \in Dirs => w = Root
  BY ForensicAssumption
<1> QED
  BY <1>1, <1>2, <1>3, ForensicAssumption DEF Below, Files

LEMMA EntriesAreNamed ==
  ASSUME NEW d \in Dirs
  PROVE  Entries[d] \subseteq Dirs \union Files
  BY TreeFacts DEF Below

LEMMA HasFile ==
  ASSUME ScanInv, NEW d \in Dirs, at[d] \in AtFile
  PROVE  entry[d] \in Files /\ status = "run"
<1>1. status = "run"
  BY DEF ScanInv, Quiet, AtFile
<1>2. CASE Scanning
  BY <1>1, <1>2, TreeFacts DEF ScanInv, TreeInv, TreeOK
<1>3. CASE OneFile
  BY <1>1, <1>3, TreeFacts DEF ScanInv, FileInv, Quiet, AtFile
<1> QED
  BY <1>1, <1>2, <1>3 DEF Scanning, OneFile

LEMMA HasDir ==
  ASSUME ScanInv, NEW d \in Dirs, at[d] = "fork"
  PROVE  entry[d] \in Dirs /\ Scanning
<1>1. status = "run" /\ ~ OneFile
  BY DEF ScanInv, Quiet, FileInv, AtFile
<1> QED
  BY <1>1 DEF ScanInv, TreeInv, TreeOK, Scanning, OneFile

LEMMA TellsType ==
  ASSUME ForensicTypeOK, NEW d \in Dirs, NEW signal \in {"USR1", "USR2"},
         Tells(d, signal) \/ Handles(signal)
  PROVE  numDirs' \in Nat /\ numFiles' \in Nat /\ pending' \subseteq {"USR1", "USR2"}
<1>1. CASE Handles(signal)
  BY <1>1 DEF Handles, ForensicTypeOK
<1>2. CASE ~ Handles(signal)
  BY <1>2 DEF Tells, ForensicTypeOK, usrVars
<1> QED
  BY <1>1, <1>2

(* A step keeps the types: a process has a file of its own directory.        *)
LEMMA TypeKept ==
  ASSUME ScanInv, ArgsInv, [Next]_forensicVars
  PROVE  ForensicTypeOK'
<1>0. ForensicTypeOK
  BY DEF ScanInv
<1> USE DEF ForensicTypeOK, argVars, scanVars, usrVars, intVars
<1>1. CASE ProcessArgs /\ UNCHANGED scanVars
  BY <1>0, <1>1 DEF ProcessArgs, OptionR, OptionH, OptionHSkipping, OptionO, OptionV, Unrecognized,
                    LastArg, ExitWith, Skip
<1>2. CASE Start
  <2>1. Last(argv) \in Words
    BY <1>2 DEF Start, ArgsInv, ArgsTypeOK, Last
  <2>2. at' \in [Dirs -> Places] /\ entry' \in [Dirs -> Dirs \union Files \union {NoLog}]
    BY <1>0, <1>2, <2>1, TreeFacts DEF Start, Places
  <2> QED
    BY <1>0, <1>2, <2>1, <2>2 DEF Start
<1>3. ASSUME NEW d \in Dirs, Process(d)
      PROVE  ForensicTypeOK'
  <2>1. CASE ScanDir(d)
    BY <1>0, <2>1, TellsType DEF ScanDir, Moves, Places
  <2>2. CASE OpenDir(d)
    BY <1>0, <2>2, EntriesAreNamed DEF OpenDir, Moves, Places
  <2>3. CASE ReadEntry(d)
    <3>1. PICK e \in left[d] : /\ left' = [left EXCEPT ![d] = @ \ {e}] /\ entry' = [entry EXCEPT ![d] = e]
                               /\ at' \in [Dirs -> Places]
      BY <1>0, <2>3 DEF ReadEntry, Moves, Places
    <3>2. e \in Dirs \union Files
      BY <1>0, <3>1, TreeFacts DEF Below
    <3> QED
      BY <1>0, <2>3, <3>1, <3>2 DEF ReadEntry
  <2>4. CASE EndOfDir(d) \/ WaitForChildren(d) \/ Redirect(d) \/ Restore(d)
    BY <1>0, <2>4 DEF EndOfDir, WaitForChildren, Redirect, Restore, Moves, Places, AfterFile
  <2>5. CASE Fork(d)
    <3>1. at' \in [Dirs -> Places] /\ left' \in [Dirs -> SUBSET (Dirs \union Files)]
          /\ \A e \in Dirs : left'[e] \subseteq Entries[e]
      BY <1>0, <2>5 DEF Fork, ForkWith, Moves, Places
    <3>2. flag' \in [Dirs -> BOOLEAN] /\ astray' \subseteq Dirs
      BY <1>0, <2>5, HasDir DEF Fork, ForkWith
    <3> QED
      BY <1>0, <2>5, <3>1, <3>2 DEF Fork, ForkWith
  <2>6. CASE BeginFile(d)
    <3>1. entry[d] \in Files
      BY <2>6, HasFile DEF BeginFile, Moves, AtFile
    <3>2. at' \in [Dirs -> Places] /\ late' \subseteq Dirs \X Files
      BY <1>0, <2>6, <3>1 DEF BeginFile, Moves, Begins, Places
    <3> QED
      BY <1>0, <2>6, <3>2, TellsType DEF BeginFile
  <2>7. CASE ListFile(d)
    <3>1. entry[d] \in Files
      BY <2>7, HasFile DEF ListFile, Moves, AtFile
    <3>2. lines' \in [Files -> Nat] /\ at' \in [Dirs -> Places]
      BY <1>0, <2>7, <3>1 DEF ListFile, Moves, Places, AfterFile
    <3> QED
      BY <1>0, <2>7, <3>2 DEF ListFile
  <2> QED
    BY <1>3, <2>1, <2>2, <2>3, <2>4, <2>5, <2>6, <2>7 DEF Process
<1>4. ASSUME NEW d \in Dirs, HandleInt(d)
      PROVE  ForensicTypeOK'
  BY <1>0, <1>4 DEF HandleInt, Interrupts, Moves, Places
<1>5. ASSUME NEW signal \in {"USR1", "USR2"}, HandleUsr(signal)
      PROVE  ForensicTypeOK'
  BY <1>0, <1>5, TreeFacts, TellsType DEF HandleUsr, Interrupts, Moves, Places
<1>6. CASE PressInt
  BY <1>0, <1>6 DEF PressInt
<1>7. CASE UNCHANGED forensicVars
  BY <1>0, <1>7 DEF forensicVars
<1> QED
  BY <1>1, <1>2, <1>3, <1>4, <1>5, <1>6, <1>7 DEF Next

(* Every step but the first is one of a run that is on.                      *)
LEMMA RunGoesOn ==
  ASSUME ScanInv, NEW d \in Dirs,
         Process(d) \/ HandleInt(d) \/ (\E signal \in {"USR1", "USR2"} : HandleUsr(signal))
  PROVE  status = "run" /\ UNCHANGED <<argVars, path, broken>>
<1>1. ForensicTypeOK /\ Quiet
  BY DEF ScanInv
<1>2. ASSUME NEW e \in Dirs, at[e] # "off"
      PROVE  status = "run"
  BY <1>1, <1>2 DEF Quiet
<1>3. CASE Process(d)
  BY <1>2, <1>3 DEF Process, ScanDir, OpenDir, ReadEntry, EndOfDir, Fork, ForkWith, BeginFile,
                    Redirect,
                    ListFile, Restore, WaitForChildren, Moves
<1>4. CASE HandleInt(d)
  BY <1>2, <1>4 DEF HandleInt, Alive, Ended
<1>5. CASE \E signal \in {"USR1", "USR2"} : HandleUsr(signal)
  BY <1>2, <1>5, TreeFacts DEF HandleUsr, Alive, Ended
<1> QED
  BY <1>3, <1>4, <1>5

LEMMA FileSteps ==
  ASSUME FileInv, OneFile, NEW d \in Dirs, Process(d)
  PROVE  d = Root /\ (BeginFile(d) \/ Redirect(d) \/ ListFile(d) \/ Restore(d))
  BY TreeFacts DEF FileInv, AtFile, Process, ScanDir, OpenDir, ReadEntry, EndOfDir, Fork, ForkWith,
                   BeginFile, Redirect, ListFile, Restore, WaitForChildren, Moves

(* A file that is asked for by its name is listed once, and no directory is  *)
(* looked at.                                                                *)
LEMMA FileKept ==
  ASSUME ScanInv, OneFile, NEW d \in Dirs,
         Process(d) \/ HandleInt(d) \/ (\E signal \in {"USR1", "USR2"} : HandleUsr(signal))
  PROVE  FileInv' /\ OneFile'
<1>1. ForensicTypeOK /\ Quiet /\ FileInv
  BY DEF ScanInv
<1>2. status = "run" /\ UNCHANGED <<argVars, path, broken>> /\ OneFile' /\ AfterFile = "done"
  BY RunGoesOn DEF OneFile, argVars, AfterFile
<1>3. path \in Files /\ Root \in Dirs
  BY <1>1, TreeFacts DEF OneFile, Quiet
<1>4. CASE Process(d)
  <2>1. d = Root /\ (BeginFile(d) \/ Redirect(d) \/ ListFile(d) \/ Restore(d))
    BY <1>1, <1>4, FileSteps
  <2>2. CASE BeginFile(d) \/ Redirect(d) \/ Restore(d)
    BY <1>1, <1>2, <2>1, <2>2 DEF FileInv, AtFile, BeginFile, Redirect, Restore, Moves,
                                  ForensicTypeOK
  <2>3. CASE ListFile(d)
    BY <1>1, <1>2, <1>3, <2>1, <2>3 DEF FileInv, AtFile, ListFile, Moves, ForensicTypeOK
  <2> QED
    BY <2>1, <2>2, <2>3
<1>5. CASE HandleInt(d) \/ \E signal \in {"USR1", "USR2"} : HandleUsr(signal)
  <2>1. UNCHANGED <<at, entry, lines>>
    BY <1>1, <1>5 DEF FileInv, HandleInt, HandleUsr, Interrupts, Moves, AtFile, OneFile
  <2> QED
    BY <1>1, <1>2, <2>1 DEF FileInv, OneFile
<1> QED
  BY <1>2, <1>4, <1>5

(* What of a directory has not been read is nobody's, whatever is done with  *)
(* another directory.                                                        *)
LEMMA TreeKept ==
  ASSUME ScanInv, Scanning, NEW d \in Dirs,
         Process(d) \/ HandleInt(d) \/ (\E signal \in {"USR1", "USR2"} : HandleUsr(signal))
  PROVE  TreeInv' /\ Scanning'
<1>1. ForensicTypeOK /\ Quiet /\ TreeInv
  BY DEF ScanInv
<1>2. status = "run" /\ UNCHANGED <<argVars, path, broken>> /\ Scanning' /\ AfterFile = "loop"
  BY RunGoesOn DEF Scanning, argVars, AfterFile
<1>3. \A e \in Dirs : TreeOK(e)
  BY <1>1, <1>2 DEF TreeInv
<1> SUFFICES (\A e \in Dirs : TreeOK(e)') /\ \A f \in Files : lines'[f] <= 1
  BY <1>2 DEF TreeInv
<1>4. CASE ScanDir(d)
  BY <1>1, <1>2, <1>3, <1>4 DEF ScanDir, Moves, TreeInv, TreeOK, Unread, AtFile, ForensicTypeOK,
                                Below
<1>5. CASE OpenDir(d)
  BY <1>1, <1>2, <1>3, <1>5 DEF OpenDir, Moves, TreeInv, TreeOK, Unread, AtFile, ForensicTypeOK,
                                Below
<1>6. CASE ReadEntry(d)
  BY <1>1, <1>2, <1>3, <1>6 DEF ReadEntry, Moves, TreeInv, TreeOK, Unread, AtFile, ForensicTypeOK,
                                Below
<1>7. CASE Fork(d)
  <2> DEFINE c == entry[d]
  <2>1. c \in Entries[d] \ left[d] /\ c \in Dirs /\ at[c] = "off" /\ at[d] = "fork" /\ c # d
    BY <1>2, <1>3, <1>7 DEF Fork, ForkWith, Moves, TreeOK, Scanning
  <2>2. UNCHANGED <<entry, lines>>
    BY <1>7 DEF Fork, ForkWith
  <2>3. CASE /\ at' = [at EXCEPT ![d] = "loop", ![c] = "enter"]
             /\ left' = [left EXCEPT ![c] = {}]
    <3>1. /\ at'[d] = "loop" /\ at'[c] = "enter" /\ \A e \in Dirs \ {c, d} : at'[e] = at[e]
          /\ left'[c] = {} /\ \A e \in Dirs \ {c} : left'[e] = left[e]
      BY <1>1, <2>1, <2>3 DEF ForensicTypeOK
    <3>2. ASSUME NEW e \in Dirs
          PROVE  TreeOK(e)'
      <4>1. CASE e = c
        BY <1>3, <2>1, <2>2, <3>1, <4>1, TreeFacts DEF TreeOK, Unread, AtFile, Below
      <4>2. CASE e # c
        BY <1>3, <2>1, <2>2, <3>1, <4>2, TreeFacts DEF TreeOK, Unread, AtFile, Below
      <4> QED
        BY <4>1, <4>2
    <3> QED
      BY <1>1, <1>2, <2>2, <3>2 DEF TreeInv
  <2>4. CASE at' = [at EXCEPT ![d] = "failed"] /\ left' = left
    BY <1>1, <1>2, <1>3, <2>1, <2>2, <2>4 DEF TreeInv, TreeOK, Unread, AtFile, ForensicTypeOK, Below
  <2> QED
    BY <1>7, <2>3, <2>4 DEF Fork, ForkWith, Moves
<1>8. CASE ListFile(d)
  BY <1>1, <1>2, <1>3, <1>8, HasFile, TreeFacts DEF ListFile, Moves, TreeInv, TreeOK, Unread,
                                                    AtFile, ForensicTypeOK, Below
<1>9. CASE EndOfDir(d) \/ BeginFile(d) \/ Redirect(d) \/ Restore(d) \/ WaitForChildren(d)
  BY <1>1, <1>2, <1>3, <1>9 DEF EndOfDir, BeginFile, Redirect, Restore, WaitForChildren, Moves,
                                TreeInv, TreeOK, Unread, AtFile, ForensicTypeOK, Below
<1>10. CASE HandleInt(d) \/ \E signal \in {"USR1", "USR2"} : HandleUsr(signal)
  BY <1>1, <1>2, <1>3, <1>10, TreeFacts DEF HandleInt, HandleUsr, Interrupts, Moves, TreeInv,
                                            TreeOK, Unread, AtFile, ForensicTypeOK, Below
<1> QED
  BY <1>4, <1>5, <1>6, <1>7, <1>8, <1>9, <1>10 DEF Process

LEMMA StartKept ==
  ASSUME ScanInv, ArgsInv, Start
  PROVE  Quiet' /\ FileInv' /\ TreeInv'
<1>1. ForensicTypeOK /\ Quiet /\ status = "ok" /\ status' = "run" /\ kind' = kind
  BY DEF ScanInv, Start
<1>2. path' \in Words /\ path' = Last(argv)
  BY DEF Start, ArgsInv, ArgsTypeOK, Last
<1>3. Quiet'
  BY <1>1, <1>2 DEF Quiet
<1>4. CASE kind[path'] = "dir"
  <2>1. at' = [at EXCEPT ![Root] = "enter"] /\ UNCHANGED <<entry, left, lines>>
    BY <1>2, <1>4 DEF Start
  <2> QED
    BY <1>1, <1>3, <1>4, <2>1, TreeFacts DEF Quiet, FileInv, TreeInv, TreeOK, Unread, AtFile,
                                             OneFile,
                                         Scanning, ForensicTypeOK, Below
<1>5. CASE kind[path'] # "dir"
  <2>1. at' = [at EXCEPT ![Root] = "begin"] /\ entry' = [entry EXCEPT ![Root] = path']
        /\ UNCHANGED <<left, lines>>
    BY <1>2, <1>5 DEF Start
  <2> QED
    BY <1>1, <1>2, <1>3, <1>5, <2>1, TreeFacts DEF Quiet, FileInv, TreeInv, AtFile, OneFile,
                                         Scanning, ForensicTypeOK
<1> QED
  BY <1>3, <1>4, <1>5

LEMMA ArgsGoOn ==
  ASSUME ProcessArgs
  PROVE  status = "args" /\ status' # "run"
  BY DEF ProcessArgs, OptionR, OptionH, OptionHSkipping, OptionO, OptionV, Unrecognized, LastArg,
         Word,
         ExitWith, Skip

LEMMA ScanInvInit == Init => ScanInv
<1> SUFFICES ASSUME Init
             PROVE  ScanInv
  OBVIOUS
<1>1. ForensicTypeOK
  BY DEF Init, ArgsInit, ForensicTypeOK, Places
<1>2. Quiet /\ FileInv /\ TreeInv
  BY DEF Init, ArgsInit, Quiet, FileInv, TreeInv, OneFile, Scanning
<1> QED
  BY <1>1, <1>2 DEF ScanInv

LEMMA ScanInvStep ==
  ASSUME ScanInv, ArgsInv, [Next]_forensicVars
  PROVE  ScanInv'
<1>1. ForensicTypeOK'
  BY TypeKept
<1> SUFFICES Quiet' /\ FileInv' /\ TreeInv'
  BY <1>1 DEF ScanInv
<1>2. Quiet /\ FileInv /\ TreeInv /\ Root \in Dirs
  BY TreeFacts DEF ScanInv
<1>3. CASE ProcessArgs /\ UNCHANGED scanVars
  BY <1>2, <1>3, ArgsGoOn DEF scanVars, usrVars, Quiet, FileInv, TreeInv, OneFile, Scanning
<1>4. CASE Start
  BY <1>4, StartKept
<1>5. ASSUME NEW d \in Dirs,
             Process(d) \/ HandleInt(d) \/ (\E signal \in {"USR1", "USR2"} : HandleUsr(signal))
      PROVE  Quiet' /\ FileInv' /\ TreeInv'
  <2>1. status = "run" /\ UNCHANGED <<argVars, path, broken>>
    BY <1>5, RunGoesOn
  <2>2. Quiet'
    BY <1>2, <2>1 DEF Quiet, argVars
  <2>3. CASE Scanning
    BY <1>5, <2>2, <2>3, TreeKept DEF Scanning, FileInv, OneFile
  <2>4. CASE OneFile
    BY <1>5, <2>2, <2>4, FileKept DEF Scanning, TreeInv, OneFile
  <2> QED
    BY <2>1, <2>3, <2>4 DEF Scanning, OneFile
<1>6. CASE PressInt \/ UNCHANGED forensicVars
  <2>1. UNCHANGED <<argVars, path, at, left, entry, lines, numDirs, numFiles>>
    BY <1>6 DEF PressInt, forensicVars, scanVars, usrVars
  <2> QED
    BY <1>2, <2>1 DEF argVars, Quiet, FileInv, TreeInv, OneFile, Scanning, TreeOK, Below
<1> QED
  BY <1>2, <1>3, <1>4, <1>5, <1>6 DEF Next

-----------------------------------------------------------------------------
(* SIGINT *)

LEMMA QuietOff ==
  ASSUME ScanInv, status # "run"
  PROVE  \A d \in Dirs : at[d] = "off"
  BY DEF ScanInv, Quiet

LEMMA SigIntKept ==
  ASSUME ScanInv, SigIntInv, [Next]_forensicVars
  PROVE  SigIntInv'
<1> SUFFICES ASSUME NEW e \in Dirs
             PROVE  SigIntOK(e)'
  BY DEF SigIntInv
<1>1. ForensicTypeOK /\ Root \in Dirs /\ \A d \in Dirs : SigIntOK(d)
  BY TreeFacts DEF ScanInv, SigIntInv
<1> USE DEF SigIntOK, HeededBy, Alive, Ended
<1>2. CASE UNCHANGED <<intVars, at, late>>
  BY <1>1, <1>2 DEF intVars
<1>3. CASE Start
  <2>1. pressed = {} /\ UNCHANGED <<pressed, unheeded, flag, late>> /\ \A d \in Dirs : at[d] = "off"
    BY <1>1, <1>3, QuietOff DEF Start, intVars, ForensicTypeOK
  <2> QED
    BY <1>1, <2>1
<1>4. ASSUME NEW d \in Dirs, Process(d)
      PROVE  SigIntOK(e)'
  <2>1. CASE ScanDir(d) \/ OpenDir(d) \/ EndOfDir(d) \/ Redirect(d) \/ ListFile(d) \/ Restore(d)
             \/ WaitForChildren(d)
    <3>1. UNCHANGED <<pressed, unheeded, flag, late>> /\ at[d] \notin Ended
          /\ at'[d] \notin {"off", "begin"} /\ (\A c \in Dirs \ {d} : at'[c] = at[c])
          /\ (at[d] \in {"enter", "opendir", "loop", "wait"} =>
                at'[d] \in {"opendir", "crashed", "loop", "wait", "done"})
      BY <1>1, <2>1 DEF ScanDir, OpenDir, EndOfDir, Redirect, ListFile, Restore, WaitForChildren,
                        Moves,
                        intVars, ForensicTypeOK, AfterFile
    <3> QED
      BY <1>1, <3>1
  <2>2. CASE ReadEntry(d)
    <3>1. UNCHANGED <<pressed, unheeded, flag, late>> /\ at[d] = "loop" /\ ~ flag[d]
          /\ at'[d] # "off" /\ \A c \in Dirs \ {d} : at'[c] = at[c]
      BY <1>1, <2>2 DEF ReadEntry, Moves, intVars, ForensicTypeOK
    <3> QED
      BY <1>1, <3>1
  <2>3. CASE Fork(d)
    <3>1. UNCHANGED <<pressed, unheeded, late>> /\ at[d] = "fork" /\ d \notin unheeded
          /\ entry[d] \in Dirs /\ at[entry[d]] = "off" /\ entry[d] # d
      BY <1>2, <2>3, HasDir DEF Fork, ForkWith, Moves, ScanInv, TreeInv, TreeOK
    <3>2. CASE at' = [at EXCEPT ![d] = "loop", ![entry[d]] = "enter"]
               /\ flag' = [flag EXCEPT ![entry[d]] = flag[d]]
      BY <1>1, <3>1, <3>2 DEF ForensicTypeOK
    <3>3. CASE at' = [at EXCEPT ![d] = "failed"] /\ flag' = flag
      BY <1>1, <3>1, <3>3 DEF ForensicTypeOK
    <3> QED
      BY <2>3, <3>2, <3>3 DEF Fork, ForkWith, Moves
  <2>4. CASE BeginFile(d)
    <3>1. UNCHANGED <<pressed, unheeded, flag>> /\ at[d] = "begin" /\ at'[d] \in {"redirect", "list"}
          /\ \A c \in Dirs \ {d} : at'[c] = at[c]
      BY <1>1, <2>4 DEF BeginFile, Moves, intVars, ForensicTypeOK
    <3>2. late' = late \/ (late' = late \union {<<d, entry[d]>>} /\ HeededBy(d))
      BY <1>1, <2>4, <3>1 DEF BeginFile, Begins
    <3> QED
      BY <1>1, <3>1, <3>2
  <2> QED
    BY <1>4, <2>1, <2>2, <2>3, <2>4 DEF Process
<1>5. ASSUME NEW d \in Dirs, HandleInt(d)
      PROVE  SigIntOK(e)'
  <2>1. UNCHANGED <<pressed, late>> /\ at[d] \notin Ended /\ d \in unheeded /\ unheeded' = unheeded \ {d}
        /\ flag'[d] = TRUE /\ (\A c \in Dirs \ {d} : at'[c] = at[c] /\ flag'[c] = flag[c])
        /\ (at'[d] = at[d] \/ (at[d] = "wait" /\ at'[d] = "done"))
    BY <1>1, <1>5 DEF HandleInt, Interrupts, Moves, ForensicTypeOK
  <2> QED
    BY <1>1, <2>1 DEF ForensicTypeOK
<1>6. ASSUME NEW signal \in {"USR1", "USR2"}, HandleUsr(signal)
      PROVE  SigIntOK(e)'
  <2>1. UNCHANGED <<pressed, unheeded, flag, late>> /\ (\A c \in Dirs \ {Root} : at'[c] = at[c])
        /\ (at'[Root] = at[Root] \/ (at[Root] = "wait" /\ at'[Root] = "done"))
    BY <1>1, <1>6 DEF HandleUsr, Interrupts, Moves, ForensicTypeOK, intVars
  <2> QED
    BY <1>1, <2>1
<1>7. CASE PressInt
  BY <1>1, <1>7 DEF PressInt
<1> QED
  BY <1>2, <1>3, <1>4, <1>5, <1>6, <1>7 DEF Next, forensicVars, scanVars

-----------------------------------------------------------------------------
(* SIGUSR1 and SIGUSR2 *)

(* Whoever tells the first process of something: it is not pending unless    *)
(* another process has told it.                                              *)
LEMMA TellsKept ==
  ASSUME ScanInv, UsrInv, StrayOnlyByOthers, NEW d \in Dirs, NEW signal, Tells(d, signal),
         at[d] # "off", at[d] \notin {"list", "restore"},
         \A e \in Dirs : at[e] # "off" => at'[e] # "off", broken' = broken
  PROVE  /\ pending' # {} => opts.o /\ OthersRun'
         /\ StrayOnlyByOthers'
<1>1. Root \in Dirs /\ (OthersRun => OthersRun')
  BY TreeFacts DEF OthersRun
<1>2. CASE UNCHANGED usrVars
  BY <1>1, <1>2 DEF usrVars, UsrInv, StrayOnlyByOthers, OthersRun
<1>3. CASE opts.o /\ d = Root /\ Handles(signal)
  <2>1. Root \in astray => broken # {}
    BY <1>3 DEF UsrInv
  <2> QED
    BY <1>1, <1>3, <2>1 DEF Handles, UsrInv, StrayOnlyByOthers, OthersRun
<1>4. CASE opts.o /\ d # Root /\ stray' = stray
  <2>1. OthersRun'
    BY <1>4 DEF OthersRun
  <2> QED
    BY <1>4, <2>1 DEF OthersRun, StrayOnlyByOthers
<1> QED
  BY <1>2, <1>3, <1>4 DEF Tells

LEMMA UsrKept ==
  ASSUME ScanInv, UsrInv, StrayOnlyByOthers, [Next]_forensicVars
  PROVE  UsrInv' /\ StrayOnlyByOthers'
<1>1. ForensicTypeOK /\ Root \in Dirs /\ \A d \in Dirs : Root \notin Entries[d]
  BY TreeFacts DEF ScanInv
<1> USE DEF UsrInv
<1>2. CASE UNCHANGED <<usrVars, broken, at, saved, astray, opts>>
  BY <1>2 DEF usrVars, StrayOnlyByOthers, OthersRun
<1>3. CASE (ProcessArgs /\ UNCHANGED scanVars) \/ Start
  <2>1. \A d \in Dirs : at[d] = "off"
    BY <1>3, QuietOff, ArgsGoOn DEF Start
  <2>2. UNCHANGED <<usrVars, broken, saved, astray>>
    BY <1>3 DEF Start, scanVars
  <2> QED
    BY <1>1, <2>1, <2>2 DEF usrVars, OthersRun, StrayOnlyByOthers
<1>4. ASSUME NEW d \in Dirs, Process(d)
      PROVE  UsrInv' /\ StrayOnlyByOthers'
  <2>1. UNCHANGED <<opts, broken>>
    BY <1>4, RunGoesOn DEF argVars
  <2>2. ASSUME NEW signal, Tells(d, signal), at[d] \in {"enter", "begin"}, UNCHANGED <<saved, astray>>,
               at'[d] # "off", \A e \in Dirs \ {d} : at'[e] = at[e]
        PROVE  UsrInv' /\ StrayOnlyByOthers'
    BY <1>1, <2>1, <2>2, TellsKept
  <2>3. CASE ScanDir(d)
    BY <1>1, <2>2, <2>3 DEF ScanDir, Moves, ForensicTypeOK
  <2>4. CASE BeginFile(d)
    BY <1>1, <2>2, <2>4 DEF BeginFile, Moves, ForensicTypeOK
  <2>5. CASE OpenDir(d) \/ ReadEntry(d) \/ EndOfDir(d) \/ WaitForChildren(d)
    <3>1. UNCHANGED <<usrVars, saved, astray>> /\ at[d] \notin {"off", "list", "restore"} /\ at'[d] # "off"
          /\ \A e \in Dirs \ {d} : at'[e] = at[e]
      BY <1>1, <2>5 DEF OpenDir, ReadEntry, EndOfDir, WaitForChildren, Moves, ForensicTypeOK
    <3> QED
      BY <1>1, <2>1, <3>1 DEF usrVars, OthersRun, StrayOnlyByOthers
  <2>6. CASE Fork(d)
    <3>1. UNCHANGED <<usrVars, saved>> /\ at[d] = "fork" /\ at'[d] # "off" /\ entry[d] \in Dirs \ {Root}
          /\ (\A e \in Dirs : at[e] # "off" => at'[e] # "off")
          /\ (astray' = astray \/ (d \in astray /\ astray' = astray \union {entry[d]}))
      BY <1>1, <2>6, HasDir DEF Fork, ForkWith, Moves, ForensicTypeOK, ScanInv, TreeInv, TreeOK
    <3>2. Root \in astray' => broken # {} \/ at'[Root] \in {"list", "restore"}
      BY <1>1, <3>1, <2>6 DEF Fork, ForkWith, Moves, ForensicTypeOK
    <3> QED
      BY <1>1, <2>1, <3>1, <3>2 DEF usrVars, OthersRun, StrayOnlyByOthers
  <2>7. CASE Redirect(d) \/ ListFile(d) \/ Restore(d)
    <3>1. UNCHANGED usrVars /\ at[d] # "off" /\ at'[d] # "off"
          /\ \A e \in Dirs \ {d} : at'[e] = at[e]
      BY <1>1, <2>7 DEF Redirect, ListFile, Restore, Moves, ForensicTypeOK, AfterFile
    <3>2. (Root \in saved' => broken # {}) /\ (Root \in astray' => broken # {} \/ at'[Root] \in {"list", "restore"})
      BY <1>1, <2>7, <3>1 DEF Redirect, ListFile, Restore, Moves, ForensicTypeOK, AfterFile
    <3> QED
      BY <1>1, <2>1, <3>1, <3>2 DEF usrVars, OthersRun, StrayOnlyByOthers
  <2> QED
    BY <1>4, <2>3, <2>4, <2>5, <2>6, <2>7 DEF Process
<1>5. ASSUME NEW d \in Dirs, HandleInt(d)
      PROVE  UsrInv' /\ StrayOnlyByOthers'
  <2>1. UNCHANGED <<usrVars, saved, astray, opts, broken>> /\ at[d] # "off" /\ at'[d] # "off"
        /\ (at'[d] = at[d] \/ at[d] = "wait") /\ \A e \in Dirs \ {d} : at'[e] = at[e]
    BY <1>1, <1>5 DEF HandleInt, Interrupts, Moves, ForensicTypeOK, Alive, Ended, argVars
  <2> QED
    BY <1>1, <2>1 DEF usrVars, OthersRun, StrayOnlyByOthers
<1>6. ASSUME NEW signal \in {"USR1", "USR2"}, HandleUsr(signal)
      PROVE  UsrInv' /\ StrayOnlyByOthers'
  <2>1. UNCHANGED <<saved, astray, opts, broken>> /\ pending' \subseteq pending /\ pending # {}
        /\ at'[Root] # "off" /\ (at'[Root] = at[Root] \/ at[Root] = "wait")
        /\ \A e \in Dirs \ {Root} : at'[e] = at[e]
    BY <1>1, <1>6 DEF HandleUsr, Handles, Interrupts, Moves, ForensicTypeOK, Alive, Ended, argVars
  <2> QED
    BY <1>1, <2>1 DEF OthersRun, StrayOnlyByOthers
<1>7. CASE PressInt
  BY <1>2, <1>7 DEF PressInt, argVars
<1> QED
  BY <1>2, <1>3, <1>4, <1>5, <1>6, <1>7 DEF Next, forensicVars, scanVars, argVars

LEMMA ParentRuns ==
  ASSUME ScanInv, NEW d \in Dirs, NEW c \in Children(d)
  PROVE  c \in Dirs /\ c \in Entries[d] /\ at[c] # "off" /\ at[d] \notin Unread
<1>1. c \in Dirs /\ c \in Entries[d] /\ at[c] # "off"
  BY DEF Children
<1>2. Scanning
  BY <1>1, TreeFacts DEF ScanInv, Quiet, FileInv, Scanning, OneFile
<1> QED
  BY <1>1, <1>2 DEF ScanInv, TreeInv, TreeOK

LEMMA OrphansKept ==
  ASSUME ScanInv, ScanInv', UsrInv, OrphansOnlyIfInterrupted, [Next]_forensicVars
  PROVE  OrphansOnlyIfInterrupted'
<1> SUFFICES ASSUME NEW e \in Dirs, NEW c \in Children(e)', ~ Alive(e)', Alive(c)',
                    pressed' = {}, at'[e] \notin {"crashed", "failed"}
             PROVE  opts'.o /\ e = Root
  BY DEF OrphansOnlyIfInterrupted
<1>1. ForensicTypeOK /\ Root \in Dirs
  BY TreeFacts DEF ScanInv
<1>2. c \in Dirs /\ c \in Entries[e] /\ at'[c] # "off" /\ at'[e] = "done"
  <2>1. c \in Dirs /\ c \in Entries[e] /\ at'[c] # "off"
    BY DEF Children
  <2>2. Scanning'
    BY <2>1, TreeFacts DEF ScanInv, Quiet, FileInv, Scanning, OneFile
  <2>3. at'[e] # "off"
    BY <2>1, <2>2 DEF ScanInv, TreeInv, TreeOK, Unread
  <2> QED
    BY <2>1, <2>3 DEF Alive, Ended
<1>3. at'[c] \notin Ended
  BY DEF Alive
<1>4. ASSUME at[e] = "done", at[c] \notin Ended, pressed = {}, opts' = opts
      PROVE  opts'.o /\ e = Root
  BY <1>2, <1>4 DEF OrphansOnlyIfInterrupted, Children, Alive, Ended
<1>5. CASE UNCHANGED <<at, pressed, opts>>
  BY <1>2, <1>3, <1>4, <1>5
<1>6. CASE (ProcessArgs /\ UNCHANGED scanVars) \/ Start
  <2>1. \A d \in Dirs : at[d] = "off"
    BY <1>6, QuietOff, ArgsGoOn DEF Start
  <2> QED
    BY <1>1, <1>2, <1>6, <2>1 DEF Start, scanVars, ForensicTypeOK
<1>7. ASSUME NEW d \in Dirs, Process(d)
      PROVE  opts'.o /\ e = Root
  <2>1. opts' = opts /\ pressed = {}
    BY <1>7, RunGoesOn DEF argVars, Process, ScanDir, OpenDir, ReadEntry, EndOfDir, Fork, ForkWith,
                          BeginFile, Redirect, ListFile, Restore, WaitForChildren, intVars
  <2>2. CASE ScanDir(d) \/ OpenDir(d) \/ ReadEntry(d) \/ EndOfDir(d) \/ BeginFile(d) \/ Redirect(d)
    <3>1. at[d] \notin Ended /\ at'[d] # "done" /\ \A b \in Dirs \ {d} : at'[b] = at[b]
      BY <1>1, <2>2 DEF ScanDir, OpenDir, ReadEntry, EndOfDir, BeginFile, Redirect, Moves, Ended,
                        ForensicTypeOK
    <3> QED
      BY <1>2, <1>3, <1>4, <2>1, <3>1
  <2>3. CASE ListFile(d) \/ Restore(d)
    <3>1. at[d] \notin Ended /\ at'[d] \in {AfterFile, "restore"} /\ \A b \in Dirs \ {d} : at'[b] = at[b]
      BY <1>1, <2>3 DEF ListFile, Restore, Moves, Ended, ForensicTypeOK, AfterFile
    <3>2. Scanning
      <4>1. status = "run"
        BY <1>7, RunGoesOn
      <4> QED
        BY <1>2, <3>1, <4>1, TreeFacts DEF ScanInv, FileInv, Scanning, OneFile, Ended
    <3> QED
      BY <1>2, <1>3, <1>4, <2>1, <3>1, <3>2 DEF AfterFile, Scanning
  <2>4. CASE Fork(d)
    <3>1. at[d] = "fork" /\ at'[d] \in {"loop", "failed"} /\ entry[d] \in Entries[d] /\ entry[d] \in Dirs
          /\ at[entry[d]] = "off" /\ \A b \in Dirs \ {d, entry[d]} : at'[b] = at[b]
      BY <1>1, <2>4, HasDir DEF Fork, ForkWith, Moves, ForensicTypeOK, ScanInv, TreeInv, TreeOK
    <3>2. at'[entry[d]] \in {at[entry[d]], "enter"}
      BY <1>1, <2>4, <3>1 DEF Fork, ForkWith, Moves, ForensicTypeOK
    <3>3. c = entry[d] => e = d
      BY <1>2, <3>1, TreeFacts
    <3> QED
      BY <1>2, <1>3, <1>4, <2>1, <3>1, <3>2, <3>3 DEF Ended
  <2>5. CASE WaitForChildren(d)
    <3>1. at[d] = "wait" /\ (\A b \in Dirs \ {d} : at'[b] = at[b]) /\ at'[d] = "done"
          /\ \A b \in Children(d) : at[b] \in Ended
      BY <1>1, <2>5 DEF WaitForChildren, Moves, ForensicTypeOK, Alive
    <3> QED
      BY <1>2, <1>3, <1>4, <2>1, <3>1 DEF Children, Ended
  <2> QED
    BY <1>7, <2>2, <2>3, <2>4, <2>5 DEF Process
<1>8. ASSUME NEW d \in Dirs, HandleInt(d)
      PROVE  FALSE
  BY <1>1, <1>8 DEF HandleInt, ForensicTypeOK
<1>9. ASSUME NEW signal \in {"USR1", "USR2"}, HandleUsr(signal)
      PROVE  opts'.o /\ e = Root
  <2>1. opts' = opts /\ opts.o /\ pressed = {} /\ at[Root] \notin Ended
        /\ \A b \in Dirs \ {Root} : at'[b] = at[b]
    BY <1>1, <1>9 DEF HandleUsr, argVars, intVars, UsrInv, Interrupts, Moves, ForensicTypeOK, Alive
  <2> QED
    BY <1>2, <1>3, <1>4, <2>1
<1>10. CASE PressInt
  BY <1>10 DEF PressInt
<1> QED
  BY <1>5, <1>6, <1>7, <1>8, <1>9, <1>10 DEF Next, forensicVars, scanVars, argVars, intVars

-----------------------------------------------------------------------------
(* The counts *)

LEMMA BegunAre ==
  /\ \A f : f \in BegunFiles <=> \E d \in Dirs : at[d] \notin Unread /\ f \in BegunIn(d)
  /\ \A f : f \in BegunFiles' <=> \E d \in Dirs : at'[d] \notin Unread /\ f \in BegunIn(d)'
  BY DEF BegunFiles

LEMMA BegunFinite ==
  /\ IsFiniteSet(BegunDirs) /\ IsFiniteSet(BegunDirs')
  /\ IsFiniteSet(BegunFiles) /\ IsFiniteSet(BegunFiles')
<1> DEFINE All == UNION {Entries[d] : d \in Dirs}
<1>1. BegunDirs \in SUBSET Dirs /\ BegunDirs' \in SUBSET Dirs
  BY DEF BegunDirs
<1>2. BegunFiles \in SUBSET All /\ BegunFiles' \in SUBSET All
  BY BegunAre DEF BegunIn
<1>3. IsFiniteSet(All) /\ IsFiniteSet(Dirs)
  BY ForensicAssumption
<1> HIDE DEF All
<1> QED
  BY <1>1, <1>2, <1>3, FS_Subset

(* As far as counting goes, a signal is sent at most once for what has been  *)
(* begun with.                                                               *)
LEMMA TellsOnce ==
  ASSUME ForensicTypeOK, NEW d \in Dirs, NEW signal \in {"USR1", "USR2"}, Tells(d, signal)
  PROVE  /\ numDirs' + Waiting("USR1")' <= numDirs + Waiting("USR1") + (IF signal = "USR1" THEN 1 ELSE 0)
         /\ numFiles' + Waiting("USR2")' <= numFiles + Waiting("USR2") + (IF signal = "USR2" THEN 1 ELSE 0)
<1>1. numDirs \in Nat /\ numFiles \in Nat
  BY DEF ForensicTypeOK
<1>2. CASE Handles(signal)
  BY <1>1, <1>2 DEF Handles, Waiting
<1>3. CASE pending' \in {pending, pending \union {signal}} /\ numDirs' = numDirs /\ numFiles' = numFiles
  BY <1>1, <1>3 DEF Waiting
<1> QED
  BY <1>2, <1>3 DEF Tells, usrVars

(* What a step of a process begins with *)
LEMMA BegunByStep ==
  ASSUME ScanInv, Scanning, NEW d \in Dirs, Process(d)
  PROVE  /\ BegunDirs' = IF ScanDir(d) THEN BegunDirs \union {d} ELSE BegunDirs
         /\ ScanDir(d) => d \notin BegunDirs
         /\ BegunFiles' = IF BeginFile(d) THEN BegunFiles \union {entry[d]} ELSE BegunFiles
         /\ BeginFile(d) => entry[d] \notin BegunFiles
<1>1. ForensicTypeOK /\ \A e \in Dirs : TreeOK(e)
  BY DEF ScanInv, TreeInv
<1>2. AfterFile = "loop"
  BY DEF AfterFile, Scanning
<1>3. CASE ScanDir(d)
  <2>1. BegunDirs' = BegunDirs \union {d} /\ d \notin BegunDirs /\ ~ BeginFile(d)
    BY <1>1, <1>3 DEF ScanDir, BeginFile, Moves, BegunDirs, ForensicTypeOK
  <2>2. \A f : f \in BegunFiles' <=> f \in BegunFiles
    BY <1>1, <1>3, BegunAre DEF ScanDir, Moves, BegunIn, ForensicTypeOK, Unread
  <2> QED
    BY <1>3, <2>1, <2>2
<1>4. CASE BeginFile(d)
  <2>1. BegunDirs' = BegunDirs /\ ~ ScanDir(d)
    BY <1>1, <1>4 DEF ScanDir, BeginFile, Moves, BegunDirs, ForensicTypeOK
  <2>2. entry[d] \in Entries[d] \ (Dirs \union left[d]) /\ at[d] = "begin" /\ at'[d] \in {"redirect", "list"}
        /\ (\A e \in Dirs \ {d} : at'[e] = at[e]) /\ UNCHANGED <<left, entry>>
    BY <1>1, <1>4 DEF TreeOK, AtFile, Below, BeginFile, Moves, ForensicTypeOK
  <2>3. \A f : f \in BegunFiles' <=> f \in BegunFiles \/ f = entry[d]
    BY <2>2, BegunAre DEF BegunIn, Unread
  <2>4. entry[d] \notin BegunFiles
    BY <2>2, TreeFacts, BegunAre DEF BegunIn
  <2> QED
    BY <1>4, <2>1, <2>3, <2>4
<1>5. ASSUME ~ ScanDir(d), ~ BeginFile(d)
      PROVE  (\A e \in Dirs : e \in BegunDirs' <=> e \in BegunDirs) /\ \A f : f \in BegunFiles' <=> f \in BegunFiles
  <2>1. CASE OpenDir(d)
    <3>1. /\ left[d] = {} /\ at[d] = "opendir" /\ at'[d] \in {"crashed", "loop"} /\ left'[d] = Entries[d]
          /\ (\A e \in Dirs \ {d} : at'[e] = at[e] /\ left'[e] = left[e]) /\ UNCHANGED entry
      BY <1>1, <2>1 DEF OpenDir, Moves, ForensicTypeOK, TreeOK, Unread
    <3> QED
      BY <3>1, BegunAre DEF BegunDirs, BegunIn, Unread
  <2>2. CASE ReadEntry(d)
    <3>1. PICK e \in left[d] :
            /\ at[d] = "loop" /\ left'[d] = left[d] \ {e} /\ entry'[d] = e
            /\ at'[d] \in {"begin", "fork", "loop"} /\ (at'[d] # "begin" => e \in Dirs)
            /\ (\A b \in Dirs \ {d} : at'[b] = at[b] /\ left'[b] = left[b] /\ entry'[b] = entry[b])
      BY <1>1, <2>2 DEF ReadEntry, Moves, ForensicTypeOK
    <3>2. \A f : f \in BegunIn(d)' <=> f \in BegunIn(d)
      BY <1>1, <3>1 DEF BegunIn, ForensicTypeOK
    <3> QED
      BY <3>1, <3>2, BegunAre DEF BegunDirs, BegunIn, Unread
  <2>3. CASE Fork(d)
    <3>1. /\ at[d] = "fork" /\ at'[d] \in {"loop", "failed"} /\ entry[d] \in Dirs /\ entry[d] # d
          /\ at[entry[d]] = "off" /\ at'[entry[d]] \in {"off", "enter"} /\ UNCHANGED entry
          /\ (\A b \in Dirs \ {d, entry[d]} : at'[b] = at[b])
          /\ (\A b \in Dirs \ {entry[d]} : left'[b] = left[b])
      BY <1>1, <2>3, HasDir DEF Fork, ForkWith, Moves, ForensicTypeOK, TreeOK
    <3> QED
      BY <3>1, BegunAre DEF BegunDirs, BegunIn, Unread
  <2>4. CASE EndOfDir(d) \/ WaitForChildren(d) \/ Redirect(d) \/ ListFile(d) \/ Restore(d)
    <3>1. /\ at[d] \notin (Unread \union {"begin"}) /\ at'[d] \notin (Unread \union {"begin"})
          /\ (\A b \in Dirs \ {d} : at'[b] = at[b]) /\ UNCHANGED <<left, entry>>
      BY <1>1, <1>2, <2>4 DEF EndOfDir, WaitForChildren, Redirect, ListFile, Restore, Moves,
                              ForensicTypeOK,
                              Unread
    <3> QED
      BY <3>1, BegunAre DEF BegunDirs, BegunIn, Unread
  <2> QED
    BY <1>5, <2>1, <2>2, <2>3, <2>4 DEF Process
<1>6. ASSUME ~ ScanDir(d), ~ BeginFile(d)
      PROVE  BegunDirs' = BegunDirs /\ BegunFiles' = BegunFiles
  <2>1. BegunDirs \subseteq Dirs /\ BegunDirs' \subseteq Dirs
    BY DEF BegunDirs
  <2> QED
    BY <1>5, <1>6, <2>1
<1> QED
  BY <1>3, <1>4, <1>6

LEMMA CountKept ==
  ASSUME ScanInv, ScanInv', UsrInv, CountInv, [Next]_forensicVars
  PROVE  CountInv'
<1>1. ForensicTypeOK /\ Root \in Dirs /\ Quiet /\ FileInv
  BY TreeFacts DEF ScanInv
<1>2. numDirs \in Nat /\ numFiles \in Nat /\ Waiting("USR1") \in Nat /\ Waiting("USR2") \in Nat
      /\ numDirs' \in Nat /\ numFiles' \in Nat /\ Waiting("USR1")' \in Nat /\ Waiting("USR2")' \in Nat
  BY DEF ScanInv, ForensicTypeOK, Waiting
<1>3. /\ Cardinality(BegunDirs) \in Nat /\ Cardinality(BegunDirs') \in Nat
      /\ Cardinality(BegunFiles) \in Nat /\ Cardinality(BegunFiles') \in Nat
  BY BegunFinite, FS_CardinalityType
<1>4. CASE UNCHANGED <<argVars, path, at, left, entry, usrVars>>
  BY <1>4 DEF argVars, usrVars, CountInv, Scanning, OneFile, BegunDirs, BegunFiles, BegunIn, Waiting
<1>5. CASE (ProcessArgs /\ UNCHANGED scanVars) \/ Start
  <2>1. UNCHANGED usrVars /\ numDirs = 0 /\ numFiles = 0
    BY <1>1, <1>5, ArgsGoOn DEF Start, scanVars, Quiet
  <2>2. pending = {}
    BY <1>5, QuietOff, ArgsGoOn DEF Start, UsrInv, OthersRun
  <2>3. Waiting("USR1")' = 0 /\ Waiting("USR2")' = 0
    BY <2>1, <2>2 DEF usrVars, Waiting
  <2> QED
    BY <1>3, <2>1, <2>2, <2>3 DEF CountInv, usrVars
<1>6. ASSUME NEW d \in Dirs, Process(d), Scanning
      PROVE  CountInv'
  <2>1. Scanning' /\ ~ OneFile'
    BY <1>6, TreeKept DEF Scanning, OneFile
  <2>2. numDirs + Waiting("USR1") <= Cardinality(BegunDirs)
        /\ numFiles + Waiting("USR2") <= Cardinality(BegunFiles)
    BY <1>6 DEF CountInv
  <2>3. CASE ScanDir(d)
    <3>1. Tells(d, "USR1")
      BY <2>3 DEF ScanDir
    <3>2. /\ numDirs' + Waiting("USR1")' <= numDirs + Waiting("USR1") + 1
          /\ numFiles' + Waiting("USR2")' <= numFiles + Waiting("USR2") + 0
      BY <1>1, <3>1, TellsOnce
    <3>3. Cardinality(BegunDirs') = Cardinality(BegunDirs) + 1
      BY <1>6, <2>3, BegunByStep, BegunFinite, FS_AddElement
    <3>4. ~ BeginFile(d)
      BY <2>3 DEF ScanDir, BeginFile, Moves
    <3>5. BegunFiles' = BegunFiles
      BY <1>6, <3>4, BegunByStep
    <3> QED
      BY <1>2, <1>3, <2>1, <2>2, <3>2, <3>3, <3>5 DEF CountInv
  <2>4. CASE BeginFile(d)
    <3>1. Tells(d, "USR2")
      BY <2>4 DEF BeginFile
    <3>2. /\ numDirs' + Waiting("USR1")' <= numDirs + Waiting("USR1") + 0
          /\ numFiles' + Waiting("USR2")' <= numFiles + Waiting("USR2") + 1
      BY <1>1, <3>1, TellsOnce
    <3>3. Cardinality(BegunFiles') = Cardinality(BegunFiles) + 1
      BY <1>6, <2>4, BegunByStep, BegunFinite, FS_AddElement
    <3>4. ~ ScanDir(d)
      BY <2>4 DEF ScanDir, BeginFile, Moves
    <3>5. BegunDirs' = BegunDirs
      BY <1>6, <3>4, BegunByStep
    <3> QED
      BY <1>2, <1>3, <2>1, <2>2, <3>2, <3>3, <3>5 DEF CountInv
  <2>5. CASE ~ ScanDir(d) /\ ~ BeginFile(d)
    <3>1. UNCHANGED usrVars
      BY <1>6, <2>5 DEF Process, OpenDir, ReadEntry, EndOfDir, Fork, ForkWith, Redirect, ListFile,
                        Restore,
                        WaitForChildren
    <3>2. BegunDirs' = BegunDirs /\ BegunFiles' = BegunFiles
      BY <1>6, <2>5, BegunByStep
    <3> QED
      BY <2>1, <2>2, <3>1, <3>2 DEF CountInv, usrVars, Waiting
  <2> QED
    BY <2>3, <2>4, <2>5
<1>7. ASSUME NEW d \in Dirs, Process(d), OneFile
      PROVE  CountInv'
  <2>1. OneFile' /\ ~ Scanning'
    BY <1>7, FileKept DEF Scanning, OneFile
  <2>2. d = Root /\ (BeginFile(d) \/ (UNCHANGED usrVars /\ at'[Root] # "begin"))
    <3>1. d = Root /\ (BeginFile(d) \/ Redirect(d) \/ ListFile(d) \/ Restore(d))
      BY <1>1, <1>7, FileSteps
    <3>2. CASE Redirect(d) \/ ListFile(d) \/ Restore(d)
      BY <1>1, <3>1, <3>2 DEF Redirect, ListFile, Restore, Moves, ForensicTypeOK, AfterFile
    <3> QED
      BY <3>1, <3>2
  <2>3. CASE BeginFile(d)
    <3>1. numDirs = 0 /\ pending = {} /\ numFiles = 0 /\ at'[Root] # "begin"
      BY <1>1, <1>7, <2>2, <2>3 DEF CountInv, BeginFile, Moves, ForensicTypeOK
    <3>2. numDirs' = 0 /\ numFiles' <= 1 /\ pending' = {}
      BY <2>2, <2>3, <3>1 DEF BeginFile, Tells, Handles, Alive, Ended, Moves, usrVars
    <3> QED
      BY <2>1, <3>1, <3>2 DEF CountInv
  <2> QED
    BY <1>7, <2>1, <2>2, <2>3 DEF CountInv, usrVars
<1>8. ASSUME NEW d \in Dirs, HandleInt(d)
      PROVE  CountInv'
  <2>1. UNCHANGED <<argVars, path, left, entry, usrVars>> /\ at[d] \notin Ended
        /\ (at'[d] = at[d] \/ (at[d] = "wait" /\ at'[d] = "done")) /\ \A e \in Dirs \ {d} : at'[e] = at[e]
    BY <1>1, <1>8 DEF HandleInt, Interrupts, Moves, ForensicTypeOK, Alive
  <2>2. BegunDirs' = BegunDirs /\ \A f : f \in BegunFiles' <=> f \in BegunFiles
    BY <2>1, BegunAre DEF BegunDirs, BegunIn, Unread
  <2>3. BegunFiles' = BegunFiles /\ (at'[Root] = "begin" => at[Root] = "begin")
    BY <1>1, <2>1, <2>2
  <2> QED
    BY <2>1, <2>2, <2>3 DEF argVars, usrVars, CountInv, Scanning, OneFile, Waiting
<1>9. ASSUME NEW signal \in {"USR1", "USR2"}, HandleUsr(signal)
      PROVE  CountInv'
  <2>1. UNCHANGED <<argVars, path, left, entry>> /\ pending # {}
        /\ (at'[Root] = at[Root] \/ (at[Root] = "wait" /\ at'[Root] = "done"))
        /\ \A e \in Dirs \ {Root} : at'[e] = at[e]
    BY <1>1, <1>9 DEF HandleUsr, Interrupts, Moves, ForensicTypeOK
  <2>2. BegunDirs' = BegunDirs /\ \A f : f \in BegunFiles' <=> f \in BegunFiles
    BY <2>1, BegunAre DEF BegunDirs, BegunIn, Unread
  <2>3. numDirs' + Waiting("USR1")' = numDirs + Waiting("USR1")
        /\ numFiles' + Waiting("USR2")' = numFiles + Waiting("USR2")
    BY <1>2, <1>9 DEF HandleUsr, Handles, Waiting
  <2>4. Scanning
    <3>1. status = "run"
      BY <1>1, <1>9, RunGoesOn
    <3> QED
      BY <2>1, <3>1 DEF CountInv, Scanning, OneFile
  <2>5. BegunFiles' = BegunFiles
    BY <2>2
  <2> QED
    BY <2>1, <2>2, <2>3, <2>4, <2>5 DEF argVars, CountInv, Scanning, OneFile
<1>10. CASE PressInt
  BY <1>4, <1>10 DEF PressInt
<1>11. ASSUME NEW d \in Dirs, Process(d)
       PROVE  CountInv'
  BY <1>6, <1>7, <1>11, RunGoesOn DEF Scanning, OneFile
<1> QED
  BY <1>4, <1>5, <1>8, <1>9, <1>10, <1>11 DEF Next, forensicVars, scanVars

-----------------------------------------------------------------------------
(* The arguments *)

IsValued(places, k) == k \in places /\ argv[k] \in {"-h", "-o"}

LEMMA ReadingsAre ==
  ASSUME NEW n, NEW places
  PROVE  places \in Readings(n) <=>
           /\ places \subseteq 1 .. n
           /\ \A k \in places : argv[k] \in Options
           /\ \A k \in 1 .. n : k \notin places <=> IsValued(places, k - 1)
           /\ ~ IsValued(places, n)
  BY DEF Readings, IsValued

MeansSo(places) ==
  /\ opts.r <=> \E k \in places : argv[k] = "-r"
  /\ opts.v <=> \E k \in places : argv[k] = "-v"
  /\ opts.o <=> \E k \in places : argv[k] = "-o"
  /\ opts.o => \E k \in places : argv[k] = "-o" /\ argv[k + 1] = opts.outfile
  /\ \A h : h \in opts.hashes <=> \E k \in places : argv[k] = "-h" /\ h \in Hashes[argv[k + 1]]

LEMMA MeansAre ==
  ASSUME NEW places
  PROVE  (Means(places) <=> MeansSo(places)) /\ (Means(places)' <=> MeansSo(places)')
<1> DEFINE found(option) == {k \in places : argv[k] = option}
           values(option) == {argv[k + 1] : k \in found(option)}
           valuesNext(option) == {argv'[k + 1] : k \in {k \in places : argv'[k] = option}}
<1>1. opts.hashes = UNION {Hashes[w] : w \in values("-h")} <=>
        \A h : h \in opts.hashes <=> \E k \in places : argv[k] = "-h" /\ h \in Hashes[argv[k + 1]]
  OBVIOUS
<1>2. opts'.hashes = UNION {Hashes[w] : w \in valuesNext("-h")} <=>
        \A h : h \in opts'.hashes <=> \E k \in places : argv'[k] = "-h" /\ h \in Hashes[argv'[k + 1]]
  OBVIOUS
<1>3. opts.outfile \in values("-o") <=> \E k \in places : argv[k] = "-o" /\ argv[k + 1] = opts.outfile
  BY Zenon
<1>4. opts'.outfile \in valuesNext("-o") <=> \E k \in places : argv'[k] = "-o" /\ argv'[k + 1] = opts'.outfile
  BY Zenon
<1>5. Means(places) <=> MeansSo(places)
  BY <1>1, <1>3 DEF Means, MeansSo
<1>6. Means(places)' <=> MeansSo(places)'
  BY <1>2, <1>4 DEF Means, MeansSo
<1> QED
  BY <1>5, <1>6

(* What has been looked at can be read on with the word that is next.        *)
LEMMA ReadOn ==
  ASSUME NEW places \in Readings(i - 1), i \in Nat \ {0}, argv[i] \in Options
  PROVE  places \union {i} \in Readings(IF argv[i] \in {"-h", "-o"} THEN i + 1 ELSE i)
<1> DEFINE more == places \union {i}
<1>1. /\ places \subseteq 1 .. i - 1 /\ (\A k \in places : argv[k] \in Options)
      /\ (\A k \in 1 .. i - 1 : k \notin places <=> IsValued(places, k - 1)) /\ ~ IsValued(places, i - 1)
  BY ReadingsAre
<1>2. /\ more \subseteq 1 .. i /\ (\A k \in more : argv[k] \in Options) /\ i \in more
      /\ \A k \in 1 .. i - 1 : k \in more <=> k \in places
  BY <1>1
<1>3. \A k \in 0 .. i - 1 : IsValued(more, k) <=> IsValued(places, k)
  BY <1>1 DEF IsValued
<1>4. \A k \in 1 .. i : k \notin more <=> IsValued(more, k - 1)
  BY <1>1, <1>2, <1>3
<1> HIDE DEF more
<1>5. CASE argv[i] \in {"-h", "-o"}
  <2>1. IsValued(more, i) /\ i + 1 \notin more
    BY <1>2, <1>5 DEF IsValued
  <2>2. \A k \in 1 .. i + 1 : k \notin more <=> IsValued(more, k - 1)
    BY <1>4, <2>1
  <2>3. ~ IsValued(more, i + 1) /\ more \subseteq 1 .. i + 1
    BY <1>2, <2>1 DEF IsValued
  <2>4. more \in Readings(i + 1)
    BY <1>2, <2>2, <2>3, ReadingsAre
  <2> QED
    BY <1>5, <2>4 DEF more
<1>6. CASE argv[i] \notin {"-h", "-o"}
  <2>1. ~ IsValued(more, i)
    BY <1>6 DEF IsValued
  <2>2. more \in Readings(i)
    BY <1>2, <1>4, <2>1, ReadingsAre
  <2> QED
    BY <1>6, <2>2 DEF more
<1> QED
  BY <1>5, <1>6

(* Every reading of the line goes on in the same way. *)
LEMMA ReadAlike ==
  ASSUME NEW n \in Nat, NEW places \in Readings(n), i \in places, i \in Nat \ {0}
  PROVE  /\ argv[i] \in Options
         /\ argv[i] \notin {"-h", "-o"} /\ i + 1 <= n => i + 1 \in places
         /\ argv[i] \in {"-h", "-o"} /\ i + 2 <= n => i + 2 \in places
<1>1. /\ argv[i] \in Options
      /\ \A k \in 1 .. n : k \notin places <=> IsValued(places, k - 1)
  BY ReadingsAre
<1>2. IsValued(places, i) <=> argv[i] \in {"-h", "-o"}
  BY DEF IsValued
<1>3. i + 1 <= n => (i + 1 \notin places <=> IsValued(places, i))
  BY <1>1
<1>4. i + 2 <= n => (i + 2 \notin places <=> IsValued(places, i + 1))
  BY <1>1
<1>5. i + 1 \notin places => ~ IsValued(places, i + 1)
  BY DEF IsValued
<1> QED
  BY <1>1, <1>2, <1>3, <1>4, <1>5

(* One more option is taken for what it is. *)
LEMMA OptionTaken ==
  ASSUME ArgsInv, NEW j, j = i, Word(argv[i]), argv[i] \in Options, status' = status, argv' = argv,
         i' = i + (IF argv[i] \in {"-h", "-o"} THEN 2 ELSE 1),
         \A places \in Readings(i - 1) : MeansSo(places) => MeansSo(places \union {j})'
  PROVE  /\ \E places \in Readings(i - 1)' : Means(places)'
         /\ i' <= Len(argv') + 1
         /\ \A places \in Readings(Len(argv) - 1)' : i' < Len(argv') => i' \in places
<1>1. /\ argv \in Seq(Words) /\ i \in Nat \ {0} /\ status = "args" /\ i < Len(argv) /\ Len(argv) \in Nat
  BY DEF ArgsInv, ArgsTypeOK, Word
<1>2. \A n : Readings(n)' = Readings(n)
  BY DEF Readings
<1>3. PICK places \in Readings(i - 1) : Means(places)
  BY <1>1 DEF ArgsInv
<1>4. i' - 1 = (IF argv[i] \in {"-h", "-o"} THEN i + 1 ELSE i)
  BY <1>1
<1>5. places \union {j} \in Readings(i' - 1)
  BY <1>1, <1>3, <1>4, ReadOn
<1>6. MeansSo(places \union {j})'
  BY <1>3, MeansAre
<1>7. Means(places \union {j})'
  BY <1>6, MeansAre
<1>8. ASSUME NEW those \in Readings(Len(argv) - 1), i' < Len(argv)
      PROVE  i' \in those
  <2>1. i \in those
    BY <1>1 DEF ArgsInv
  <2> QED
    BY <1>1, <1>8, <2>1, ReadAlike
<1>9. \A those \in Readings(Len(argv) - 1)' : i' < Len(argv') => i' \in those
  BY <1>8 DEF Readings
<1>10. Readings(i - 1)' = Readings(i' - 1)
  BY DEF Readings
<1>11. i' <= Len(argv') + 1
  BY <1>1
<1> QED
  BY <1>5, <1>7, <1>9, <1>10, <1>11

LEMMA ExitArgs ==
  ASSUME ArgsInv, NEW n, ExitWith(n), n \notin {"args", "ok", "7"}
  PROVE  ArgsInv'
  BY DEF ArgsInv, ArgsTypeOK, ExitWith, ArgsAsUsage

LEMMA ExcusedKept ==
  ASSUME NEW w, Excused(w), argv' = argv, opts.v => opts'.v
  PROVE  Excused(w)'
  BY DEF Excused

LEMMA OptionRKept ==
  ASSUME ArgsInv, OptionR
  PROVE  ArgsInv'
<1>0. PICK j : j = i
  OBVIOUS
<1>1. /\ ArgsTypeOK /\ argv[i] = "-r" /\ Word(argv[i]) /\ argv[i] \in Options /\ status = "args"
      /\ UNCHANGED <<argv, status, kind, emptied>> /\ i' = i + 1 /\ opts' = [opts EXCEPT !.r = TRUE]
  BY DEF ArgsInv, OptionR, Word, Skip, Options
<1>2. ASSUME NEW places \in Readings(i - 1), MeansSo(places)
      PROVE  MeansSo(places \union {j})'
  BY <1>0, <1>1, <1>2 DEF MeansSo, ArgsTypeOK, OptionsFound
<1>3. ArgsTypeOK' /\ opts'.v = opts.v
  <2>1. opts' \in OptionsFound /\ opts'.v = opts.v
    BY <1>1 DEF ArgsTypeOK, OptionsFound
  <2>2. i' \in Nat \ {0}
    BY <1>1 DEF ArgsTypeOK
  <2> QED
    BY <1>1, <2>1, <2>2 DEF ArgsTypeOK
<1>4. \A w \in emptied' : Excused(w)'
  BY <1>1, <1>3, ExcusedKept DEF ArgsInv
<1> QED
  BY <1>0, <1>1, <1>2, <1>3, <1>4, OptionTaken DEF ArgsInv, ArgsAsUsage

LEMMA OptionHKept ==
  ASSUME ArgsInv, OptionH
  PROVE  ArgsInv'
<1>0. PICK j : j = i
  OBVIOUS
<1>1. CASE ExitWith("2")
  BY <1>1, ExitArgs
<1>2. CASE ~ ExitWith("2")
  <2>1. /\ ArgsTypeOK /\ argv[i] = "-h" /\ Word(argv[i]) /\ argv[i] \in Options /\ status = "args"
        /\ UNCHANGED <<argv, status, kind, emptied>> /\ i' = i + 2
        /\ opts' = [opts EXCEPT !.hashes = opts.hashes \union Hashes[argv[i + 1]]]
    BY <1>2 DEF ArgsInv, OptionH, OptionHSkipping, Word, Skip, Options, Value
  <2>2. ASSUME NEW places \in Readings(i - 1), MeansSo(places)
        PROVE  MeansSo(places \union {j})'
    BY <1>0, <2>1, <2>2 DEF MeansSo, ArgsTypeOK, OptionsFound
  <2>3. argv[i + 1] \in Words
    BY <2>1 DEF ArgsTypeOK, Word
  <2>4. ArgsTypeOK' /\ opts'.v = opts.v
    <3>1. Hashes[argv[i + 1]] \subseteq Names
      BY <2>3 DEF Names
    <3>2. opts' \in OptionsFound /\ opts'.v = opts.v
      BY <2>1, <3>1 DEF ArgsTypeOK, OptionsFound
    <3>3. i' \in Nat \ {0}
      BY <2>1 DEF ArgsTypeOK
    <3> QED
      BY <2>1, <3>2, <3>3 DEF ArgsTypeOK
  <2>5. \A w \in emptied' : Excused(w)'
    BY <2>1, <2>4, ExcusedKept DEF ArgsInv
  <2> QED
    BY <1>0, <2>1, <2>2, <2>4, <2>5, OptionTaken DEF ArgsInv, ArgsAsUsage
<1> QED
  BY <1>1, <1>2

LEMMA OptionOKept ==
  ASSUME ArgsInv, OptionO
  PROVE  ArgsInv'
<1>0. PICK j : j = i
  OBVIOUS
<1>1. CASE ExitWith("4")
  BY <1>1, ExitArgs
<1>2. CASE ~ ExitWith("4")
  <2>1. /\ ArgsTypeOK /\ argv[i] = "-o" /\ Word(argv[i]) /\ argv[i] \in Options /\ status = "args"
        /\ UNCHANGED <<argv, status>> /\ i' = i + 2 /\ Empty(argv[i + 1])
        /\ opts' = [opts EXCEPT !.o = TRUE, !.outfile = argv[i + 1]]
    BY <1>2 DEF ArgsInv, OptionO, Word, Skip, Options, Value
  <2>2. ASSUME NEW places \in Readings(i - 1), MeansSo(places)
        PROVE  MeansSo(places \union {j})'
    BY <1>0, <2>1, <2>2 DEF MeansSo, ArgsTypeOK, OptionsFound
  <2>3. argv[i + 1] \in Words /\ i \in 1 .. Len(argv) - 1
    BY <2>1 DEF ArgsTypeOK, Word
  <2>4. ArgsTypeOK' /\ opts'.v = opts.v
    <3>1. kind' \in [Words -> {"dir", "file", "other", "none"}] /\ kind'[Root] = "dir"
      BY <2>1, <2>3, TreeFacts DEF ArgsTypeOK, Empty
    <3>2. opts' \in OptionsFound /\ opts'.v = opts.v
      BY <2>1, <2>3 DEF ArgsTypeOK, OptionsFound
    <3>3. i' \in Nat \ {0}
      BY <2>1 DEF ArgsTypeOK
    <3> QED
      BY <2>1, <3>1, <3>2, <3>3 DEF ArgsTypeOK
  <2>5. ASSUME NEW w \in emptied'
        PROVE  Excused(w)'
    <3>1. CASE w = argv[i + 1]
      BY <2>1, <2>3, <3>1 DEF Excused
    <3>2. CASE w \in emptied
      BY <2>1, <2>4, <3>2, ExcusedKept DEF ArgsInv
    <3> QED
      BY <2>1, <3>1, <3>2 DEF Empty
  <2> QED
    BY <1>0, <2>1, <2>2, <2>4, <2>5, OptionTaken DEF ArgsInv, ArgsAsUsage
<1> QED
  BY <1>1, <1>2

LEMMA OptionVKept ==
  ASSUME ArgsInv, OptionV
  PROVE  ArgsInv'
<1>0. PICK j : j = i
  OBVIOUS
<1>1. CASE ExitWith("5") \/ ExitWith("6")
  BY <1>1, ExitArgs
<1>2. CASE ~ (ExitWith("5") \/ ExitWith("6"))
  <2>1. /\ ArgsTypeOK /\ argv[i] = "-v" /\ Word(argv[i]) /\ argv[i] \in Options /\ status = "args"
        /\ UNCHANGED <<argv, status>> /\ i' = i + 1 /\ Empty(LOGFILENAME) /\ LOGFILENAME \in Words
        /\ opts' = [opts EXCEPT !.v = TRUE]
    BY <1>2, ForensicArgsAssumption DEF ArgsInv, OptionV, Word, Skip, Options
  <2>2. ASSUME NEW places \in Readings(i - 1), MeansSo(places)
        PROVE  MeansSo(places \union {j})'
    BY <1>0, <2>1, <2>2 DEF MeansSo, ArgsTypeOK, OptionsFound
  <2>3. ArgsTypeOK' /\ opts'.v = TRUE
    <3>1. kind' \in [Words -> {"dir", "file", "other", "none"}] /\ kind'[Root] = "dir"
      BY <2>1, TreeFacts DEF ArgsTypeOK, Empty
    <3>2. opts' \in OptionsFound /\ opts'.v = TRUE
      BY <2>1 DEF ArgsTypeOK, OptionsFound
    <3>3. i' \in Nat \ {0}
      BY <2>1 DEF ArgsTypeOK
    <3> QED
      BY <2>1, <3>1, <3>2, <3>3 DEF ArgsTypeOK
  <2>4. ASSUME NEW w \in emptied'
        PROVE  Excused(w)'
    <3>1. CASE w = LOGFILENAME
      BY <2>3, <3>1 DEF Excused
    <3>2. CASE w \in emptied
      BY <2>1, <2>3, <3>2, ExcusedKept DEF ArgsInv
    <3> QED
      BY <2>1, <3>1, <3>2 DEF Empty
  <2> QED
    BY <1>0, <2>1, <2>2, <2>3, <2>4, OptionTaken DEF ArgsInv, ArgsAsUsage
<1> QED
  BY <1>1, <1>2

LEMMA UnrecognizedKept ==
  ASSUME ArgsInv, Unrecognized
  PROVE  ArgsInv'
<1>1. argv \in Seq(Words) /\ i \in Nat \ {0} /\ status = "args" /\ i < Len(argv) /\ argv[i] \notin Options
      /\ status' = "7" /\ UNCHANGED <<argv, i, opts, kind, emptied>>
  BY DEF ArgsInv, ArgsTypeOK, Unrecognized, ExitWith
<1>2. ASSUME NEW places \in Readings(Len(argv) - 1)
      PROVE  FALSE
  <2>1. i \in places
    BY <1>1 DEF ArgsInv
  <2> QED
    BY <1>1, <2>1, ReadingsAre
<1>3. Readings(Len(argv) - 1)' = {}
  BY <1>1, <1>2 DEF Readings
<1>4. ArgsAsUsage'
  BY <1>1, <1>3 DEF ArgsAsUsage
<1> QED
  BY <1>1, <1>4 DEF ArgsInv, ArgsTypeOK

LEMMA LastArgKept ==
  ASSUME ArgsInv, LastArg
  PROVE  ArgsInv'
<1>1. argv \in Seq(Words) /\ i \in Nat \ {0} /\ status = "args" /\ i >= Len(argv)
      /\ UNCHANGED <<argv, i, opts, kind, emptied>> /\ status' \in {"1", "8", "9", "ok"}
      /\ (argv = <<>> => status' = "1")
  BY DEF ArgsInv, ArgsTypeOK, LastArg, ExitWith
<1>2. PICK places \in Readings(i - 1) : Means(places)
  BY <1>1 DEF ArgsInv
<1>3. argv # <<>> => i - 1 \in {Len(argv) - 1, Len(argv)}
  BY <1>1 DEF ArgsInv
<1>4. \A n : Readings(n)' = Readings(n)
  BY <1>1 DEF Readings
<1>5. Means(places)'
  BY <1>1, <1>2 DEF Means
<1>6. ArgsAsUsage'
  BY <1>1, <1>2, <1>3, <1>4, <1>5 DEF ArgsAsUsage
<1>7. status' = "ok" => \A w \in emptied' : Excused(w)'
  BY <1>1 DEF ArgsInv, Excused
<1> QED
  BY <1>1, <1>6, <1>7 DEF ArgsInv, ArgsTypeOK

(* The invariant of the arguments holds at the start, when nothing has been  *)
(* looked at, and every step keeps it.                                        *)
LEMMA ArgsInvInit == Init => ArgsInv
<1> SUFFICES ASSUME Init
             PROVE  ArgsInv
  OBVIOUS
<1>1. /\ argv \in Seq(Words) /\ i = 1 /\ opts = NoOptions /\ kind = Kinds /\ emptied = {}
      /\ status = "args" /\ Len(argv) \in Nat
  BY ForensicArgsAssumption DEF Init, ArgsInit
<1>2. ArgsTypeOK
  <2>1. opts \in OptionsFound
    BY <1>1 DEF NoOptions, OptionsFound
  <2> QED
    BY <1>1, <2>1, ForensicArgsAssumption, ForensicAssumption DEF ArgsTypeOK
<1>3. {} \in Readings(i - 1) /\ Means({})
  <2>1. {} \in Readings(i - 1)
    BY <1>1, ReadingsAre DEF IsValued
  <2>2. MeansSo({})
    BY <1>1 DEF MeansSo, NoOptions
  <2> QED
    BY <2>1, <2>2, MeansAre
<1>4. ASSUME NEW places \in Readings(Len(argv) - 1), i < Len(argv)
      PROVE  i \in places
  <2>1. places \subseteq 1 .. Len(argv) - 1
        /\ \A k \in 1 .. Len(argv) - 1 : k \notin places <=> IsValued(places, k - 1)
    BY ReadingsAre
  <2>2. ~ IsValued(places, 0)
    BY <2>1 DEF IsValued
  <2> QED
    BY <1>1, <1>4, <2>1, <2>2
<1> QED
  BY <1>1, <1>2, <1>3, <1>4 DEF ArgsInv, ArgsAsUsage

LEMMA ArgsInvStep ==
  ASSUME ScanInv, ArgsInv, [Next]_forensicVars
  PROVE  ArgsInv'
<1>1. CASE ProcessArgs
  BY <1>1, OptionRKept, OptionHKept, OptionOKept, OptionVKept, UnrecognizedKept,
     LastArgKept DEF ProcessArgs
<1>2. CASE Start
  <2>1. <<>> \in Seq(Words) /\ UNCHANGED <<i, opts, kind, emptied>> /\ argv' = <<>> /\ status' = "run"
    BY <1>2 DEF Start
  <2> QED
    BY <2>1 DEF ArgsInv, ArgsTypeOK, ArgsAsUsage
<1>3. CASE UNCHANGED argVars
  <2>1. UNCHANGED <<argv, i, opts, kind, emptied, status>>
    BY <1>3 DEF argVars
  <2>2. ArgsTypeOK'
    BY <2>1 DEF ArgsInv, ArgsTypeOK
  <2>3. \A n : Readings(n)' = Readings(n)
    BY <2>1 DEF Readings
  <2>4. \A places : Means(places)' <=> Means(places)
    BY <2>1 DEF Means
  <2>5. \A w : Excused(w) => Excused(w)'
    BY <2>1, ExcusedKept
  <2>6. ArgsAsUsage'
    BY <2>1, <2>3, <2>4 DEF ArgsInv, ArgsAsUsage
  <2> QED
    BY <2>1, <2>2, <2>3, <2>4, <2>5, <2>6 DEF ArgsInv
<1>4. \A d \in Dirs : Process(d) \/ HandleInt(d) \/ (\E signal \in {"USR1", "USR2"} : HandleUsr(signal))
        => UNCHANGED argVars
  BY RunGoesOn
<1>5. PressInt \/ UNCHANGED forensicVars => UNCHANGED argVars
  BY DEF PressInt, forensicVars
<1> QED
  BY <1>1, <1>2, <1>3, <1>4, <1>5, TreeFacts DEF Next

-----------------------------------------------------------------------------

ForensicInv == ScanInv /\ ArgsInv /\ SignalInv

LEMMA SignalInvInit == Init => SignalInv
<1> SUFFICES ASSUME Init
             PROVE  SignalInv
  OBVIOUS
<1>1. SigIntInv
  BY DEF Init, SigIntInv, SigIntOK, HeededBy, Alive, Ended
<1>2. UsrInv /\ StrayOnlyByOthers
  BY DEF Init, UsrInv, StrayOnlyByOthers
<1>3. OrphansOnlyIfInterrupted
  BY DEF Init, OrphansOnlyIfInterrupted, Children
<1>4. CountInv
  BY DEF Init, ArgsInit, CountInv, Scanning, OneFile
<1> QED
  BY <1>1, <1>2, <1>3, <1>4 DEF SignalInv

(* In every state of forensic the types are right, what is not read yet is   *)
(* nobody's, and the signals are where they belong (forensic.c:340-472).      *)
THEOREM ForensicInvariant == Spec => []ForensicInv
<1>1. Init => ForensicInv
  BY ScanInvInit, ArgsInvInit, SignalInvInit DEF ForensicInv
<1>2. ForensicInv /\ [Next]_forensicVars => ForensicInv'
  <2> SUFFICES ASSUME ForensicInv, [Next]_forensicVars
               PROVE  ForensicInv'
    OBVIOUS
  <2>1. ScanInv /\ ArgsInv /\ SigIntInv /\ UsrInv /\ OrphansOnlyIfInterrupted /\ StrayOnlyByOthers /\ CountInv
    BY DEF ForensicInv, SignalInv
  <2>2. ScanInv'
    BY <2>1, ScanInvStep
  <2>3. ArgsInv'
    BY <2>1, ArgsInvStep
  <2>4. SigIntInv'
    BY <2>1, SigIntKept
  <2>5. UsrInv' /\ StrayOnlyByOthers'
    BY <2>1, UsrKept
  <2>6. OrphansOnlyIfInterrupted'
    BY <2>1, <2>2, OrphansKept
  <2>7. CountInv'
    BY <2>1, <2>2, CountKept
  <2> QED
    BY <2>2, <2>3, <2>4, <2>5, <2>6, <2>7 DEF ForensicInv, SignalInv
<1> QED
  BY <1>1, <1>2, PTL DEF Spec

(* Whatever the command line, an accepted one is one of the usage and means  *)
(* what it says (forensic.c:110-168).                                          *)
THEOREM LinesAreReadAsUsage == Spec => []ArgsAsUsage
<1>1. ForensicInv => ArgsAsUsage
  BY DEF ForensicInv, ArgsInv
<1> QED
  BY <1>1, ForensicInvariant, PTL

(* Whatever the command line, what is to be looked at is emptied only if it  *)
(* is named as the output or the log (forensic.c:134).                         *)
THEOREM WhatIsLookedAtIsKept == Spec => []InputKept
<1>1. ForensicInv => InputKept
  <2> SUFFICES ASSUME ForensicInv, status = "ok", Last(argv) \in emptied
               PROVE  Excused(Last(argv))
    BY DEF InputKept, Excused
  <2> QED
    BY DEF ForensicInv, ArgsInv
<1> QED
  BY <1>1, ForensicInvariant, PTL

(* Whatever the tree, no file is listed twice (forensic.c:384).                *)
THEOREM FilesAreListedOnce == Spec => []ListedOnce
<1>1. ForensicInv => ListedOnce
  <2> SUFFICES ASSUME ForensicInv
               PROVE  ListedOnce
    OBVIOUS
  <2>1. status # "run" \/ Scanning \/ OneFile
    BY DEF Scanning, OneFile
  <2> QED
    BY <2>1 DEF ForensicInv, ScanInv, Quiet, TreeInv, FileInv, ListedOnce
<1> QED
  BY <1>1, ForensicInvariant, PTL

(* Whatever the tree, the first process never counts more than there was to  *)
(* count, however many signals come together (forensic.c:466).                 *)
THEOREM CountsAreNeverAbove == Spec => []CountsNeverAbove
<1>1. ForensicInv => CountsNeverAbove
  <2> SUFFICES ASSUME ForensicInv
               PROVE  CountsNeverAbove
    OBVIOUS
  <2>1. ForensicTypeOK /\ Quiet /\ CountInv
    BY DEF ForensicInv, ScanInv, SignalInv
  <2>2. Cardinality(BegunDirs) \in Nat /\ Cardinality(BegunFiles) \in Nat
    BY BegunFinite, FS_CardinalityType
  <2>3. numDirs \in Nat /\ numFiles \in Nat /\ Waiting("USR1") \in Nat /\ Waiting("USR2") \in Nat
    BY <2>1 DEF ForensicTypeOK, Waiting
  <2>4. numDirs <= Cardinality(BegunDirs)
    BY <2>1, <2>2, <2>3 DEF CountInv, Quiet, Scanning, OneFile
  <2>5. path # NoLog /\ kind[path] = "dir" => numFiles <= Cardinality(BegunFiles)
    BY <2>1, <2>2, <2>3 DEF CountInv, Quiet, Scanning
  <2>6. ~ (path # NoLog /\ kind[path] = "dir") => numFiles <= 1
    BY <2>1, <2>3, ForensicArgsAssumption DEF CountInv, Quiet, OneFile
  <2> QED
    BY <2>4, <2>5, <2>6 DEF CountsNeverAbove, BegunDirs, BegunFiles, BegunIn, Unread
<1> QED
  BY <1>1, ForensicInvariant, PTL

(* Whatever the tree, a process that ends before one it has forked was       *)
(* interrupted or failed (forensic.c:399).                                     *)
THEOREM OrphansWereInterrupted == Spec => []OrphansOnlyIfInterrupted
<1>1. ForensicInv => OrphansOnlyIfInterrupted
  BY DEF ForensicInv, SignalInv
<1> QED
  BY <1>1, ForensicInvariant, PTL

(* Whatever the tree, messages get into the output file only by the signals  *)
(* of other processes or a file that could not be opened (forensic.c:197,    *)
(* 213).                                                                       *)
THEOREM StrayMessagesAreOfOthers == Spec => []StrayOnlyByOthers
<1>1. ForensicInv => StrayOnlyByOthers
  BY DEF ForensicInv, SignalInv
<1> QED
  BY <1>1, ForensicInvariant, PTL

(* Whatever the tree, a process that knows of SIGINT begins with one more    *)
(* file at most (forensic.c:368, 384).                                         *)
THEOREM ScanStopsAfterSigInt == Spec => []StopsAfterSigInt
<1>1. ForensicInv => StopsAfterSigInt
  <2> SUFFICES ASSUME ForensicInv, NEW d \in Dirs
               PROVE  Cardinality({f \in Files : <<d, f>> \in late}) <= IF d \in pressed THEN 1 ELSE 0
    BY DEF StopsAfterSigInt
  <2> DEFINE begun == {f \in Files : <<d, f>> \in late}
  <2>1. /\ \A f \in begun : d \in pressed
        /\ \A f, g \in begun : f = g
    BY DEF ForensicInv, SignalInv, SigIntInv, SigIntOK, HeededBy
  <2>2. CASE begun = {}
    <3>1. Cardinality(begun) = 0
      BY <2>2, FS_EmptySet
    <3> QED
      BY <3>1
  <2>3. CASE begun # {}
    <3>1. PICK f \in begun : begun = {f}
      BY <2>1, <2>3
    <3>2. Cardinality(begun) = 1
      BY <3>1, FS_Singleton
    <3> QED
      BY <2>1, <3>1, <3>2
  <2> QED
    BY <2>2, <2>3
<1> QED
  BY <1>1, ForensicInvariant, PTL

-----------------------------------------------------------------------------
(* The refinement of Listing *)

(* What process d was to list has been listed or cannot be, has not been    *)
(* read yet, or is what it is at.                                            *)
ReadOK(d) ==
  /\ at[d] \in {"wait", "done"} /\ pressed = {} => left[d] = {}
  /\ \A f \in Below(d) :
       \/ f \in broken \/ lines[f] > 0
       \/ at[d] \in Unread \/ f \in left[d] \/ (at[d] \in AtFile /\ entry[d] = f)
  /\ opts.r => \A e \in Entries[d] \intersect Dirs :
       \/ at[e] # "off"
       \/ at[d] \in Unread \union {"failed"} \/ e \in left[d] \/ (at[d] = "fork" /\ entry[d] = e)

AskedInv ==
  /\ \A d \in Dirs : flag[d] => pressed # {}
  /\ status = "run" => at[Root] # "off"
  /\ \A d \in Dirs : at[d] = "fork" \/ (at[d] # "off" /\ d # Root) => opts.r
  /\ \A f \in Files : lines[f] > 0 => f \in Wanted

ListInv ==
  /\ AskedInv
  /\ OneFile => path \in broken \/ lines[path] > 0 \/ at[Root] \in AtFile
  /\ Scanning => \A d \in Dirs : ReadOK(d)

LEMMA WantedAre ==
  ASSUME ScanInv
  PROVE  /\ status # "run" => Wanted = {}
         /\ OneFile => Wanted = {path} \ broken
         /\ Scanning => \A f : f \in Wanted <=>
              f \notin broken /\ \E d \in Dirs : (d = Root \/ opts.r) /\ f \in Below(d)
<1>1. status = "run" => path \in Words /\ path # NoLog
  BY ForensicArgsAssumption DEF ScanInv, Quiet
<1>2. status # "run" => path = NoLog
  BY DEF ScanInv, Quiet
<1>3. CASE Scanning
  <2>1. Wanted = (UNION {Entries[d] : d \in IF opts.r THEN Dirs ELSE {Root}}) \ (Dirs \union broken)
    BY <1>1, <1>3 DEF Wanted, Scanning
  <2> QED
    BY <1>3, <2>1, TreeFacts DEF Below, Scanning, OneFile
<1>4. CASE ~ Scanning
  BY <1>1, <1>2, <1>4 DEF Wanted, Scanning, OneFile
<1> QED
  BY <1>3, <1>4

LEMMA WantedKept ==
  ASSUME UNCHANGED <<argVars, path, broken>>
  PROVE  Wanted' = Wanted
  BY DEF Wanted, argVars

(* What is listed was asked for, and every process but the first one runs   *)
(* because of -r.                                                            *)
LEMMA AskedKept ==
  ASSUME ScanInv, ListInv, NEW d \in Dirs,
         Process(d) \/ HandleInt(d) \/ (\E signal \in {"USR1", "USR2"} : HandleUsr(signal))
  PROVE  AskedInv'
<1>1. ForensicTypeOK /\ AskedInv /\ Root \in Dirs
  BY TreeFacts DEF ScanInv, ListInv
<1>2. status = "run" /\ UNCHANGED <<argVars, path, broken>> /\ Wanted' = Wanted
  BY RunGoesOn, WantedKept
<1>3. pressed' = pressed
  BY DEF Process, ScanDir, OpenDir, ReadEntry, EndOfDir, Fork, ForkWith, BeginFile, Redirect,
         ListFile, Restore, WaitForChildren, HandleInt, HandleUsr, intVars
<1>4. CASE ScanDir(d) \/ OpenDir(d) \/ EndOfDir(d) \/ BeginFile(d) \/ Redirect(d) \/ Restore(d)
           \/ WaitForChildren(d)
  BY <1>1, <1>2, <1>3, <1>4 DEF AskedInv, ScanDir, OpenDir, EndOfDir, BeginFile, Redirect, Restore,
                                WaitForChildren, Moves, AfterFile, intVars, argVars, ForensicTypeOK
<1>5. CASE ReadEntry(d)
  BY <1>1, <1>2, <1>3, <1>5 DEF AskedInv, ReadEntry, Moves, intVars, argVars, ForensicTypeOK
<1>6. CASE Fork(d)
  <2>1. entry[d] \in Dirs /\ Scanning /\ at[d] = "fork"
    BY <1>6, HasDir DEF Fork, ForkWith, Moves
  <2>2. opts.r
    BY <1>1, <1>6, <2>1 DEF AskedInv
  <2> QED
    BY <1>1, <1>2, <1>3, <1>6, <2>1, <2>2 DEF AskedInv, Fork, ForkWith, Moves, argVars,
                                              ForensicTypeOK
<1>7. CASE ListFile(d)
  <2>1. entry[d] \in Files /\ (Scanning \/ OneFile) /\ at[d] = "list"
    BY <1>2, <1>7, HasFile DEF ListFile, Moves, AtFile, Scanning, OneFile
  <2>2. entry[d] \notin broken => entry[d] \in Wanted
    <3>1. CASE Scanning
      BY <1>1, <2>1, <3>1, WantedAre DEF AskedInv, ScanInv, TreeInv, TreeOK, AtFile
    <3>2. CASE OneFile
      BY <1>7, <2>1, <3>2, WantedAre, FileSteps DEF ScanInv, FileInv, Process
    <3> QED
      BY <2>1, <3>1, <3>2
  <2>3. /\ UNCHANGED flag
        /\ \A e \in Dirs : (at[e] # "off" <=> at'[e] # "off") /\ at'[e] \in {at[e], "loop", "done", "restore"}
    BY <1>1, <1>7 DEF ListFile, Moves, AfterFile, intVars, ForensicTypeOK
  <2>4. \A f \in Files : lines'[f] > 0 => lines[f] > 0 \/ (f = entry[d] /\ f \notin broken)
    BY <1>1, <1>7 DEF ListFile, ForensicTypeOK
  <2> QED
    BY <1>1, <1>2, <1>3, <2>2, <2>3, <2>4 DEF AskedInv, argVars
<1>8. CASE HandleInt(d) \/ \E signal \in {"USR1", "USR2"} : HandleUsr(signal)
  BY <1>1, <1>2, <1>3, <1>8 DEF AskedInv, HandleInt, HandleUsr, Interrupts, Moves, intVars, argVars,
                                ForensicTypeOK
<1> QED
  BY <1>4, <1>5, <1>6, <1>7, <1>8 DEF Process

(* What has not been listed of a file that is asked for by its name          *)
LEMMA OneFileKept ==
  ASSUME ScanInv, ListInv, OneFile, NEW d \in Dirs,
         Process(d) \/ HandleInt(d) \/ (\E signal \in {"USR1", "USR2"} : HandleUsr(signal))
  PROVE  path' \in broken' \/ lines'[path'] > 0 \/ at'[Root] \in AtFile
<1>1. ForensicTypeOK /\ FileInv /\ Quiet /\ Root \in Dirs
  BY TreeFacts DEF ScanInv
<1>2. status = "run" /\ UNCHANGED <<argVars, path, broken>> /\ path \in Files
  BY <1>1, RunGoesOn, TreeFacts DEF OneFile, Quiet
<1>3. path \in broken \/ lines[path] > 0 \/ at[Root] \in AtFile
  BY DEF ListInv
<1>4. CASE Process(d)
  <2>1. d = Root /\ (BeginFile(d) \/ Redirect(d) \/ ListFile(d) \/ Restore(d))
    BY <1>1, <1>4, FileSteps
  <2>2. CASE BeginFile(d) \/ Redirect(d) \/ Restore(d)
    BY <1>1, <1>2, <1>3, <2>1, <2>2 DEF AtFile, BeginFile, Redirect, Restore, Moves, ForensicTypeOK
  <2>3. CASE ListFile(d)
    BY <1>1, <1>2, <1>3, <2>1, <2>3 DEF FileInv, AtFile, ListFile, Moves, ForensicTypeOK
  <2> QED
    BY <2>1, <2>2, <2>3
<1>5. CASE HandleInt(d) \/ \E signal \in {"USR1", "USR2"} : HandleUsr(signal)
  BY <1>1, <1>2, <1>3, <1>5 DEF FileInv, HandleInt, HandleUsr, Interrupts, Moves, AtFile
<1> QED
  BY <1>4, <1>5

(* What a directory has for the scan is done, or still to be done. *)
LEMMA ReadKept ==
  ASSUME ScanInv, ListInv, Scanning, NEW d \in Dirs,
         Process(d) \/ HandleInt(d) \/ (\E signal \in {"USR1", "USR2"} : HandleUsr(signal))
  PROVE  \A e \in Dirs : ReadOK(e)'
<1>1. ForensicTypeOK /\ Quiet /\ AskedInv /\ \A e \in Dirs : TreeOK(e) /\ ReadOK(e)
  BY DEF ScanInv, TreeInv, ListInv
<1>2. status = "run" /\ UNCHANGED <<argVars, path, broken>> /\ AfterFile = "loop" /\ opts' = opts
  BY RunGoesOn DEF Scanning, argVars, AfterFile
<1>3. pressed' = pressed
  BY DEF Process, ScanDir, OpenDir, ReadEntry, EndOfDir, Fork, ForkWith, BeginFile, Redirect,
         ListFile, Restore, WaitForChildren, HandleInt, HandleUsr, intVars
<1>4. CASE ScanDir(d) \/ OpenDir(d)
  BY <1>1, <1>2, <1>3, <1>4 DEF ScanDir, OpenDir, Moves, ReadOK, Unread, AtFile, ForensicTypeOK, Below
<1>5. CASE ReadEntry(d)
  BY <1>1, <1>2, <1>3, <1>5 DEF ReadEntry, Moves, ReadOK, Unread, AtFile, ForensicTypeOK, Below
<1>6. CASE EndOfDir(d)
  <2>1. flag[d] => pressed # {}
    BY <1>1 DEF AskedInv
  <2> QED
    BY <1>1, <1>2, <1>3, <1>6, <2>1 DEF EndOfDir, Moves, ReadOK, Unread, AtFile, ForensicTypeOK
<1>7. CASE Fork(d)
  <2> DEFINE c == entry[d]
  <2>1. c \in Dirs /\ at[c] = "off" /\ at[d] = "fork" /\ c # d
    BY <1>1, <1>7 DEF Fork, ForkWith, Moves, TreeOK
  <2>2. UNCHANGED <<entry, lines>>
    BY <1>7 DEF Fork, ForkWith
  <2>3. CASE /\ at' = [at EXCEPT ![d] = "loop", ![c] = "enter"]
             /\ left' = [left EXCEPT ![c] = {}]
    <3>1. /\ at'[d] = "loop" /\ at'[c] = "enter" /\ \A e \in Dirs \ {c, d} : at'[e] = at[e]
          /\ left'[c] = {} /\ \A e \in Dirs \ {c} : left'[e] = left[e]
      BY <1>1, <2>1, <2>3 DEF ForensicTypeOK
    <3>2. ASSUME NEW e \in Dirs
          PROVE  ReadOK(e)'
      <4>1. CASE e = c
        BY <1>2, <3>1, <4>1 DEF ReadOK, Unread
      <4>2. CASE e # c
        BY <1>1, <1>2, <1>3, <2>1, <2>2, <3>1, <4>2 DEF ReadOK, Unread, AtFile
      <4> QED
        BY <4>1, <4>2
    <3> QED
      BY <3>2
  <2>4. CASE at' = [at EXCEPT ![d] = "failed"] /\ left' = left
    BY <1>1, <1>2, <1>3, <2>1, <2>2, <2>4 DEF ReadOK, Unread, AtFile, ForensicTypeOK
  <2> QED
    BY <1>7, <2>3, <2>4 DEF Fork, ForkWith, Moves
<1>8. CASE ListFile(d)
  BY <1>1, <1>2, <1>3, <1>8, TreeFacts DEF ListFile, Moves, ReadOK, Unread, AtFile, ForensicTypeOK
<1>9. CASE BeginFile(d) \/ Redirect(d) \/ Restore(d) \/ WaitForChildren(d)
  BY <1>1, <1>2, <1>3, <1>9 DEF BeginFile, Redirect, Restore, WaitForChildren, Moves, ReadOK, Unread,
                                AtFile, ForensicTypeOK
<1>10. CASE HandleInt(d) \/ \E signal \in {"USR1", "USR2"} : HandleUsr(signal)
  BY <1>1, <1>2, <1>3, <1>10 DEF HandleInt, HandleUsr, Interrupts, Moves, ReadOK, Unread, AtFile,
                                 ForensicTypeOK
<1> QED
  BY <1>4, <1>5, <1>6, <1>7, <1>8, <1>9, <1>10 DEF Process

LEMMA ListInvInit == Init => ListInv
  BY DEF Init, ArgsInit, ListInv, AskedInv, OneFile, Scanning

LEMMA ListInvStep ==
  ASSUME ForensicInv, ListInv, [Next]_forensicVars
  PROVE  ListInv'
<1>1. ForensicTypeOK /\ Quiet /\ AskedInv /\ Root \in Dirs /\ ScanInv /\ ArgsInv
  BY TreeFacts DEF ForensicInv, ScanInv, ListInv
<1>2. CASE ProcessArgs /\ UNCHANGED scanVars
  <2>1. status # "run" /\ status' # "run" /\ \A d \in Dirs : at[d] = "off"
    BY <1>1, <1>2, ArgsGoOn, QuietOff
  <2>2. UNCHANGED <<path, broken, at, lines, flag, pressed>> /\ \A f \in Files : lines[f] = 0
    BY <1>1, <1>2, <2>1 DEF scanVars, intVars, Quiet
  <2>3. AskedInv'
    BY <1>1, <2>1, <2>2 DEF AskedInv
  <2> QED
    BY <2>1, <2>3 DEF ListInv, OneFile, Scanning
<1>3. CASE Start
  <2>1. /\ status # "run" /\ status' = "run" /\ kind' = kind /\ path' = Last(argv)
        /\ UNCHANGED <<opts, lines, left, flag, pressed>>
        /\ \A d \in Dirs : at[d] = "off"
    BY <1>1, <1>3, QuietOff DEF Start, intVars
  <2>2. \A f \in Files : lines[f] = 0
    BY <1>1, <2>1 DEF Quiet
  <2>3. at' = [at EXCEPT ![Root] = IF kind[path'] = "dir" THEN "enter" ELSE "begin"]
    BY <1>1, <1>3, <2>1 DEF Start
  <2>4. AskedInv'
    BY <1>1, <2>1, <2>2, <2>3 DEF AskedInv, ForensicTypeOK
  <2>5. OneFile' => at'[Root] \in AtFile
    BY <1>1, <2>1, <2>3 DEF OneFile, AtFile, ForensicTypeOK
  <2>6. Scanning' => \A d \in Dirs : at'[d] \in Unread /\ at'[d] \notin {"wait", "done"}
    BY <1>1, <2>1, <2>3 DEF Scanning, Unread, ForensicTypeOK
  <2> QED
    BY <2>4, <2>5, <2>6 DEF ListInv, ReadOK
<1>4. ASSUME NEW d \in Dirs,
             Process(d) \/ HandleInt(d) \/ (\E signal \in {"USR1", "USR2"} : HandleUsr(signal))
      PROVE  ListInv'
  <2>1. status = "run" /\ UNCHANGED <<argVars, path, broken>>
    BY <1>1, <1>4, RunGoesOn
  <2>2. (OneFile' <=> OneFile) /\ (Scanning' <=> Scanning)
    BY <2>1 DEF OneFile, Scanning, argVars
  <2> QED
    BY <1>1, <1>4, <2>2, AskedKept, OneFileKept, ReadKept DEF ListInv
<1>5. CASE PressInt
  <2>1. pressed' # {} /\ UNCHANGED <<argVars, path, broken, at, left, entry, lines, flag>>
    BY <1>5 DEF PressInt
  <2>2. Wanted' = Wanted /\ AskedInv'
    BY <1>1, <2>1, WantedKept DEF AskedInv, argVars
  <2> QED
    BY <2>1, <2>2 DEF ListInv, OneFile, Scanning, ReadOK, argVars
<1>6. CASE UNCHANGED forensicVars
  BY <1>6 DEF forensicVars, argVars, scanVars, intVars, ListInv, AskedInv, Wanted, OneFile, Scanning,
              ReadOK
<1> QED
  BY <1>1, <1>2, <1>3, <1>4, <1>5, <1>6 DEF Next

(* What Listing sees of a state *)
Listed == {f \in Files : lines[f] > 0}
Excuses == pressed # {} \/ (\E d \in Dirs : Failed(d)) \/ (Over /\ status # "run")

Complete ==
  status = "run" /\ Over /\ pressed = {} /\ (\A d \in Dirs : ~ Failed(d)) => Listed = Wanted

(* A scan that is over without an excuse has been to every directory and    *)
(* has listed every file.                                                    *)
LEMMA OverIsComplete ==
  ASSUME ForensicInv, ListInv
  PROVE  Complete
<1> SUFFICES ASSUME status = "run", Over, pressed = {}, \A d \in Dirs : ~ Failed(d)
             PROVE  Listed = Wanted
  BY DEF Complete
<1>1. ForensicTypeOK /\ ScanInv /\ AskedInv /\ Root \in Dirs
  BY TreeFacts DEF ForensicInv, ScanInv, ListInv
<1>2. \A d \in Dirs : at[d] \in {"off", "done"}
  BY <1>1 DEF Over, Alive, Ended, Failed, Places
<1>3. at[Root] = "done"
  BY <1>1, <1>2 DEF AskedInv
<1> SUFFICES \A f \in Wanted : f \in Files /\ lines[f] > 0
  BY <1>1 DEF AskedInv, Listed
<1>4. CASE OneFile
  <2>1. Wanted = {path} \ broken /\ path \in Files
    BY <1>1, <1>4, WantedAre, TreeFacts DEF ScanInv, Quiet, OneFile
  <2> QED
    BY <1>3, <1>4, <2>1 DEF ListInv, AtFile
<1>5. CASE Scanning
  <2> DEFINE Visited == {d \in Dirs : at[d] = "done"}
  <2>1. \A d \in Visited : left[d] = {} /\ ReadOK(d)
    BY <1>5 DEF ListInv, ReadOK
  <2>2. opts.r => Visited = Dirs
    <3> SUFFICES ASSUME opts.r
                 PROVE  Visited = Dirs
      OBVIOUS
    <3>1. ASSUME NEW d \in Visited, NEW e \in Entries[d] \intersect Dirs
          PROVE  e \in Visited
      BY <1>2, <2>1, <3>1 DEF ReadOK, Unread
    <3> QED
      BY <1>1, <1>3, <3>1, ForensicAssumption
  <2>3. ASSUME NEW f \in Wanted
        PROVE  f \in Files /\ lines[f] > 0
    <3>1. PICK d \in Dirs : (d = Root \/ opts.r) /\ f \in Below(d) /\ f \notin broken
      BY <1>1, <1>5, <2>3, WantedAre
    <3>2. d \in Visited
      BY <1>1, <1>3, <2>2, <3>1
    <3>3. lines[f] > 0
      BY <2>1, <3>1, <3>2 DEF ReadOK, Unread, AtFile
    <3> QED
      BY <3>1, <3>3, TreeFacts
  <2> QED
    BY <2>3
<1> QED
  BY <1>4, <1>5 DEF OneFile, Scanning

LEMMA ListingGoesOn ==
  ASSUME UNCHANGED <<Wanted, Listed, Excuses, Over>>
  PROVE  [Promise!Next]_(Promise!listingVars)
  BY DEF Promise!listingVars, Listed, Excuses

LEMMA ListingEnds ==
  ASSUME ~ Over, Over', UNCHANGED <<Wanted, Listed>>, Excuses' \/ (Listed = Wanted /\ ~ Excuses)
  PROVE  [Promise!Next]_(Promise!listingVars)
<1>1. Promise!End
  BY DEF Promise!End, Listed, Excuses
<1> QED
  BY <1>1 DEF Promise!Next

LEMMA ListingExcused ==
  ASSUME ~ Over, ~ Over', UNCHANGED <<Wanted, Listed>>, Excuses'
  PROVE  [Promise!Next]_(Promise!listingVars)
<1>1. Over' = Over /\ Excuses' = TRUE
  BY DEF Over, Excuses
<1>2. Promise!Excuse
  BY <1>1 DEF Promise!Excuse, Listed, Excuses
<1> QED
  BY <1>2 DEF Promise!Next

(* A step of a process that lists nothing: it may be the last one of all. *)
LEMMA QuietStep ==
  ASSUME Complete', status = "run", status' = "run", ~ Over,
         UNCHANGED <<Wanted, Listed, pressed>>, \A d \in Dirs : Failed(d) => Failed(d)'
  PROVE  [Promise!Next]_(Promise!listingVars)
<1>1. (Excuses <=> pressed # {} \/ \E d \in Dirs : Failed(d))
      /\ (Excuses' <=> pressed' # {} \/ \E d \in Dirs : Failed(d)')
  BY DEF Excuses
<1>2. CASE Excuses'
  <2>1. CASE Over'
    BY <1>2, <2>1, ListingEnds
  <2>2. CASE ~ Over'
    BY <1>2, <2>2, ListingExcused
  <2> QED
    BY <2>1, <2>2
<1>3. CASE ~ Excuses'
  <2>1. ~ Excuses
    BY <1>1, <1>3
  <2>2. CASE Over'
    <3>1. Listed' = Wanted'
      BY <1>1, <1>3, <2>2 DEF Complete
    <3> QED
      BY <2>1, <2>2, <3>1, ListingEnds
  <2>3. CASE ~ Over'
    BY <1>3, <2>1, <2>3, ListingGoesOn DEF Excuses, Over
  <2> QED
    BY <2>2, <2>3
<1> QED
  BY <1>2, <1>3

(* A step of a process, or a signal it handles, is one of Listing. *)
LEMMA ProcessLists ==
  ASSUME ForensicInv, ListInv, Complete', NEW d \in Dirs,
         Process(d) \/ HandleInt(d) \/ (\E signal \in {"USR1", "USR2"} : HandleUsr(signal))
  PROVE  [Promise!Next]_(Promise!listingVars)
<1>1. ForensicTypeOK /\ ScanInv /\ AskedInv /\ Root \in Dirs
  BY TreeFacts DEF ForensicInv, ScanInv, ListInv
<1>2. status = "run" /\ UNCHANGED <<argVars, path, broken>> /\ Wanted' = Wanted
  BY <1>1, RunGoesOn, WantedKept
<1>3. pressed' = pressed /\ status' = "run"
  BY <1>2 DEF Process, ScanDir, OpenDir, ReadEntry, EndOfDir, Fork, ForkWith, BeginFile, Redirect,
              ListFile, Restore, WaitForChildren, HandleInt, HandleUsr, intVars, argVars
<1>4. ~ Over
  BY <1>1 DEF Over, Alive, Ended, Process, ScanDir, OpenDir, ReadEntry, EndOfDir, Fork, ForkWith,
              BeginFile, Redirect, ListFile, Restore, WaitForChildren, Moves, HandleInt, HandleUsr
<1>5. \A e \in Dirs : Failed(e) => Failed(e)'
  <2>1. CASE Fork(d)
    <3>1. entry[d] \in Dirs /\ at[entry[d]] = "off" /\ at[d] = "fork"
      BY <1>1, <2>1, HasDir DEF Fork, ForkWith, Moves, ScanInv, TreeInv, TreeOK
    <3> QED
      BY <1>1, <2>1, <3>1 DEF Fork, ForkWith, Moves, Failed, ForensicTypeOK
  <2>2. CASE ~ Fork(d)
    BY <1>1, <2>2 DEF Failed, Process, ScanDir, OpenDir, ReadEntry, EndOfDir, BeginFile, Redirect,
                      ListFile, Restore, WaitForChildren, Moves, HandleInt, HandleUsr, Interrupts,
                      ForensicTypeOK
  <2> QED
    BY <2>1, <2>2
<1>6. CASE lines' = lines
  BY <1>2, <1>3, <1>4, <1>5, <1>6, QuietStep DEF Listed
<1>7. CASE ListFile(d) /\ entry[d] \notin broken
  <2>1. entry[d] \in Files /\ (Scanning \/ OneFile) /\ at[d] = "list"
    BY <1>1, <1>2, <1>7, HasFile DEF ListFile, Moves, AtFile, Scanning, OneFile
  <2>2. entry[d] \in Wanted /\ lines[entry[d]] = 0
    <3>1. CASE Scanning
      BY <1>1, <1>7, <2>1, <3>1, WantedAre DEF AskedInv, ScanInv, TreeInv, TreeOK, AtFile
    <3>2. CASE OneFile
      BY <1>1, <1>7, <2>1, <3>2, WantedAre, FileSteps DEF ScanInv, FileInv, Process, AtFile
    <3> QED
      BY <2>1, <3>1, <3>2
  <2>3. Listed' = Listed \union {entry[d]} /\ entry[d] \notin Listed
    BY <1>1, <1>7, <2>1, <2>2 DEF ListFile, Listed, ForensicTypeOK
  <2>4. at' = [at EXCEPT ![d] = "restore"]
    BY <1>7 DEF ListFile, Moves
  <2>5. ~ Over' /\ (Excuses' <=> Excuses)
    BY <1>1, <1>3, <1>4, <2>1, <2>4 DEF Over, Alive, Ended, Excuses, Failed, ForensicTypeOK
  <2>6. Promise!List
    BY <1>2, <1>4, <2>2, <2>3, <2>5 DEF Promise!List, Listed, Excuses, Over
  <2> QED
    BY <2>6 DEF Promise!Next
<1>8. CASE ListFile(d) /\ entry[d] \in broken
  <2>1. lines' = lines
    <3>1. lines' = [lines EXCEPT ![entry[d]] = @ + 0]
      BY <1>8 DEF ListFile
    <3>2. entry[d] \in Files
      BY <1>1, <1>8, HasFile DEF ListFile, Moves, AtFile
    <3> QED
      BY <1>1, <3>1, <3>2 DEF ForensicTypeOK
  <2> QED
    BY <1>6, <2>1
<1>9. ~ ListFile(d) => lines' = lines
  BY DEF Process, ScanDir, OpenDir, ReadEntry, EndOfDir, Fork, ForkWith, BeginFile, Redirect,
         Restore, WaitForChildren, HandleInt, HandleUsr
<1> QED
  BY <1>6, <1>7, <1>8, <1>9

(* Every step of forensic is one of Listing, or changes nothing of it        *)
(* (forensic.c:340-400).                                                       *)
THEOREM StepsList ==
  ASSUME ForensicInv, ListInv, Complete', [Next]_forensicVars
  PROVE  [Promise!Next]_(Promise!listingVars)
<1>1. ForensicTypeOK /\ ScanInv /\ AskedInv /\ Root \in Dirs /\ ArgsInv
  BY TreeFacts DEF ForensicInv, ScanInv, ListInv
<1>2. CASE ProcessArgs /\ UNCHANGED scanVars
  <2>1. status = "args" /\ status' # "run" /\ \A d \in Dirs : at[d] = "off"
    BY <1>1, <1>2, ArgsGoOn, QuietOff
  <2>2. path = NoLog /\ UNCHANGED <<path, at, lines, pressed>>
    BY <1>1, <1>2, <2>1 DEF scanVars, intVars, ScanInv, Quiet
  <2>3. ~ Over /\ UNCHANGED <<Wanted, Listed>>
    BY <2>1, <2>2 DEF Over, Wanted, Listed
  <2>4. CASE status' \in {"args", "ok"}
    BY <2>1, <2>2, <2>3, <2>4, ListingGoesOn DEF Over, Excuses, Failed
  <2>5. CASE status' \notin {"args", "ok"}
    BY <2>1, <2>2, <2>3, <2>5, ListingEnds DEF Over, Excuses, Alive, Ended
  <2> QED
    BY <2>4, <2>5
<1>3. CASE Start
  <2>1. /\ status = "ok" /\ status' = "run" /\ kind' = kind /\ path' = Last(argv)
        /\ UNCHANGED <<opts, lines, broken, pressed>> /\ \A d \in Dirs : at[d] = "off"
    BY <1>1, <1>3, QuietOff DEF Start, intVars
  <2>2. path' \in Words
    BY <1>1, <2>1 DEF ArgsInv, ArgsTypeOK, Last
  <2>3. at' = [at EXCEPT ![Root] = IF kind[path'] = "dir" THEN "enter" ELSE "begin"]
    BY <1>3, <2>1 DEF Start
  <2>4. Listed = {} /\ Listed' = {}
    BY <1>1, <2>1 DEF Listed, ScanInv, Quiet
  <2>5. ~ Over /\ ~ Over' /\ (Excuses' <=> Excuses)
    BY <1>1, <2>1, <2>3 DEF Over, Alive, Ended, Excuses, Failed, ForensicTypeOK
  <2>6. Wanted' \in SUBSET Files
    <3>1. path' # NoLog
      BY <2>2, ForensicArgsAssumption
    <3>2. CASE kind'[path'] = "dir"
      <4>1. Wanted' = (UNION {Entries[d] : d \in IF opts'.r THEN Dirs ELSE {Root}})
                        \ (Dirs \union broken')
        BY <3>1, <3>2 DEF Wanted
      <4> QED
        BY <1>1, <4>1 DEF Files
    <3>3. CASE kind'[path'] # "dir"
      BY <2>2, <3>1, <3>3, TreeFacts DEF Wanted
    <3> QED
      BY <3>2, <3>3
  <2>7. Promise!Ask
    BY <2>4, <2>5, <2>6 DEF Promise!Ask, Listed, Excuses, Over
  <2> QED
    BY <2>7 DEF Promise!Next
<1>4. ASSUME NEW d \in Dirs,
             Process(d) \/ HandleInt(d) \/ (\E signal \in {"USR1", "USR2"} : HandleUsr(signal))
      PROVE  [Promise!Next]_(Promise!listingVars)
  BY <1>4, ProcessLists
<1>5. CASE PressInt
  <2>1. pressed' # {} /\ UNCHANGED <<argVars, path, broken, at, lines>> /\ \E d \in Dirs : Alive(d)
    BY <1>5 DEF PressInt
  <2>2. ~ Over /\ ~ Over' /\ Excuses' /\ UNCHANGED <<Wanted, Listed>>
    BY <2>1, WantedKept DEF Over, Alive, Excuses, Listed
  <2> QED
    BY <2>2, ListingExcused
<1>6. CASE UNCHANGED forensicVars
  <2>1. UNCHANGED <<argVars, path, broken, at, lines, pressed>>
    BY <1>6 DEF forensicVars, scanVars, intVars
  <2>2. UNCHANGED <<Wanted, Listed, Over, Excuses>>
    BY <2>1, WantedKept DEF Over, Alive, Excuses, Failed, Listed, argVars
  <2> QED
    BY <2>2, ListingGoesOn
<1> QED
  BY <1>1, <1>2, <1>3, <1>4, <1>5, <1>6 DEF Next

(* Whatever the tree and the command line, forensic is over only when what   *)
(* was asked for has been listed, or something excuses it, and it lists      *)
(* nothing else and nothing after it is over (forensic.c:340-400).            *)
THEOREM ForensicIsAListing == Spec => Promise!Init /\ [][Promise!Next]_(Promise!listingVars)
<1>1. Init => Promise!Init
  <2> SUFFICES ASSUME Init
               PROVE  Promise!Init
    OBVIOUS
  <2>1. path = NoLog /\ status = "args" /\ pressed = {} /\ \A d \in Dirs : at[d] = "off"
    BY DEF Init, ArgsInit
  <2>2. Wanted = {} /\ Listed = {}
    <3>1. Wanted = {}
      BY <2>1, WantedAre, ScanInvInit
    <3>2. Listed = {}
      <4>1. ForensicTypeOK /\ Quiet /\ status # "run"
        BY <2>1, ScanInvInit DEF ScanInv
      <4> QED
        BY <4>1 DEF Listed, Quiet, ForensicTypeOK
    <3> QED
      BY <3>1, <3>2
  <2>3. Over = FALSE
    BY <2>1 DEF Over
  <2>4. Excuses = FALSE
    BY <2>1 DEF Excuses, Over, Failed
  <2> QED
    BY <2>2, <2>3, <2>4 DEF Promise!Init, Listed, Excuses
<1>2. Init => ListInv
  BY ListInvInit
<1>3. ForensicInv /\ ListInv /\ [Next]_forensicVars => ListInv'
  BY ListInvStep
<1>4. ForensicInv /\ ListInv => Complete
  BY OverIsComplete
<1>5. ForensicInv /\ ListInv /\ Complete' /\ [Next]_forensicVars
        => [Promise!Next]_(Promise!listingVars)
  BY StepsList
<1> QED
  BY <1>1, <1>2, <1>3, <1>4, <1>5, ForensicInvariant, PTL DEF Spec
=============================================================================
