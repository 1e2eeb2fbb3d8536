----------------------------- MODULE ForensicArgs -----------------------------
(***************************************************************************)
(* The arguments of forensic (processArgs, forensic.c of PROJ1), one word   *)
(* of the command line after the other.  A word is a model value or a       *)
(* string; what there is under a name in the file system is in "kind",      *)
(* because -o and -v create the files they name, or empty them, at once.    *)
(***************************************************************************)
EXTENDS Naturals, SequencesExt

CONSTANTS
  Words,       \* the words of command lines
  Kinds,       \* Kinds[w]: what that name stands for: "dir", "file", "other", "none"
  Hashes,      \* Hashes[w]: the names of hash functions that occur in the word
  Closed,      \* the names that cannot be opened to write
  LOGFILENAME, \* the value of that environment variable, NoLog if there is none
  NoLog,
  Lines        \* the command lines, without the name of the program

Options == {"-r", "-h", "-o", "-v"}

ASSUME ForensicArgsAssumption ==
  /\ Options \subseteq Words
  /\ Kinds \in [Words -> {"dir", "file", "other", "none"}]
  /\ Closed \subseteq Words /\ {w \in Words : Kinds[w] = "dir"} \subseteq Closed
  /\ LOGFILENAME \in Words \union {NoLog} /\ NoLog \notin Words
  /\ Lines \subseteq Seq(Words)

VARIABLES
  argv,     \* the command line
  i,        \* the word that is looked at
  opts,     \* the options found
  kind,     \* what there is under each name
  emptied,  \* the files that have been opened with "w"
  status    \* "args" as long as there are words, then "ok" or the exit status

argVars == <<argv, i, opts, kind, emptied, status>>

NoOptions == [r |-> FALSE, hashes |-> {}, o |-> FALSE, outfile |-> NoLog, v |-> FALSE]

ArgsInit ==
  /\ argv \in Lines /\ i = 1
  /\ opts = NoOptions
  /\ kind = Kinds /\ emptied = {}
  /\ status = "args"

-----------------------------------------------------------------------------
Word(option) == status = "args" /\ i < Len(argv) /\ argv[i] = option
Value == argv[i + 1]
Skip(words) == i' = i + words /\ UNCHANGED <<argv, status>>
ExitWith(n) == status' = n /\ UNCHANGED <<argv, i, opts, kind, emptied>>

(* fopen with "w" *)
Empty(name) ==
  /\ emptied' = emptied \union {name}
  /\ kind' = [kind EXCEPT ![name] = IF @ = "none" THEN "file" ELSE @]

OptionR ==
  /\ Word("-r") /\ Skip(1)
  /\ opts' = [opts EXCEPT !.r = TRUE]
  /\ UNCHANGED <<kind, emptied>>

(* The word after -h, which may be the last one, names hash functions. *)
OptionHSkipping(words) ==
  LET hashes == opts.hashes \union Hashes[Value]
  IN  /\ Word("-h")
      /\ IF hashes = {} THEN ExitWith("2")
         ELSE /\ Skip(words) /\ opts' = [opts EXCEPT !.hashes = hashes]
              /\ UNCHANGED <<kind, emptied>>

(* Mutant: it is looked at as an option again. *)
OptionHNotSkipped == OptionHSkipping(1)

OptionH == OptionHSkipping(2)

(* Mutant: the last word is taken for the name of the output. *)
OptionOLast ==
  /\ Word("-o")
  /\ IF Last(argv) \in Closed THEN ExitWith("4")
     ELSE /\ Skip(2) /\ opts' = [opts EXCEPT !.o = TRUE, !.outfile = Last(argv)]
          /\ Empty(Last(argv))

(* The test for a missing name is never true, the loop ending before it can *)
(* be: the last word is taken for the name, and again for what to look at.   *)
OptionO ==
  /\ Word("-o")
  /\ IF Value \in Closed THEN ExitWith("4")
     ELSE /\ Skip(2) /\ opts' = [opts EXCEPT !.o = TRUE, !.outfile = Value]
          /\ Empty(Value)

OptionV ==
  /\ Word("-v")
  /\ IF LOGFILENAME = NoLog THEN ExitWith("5")
     ELSE IF LOGFILENAME \in Closed THEN ExitWith("6")
     ELSE Skip(1) /\ Empty(LOGFILENAME) /\ opts' = [opts EXCEPT !.v = TRUE]

Unrecognized ==
  /\ status = "args" /\ i < Len(argv) /\ argv[i] \notin Options
  /\ ExitWith("7")

(* The last word, whether it has been taken for something else or not *)
LastArg ==
  /\ status = "args" /\ i >= Len(argv)
  /\ LET path == Last(argv)
     IN  ExitWith(IF argv = <<>> THEN "1"
                  ELSE CASE kind[path] = "none" -> "8"
                         [] kind[path] = "other" -> "9"
                         [] OTHER -> "ok")

ProcessArgs ==
  \/ OptionR \/ OptionH \/ OptionO \/ OptionV \/ Unrecognized \/ LastArg

-----------------------------------------------------------------------------
(* Properties *)

(* "forensic [-r] [-h [md5[,sha1[,sha256]]] [-o <outfile>] [-v] <file|dir>": *)
(* the places of the options among the first n words, if these are options   *)
(* and the values of -h and -o                                               *)
Readings(n) ==
  LET valued(places, k) == k \in places /\ argv[k] \in {"-h", "-o"}
  IN  {places \in SUBSET (1 .. n) :
         /\ \A k \in places : argv[k] \in Options
         /\ \A k \in 1 .. n : k \notin places <=> valued(places, k - 1)
         /\ ~ valued(places, n)}

Means(places) ==
  LET found(option) == {k \in places : argv[k] = option}
      values(option) == {argv[k + 1] : k \in found(option)}
  IN  /\ opts.r <=> found("-r") # {}
      /\ opts.v <=> found("-v") # {}
      /\ opts.o <=> found("-o") # {}
      /\ opts.o => opts.outfile \in values("-o")
      /\ opts.hashes = UNION {Hashes[w] : w \in values("-h")}

(* A command line that is accepted is one of the usage and means what it     *)
(* says, but that the last word may be the value of an option at the same    *)
(* time; one of the usage is never refused for an argument that is           *)
(* unrecognized (forensic.c:110-168).                                         *)
ArgsAsUsage ==
  LET n == Len(argv)
  IN  /\ status = "ok" => \E places \in Readings(n - 1) \union Readings(n) : Means(places)
      /\ status = "7" => Readings(n - 1) = {}

(* What is to be looked at is not emptied before, unless it is named as the  *)
(* output or the log as well, or -o has no name of its own (forensic.c:134). *)
InputKept ==
  status = "ok" /\ Last(argv) \in emptied =>
    \/ \E k \in 1 .. Len(argv) - 1 : argv[k] = "-o" /\ argv[k + 1] = Last(argv)
    \/ opts.v /\ LOGFILENAME = Last(argv)
=============================================================================
