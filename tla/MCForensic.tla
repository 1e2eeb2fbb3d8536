------------------------------ MODULE MCForensic ------------------------------
(* An instance of Forensic for TLC. *)
EXTENDS Forensic

(* Below the directory that may be asked for there is one with a file and an  *)
(* empty one.                                                                *)
MCEntries ==
  "dir" :> {"a", "s1", "s2"} @@ "s1" :> {"b"} @@ "s2" :> {}

Named == {"md5", "out", "in"}
MCWords == Options \union Named \union {"dir", "log", "none", "device"}
MCKinds ==
  [w \in MCWords |-> CASE w = "dir" -> "dir"
                       [] w \in {"in", "md5"} -> "file"
                       [] w = "device" -> "other"
                       [] OTHER -> "none"]
MCHashes == [w \in MCWords |-> IF w = "md5" THEN {"md5"} ELSE {}]

(* All the command lines of a few words about a file, and some about the     *)
(* directory.                                                                *)
MCLines ==
  UNION {[1 .. n -> Options \union Named] : n \in 0 .. 4}
  \union {<<"dir">>, <<"-r", "dir">>, <<"-o", "out", "dir">>, <<"-r", "-o", "out", "dir">>,
          <<"-o", "dir">>, <<"none">>, <<"device">>}
=============================================================================
