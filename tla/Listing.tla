------------------------------- MODULE Listing -------------------------------
(***************************************************************************)
(* What a run of forensic promises: it comes to an end, with all its        *)
(* processes, and every file that was asked for has then been listed, once, *)
(* unless something excuses it.  Nothing is listed that was not asked for.  *)
(***************************************************************************)
CONSTANT Files

VARIABLES
  wanted,   \* the files asked for
  listed,   \* those that have been listed
  excused,  \* the run was interrupted, or an error has stopped some of it
  over      \* no process is left

listingVars == <<wanted, listed, excused, over>>

Init == wanted = {} /\ listed = {} /\ excused = FALSE /\ over = FALSE

Ask ==
  /\ ~ over /\ listed = {}
  /\ wanted' \in SUBSET Files
  /\ UNCHANGED <<listed, excused, over>>

List ==
  /\ ~ over
  /\ \E f \in wanted \ listed : listed' = listed \union {f}
  /\ UNCHANGED <<wanted, excused, over>>

Excuse ==
  /\ ~ over /\ excused' = TRUE
  /\ UNCHANGED <<wanted, listed, over>>

(* The last process may end in an error. *)
End ==
  /\ ~ over /\ over' = TRUE
  /\ \/ listed = wanted /\ UNCHANGED excused
     \/ excused' = TRUE
  /\ UNCHANGED <<wanted, listed>>

Next == Ask \/ List \/ Excuse \/ End

(* Somebody asks, and then it goes on to its end. *)
Spec == Init /\ [][Next]_listingVars /\ WF_listingVars(List \/ End)
=============================================================================
