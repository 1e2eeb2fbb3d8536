------------------------------- MODULE Session -------------------------------
(***************************************************************************)
(* What a run of the user program promises: it comes to an end, and what   *)
(* it shows then tells whether the server may have carried out its request. *)
(* "refused", "no_fifo", "not_sent" and SRV_DOWN mean that it has not, and  *)
(* never will; anything else, a timeout above all, that it may have.        *)
(***************************************************************************)

CONSTANT Pids

VARIABLES
  phase,   \* phase[p]: the program with that pid is "idle", "asking" or "over"
  sent,    \* the pids whose program has put its request in the server's hands
  result   \* result[p]: what the user is shown

sessionVars == <<phase, sent, result>>

NotSent == {"refused", "no_fifo", "not_sent", "SRV_DOWN"}
MaybeDone == {"reply", "SRV_TIMEOUT", "USR_DOWN", "OTHER"}

Init ==
  /\ phase = [p \in Pids |-> "idle"]
  /\ sent = {}
  /\ result = [p \in Pids |-> "none"]

Ask(p) ==
  /\ phase[p] = "idle" /\ phase' = [phase EXCEPT ![p] = "asking"]
  /\ UNCHANGED <<sent, result>>

Send(p) ==
  /\ phase[p] = "asking" /\ sent' = sent \union {p}
  /\ UNCHANGED <<phase, result>>

Conclude(p) ==
  /\ phase[p] # "over" /\ phase' = [phase EXCEPT ![p] = "over"]
  /\ \E r \in IF p \in sent THEN MaybeDone ELSE NotSent : result' = [result EXCEPT ![p] = r]
  /\ UNCHANGED sent

(* Another program gets the pid. *)
Again(p) ==
  /\ phase[p] = "over" /\ phase' = [phase EXCEPT ![p] = "idle"]
  /\ sent' = sent \ {p}
  /\ result' = [result EXCEPT ![p] = "none"]

Next == \E p \in Pids : Ask(p) \/ Send(p) \/ Conclude(p) \/ Again(p)

Fairness == \A p \in Pids : WF_sessionVars(phase[p] = "asking" /\ Conclude(p))

Spec == Init /\ [][Next]_sessionVars /\ Fairness
=============================================================================
