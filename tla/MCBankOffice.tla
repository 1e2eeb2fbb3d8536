---------------------------- MODULE MCBankOffice ----------------------------
(* Instances of BankOffice for TLC. *)
EXTENDS BankOffice

CONSTANTS p1, p2, u1, u2, u3

Call(pid, type, account_id, password, target, value) ==
  [pid |-> pid, type |-> type, account_id |-> account_id, password |-> password,
   target |-> target, value |-> value, new_password |-> p2]

Create(pid) == Call(pid, "OP_CREATE_ACCOUNT", ADMIN_ACCOUNT_ID, p1, 1, 1)
Balance(pid) == Call(pid, "OP_BALANCE", 1, p2, 0, 0)
Shutdown(pid) == Call(pid, "OP_SHUTDOWN", ADMIN_ACCOUNT_ID, p1, 0, 0)
UserShutdown(pid) == Call(pid, "OP_SHUTDOWN", 1, p2, 0, 0)

(* The administrator creates an account, stops the server, and another     *)
(* user asks for the balance of the account or tries to stop the server.   *)
MCCallsOf ==
  [p \in Pids |-> CASE p = u1 -> {Create(p)}
                    [] p = u2 -> {Balance(p), UserShutdown(p)}
                    [] p = u3 -> {Shutdown(p)}]

(* Two users, so that the graph is small enough for liveness. *)
MCCallsOfTwo ==
  [p \in Pids |-> IF p = u1 THEN {Create(p), Balance(p)}
                  ELSE {Create(p), Shutdown(p), UserShutdown(p)}]

(* One user creates an account, or asks for one that is not there, and the  *)
(* administrator stops the server.                                          *)
MCCallsOfHome ==
  [p \in Pids |-> IF p = u1 THEN {Create(p), Balance(p)} ELSE {Shutdown(p)}]

(* The administrator asks twice for the server to be stopped. *)
MCShutdownsOf == [p \in Pids |-> {Shutdown(p)}]

MCCalls ==
  UNION {{Create(p), Balance(p), Shutdown(p), UserShutdown(p)} : p \in Pids}
=============================================================================
