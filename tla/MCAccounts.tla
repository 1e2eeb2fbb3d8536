----------------------------- MODULE MCAccounts -----------------------------
(* Instances of Accounts for TLC. *)
EXTENDS Accounts

CONSTANTS p1, p2

Call(type, account_id, password, target, value, new_password) ==
  [pid |-> CHOOSE p \in Pids : TRUE, type |-> type, account_id |-> account_id,
   password |-> password, target |-> target, value |-> value,
   new_password |-> new_password]

Create(target, value, new_password) ==
  Call("OP_CREATE_ACCOUNT", ADMIN_ACCOUNT_ID, p1, target, value, new_password)
Transfer(from, to, amount) == Call("OP_TRANSFER", from, p2, to, amount, p2)
Ask(type, account_id, password) == Call(type, account_id, password, 0, 0, p2)

(* Three creations, two of them of the same account; transfers both ways   *)
(* between two accounts, that the balance of the sender or of the receiver *)
(* may not allow, and from an account to itself; a wrong password; accounts *)
(* that may not exist yet; what the administrator may not do and what only *)
(* it may.                                                                  *)
MCCalls ==
  {Create(1, 1, p2), Create(1, 3, p1), Create(2, 2, p2),
   Transfer(1, 2, 1), Transfer(2, 1, 1), Transfer(2, 1, 2), Transfer(1, 1, 1),
   Call("OP_TRANSFER", 0, p1, 1, 1, p2), Call("OP_CREATE_ACCOUNT", 1, p2, 2, 1, p2),
   Ask("OP_BALANCE", 1, p2), Ask("OP_BALANCE", 1, p1), Ask("OP_BALANCE", 0, p1),
   Ask("OP_SHUTDOWN", 0, p1), Ask("OP_SHUTDOWN", 1, p2)}
=============================================================================
