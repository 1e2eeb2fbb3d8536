---------------------------- MODULE MCUserProgram ----------------------------
(* An instance of UserProgram for TLC. *)
EXTENDS UserProgram

(* Numbers at the bounds and on both sides of them. *)
Around(low, high) == {-1, low - 1, low, high, high + 1}

Args(ids, delays, opcodes, words) ==
  [id : ids, password : {MIN_PASSWORD_LEN}, delay : delays, opcode : opcodes, words : words]

SomeWords ==
  {<<>>, <<1>>}
  \union {<<n, 1>> : n \in Around(1, MAX_BANK_ACCOUNTS)}
  \union {<<1, n>> : n \in Around(1, MAX_BALANCE)}
  \union {<<1, MAX_BALANCE, n>> :
            n \in {MIN_PASSWORD_LEN - 1, MIN_PASSWORD_LEN, MAX_PASSWORD_LEN, MAX_PASSWORD_LEN + 1}}
  \union {<<MAX_BANK_ACCOUNTS + 1, 1, MIN_PASSWORD_LEN>>}

(* The first process is run with any arguments, a later one to send a        *)
(* transfer or to be refused.                                                *)
MCArgsOf(n) ==
  IF n = 1
  THEN Args(Around(0, MAX_BANK_ACCOUNTS), {-1, 0, 1}, -1 .. 4, SomeWords)
  ELSE Args({1}, {0}, {2, 4}, {<<2, 1>>})
=============================================================================
