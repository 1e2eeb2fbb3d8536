---------------------------- MODULE MCHomeBanking ----------------------------
(* An instance of HomeBanking for TLC, with the constants of BankOffice's. *)
EXTENDS MCBankOffice, HomeBanking
=============================================================================
