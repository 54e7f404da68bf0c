----------------------------- MODULE MCAccounts -----------------------------
(***************************************************************************)
(* Passwords for Accounts: one of 72 bytes, and a longer one that begins   *)
(* with it.                                                                *)
(***************************************************************************)
EXTENDS Accounts

CONSTANTS plain, full, short, long

MCPasswords == {plain, full, short, long}

MCKey == [p \in MCPasswords |-> IF p = long THEN full ELSE p]
==============================================================================
