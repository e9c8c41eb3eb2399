------------------------- MODULE MCAccountsRegimes -------------------------
(* The instance of MCAccounts for the two regimes of AccountsRegimes: the    *)
(* overlaps without a row for a new admin.                                   *)
EXTENDS MCAccounts, AccountsRegimes
=============================================================================
