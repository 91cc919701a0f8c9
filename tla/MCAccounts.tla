----------------------------- MODULE MCAccounts -----------------------------
(* Instances of Accounts for TLC. *)
EXTENDS Accounts, TLC

\* Requests that are alike.
Alike == Permutations(Requests) \cup Permutations(Users)
=============================================================================
