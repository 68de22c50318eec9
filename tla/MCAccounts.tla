----------------------------- MODULE MCAccounts -----------------------------
(* Small instances of Accounts: requests, names and emails are interchangeable. *)
EXTENDS Accounts, TLC

NameSymmetry ==
  Permutations(Requests) \cup Permutations(Usernames) \cup Permutations(Emails)
=============================================================================
