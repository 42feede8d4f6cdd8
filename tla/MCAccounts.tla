----------------------------- MODULE MCAccounts -----------------------------
\* Accounts with its requests alike.
EXTENDS Accounts, TLC

Alike == Permutations(Request) \cup Permutations(Name) \cup Permutations(Uuid)
====
