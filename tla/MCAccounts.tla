----------------------------- MODULE MCAccounts -----------------------------
EXTENDS Accounts, TLC

Symmetry == Permutations(Account) \cup Permutations(Person) \cup Permutations(Slot)
=============================================================================
