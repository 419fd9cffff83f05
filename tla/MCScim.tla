------------------------------- MODULE MCScim -------------------------------
EXTENDS Scim, TLC

Symmetry == Permutations(Subject) \cup Permutations(Account) \cup Permutations(Slot)
=============================================================================
