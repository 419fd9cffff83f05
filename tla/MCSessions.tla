----------------------------- MODULE MCSessions -----------------------------
EXTENDS Sessions, TLC

Symmetry == Permutations(Tab) \cup Permutations(Browser) \cup Permutations(App)
=============================================================================
