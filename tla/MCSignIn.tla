------------------------------ MODULE MCSignIn ------------------------------
EXTENDS SignIn, TLC

CONSTANT MaxSpent \* redirects, links and events together

Symmetry == Permutations(Person) \cup Permutations(Text)

(* A chain that has spent more is checked and not followed further. *)
Budget == spent.flow + spent.link + spent.event <= MaxSpent
=============================================================================
