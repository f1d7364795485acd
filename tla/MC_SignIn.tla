------------------------------ MODULE MC_SignIn -----------------------------
(* Calls of one kind are interchangeable.                                  *)
EXTENDS SignIn, TLC

Symmetry == Permutations(Issues) \cup Permutations(Guesses) \cup Permutations(Slots)

=============================================================================
