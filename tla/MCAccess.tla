------------------------------- MODULE MCAccess -------------------------------
(* Instances of Access for TLC: two requests at a time.                    *)
EXTENDS Access, TLC

Symmetry == Permutations(Reqs) \cup Permutations(Keys) \cup Permutations(Passwords)
=============================================================================
