---------------------------- MODULE MCSlotUpdate ----------------------------
(* SlotUpdate on small instances: two good builds and a bad one.           *)
EXTENDS SlotUpdate, TLC

CONSTANTS v1, v2, bad

Perms == Permutations(Reqs)
=============================================================================
