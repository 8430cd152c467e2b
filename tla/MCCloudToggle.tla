---------------------------- MODULE MCCloudToggle ----------------------------
(* Instances of CloudToggle for TLC.                                       *)
EXTENDS CloudToggle, TLC

Perms == Permutations(Reqs)
=============================================================================
