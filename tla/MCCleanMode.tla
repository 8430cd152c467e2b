----------------------------- MODULE MCCleanMode -----------------------------
(* Instances of CleanMode for TLC.                                         *)
EXTENDS CleanMode

Default == [fan |-> 1, water |-> 1]
=============================================================================
