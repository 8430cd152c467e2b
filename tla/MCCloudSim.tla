------------------------------ MODULE MCCloudSim ------------------------------
(* Instances of CloudSim for TLC: one setting, two values.                 *)
EXTENDS CloudSim
=============================================================================
