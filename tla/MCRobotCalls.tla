----------------------------- MODULE MCRobotCalls -----------------------------
(* Instances of RobotCalls for TLC: two callers and a poller.              *)
EXTENDS RobotCalls
=============================================================================
