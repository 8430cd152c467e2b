---------------------------- MODULE AtomicUpdate ----------------------------
(***************************************************************************)
(* What an A/B update promises: the device runs one build and remembers at *)
(* most one to fall back to.  An update is tried in a single step, never   *)
(* on top of an unsettled one, and is then settled either way.             *)
(***************************************************************************)
CONSTANTS Builds, InitBuild, None

VARIABLES current,   \* the build that would be started
          fallback   \* the build to return to while the current one is on trial, or None

Init == current = InitBuild /\ fallback = None

\* A new build takes the place of the current one, on trial.
Try(b) == fallback = None /\ current' = b /\ fallback' = current

\* The trial succeeded.
Commit == fallback # None /\ fallback' = None /\ UNCHANGED current

\* The trial failed: back to the build before it.
Revert == fallback # None /\ current' = fallback /\ fallback' = None

Next == (\E b \in Builds : Try(b)) \/ Commit \/ Revert

Spec == Init /\ [][Next]_<<current, fallback>>
=============================================================================
