-------------------------- MODULE MCMissionControl --------------------------
(***************************************************************************)
(* MissionControl for TLC: model values for the runs and the slices, and a *)
(* bound on how often the process dies, without which no liveness property *)
(* could hold (a process may die forever before it gets anything done).    *)
(***************************************************************************)
EXTENDS MissionControl, TLC

CONSTANTS r1, r2, r3, s1, s2, MaxCrashes

VARIABLE crashes

MCInit == Init /\ crashes = 0

MCNext ==
  \/ Step /\ UNCHANGED crashes
  \/ crashes < MaxCrashes /\ Restart /\ crashes' = crashes + 1

\* Runs and slices are interchangeable.
Symmetry == Permutations(Runs) \cup Permutations(Slices)

MCSpec == MCInit /\ [][MCNext]_<<vars, crashes>>

MCFairSpec == MCSpec /\ Fairness
=============================================================================
