----------------------------- MODULE MCMissionRun -----------------------------
EXTENDS MissionRun, TLC

CONSTANTS m1, m2, gaps

(* The parallel missions are interchangeable. *)
Symmetry == Permutations(Missions)

=============================================================================
