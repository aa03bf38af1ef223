------------------------------ MODULE MCStudyRun ------------------------------
(* Small instances of StudyRun for TLC. *)
EXTENDS StudyRun, TLC

CONSTANTS s1, s2, a1, a2, a3, b1, b2

(* Identities are compared for equality only. *)
Symmetry == Permutations(Studies) \cup Permutations(Attempts) \cup Permutations(Boots)
=============================================================================
