----------------------------- MODULE MCResearchRun -----------------------------
EXTENDS ResearchRun, TLC

CONSTANTS q1, q2, q3, r1, r2

(* Requests, and rows, are interchangeable. *)
Symmetry == Permutations(Reqs) \cup Permutations(Rows)

=============================================================================
