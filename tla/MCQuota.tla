------------------------------- MODULE MCQuota -------------------------------
EXTENDS Quota, TLC

CONSTANTS l1, l2, l3, u1, u2

(* Launches, and users, are interchangeable. *)
Symmetry == Permutations(Launches) \cup Permutations(Users)

=============================================================================
