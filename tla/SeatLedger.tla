------------------------------ MODULE SeatLedger ------------------------------
(***************************************************************************)
(* What the launch path promises the customer about the seats of a package *)
(* (the docstrings of silk_platform/quota.py): a launch that starts takes  *)
(* one seat, a launch that produces no report gives that same seat back,   *)
(* a study that is closed keeps it, and there are never more than Limit.   *)
(*                                                                         *)
(* StudyRun implements this module; how requests, workers, sweeps and      *)
(* processes interleave is not visible here.                               *)
(***************************************************************************)
EXTENDS Naturals, FiniteSets

CONSTANTS Studies, Limit

VARIABLES
    holds,   \* what each study holds: no seat, a busy one, or one for good
    count    \* seats taken

Init ==
    /\ holds = [s \in Studies |-> "none"]
    /\ count = 0

Start(s) ==
    /\ holds[s] = "none"
    /\ count < Limit
    /\ holds' = [holds EXCEPT ![s] = "busy"]
    /\ count' = count + 1

GiveBack(s) ==
    /\ holds[s] = "busy"
    /\ holds' = [holds EXCEPT ![s] = "none"]
    /\ count' = count - 1

Keep(s) ==
    /\ holds[s] = "busy"
    /\ holds' = [holds EXCEPT ![s] = "kept"]
    /\ UNCHANGED count

Next == \E s \in Studies : Start(s) \/ GiveBack(s) \/ Keep(s)

Spec == Init /\ [][Next]_<< holds, count >>

-----------------------------------------------------------------------------
(* The counter is the number of studies that hold a seat, so the package   *)
(* is never exceeded and a seat given back is one that was taken.          *)
CountIsHeld ==
    /\ count = Cardinality({s \in Studies : holds[s] # "none"})
    /\ count <= Limit

=============================================================================
