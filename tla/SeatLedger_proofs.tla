--------------------------- MODULE SeatLedger_proofs ---------------------------
(* Proofs about SeatLedger, for every finite set of studies and every limit. *)
EXTENDS SeatLedger, FiniteSetTheorems, TLAPS

Holders == {s \in Studies : holds[s] # "none"}

LedgerType ==
    /\ holds \in [Studies -> {"none", "busy", "kept"}]
    /\ count \in Nat

LedgerInv == LedgerType /\ CountIsHeld

(* Every step of the ledger keeps the count equal to the seats held. *)
LEMMA LedgerStep ==
    ASSUME IsFiniteSet(Studies), Limit \in Nat, LedgerInv, [Next]_<< holds, count >>
    PROVE  LedgerInv'
<1>. USE DEF LedgerInv, LedgerType
<1>1. IsFiniteSet(Holders) /\ count = Cardinality(Holders) /\ count <= Limit
  BY FS_Subset DEF Holders, CountIsHeld
<1>2. ASSUME NEW s \in Studies, Start(s) PROVE LedgerInv'
  <2>1. Holders' = Holders \cup {s} /\ s \notin Holders
    BY <1>2 DEF Start, Holders
  <2>2. Cardinality(Holders \cup {s}) = Cardinality(Holders) + 1
    BY <1>1, <2>1, FS_AddElement
  <2>. QED
    BY <1>1, <1>2, <2>1, <2>2 DEF Start, CountIsHeld, Holders
<1>3. ASSUME NEW s \in Studies, GiveBack(s) PROVE LedgerInv'
  <2>1. Holders' = Holders \ {s} /\ s \in Holders
    BY <1>3 DEF GiveBack, Holders
  <2>2. Cardinality(Holders \ {s}) = Cardinality(Holders) - 1
    BY <1>1, <2>1, FS_RemoveElement
  <2>3. IsFiniteSet(Holders \ {s}) /\ Cardinality(Holders \ {s}) \in Nat
    BY <1>1, FS_Subset, FS_CardinalityType
  <2>4. holds' \in [Studies -> {"none", "busy", "kept"}] /\ count' = count - 1
    BY <1>3 DEF GiveBack
  <2>5. count' = Cardinality(Holders \ {s}) /\ count' <= Limit /\ count' \in Nat
    BY <1>1, <2>2, <2>3, <2>4
  <2>. QED
    BY <2>1, <2>4, <2>5 DEF CountIsHeld, Holders
<1>4. ASSUME NEW s \in Studies, Keep(s) PROVE LedgerInv'
  <2>1. Holders' = Holders
    BY <1>4 DEF Keep, Holders
  <2>. QED
    BY <1>1, <1>4, <2>1 DEF Keep, CountIsHeld, Holders
<1>5. CASE UNCHANGED << holds, count >>
  BY <1>5 DEF CountIsHeld
<1>. QED
  BY <1>2, <1>3, <1>4, <1>5 DEF Next

(* The counter of an account is the number of studies that hold a seat,    *)
(* and never more than its package: a seat given back was one taken.       *)
THEOREM CounterIsHeldSeats ==
    ASSUME IsFiniteSet(Studies), Limit \in Nat
    PROVE  Spec => []CountIsHeld
<1>1. Init => LedgerInv
  <2>1. ASSUME Init PROVE Holders = {}
    BY <2>1 DEF Init, Holders
  <2>. QED
    BY <2>1, FS_EmptySet DEF Init, LedgerInv, LedgerType, CountIsHeld, Holders
<1>2. LedgerInv /\ [Next]_<< holds, count >> => LedgerInv'
  BY LedgerStep
<1>3. LedgerInv => CountIsHeld
  BY DEF LedgerInv
<1>. QED
  BY <1>1, <1>2, <1>3, PTL DEF Spec

=============================================================================
