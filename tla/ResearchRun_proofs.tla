--------------------------- MODULE ResearchRun_proofs ---------------------------
(***************************************************************************)
(* Proofs about ResearchRun, for every set of requests and rows, every     *)
(* number of slots, every estimate and cap.                                *)
(***************************************************************************)
EXTENDS ResearchRun, FiniteSetTheorems, TLAPS

-----------------------------------------------------------------------------
(* The rows of the state's functions.                                      *)

RowType == [st : {"none", "running", "failed", "completed"},
            gen : Nat, fresh : BOOLEAN, whole : BOOLEAN,
            created : 0..MaxDay, prog : Progress]
SeenType == [st : {"none", "running", "failed", "completed"}, gen : Nat]
SettleType == [step : {"off", "mark", "read", "pay", "final", "flag"},
               row : Rows \cup {None}, prog : Progress, to : Nat \cup {None}]
FoundType == [row : Rows, orphan : BOOLEAN, prog : Progress]
Places == {"idle", "checked", "admitted", "reserved", "allocated", "started",
           "running", "saving", "closing", "unstarted", "ended", "refused", "dead"}

(* TypeOK by these names. *)
Typed ==
    /\ day \in Days /\ crashes \in 0..MaxCrash
    /\ ledger \in [Days -> Nat]
    /\ row \in [Rows -> RowType]
    /\ pc \in [Reqs -> Places]
    /\ at \in [Reqs -> Rows \cup {None}]
    /\ seen \in [Reqs -> SeenType]
    /\ bucket \in [Reqs -> 0..MaxDay]
    /\ cost \in [Reqs -> 0..MaxCost]
    /\ permits \in 0..Cap
    /\ handle \in [Rows -> Reqs \cup {None}]
    /\ cancel \in [Reqs -> BOOLEAN]
    /\ settle \in [Actors -> SettleType]
    /\ found \subseteq FoundType
    /\ toStop \subseteq Rows
    /\ stopping \in BOOLEAN
    /\ booked \in [Reqs -> Nat]
    /\ bookedOn \in [Reqs -> 0..MaxDay]

LEMMA TypedSame == TypeOK <=> Typed
BY DEF TypeOK, Typed, RowType, SeenType, SettleType, FoundType, Places

LEMMA Bounds ==
    /\ Cap \in Nat /\ Cap > 0
    /\ Estimate \in Nat /\ Estimate > 0
    /\ DayCap \in Nat /\ MaxCost \in Nat /\ MaxCrash \in Nat
    /\ MaxDay \in Nat /\ MaxDay > 0
BY ResearchAssumption

LEMMA Names ==
    /\ None \notin Reqs /\ None \notin Rows
    /\ Reaper \notin Reqs /\ Stopper \notin Reqs /\ Reaper # Stopper
    /\ Reqs \subseteq Actors /\ Reaper \in Actors /\ Stopper \in Actors
    /\ IsFiniteSet(Reqs)
BY ResearchAssumption DEF Reaper, Stopper, Actors

(* What one write leaves of each function. *)
LEMMA RowWrite ==
    ASSUME Typed, NEW r \in Rows, NEW new \in RowType, row' = [row EXCEPT ![r] = new]
    PROVE  /\ row' \in [Rows -> RowType] /\ row'[r] = new
           /\ \A x \in Rows \ {r} : row'[x] = row[x]
BY DEF Typed

(* update_research_progress: the progress, and a heartbeat. *)
LEMMA ProgWrite ==
    ASSUME Typed, NEW r \in Rows, NEW p \in Progress, row' = SetProg(r, p)
    PROVE  /\ row' \in [Rows -> RowType]
           /\ row'[r].st = row[r].st /\ row'[r].gen = row[r].gen
           /\ row'[r].whole = row[r].whole /\ row'[r].fresh
           /\ \A x \in Rows \ {r} : row'[x] = row[x]
<1>. DEFINE new == [row[r] EXCEPT !.prog = p, !.fresh = TRUE]
<1>1. row[r] \in RowType
  BY DEF Typed
<1>2. /\ new \in RowType /\ new.st = row[r].st /\ new.gen = row[r].gen
      /\ new.whole = row[r].whole /\ new.fresh
  BY <1>1 DEF RowType
<1>3. row' = [row EXCEPT ![r] = new]
  BY DEF SetProg, Typed
<1>. HIDE DEF new
<1>. QED
  BY <1>2, <1>3, RowWrite

LEMMA SettleWrite ==
    ASSUME Typed, NEW a \in Actors, NEW new \in SettleType, settle' = [settle EXCEPT ![a] = new]
    PROVE  /\ settle' \in [Actors -> SettleType] /\ settle'[a] = new
           /\ \A b \in Actors \ {a} : settle'[b] = settle[b]
BY DEF Typed

LEMMA IdleType == Idle \in SettleType /\ Idle.step = "off" /\ Idle.row = None
BY DEF Idle, SettleType, NoProgress, Progress

LEMMA BeginType ==
    ASSUME Typed, NEW a \in Actors, NEW r \in Rows, settle' = Begin(a, r, "mark")
    PROVE  /\ settle' \in [Actors -> SettleType]
           /\ settle'[a].step = "mark" /\ settle'[a].row = r
           /\ \A b \in Actors \ {a} : settle'[b] = settle[b]
<1>. DEFINE new == [Idle EXCEPT !.step = "mark", !.row = r]
<1>1. new \in SettleType /\ new.step = "mark" /\ new.row = r
  BY IdleType DEF Idle, SettleType
<1>2. settle' = [settle EXCEPT ![a] = new]
  BY DEF Begin
<1>. HIDE DEF new
<1>. QED
  BY <1>1, <1>2, SettleWrite

LEMMA RebaseType ==
    ASSUME Typed, NEW d, NEW from \in Nat, NEW to \in Nat, ledger' = Rebase(d, from, to)
    PROVE  ledger' \in [Days -> Nat]
<1>1. ledger \in [Days -> Nat]
  BY DEF Typed
<1>2. ASSUME NEW n \in Nat PROVE (IF n + to >= from THEN n + to - from ELSE 0) \in Nat
  OBVIOUS
<1>. QED
  BY <1>1, <1>2 DEF Rebase

-----------------------------------------------------------------------------
(* What the types rest on: a request past its claim has a row, who settles *)
(* has one, a stop still has its end to come, and no slot is returned that *)
(* was not taken.                                                          *)

Placed == \A q \in Reqs :
    pc[q] \in Working \cup {"unstarted"} => at[q] \in Rows

Settled == \A a \in Actors :
    IF settle[a].step = "off" THEN settle[a] = Idle ELSE settle[a].row \in Rows

EndToCome == stopping => crashes < MaxCrash

Holders == {q \in Reqs : pc[q] \in Holding}

NoneMadeUp == permits + Cardinality(Holders) <= Cap

StateInv == Typed /\ Placed /\ Settled /\ EndToCome /\ NoneMadeUp

LEMMA HoldersFinite == IsFiniteSet(Holders) /\ Cardinality(Holders) \in Nat
BY Names, FS_Subset, FS_CardinalityType DEF Holders

(* A request takes a slot, gives it back, or leaves the number of holders. *)
LEMMA Takes ==
    ASSUME Typed, NEW q \in Reqs, pc[q] \notin Holding, NEW to \in Holding,
           pc' = [pc EXCEPT ![q] = to]
    PROVE  Cardinality(Holders') = Cardinality(Holders) + 1
<1>1. Holders' = Holders \cup {q} /\ q \notin Holders
  BY DEF Holders, Typed
<1>. QED
  BY <1>1, HoldersFinite, FS_AddElement

LEMMA Gives ==
    ASSUME Typed, NEW q \in Reqs, pc[q] \in Holding, NEW to, to \notin Holding,
           pc' = [pc EXCEPT ![q] = to]
    PROVE  Cardinality(Holders') = Cardinality(Holders) - 1 /\ Cardinality(Holders) > 0
<1>1. Holders' = Holders \ {q} /\ q \in Holders
  BY DEF Holders, Typed
<1>2. Cardinality(Holders') = Cardinality(Holders) - 1
  BY <1>1, HoldersFinite, FS_RemoveElement
<1>3. IsFiniteSet(Holders') /\ Cardinality(Holders') \in Nat
  BY <1>1, HoldersFinite, FS_Subset, FS_CardinalityType
<1>. QED
  BY <1>2, <1>3, HoldersFinite

LEMMA Keeps ==
    ASSUME Typed, NEW q \in Reqs, NEW to, pc[q] \in Holding <=> to \in Holding,
           pc' = [pc EXCEPT ![q] = to]
    PROVE  Holders' = Holders
BY DEF Holders, Typed

(* One request moves. *)
LEMMA Moves ==
    ASSUME Typed, NEW q \in Reqs, NEW to \in Places, pc' = [pc EXCEPT ![q] = to]
    PROVE  /\ pc' \in [Reqs -> Places] /\ pc'[q] = to
           /\ \A p \in Reqs \ {q} : pc'[p] = pc[p]
BY DEF Typed

-----------------------------------------------------------------------------
(* The steps of a request keep the types.                                  *)

LEMMA ArriveState ==
    ASSUME StateInv, NEW q \in Reqs, Arrive(q)
    PROVE  StateInv'
<1>1. Typed /\ pc[q] = "idle" /\ pc' = [pc EXCEPT ![q] = "checked"]
  BY DEF StateInv, Arrive
<1>2. pc' \in [Reqs -> Places] /\ pc'[q] = "checked" /\ \A p \in Reqs \ {q} : pc'[p] = pc[p]
  BY <1>1, Moves DEF Places
<1>3. at' \in [Reqs -> Rows \cup {None}] /\ \A p \in Reqs \ {q} : at'[p] = at[p]
  BY <1>1 DEF Arrive, Typed
<1>4. seen' \in [Reqs -> SeenType]
  <2>1. ASSUME NEW r \in Rows, seen' = [seen EXCEPT ![q] = [st |-> row[r].st, gen |-> row[r].gen]]
        PROVE  seen' \in [Reqs -> SeenType]
    <3>1. [st |-> row[r].st, gen |-> row[r].gen] \in SeenType
      BY <1>1 DEF Typed, RowType, SeenType
    <3>. QED
      BY <1>1, <2>1, <3>1 DEF Typed
  <2>. QED
    BY <1>1, <2>1 DEF Arrive, Typed
<1>5. Typed'
  BY <1>1, <1>2, <1>3, <1>4 DEF Arrive, Typed, clock, books, registry, stop
<1>6. Placed'
  BY <1>2, <1>3 DEF StateInv, Placed, Working
<1>7. NoneMadeUp'
  BY <1>1, Keeps DEF StateInv, NoneMadeUp, Arrive, registry, Holding
<1>. QED
  BY <1>5, <1>6, <1>7 DEF StateInv, Settled, EndToCome, Arrive, clock, stop

LEMMA AdmitState ==
    ASSUME StateInv, NEW q \in Reqs, Admit(q)
    PROVE  StateInv'
<1>1. Typed /\ pc[q] = "checked"
  BY DEF StateInv, Admit
<1>2. permits \in Nat
  BY <1>1, Bounds DEF Typed
<1>3. CASE permits > 0
  <2>1. pc' = [pc EXCEPT ![q] = "admitted"] /\ permits' = permits - 1
    BY <1>3 DEF Admit
  <2>2. pc' \in [Reqs -> Places] /\ pc'[q] = "admitted" /\ \A p \in Reqs \ {q} : pc'[p] = pc[p]
    BY <1>1, <2>1, Moves DEF Places
  <2>3. Cardinality(Holders') = Cardinality(Holders) + 1
    BY <1>1, <2>1, Takes DEF Holding
  <2>4. permits' \in 0..Cap /\ NoneMadeUp'
    BY <1>1, <1>2, <1>3, <2>1, <2>3, HoldersFinite, Bounds DEF StateInv, NoneMadeUp, Typed
  <2>5. Typed' /\ Placed'
    BY <1>1, <2>2, <2>4 DEF StateInv, Placed, Working, Admit, Typed, clock, books, request, stop
  <2>. QED
    BY <2>4, <2>5 DEF StateInv, Settled, EndToCome, Admit, clock, stop
<1>4. CASE ~ (permits > 0)
  <2>1. pc' = [pc EXCEPT ![q] = "refused"] /\ permits' = permits
    BY <1>4 DEF Admit
  <2>2. pc' \in [Reqs -> Places] /\ pc'[q] = "refused" /\ \A p \in Reqs \ {q} : pc'[p] = pc[p]
    BY <1>1, <2>1, Moves DEF Places
  <2>3. NoneMadeUp'
    BY <1>1, <2>1, Keeps DEF StateInv, NoneMadeUp, Holding
  <2>4. Typed' /\ Placed'
    BY <1>1, <2>1, <2>2 DEF StateInv, Placed, Working, Admit, Typed, clock, books, request, stop
  <2>. QED
    BY <2>3, <2>4 DEF StateInv, Settled, EndToCome, Admit, clock, stop
<1>. QED
  BY <1>3, <1>4

(* A request that leaves the holders returns one slot. *)
LEMMA GivesBack ==
    ASSUME Typed, NoneMadeUp, NEW q \in Reqs, pc[q] \in Holding, NEW to, to \notin Holding,
           pc' = [pc EXCEPT ![q] = to], permits' \in {permits, permits + 1}
    PROVE  permits' \in 0..Cap /\ NoneMadeUp'
<1>1. Cardinality(Holders') = Cardinality(Holders) - 1 /\ Cardinality(Holders) > 0
  BY Gives
<1>. QED
  BY <1>1, HoldersFinite, Bounds DEF NoneMadeUp, Typed

LEMMA ReserveUsdState ==
    ASSUME StateInv, NEW q \in Reqs, ReserveUsd(q)
    PROVE  StateInv'
<1>1. Typed /\ pc[q] = "admitted"
  BY DEF StateInv, ReserveUsd
<1>2. CASE UnderDayCap
  <2>1. pc' = [pc EXCEPT ![q] = "reserved"]
    BY <1>2 DEF ReserveUsd
  <2>2. pc' \in [Reqs -> Places] /\ pc'[q] = "reserved" /\ \A p \in Reqs \ {q} : pc'[p] = pc[p]
    BY <1>1, <2>1, Moves DEF Places
  <2>3. ledger' \in [Days -> Nat] /\ booked' \in [Reqs -> Nat] /\ bookedOn' \in [Reqs -> 0..MaxDay]
    <3>1. ledger[day] + Estimate \in Nat /\ day \in 0..MaxDay
      BY <1>1, Bounds DEF Typed, Days
    <3>2. /\ ledger' = [ledger EXCEPT ![day] = ledger[day] + Estimate]
          /\ booked' = [booked EXCEPT ![q] = Estimate]
          /\ bookedOn' = [bookedOn EXCEPT ![q] = day]
      BY <1>2 DEF ReserveUsd
    <3>. QED
      BY <1>1, <3>1, <3>2, Bounds DEF Typed
  <2>4. NoneMadeUp'
    BY <1>1, <1>2, <2>1, Keeps DEF StateInv, NoneMadeUp, Holding, ReserveUsd, registry
  <2>5. Typed' /\ Placed'
    BY <1>1, <1>2, <2>2, <2>3 DEF StateInv, Placed, Working, ReserveUsd, Typed, clock, request, registry, stop
  <2>. QED
    BY <2>4, <2>5 DEF StateInv, Settled, EndToCome, ReserveUsd, clock, stop
<1>3. CASE ~ UnderDayCap
  <2>1. pc' = [pc EXCEPT ![q] = "refused"] /\ permits' = permits + 1
    BY <1>3 DEF ReserveUsd, Refuse
  <2>2. pc' \in [Reqs -> Places] /\ pc'[q] = "refused" /\ \A p \in Reqs \ {q} : pc'[p] = pc[p]
    BY <1>1, <2>1, Moves DEF Places
  <2>3. permits' \in 0..Cap /\ NoneMadeUp'
    BY <1>1, <2>1, GivesBack DEF StateInv, Holding
  <2>4. Typed' /\ Placed'
    BY <1>1, <1>3, <2>2, <2>3 DEF StateInv, Placed, Working, ReserveUsd, Refuse, Typed, clock, books, request, stop
  <2>. QED
    BY <2>3, <2>4 DEF StateInv, Settled, EndToCome, ReserveUsd, clock, stop
<1>. QED
  BY <1>2, <1>3

LEMMA GiveBackState ==
    ASSUME StateInv, NEW q \in Reqs, GiveBack(q)
    PROVE  StateInv'
<1>1. Typed /\ pc[q] = "reserved" /\ pc' = [pc EXCEPT ![q] = "refused"] /\ permits' = permits + 1
  BY DEF StateInv, GiveBack, Refuse
<1>2. pc' \in [Reqs -> Places] /\ pc'[q] = "refused" /\ \A p \in Reqs \ {q} : pc'[p] = pc[p]
  BY <1>1, Moves DEF Places
<1>3. permits' \in 0..Cap /\ NoneMadeUp'
  BY <1>1, GivesBack DEF StateInv, Holding
<1>4. ledger' \in [Days -> Nat]
  BY <1>1, RebaseType, Bounds DEF GiveBack
<1>5. booked' \in [Reqs -> Nat]
  BY <1>1 DEF GiveBack, Typed
<1>6. Typed' /\ Placed'
  BY <1>1, <1>2, <1>3, <1>4, <1>5 DEF StateInv, Placed, Working, GiveBack, Refuse, Typed, clock, request, stop
<1>. QED
  BY <1>3, <1>6 DEF StateInv, Settled, EndToCome, GiveBack, clock, stop

LEMMA ThrowsState ==
    ASSUME StateInv, NEW q \in Reqs, Throws(q)
    PROVE  StateInv'
<1>1. /\ Typed /\ pc[q] \in {"reserved", "allocated"} /\ permits' = permits + 1
      /\ \E to \in {"refused", "ended"} : pc' = [pc EXCEPT ![q] = to]
  BY DEF StateInv, Throws
<1>2. PICK to \in {"refused", "ended"} : pc' = [pc EXCEPT ![q] = to]
  BY <1>1
<1>3. to \in Places /\ to \notin Holding /\ pc[q] \in Holding
      /\ to \notin Working \cup {"unstarted"}
  BY <1>1 DEF Places, Holding, Working
<1>4. pc' \in [Reqs -> Places] /\ pc'[q] = to /\ \A p \in Reqs \ {q} : pc'[p] = pc[p]
  BY <1>1, <1>2, <1>3, Moves
<1>5. permits' \in 0..Cap /\ NoneMadeUp'
  BY <1>1, <1>2, <1>3, GivesBack DEF StateInv
<1>6. Typed' /\ Placed'
  BY <1>1, <1>3, <1>4, <1>5
     DEF StateInv, Placed, Throws, Typed, clock, books, request, stop
<1>. QED
  BY <1>5, <1>6 DEF StateInv, Settled, EndToCome, Throws, clock, stop

(* Progress with one of its fields written. *)
LEMMA ProgFields ==
    ASSUME NEW p \in Progress
    PROVE  /\ \A f \in BOOLEAN : [p EXCEPT !.flag = f] \in Progress
           /\ \A n \in Nat : [p EXCEPT !.cost = n] \in Progress
           /\ \A f \in BOOLEAN, n \in Nat \cup {None} :
                [p EXCEPT !.flag = f, !.actual = n] \in Progress
<1>. DEFINE Amount == Nat \cup {None}
<1>1. Progress = [flag : BOOLEAN, actual : Amount, cost : Nat]
  BY DEF Progress
<1>. HIDE DEF Amount
<1>2. \A f \in BOOLEAN, n \in Amount : [p EXCEPT !.flag = f, !.actual = n] \in Progress
  BY <1>1
<1>. QED
  BY <1>1, <1>2 DEF Amount

(* The row of a claim, and of a creation. *)
LEMMA ClaimRow ==
    ASSUME StateInv, NEW q \in Reqs, ClaimResume(q)
    PROVE  /\ at[q] \in Rows
           /\ row' \in [Rows -> RowType] /\ \A x \in Rows \ {at[q]} : row'[x] = row[x]
           /\ row'[at[q]].st = "running" /\ row'[at[q]].gen = row[at[q]].gen + 1
           /\ row'[at[q]].fresh /\ ~ row'[at[q]].whole
           /\ seen' \in [Reqs -> SeenType] /\ seen'[q].gen = row[at[q]].gen + 1
           /\ \A p \in Reqs \ {q} : seen'[p] = seen[p]
<1>. DEFINE r == at[q]
            prog == [row[r].prog EXCEPT !.flag = FALSE]
            gen == row[r].gen + 1
            new == [row[r] EXCEPT !.st = "running", !.gen = gen, !.fresh = TRUE,
                                  !.whole = FALSE, !.prog = prog]
<1>1. Typed /\ r \in Rows
  BY DEF StateInv, ClaimResume, Typed
<1>2. row[r] \in RowType /\ seen[q] \in SeenType
  BY <1>1 DEF Typed
<1>3. prog \in Progress /\ gen \in Nat
  <2>1. row[r].prog \in Progress /\ row[r].gen \in Nat
    BY <1>2 DEF RowType
  <2>2. gen \in Nat
    BY <2>1
  <2>3. prog \in Progress
    BY <2>1, ProgFields
  <2>. QED
    BY <2>2, <2>3
<1>5. row' = [row EXCEPT ![r] = new]
  BY DEF ClaimResume
<1>. HIDE DEF prog, gen
<1>4. new \in RowType /\ new.st = "running" /\ new.gen = gen /\ new.fresh /\ ~ new.whole
  BY <1>2, <1>3 DEF RowType
<1>6. seen' = [seen EXCEPT ![q].gen = row[r].gen + 1]
  BY DEF ClaimResume
<1>. HIDE DEF new
<1>7. row' \in [Rows -> RowType] /\ row'[r] = new /\ \A x \in Rows \ {r} : row'[x] = row[x]
  BY <1>1, <1>4, <1>5, RowWrite
<1>8. /\ seen' \in [Reqs -> SeenType] /\ seen'[q].gen = row[r].gen + 1
      /\ \A p \in Reqs \ {q} : seen'[p] = seen[p]
  <2>. DEFINE mine == [seen[q] EXCEPT !.gen = row[r].gen + 1]
  <2>1. mine \in SeenType /\ mine.gen = row[r].gen + 1
    BY <1>2, <1>3 DEF SeenType, gen
  <2>2. seen' = [seen EXCEPT ![q] = mine]
    BY <1>1, <1>6 DEF Typed
  <2>. HIDE DEF mine
  <2>. QED
    BY <1>1, <2>1, <2>2 DEF Typed
<1>. QED
  BY <1>1, <1>4, <1>7, <1>8 DEF gen

LEMMA ClaimState ==
    ASSUME StateInv, NEW q \in Reqs, ClaimResume(q)
    PROVE  StateInv'
<1>1. Typed /\ pc[q] = "reserved" /\ pc' = [pc EXCEPT ![q] = "allocated"]
  BY DEF StateInv, ClaimResume
<1>2. pc' \in [Reqs -> Places] /\ pc'[q] = "allocated" /\ \A p \in Reqs \ {q} : pc'[p] = pc[p]
  BY <1>1, Moves DEF Places
<1>3. NoneMadeUp'
  BY <1>1, Keeps DEF StateInv, NoneMadeUp, Holding, ClaimResume, registry
<1>4. Typed' /\ Placed'
  BY <1>1, <1>2, ClaimRow DEF StateInv, Placed, Working, ClaimResume, Typed, clock, books, registry, stop
<1>. QED
  BY <1>3, <1>4 DEF StateInv, Settled, EndToCome, ClaimResume, clock, stop

LEMMA CreateRow ==
    ASSUME StateInv, NEW q \in Reqs, CreateRun(q)
    PROVE  /\ at' \in [Reqs -> Rows \cup {None}] /\ at'[q] \in Rows /\ at[q] = None
           /\ \A p \in Reqs \ {q} : at'[p] = at[p]
           /\ row' \in [Rows -> RowType] /\ \A x \in Rows \ {at'[q]} : row'[x] = row[x]
           /\ row[at'[q]].st = "none" /\ row'[at'[q]].st = "running"
           /\ row'[at'[q]].fresh /\ row'[at'[q]].gen = row[at'[q]].gen
<1>1. Typed
  BY DEF StateInv
<1>2. PICK r \in Rows : /\ row[r].st = "none"
                        /\ row' = [row EXCEPT ![r] = [@ EXCEPT !.st = "running", !.fresh = TRUE,
                                                               !.created = day]]
                        /\ at' = [at EXCEPT ![q] = r]
  BY DEF CreateRun
<1>. DEFINE new == [row[r] EXCEPT !.st = "running", !.fresh = TRUE, !.created = day]
<1>3. row[r] \in RowType /\ day \in 0..MaxDay
  BY <1>1, Bounds DEF Typed, Days
<1>4. new \in RowType /\ new.st = "running" /\ new.fresh /\ new.gen = row[r].gen
  BY <1>3 DEF RowType
<1>5. row' = [row EXCEPT ![r] = new]
  BY <1>2
<1>6. at'[q] = r /\ at' \in [Reqs -> Rows \cup {None}] /\ \A p \in Reqs \ {q} : at'[p] = at[p]
  BY <1>1, <1>2 DEF Typed
<1>. HIDE DEF new
<1>7. row' \in [Rows -> RowType] /\ row'[r] = new /\ \A x \in Rows \ {r} : row'[x] = row[x]
  BY <1>1, <1>4, <1>5, RowWrite
<1>. QED
  BY <1>2, <1>4, <1>6, <1>7 DEF CreateRun

LEMMA CreateState ==
    ASSUME StateInv, NEW q \in Reqs, CreateRun(q)
    PROVE  StateInv'
<1>1. Typed /\ pc[q] = "reserved" /\ pc' = [pc EXCEPT ![q] = "allocated"]
  BY DEF StateInv, CreateRun
<1>2. pc' \in [Reqs -> Places] /\ pc'[q] = "allocated" /\ \A p \in Reqs \ {q} : pc'[p] = pc[p]
  BY <1>1, Moves DEF Places
<1>3. NoneMadeUp'
  BY <1>1, Keeps DEF StateInv, NoneMadeUp, Holding, CreateRun, registry
<1>4. Typed' /\ Placed'
  BY <1>1, <1>2, CreateRow DEF StateInv, Placed, CreateRun, Typed, clock, books, registry, stop
<1>. QED
  BY <1>3, <1>4 DEF StateInv, Settled, EndToCome, CreateRun, clock, stop

LEMMA RegisterState ==
    ASSUME StateInv, NEW q \in Reqs, Register(q)
    PROVE  StateInv'
<1>1. Typed /\ pc[q] = "allocated" /\ pc' = [pc EXCEPT ![q] = "started"]
  BY DEF StateInv, Register
<1>2. pc' \in [Reqs -> Places] /\ pc'[q] = "started" /\ \A p \in Reqs \ {q} : pc'[p] = pc[p]
  BY <1>1, Moves DEF Places
<1>3. NoneMadeUp'
  BY <1>1, Keeps DEF StateInv, NoneMadeUp, Holding, Register
<1>4. handle' \in [Rows -> Reqs \cup {None}]
  BY <1>1 DEF Register, Typed
<1>5. Typed' /\ Placed'
  BY <1>1, <1>2, <1>4 DEF StateInv, Placed, Working, Register, Typed, clock, books, request, stop
<1>. QED
  BY <1>3, <1>5 DEF StateInv, Settled, EndToCome, Register, clock, stop

LEMMA StartFailsState ==
    ASSUME StateInv, NEW q \in Reqs, StartFails(q)
    PROVE  StateInv'
<1>1. /\ Typed /\ pc[q] = "allocated" /\ pc' = [pc EXCEPT ![q] = "unstarted"]
      /\ permits' = permits + 1 /\ settle' = Begin(q, at[q], "mark")
  BY DEF StateInv, StartFails
<1>2. pc' \in [Reqs -> Places] /\ pc'[q] = "unstarted" /\ \A p \in Reqs \ {q} : pc'[p] = pc[p]
  BY <1>1, Moves DEF Places
<1>3. permits' \in 0..Cap /\ NoneMadeUp'
  BY <1>1, GivesBack DEF StateInv, Holding
<1>4. at[q] \in Rows /\ q \in Actors
  BY <1>1, Names DEF StateInv, Placed, Working
<1>5. /\ settle' \in [Actors -> SettleType]
      /\ settle'[q].step = "mark" /\ settle'[q].row = at[q]
      /\ \A b \in Actors \ {q} : settle'[b] = settle[b]
  BY <1>1, <1>4, BeginType
<1>6. Typed' /\ Placed'
  BY <1>1, <1>2, <1>3, <1>4, <1>5 DEF StateInv, Placed, StartFails, Typed, clock, books, request, stop
<1>7. Settled'
  BY <1>4, <1>5 DEF StateInv, Settled
<1>. QED
  BY <1>3, <1>6, <1>7 DEF StateInv, EndToCome, StartFails, clock, stop

-----------------------------------------------------------------------------
(* The pipeline's steps.                                                   *)

LEMMA PipelineStartState ==
    ASSUME StateInv, NEW q \in Reqs, PipelineStart(q)
    PROVE  StateInv'
<1>1. /\ Typed /\ pc[q] = "started" /\ pc' = [pc EXCEPT ![q] = "running"]
      /\ row' = SetProg(at[q], [row[at[q]].prog EXCEPT !.cost = 0])
  BY DEF StateInv, PipelineStart
<1>2. pc' \in [Reqs -> Places] /\ pc'[q] = "running" /\ \A p \in Reqs \ {q} : pc'[p] = pc[p]
  BY <1>1, Moves DEF Places
<1>3. NoneMadeUp'
  BY <1>1, Keeps DEF StateInv, NoneMadeUp, Holding, PipelineStart, registry
<1>4. at[q] \in Rows
  BY <1>1 DEF StateInv, Placed, Working
<1>5. row[at[q]].prog \in Progress
  BY <1>1, <1>4 DEF Typed, RowType
<1>6. row' \in [Rows -> RowType]
  BY <1>1, <1>4, <1>5, ProgFields, ProgWrite
<1>7. bucket' \in [Reqs -> 0..MaxDay]
  <2>1. day \in 0..MaxDay
    BY <1>1, Bounds DEF Typed, Days
  <2>2. bucket' = [bucket EXCEPT ![q] = day]
    BY DEF PipelineStart
  <2>. QED
    BY <1>1, <2>1, <2>2 DEF Typed
<1>8. Typed' /\ Placed'
  BY <1>1, <1>2, <1>4, <1>6, <1>7
     DEF StateInv, Placed, PipelineStart, Typed, clock, books, registry, stop
<1>. QED
  BY <1>3, <1>8 DEF StateInv, Settled, EndToCome, PipelineStart, clock, stop

LEMMA SpendState ==
    ASSUME StateInv, NEW q \in Reqs, Spend(q)
    PROVE  StateInv' /\ at[q] \in Rows
<1>1. /\ Typed /\ pc[q] = "running" /\ cost[q] < MaxCost
      /\ row' = SetProg(at[q], [row[at[q]].prog EXCEPT !.cost = cost[q] + 1])
      /\ cost' = [cost EXCEPT ![q] = cost[q] + 1]
  BY DEF StateInv, Spend
<1>2. at[q] \in Rows
  BY <1>1 DEF StateInv, Placed, Working
<1>3. row[at[q]].prog \in Progress
  BY <1>1, <1>2 DEF Typed, RowType
<1>4. cost[q] + 1 \in 0..MaxCost
  BY <1>1, Bounds DEF Typed
<1>5. row' \in [Rows -> RowType]
  <2>. DEFINE n == cost[q] + 1
              p == [row[at[q]].prog EXCEPT !.cost = n]
  <2>1. n \in Nat
    BY <1>4, Bounds
  <2>2. row' = SetProg(at[q], p)
    BY <1>1
  <2>. HIDE DEF n
  <2>3. p \in Progress
    BY <1>3, <2>1, ProgFields
  <2>. HIDE DEF p
  <2>. QED
    BY <1>1, <1>2, <2>2, <2>3, ProgWrite
<1>6. cost' \in [Reqs -> 0..MaxCost]
  BY <1>1, <1>4 DEF Typed
<1>7. Typed'
  BY <1>1, <1>5, <1>6 DEF Spend, Typed, clock, books, registry, stop
<1>. QED
  BY <1>2, <1>7 DEF StateInv, Placed, Settled, EndToCome, NoneMadeUp, Holders, Spend, clock,
                    stop, registry

LEMMA RaiseState ==
    ASSUME StateInv, NEW q \in Reqs, Raise(q)
    PROVE  StateInv'
<1>1. /\ Typed /\ pc[q] \in {"started", "running", "saving"}
      /\ pc' = [pc EXCEPT ![q] = "closing"] /\ settle' = Begin(q, at[q], "mark")
  BY DEF StateInv, Raise
<1>2. pc' \in [Reqs -> Places] /\ pc'[q] = "closing" /\ \A p \in Reqs \ {q} : pc'[p] = pc[p]
  BY <1>1, Moves DEF Places
<1>3. NoneMadeUp'
  BY <1>1, Keeps DEF StateInv, NoneMadeUp, Holding, Raise, registry
<1>4. at[q] \in Rows /\ q \in Actors
  BY <1>1, Names DEF StateInv, Placed, Working
<1>5. /\ settle' \in [Actors -> SettleType]
      /\ settle'[q].step = "mark" /\ settle'[q].row = at[q]
      /\ \A b \in Actors \ {q} : settle'[b] = settle[b]
  BY <1>1, <1>4, BeginType
<1>6. Typed' /\ Placed'
  BY <1>1, <1>2, <1>4, <1>5 DEF StateInv, Placed, Raise, Typed, clock, books, request, registry, stop
<1>7. Settled'
  BY <1>4, <1>5 DEF StateInv, Settled
<1>. QED
  BY <1>3, <1>6, <1>7 DEF StateInv, EndToCome, Raise, clock, stop

(* The final reconciliation begins with what the row says. *)
LEMMA FinishSettle ==
    ASSUME Typed, NEW q \in Reqs, at[q] \in Rows, Finish(q)
    PROVE  /\ settle' \in [Actors -> SettleType]
           /\ settle'[q].step = "final" /\ settle'[q].row = at[q]
           /\ \A b \in Actors \ {q} : settle'[b] = settle[b]
<1>. DEFINE new == [step |-> "final", row |-> at[q], prog |-> row[at[q]].prog, to |-> None]
<1>1. row[at[q]].prog \in Progress /\ q \in Actors
  BY Names DEF Typed, RowType
<1>2. new \in SettleType /\ new.step = "final" /\ new.row = at[q]
  BY <1>1 DEF SettleType
<1>3. settle' = [settle EXCEPT ![q] = new]
  BY DEF Finish
<1>. HIDE DEF new
<1>. QED
  BY <1>1, <1>2, <1>3, SettleWrite

LEMMA FinishState ==
    ASSUME StateInv, NEW q \in Reqs, Finish(q)
    PROVE  StateInv'
<1>1. Typed /\ pc[q] = "running" /\ pc' = [pc EXCEPT ![q] = "saving"]
  BY DEF StateInv, Finish
<1>2. pc' \in [Reqs -> Places] /\ pc'[q] = "saving" /\ \A p \in Reqs \ {q} : pc'[p] = pc[p]
  BY <1>1, Moves DEF Places
<1>3. NoneMadeUp'
  BY <1>1, Keeps DEF StateInv, NoneMadeUp, Holding, Finish, registry
<1>4. at[q] \in Rows /\ q \in Actors
  BY <1>1, Names DEF StateInv, Placed, Working
<1>5. /\ settle' \in [Actors -> SettleType]
      /\ settle'[q].step = "final" /\ settle'[q].row = at[q]
      /\ \A b \in Actors \ {q} : settle'[b] = settle[b]
  BY <1>1, <1>4, FinishSettle
<1>6. Typed' /\ Placed'
  BY <1>1, <1>2, <1>4, <1>5 DEF StateInv, Placed, Finish, Typed, clock, books, request, registry, stop
<1>7. Settled'
  BY <1>4, <1>5 DEF StateInv, Settled
<1>. QED
  BY <1>3, <1>6, <1>7 DEF StateInv, EndToCome, Finish, clock, stop

LEMMA SaveRow ==
    ASSUME Typed, NEW q \in Reqs, at[q] \in Rows, Save(q)
    PROVE  /\ row' \in [Rows -> RowType] /\ \A x \in Rows \ {at[q]} : row'[x] = row[x]
           /\ row'[at[q]].st = "completed" /\ row'[at[q]].gen = row[at[q]].gen
<1>1. PICK w \in BOOLEAN :
        row' = [row EXCEPT ![at[q]] = [row[at[q]] EXCEPT !.st = "completed", !.whole = w,
                                                         !.fresh = TRUE]]
  BY DEF Save
<1>. DEFINE new == [row[at[q]] EXCEPT !.st = "completed", !.whole = w, !.fresh = TRUE]
<1>2. row[at[q]] \in RowType
  BY DEF Typed
<1>3. new \in RowType /\ new.st = "completed" /\ new.gen = row[at[q]].gen
  BY <1>2 DEF RowType
<1>. HIDE DEF new
<1>. QED
  BY <1>1, <1>3, RowWrite DEF new

LEMMA SaveState ==
    ASSUME StateInv, NEW q \in Reqs, Save(q)
    PROVE  StateInv'
<1>1. Typed /\ pc[q] = "saving" /\ pc' = [pc EXCEPT ![q] = "closing"]
  BY DEF StateInv, Save
<1>2. pc' \in [Reqs -> Places] /\ pc'[q] = "closing" /\ \A p \in Reqs \ {q} : pc'[p] = pc[p]
  BY <1>1, Moves DEF Places
<1>3. NoneMadeUp'
  BY <1>1, Keeps DEF StateInv, NoneMadeUp, Holding, Save, registry
<1>4. at[q] \in Rows
  BY <1>1 DEF StateInv, Placed, Working
<1>5. Typed' /\ Placed'
  BY <1>1, <1>2, <1>4, SaveRow DEF StateInv, Placed, Save, Typed, clock, books, request, registry, stop
<1>. QED
  BY <1>3, <1>5 DEF StateInv, Settled, EndToCome, Save, clock, stop

LEMMA EndingState ==
    ASSUME StateInv, NEW q \in Reqs, Ending(q)
    PROVE  StateInv'
<1>1. Typed /\ pc[q] \in {"closing", "unstarted"} /\ pc' = [pc EXCEPT ![q] = "ended"]
  BY DEF StateInv, Ending, Release, UnstartedEnds
<1>2. pc' \in [Reqs -> Places] /\ pc'[q] = "ended" /\ \A p \in Reqs \ {q} : pc'[p] = pc[p]
  BY <1>1, Moves DEF Places
<1>3. CASE Release(q)
  <2>1. permits' \in {permits, permits + 1}
    BY <1>1, <1>3, Bounds DEF Release, Returned, Typed
  <2>2. permits' \in 0..Cap /\ NoneMadeUp'
    BY <1>1, <1>3, <2>1, GivesBack DEF StateInv, Holding, Release
  <2>3. handle' \in [Rows -> Reqs \cup {None}]
    BY <1>1, <1>3 DEF Release, Typed
  <2>4. Typed' /\ Placed'
    BY <1>1, <1>2, <1>3, <2>2, <2>3
       DEF StateInv, Placed, Working, Release, Typed, clock, books, request, stop
  <2>. QED
    BY <1>3, <2>2, <2>4 DEF StateInv, Settled, EndToCome, Release, clock, stop
<1>4. CASE UnstartedEnds(q)
  <2>1. NoneMadeUp'
    BY <1>1, <1>4, Keeps DEF StateInv, NoneMadeUp, Holding, UnstartedEnds, registry
  <2>2. Typed' /\ Placed'
    BY <1>1, <1>2, <1>4
       DEF StateInv, Placed, Working, UnstartedEnds, Typed, clock, books, request, registry, stop
  <2>. QED
    BY <1>4, <2>1, <2>2 DEF StateInv, Settled, EndToCome, UnstartedEnds, clock, stop
<1>. QED
  BY <1>3, <1>4 DEF Ending

-----------------------------------------------------------------------------
(* Settling.                                                               *)

(* An actor's next step in a settling it is in. *)
LEMMA Stepped ==
    ASSUME Typed, Settled, NEW a \in Actors, settle[a].step # "off",
           NEW to \in {"read", "pay", "flag"}, NEW n \in Nat \cup {None}, NEW p \in Progress,
           settle' = [settle EXCEPT ![a] = [settle[a] EXCEPT !.step = to, !.prog = p, !.to = n]]
    PROVE  /\ settle' \in [Actors -> SettleType]
           /\ settle'[a].step = to /\ settle'[a].row = settle[a].row
           /\ \A b \in Actors \ {a} : settle'[b] = settle[b]
           /\ settle[a].row \in Rows /\ Settled'
<1>. DEFINE new == [settle[a] EXCEPT !.step = to, !.prog = p, !.to = n]
            Amount == Nat \cup {None}
            Named == Rows \cup {None}
<1>1. settle[a] \in SettleType /\ settle[a].row \in Rows
  BY DEF Typed, Settled
<1>2. SettleType = [step : {"off", "mark", "read", "pay", "final", "flag"},
                    row : Named, prog : Progress, to : Amount]
  BY DEF SettleType
<1>3. n \in Amount
  OBVIOUS
<1>. HIDE DEF Amount, Named
<1>4. new \in SettleType /\ new.step = to /\ new.row = settle[a].row
  BY <1>1, <1>2, <1>3
<1>5. settle' = [settle EXCEPT ![a] = new]
  OBVIOUS
<1>. HIDE DEF new
<1>6. /\ settle' \in [Actors -> SettleType] /\ settle'[a] = new
      /\ \A b \in Actors \ {a} : settle'[b] = settle[b]
  BY <1>4, <1>5, SettleWrite
<1>7. Settled'
  BY <1>1, <1>4, <1>6 DEF Settled
<1>. QED
  BY <1>1, <1>4, <1>6, <1>7

(* An actor that is done. *)
LEMMA Rests ==
    ASSUME Typed, Settled, NEW a \in Actors, settle' = [settle EXCEPT ![a] = Idle]
    PROVE  /\ settle' \in [Actors -> SettleType] /\ settle'[a] = Idle
           /\ \A b \in Actors \ {a} : settle'[b] = settle[b]
           /\ Settled'
<1>1. /\ settle' \in [Actors -> SettleType] /\ settle'[a] = Idle
      /\ \A b \in Actors \ {a} : settle'[b] = settle[b]
  BY IdleType, SettleWrite
<1>. QED
  BY <1>1, IdleType DEF Settled

LEMMA MarkFacts ==
    ASSUME StateInv, NEW a \in Actors, Mark(a)
    PROVE  /\ settle[a].row \in Rows
           /\ row' \in [Rows -> RowType] /\ \A x \in Rows \ {settle[a].row} : row'[x] = row[x]
           /\ row'[settle[a].row].st = "failed"
           /\ row'[settle[a].row].gen = row[settle[a].row].gen
           /\ settle' \in [Actors -> SettleType] /\ settle'[a].step \in {"pay", "read"}
           /\ settle'[a].row = settle[a].row
           /\ \A b \in Actors \ {a} : settle'[b] = settle[b]
           /\ Settled'
<1>. DEFINE r == settle[a].row
            new == [row[r] EXCEPT !.st = "failed", !.fresh = TRUE]
            to == IF a = Reaper THEN "pay" ELSE "read"
<1>1. Typed /\ Settled /\ settle[a].step = "mark" /\ r \in Rows
  BY DEF StateInv, Settled, Mark
<1>2. row[r] \in RowType /\ settle[a] \in SettleType
  BY <1>1 DEF Typed
<1>3. new \in RowType /\ new.st = "failed" /\ new.gen = row[r].gen
  BY <1>2 DEF RowType
<1>4. row' = [row EXCEPT ![r] = new]
  BY DEF Mark
<1>5. row' \in [Rows -> RowType] /\ row'[r] = new /\ \A x \in Rows \ {r} : row'[x] = row[x]
  <2>. HIDE DEF new
  <2>. QED
    BY <1>1, <1>3, <1>4, RowWrite
<1>6. settle' = [settle EXCEPT ![a].step = to]
  BY DEF Mark
<1>7. settle[a].prog \in Progress /\ settle[a].to \in Nat \cup {None}
  BY <1>2 DEF SettleType
<1>8. settle' = [settle EXCEPT ![a] = [settle[a] EXCEPT !.step = to, !.prog = settle[a].prog,
                                                        !.to = settle[a].to]]
  BY <1>1, <1>2, <1>6 DEF Typed, SettleType
<1>9. to \in {"read", "pay", "flag"}
  OBVIOUS
<1>10. to \in {"pay", "read"}
  OBVIOUS
<1>. HIDE DEF new, to
<1>11. /\ settle' \in [Actors -> SettleType] /\ settle'[a].step = to
       /\ settle'[a].row = settle[a].row
       /\ \A b \in Actors \ {a} : settle'[b] = settle[b]
       /\ Settled'
  BY <1>1, <1>7, <1>8, <1>9, Stepped
<1>. QED
  BY <1>1, <1>3, <1>5, <1>10, <1>11

LEMMA ReadFacts ==
    ASSUME StateInv, NEW a \in Actors, ReadProgress(a)
    PROVE  /\ settle' \in [Actors -> SettleType] /\ settle'[a].step = "pay"
           /\ settle'[a].row = settle[a].row
           /\ \A b \in Actors \ {a} : settle'[b] = settle[b]
           /\ Settled'
<1>. DEFINE p == row[settle[a].row].prog
<1>1. Typed /\ Settled /\ settle[a].step = "read" /\ settle[a].row \in Rows
  BY DEF StateInv, Settled, ReadProgress
<1>2. p \in Progress /\ settle[a] \in SettleType
  BY <1>1 DEF Typed, RowType
<1>3. settle[a].to \in Nat \cup {None}
  BY <1>2 DEF SettleType
<1>4. settle' = [settle EXCEPT ![a] = [settle[a] EXCEPT !.step = "pay", !.prog = p,
                                                        !.to = settle[a].to]]
  BY <1>1, <1>2 DEF ReadProgress, Typed, SettleType
<1>. HIDE DEF p
<1>. QED
  BY <1>1, <1>2, <1>3, <1>4, Stepped

LEMMA PayFacts ==
    ASSUME StateInv, NEW a \in Actors, Pay(a)
    PROVE  /\ settle' \in [Actors -> SettleType]
           /\ \/ settle'[a] = Idle
              \/ settle'[a].step = "flag" /\ settle'[a].row = settle[a].row
           /\ \A b \in Actors \ {a} : settle'[b] = settle[b]
           /\ Settled' /\ Typed'
<1>. DEFINE s == settle[a]
<1>1. Typed /\ Settled /\ s.step = "pay"
  BY DEF StateInv, Pay
<1>2. s \in SettleType
  BY <1>1 DEF Typed
<1>3. s.prog \in Progress /\ s.to \in Nat \cup {None} /\ s.prog.cost \in Nat
  BY <1>2 DEF SettleType, Progress
<1>4. CASE settle' = [settle EXCEPT ![a] = Idle] /\ UNCHANGED books
  <2>1. /\ settle' \in [Actors -> SettleType] /\ settle'[a] = Idle /\ Settled'
        /\ \A b \in Actors \ {a} : settle'[b] = settle[b]
    BY <1>1, <1>4, Rests
  <2>2. Typed'
    BY <1>1, <1>4, <2>1 DEF Pay, Typed, clock, books, request, registry, stop
  <2>. QED
    BY <2>1, <2>2
<1>5. CASE settle' = [settle EXCEPT ![a].step = "flag"] /\ UNCHANGED books
  <2>1. settle' = [settle EXCEPT ![a] = [settle[a] EXCEPT !.step = "flag", !.prog = s.prog,
                                                          !.to = s.to]]
    BY <1>1, <1>2, <1>5 DEF Typed, SettleType
  <2>2. /\ settle' \in [Actors -> SettleType]
        /\ settle'[a].step = "flag" /\ settle'[a].row = settle[a].row
        /\ \A b \in Actors \ {a} : settle'[b] = settle[b]
        /\ Settled'
    BY <1>1, <1>3, <2>1, Stepped
  <2>3. Typed'
    BY <1>1, <1>5, <2>2 DEF Pay, Typed, clock, books, request, registry, stop
  <2>. QED
    BY <2>2, <2>3
<1>6. CASE /\ ledger' = Rebase(day, Estimate, s.prog.cost) /\ Book(s.row, s.prog.cost)
           /\ settle' = [settle EXCEPT ![a].step = "flag", ![a].to = s.prog.cost]
           /\ UNCHANGED bookedOn
  <2>1. settle' = [settle EXCEPT ![a] = [settle[a] EXCEPT !.step = "flag", !.prog = s.prog,
                                                          !.to = s.prog.cost]]
    BY <1>1, <1>2, <1>6 DEF Typed, SettleType
  <2>2. /\ settle' \in [Actors -> SettleType]
        /\ settle'[a].step = "flag" /\ settle'[a].row = settle[a].row
        /\ \A b \in Actors \ {a} : settle'[b] = settle[b]
        /\ Settled'
    BY <1>1, <1>3, <2>1, Stepped
  <2>3. ledger' \in [Days -> Nat]
    BY <1>1, <1>3, <1>6, RebaseType, Bounds
  <2>4. booked' \in [Reqs -> Nat]
    BY <1>1, <1>3, <1>6 DEF Book, Typed
  <2>5. Typed'
    BY <1>1, <1>6, <2>2, <2>3, <2>4 DEF Pay, Typed, clock, request, registry, stop
  <2>. QED
    BY <2>2, <2>5
<1>. QED
  BY <1>4, <1>5, <1>6 DEF Pay

LEMMA FlagFacts ==
    ASSUME StateInv, NEW a \in Actors, WriteFlag(a)
    PROVE  /\ settle[a].row \in Rows
           /\ row' \in [Rows -> RowType]
           /\ row'[settle[a].row].st = row[settle[a].row].st
           /\ row'[settle[a].row].gen = row[settle[a].row].gen
           /\ row'[settle[a].row].whole = row[settle[a].row].whole
           /\ row'[settle[a].row].fresh
           /\ \A x \in Rows \ {settle[a].row} : row'[x] = row[x]
           /\ settle' \in [Actors -> SettleType] /\ settle'[a] = Idle
           /\ \A b \in Actors \ {a} : settle'[b] = settle[b]
           /\ Settled'
<1>. DEFINE r == settle[a].row
            p == Flagged(row[r].prog, settle[a].to)
<1>1. Typed /\ Settled /\ r \in Rows
  BY DEF StateInv, Settled, WriteFlag
<1>2. row[r].prog \in Progress /\ settle[a].to \in Nat \cup {None}
  BY <1>1 DEF Typed, RowType, SettleType
<1>3. p \in Progress
  BY <1>2, ProgFields DEF Flagged
<1>4. row' = SetProg(r, p) /\ settle' = [settle EXCEPT ![a] = Idle]
  BY DEF WriteFlag
<1>. HIDE DEF p
<1>. QED
  BY <1>1, <1>3, <1>4, ProgWrite, Rests

LEMMA PayFinalFacts ==
    ASSUME StateInv, NEW q \in Reqs, PayFinal(q)
    PROVE  /\ settle' \in [Actors -> SettleType]
           /\ settle'[q].step = "flag" /\ settle'[q].row = settle[q].row
           /\ \A b \in Actors \ {q} : settle'[b] = settle[b]
           /\ Settled' /\ Typed'
<1>1. Typed /\ Settled /\ settle[q].step = "final" /\ q \in Actors
  BY Names DEF StateInv, PayFinal
<1>2. settle[q] \in SettleType /\ cost[q] \in Nat
  BY <1>1, Bounds DEF Typed
<1>3. settle[q].prog \in Progress
  BY <1>2 DEF SettleType
<1>4. FinalBase(settle[q].prog) \in Nat
  BY <1>3, Bounds DEF FinalBase, Progress
<1>5. ledger' \in [Days -> Nat]
  BY <1>1, <1>2, <1>4, RebaseType DEF PayFinal
<1>6. booked' \in [Reqs -> Nat]
  BY <1>1, <1>2 DEF PayFinal, Typed
<1>7. settle' = [settle EXCEPT ![q] = [settle[q] EXCEPT !.step = "flag", !.prog = settle[q].prog,
                                                        !.to = cost[q]]]
  BY <1>1, <1>2 DEF PayFinal, Typed, SettleType
<1>8. /\ settle' \in [Actors -> SettleType]
      /\ settle'[q].step = "flag" /\ settle'[q].row = settle[q].row
      /\ \A b \in Actors \ {q} : settle'[b] = settle[b]
      /\ Settled'
  BY <1>1, <1>2, <1>3, <1>7, Stepped
<1>9. Typed'
  BY <1>1, <1>5, <1>6, <1>8 DEF PayFinal, Typed, clock, request, registry, stop
<1>. QED
  BY <1>8, <1>9

LEMMA SettlingState ==
    ASSUME StateInv, NEW a \in Actors, Settling(a) \/ (a \in Reqs /\ PayFinal(a))
    PROVE  StateInv'
<1>1. CASE Mark(a)
  <2>1. UNCHANGED << clock, books, pc, request, registry, found, stop >>
    BY <1>1 DEF Mark
  <2>. QED
    BY <1>1, <2>1, MarkFacts DEF StateInv, Placed, EndToCome, NoneMadeUp, Holders, Typed, clock,
                                 books, request, registry, stop
<1>2. CASE ReadProgress(a)
  BY <1>2, ReadFacts DEF StateInv, Placed, EndToCome, NoneMadeUp, Holders, ReadProgress, Typed, clock,
                         books, request, registry, stop
<1>3. CASE Pay(a)
  BY <1>3, PayFacts DEF StateInv, Placed, EndToCome, NoneMadeUp, Holders, Pay, clock, request,
                        registry, stop
<1>4. CASE WriteFlag(a)
  BY <1>4, FlagFacts DEF StateInv, Placed, EndToCome, NoneMadeUp, Holders, WriteFlag, Typed, clock,
                         books, request, registry, stop
<1>5. CASE a \in Reqs /\ PayFinal(a)
  BY <1>5, PayFinalFacts DEF StateInv, Placed, EndToCome, NoneMadeUp, Holders, PayFinal, clock,
                             request, registry, stop
<1>. QED
  BY <1>1, <1>2, <1>3, <1>4, <1>5 DEF Settling

-----------------------------------------------------------------------------
(* The reaper, the stop and the end of the process, time.                  *)

LEMMA ReapReadState ==
    ASSUME StateInv, NEW skip, ReapRead(skip)
    PROVE  StateInv'
<1>1. Typed
  BY DEF StateInv
<1>2. \A r \in Rows : row[r].prog \in Progress
  BY <1>1 DEF Typed, RowType
<1>3. \A r \in Rows : IsOrphan(r) \in BOOLEAN
  BY DEF IsOrphan
<1>4. found' \subseteq FoundType
  BY <1>2, <1>3 DEF ReapRead, FoundType
<1>5. UNCHANGED << clock, books, row, pc, request, registry, settle, stop >>
  BY DEF ReapRead
<1>. QED
  BY <1>1, <1>4, <1>5 DEF StateInv, Placed, Settled, EndToCome, NoneMadeUp, Holders, Typed, clock,
                          books, request, registry, stop

LEMMA ReapRowFacts ==
    ASSUME StateInv, ReapRow
    PROVE  \E e \in found :
              /\ e \in FoundType /\ found' = found \ {e}
              /\ settle' \in [Actors -> SettleType]
              /\ settle'[Reaper].step = (IF e.orphan THEN "mark" ELSE "pay")
              /\ settle'[Reaper].row = e.row
              /\ \A b \in Actors \ {Reaper} : settle'[b] = settle[b]
<1>1. PICK e \in found :
        /\ found' = found \ {e}
        /\ settle' = [settle EXCEPT ![Reaper] = [step |-> IF e.orphan THEN "mark" ELSE "pay",
                                                 row |-> e.row, prog |-> e.prog, to |-> None]]
  BY DEF ReapRow
<1>. DEFINE to == IF e.orphan THEN "mark" ELSE "pay"
            new == [step |-> to, row |-> e.row, prog |-> e.prog, to |-> None]
<1>2. Typed /\ e \in FoundType
  BY DEF StateInv, Typed
<1>3. to \in {"mark", "pay"}
  OBVIOUS
<1>4. settle' = [settle EXCEPT ![Reaper] = new]
  BY <1>1
<1>. HIDE DEF to
<1>5. new \in SettleType /\ new.step = to /\ new.row = e.row
  BY <1>2, <1>3 DEF SettleType, FoundType
<1>. HIDE DEF new
<1>6. /\ settle' \in [Actors -> SettleType] /\ settle'[Reaper] = new
      /\ \A b \in Actors \ {Reaper} : settle'[b] = settle[b]
  BY <1>2, <1>4, <1>5, Names, SettleWrite
<1>. QED
  BY <1>1, <1>2, <1>5, <1>6 DEF to

LEMMA ReapRowState ==
    ASSUME StateInv, ReapRow
    PROVE  StateInv'
<1>1. PICK e \in found :
        /\ e \in FoundType /\ found' = found \ {e}
        /\ settle' \in [Actors -> SettleType]
        /\ settle'[Reaper].step = (IF e.orphan THEN "mark" ELSE "pay")
        /\ settle'[Reaper].row = e.row
        /\ \A b \in Actors \ {Reaper} : settle'[b] = settle[b]
  BY ReapRowFacts
<1>2. e.row \in Rows
  BY <1>1 DEF FoundType
<1>3. Settled'
  BY <1>1, <1>2 DEF StateInv, Settled
<1>4. UNCHANGED << clock, books, row, pc, request, registry, stop >>
  BY DEF ReapRow
<1>. QED
  BY <1>1, <1>3, <1>4 DEF StateInv, Placed, EndToCome, NoneMadeUp, Holders, Typed, clock, books,
                          request, registry, stop

LEMMA StopState ==
    ASSUME StateInv, ShutdownBegin \/ \E r \in Rows : StopRun(r)
    PROVE  StateInv'
<1>1. Typed
  BY DEF StateInv
<1>2. CASE ShutdownBegin
  <2>1. UNCHANGED << clock, books, row, pc, request, registry, settle, found >>
    BY <1>2 DEF ShutdownBegin
  <2>2. toStop' \subseteq Rows /\ stopping' = TRUE /\ crashes < MaxCrash
    BY <1>2 DEF ShutdownBegin, Live
  <2>. QED
    BY <1>1, <2>1, <2>2 DEF StateInv, Placed, Settled, EndToCome, NoneMadeUp, Holders, Typed,
                            clock, books, request, registry
<1>3. ASSUME NEW r \in Rows, StopRun(r) PROVE StateInv'
  <2>1. UNCHANGED << clock, books, row, pc, request, permits, handle, found, stopping >>
    BY <1>3 DEF StopRun
  <2>2. toStop' \subseteq Rows /\ cancel' \in [Reqs -> BOOLEAN]
    BY <1>1, <1>3 DEF StopRun, Typed
  <2>3. settle' \in [Actors -> SettleType] /\ Settled'
    <3>1. CASE settle' = settle
      BY <1>1, <3>1 DEF StateInv, Settled, Typed
    <3>2. CASE settle' = Begin(Stopper, r, "mark")
      BY <1>1, <3>2, Names, BeginType DEF StateInv, Settled
    <3>. QED
      BY <1>3, <3>1, <3>2 DEF StopRun
  <2>. QED
    BY <1>1, <2>1, <2>2, <2>3 DEF StateInv, Placed, EndToCome, NoneMadeUp, Holders, Typed,
                                  clock, books, request
<1>. QED
  BY <1>2, <1>3

(* The end of the process: nothing of its memory is left. *)
LEMMA EndsFacts ==
    ASSUME StateInv, Crash \/ Exit
    PROVE  /\ \A q \in Reqs : /\ pc'[q] \in Ended
                              /\ pc'[q] # "dead" => pc'[q] = pc[q]
           /\ permits' = Cap /\ found' = {} /\ toStop' = {} /\ stopping' = FALSE
           /\ \A a \in Actors : settle'[a] = Idle
           /\ \A r \in Rows : handle'[r] = None
           /\ \A q \in Reqs : at'[q] = IF pc[q] \in Unclaimed THEN None ELSE at[q]
           /\ UNCHANGED << day, books, row, seen, bucket, cost >>
           /\ StateInv'
<1>1. ProcessEnds
  BY DEF Crash, Exit
<1>2. /\ \A q \in Reqs : pc'[q] \in Ended /\ (pc'[q] # "dead" => pc'[q] = pc[q])
      /\ pc' \in [Reqs -> Places]
  <2>1. pc' = [q \in Reqs |-> IF pc[q] \in Ended THEN pc[q] ELSE "dead"]
    BY <1>1 DEF ProcessEnds
  <2>. QED
    BY <2>1 DEF StateInv, Typed, Ended, Places
<1>3. /\ permits' = Cap /\ found' = {} /\ toStop' = {} /\ stopping' = FALSE
      /\ settle' = [a \in Actors |-> Idle] /\ handle' = [r \in Rows |-> None]
      /\ cancel' = [q \in Reqs |-> FALSE] /\ crashes' = crashes + 1
      /\ at' = [q \in Reqs |-> IF pc[q] \in Unclaimed THEN None ELSE at[q]]
      /\ UNCHANGED << day, books, row, seen, bucket, cost >>
  BY <1>1 DEF ProcessEnds
<1>4. crashes' \in 0..MaxCrash
  <2>1. crashes < MaxCrash
    BY DEF StateInv, EndToCome, Crash, Exit
  <2>. QED
    BY <1>3, <2>1, Bounds DEF StateInv, Typed
<1>5. settle' \in [Actors -> SettleType] /\ Settled'
  BY <1>3, IdleType DEF Settled
<1>6. Holders' = {}
  BY <1>2 DEF Holders, Holding, Ended
<1>7. NoneMadeUp' /\ permits' \in 0..Cap
  BY <1>3, <1>6, Bounds, FS_EmptySet DEF NoneMadeUp
<1>8. Placed'
  BY <1>2 DEF Placed, Working, Ended
<1>9. at' \in [Reqs -> Rows \cup {None}]
  BY <1>3 DEF StateInv, Typed
<1>10. Typed'
  BY <1>2, <1>3, <1>4, <1>5, <1>7, <1>9 DEF StateInv, Typed, books
<1>. QED
  BY <1>2, <1>3, <1>5, <1>7, <1>8, <1>10 DEF StateInv, EndToCome

LEMMA LapseRow ==
    ASSUME Typed, NEW r \in Rows, Lapse(r)
    PROVE  /\ row' \in [Rows -> RowType] /\ \A x \in Rows \ {r} : row'[x] = row[x]
           /\ row'[r].st = row[r].st /\ row'[r].gen = row[r].gen
           /\ row'[r].whole = row[r].whole
<1>. DEFINE new == [row[r] EXCEPT !.fresh = FALSE]
<1>1. row[r] \in RowType
  BY DEF Typed
<1>2. /\ new \in RowType /\ new.st = row[r].st /\ new.gen = row[r].gen
      /\ new.whole = row[r].whole
  BY <1>1 DEF RowType
<1>3. row' = [row EXCEPT ![r] = new]
  BY <1>1 DEF Lapse, Typed
<1>. HIDE DEF new
<1>. QED
  BY <1>2, <1>3, RowWrite

LEMMA TimeState ==
    ASSUME StateInv, NewDay \/ \E r \in Rows : Lapse(r) \/ Cancel(r)
    PROVE  StateInv'
<1>1. Typed
  BY DEF StateInv
<1>2. CASE NewDay
  <2>1. UNCHANGED << crashes, books, row, pc, request, registry, settle, found, stop >>
    BY <1>2 DEF NewDay
  <2>2. day' \in Days
    BY <1>1, <1>2, Bounds DEF NewDay, Typed, Days
  <2>. QED
    BY <1>1, <2>1, <2>2 DEF StateInv, Placed, Settled, EndToCome, NoneMadeUp, Holders, Typed,
                            books, request, registry, stop
<1>3. ASSUME NEW r \in Rows, Lapse(r) PROVE StateInv'
  <2>1. UNCHANGED << clock, books, pc, request, registry, settle, found, stop >>
    BY <1>3 DEF Lapse
  <2>. QED
    BY <1>1, <1>3, <2>1, LapseRow DEF StateInv, Placed, Settled, EndToCome, NoneMadeUp, Holders,
                                  Typed, clock, books, request, registry, stop
<1>4. ASSUME NEW r \in Rows, Cancel(r) PROVE StateInv'
  <2>1. UNCHANGED << clock, books, row, pc, request, permits, handle, settle, found, stop >>
    BY <1>4 DEF Cancel
  <2>2. cancel' \in [Reqs -> BOOLEAN]
    BY <1>1, <1>4 DEF Cancel, Typed
  <2>. QED
    BY <1>1, <2>1, <2>2 DEF StateInv, Placed, Settled, EndToCome, NoneMadeUp, Holders, Typed,
                            clock, books, request, stop
<1>. QED
  BY <1>2, <1>3, <1>4

LEMMA StateStep == StateInv /\ [Next]_vars => StateInv'
<1>. SUFFICES ASSUME StateInv, [Next]_vars PROVE StateInv'
  OBVIOUS
<1>1. ASSUME NEW q \in Reqs, Arrive(q) \/ Handling(q) PROVE StateInv'
  BY <1>1, ArriveState, AdmitState, ReserveUsdState, ClaimState, CreateState, GiveBackState,
     ThrowsState, RegisterState, StartFailsState DEF Handling
<1>2. ASSUME NEW q \in Reqs, Pipeline(q) PROVE StateInv'
  BY <1>2, PipelineStartState, SpendState, RaiseState, FinishState, SaveState DEF Pipeline
<1>3. ASSUME NEW q \in Reqs, PayFinal(q) \/ Ending(q) PROVE StateInv'
  BY <1>3, SettlingState, EndingState, Names
<1>4. ASSUME NEW a \in Actors, Settling(a) PROVE StateInv'
  BY <1>4, SettlingState
<1>5. CASE ReapTick \/ ReapAll \/ ReapRow
  BY <1>5, ReapReadState, ReapRowState DEF ReapTick, ReapAll
<1>6. CASE ShutdownBegin \/ \E r \in Rows : StopRun(r)
  BY <1>6, StopState
<1>7. CASE Crash \/ Exit
  BY <1>7, EndsFacts
<1>8. CASE NewDay \/ \E r \in Rows : Lapse(r) \/ Cancel(r)
  BY <1>8, TimeState
<1>9. CASE UNCHANGED vars
  BY <1>9 DEF vars, StateInv, Placed, Settled, EndToCome, NoneMadeUp, Holders, Typed, clock, books,
              request, registry, stop
<1>. QED
  BY <1>1, <1>2, <1>3, <1>4, <1>5, <1>6, <1>7, <1>8, <1>9 DEF Next

LEMMA StateInit == Init => StateInv
<1>. SUFFICES ASSUME Init PROVE StateInv
  OBVIOUS
<1>1. NoProgress \in Progress
  BY DEF NoProgress, Progress
<1>2. [st |-> "none", gen |-> 0, fresh |-> FALSE, whole |-> FALSE, created |-> 0,
       prog |-> NoProgress] \in RowType
  BY <1>1, Bounds DEF RowType
<1>3. [st |-> "none", gen |-> 0] \in SeenType
  BY DEF SeenType
<1>4. Holders = {}
  BY DEF Init, Holders, Holding
<1>5. NoneMadeUp
  BY <1>4, Bounds, FS_EmptySet DEF Init, NoneMadeUp
<1>6. /\ row \in [Rows -> RowType] /\ seen \in [Reqs -> SeenType]
      /\ settle \in [Actors -> SettleType]
  BY <1>2, <1>3, IdleType DEF Init
<1>7. 0 \in 0..MaxDay /\ 0 \in 0..MaxCost /\ 0 \in 0..MaxCrash /\ Cap \in 0..Cap
  BY Bounds
<1>8. Typed
  <2>1. day \in Days /\ ledger \in [Days -> Nat]
    BY Bounds DEF Init, Days
  <2>2. pc \in [Reqs -> Places] /\ found \subseteq FoundType
    BY DEF Init, Places
  <2>3. /\ bucket \in [Reqs -> 0..MaxDay] /\ cost \in [Reqs -> 0..MaxCost]
        /\ bookedOn \in [Reqs -> 0..MaxDay] /\ crashes \in 0..MaxCrash /\ permits \in 0..Cap
    BY <1>7 DEF Init
  <2>. QED
    BY <1>6, <2>1, <2>2, <2>3 DEF Init, Typed
<1>. QED
  BY <1>5, <1>8, IdleType DEF Init, StateInv, Placed, Settled, EndToCome, Working

(* The state of the runtime has its types, and with them its bounds: never *)
(* more slots free than there are, no run past what it may cost, one end   *)
(* of the process at a time (silk_research_runtime.py and api.py).  No     *)
(* assumption is made on how settlings of a row interleave.                *)
THEOREM TypeCorrect == Spec => []TypeOK
<1>1. StateInv => TypeOK
  BY TypedSame DEF StateInv
<1>. QED
  BY <1>1, StateInit, StateStep, PTL DEF Spec

-----------------------------------------------------------------------------
(* One run per row, when settlings of one row do not overlap.              *)

Registered == {"started", "running", "saving", "closing"}

Waits(q) == pc[q] \in {"checked", "admitted", "reserved"} /\ at[q] # None

(* A row that anybody refers to has been created; one that has not is of   *)
(* the first generation, which is that of a request that creates its row.  *)
Created ==
    /\ \A q \in Reqs : at[q] # None => row[at[q]].st # "none"
    /\ \A q \in Reqs : pc[q] = "idle" => at[q] = None
    /\ \A r \in toStop : row[r].st # "none"
    /\ \A a \in Actors : settle[a].step # "off" => row[settle[a].row].st # "none"
    /\ \A e \in found : row[e.row].st # "none"
    /\ \A r \in Rows : row[r].st = "none" => row[r].gen = 0
    /\ \A q \in Reqs : pc[q] \in Unclaimed /\ at[q] = None => seen[q].gen = 0

(* A handle is that of the run it was registered for, and no other. *)
HandlesTrue ==
    /\ \A q \in Reqs : pc[q] \in Registered => handle[at[q]] = q
    /\ \A r \in Rows : handle[r] # None => pc[handle[r]] \in Registered /\ at[handle[r]] = r

(* A run carries its row's generation, and has not completed it before it  *)
(* closes. Between its claim and its registration nobody settles the books *)
(* of the row, nor is about to.                                            *)
RunsRow == \A q \in Reqs : pc[q] \in Working =>
    /\ seen[q].gen = row[at[q]].gen
    /\ pc[q] # "closing" => row[at[q]].st # "completed"
    /\ pc[q] = "allocated" =>
         /\ row[at[q]].st = "running" /\ row[at[q]].fresh
         /\ \A a \in Actors : ~ Engaged(a, at[q])
         /\ at[q] \notin toStop

(* Who waits for a row has seen an earlier generation of it than the one   *)
(* that runs, or is being stopped; and a row that lacks nothing is newer   *)
(* than what anyone waiting has seen.                                      *)
SeenBefore == \A p \in Reqs : Waits(p) =>
    /\ seen[p].gen <= row[at[p]].gen
    /\ \A q \in Reqs : pc[q] \in Working /\ at[q] = at[p] => seen[p].gen < row[at[p]].gen
    /\ at[p] \in toStop => seen[p].gen < row[at[p]].gen
    /\ row[at[p]].st = "completed" /\ row[at[p]].whole => seen[p].gen < row[at[p]].gen

(* At most one actor settles a row, and none that has yet to mark it failed *)
(* does so over a result.                                                   *)
OneSettles ==
    \A a, b \in Actors, r \in Rows : Engaged(a, r) /\ Engaged(b, r) => a = b

MarksNoResult ==
    /\ \A a \in Actors : settle[a].step = "mark" => row[settle[a].row].st # "completed"
    /\ \A e \in found : e.orphan => row[e.row].st # "completed"

(* A request settles its own row only, and nothing before its claim; and a *)
(* stop is under way while there are rows to stop.                         *)
SettlesOwn == \A q \in Reqs :
    /\ pc[q] \in Unclaimed \cup {"refused", "allocated", "started", "running"}
         => settle[q].step = "off"
    /\ settle[q].step # "off" => settle[q].row = at[q]

StopsWhileStopping == toStop # {} => stopping

ClaimInv ==
    /\ Created /\ HandlesTrue /\ RunsRow /\ SeenBefore
    /\ OneSettles /\ MarksNoResult /\ SettlesOwn /\ StopsWhileStopping

RunInv == StateInv /\ SlotsExact /\ OnePipelinePerRow /\ ClaimInv

LEMMA Gens ==
    ASSUME Typed
    PROVE  /\ \A r \in Rows : row[r].gen \in Nat /\ row[r] \in RowType
           /\ \A r \in Rows : handle[r] \in Reqs \cup {None}
           /\ \A q \in Reqs : seen[q].gen \in Nat /\ at[q] \in Rows \cup {None}
BY DEF Typed, RowType, SeenType

(* Nobody waits for a row that a run has in hand: its handle, or between   *)
(* its claim and its registration its heartbeat, turns a resume away.      *)
LEMMA NoneArrivesAtRun ==
    ASSUME RunInv, NEW r \in Rows, Resumable(r), NEW p \in Reqs, pc[p] \in Working
    PROVE  at[p] # r
<1>1. handle[r] = None /\ ~ (row[r].st = "running" /\ row[r].fresh)
  BY DEF Resumable
<1>2. CASE pc[p] = "allocated"
  BY <1>1, <1>2 DEF RunInv, ClaimInv, RunsRow
<1>3. CASE pc[p] \in Registered
  BY <1>1, <1>3, Names DEF RunInv, ClaimInv, HandlesTrue
<1>. QED
  BY <1>2, <1>3 DEF Working, Registered

LEMMA ArriveClaims ==
    ASSUME RunInv, ~ SettleRaces, NEW q \in Reqs, Arrive(q)
    PROVE  OnePipelinePerRow' /\ ClaimInv'
<1>0. Typed /\ StateInv /\ ClaimInv /\ OnePipelinePerRow
  BY DEF RunInv, StateInv
<1>1. pc[q] = "idle" /\ ~ stopping /\ UNCHANGED << row, handle, settle, found, toStop, stopping >>
  BY DEF Arrive, registry, stop
<1>2. pc'[q] = "checked" /\ \A p \in Reqs \ {q} : pc'[p] = pc[p]
  BY <1>0 DEF Arrive, Typed
<1>3. \/ UNCHANGED << at, seen >>
      \/ \E r \in Rows : /\ Resumable(r) /\ at'[q] = r
                         /\ seen'[q].st = row[r].st /\ seen'[q].gen = row[r].gen
  BY <1>0 DEF Arrive, Typed
<1>4. \A p \in Reqs \ {q} : at'[p] = at[p] /\ seen'[p] = seen[p]
  BY <1>0 DEF Arrive, Typed
<1>5. at[q] = None /\ seen[q].gen = 0
  BY <1>0, <1>1 DEF ClaimInv, Created, Unclaimed
<1>6. toStop = {}
  BY <1>0, <1>1 DEF ClaimInv, StopsWhileStopping
<1>7. OnePipelinePerRow'
  BY <1>0, <1>1, <1>2, <1>4 DEF OnePipelinePerRow, Working
<1>8. Created'
  <2>1. at'[q] # None => row[at'[q]].st # "none"
    BY <1>3, <1>5 DEF Resumable
  <2>2. at'[q] = None => seen'[q].gen = 0
    BY <1>0, <1>3, <1>5, Names
  <2>. QED
    BY <1>0, <1>1, <1>2, <1>4, <2>1, <2>2 DEF ClaimInv, Created
<1>9. HandlesTrue'
  BY <1>0, <1>1, <1>2, <1>4, Gens DEF ClaimInv, HandlesTrue, Registered
<1>10. RunsRow'
  BY <1>0, <1>1, <1>2, <1>4 DEF ClaimInv, RunsRow, Working, Engaged
<1>11. SeenBefore'
  <2>. SUFFICES ASSUME NEW p \in Reqs, Waits(p)'
                PROVE  /\ seen'[p].gen <= row[at'[p]].gen
                       /\ \A x \in Reqs : pc'[x] \in Working /\ at'[x] = at'[p]
                                             => seen'[p].gen < row[at'[p]].gen
                       /\ row[at'[p]].st = "completed" /\ row[at'[p]].whole
                             => seen'[p].gen < row[at'[p]].gen
    BY <1>1, <1>6 DEF SeenBefore
  <2>1. CASE p # q
    BY <1>0, <1>2, <1>4, <2>1 DEF ClaimInv, SeenBefore, Waits, Working
  <2>2. CASE p = q
    <3>1. PICK r \in Rows : /\ Resumable(r) /\ at'[q] = r
                            /\ seen'[q].st = row[r].st /\ seen'[q].gen = row[r].gen
      BY <1>3, <1>5, <2>2 DEF Waits
    <3>2. \A x \in Reqs : pc'[x] \in Working => at'[x] # r
      BY <1>2, <1>4, <3>1, NoneArrivesAtRun DEF Working
    <3>. QED
      BY <1>0, <2>2, <3>1, <3>2, Gens DEF Resumable
  <2>. QED
    BY <2>1, <2>2
<1>12. OneSettles' /\ MarksNoResult' /\ StopsWhileStopping'
  BY <1>0, <1>1 DEF ClaimInv, OneSettles, MarksNoResult, StopsWhileStopping, Engaged
<1>13. SettlesOwn'
  BY <1>0, <1>1, <1>2, <1>4 DEF ClaimInv, SettlesOwn, Unclaimed
<1>. QED
  BY <1>7, <1>8, <1>9, <1>10, <1>11, <1>12, <1>13 DEF ClaimInv

(* A request that waits moves on or is turned away; one whose thread could *)
(* not be started ends, and so does one that fails after its claim.        *)
LEMMA WaitingMoves ==
    ASSUME RunInv, NEW q \in Reqs, NEW to, pc' = [pc EXCEPT ![q] = to],
           \/ pc[q] \in {"checked", "admitted", "reserved"} /\ to \in {"admitted", "reserved", "refused"}
           \/ pc[q] \in {"unstarted", "allocated"} /\ to = "ended",
           UNCHANGED << row, at, seen, handle, settle, found, toStop, stopping >>
    PROVE  OnePipelinePerRow' /\ ClaimInv'
<1>0. Typed /\ ClaimInv /\ OnePipelinePerRow
  BY DEF RunInv, StateInv
<1>1. pc'[q] = to /\ \A p \in Reqs \ {q} : pc'[p] = pc[p]
  BY <1>0 DEF Typed
<1>2. pc[q] \notin Registered /\ to \notin Working /\ to \notin Registered
  BY DEF Working, Registered
<1>3. \A p \in Reqs : pc'[p] \in Working => pc[p] \in Working
  BY <1>1, <1>2
<1>4. \A p \in Reqs : pc'[p] \in Working => pc'[p] = pc[p]
  BY <1>1, <1>2
<1>5. \A p \in Reqs : Waits(p)' => Waits(p)
  BY <1>1 DEF Waits
<1>6. OnePipelinePerRow'
  BY <1>0, <1>3 DEF OnePipelinePerRow
<1>7. Created'
  BY <1>0, <1>1 DEF ClaimInv, Created, Unclaimed
<1>8. HandlesTrue'
  <2>1. \A p \in Reqs : pc'[p] \in Registered <=> pc[p] \in Registered
    BY <1>1, <1>2
  <2>2. \A r \in Rows : handle[r] # None => handle[r] \in Reqs
    BY <1>0 DEF Typed
  <2>. QED
    BY <1>0, <2>1, <2>2 DEF ClaimInv, HandlesTrue
<1>9. RunsRow'
  BY <1>0, <1>3, <1>4 DEF ClaimInv, RunsRow, Engaged
<1>10. SeenBefore'
  BY <1>0, <1>3, <1>5 DEF ClaimInv, SeenBefore
<1>11. OneSettles' /\ MarksNoResult' /\ StopsWhileStopping'
  BY <1>0 DEF ClaimInv, OneSettles, MarksNoResult, StopsWhileStopping, Engaged
<1>12. SettlesOwn'
  BY <1>0, <1>1 DEF ClaimInv, SettlesOwn, Unclaimed
<1>. QED
  BY <1>6, <1>7, <1>8, <1>9, <1>10, <1>11, <1>12 DEF ClaimInv

(* Rows keep their status and generation, and their heartbeat; whoever     *)
(* settles goes on with the row it has, or is done; a run may begin.       *)
LEMMA Beats ==
    ASSUME RunInv, StateInv',
           \A r \in Rows : /\ row'[r].st = row[r].st /\ row'[r].gen = row[r].gen
                           /\ row'[r].whole = row[r].whole
                           /\ row[r].fresh => row'[r].fresh,
           \A a \in Actors : \/ settle'[a] = settle[a] \/ settle'[a] = Idle
                             \/ /\ settle'[a].row = settle[a].row /\ settle'[a].step # "mark"
                                /\ settle[a].step # "off",
           \A q \in Reqs : pc'[q] = pc[q] \/ (pc[q] = "started" /\ pc'[q] = "running"),
           UNCHANGED << at, seen, handle, found, toStop, stopping >>
    PROVE  OnePipelinePerRow' /\ ClaimInv'
<1>0. Typed /\ ClaimInv /\ OnePipelinePerRow /\ Placed /\ Settled /\ Placed' /\ Settled'
  BY DEF RunInv, StateInv
<1>1. \A q \in Reqs : /\ pc'[q] \in Working <=> pc[q] \in Working
                      /\ pc'[q] \in Registered <=> pc[q] \in Registered
                      /\ pc'[q] \in Unclaimed <=> pc[q] \in Unclaimed
                      /\ pc'[q] = "allocated" <=> pc[q] = "allocated"
                      /\ pc'[q] = "closing" <=> pc[q] = "closing"
                      /\ Waits(q)' <=> Waits(q)
  BY DEF Working, Registered, Unclaimed, Waits
<1>2. \A q \in Reqs : pc[q] \in Working => at[q] \in Rows
  BY <1>0 DEF Placed
<1>3. \A a \in Actors : settle'[a].step # "off" =>
                           /\ settle[a].step # "off" /\ settle'[a].row = settle[a].row
                           /\ settle[a].row \in Rows
                           /\ settle'[a].step = "mark" => settle[a].step = "mark"
  BY <1>0, IdleType DEF Settled
<1>4. ASSUME NEW a \in Actors, NEW r \in Rows, Engaged(a, r)' PROVE Engaged(a, r)
  <2>1. settle'[a].row = r => settle'[a].step # "off"
    BY <1>0, IdleType, Names DEF Settled
  <2>. QED
    BY <1>3, <1>4, <2>1 DEF Engaged
<1>5. \A e \in found : e.row \in Rows
  BY <1>0 DEF Typed, FoundType
<1>6. OnePipelinePerRow'
  BY <1>0, <1>1 DEF OnePipelinePerRow
<1>7. Created'
  <2>1. \A r \in toStop : r \in Rows
    BY <1>0 DEF Typed
  <2>2. \A q \in Reqs : at[q] # None => at[q] \in Rows
    BY <1>0 DEF Typed
  <2>3. \A a \in Actors : settle'[a].step # "off" => row'[settle'[a].row].st # "none"
    BY <1>0, <1>3 DEF ClaimInv, Created
  <2>. QED
    BY <1>0, <1>1, <1>5, <2>1, <2>2, <2>3 DEF ClaimInv, Created
<1>8. HandlesTrue'
  BY <1>0, <1>1, Gens DEF ClaimInv, HandlesTrue
<1>9. RunsRow'
  BY <1>0, <1>1, <1>2, <1>4 DEF ClaimInv, RunsRow
<1>10. SeenBefore'
  <2>1. \A p \in Reqs : Waits(p) => at[p] \in Rows
    BY <1>0 DEF Typed, Waits
  <2>. QED
    BY <1>0, <1>1, <2>1 DEF ClaimInv, SeenBefore
<1>11. OneSettles'
  BY <1>0, <1>4 DEF ClaimInv, OneSettles
<1>12. MarksNoResult'
  BY <1>0, <1>3, <1>5 DEF ClaimInv, MarksNoResult
<1>13. SettlesOwn'
  BY <1>0, <1>1, <1>3, Names DEF ClaimInv, SettlesOwn
<1>14. StopsWhileStopping'
  BY <1>0 DEF ClaimInv, StopsWhileStopping
<1>. QED
  BY <1>6, <1>7, <1>8, <1>9, <1>10, <1>11, <1>12, <1>13, <1>14 DEF ClaimInv

(* An actor that settles nothing begins with a row that nobody else        *)
(* settles: a run that ends or could not start, or the stop of the process.*)
LEMMA Begins ==
    ASSUME RunInv, StateInv', NEW a \in Actors, NEW r \in Rows,
           a # Reaper, settle[a].step = "off", \A b \in Actors \ {a} : ~ Engaged(b, r),
           settle'[a].row = r, settle'[a].step \in {"mark", "final"},
           \A b \in Actors \ {a} : settle'[b] = settle[b],
           row[r].st \notin {"none", "completed"},
           \/ a \notin Reqs /\ pc' = pc /\ toStop' = toStop \ {r} /\ r \in toStop
           \/ /\ a \in Reqs /\ at[a] = r /\ toStop' = toStop
              /\ \A q \in Reqs \ {a} : pc'[q] = pc[q]
              /\ \/ pc[a] = "allocated" /\ pc'[a] = "unstarted"
                 \/ pc[a] \in Registered /\ pc'[a] \in {"saving", "closing"},
           UNCHANGED << row, at, seen, handle, found, stopping >>
    PROVE  OnePipelinePerRow' /\ ClaimInv'
<1>0. Typed /\ ClaimInv /\ OnePipelinePerRow /\ Placed /\ Settled /\ Placed' /\ Settled'
  BY DEF RunInv, StateInv
<1>1. \A q \in Reqs : /\ pc'[q] \in Working => pc[q] \in Working
                      /\ pc'[q] \in Unclaimed <=> pc[q] \in Unclaimed
                      /\ pc'[q] = "allocated" => pc[q] = "allocated" /\ pc'[q] = pc[q]
                      /\ pc'[q] # "closing" /\ pc'[q] \in Working => pc[q] # "closing" \/ q = a
                      /\ Waits(q)' <=> Waits(q)
  BY DEF Working, Registered, Unclaimed, Waits
<1>2. \A q \in Reqs : pc'[q] \in Registered <=> pc[q] \in Registered
  BY DEF Registered
<1>3. \A q \in Reqs : pc'[q] = "allocated" => at[q] # r
  <2>1. CASE a \notin Reqs
    BY <1>0, <2>1 DEF ClaimInv, RunsRow, Working
  <2>2. CASE a \in Reqs
    BY <1>0, <1>1, <2>2, Names DEF OnePipelinePerRow, Working, Registered
  <2>. QED
    BY <2>1, <2>2
<1>4. settle[a].row = None
  BY <1>0, IdleType DEF Settled
<1>5. ASSUME NEW b \in Actors, NEW x \in Rows, Engaged(b, x)'
      PROVE  Engaged(b, x) \/ (b = a /\ x = r)
  BY <1>5 DEF Engaged
<1>6. OnePipelinePerRow'
  BY <1>0, <1>1 DEF OnePipelinePerRow
<1>7. Created'
  BY <1>0, <1>1 DEF ClaimInv, Created, Unclaimed
<1>8. HandlesTrue'
  BY <1>0, <1>2, Gens DEF ClaimInv, HandlesTrue
<1>9. RunsRow'
  <2>. SUFFICES ASSUME NEW q \in Reqs, pc'[q] \in Working
                PROVE  /\ seen[q].gen = row[at[q]].gen
                       /\ pc'[q] # "closing" => row[at[q]].st # "completed"
                       /\ pc'[q] = "allocated" =>
                            /\ row[at[q]].st = "running" /\ row[at[q]].fresh
                            /\ \A b \in Actors : ~ Engaged(b, at[q])'
                            /\ at[q] \notin toStop'
    BY DEF RunsRow
  <2>1. pc[q] \in Working /\ at[q] \in Rows
    BY <1>0, <1>1 DEF Placed
  <2>2. pc'[q] # "closing" => row[at[q]].st # "completed"
    BY <1>0, <1>1, <2>1 DEF ClaimInv, RunsRow
  <2>3. pc'[q] = "allocated" => \A b \in Actors : ~ Engaged(b, at[q])'
    BY <1>0, <1>1, <1>3, <1>5, <2>1 DEF ClaimInv, RunsRow
  <2>. QED
    BY <1>0, <1>1, <2>1, <2>2, <2>3 DEF ClaimInv, RunsRow
<1>10. SeenBefore'
  BY <1>0, <1>1 DEF ClaimInv, SeenBefore
<1>11. OneSettles'
  BY <1>0, <1>5 DEF ClaimInv, OneSettles
<1>12. MarksNoResult'
  BY <1>0 DEF ClaimInv, MarksNoResult
<1>13. SettlesOwn'
  BY <1>0, <1>1, Names DEF ClaimInv, SettlesOwn, Unclaimed, Registered
<1>14. StopsWhileStopping'
  BY <1>0 DEF ClaimInv, StopsWhileStopping
<1>. QED
  BY <1>6, <1>7, <1>8, <1>9, <1>10, <1>11, <1>12, <1>13, <1>14 DEF ClaimInv

(* Nobody runs a row that a request claims: it would have seen an earlier  *)
(* generation than the row's.                                              *)
LEMMA ClaimAlone ==
    ASSUME RunInv, NEW q \in Reqs, ClaimResume(q)
    PROVE  /\ \A p \in Reqs : pc[p] \in Working => at[p] # at[q]
           /\ at[q] \notin toStop
           /\ ~ (row[at[q]].st = "completed" /\ row[at[q]].whole)
<1>1. Typed /\ Waits(q) /\ seen[q].gen = row[at[q]].gen /\ at[q] \in Rows
  BY DEF RunInv, StateInv, Typed, ClaimResume, StillAsSeen, Waits
<1>2. row[at[q]].gen \in Nat
  BY <1>1, Gens
<1>3. ~ (seen[q].gen < row[at[q]].gen)
  BY <1>1, <1>2
<1>. QED
  BY <1>1, <1>3 DEF RunInv, ClaimInv, SeenBefore

LEMMA ClaimClaims ==
    ASSUME RunInv, ~ SettleRaces, NEW q \in Reqs, ClaimResume(q)
    PROVE  OnePipelinePerRow' /\ ClaimInv'
<1>. DEFINE r == at[q]
<1>0. Typed /\ ClaimInv /\ OnePipelinePerRow /\ Placed /\ Settled /\ StateInv /\ StateInv'
  BY ClaimState DEF RunInv, StateInv
<1>1. /\ pc[q] = "reserved" /\ r \in Rows
      /\ UNCHANGED << at, handle, settle, found, toStop, stopping >>
  BY <1>0, ClaimRow DEF ClaimResume, registry, stop
<1>2. pc'[q] = "allocated" /\ \A p \in Reqs \ {q} : pc'[p] = pc[p]
  BY <1>0 DEF ClaimResume, Typed
<1>3. /\ \A x \in Rows \ {r} : row'[x] = row[x]
      /\ row'[r].st = "running" /\ row'[r].gen = row[r].gen + 1 /\ row'[r].fresh
      /\ seen'[q].gen = row[r].gen + 1 /\ \A p \in Reqs \ {q} : seen'[p] = seen[p]
  BY <1>0, ClaimRow
<1>4. /\ \A p \in Reqs : pc[p] \in Working => at[p] # r
      /\ r \notin toStop
  BY ClaimAlone
<1>5. \A b \in Actors \ {q} : ~ Engaged(b, r)
  BY DEF ClaimResume, Free
<1>6. settle[q] = Idle /\ q \in Actors /\ q # Reaper
  BY <1>0, <1>1, Names DEF ClaimInv, SettlesOwn, Unclaimed, Settled
<1>7. \A b \in Actors : ~ Engaged(b, r)
  BY <1>1, <1>5, <1>6, IdleType, Names DEF Engaged
<1>8. row[r].gen \in Nat /\ row'[r].gen \in Nat
  BY <1>0, <1>1, <1>3, Gens
<1>9. /\ \A b \in Actors : settle[b].step # "off" => settle[b].row # r /\ settle[b].row \in Rows
      /\ \A e \in found : e.row # r /\ e.row \in Rows
  BY <1>0, <1>7, Names DEF Engaged, Settled, Typed, FoundType
<1>10. OnePipelinePerRow'
  BY <1>0, <1>1, <1>2, <1>4 DEF OnePipelinePerRow
<1>11. Created'
  <2>1. \A p \in Reqs : at[p] # None => row'[at[p]].st # "none"
    BY <1>0, <1>1, <1>3 DEF ClaimInv, Created, Typed
  <2>2. \A x \in toStop : row'[x].st # "none"
    BY <1>0, <1>1, <1>3 DEF ClaimInv, Created, Typed
  <2>3. \A x \in Rows : row'[x].st = "none" => row'[x].gen = 0
    BY <1>0, <1>1, <1>3 DEF ClaimInv, Created
  <2>4. \A p \in Reqs : pc'[p] \in Unclaimed /\ at[p] = None => seen'[p].gen = 0
    BY <1>0, <1>2, <1>3 DEF ClaimInv, Created, Unclaimed
  <2>. QED
    BY <1>0, <1>1, <1>2, <1>3, <1>9, <2>1, <2>2, <2>3, <2>4 DEF ClaimInv, Created
<1>12. HandlesTrue'
  BY <1>0, <1>1, <1>2, Gens DEF ClaimInv, HandlesTrue, Registered
<1>13. RunsRow'
  <2>. SUFFICES ASSUME NEW p \in Reqs, pc'[p] \in Working
                PROVE  /\ seen'[p].gen = row'[at[p]].gen
                       /\ pc'[p] # "closing" => row'[at[p]].st # "completed"
                       /\ pc'[p] = "allocated" =>
                            /\ row'[at[p]].st = "running" /\ row'[at[p]].fresh
                            /\ \A b \in Actors : ~ Engaged(b, at[p])
                            /\ at[p] \notin toStop
    BY <1>1 DEF RunsRow, Engaged
  <2>1. CASE p = q
    BY <1>3, <1>4, <1>7, <2>1
  <2>2. CASE p # q
    <3>1. pc[p] \in Working /\ at[p] \in Rows /\ at[p] # r
      BY <1>0, <1>2, <1>4, <2>2 DEF Placed
    <3>. QED
      BY <1>0, <1>2, <1>3, <2>2, <3>1 DEF ClaimInv, RunsRow
  <2>. QED
    BY <2>1, <2>2
<1>14. SeenBefore'
  <2>. SUFFICES ASSUME NEW p \in Reqs, Waits(p)'
                PROVE  /\ seen'[p].gen <= row'[at[p]].gen
                       /\ \A x \in Reqs : pc'[x] \in Working /\ at[x] = at[p]
                                             => seen'[p].gen < row'[at[p]].gen
                       /\ at[p] \in toStop => seen'[p].gen < row'[at[p]].gen
                       /\ row'[at[p]].st = "completed" /\ row'[at[p]].whole
                             => seen'[p].gen < row'[at[p]].gen
    BY <1>1 DEF SeenBefore
  <2>1. p # q /\ Waits(p) /\ at[p] \in Rows /\ seen'[p] = seen[p]
    BY <1>0, <1>1, <1>2, <1>3 DEF Waits, Typed
  <2>2. CASE at[p] = r
    <3>1. seen[p].gen <= row[r].gen /\ seen[p].gen \in Nat
      BY <1>0, <2>1, <2>2, Gens DEF ClaimInv, SeenBefore
    <3>. QED
      BY <1>3, <1>8, <2>1, <2>2, <3>1
  <2>3. CASE at[p] # r
    BY <1>0, <1>2, <1>3, <2>1, <2>3 DEF ClaimInv, SeenBefore
  <2>. QED
    BY <2>2, <2>3
<1>15. OneSettles' /\ StopsWhileStopping'
  BY <1>0, <1>1 DEF ClaimInv, OneSettles, StopsWhileStopping, Engaged
<1>16. MarksNoResult'
  BY <1>0, <1>1, <1>3, <1>9 DEF ClaimInv, MarksNoResult
<1>17. SettlesOwn'
  BY <1>0, <1>1, <1>2, <1>6, IdleType DEF ClaimInv, SettlesOwn, Unclaimed
<1>. QED
  BY <1>10, <1>11, <1>12, <1>13, <1>14, <1>15, <1>16, <1>17 DEF ClaimInv

(* A row that is created is nobody's yet. *)
LEMMA CreateClaims ==
    ASSUME RunInv, ~ SettleRaces, NEW q \in Reqs, CreateRun(q)
    PROVE  OnePipelinePerRow' /\ ClaimInv'
<1>. DEFINE r == at'[q]
<1>0. Typed /\ ClaimInv /\ OnePipelinePerRow /\ Placed /\ Settled /\ StateInv /\ StateInv'
  <2>1. StateInv
    BY DEF RunInv
  <2>2. StateInv'
    BY <2>1, CreateState
  <2>. QED
    BY <2>1, <2>2 DEF RunInv, StateInv
<1>1. /\ pc[q] = "reserved" /\ at[q] = None /\ r \in Rows /\ row[r].st = "none"
      /\ UNCHANGED << seen, handle, settle, found, toStop, stopping >>
  <2>1. r \in Rows /\ row[r].st = "none"
    BY <1>0, CreateRow
  <2>. QED
    BY <2>1 DEF CreateRun, registry, stop
<1>2. pc'[q] = "allocated" /\ \A p \in Reqs \ {q} : pc'[p] = pc[p] /\ at'[p] = at[p]
  <2>1. \A p \in Reqs \ {q} : at'[p] = at[p]
    BY <1>0, CreateRow
  <2>. QED
    BY <1>0, <2>1 DEF CreateRun, Typed
<1>3. /\ \A x \in Rows \ {r} : row'[x] = row[x]
      /\ row'[r].st = "running" /\ row'[r].gen = row[r].gen /\ row'[r].fresh
  BY <1>0, CreateRow
<1>4. /\ \A p \in Reqs \ {q} : at'[p] # r
      /\ r \notin toStop
      /\ \A b \in Actors : settle[b].step # "off" => settle[b].row # r /\ settle[b].row \in Rows
      /\ \A e \in found : e.row # r /\ e.row \in Rows
  <2>1. \A p \in Reqs \ {q} : at[p] # r
    BY <1>0, <1>1, Names DEF ClaimInv, Created
  <2>. QED
    BY <1>0, <1>1, <1>2, <2>1 DEF ClaimInv, Created, Settled, Typed, FoundType
<1>5. \A b \in Actors : ~ Engaged(b, r)
  BY <1>0, <1>1, <1>4, IdleType, Names DEF Engaged, Settled
<1>6. settle[q].step = "off" /\ q \in Actors
  BY <1>0, <1>1, Names DEF ClaimInv, SettlesOwn, Unclaimed
<1>7. seen[q].gen = row[r].gen
  BY <1>0, <1>1 DEF ClaimInv, Created, Unclaimed
<1>8. OnePipelinePerRow'
  BY <1>0, <1>1, <1>2, <1>4 DEF OnePipelinePerRow
<1>9. Created'
  <2>1. \A p \in Reqs : at'[p] # None => row'[at'[p]].st # "none"
    BY <1>0, <1>1, <1>2, <1>3, <1>4 DEF ClaimInv, Created, Typed
  <2>2. \A x \in toStop : row'[x].st # "none"
    BY <1>0, <1>3, <1>4 DEF ClaimInv, Created, Typed
  <2>3. \A x \in Rows : row'[x].st = "none" => row'[x].gen = 0
    BY <1>0, <1>1, <1>3 DEF ClaimInv, Created
  <2>. QED
    BY <1>0, <1>1, <1>2, <1>3, <1>4, <2>1, <2>2, <2>3 DEF ClaimInv, Created, Unclaimed
<1>10. HandlesTrue'
  BY <1>0, <1>1, <1>2, Gens DEF ClaimInv, HandlesTrue, Registered
<1>11. RunsRow'
  <2>. SUFFICES ASSUME NEW p \in Reqs, pc'[p] \in Working
                PROVE  /\ seen[p].gen = row'[at'[p]].gen
                       /\ pc'[p] # "closing" => row'[at'[p]].st # "completed"
                       /\ pc'[p] = "allocated" =>
                            /\ row'[at'[p]].st = "running" /\ row'[at'[p]].fresh
                            /\ \A b \in Actors : ~ Engaged(b, at'[p])
                            /\ at'[p] \notin toStop
    BY <1>1 DEF RunsRow, Engaged
  <2>1. CASE p = q
    BY <1>3, <1>4, <1>5, <1>7, <2>1
  <2>2. CASE p # q
    <3>1. pc[p] \in Working /\ at[p] \in Rows /\ at[p] # r /\ at'[p] = at[p]
      BY <1>0, <1>2, <1>4, <2>2 DEF Placed
    <3>. QED
      BY <1>0, <1>2, <1>3, <2>2, <3>1 DEF ClaimInv, RunsRow
  <2>. QED
    BY <2>1, <2>2
<1>12. SeenBefore'
  <2>. SUFFICES ASSUME NEW p \in Reqs, Waits(p)'
                PROVE  /\ seen[p].gen <= row'[at'[p]].gen
                       /\ \A x \in Reqs : pc'[x] \in Working /\ at'[x] = at'[p]
                                             => seen[p].gen < row'[at'[p]].gen
                       /\ at'[p] \in toStop => seen[p].gen < row'[at'[p]].gen
                       /\ row'[at'[p]].st = "completed" /\ row'[at'[p]].whole
                             => seen[p].gen < row'[at'[p]].gen
    BY <1>1 DEF SeenBefore
  <2>1. p # q /\ Waits(p) /\ at[p] \in Rows /\ at'[p] = at[p] /\ at[p] # r
    BY <1>0, <1>2, <1>4 DEF Waits, Typed
  <2>. QED
    BY <1>0, <1>2, <1>3, <2>1 DEF ClaimInv, SeenBefore
<1>13. OneSettles' /\ StopsWhileStopping'
  BY <1>0, <1>1 DEF ClaimInv, OneSettles, StopsWhileStopping, Engaged
<1>14. MarksNoResult'
  BY <1>0, <1>1, <1>3, <1>4 DEF ClaimInv, MarksNoResult
<1>15. SettlesOwn'
  BY <1>0, <1>1, <1>2, <1>6 DEF ClaimInv, SettlesOwn, Unclaimed
<1>. QED
  BY <1>8, <1>9, <1>10, <1>11, <1>12, <1>13, <1>14, <1>15 DEF ClaimInv

LEMMA RegisterClaims ==
    ASSUME RunInv, NEW q \in Reqs, Register(q)
    PROVE  OnePipelinePerRow' /\ ClaimInv'
<1>0. Typed /\ ClaimInv /\ OnePipelinePerRow /\ Placed
  BY DEF RunInv, StateInv
<1>1. /\ pc[q] = "allocated" /\ at[q] \in Rows
      /\ UNCHANGED << row, at, seen, settle, found, toStop, stopping >>
  BY <1>0 DEF Register, request, stop, Placed, Working
<1>2. pc'[q] = "started" /\ \A p \in Reqs \ {q} : pc'[p] = pc[p]
  BY <1>0 DEF Register, Typed
<1>3. handle'[at[q]] = q /\ \A x \in Rows \ {at[q]} : handle'[x] = handle[x]
  BY <1>0, <1>1 DEF Register, Typed
<1>4. \A p \in Reqs : pc'[p] \in Working <=> pc[p] \in Working
  BY <1>1, <1>2 DEF Working
<1>5. OnePipelinePerRow'
  BY <1>0, <1>1, <1>4 DEF OnePipelinePerRow
<1>6. HandlesTrue'
  <2>1. ASSUME NEW p \in Reqs, pc'[p] \in Registered PROVE handle'[at[p]] = p
    <3>1. CASE p = q
      BY <1>3, <3>1
    <3>2. CASE p # q
      <4>1. pc[p] \in Registered /\ at[p] \in Rows /\ at[p] # at[q]
        BY <1>0, <1>1, <1>2, <2>1, <3>2, Names DEF OnePipelinePerRow, Placed, Working, Registered
      <4>. QED
        BY <1>0, <1>3, <4>1 DEF ClaimInv, HandlesTrue
    <3>. QED
      BY <3>1, <3>2
  <2>2. ASSUME NEW x \in Rows, handle'[x] # None
        PROVE  pc'[handle'[x]] \in Registered /\ at[handle'[x]] = x
    <3>1. CASE x = at[q]
      BY <1>2, <1>3, <3>1 DEF Registered
    <3>2. CASE x # at[q]
      BY <1>0, <1>1, <1>2, <1>3, <2>2, <3>2, Gens DEF ClaimInv, HandlesTrue
    <3>. QED
      BY <3>1, <3>2
  <2>. QED
    BY <1>1, <2>1, <2>2 DEF HandlesTrue
<1>7. Created'
  BY <1>0, <1>1, <1>2 DEF ClaimInv, Created, Unclaimed
<1>8. RunsRow'
  BY <1>0, <1>1, <1>2, <1>4 DEF ClaimInv, RunsRow, Engaged
<1>9. SeenBefore'
  <2>1. \A p \in Reqs : Waits(p)' => Waits(p)
    BY <1>1, <1>2 DEF Waits
  <2>. QED
    BY <1>0, <1>1, <1>4, <2>1 DEF ClaimInv, SeenBefore
<1>10. OneSettles' /\ MarksNoResult' /\ StopsWhileStopping'
  BY <1>0, <1>1 DEF ClaimInv, OneSettles, MarksNoResult, StopsWhileStopping, Engaged
<1>11. SettlesOwn'
  BY <1>0, <1>1, <1>2 DEF ClaimInv, SettlesOwn, Unclaimed
<1>. QED
  BY <1>5, <1>6, <1>7, <1>8, <1>9, <1>10, <1>11 DEF ClaimInv

(* A result is saved while nobody settles the row, and so over no mark.    *)
LEMMA SaveClaims ==
    ASSUME RunInv, ~ SettleRaces, NEW q \in Reqs, Save(q)
    PROVE  OnePipelinePerRow' /\ ClaimInv'
<1>. DEFINE r == at[q]
<1>0. Typed /\ ClaimInv /\ OnePipelinePerRow /\ Placed /\ Settled
  BY DEF RunInv, StateInv
<1>1. /\ pc[q] = "saving" /\ r \in Rows /\ settle[q].step = "off"
      /\ UNCHANGED << at, seen, handle, settle, found, toStop, stopping >>
  BY <1>0 DEF Save, request, registry, stop, Placed, Working
<1>2. pc'[q] = "closing" /\ \A p \in Reqs \ {q} : pc'[p] = pc[p]
  BY <1>0 DEF Save, Typed
<1>3. /\ \A x \in Rows \ {r} : row'[x] = row[x]
      /\ row'[r].st = "completed" /\ row'[r].gen = row[r].gen
  BY <1>0, <1>1, SaveRow
<1>4. \A b \in Actors : ~ Engaged(b, r)
  <2>1. settle[q] = Idle /\ q # Reaper
    BY <1>0, <1>1, Names DEF Settled
  <2>. QED
    BY <1>1, <2>1, IdleType, Names DEF Save, Free, Engaged
<1>5. /\ \A b \in Actors : settle[b].step # "off" => settle[b].row # r /\ settle[b].row \in Rows
      /\ \A e \in found : e.row # r /\ e.row \in Rows
  BY <1>0, <1>4, Names DEF Engaged, Settled, Typed, FoundType
<1>6. \A p \in Reqs \ {q} : pc[p] \in Working => at[p] # r /\ at[p] \in Rows
  BY <1>0, <1>1, Names DEF OnePipelinePerRow, Working, Placed
<1>7. \A p \in Reqs : pc'[p] \in Working <=> pc[p] \in Working
  BY <1>1, <1>2 DEF Working
<1>8. OnePipelinePerRow'
  BY <1>0, <1>1, <1>7 DEF OnePipelinePerRow
<1>9. Created'
  <2>1. \A p \in Reqs : at[p] # None => row'[at[p]].st # "none"
    BY <1>0, <1>3 DEF ClaimInv, Created, Typed
  <2>2. \A x \in toStop : row'[x].st # "none"
    BY <1>0, <1>3 DEF ClaimInv, Created, Typed
  <2>3. \A x \in Rows : row'[x].st = "none" => row'[x].gen = 0
    BY <1>0, <1>3 DEF ClaimInv, Created
  <2>. QED
    BY <1>0, <1>1, <1>2, <1>3, <1>5, <2>1, <2>2, <2>3 DEF ClaimInv, Created, Unclaimed
<1>10. HandlesTrue'
  BY <1>0, <1>1, <1>2, Gens DEF ClaimInv, HandlesTrue, Registered
<1>11. RunsRow'
  <2>. SUFFICES ASSUME NEW p \in Reqs, pc'[p] \in Working
                PROVE  /\ seen[p].gen = row'[at[p]].gen
                       /\ pc'[p] # "closing" => row'[at[p]].st # "completed"
                       /\ pc'[p] = "allocated" =>
                            /\ row'[at[p]].st = "running" /\ row'[at[p]].fresh
                            /\ \A b \in Actors : ~ Engaged(b, at[p])
                            /\ at[p] \notin toStop
    BY <1>1 DEF RunsRow, Engaged
  <2>1. CASE p = q
    BY <1>0, <1>1, <1>2, <1>3, <2>1 DEF ClaimInv, RunsRow, Working
  <2>2. CASE p # q
    BY <1>0, <1>2, <1>3, <1>6, <1>7, <2>2 DEF ClaimInv, RunsRow
  <2>. QED
    BY <2>1, <2>2
<1>12. SeenBefore'
  <2>. SUFFICES ASSUME NEW p \in Reqs, Waits(p)'
                PROVE  /\ seen[p].gen <= row'[at[p]].gen
                       /\ \A x \in Reqs : pc'[x] \in Working /\ at[x] = at[p]
                                             => seen[p].gen < row'[at[p]].gen
                       /\ at[p] \in toStop => seen[p].gen < row'[at[p]].gen
                       /\ row'[at[p]].st = "completed" /\ row'[at[p]].whole
                             => seen[p].gen < row'[at[p]].gen
    BY <1>1 DEF SeenBefore
  <2>1. p # q /\ Waits(p) /\ at[p] \in Rows
    BY <1>0, <1>1, <1>2 DEF Waits, Typed
  <2>2. CASE at[p] = r
    <3>1. seen[p].gen < row[r].gen
      BY <1>0, <1>1, <2>1, <2>2 DEF ClaimInv, SeenBefore, Working
    <3>. QED
      BY <1>0, <1>1, <1>3, <2>1, <2>2, <3>1, Gens
  <2>3. CASE at[p] # r
    BY <1>0, <1>3, <1>7, <2>1, <2>3 DEF ClaimInv, SeenBefore
  <2>. QED
    BY <2>2, <2>3
<1>13. OneSettles' /\ StopsWhileStopping'
  BY <1>0, <1>1 DEF ClaimInv, OneSettles, StopsWhileStopping, Engaged
<1>14. MarksNoResult'
  BY <1>0, <1>1, <1>3, <1>5 DEF ClaimInv, MarksNoResult
<1>15. SettlesOwn'
  BY <1>0, <1>1, <1>2 DEF ClaimInv, SettlesOwn, Unclaimed
<1>. QED
  BY <1>8, <1>9, <1>10, <1>11, <1>12, <1>13, <1>14, <1>15 DEF ClaimInv

LEMMA ReleaseClaims ==
    ASSUME RunInv, NEW q \in Reqs, Release(q)
    PROVE  /\ OnePipelinePerRow' /\ ClaimInv'
           /\ at[q] \in Rows /\ handle[at[q]] = q
<1>0. Typed /\ ClaimInv /\ OnePipelinePerRow /\ Placed /\ Settled
  BY DEF RunInv, StateInv
<1>1. /\ pc[q] = "closing" /\ at[q] \in Rows /\ settle[q].step = "off"
      /\ UNCHANGED << row, at, seen, settle, found, toStop, stopping >>
  BY <1>0 DEF Release, request, stop, Placed, Working
<1>2. pc'[q] = "ended" /\ \A p \in Reqs \ {q} : pc'[p] = pc[p]
  BY <1>0 DEF Release, Typed
<1>3. handle'[at[q]] = None /\ \A x \in Rows \ {at[q]} : handle'[x] = handle[x]
  BY <1>0, <1>1 DEF Release, Typed
<1>4. handle[at[q]] = q
  BY <1>0, <1>1 DEF ClaimInv, HandlesTrue, Registered
<1>5. \A p \in Reqs : pc'[p] \in Working => pc[p] \in Working /\ p # q /\ pc'[p] = pc[p]
  BY <1>1, <1>2 DEF Working
<1>6. \A p \in Reqs \ {q} : pc[p] \in Working => at[p] # at[q] /\ at[p] \in Rows
  BY <1>0, <1>1, Names DEF OnePipelinePerRow, Working, Placed
<1>7. OnePipelinePerRow'
  BY <1>0, <1>1, <1>5 DEF OnePipelinePerRow
<1>8. Created'
  BY <1>0, <1>1, <1>2 DEF ClaimInv, Created, Unclaimed
<1>9. HandlesTrue'
  <2>1. \A p \in Reqs : pc'[p] \in Registered => handle'[at[p]] = p
    BY <1>0, <1>2, <1>3, <1>6 DEF ClaimInv, HandlesTrue, Registered, Working
  <2>2. \A x \in Rows : handle'[x] # None =>
          pc'[handle'[x]] \in Registered /\ at[handle'[x]] = x
    BY <1>0, <1>1, <1>2, <1>3, Gens DEF ClaimInv, HandlesTrue
  <2>. QED
    BY <1>1, <2>1, <2>2 DEF HandlesTrue
<1>10. RunsRow'
  BY <1>0, <1>1, <1>5 DEF ClaimInv, RunsRow, Engaged
<1>11. SeenBefore'
  <2>1. \A p \in Reqs : Waits(p)' => Waits(p)
    BY <1>1, <1>2 DEF Waits
  <2>. QED
    BY <1>0, <1>1, <1>5, <2>1 DEF ClaimInv, SeenBefore
<1>12. OneSettles' /\ MarksNoResult' /\ StopsWhileStopping'
  BY <1>0, <1>1 DEF ClaimInv, OneSettles, MarksNoResult, StopsWhileStopping, Engaged
<1>13. SettlesOwn'
  BY <1>0, <1>1, <1>2 DEF ClaimInv, SettlesOwn, Unclaimed
<1>. QED
  BY <1>1, <1>4, <1>7, <1>8, <1>9, <1>10, <1>11, <1>12, <1>13 DEF ClaimInv

(* mark_research_failed has no guard on the status: that it falls on no    *)
(* result is what MarksNoResult says of whoever is about to mark.          *)
LEMMA MarkClaims ==
    ASSUME RunInv, NEW a \in Actors, Mark(a)
    PROVE  OnePipelinePerRow' /\ ClaimInv' /\ row[settle[a].row].st # "completed"
<1>. DEFINE r == settle[a].row
<1>0. Typed /\ ClaimInv /\ OnePipelinePerRow /\ Placed /\ Settled /\ StateInv
  BY DEF RunInv, StateInv
<1>1. /\ settle[a].step = "mark" /\ r \in Rows
      /\ UNCHANGED << pc, at, seen, handle, found, toStop, stopping >>
  BY <1>0, MarkFacts DEF Mark, request, registry, stop
<1>2. /\ \A x \in Rows \ {r} : row'[x] = row[x]
      /\ row'[r].st = "failed" /\ row'[r].gen = row[r].gen
      /\ settle'[a].step \in {"pay", "read"} /\ settle'[a].row = r
      /\ \A b \in Actors \ {a} : settle'[b] = settle[b]
  BY <1>0, MarkFacts
<1>3. row[r].st \notin {"none", "completed"} /\ Engaged(a, r)
  BY <1>0, <1>1 DEF ClaimInv, MarksNoResult, Created, Engaged
<1>4. ASSUME NEW b \in Actors, NEW x \in Rows, Engaged(b, x)' PROVE Engaged(b, x)
  BY <1>1, <1>2, <1>4 DEF Engaged
<1>5. \A p \in Reqs : pc[p] = "allocated" => at[p] # r
  BY <1>0, <1>3 DEF ClaimInv, RunsRow, Working
<1>6. /\ \A p \in Reqs : at[p] # None => at[p] \in Rows
      /\ toStop \subseteq Rows /\ \A e \in found : e.row \in Rows
      /\ \A b \in Actors : settle[b].step # "off" => settle[b].row \in Rows
  BY <1>0 DEF Typed, FoundType, Settled
<1>7. OnePipelinePerRow'
  BY <1>0, <1>1 DEF OnePipelinePerRow
<1>8. Created'
  BY <1>0, <1>1, <1>2, <1>3, <1>6 DEF ClaimInv, Created
<1>9. HandlesTrue'
  BY <1>0, <1>1 DEF ClaimInv, HandlesTrue
<1>10. RunsRow'
  <2>. SUFFICES ASSUME NEW p \in Reqs, pc[p] \in Working
                PROVE  /\ seen[p].gen = row'[at[p]].gen
                       /\ pc[p] # "closing" => row'[at[p]].st # "completed"
                       /\ pc[p] = "allocated" =>
                            /\ row'[at[p]].st = "running" /\ row'[at[p]].fresh
                            /\ \A b \in Actors : ~ Engaged(b, at[p])'
                            /\ at[p] \notin toStop
    BY <1>1 DEF RunsRow
  <2>1. at[p] \in Rows
    BY <1>0 DEF Placed
  <2>2. pc[p] = "allocated" => \A b \in Actors : ~ Engaged(b, at[p])'
    BY <1>0, <1>1, <1>4, <2>1 DEF ClaimInv, RunsRow
  <2>. QED
    BY <1>0, <1>2, <1>5, <2>1, <2>2 DEF ClaimInv, RunsRow
<1>11. SeenBefore'
  <2>1. \A p \in Reqs : Waits(p)' <=> Waits(p)
    BY <1>1 DEF Waits
  <2>2. \A x \in Rows : row'[x].gen = row[x].gen
    BY <1>2
  <2>3. \A x \in Rows : row'[x].st = "completed" /\ row'[x].whole
                          => row[x].st = "completed" /\ row[x].whole
    BY <1>2
  <2>4. \A p \in Reqs : Waits(p) => at[p] \in Rows
    BY <1>6 DEF Waits
  <2>. QED
    BY <1>0, <1>1, <2>1, <2>2, <2>3, <2>4 DEF ClaimInv, SeenBefore
<1>12. OneSettles'
  BY <1>0, <1>4 DEF ClaimInv, OneSettles
<1>13. MarksNoResult'
  BY <1>0, <1>1, <1>2, <1>6 DEF ClaimInv, MarksNoResult
<1>14. SettlesOwn' /\ StopsWhileStopping'
  BY <1>0, <1>1, <1>2, Names DEF ClaimInv, SettlesOwn, StopsWhileStopping
<1>. QED
  BY <1>3, <1>7, <1>8, <1>9, <1>10, <1>11, <1>12, <1>13, <1>14 DEF ClaimInv

(* The reaper finds rows that nobody settles, and of those that run only   *)
(* the stale ones: never one between its claim and its registration.       *)
LEMMA ReapReadClaims ==
    ASSUME RunInv, ~ SettleRaces, NEW skip, ReapRead(skip)
    PROVE  OnePipelinePerRow' /\ ClaimInv'
<1>0. Typed /\ ClaimInv /\ OnePipelinePerRow /\ Placed /\ Settled
  BY DEF RunInv, StateInv
<1>1. /\ found = {} /\ settle[Reaper].step = "off"
      /\ UNCHANGED << row, pc, at, seen, handle, settle, toStop, stopping >>
  BY DEF ReapRead, request, registry, stop
<1>2. ASSUME NEW e \in found'
      PROVE  /\ e.row \in Rows /\ \A b \in Actors \ {Reaper} : ~ Engaged(b, e.row)
             /\ e.orphan => row[e.row].st = "running"
             /\ row[e.row].st \in {"running", "failed"}
             /\ ~ (row[e.row].st = "running" /\ row[e.row].fresh)
  <2>1. PICK x \in Rows : /\ e = [row |-> x, orphan |-> IsOrphan(x), prog |-> row[x].prog]
                          /\ (IsOrphan(x) /\ x \notin skip) \/ Unsettled(x)
                          /\ Free(Reaper, x)
    BY <1>2 DEF ReapRead
  <2>. QED
    BY <2>1 DEF Free, IsOrphan, Unsettled
<1>3. ASSUME NEW b \in Actors, NEW x \in Rows, Engaged(b, x)'
      PROVE  Engaged(b, x) \/ (b = Reaper /\ \E e \in found' : e.row = x)
  BY <1>1, <1>3 DEF Engaged
<1>4. ASSUME NEW x \in Rows PROVE ~ Engaged(Reaper, x)
  BY <1>0, <1>1, IdleType, Names DEF Engaged, Settled
<1>5. OnePipelinePerRow'
  BY <1>0, <1>1 DEF OnePipelinePerRow
<1>6. Created'
  BY <1>0, <1>1, <1>2 DEF ClaimInv, Created
<1>7. HandlesTrue'
  BY <1>0, <1>1 DEF ClaimInv, HandlesTrue
<1>8. RunsRow'
  <2>. SUFFICES ASSUME NEW p \in Reqs, pc[p] = "allocated", NEW b \in Actors, Engaged(b, at[p])'
                PROVE  FALSE
    BY <1>0, <1>1 DEF ClaimInv, RunsRow
  <2>1. /\ at[p] \in Rows /\ ~ Engaged(b, at[p])
        /\ row[at[p]].st = "running" /\ row[at[p]].fresh
    BY <1>0 DEF ClaimInv, RunsRow, Placed, Working
  <2>2. \E e \in found' : e.row = at[p]
    BY <1>1, <1>3, <2>1
  <2>. QED
    BY <1>2, <2>1, <2>2
<1>9. SeenBefore'
  <2>1. \A p \in Reqs : Waits(p)' <=> Waits(p)
    BY <1>1 DEF Waits
  <2>. QED
    BY <1>0, <1>1, <2>1 DEF ClaimInv, SeenBefore
<1>10. OneSettles'
  <2>. SUFFICES ASSUME NEW a \in Actors, NEW b \in Actors, NEW x \in Rows,
                       Engaged(a, x)', Engaged(b, x)'
                PROVE  a = b
    BY DEF OneSettles
  <2>1. a = Reaper \/ ~ (\E e \in found' : e.row = x)
    BY <1>2, <1>3, <1>4
  <2>2. b = Reaper \/ ~ (\E e \in found' : e.row = x)
    BY <1>2, <1>3, <1>4
  <2>. QED
    BY <1>0, <1>3, <1>4, <2>1, <2>2 DEF ClaimInv, OneSettles
<1>11. MarksNoResult'
  BY <1>0, <1>1, <1>2 DEF ClaimInv, MarksNoResult
<1>12. SettlesOwn' /\ StopsWhileStopping'
  BY <1>0, <1>1 DEF ClaimInv, SettlesOwn, StopsWhileStopping
<1>. QED
  BY <1>5, <1>6, <1>7, <1>8, <1>9, <1>10, <1>11, <1>12 DEF ClaimInv

LEMMA ReapRowClaims ==
    ASSUME RunInv, ReapRow
    PROVE  OnePipelinePerRow' /\ ClaimInv'
<1>0. Typed /\ ClaimInv /\ OnePipelinePerRow /\ StateInv
  BY DEF RunInv, StateInv
<1>1. PICK e \in found :
        /\ e \in FoundType /\ found' = found \ {e}
        /\ settle' \in [Actors -> SettleType]
        /\ settle'[Reaper].step = (IF e.orphan THEN "mark" ELSE "pay")
        /\ settle'[Reaper].row = e.row
        /\ \A b \in Actors \ {Reaper} : settle'[b] = settle[b]
  BY <1>0, ReapRowFacts
<1>2. UNCHANGED << row, pc, at, seen, handle, toStop, stopping >>
  BY DEF ReapRow, request, registry, stop
<1>3. ASSUME NEW b \in Actors, NEW x, Engaged(b, x)' PROVE Engaged(b, x)
  BY <1>1, <1>3 DEF Engaged
<1>4. OnePipelinePerRow'
  BY <1>0, <1>2 DEF OnePipelinePerRow
<1>5. Created'
  BY <1>0, <1>1, <1>2 DEF ClaimInv, Created
<1>6. HandlesTrue'
  BY <1>0, <1>2 DEF ClaimInv, HandlesTrue
<1>7. RunsRow'
  <2>. SUFFICES ASSUME NEW p \in Reqs, pc[p] = "allocated", NEW b \in Actors, Engaged(b, at[p])'
                PROVE  FALSE
    BY <1>0, <1>2 DEF ClaimInv, RunsRow
  <2>1. Engaged(b, at[p])
    BY <1>2, <1>3
  <2>. QED
    BY <1>0, <2>1 DEF ClaimInv, RunsRow, Working
<1>8. SeenBefore'
  <2>1. \A p \in Reqs : Waits(p)' <=> Waits(p)
    BY <1>2 DEF Waits
  <2>. QED
    BY <1>0, <1>2, <2>1 DEF ClaimInv, SeenBefore
<1>9. OneSettles'
  BY <1>0, <1>3 DEF ClaimInv, OneSettles
<1>10. MarksNoResult'
  BY <1>0, <1>1, <1>2 DEF ClaimInv, MarksNoResult
<1>11. SettlesOwn' /\ StopsWhileStopping'
  BY <1>0, <1>1, <1>2, Names DEF ClaimInv, SettlesOwn, StopsWhileStopping
<1>. QED
  BY <1>4, <1>5, <1>6, <1>7, <1>8, <1>9, <1>10, <1>11 DEF ClaimInv

(* A stop begins with the runs that are registered: none is between its    *)
(* claim and its registration, and none that waits has seen their rows as  *)
(* they are now.                                                           *)
LEMMA ShutdownClaims ==
    ASSUME RunInv, ShutdownBegin
    PROVE  OnePipelinePerRow' /\ ClaimInv'
<1>0. Typed /\ ClaimInv /\ OnePipelinePerRow /\ Placed
  BY DEF RunInv, StateInv
<1>1. /\ toStop' = Live /\ stopping' = TRUE
      /\ UNCHANGED << row, pc, at, seen, handle, settle, found >>
  BY DEF ShutdownBegin, request, registry
<1>2. ASSUME NEW x \in Live
      PROVE  /\ x \in Rows /\ row[x].st # "none"
             /\ \E q \in Reqs : pc[q] \in Registered /\ at[q] = x
  <2>1. x \in Rows /\ handle[x] \in Reqs /\ pc[handle[x]] \in Registered /\ at[handle[x]] = x
    BY <1>0, <1>2, Gens DEF Live, ClaimInv, HandlesTrue
  <2>. QED
    BY <1>0, <2>1, Names DEF ClaimInv, Created
<1>3. \A p \in Reqs : pc[p] = "allocated" => at[p] \notin Live
  BY <1>0, <1>2, Names DEF OnePipelinePerRow, Working, Registered
<1>4. \A p \in Reqs : Waits(p) /\ at[p] \in Live => seen[p].gen < row[at[p]].gen
  BY <1>0, <1>2 DEF ClaimInv, SeenBefore, Working, Registered
<1>5. OnePipelinePerRow'
  BY <1>0, <1>1 DEF OnePipelinePerRow
<1>6. Created'
  BY <1>0, <1>1, <1>2 DEF ClaimInv, Created
<1>7. HandlesTrue'
  BY <1>0, <1>1 DEF ClaimInv, HandlesTrue
<1>8. RunsRow'
  BY <1>0, <1>1, <1>3 DEF ClaimInv, RunsRow, Engaged
<1>9. SeenBefore'
  <2>1. \A p \in Reqs : Waits(p)' <=> Waits(p)
    BY <1>1 DEF Waits
  <2>. QED
    BY <1>0, <1>1, <1>4, <2>1 DEF ClaimInv, SeenBefore
<1>10. OneSettles' /\ MarksNoResult'
  BY <1>0, <1>1 DEF ClaimInv, OneSettles, MarksNoResult, Engaged
<1>11. SettlesOwn' /\ StopsWhileStopping'
  BY <1>0, <1>1 DEF ClaimInv, SettlesOwn, StopsWhileStopping
<1>. QED
  BY <1>5, <1>6, <1>7, <1>8, <1>9, <1>10, <1>11 DEF ClaimInv

LEMMA StopRunClaims ==
    ASSUME RunInv, ~ SettleRaces, NEW r \in Rows, StopRun(r)
    PROVE  OnePipelinePerRow' /\ ClaimInv'
<1>0. Typed /\ ClaimInv /\ OnePipelinePerRow /\ Placed /\ Settled /\ StateInv'
  BY StopState DEF RunInv, StateInv
<1>1. /\ r \in toStop /\ toStop' = toStop \ {r} /\ settle[Stopper].step = "off"
      /\ UNCHANGED << row, pc, at, seen, handle, found, stopping >>
  BY DEF StopRun, request
<1>2. CASE row[r].st = "running"
  <2>1. settle' = Begin(Stopper, r, "mark")
    BY <1>2 DEF StopRun
  <2>2. /\ settle'[Stopper].step = "mark" /\ settle'[Stopper].row = r
        /\ \A b \in Actors \ {Stopper} : settle'[b] = settle[b]
    BY <1>0, <2>1, BeginType, Names
  <2>3. \A b \in Actors \ {Stopper} : ~ Engaged(b, r)
    BY DEF StopRun, Free
  <2>. QED
    BY <1>0, <1>1, <1>2, <2>2, <2>3, Names, Begins
<1>3. CASE row[r].st # "running"
  <2>1. settle' = settle
    BY <1>3 DEF StopRun
  <2>2. Created' /\ HandlesTrue' /\ OnePipelinePerRow'
    BY <1>0, <1>1, <2>1 DEF ClaimInv, Created, HandlesTrue, OnePipelinePerRow
  <2>3. RunsRow'
    BY <1>0, <1>1, <2>1 DEF ClaimInv, RunsRow, Engaged
  <2>4. \A p \in Reqs : Waits(p)' <=> Waits(p)
    BY <1>1 DEF Waits
  <2>5. SeenBefore'
    BY <1>0, <1>1, <2>4 DEF ClaimInv, SeenBefore
  <2>6. OneSettles' /\ MarksNoResult' /\ SettlesOwn' /\ StopsWhileStopping'
    BY <1>0, <1>1, <2>1
       DEF ClaimInv, OneSettles, MarksNoResult, Engaged, SettlesOwn, StopsWhileStopping
  <2>. QED
    BY <2>2, <2>3, <2>5, <2>6 DEF ClaimInv
<1>. QED
  BY <1>2, <1>3

LEMMA EndsClaims ==
    ASSUME RunInv, Crash \/ Exit
    PROVE  OnePipelinePerRow' /\ ClaimInv'
<1>0. Typed /\ ClaimInv /\ StateInv
  BY DEF RunInv, StateInv
<1>1. /\ \A q \in Reqs : pc'[q] \in Ended /\ (pc'[q] # "dead" => pc'[q] = pc[q])
      /\ found' = {} /\ toStop' = {} /\ stopping' = FALSE
      /\ \A a \in Actors : settle'[a] = Idle
      /\ \A r \in Rows : handle'[r] = None
      /\ \A q \in Reqs : at'[q] = IF pc[q] \in Unclaimed THEN None ELSE at[q]
      /\ UNCHANGED << row, seen >>
  BY <1>0, EndsFacts
<1>2. \A q \in Reqs : pc'[q] \notin Working /\ pc'[q] \notin Registered /\ ~ Waits(q)'
  BY <1>1 DEF Ended, Working, Registered, Waits
<1>3. Created'
  <2>1. \A q \in Reqs : at'[q] # None => row[at'[q]].st # "none"
    BY <1>0, <1>1 DEF ClaimInv, Created
  <2>2. \A q \in Reqs : pc'[q] = "idle" => at'[q] = None
    BY <1>0, <1>1 DEF ClaimInv, Created
  <2>3. \A q \in Reqs : pc'[q] \in Unclaimed /\ at'[q] = None => seen[q].gen = 0
    BY <1>0, <1>1 DEF ClaimInv, Created, Ended, Unclaimed
  <2>. QED
    BY <1>0, <1>1, <2>1, <2>2, <2>3, IdleType DEF ClaimInv, Created
<1>4. HandlesTrue' /\ RunsRow' /\ SeenBefore' /\ OnePipelinePerRow'
  BY <1>1, <1>2 DEF HandlesTrue, RunsRow, SeenBefore, OnePipelinePerRow
<1>5. OneSettles' /\ MarksNoResult' /\ SettlesOwn' /\ StopsWhileStopping'
  BY <1>1, IdleType, Names DEF OneSettles, MarksNoResult, Engaged, SettlesOwn, StopsWhileStopping
<1>. QED
  BY <1>3, <1>4, <1>5 DEF ClaimInv

(* A heartbeat lapses that has nobody to keep it, or a long stage; a run   *)
(* that is not registered yet keeps its own.                               *)
LEMMA LapseClaims ==
    ASSUME RunInv, NEW r \in Rows, Lapse(r)
    PROVE  OnePipelinePerRow' /\ ClaimInv'
<1>0. Typed /\ ClaimInv /\ OnePipelinePerRow /\ Placed /\ Settled
  BY DEF RunInv, StateInv
<1>1. UNCHANGED << pc, at, seen, handle, settle, found, toStop, stopping >>
  BY DEF Lapse, request, registry, stop
<1>2. \A x \in Rows : row'[x].st = row[x].st /\ row'[x].gen = row[x].gen /\ row'[x].whole = row[x].whole
  BY <1>0, LapseRow
<1>3. \A x \in Rows \ {r} : row'[x] = row[x]
  BY <1>0, LapseRow
<1>4. \A p \in Reqs : pc[p] = "allocated" => at[p] # r
  <2>. SUFFICES ASSUME NEW p \in Reqs, pc[p] = "allocated", at[p] = r PROVE FALSE
    OBVIOUS
  <2>1. Attended(r)
    BY <1>0 DEF Attended, Carries, Unclaimed, Ended, ClaimInv, RunsRow, Working
  <2>2. PICK q \in Reqs : pc[q] = "running" /\ handle[r] = q
    BY <2>1 DEF Lapse
  <2>3. at[q] = r
    BY <1>0, <2>2, Names DEF ClaimInv, HandlesTrue
  <2>. QED
    BY <1>0, <2>2, <2>3, Names DEF OnePipelinePerRow, Working
<1>5. /\ \A p \in Reqs : at[p] # None => at[p] \in Rows
      /\ toStop \subseteq Rows /\ \A e \in found : e.row \in Rows
      /\ \A b \in Actors : settle[b].step # "off" => settle[b].row \in Rows
      /\ \A p \in Reqs : pc[p] \in Working => at[p] \in Rows
  BY <1>0 DEF Typed, FoundType, Settled, Placed
<1>6. OnePipelinePerRow' /\ HandlesTrue'
  BY <1>0, <1>1 DEF OnePipelinePerRow, ClaimInv, HandlesTrue
<1>7. Created'
  BY <1>0, <1>1, <1>2, <1>5 DEF ClaimInv, Created
<1>8. RunsRow'
  BY <1>0, <1>1, <1>2, <1>3, <1>4, <1>5 DEF ClaimInv, RunsRow, Engaged
<1>9. SeenBefore'
  <2>1. \A p \in Reqs : Waits(p)' <=> Waits(p)
    BY <1>1 DEF Waits
  <2>2. \A p \in Reqs : Waits(p) => at[p] \in Rows
    BY <1>5 DEF Waits
  <2>. QED
    BY <1>0, <1>1, <1>2, <2>1, <2>2 DEF ClaimInv, SeenBefore
<1>10. OneSettles' /\ SettlesOwn' /\ StopsWhileStopping'
  BY <1>0, <1>1 DEF ClaimInv, OneSettles, Engaged, SettlesOwn, StopsWhileStopping
<1>11. MarksNoResult'
  BY <1>0, <1>1, <1>2, <1>5 DEF ClaimInv, MarksNoResult
<1>. QED
  BY <1>6, <1>7, <1>8, <1>9, <1>10, <1>11 DEF ClaimInv


-----------------------------------------------------------------------------
(* Every step keeps the claims, and the results that lack nothing.         *)

WholeKept == \A r \in Rows :
    row[r].st = "completed" /\ row[r].whole => row'[r].st = "completed" /\ row'[r].whole

ClaimsKept == OnePipelinePerRow' /\ ClaimInv' /\ WholeKept

LEMMA WaitingKept ==
    ASSUME RunInv, NEW q \in Reqs,
           Admit(q) \/ ReserveUsd(q) \/ GiveBack(q) \/ Throws(q) \/ UnstartedEnds(q)
    PROVE  ClaimsKept
<1>1. CASE Admit(q)
  <2>1. \E to \in {"admitted", "refused"} : pc' = [pc EXCEPT ![q] = to]
    BY <1>1 DEF Admit
  <2>2. /\ pc[q] = "checked"
        /\ UNCHANGED << row, at, seen, handle, settle, found, toStop, stopping >>
    BY <1>1 DEF Admit, request, stop
  <2>. QED
    BY <2>1, <2>2, WaitingMoves DEF ClaimsKept, WholeKept
<1>2. CASE ReserveUsd(q)
  <2>1. \E to \in {"reserved", "refused"} : pc' = [pc EXCEPT ![q] = to]
    BY <1>2 DEF ReserveUsd, Refuse
  <2>2. /\ pc[q] = "admitted"
        /\ UNCHANGED << row, at, seen, handle, settle, found, toStop, stopping >>
    BY <1>2 DEF ReserveUsd, Refuse, request, registry, stop
  <2>. QED
    BY <2>1, <2>2, WaitingMoves DEF ClaimsKept, WholeKept
<1>3. CASE GiveBack(q)
  <2>1. pc' = [pc EXCEPT ![q] = "refused"]
    BY <1>3 DEF GiveBack, Refuse
  <2>2. /\ pc[q] = "reserved"
        /\ UNCHANGED << row, at, seen, handle, settle, found, toStop, stopping >>
    BY <1>3 DEF GiveBack, Refuse, request, stop
  <2>. QED
    BY <2>1, <2>2, WaitingMoves DEF ClaimsKept, WholeKept
<1>4. CASE UnstartedEnds(q)
  <2>1. pc' = [pc EXCEPT ![q] = "ended"]
    BY <1>4 DEF UnstartedEnds
  <2>2. /\ pc[q] = "unstarted"
        /\ UNCHANGED << row, at, seen, handle, settle, found, toStop, stopping >>
    BY <1>4 DEF UnstartedEnds, request, registry, stop
  <2>. QED
    BY <2>1, <2>2, WaitingMoves DEF ClaimsKept, WholeKept
<1>5. CASE Throws(q)
  <2>1. \/ pc[q] = "reserved" /\ pc' = [pc EXCEPT ![q] = "refused"]
        \/ pc[q] = "allocated" /\ pc' = [pc EXCEPT ![q] = "ended"]
    BY <1>5 DEF Throws
  <2>2. UNCHANGED << row, at, seen, handle, settle, found, toStop, stopping >>
    BY <1>5 DEF Throws, request, stop
  <2>. QED
    BY <2>1, <2>2, WaitingMoves DEF ClaimsKept, WholeKept
<1>. QED
  BY <1>1, <1>2, <1>3, <1>4, <1>5

(* The claiming steps: what they write is not a result that lacks nothing. *)
LEMMA ClaimKept ==
    ASSUME RunInv, ~ SettleRaces, NEW q \in Reqs,
           Arrive(q) \/ ClaimResume(q) \/ CreateRun(q) \/ Register(q)
    PROVE  ClaimsKept
<1>1. CASE Arrive(q)
  BY <1>1, ArriveClaims DEF ClaimsKept, WholeKept, Arrive
<1>2. CASE ClaimResume(q)
  <2>1. \A x \in Rows \ {at[q]} : row'[x] = row[x]
    BY <1>2, ClaimRow DEF RunInv
  <2>2. ~ (row[at[q]].st = "completed" /\ row[at[q]].whole)
    BY <1>2, ClaimAlone
  <2>. QED
    BY <1>2, <2>1, <2>2, ClaimClaims DEF ClaimsKept, WholeKept
<1>3. CASE CreateRun(q)
  <2>1. /\ \A x \in Rows \ {at'[q]} : row'[x] = row[x]
        /\ row[at'[q]].st = "none"
    BY <1>3, CreateRow DEF RunInv
  <2>. QED
    BY <1>3, <2>1, CreateClaims DEF ClaimsKept, WholeKept
<1>4. CASE Register(q)
  BY <1>4, RegisterClaims DEF ClaimsKept, WholeKept, Register
<1>. QED
  BY <1>1, <1>2, <1>3, <1>4

(* The pipeline's snapshots, and its ending. *)
LEMMA SnapshotKept ==
    ASSUME RunInv, NEW q \in Reqs, PipelineStart(q) \/ Spend(q)
    PROVE  ClaimsKept
<1>0. StateInv /\ Typed
  BY DEF RunInv, StateInv
<1>1. StateInv'
  BY <1>0, PipelineStartState, SpendState
<1>2. /\ at[q] \in Rows /\ pc[q] \in {"started", "running"}
      /\ UNCHANGED << at, seen, handle, settle, found, toStop, stopping >>
  BY <1>0 DEF StateInv, Placed, Working, PipelineStart, Spend, registry, stop
<1>3. \E p \in Progress : row' = SetProg(at[q], p)
  <2>1. row[at[q]].prog \in Progress /\ cost[q] + 1 \in Nat
    BY <1>0, <1>2, Bounds DEF Typed, RowType
  <2>2. CASE PipelineStart(q)
    <3>1. [row[at[q]].prog EXCEPT !.cost = 0] \in Progress
      BY <2>1, ProgFields
    <3>. QED
      BY <2>2, <3>1 DEF PipelineStart
  <2>3. CASE Spend(q)
    <3>. DEFINE n == cost[q] + 1
                p == [row[at[q]].prog EXCEPT !.cost = n]
    <3>1. row' = SetProg(at[q], p)
      BY <2>3 DEF Spend
    <3>2. n \in Nat
      BY <2>1
    <3>. HIDE DEF n
    <3>3. p \in Progress
      BY <2>1, <3>2, ProgFields
    <3>. HIDE DEF p
    <3>. QED
      BY <3>1, <3>3
  <2>. QED
    BY <2>2, <2>3
<1>4. \A r \in Rows : /\ row'[r].st = row[r].st /\ row'[r].gen = row[r].gen
                      /\ row'[r].whole = row[r].whole
                      /\ row[r].fresh => row'[r].fresh
  BY <1>0, <1>2, <1>3, ProgWrite
<1>5. \A p \in Reqs : pc'[p] = pc[p] \/ (pc[p] = "started" /\ pc'[p] = "running")
  BY <1>0 DEF PipelineStart, Spend, Typed
<1>. QED
  BY <1>1, <1>2, <1>4, <1>5, Beats DEF ClaimsKept, WholeKept

LEMMA EndingKept ==
    ASSUME RunInv, ~ SettleRaces, NEW q \in Reqs, Raise(q) \/ Finish(q) \/ StartFails(q)
    PROVE  ClaimsKept
<1>. DEFINE r == at[q]
<1>0. StateInv /\ Typed /\ Placed /\ ClaimInv /\ StateInv'
  BY RaiseState, FinishState, StartFailsState DEF RunInv, StateInv
<1>1. /\ pc[q] \in {"allocated", "started", "running", "saving"}
      /\ UNCHANGED << row, at, seen, handle, found, toStop, stopping >>
  BY DEF Raise, Finish, StartFails, request, registry, stop
<1>2. r \in Rows /\ q \in Actors /\ q # Reaper
  BY <1>0, <1>1, Names DEF Placed, Working
<1>3. settle[q].step = "off"
  BY <1>0, <1>1 DEF ClaimInv, SettlesOwn, Raise, Finish, StartFails
<1>4. \A b \in Actors \ {q} : ~ Engaged(b, r)
  BY DEF Raise, Finish, StartFails, Free
<1>5. /\ settle'[q].row = r /\ settle'[q].step \in {"mark", "final"}
      /\ \A b \in Actors \ {q} : settle'[b] = settle[b]
  BY <1>0, <1>2, BeginType, FinishSettle DEF Raise, Finish, StartFails
<1>6. row[r].st \notin {"none", "completed"}
  BY <1>0, <1>1, <1>2, Names DEF ClaimInv, RunsRow, Created, Working
<1>7. /\ \A p \in Reqs \ {q} : pc'[p] = pc[p]
      /\ \/ pc[q] = "allocated" /\ pc'[q] = "unstarted"
         \/ pc[q] \in Registered /\ pc'[q] \in {"saving", "closing"}
  BY <1>0 DEF Raise, Finish, StartFails, Typed, Registered
<1>. HIDE DEF r
<1>8. OnePipelinePerRow' /\ ClaimInv'
  BY <1>0, <1>1, <1>2, <1>3, <1>4, <1>5, <1>6, <1>7, Begins DEF r
<1>. QED
  BY <1>1, <1>8 DEF ClaimsKept, WholeKept

LEMMA SaveKept ==
    ASSUME RunInv, ~ SettleRaces, NEW q \in Reqs, Save(q) \/ Release(q)
    PROVE  ClaimsKept
<1>1. CASE Save(q)
  <2>1. Typed /\ at[q] \in Rows /\ pc[q] = "saving"
    BY <1>1 DEF RunInv, StateInv, Placed, Working, Save
  <2>2. row[at[q]].st # "completed"
    BY <2>1 DEF RunInv, ClaimInv, RunsRow, Working
  <2>3. \A x \in Rows \ {at[q]} : row'[x] = row[x]
    BY <1>1, <2>1, SaveRow
  <2>. QED
    BY <1>1, <2>2, <2>3, SaveClaims DEF ClaimsKept, WholeKept
<1>2. CASE Release(q)
  BY <1>2, ReleaseClaims DEF ClaimsKept, WholeKept, Release
<1>. QED
  BY <1>1, <1>2

LEMMA SettlingKept ==
    ASSUME RunInv, NEW a \in Actors, Settling(a) \/ (a \in Reqs /\ PayFinal(a))
    PROVE  ClaimsKept
<1>0. StateInv /\ Typed /\ StateInv'
  BY SettlingState DEF RunInv, StateInv
<1>1. CASE Mark(a)
  <2>1. /\ \A x \in Rows \ {settle[a].row} : row'[x] = row[x]
        /\ row[settle[a].row].st # "completed"
    BY <1>0, <1>1, MarkFacts, MarkClaims
  <2>. QED
    BY <1>1, <2>1, MarkClaims DEF ClaimsKept, WholeKept
<1>2. CASE ReadProgress(a) \/ Pay(a) \/ (a \in Reqs /\ PayFinal(a))
  <2>1. UNCHANGED << row, pc, at, seen, handle, found, toStop, stopping >>
    BY <1>2 DEF ReadProgress, Pay, PayFinal, request, registry, stop
  <2>2. settle[a].step # "off"
    BY <1>2 DEF ReadProgress, Pay, PayFinal
  <2>3. /\ \/ settle'[a] = Idle
           \/ settle'[a].row = settle[a].row /\ settle'[a].step \in {"pay", "flag"}
        /\ \A b \in Actors \ {a} : settle'[b] = settle[b]
    BY <1>0, <1>2, ReadFacts, PayFacts, PayFinalFacts
  <2>4. \A b \in Actors : \/ settle'[b] = settle[b] \/ settle'[b] = Idle
                          \/ /\ settle'[b].row = settle[b].row /\ settle'[b].step # "mark"
                             /\ settle[b].step # "off"
    BY <2>2, <2>3
  <2>. QED
    BY <1>0, <2>1, <2>4, Beats DEF ClaimsKept, WholeKept
<1>3. CASE WriteFlag(a)
  <2>1. UNCHANGED << pc, at, seen, handle, found, toStop, stopping >>
    BY <1>3 DEF WriteFlag, request, registry, stop
  <2>2. \A r \in Rows : /\ row'[r].st = row[r].st /\ row'[r].gen = row[r].gen
                        /\ row'[r].whole = row[r].whole
                        /\ row[r].fresh => row'[r].fresh
    BY <1>0, <1>3, FlagFacts
  <2>3. \A b \in Actors : settle'[b] = settle[b] \/ settle'[b] = Idle
    BY <1>0, <1>3, FlagFacts
  <2>. QED
    BY <1>0, <2>1, <2>2, <2>3, Beats DEF ClaimsKept, WholeKept
<1>. QED
  BY <1>1, <1>2, <1>3 DEF Settling

LEMMA OthersKept ==
    ASSUME RunInv, ~ SettleRaces,
           \/ ReapTick \/ ReapAll \/ ReapRow \/ ShutdownBegin \/ Crash \/ Exit \/ NewDay
           \/ \E r \in Rows : Cancel(r) \/ StopRun(r) \/ Lapse(r)
           \/ UNCHANGED vars
    PROVE  ClaimsKept
<1>0. StateInv /\ Typed
  BY DEF RunInv, StateInv
<1>1. CASE ReapTick \/ ReapAll \/ ReapRow
  BY <1>1, ReapReadClaims, ReapRowClaims
     DEF ClaimsKept, WholeKept, ReapTick, ReapAll, ReapRead, ReapRow
<1>2. CASE ShutdownBegin \/ \E r \in Rows : StopRun(r)
  BY <1>2, ShutdownClaims, StopRunClaims DEF ClaimsKept, WholeKept, ShutdownBegin, StopRun
<1>3. CASE Crash \/ Exit
  <2>1. row' = row
    BY <1>0, <1>3, EndsFacts
  <2>. QED
    BY <1>3, <2>1, EndsClaims DEF ClaimsKept, WholeKept
<1>4. CASE NewDay \/ (\E r \in Rows : Cancel(r)) \/ UNCHANGED vars
  <2>1. UNCHANGED << row, pc, at, seen, handle, settle, found, toStop, stopping >>
    BY <1>4 DEF NewDay, Cancel, vars, request, registry, stop
  <2>2. StateInv'
    BY <1>0, <1>4, TimeState, StateStep
  <2>. QED
    BY <2>1, <2>2, Beats DEF ClaimsKept, WholeKept
<1>5. ASSUME NEW r \in Rows, Lapse(r) PROVE ClaimsKept
  BY <1>0, <1>5, LapseRow, LapseClaims DEF ClaimsKept, WholeKept
<1>. QED
  BY <1>1, <1>2, <1>3, <1>4, <1>5

LEMMA ClaimsStep ==
    ASSUME RunInv, ~ SettleRaces, [Next]_vars
    PROVE  ClaimsKept
<1>1. ASSUME NEW q \in Reqs, Arrive(q) \/ Handling(q) PROVE ClaimsKept
  BY <1>1, WaitingKept, ClaimKept, EndingKept DEF Handling
<1>2. ASSUME NEW q \in Reqs, Pipeline(q) \/ Ending(q) PROVE ClaimsKept
  BY <1>2, SnapshotKept, EndingKept, SaveKept, WaitingKept DEF Pipeline, Ending
<1>3. ASSUME NEW q \in Reqs, PayFinal(q) PROVE ClaimsKept
  BY <1>3, SettlingKept, Names
<1>4. ASSUME NEW a \in Actors, Settling(a) PROVE ClaimsKept
  BY <1>4, SettlingKept
<1>. QED
  BY <1>1, <1>2, <1>3, <1>4, OthersKept DEF Next

-----------------------------------------------------------------------------
(* Every slot is free or held. StateInv has that none is made up; that     *)
(* none is lost takes the handles: release() returns a slot only with the  *)
(* handle it pops.                                                         *)

Exact == permits + Cardinality(Holders) = Cap

LEMMA SlotsSame == SlotsExact <=> Exact
BY DEF SlotsExact, Exact, Holders

(* A request that stays in its slot, or out of one. *)
LEMMA SlotKept ==
    ASSUME Typed, Exact, NEW q \in Reqs, NEW to, pc[q] \in Holding <=> to \in Holding,
           pc' = [pc EXCEPT ![q] = to], permits' = permits
    PROVE  Exact'
BY Keeps DEF Exact

(* One that leaves it returns it. *)
LEMMA SlotReturned ==
    ASSUME Typed, Exact, NEW q \in Reqs, pc[q] \in Holding, NEW to, to \notin Holding,
           pc' = [pc EXCEPT ![q] = to], permits' = permits + 1
    PROVE  Exact'
<1>1. Cardinality(Holders') = Cardinality(Holders) - 1
  BY Gives
<1>2. permits \in Nat /\ Cardinality(Holders) \in Nat /\ Cap \in Nat
  BY HoldersFinite, Bounds DEF Typed
<1>. QED
  BY <1>1, <1>2 DEF Exact

LEMMA SlotsHandling ==
    ASSUME RunInv, NEW q \in Reqs, Arrive(q) \/ Handling(q)
    PROVE  Exact'
<1>0. Typed /\ Exact
  BY SlotsSame DEF RunInv, StateInv
<1>1. CASE Arrive(q)
  <2>1. pc[q] = "idle" /\ pc' = [pc EXCEPT ![q] = "checked"] /\ permits' = permits
    BY <1>1 DEF Arrive, registry
  <2>. QED
    BY <1>0, <2>1, SlotKept DEF Holding
<1>2. CASE Admit(q)
  <2>1. CASE permits > 0
    <3>1. pc[q] = "checked" /\ pc' = [pc EXCEPT ![q] = "admitted"] /\ permits' = permits - 1
      BY <1>2, <2>1 DEF Admit
    <3>2. Cardinality(Holders') = Cardinality(Holders) + 1
      BY <1>0, <3>1, Takes DEF Holding
    <3>3. permits \in Nat /\ Cardinality(Holders) \in Nat /\ Cap \in Nat
      BY <1>0, HoldersFinite, Bounds DEF Typed
    <3>. QED
      BY <1>0, <3>1, <3>2, <3>3 DEF Exact
  <2>2. CASE ~ (permits > 0)
    <3>1. pc[q] = "checked" /\ pc' = [pc EXCEPT ![q] = "refused"] /\ permits' = permits
      BY <1>2, <2>2 DEF Admit
    <3>. QED
      BY <1>0, <3>1, SlotKept DEF Holding
  <2>. QED
    BY <2>1, <2>2
<1>3. CASE ReserveUsd(q)
  <2>1. CASE UnderDayCap
    <3>1. pc[q] = "admitted" /\ pc' = [pc EXCEPT ![q] = "reserved"] /\ permits' = permits
      BY <1>3, <2>1 DEF ReserveUsd, registry
    <3>. QED
      BY <1>0, <3>1, SlotKept DEF Holding
  <2>2. CASE ~ UnderDayCap
    <3>1. pc[q] = "admitted" /\ pc' = [pc EXCEPT ![q] = "refused"] /\ permits' = permits + 1
      BY <1>3, <2>2 DEF ReserveUsd, Refuse
    <3>. QED
      BY <1>0, <3>1, SlotReturned DEF Holding
  <2>. QED
    BY <2>1, <2>2
<1>4. CASE ClaimResume(q) \/ CreateRun(q)
  <2>1. pc[q] = "reserved" /\ pc' = [pc EXCEPT ![q] = "allocated"] /\ permits' = permits
    BY <1>4 DEF ClaimResume, CreateRun, registry
  <2>. QED
    BY <1>0, <2>1, SlotKept DEF Holding
<1>5. CASE GiveBack(q)
  <2>1. pc[q] = "reserved" /\ pc' = [pc EXCEPT ![q] = "refused"] /\ permits' = permits + 1
    BY <1>5 DEF GiveBack, Refuse
  <2>. QED
    BY <1>0, <2>1, SlotReturned DEF Holding
<1>6. CASE Register(q)
  <2>1. pc[q] = "allocated" /\ pc' = [pc EXCEPT ![q] = "started"] /\ permits' = permits
    BY <1>6 DEF Register
  <2>. QED
    BY <1>0, <2>1, SlotKept DEF Holding
<1>7. CASE StartFails(q)
  <2>1. pc[q] = "allocated" /\ pc' = [pc EXCEPT ![q] = "unstarted"] /\ permits' = permits + 1
    BY <1>7 DEF StartFails
  <2>. QED
    BY <1>0, <2>1, SlotReturned DEF Holding
<1>8. CASE Throws(q)
  <2>1. /\ pc[q] \in {"reserved", "allocated"} /\ permits' = permits + 1
        /\ \E to \in {"refused", "ended"} : pc' = [pc EXCEPT ![q] = to]
    BY <1>8 DEF Throws
  <2>. QED
    BY <1>0, <2>1, SlotReturned DEF Holding
<1>. QED
  BY <1>1, <1>2, <1>3, <1>4, <1>5, <1>6, <1>7, <1>8 DEF Handling

LEMMA SlotsPipeline ==
    ASSUME RunInv, NEW q \in Reqs, Pipeline(q) \/ Ending(q)
    PROVE  Exact'
<1>0. Typed /\ Exact
  BY SlotsSame DEF RunInv, StateInv
<1>1. CASE PipelineStart(q) \/ Raise(q) \/ Finish(q) \/ Save(q)
  <2>1. /\ pc[q] \in {"started", "running", "saving"} /\ permits' = permits
        /\ \E to \in {"running", "saving", "closing"} : pc' = [pc EXCEPT ![q] = to]
    BY <1>1 DEF PipelineStart, Raise, Finish, Save, registry
  <2>. QED
    BY <1>0, <2>1, SlotKept DEF Holding
<1>2. CASE Spend(q)
  <2>1. UNCHANGED << pc, permits >>
    BY <1>2 DEF Spend, registry
  <2>. QED
    BY <1>0, <2>1 DEF Exact, Holders
<1>3. CASE Release(q)
  <2>1. handle[at[q]] = q
    BY <1>3, ReleaseClaims
  <2>2. Returned(at[q]) = 1
    BY <2>1, Names DEF Returned
  <2>3. pc[q] = "closing" /\ pc' = [pc EXCEPT ![q] = "ended"] /\ permits' = permits + 1
    BY <1>3, <2>2 DEF Release
  <2>. QED
    BY <1>0, <2>3, SlotReturned DEF Holding
<1>4. CASE UnstartedEnds(q)
  <2>1. pc[q] = "unstarted" /\ pc' = [pc EXCEPT ![q] = "ended"] /\ permits' = permits
    BY <1>4 DEF UnstartedEnds, registry
  <2>. QED
    BY <1>0, <2>1, SlotKept DEF Holding
<1>. QED
  BY <1>1, <1>2, <1>3, <1>4 DEF Pipeline, Ending

LEMMA SlotsStep ==
    ASSUME RunInv, [Next]_vars
    PROVE  SlotsExact'
<1>. SUFFICES Exact'
  BY DEF SlotsExact, Exact, Holders
<1>0. StateInv /\ Exact
  BY SlotsSame DEF RunInv
<1>1. ASSUME NEW q \in Reqs, Arrive(q) \/ Handling(q) \/ Pipeline(q) \/ Ending(q) PROVE Exact'
  BY <1>1, SlotsHandling, SlotsPipeline
<1>2. CASE Crash \/ Exit
  <2>1. permits' = Cap /\ \A q \in Reqs : pc'[q] \in Ended
    BY <1>0, <1>2, EndsFacts
  <2>2. Holders' = {}
    BY <2>1 DEF Holders, Holding, Ended
  <2>. QED
    BY <2>1, <2>2, Bounds, FS_EmptySet DEF Exact
<1>3. CASE \/ \E q \in Reqs : PayFinal(q)
           \/ \E r \in Rows : Cancel(r) \/ StopRun(r) \/ Lapse(r)
           \/ \E a \in Actors : Settling(a)
           \/ ReapTick \/ ReapAll \/ ReapRow \/ ShutdownBegin \/ NewDay
           \/ UNCHANGED vars
  <2>1. UNCHANGED << pc, permits >>
    BY <1>3 DEF PayFinal, Cancel, StopRun, Lapse, Settling, Mark, ReadProgress, Pay, WriteFlag,
                ReapTick, ReapAll, ReapRead, ReapRow, ShutdownBegin, NewDay, registry, vars
  <2>. QED
    BY <1>0, <2>1 DEF Exact, Holders
<1>. QED
  BY <1>1, <1>2, <1>3 DEF Next

LEMMA RunStep == ~ SettleRaces /\ RunInv /\ [Next]_vars => RunInv' /\ WholeKept
<1>. SUFFICES ASSUME ~ SettleRaces, RunInv, [Next]_vars PROVE RunInv' /\ WholeKept
  OBVIOUS
<1>1. StateInv'
  BY StateStep DEF RunInv
<1>2. OnePipelinePerRow' /\ ClaimInv' /\ WholeKept
  BY ClaimsStep DEF ClaimsKept
<1>3. SlotsExact'
  BY SlotsStep
<1>. QED
  BY <1>1, <1>2, <1>3 DEF RunInv

LEMMA RunInit == Init => RunInv
<1>. SUFFICES ASSUME Init PROVE RunInv
  OBVIOUS
<1>1. StateInv
  BY StateInit
<1>2. Holders = {}
  BY DEF Init, Holders, Holding
<1>3. SlotsExact
  BY <1>2, Bounds, SlotsSame, FS_EmptySet DEF Init, Exact
<1>4. OnePipelinePerRow
  BY DEF Init, OnePipelinePerRow
<1>5. ClaimInv
  <2>1. \A a \in Actors : settle[a].step = "off" /\ settle[a].row = None
    BY IdleType DEF Init
  <2>2. Created
    BY <2>1 DEF Init, Created
  <2>3. HandlesTrue /\ RunsRow /\ SeenBefore
    BY DEF Init, HandlesTrue, RunsRow, SeenBefore, Registered, Working, Waits
  <2>4. OneSettles
    BY <2>1, Names DEF Init, OneSettles, Engaged
  <2>5. MarksNoResult /\ SettlesOwn /\ StopsWhileStopping
    BY <2>1, Names DEF Init, MarksNoResult, SettlesOwn, StopsWhileStopping
  <2>. QED
    BY <2>2, <2>3, <2>4, <2>5 DEF ClaimInv
<1>. QED
  BY <1>1, <1>3, <1>4, <1>5 DEF RunInv

(* No slot leaks and none is returned twice, on any way a request is       *)
(* refused, started, failed, cancelled or stopped: silk_research_runtime's *)
(* semaphore and its registry together. When settlings of a row overlap, a *)
(* reaper may fail a row between its claim and its registration and let a  *)
(* second run in, whose handle takes the place of the first one's.         *)
THEOREM SlotsHold == ASSUME ~ SettleRaces PROVE Spec => []SlotsExact
<1>1. RunInv => SlotsExact
  BY DEF RunInv
<1>2. RunInv /\ [Next]_vars => RunInv'
  BY RunStep
<1>. QED
  BY <1>1, <1>2, RunInit, PTL DEF Spec

(* Two requests never run one analyses row: a claim of a resume that lost  *)
(* its row sees a later generation, and a row that a live run has in hand  *)
(* turns a resume away by its handle or its heartbeat.                     *)
THEOREM OneRunPerRow == ASSUME ~ SettleRaces PROVE Spec => []OnePipelinePerRow
<1>1. RunInv => OnePipelinePerRow
  BY DEF RunInv
<1>2. RunInv /\ [Next]_vars => RunInv'
  BY RunStep
<1>. QED
  BY <1>1, <1>2, RunInit, PTL DEF Spec

(* A completed run that lacks nothing is neither run again nor marked      *)
(* failed, though mark_research_failed has no guard on the status.         *)
THEOREM ResultsStay == ASSUME ~ SettleRaces PROVE Spec => WholeIsKept
<1>1. RunInv /\ [Next]_vars => RunInv' /\ WholeKept
  BY RunStep
<1>2. RunInv /\ [Next]_vars =>
        [\A r \in Rows : row[r].st = "completed" /\ row[r].whole
            => row'[r].st = "completed" /\ row'[r].whole]_vars
  BY <1>1 DEF WholeKept
<1>. QED
  BY <1>1, <1>2, RunInit, PTL DEF Spec, WholeIsKept

-----------------------------------------------------------------------------
(* The sum of what a set of requests has booked. MapThenSumSet is a fold   *)
(* over a set, and so a recursive function chosen once: it is unique, and  *)
(* counts the pieces of a pile.                                            *)

Pick(s) == CHOOSE x \in s : TRUE
Sum(f, S) == MapThenSumSet(LAMBDA x : f[x], S)

(* One step of the sum over a subset, by the sum over a smaller one. *)
Folded(f, S, g) == [s \in SUBSET S |-> IF s = {} THEN 0 ELSE f[Pick(s)] + g[s \ {Pick(s)}]]

LEMMA SumUnfolds ==
    ASSUME NEW f, NEW S
    PROVE  Sum(f, S) = (CHOOSE g : g = Folded(f, S, g))[S]
BY DEF Sum, MapThenSumSet, MapThenFoldSet, Folded, Pick

(* A family of subsets of a finite set has a smallest member. *)
LEMMA Smallest ==
    ASSUME NEW S, IsFiniteSet(S), NEW T, T \subseteq SUBSET S, T # {}
    PROVE  \E A \in T : \A B \in SUBSET A : B # A => B \notin T
<1>. DEFINE R == StrictSubsetOrdering(S)
            U == SUBSET S
<1>1. IsWellFoundedOn(R, U)
  BY FS_StrictSubsetOrderingWellFounded, FS_FiniteSubsetsOfFinite
<1>. HIDE DEF R
<1>2. \E A \in T : \A B \in T : ~ (<<B, A>> \in R)
  <2>. HIDE DEF U
  <2>1. T \subseteq U
    BY DEF U
  <2>. QED
    BY <1>1, <2>1, WFMin
<1>3. PICK A \in T : \A B \in T : ~ (<<B, A>> \in R)
  BY <1>2
<1>4. ASSUME NEW B \in SUBSET A, B # A, B \in T PROVE FALSE
  <2>1. <<B, A>> \in (SUBSET S) \X (SUBSET S)
    BY <1>4
  <2>2. <<B, A>> \in R
    BY <1>4, <2>1 DEF R, StrictSubsetOrdering
  <2>. QED
    BY <1>3, <1>4, <2>2
<1>. QED
  BY <1>3, <1>4

LEMMA PickIn == ASSUME NEW s, s # {} PROVE Pick(s) \in s
BY DEF Pick

LEMMA FoldUnique ==
    ASSUME NEW S, IsFiniteSet(S), NEW f, NEW g, NEW h,
           g = Folded(f, S, g), h = Folded(f, S, h)
    PROVE  g = h
<1>. DEFINE T == {s \in SUBSET S : g[s] # h[s]}
<1>1. CASE T # {}
  <2>1. PICK A \in T : \A B \in SUBSET A : B # A => B \notin T
    <3>1. T \subseteq SUBSET S
      OBVIOUS
    <3>. HIDE DEF T
    <3>. QED
      BY <1>1, <3>1, Smallest
  <2>2. A # {}
    <3>1. ASSUME NEW s \in SUBSET S, s = {} PROVE g[s] = 0 /\ h[s] = 0
      <4>1. Folded(f, S, g)[s] = 0 /\ Folded(f, S, h)[s] = 0
        BY <3>1 DEF Folded
      <4>. QED
        BY <4>1
    <3>2. A \in SUBSET S /\ g[A] # h[A]
      BY <2>1
    <3>. QED
      BY <3>1, <3>2
  <2>3. Pick(A) \in A /\ A \ {Pick(A)} # A /\ A \ {Pick(A)} \in SUBSET S
    BY <2>1, <2>2, PickIn
  <2>4. g[A \ {Pick(A)}] = h[A \ {Pick(A)}]
    BY <2>1, <2>3
  <2>5. g[A] = f[Pick(A)] + g[A \ {Pick(A)}] /\ h[A] = f[Pick(A)] + h[A \ {Pick(A)}]
    BY <2>1, <2>2 DEF Folded
  <2>. QED
    BY <2>1, <2>4, <2>5
<1>2. CASE T = {}
  BY <1>2 DEF Folded
<1>. QED
  BY <1>1, <1>2

(* A sum counts what lies on a pile, f[x] pieces for each x. *)
Pile(f, S) == {p \in S \X Nat : p[2] \in 1..f[p[1]]}

LEMMA OnePile ==
    ASSUME NEW x, NEW n \in Nat
    PROVE  /\ IsFiniteSet({x} \X (1..n)) /\ Cardinality({x} \X (1..n)) = n
<1>1. IsFiniteSet({x}) /\ Cardinality({x}) = 1
  BY FS_Singleton
<1>2. IsFiniteSet(1..n) /\ Cardinality(1..n) = n
  BY FS_Interval
<1>3. /\ IsFiniteSet({x} \X (1..n))
      /\ Cardinality({x} \X (1..n)) = Cardinality({x}) * Cardinality(1..n)
  BY <1>1, <1>2, FS_Product
<1>4. \A a, b : a = 1 /\ b = n => a * b = n
  OBVIOUS
<1>. QED
  BY <1>1, <1>2, <1>3, <1>4

LEMMA PileGrows ==
    ASSUME NEW S, NEW f, \A y \in S : f[y] \in Nat, NEW s \in SUBSET S, NEW x \in S, x \notin s,
           IsFiniteSet(Pile(f, s))
    PROVE  /\ IsFiniteSet(Pile(f, s \cup {x}))
           /\ Cardinality(Pile(f, s \cup {x})) = Cardinality(Pile(f, s)) + f[x]
<1>. DEFINE P == Pile(f, s)
            Q == {x} \X (1..f[x])
<1>1. f[x] \in Nat
  OBVIOUS
<1>2. Pile(f, s \cup {x}) = P \cup Q /\ P \cap Q = {}
  BY <1>1 DEF Pile
<1>3. IsFiniteSet(Q) /\ Cardinality(Q) = f[x]
  BY <1>1, OnePile
<1>. HIDE DEF P, Q
<1>4. IsFiniteSet(P) /\ Cardinality(P) \in Nat
  BY FS_CardinalityType DEF P
<1>5. IsFiniteSet(P \cup Q) /\ Cardinality(P \cup Q) = Cardinality(P) + Cardinality(Q) - Cardinality(P \cap Q)
  BY <1>3, <1>4, FS_Union
<1>6. Cardinality(P \cap Q) = 0
  BY <1>2, FS_EmptySet
<1>7. Cardinality(P \cup Q) = Cardinality(P) + f[x]
  BY <1>1, <1>3, <1>4, <1>5, <1>6
<1>. QED
  BY <1>2, <1>5, <1>7 DEF P

LEMMA PileFinite ==
    ASSUME NEW S, IsFiniteSet(S), NEW f, \A y \in S : f[y] \in Nat, NEW s \in SUBSET S
    PROVE  IsFiniteSet(Pile(f, s)) /\ Cardinality(Pile(f, s)) \in Nat
<1>. DEFINE T == {A \in SUBSET S : ~ IsFiniteSet(Pile(f, A))}
<1>1. CASE T # {}
  <2>1. PICK A \in T : \A B \in SUBSET A : B # A => B \notin T
    <3>1. T \subseteq SUBSET S
      OBVIOUS
    <3>. HIDE DEF T
    <3>. QED
      BY <1>1, <3>1, Smallest
  <2>2. A # {}
    <3>1. Pile(f, {}) = {}
      BY DEF Pile
    <3>. QED
      BY <2>1, <3>1, FS_EmptySet
  <2>3. PICK x : x \in A
    BY <2>2
  <2>4. IsFiniteSet(Pile(f, A \ {x}))
    BY <2>1, <2>3
  <2>5. IsFiniteSet(Pile(f, (A \ {x}) \cup {x}))
    BY <2>1, <2>3, <2>4, PileGrows
  <2>. QED
    BY <2>1, <2>3, <2>5
<1>2. CASE T = {}
  BY <1>2, FS_CardinalityType
<1>. QED
  BY <1>1, <1>2

LEMMA SumIsPile ==
    ASSUME NEW S, IsFiniteSet(S), NEW f, \A y \in S : f[y] \in Nat
    PROVE  Sum(f, S) = Cardinality(Pile(f, S))
<1>0. ASSUME NEW b \in SUBSET S, NEW x \in S, x \notin b, IsFiniteSet(Pile(f, b))
      PROVE  Cardinality(Pile(f, b \cup {x})) = Cardinality(Pile(f, b)) + f[x]
  BY <1>0, PileGrows
<1>. DEFINE g == [s \in SUBSET S |-> Cardinality(Pile(f, s))]
            F == CHOOSE h : h = Folded(f, S, h)
<1>1. ASSUME NEW s \in SUBSET S
      PROVE  g[s] = IF s = {} THEN 0 ELSE f[Pick(s)] + g[s \ {Pick(s)}]
  <2>1. CASE s = {}
    <3>1. Pile(f, {}) = {}
      BY DEF Pile
    <3>. QED
      BY <2>1, <3>1, FS_EmptySet
  <2>2. CASE s # {}
    <3>. DEFINE x == Pick(s)
                b == s \ {x}
    <3>1. x \in s /\ x \in S /\ b \in SUBSET S /\ x \notin b /\ s = b \cup {x}
      BY <2>2, PickIn
    <3>. HIDE DEF x, b
    <3>2. IsFiniteSet(Pile(f, b)) /\ Cardinality(Pile(f, b)) \in Nat
      BY <3>1, PileFinite
    <3>3. f[x] \in Nat
      BY <3>1
    <3>4. Cardinality(Pile(f, b \cup {x})) = Cardinality(Pile(f, b)) + f[x]
      BY <1>0, <3>1, <3>2
    <3>5. g[s] = f[x] + g[b]
      BY <3>1, <3>2, <3>3, <3>4
    <3>. QED
      BY <2>2, <3>5 DEF x, b
  <2>. QED
    BY <2>1, <2>2
<1>2. g = Folded(f, S, g)
  <2>1. g = [s \in SUBSET S |-> g[s]]
    OBVIOUS
  <2>. HIDE DEF g
  <2>. QED
    BY <1>1, <2>1 DEF Folded
<1>3. F = Folded(f, S, F)
  <2>. HIDE DEF g
  <2>. QED
    BY <1>2
<1>. HIDE DEF F
<1>4. F = g
  <2>. HIDE DEF g
  <2>. QED
    BY <1>2, <1>3, FoldUnique
<1>5. Sum(f, S) = F[S]
  BY SumUnfolds DEF F
<1>. QED
  BY <1>4, <1>5
LEMMA SumNat ==
    ASSUME NEW S, IsFiniteSet(S), NEW f, \A y \in S : f[y] \in Nat
    PROVE  Sum(f, S) \in Nat /\ (S = {} => Sum(f, S) = 0)
<1>1. Pile(f, {}) = {}
  BY DEF Pile
<1>. QED
  <2>1. Sum(f, S) = Cardinality(Pile(f, S))
    BY SumIsPile
  <2>2. S \in SUBSET S
    OBVIOUS
  <2>3. Cardinality(Pile(f, S)) \in Nat
    BY <2>2, PileFinite
  <2>4. Cardinality({}) = 0
    BY FS_EmptySet
  <2>. QED
    BY <1>1, <2>1, <2>3, <2>4

LEMMA SumSame ==
    ASSUME NEW S, IsFiniteSet(S), NEW f, \A y \in S : f[y] \in Nat,
           NEW g, \A y \in S : g[y] = f[y]
    PROVE  Sum(g, S) = Sum(f, S)
<1>1. Pile(g, S) = Pile(f, S)
  BY DEF Pile
<1>. QED
  BY <1>1, SumIsPile

LEMMA SumAdds ==
    ASSUME NEW S, IsFiniteSet(S), NEW x, x \notin S, NEW f, \A y \in S \cup {x} : f[y] \in Nat
    PROVE  Sum(f, S \cup {x}) = Sum(f, S) + f[x]
<1>. DEFINE T == S \cup {x}
<1>1. IsFiniteSet(T) /\ S \in SUBSET T /\ x \in T
  BY FS_AddElement
<1>2. \A y \in T : f[y] \in Nat
  OBVIOUS
<1>3. Sum(f, T) = Cardinality(Pile(f, T))
  <2>. HIDE DEF T
  <2>. QED
    BY <1>1, <1>2, SumIsPile
<1>4. Sum(f, S) = Cardinality(Pile(f, S))
  BY SumIsPile
<1>5. IsFiniteSet(Pile(f, S))
  BY PileFinite
<1>6. Cardinality(Pile(f, S \cup {x})) = Cardinality(Pile(f, S)) + f[x]
  <2>. HIDE DEF T
  <2>. QED
    BY <1>1, <1>2, <1>5, PileGrows, ZenonT(60)
<1>. QED
  BY <1>3, <1>4, <1>6

(* One summand changes. *)
LEMMA SumMoves ==
    ASSUME NEW S, IsFiniteSet(S), NEW x \in S, NEW f, NEW g,
           \A y \in S : f[y] \in Nat /\ g[y] \in Nat,
           \A y \in S : y # x => g[y] = f[y]
    PROVE  /\ Sum(f, S) \in Nat /\ Sum(f, S) >= f[x]
           /\ Sum(g, S) = Sum(f, S) - f[x] + g[x]
<1>. DEFINE T == S \ {x}
<1>1. IsFiniteSet(T) /\ x \notin T /\ S = T \cup {x}
  BY FS_Subset
<1>2. \A y \in T : f[y] \in Nat /\ g[y] = f[y]
  OBVIOUS
<1>3. f[x] \in Nat /\ g[x] \in Nat
  OBVIOUS
<1>. HIDE DEF T
<1>4. Sum(f, S) = Sum(f, T) + f[x] /\ Sum(g, S) = Sum(g, T) + g[x]
  BY <1>1, <1>2, <1>3, SumAdds
<1>5. Sum(g, T) = Sum(f, T) /\ Sum(f, T) \in Nat
  BY <1>1, <1>2, SumSame, SumNat
<1>. QED
  BY <1>3, <1>4, <1>5

-----------------------------------------------------------------------------
(* The books of the day, when settlings of one row do not overlap.         *)

Claimed(q) == at[q] # None /\ pc[q] \notin Unclaimed \cup {"refused"}

(* A resumed run of an earlier day: its row says nothing of this day. *)
Strayed(q) == Claimed(q) /\ seen[q].gen > 0 /\ row[at[q]].created < day

Total(d) == Sum(booked, BookedOn(d))

(* The ledger covers what is booked on a day without strays, and is that   *)
(* exactly while the day lasts.                                            *)
Covers == \A d \in Days :
    (\A q \in BookedOn(d) : ~ Strayed(q)) => ledger[d] >= Total(d)

Exactly ==
    (\A q \in BookedOn(day) : Claimed(q) => row[at[q]].created = day)
        => ledger[day] = Total(day)

(* A run reserves on the day its row is created, or on that of its resume; *)
(* nothing is on the ledger of a day to come.                              *)
Dated ==
    /\ \A r \in Rows : row[r].created <= day /\ (row[r].created = 0 <=> row[r].st = "none")
    /\ \A d \in Days : d > day => ledger[d] = 0
    /\ \A q \in Reqs : bookedOn[q] <= day
    /\ \A q \in Reqs : Claimed(q) =>
          /\ row[at[q]].created <= bookedOn[q]
          /\ seen[q].gen = 0 => bookedOn[q] = row[at[q]].created

(* What a request has on the ledger, and since when, at each of its steps. *)
Reserved(q) ==
    /\ pc[q] \in {"idle", "checked", "admitted"} => bookedOn[q] = 0
    /\ pc[q] \in {"reserved", "allocated", "started"} => bookedOn[q] = day
    /\ pc[q] = "reserved" => booked[q] = Estimate
    /\ pc[q] = "running" => bucket[q] = bookedOn[q]
    /\ settle[q].step = "final" => bucket[q] = bookedOn[q] /\ pc[q] = "saving"

(* A row that exists carries the run of one request. *)
OneCarrier ==
    /\ \A r \in Rows : row[r].st # "none" => \E q \in Reqs : Carries(r, q)
    /\ \A r \in Rows : \A q, p \in Reqs : Carries(r, q) /\ Carries(r, p) => q = p
    /\ \A q \in Reqs : Claimed(q) => seen[q].gen <= row[at[q]].gen

(* A settling of the row has moved the ledger and not yet said so. *)
Moved(r) == \E a \in Actors : settle[a].step = "flag" /\ settle[a].row = r /\ settle[a].to # None

(* What the row says of its run's booking: the estimate until the flag is  *)
(* up, and then the amount beside it; but of a stray it may say anything.  *)
RowTells(r, q) ==
    LET p == row[r].prog IN
    /\ ~ p.flag /\ row[r].gen = 0 => p.actual = None
    /\ ~ p.flag /\ ~ Moved(r) => booked[q] = Estimate
    /\ p.flag /\ ~ Moved(r) =>
          \/ Strayed(q)
          \/ p.actual = None /\ booked[q] = Estimate
          \/ p.actual # None /\ booked[q] = p.actual

RowsTell ==
    /\ \A r \in Rows, q \in Reqs : Carries(r, q) => RowTells(r, q)
    /\ \A r \in Rows : row[r].st = "none" => ~ row[r].prog.flag /\ row[r].prog.actual = None

Agrees(p, r) == p.flag = row[r].prog.flag /\ p.actual = row[r].prog.actual

(* What an actor has read of a row still holds when it acts on it, and the *)
(* flag it is about to put up tells what it has done.                      *)
ReadTrue(a) ==
    /\ settle[a].step \in {"pay", "final"} \/ (settle[a].step = "mark" /\ a = Reaper)
          => Agrees(settle[a].prog, settle[a].row)
    /\ settle[a].step # "flag" => settle[a].to = None
    /\ settle[a].step = "flag" /\ settle[a].to = None
          => row[settle[a].row].created < day /\ ~ row[settle[a].row].prog.flag
    /\ settle[a].step = "flag" /\ settle[a].to # None
          => \A q \in Reqs : Carries(settle[a].row, q) => booked[q] = settle[a].to

FoundTrue == \A e \in found :
    /\ Agrees(e.prog, e.row)
    /\ settle[Reaper].step # "off" => settle[Reaper].row # e.row
    /\ \A f \in found : f.row = e.row => f = e

BookInv ==
    /\ Dated /\ OneCarrier /\ RowsTell /\ FoundTrue
    /\ \A q \in Reqs : Reserved(q)
    /\ \A a \in Actors : ReadTrue(a)
    /\ Covers /\ Exactly

-----------------------------------------------------------------------------
(* Most steps leave the books alone, and of a row what the books rest on.  *)

SameRow(r) ==
    /\ row'[r].gen = row[r].gen /\ row'[r].created = row[r].created
    /\ row'[r].st = "none" <=> row[r].st = "none"

SameMarks(r) ==
    /\ row'[r].prog.flag = row[r].prog.flag /\ row'[r].prog.actual = row[r].prog.actual
    /\ Moved(r)' <=> Moved(r)

SameClaim(q) ==
    /\ Claimed(q)' <=> Claimed(q)
    /\ Claimed(q) => at'[q] = at[q] /\ seen'[q].gen = seen[q].gen

ClaimsSame == day' = day /\ (\A r \in Rows : SameRow(r)) /\ (\A q \in Reqs : SameClaim(q))

Calm == ClaimsSame /\ (\A r \in Rows : SameMarks(r)) /\ UNCHANGED books

LEMMA CarriesClaimed ==
    ASSUME NEW r \in Rows, NEW q \in Reqs
    PROVE  Carries(r, q) <=> Claimed(q) /\ at[q] = r /\ seen[q].gen = row[r].gen
BY Names DEF Carries, Claimed

LEMMA ClaimedRow ==
    ASSUME RunInv, NEW q \in Reqs, Claimed(q)
    PROVE  /\ at[q] \in Rows /\ row[at[q]].st # "none"
           /\ row[at[q]].gen \in Nat /\ seen[q].gen \in Nat /\ row[at[q]].created \in Nat
<1>1. at[q] \in Rows /\ row[at[q]].st # "none"
  BY DEF RunInv, StateInv, Typed, ClaimInv, Created, Claimed
<1>2. row[at[q]] \in RowType /\ seen[q] \in SeenType
  BY <1>1 DEF RunInv, StateInv, Typed
<1>. QED
  BY <1>1, <1>2 DEF RowType, SeenType

LEMMA CarriersSame ==
    ASSUME RunInv, ClaimsSame, NEW r \in Rows, NEW q \in Reqs
    PROVE  /\ Carries(r, q)' <=> Carries(r, q)
           /\ Strayed(q)' <=> Strayed(q)
           /\ Claimed(q) => at[q] \in Rows /\ at'[q] = at[q]
                            /\ row'[at'[q]].created = row[at[q]].created
<1>1. Claimed(q) => at[q] \in Rows
  BY ClaimedRow
<1>2. Carries(r, q)' <=> Claimed(q)' /\ at'[q] = r /\ seen'[q].gen = row'[r].gen
  BY Names DEF Carries, Claimed
<1>3. Carries(r, q)' <=> Carries(r, q)
  BY <1>2, CarriesClaimed DEF ClaimsSame, SameRow, SameClaim
<1>4. Strayed(q)' <=> Strayed(q)
  BY <1>1 DEF ClaimsSame, SameRow, SameClaim, Strayed
<1>. QED
  BY <1>1, <1>3, <1>4 DEF ClaimsSame, SameRow, SameClaim

LEMMA OneCarrierKept ==
    ASSUME RunInv, ClaimsSame, OneCarrier
    PROVE  OneCarrier'
<1>1. \A r \in Rows, q \in Reqs : Carries(r, q)' <=> Carries(r, q)
  BY CarriersSame
<1>2. \A r \in Rows : row'[r].st = "none" <=> row[r].st = "none"
  BY DEF ClaimsSame, SameRow
<1>3. ASSUME NEW q \in Reqs, Claimed(q)' PROVE seen'[q].gen <= row'[at'[q]].gen
  BY <1>3, ClaimedRow DEF OneCarrier, ClaimsSame, SameRow, SameClaim
<1>. QED
  BY <1>1, <1>2, <1>3 DEF OneCarrier

LEMMA DatedKept ==
    ASSUME RunInv, Dated, ClaimsSame,
           \A d \in Days : d > day => ledger'[d] = ledger[d],
           \A q \in Reqs : bookedOn'[q] = bookedOn[q]
                           \/ (~ Claimed(q) /\ bookedOn'[q] <= day)
    PROVE  Dated'
<1>1. \A r \in Rows : row'[r].created <= day' /\ (row'[r].created = 0 <=> row'[r].st = "none")
  BY DEF Dated, ClaimsSame, SameRow
<1>2. \A d \in Days : d > day' => ledger'[d] = 0
  BY DEF Dated, ClaimsSame
<1>3. \A q \in Reqs : bookedOn'[q] <= day'
  BY DEF Dated, ClaimsSame
<1>4. ASSUME NEW q \in Reqs, Claimed(q)'
      PROVE  /\ row'[at'[q]].created <= bookedOn'[q]
             /\ seen'[q].gen = 0 => bookedOn'[q] = row'[at'[q]].created
  BY <1>4, ClaimedRow DEF Dated, ClaimsSame, SameRow, SameClaim
<1>. QED
  BY <1>1, <1>2, <1>3, <1>4 DEF Dated

LEMMA BookedOnFinite ==
    ASSUME NEW d
    PROVE  IsFiniteSet(BookedOn(d))
BY Names, FS_Subset DEF BookedOn

LEMMA TotalsKept ==
    ASSUME RunInv, ClaimsSame, UNCHANGED books, Covers, Exactly
    PROVE  Covers' /\ Exactly'
<1>1. \A d : BookedOn(d)' = BookedOn(d) /\ Total(d)' = Total(d)
  BY DEF books, BookedOn, Total
<1>2. day' = day /\ ledger' = ledger
  BY DEF books, ClaimsSame
<1>3. \A q \in Reqs : /\ Strayed(q)' <=> Strayed(q)
                      /\ Claimed(q)' <=> Claimed(q)
                      /\ Claimed(q) => row'[at'[q]].created = row[at[q]].created
  BY ClaimedRow DEF ClaimsSame, SameClaim, SameRow, Strayed
<1>4. Covers'
  BY <1>1, <1>2, <1>3 DEF Covers, BookedOn
<1>5. Exactly'
  BY <1>1, <1>2, <1>3 DEF Exactly, BookedOn
<1>. QED
  BY <1>4, <1>5

LEMMA RowsTellKept ==
    ASSUME RunInv, RowsTell, ClaimsSame, \A r \in Rows : SameMarks(r),
           \A q \in Reqs : Claimed(q) => booked'[q] = booked[q]
    PROVE  RowsTell'
<1>1. ASSUME NEW r \in Rows, NEW q \in Reqs, Carries(r, q)' PROVE RowTells(r, q)'
  <2>1. Carries(r, q) /\ (Strayed(q)' <=> Strayed(q))
    BY <1>1, CarriersSame
  <2>2. booked'[q] = booked[q] /\ RowTells(r, q)
    BY <2>1, CarriesClaimed DEF RowsTell
  <2>3. SameRow(r) /\ SameMarks(r)
    BY DEF ClaimsSame
  <2>. QED
    BY <2>1, <2>2, <2>3 DEF RowTells, SameRow, SameMarks
<1>2. ASSUME NEW r \in Rows, row'[r].st = "none"
      PROVE  ~ row'[r].prog.flag /\ row'[r].prog.actual = None
  BY <1>2 DEF RowsTell, ClaimsSame, SameRow, SameMarks
<1>. QED
  BY <1>1, <1>2 DEF RowsTell

(* A calm step keeps the books; what is left is what its actor knows. *)
LEMMA CalmKeeps ==
    ASSUME RunInv, BookInv, Calm
    PROVE  Dated' /\ OneCarrier' /\ RowsTell' /\ Covers' /\ Exactly'
<1>1. Dated'
  BY DatedKept DEF BookInv, Calm, books
<1>2. OneCarrier'
  BY OneCarrierKept DEF BookInv, Calm
<1>3. RowsTell'
  BY RowsTellKept DEF BookInv, Calm, books
<1>4. Covers' /\ Exactly'
  BY TotalsKept DEF BookInv, Calm
<1>. QED
  BY <1>1, <1>2, <1>3, <1>4

LEMMA ReservedKept ==
    ASSUME NEW q \in Reqs, Reserved(q), day' = day, pc'[q] = pc[q], bucket'[q] = bucket[q],
           bookedOn'[q] = bookedOn[q], booked'[q] = booked[q], settle'[q] = settle[q]
    PROVE  Reserved(q)'
BY DEF Reserved

LEMMA ReadKept ==
    ASSUME RunInv, NEW a \in Actors, ReadTrue(a), settle'[a] = settle[a],
           ClaimsSame, \A r \in Rows : r = settle[a].row => SameMarks(r),
           \A q \in Reqs : Carries(settle[a].row, q) => booked'[q] = booked[q]
    PROVE  ReadTrue(a)'
<1>1. CASE settle[a].step = "off"
  BY <1>1 DEF ReadTrue
<1>2. CASE settle[a].step # "off"
  <2>1. settle[a].row \in Rows
    BY <1>2 DEF RunInv, StateInv, Settled
  <2>2. SameRow(settle[a].row) /\ SameMarks(settle[a].row) /\ day' = day
    BY <2>1 DEF ClaimsSame
  <2>3. \A q \in Reqs : Carries(settle[a].row, q)' <=> Carries(settle[a].row, q)
    <3>1. settle'[a].row = settle[a].row
      OBVIOUS
    <3>2. \A r \in Rows, q \in Reqs : Carries(r, q)' <=> Carries(r, q)
      BY CarriersSame
    <3>. QED
      BY <2>1, <3>1, <3>2
  <2>. QED
    BY <2>2, <2>3 DEF ReadTrue, Agrees, SameRow, SameMarks
<1>. QED
  BY <1>1, <1>2

LEMMA FoundKept ==
    ASSUME RunInv, FoundTrue, found' = found,
           \A r \in Rows : SameMarks(r) \/ \A e \in found : e.row # r,
           settle'[Reaper].step # "off"
              => settle[Reaper].step # "off" /\ settle'[Reaper].row = settle[Reaper].row
    PROVE  FoundTrue'
<1>1. \A e \in found : e.row \in Rows
  BY DEF RunInv, StateInv, Typed, FoundType
<1>. QED
  BY <1>1 DEF FoundTrue, Agrees, SameMarks

(* A step of one actor that is calm for the rows and the books.            *)
LEMMA OneActs ==
    ASSUME RunInv, BookInv, NEW a \in Actors, day' = day, UNCHANGED books,
           \A r \in Rows : /\ SameRow(r)
                           /\ row'[r].prog.flag = row[r].prog.flag
                           /\ row'[r].prog.actual = row[r].prog.actual,
           \A q \in Reqs : SameClaim(q),
           \A p \in Reqs \ {a} : pc'[p] = pc[p] /\ bucket'[p] = bucket[p],
           a \in Reqs => Reserved(a)',
           \A b \in Actors \ {a} : settle'[b] = settle[b],
           \/ settle'[a] = settle[a]
           \/ /\ settle[a].step # "flag"
              /\ settle'[a].step # "flag" \/ settle'[a].to = None
              /\ ReadTrue(a)',
           \/ FoundTrue'
           \/ /\ found' = found
              /\ a = Reaper /\ settle'[a].step # "off"
                    => settle[a].step # "off" /\ settle'[a].row = settle[a].row
    PROVE  BookInv'
<1>1. ASSUME NEW r PROVE Moved(r)' <=> Moved(r)
  BY DEF Moved
<1>2. ClaimsSame /\ \A r \in Rows : SameMarks(r)
  BY <1>1 DEF ClaimsSame, SameMarks
<1>3. Calm
  BY <1>2 DEF Calm
<1>4. ASSUME NEW q \in Reqs PROVE Reserved(q)'
  <2>1. CASE q = a
    BY <2>1
  <2>2. CASE q # a
    <3>1. settle'[q] = settle[q] /\ Reserved(q)
      BY <2>2, Names DEF BookInv
    <3>. QED
      BY <2>2, <3>1, ReservedKept DEF books
  <2>. QED
    BY <2>1, <2>2
<1>5. ASSUME NEW b \in Actors PROVE ReadTrue(b)'
  <2>1. CASE settle'[b] = settle[b]
    <3>1. ReadTrue(b) /\ booked' = booked
      BY DEF BookInv, books
    <3>. QED
      BY <1>2, <2>1, <3>1, ReadKept
  <2>2. CASE settle'[b] # settle[b]
    BY <2>2
  <2>. QED
    BY <2>1, <2>2
<1>6. FoundTrue'
  <2>1. CASE found' = found /\ (a = Reaper /\ settle'[a].step # "off"
                    => settle[a].step # "off" /\ settle'[a].row = settle[a].row)
    <3>1. settle'[Reaper].step # "off"
              => settle[Reaper].step # "off" /\ settle'[Reaper].row = settle[Reaper].row
      BY <2>1, Names
    <3>. QED
      BY <1>2, <2>1, <3>1, FoundKept DEF BookInv
  <2>. QED
    BY <2>1
<1>7. Dated' /\ OneCarrier' /\ RowsTell' /\ Covers' /\ Exactly'
  BY <1>3, CalmKeeps
<1>. QED
  BY <1>4, <1>5, <1>6, <1>7 DEF BookInv

LEMMA RowKept ==
    ASSUME row' = row, NEW r \in Rows
    PROVE  /\ SameRow(r)
           /\ row'[r].prog.flag = row[r].prog.flag
           /\ row'[r].prog.actual = row[r].prog.actual
BY DEF SameRow

(* A request that moves on, between its steps on the books. *)
LEMMA RequestMoves ==
    ASSUME RunInv, BookInv, NEW q \in Reqs, NEW to, pc' = [pc EXCEPT ![q] = to],
           UNCHANGED << day, books, row, bucket, settle, found >>,
           \A p \in Reqs \ {q} : at'[p] = at[p] /\ seen'[p] = seen[p],
           SameClaim(q), Reserved(q)'
    PROVE  BookInv'
<1>1. \A p \in Reqs \ {q} : pc'[p] = pc[p] /\ bucket'[p] = bucket[p] /\ SameClaim(p)
  BY DEF RunInv, StateInv, Typed, SameClaim, Claimed
<1>2. \A p \in Reqs : SameClaim(p)
  BY <1>1
<1>3. q \in Actors
  BY Names
<1>. QED
  BY <1>1, <1>2, <1>3, RowKept, OneActs

LEMMA RequestBooks ==
    ASSUME RunInv, BookInv, NEW q \in Reqs,
           \/ Arrive(q) \/ Admit(q) \/ (ReserveUsd(q) /\ ~ UnderDayCap)
           \/ Register(q) \/ Throws(q) \/ Ending(q)
    PROVE  BookInv'
<1>1. Typed /\ Reserved(q) /\ SettlesOwn
  BY DEF RunInv, StateInv, ClaimInv, BookInv
<1>2. CASE Arrive(q)
  <2>1. /\ pc[q] = "idle" /\ pc' = [pc EXCEPT ![q] = "checked"] /\ pc'[q] = "checked"
        /\ UNCHANGED << day, books, row, bucket, settle, found >>
        /\ \A p \in Reqs \ {q} : at'[p] = at[p] /\ seen'[p] = seen[p]
    BY <1>1, <1>2 DEF Arrive, Typed, clock
  <2>2. SameClaim(q)
    BY <2>1 DEF SameClaim, Claimed, Unclaimed
  <2>3. Reserved(q)'
    BY <1>1, <2>1 DEF Reserved, books
  <2>. QED
    BY <2>1, <2>2, <2>3, RequestMoves
<1>3. CASE Admit(q)
  <2>1. PICK to \in {"admitted", "refused"} : pc' = [pc EXCEPT ![q] = to]
    BY <1>3 DEF Admit
  <2>2. /\ pc[q] = "checked" /\ pc'[q] = to
        /\ UNCHANGED << day, books, row, bucket, settle, found, at, seen >>
    BY <1>1, <1>3, <2>1 DEF Admit, Typed, clock, request
  <2>3. SameClaim(q)
    BY <2>1, <2>2 DEF SameClaim, Claimed, Unclaimed
  <2>4. Reserved(q)'
    BY <1>1, <2>1, <2>2 DEF Reserved, books
  <2>. QED
    BY <2>1, <2>2, <2>3, <2>4, RequestMoves
<1>4. CASE ReserveUsd(q) /\ ~ UnderDayCap
  <2>1. /\ pc[q] = "admitted" /\ pc' = [pc EXCEPT ![q] = "refused"] /\ pc'[q] = "refused"
        /\ UNCHANGED << day, books, row, bucket, settle, found, at, seen >>
    BY <1>1, <1>4 DEF ReserveUsd, Refuse, Typed, clock, request
  <2>2. SameClaim(q)
    BY <2>1 DEF SameClaim, Claimed, Unclaimed
  <2>3. Reserved(q)'
    BY <1>1, <2>1 DEF Reserved, books
  <2>. QED
    BY <2>1, <2>2, <2>3, RequestMoves
<1>5. CASE Register(q)
  <2>1. /\ pc[q] = "allocated" /\ pc' = [pc EXCEPT ![q] = "started"] /\ pc'[q] = "started"
        /\ UNCHANGED << day, books, row, bucket, settle, found, at, seen >>
    BY <1>1, <1>5 DEF Register, Typed, clock, request
  <2>2. SameClaim(q)
    BY <2>1 DEF SameClaim, Claimed, Unclaimed
  <2>3. Reserved(q)'
    BY <1>1, <2>1 DEF Reserved, books
  <2>. QED
    BY <2>1, <2>2, <2>3, RequestMoves
<1>6. CASE Ending(q)
  <2>1. /\ pc[q] \in {"closing", "unstarted"} /\ pc' = [pc EXCEPT ![q] = "ended"]
        /\ pc'[q] = "ended"
        /\ UNCHANGED << day, books, row, bucket, settle, found, at, seen >>
    BY <1>1, <1>6 DEF Ending, Release, UnstartedEnds, Typed, clock, request
  <2>2. SameClaim(q)
    BY <2>1 DEF SameClaim, Claimed, Unclaimed
  <2>3. Reserved(q)'
    BY <1>1, <2>1 DEF Reserved, books
  <2>. QED
    BY <2>1, <2>2, <2>3, RequestMoves
<1>7. CASE Throws(q)
  <2>1. /\ \/ pc[q] = "reserved" /\ at[q] = None /\ pc' = [pc EXCEPT ![q] = "refused"]
           \/ pc[q] = "allocated" /\ pc' = [pc EXCEPT ![q] = "ended"]
        /\ UNCHANGED << day, books, row, bucket, settle, found, at, seen >>
    BY <1>7 DEF Throws, clock, request
  <2>2. \/ pc[q] = "reserved" /\ pc'[q] = "refused"
        \/ pc[q] = "allocated" /\ pc'[q] = "ended"
    BY <1>1, <2>1 DEF Typed
  <2>3. SameClaim(q)
    BY <2>1, <2>2 DEF SameClaim, Claimed, Unclaimed
  <2>4. Reserved(q)'
    BY <1>1, <2>1, <2>2 DEF Reserved, SettlesOwn, Unclaimed, books
  <2>. QED
    BY <2>1, <2>3, <2>4, RequestMoves
<1>. QED
  BY <1>2, <1>3, <1>4, <1>5, <1>6, <1>7

-----------------------------------------------------------------------------
(* The pipeline writes its row, and leaves flag and amount in it.          *)

LEMMA RowRewritten ==
    ASSUME Typed, NEW r \in Rows, NEW new \in RowType, row' = [row EXCEPT ![r] = new],
           new.gen = row[r].gen, new.created = row[r].created,
           new.st = "none" <=> row[r].st = "none",
           new.prog.flag = row[r].prog.flag, new.prog.actual = row[r].prog.actual
    PROVE  \A x \in Rows : /\ SameRow(x)
                           /\ row'[x].prog.flag = row[x].prog.flag
                           /\ row'[x].prog.actual = row[x].prog.actual
BY RowWrite DEF SameRow

LEMMA CostWritten ==
    ASSUME Typed, NEW r \in Rows, NEW n \in Nat,
           row' = SetProg(r, [row[r].prog EXCEPT !.cost = n])
    PROVE  \A x \in Rows : /\ SameRow(x)
                           /\ row'[x].prog.flag = row[x].prog.flag
                           /\ row'[x].prog.actual = row[x].prog.actual
<1>. DEFINE p == [row[r].prog EXCEPT !.cost = n]
            new == [row[r] EXCEPT !.prog = p, !.fresh = TRUE]
<1>1. row[r] \in RowType /\ row[r].prog \in Progress
  BY DEF Typed, RowType
<1>2. p \in Progress /\ p.flag = row[r].prog.flag /\ p.actual = row[r].prog.actual
  BY <1>1, ProgFields DEF Progress
<1>3. row' = [row EXCEPT ![r] = new]
  BY DEF SetProg, Typed
<1>. HIDE DEF p
<1>4. /\ new \in RowType /\ new.gen = row[r].gen /\ new.created = row[r].created
      /\ new.st = row[r].st /\ new.prog = p
  BY <1>1, <1>2 DEF RowType
<1>. HIDE DEF new
<1>. QED
  BY <1>2, <1>3, <1>4, RowRewritten

LEMMA PipelineBooks ==
    ASSUME RunInv, BookInv, NEW q \in Reqs, PipelineStart(q) \/ Spend(q) \/ Save(q)
    PROVE  BookInv'
<1>1. /\ Typed /\ Reserved(q) /\ SettlesOwn /\ q \in Actors
      /\ pc[q] \in {"started", "running", "saving"} /\ at[q] \in Rows
      /\ row[at[q]].st # "none"
  BY Names DEF RunInv, StateInv, ClaimInv, BookInv, PipelineStart, Spend, Save, Placed, Working,
               Created
<1>2. UNCHANGED << day, books, at, seen, settle, found >>
  BY DEF PipelineStart, Spend, Save, clock, request
<1>3. /\ pc'[q] \in {"running", "closing"}
      /\ \A p \in Reqs \ {q} : pc'[p] = pc[p] /\ bucket'[p] = bucket[p]
  BY <1>1 DEF PipelineStart, Spend, Save, Typed, request
<1>4. \A p \in Reqs : SameClaim(p)
  BY <1>1, <1>2, <1>3 DEF SameClaim, Claimed, Unclaimed
<1>5. \A x \in Rows : /\ SameRow(x)
                      /\ row'[x].prog.flag = row[x].prog.flag
                      /\ row'[x].prog.actual = row[x].prog.actual
  <2>1. CASE PipelineStart(q)
    BY <1>1, <2>1, CostWritten DEF PipelineStart
  <2>2. CASE Spend(q)
    <3>1. cost[q] + 1 \in Nat
      BY <1>1, Bounds DEF Typed
    <3>. QED
      BY <1>1, <2>2, <3>1, CostWritten DEF Spend
  <2>3. CASE Save(q)
    <3>1. PICK w \in BOOLEAN :
            row' = [row EXCEPT ![at[q]] = [row[at[q]] EXCEPT !.st = "completed", !.whole = w,
                                                             !.fresh = TRUE]]
      BY <2>3 DEF Save
    <3>. DEFINE new == [row[at[q]] EXCEPT !.st = "completed", !.whole = w, !.fresh = TRUE]
    <3>2. row[at[q]] \in RowType
      BY <1>1 DEF Typed
    <3>3. /\ new \in RowType /\ new.gen = row[at[q]].gen /\ new.created = row[at[q]].created
          /\ new.st = "completed" /\ new.prog = row[at[q]].prog
      BY <3>2 DEF RowType
    <3>4. row' = [row EXCEPT ![at[q]] = new]
      BY <3>1
    <3>. HIDE DEF new
    <3>. QED
      BY <1>1, <3>3, <3>4, RowRewritten
  <2>. QED
    BY <2>1, <2>2, <2>3
<1>6. Reserved(q)'
  <2>1. CASE PipelineStart(q)
    <3>1. pc[q] = "started" /\ pc'[q] = "running" /\ bucket'[q] = day
      BY <1>1, <2>1 DEF PipelineStart, Typed
    <3>. QED
      BY <1>1, <1>2, <3>1 DEF Reserved, SettlesOwn, books
  <2>2. CASE Spend(q)
    BY <1>1, <1>2, <2>2 DEF Reserved, Spend, books
  <2>3. CASE Save(q)
    <3>1. pc'[q] = "closing" /\ settle[q].step = "off"
      BY <1>1, <2>3 DEF Save, Typed
    <3>. QED
      BY <1>2, <3>1 DEF Reserved
  <2>. QED
    BY <2>1, <2>2, <2>3
<1>. QED
  BY <1>1, <1>2, <1>3, <1>4, <1>5, <1>6, OneActs

(* A run that fails, and one that ends: its settling begins with what the  *)
(* row says now.                                                           *)
LEMMA BeginTrue ==
    ASSUME Typed, NEW a \in Actors, NEW r \in Rows, settle' = Begin(a, r, "mark"), a # Reaper
    PROVE  /\ ReadTrue(a)' /\ settle'[a].step = "mark" /\ settle'[a].to = None
           /\ \A b \in Actors \ {a} : settle'[b] = settle[b]
<1>. DEFINE new == [Idle EXCEPT !.step = "mark", !.row = r]
<1>1. new.step = "mark" /\ new.to = None
  BY DEF Idle
<1>2. settle'[a] = new /\ \A b \in Actors \ {a} : settle'[b] = settle[b]
  BY DEF Begin, Typed
<1>. HIDE DEF new
<1>. QED
  BY <1>1, <1>2 DEF ReadTrue

LEMMA EndingBooks ==
    ASSUME RunInv, BookInv, NEW q \in Reqs, StartFails(q) \/ Raise(q) \/ Finish(q)
    PROVE  BookInv'
<1>1. /\ Typed /\ Reserved(q) /\ SettlesOwn /\ q \in Actors /\ q # Reaper
      /\ pc[q] \in {"allocated", "started", "running", "saving"} /\ at[q] \in Rows
      /\ settle[q].step = "off"
  <2>1. Typed /\ Reserved(q) /\ SettlesOwn /\ q \in Actors /\ q # Reaper
    BY Names DEF RunInv, StateInv, ClaimInv, BookInv
  <2>2. /\ pc[q] \in {"allocated", "started", "running", "saving"}
        /\ pc[q] = "saving" => settle[q].step = "off"
    BY DEF StartFails, Raise, Finish
  <2>3. at[q] \in Rows
    BY <2>2 DEF RunInv, StateInv, Placed, Working
  <2>. QED
    BY <2>1, <2>2, <2>3 DEF SettlesOwn
<1>2. UNCHANGED << day, books, row, request, at, seen, bucket, found >>
  BY DEF StartFails, Raise, Finish, clock, request
<1>3. /\ pc'[q] \in {"unstarted", "closing", "saving"}
      /\ \A p \in Reqs \ {q} : pc'[p] = pc[p] /\ bucket'[p] = bucket[p]
  BY <1>1, <1>2 DEF StartFails, Raise, Finish, Typed
<1>4. \A p \in Reqs : SameClaim(p)
  BY <1>1, <1>2, <1>3 DEF SameClaim, Claimed, Unclaimed
<1>5. CASE StartFails(q) \/ Raise(q)
  <2>1. settle' = Begin(q, at[q], "mark")
    BY <1>5 DEF StartFails, Raise
  <2>2. /\ ReadTrue(q)' /\ settle'[q].step = "mark" /\ settle'[q].to = None
        /\ \A b \in Actors \ {q} : settle'[b] = settle[b]
    BY <1>1, <2>1, BeginTrue
  <2>3. pc'[q] \in {"unstarted", "closing"}
    BY <1>1, <1>5 DEF StartFails, Raise, Typed
  <2>4. Reserved(q)'
    BY <2>2, <2>3 DEF Reserved
  <2>. QED
    BY <1>1, <1>2, <1>3, <1>4, <2>2, <2>4, RowKept, OneActs
<1>6. CASE Finish(q)
  <2>. DEFINE new == [step |-> "final", row |-> at[q], prog |-> row[at[q]].prog, to |-> None]
  <2>1. settle'[q] = new /\ \A b \in Actors \ {q} : settle'[b] = settle[b]
    BY <1>1, <1>6 DEF Finish, Typed
  <2>2. /\ settle'[q].step = "final" /\ settle'[q].to = None
        /\ settle'[q].row = at[q] /\ settle'[q].prog = row[at[q]].prog
    BY <2>1
  <2>. HIDE DEF new
  <2>3. ReadTrue(q)'
    BY <1>2, <2>2 DEF ReadTrue, Agrees
  <2>4. pc[q] = "running" /\ pc'[q] = "saving"
    BY <1>1, <1>6 DEF Finish, Typed
  <2>5. Reserved(q)'
    BY <1>1, <1>2, <2>2, <2>4 DEF Reserved, books
  <2>. QED
    BY <1>1, <1>2, <1>3, <1>4, <2>1, <2>2, <2>3, <2>5, RowKept, OneActs
<1>. QED
  BY <1>5, <1>6

-----------------------------------------------------------------------------
(* Settling, reaping and stopping, where the books do not move.            *)

LEMMA RowMarked ==
    ASSUME StateInv, NEW a \in Actors, Mark(a), row[settle[a].row].st # "none"
    PROVE  \A x \in Rows : /\ SameRow(x)
                           /\ row'[x].prog.flag = row[x].prog.flag
                           /\ row'[x].prog.actual = row[x].prog.actual
<1>. DEFINE r == settle[a].row
            new == [row[r] EXCEPT !.st = "failed", !.fresh = TRUE]
<1>1. Typed /\ r \in Rows
  BY DEF StateInv, Settled, Mark
<1>2. row[r] \in RowType
  BY <1>1 DEF Typed
<1>3. /\ new \in RowType /\ new.gen = row[r].gen /\ new.created = row[r].created
      /\ new.st = "failed" /\ new.prog = row[r].prog
  BY <1>2 DEF RowType
<1>4. row' = [row EXCEPT ![r] = new]
  BY DEF Mark
<1>. HIDE DEF new
<1>. QED
  BY <1>1, <1>3, <1>4, RowRewritten

LEMMA NobodyElse ==
    ASSUME pc' = pc, UNCHANGED << day, request >>
    PROVE  /\ \A q \in Reqs : (\A r \in Rows : SameRow(r)) => SameClaim(q)
           /\ \A p \in Reqs : pc'[p] = pc[p] /\ bucket'[p] = bucket[p]
BY DEF SameClaim, Claimed, request

LEMMA ActorReserved ==
    ASSUME NEW q \in Reqs, Reserved(q), day' = day, pc'[q] = pc[q], bucket'[q] = bucket[q],
           bookedOn'[q] = bookedOn[q], booked'[q] = booked[q] \/ pc[q] # "reserved",
           settle'[q].step # "final"
    PROVE  Reserved(q)'
BY DEF Reserved

LEMMA MarkBooks ==
    ASSUME RunInv, BookInv, NEW a \in Actors, Mark(a)
    PROVE  BookInv'
<1>1. /\ StateInv /\ Typed /\ settle[a].step = "mark" /\ settle[a].row \in Rows
      /\ row[settle[a].row].st # "none" /\ ReadTrue(a)
  BY DEF RunInv, StateInv, Settled, Mark, ClaimInv, Created, BookInv
<1>2. UNCHANGED << day, books, pc, request, found >>
  BY DEF Mark, clock
<1>3. \A x \in Rows : /\ SameRow(x)
                      /\ row'[x].prog.flag = row[x].prog.flag
                      /\ row'[x].prog.actual = row[x].prog.actual
  BY <1>1, RowMarked
<1>4. /\ settle'[a].step = IF a = Reaper THEN "pay" ELSE "read"
      /\ settle'[a].row = settle[a].row /\ settle'[a].prog = settle[a].prog
      /\ settle'[a].to = settle[a].to
      /\ \A b \in Actors \ {a} : settle'[b] = settle[b]
  BY <1>1 DEF Mark, Typed, SettleType
<1>5. ReadTrue(a)'
  BY <1>1, <1>3, <1>4 DEF ReadTrue, Agrees
<1>6. a \in Reqs => Reserved(a)'
  BY <1>2, <1>4, ActorReserved DEF BookInv, request, books
<1>. QED
  BY <1>1, <1>2, <1>3, <1>4, <1>5, <1>6, NobodyElse, OneActs

LEMMA ReadBooks ==
    ASSUME RunInv, BookInv, NEW a \in Actors, ReadProgress(a)
    PROVE  BookInv'
<1>1. Typed /\ settle[a].step = "read" /\ ReadTrue(a)
  BY DEF RunInv, StateInv, ReadProgress, BookInv
<1>2. UNCHANGED << day, books, row, pc, request, found >>
  BY DEF ReadProgress, clock
<1>3. /\ settle'[a].step = "pay" /\ settle'[a].row = settle[a].row
      /\ settle'[a].prog = row[settle[a].row].prog /\ settle'[a].to = settle[a].to
      /\ \A b \in Actors \ {a} : settle'[b] = settle[b]
  BY <1>1 DEF ReadProgress, Typed, SettleType
<1>4. ReadTrue(a)'
  BY <1>1, <1>2, <1>3 DEF ReadTrue, Agrees
<1>5. a \in Reqs => Reserved(a)'
  BY <1>2, <1>3, ActorReserved DEF BookInv, request, books
<1>. QED
  BY <1>1, <1>2, <1>3, <1>4, <1>5, RowKept, NobodyElse, OneActs

(* A settling that finds the flag up, and one of an earlier day's row. *)
LEMMA PayNothing ==
    ASSUME RunInv, BookInv, NEW a \in Actors, Pay(a), UNCHANGED books,
           \/ settle' = [settle EXCEPT ![a] = Idle]
           \/ /\ settle' = [settle EXCEPT ![a].step = "flag"]
              /\ row[settle[a].row].created # day /\ ~ settle[a].prog.flag
    PROVE  BookInv'
<1>1. /\ Typed /\ settle[a].step = "pay" /\ settle[a].row \in Rows /\ ReadTrue(a)
      /\ row[settle[a].row].created <= day
  BY DEF RunInv, StateInv, Settled, Pay, BookInv, Dated
<1>2. UNCHANGED << day, row, pc, request, found >>
  BY DEF Pay, clock
<1>3. \A b \in Actors \ {a} : settle'[b] = settle[b]
  BY <1>1 DEF Typed
<1>4. /\ settle'[a].step # "final" /\ settle'[a].to = None /\ ReadTrue(a)'
      /\ settle'[a].step # "off" => settle'[a].row = settle[a].row
  <2>1. CASE settle' = [settle EXCEPT ![a] = Idle]
    <3>1. settle'[a] = Idle
      BY <1>1, <2>1 DEF Typed
    <3>2. settle'[a].step = "off" /\ settle'[a].to = None
      BY <3>1 DEF Idle
    <3>. QED
      BY <3>2 DEF ReadTrue
  <2>2. CASE /\ settle' = [settle EXCEPT ![a].step = "flag"]
             /\ row[settle[a].row].created # day /\ ~ settle[a].prog.flag
    <3>1. /\ settle'[a].step = "flag" /\ settle'[a].row = settle[a].row
          /\ settle'[a].to = settle[a].to
      BY <1>1, <2>2 DEF Typed, SettleType
    <3>2. settle[a].to = None /\ ~ row[settle[a].row].prog.flag
      BY <1>1, <2>2 DEF ReadTrue, Agrees
    <3>3. row[settle[a].row].created < day
      <4>1. row[settle[a].row].created \in Nat /\ day \in Nat
        BY <1>1, Bounds DEF Typed, RowType, Days
      <4>. QED
        BY <1>1, <2>2, <4>1
    <3>. QED
      BY <1>2, <3>1, <3>2, <3>3 DEF ReadTrue
  <2>. QED
    BY <2>1, <2>2
<1>5. a \in Reqs => Reserved(a)'
  BY <1>2, <1>4, ActorReserved DEF BookInv, request, books
<1>. QED
  BY <1>1, <1>2, <1>3, <1>4, <1>5, RowKept, NobodyElse, OneActs

LEMMA ReapBooks ==
    ASSUME RunInv, BookInv, ReapTick \/ ReapAll \/ ReapRow
    PROVE  BookInv'
<1>1. Typed /\ Reaper \in Actors /\ Reaper \notin Reqs /\ FoundTrue
  BY Names DEF RunInv, StateInv, BookInv
<1>2. UNCHANGED << day, books, row, pc, request >>
  BY DEF ReapTick, ReapAll, ReapRead, ReapRow, clock
<1>3. ASSUME NEW skip, ReapRead(skip) PROVE BookInv'
  <2>1. settle' = settle /\ settle[Reaper].step = "off"
    BY <1>3 DEF ReapRead
  <2>2. found' = {[row |-> r, orphan |-> IsOrphan(r), prog |-> row[r].prog] :
                    r \in {x \in Rows : /\ (IsOrphan(x) /\ x \notin skip) \/ Unsettled(x)
                                        /\ Free(Reaper, x)}}
    BY <1>3 DEF ReapRead
  <2>3. \A e \in found' : \E r \in Rows :
          e = [row |-> r, orphan |-> IsOrphan(r), prog |-> row[r].prog]
    BY <2>2
  <2>4. FoundTrue'
    BY <1>2, <2>1, <2>3 DEF FoundTrue, Agrees
  <2>. QED
    BY <1>1, <1>2, <2>1, <2>4, RowKept, NobodyElse, OneActs
<1>4. CASE ReapRow
  <2>1. PICK e \in found :
          /\ found' = found \ {e}
          /\ settle' = [settle EXCEPT ![Reaper] = [step |-> IF e.orphan THEN "mark" ELSE "pay",
                                                   row |-> e.row, prog |-> e.prog, to |-> None]]
    BY <1>4 DEF ReapRow
  <2>. DEFINE new == [step |-> IF e.orphan THEN "mark" ELSE "pay",
                      row |-> e.row, prog |-> e.prog, to |-> None]
  <2>2. settle'[Reaper] = new /\ \A b \in Actors \ {Reaper} : settle'[b] = settle[b]
    BY <1>1, <2>1 DEF Typed
  <2>3. /\ settle'[Reaper].step \in {"mark", "pay"} /\ settle'[Reaper].row = e.row
        /\ settle'[Reaper].prog = e.prog /\ settle'[Reaper].to = None
    BY <2>2
  <2>4. settle[Reaper].step = "off" /\ Agrees(e.prog, e.row)
    BY <1>1, <1>4 DEF ReapRow, FoundTrue
  <2>. HIDE DEF new
  <2>5. ReadTrue(Reaper)'
    BY <1>2, <2>3, <2>4 DEF ReadTrue, Agrees
  <2>6. FoundTrue'
    BY <1>1, <1>2, <2>1, <2>3 DEF FoundTrue, Agrees
  <2>. QED
    BY <1>1, <1>2, <2>2, <2>3, <2>4, <2>5, <2>6, RowKept, NobodyElse, OneActs
<1>. QED
  BY <1>3, <1>4 DEF ReapTick, ReapAll

LEMMA StopBooks ==
    ASSUME RunInv, BookInv, ShutdownBegin \/ (\E r \in Rows : StopRun(r) \/ Cancel(r))
    PROVE  BookInv'
<1>1. /\ Typed /\ Stopper \in Actors /\ Stopper \notin Reqs /\ Stopper # Reaper
  BY Names DEF RunInv, StateInv
<1>2. UNCHANGED << day, books, row, pc, request, found >>
  BY DEF ShutdownBegin, StopRun, Cancel, clock
<1>3. CASE settle' = settle
  BY <1>1, <1>2, <1>3, RowKept, NobodyElse, OneActs
<1>4. ASSUME NEW r \in Rows, StopRun(r), settle' = Begin(Stopper, r, "mark") PROVE BookInv'
  <2>1. settle[Stopper].step = "off"
    BY <1>4 DEF StopRun
  <2>2. /\ ReadTrue(Stopper)' /\ settle'[Stopper].step = "mark" /\ settle'[Stopper].to = None
        /\ \A b \in Actors \ {Stopper} : settle'[b] = settle[b]
    BY <1>1, <1>4, BeginTrue
  <2>. QED
    BY <1>1, <1>2, <2>1, <2>2, RowKept, NobodyElse, OneActs
<1>. QED
  BY <1>3, <1>4 DEF ShutdownBegin, StopRun, Cancel

LEMMA LapseBooks ==
    ASSUME RunInv, BookInv, NEW r \in Rows, Lapse(r)
    PROVE  BookInv'
<1>. DEFINE new == [row[r] EXCEPT !.fresh = FALSE]
<1>1. /\ Typed /\ Stopper \in Actors /\ Stopper \notin Reqs /\ Stopper # Reaper
  BY Names DEF RunInv, StateInv
<1>2. UNCHANGED << day, books, pc, request, found, settle >>
  BY DEF Lapse, clock
<1>3. row[r] \in RowType /\ row' = [row EXCEPT ![r] = new]
  BY <1>1 DEF Lapse, Typed
<1>4. /\ new \in RowType /\ new.gen = row[r].gen /\ new.created = row[r].created
      /\ new.st = row[r].st /\ new.prog = row[r].prog
  BY <1>3 DEF RowType
<1>. HIDE DEF new
<1>5. \A x \in Rows : /\ SameRow(x)
                      /\ row'[x].prog.flag = row[x].prog.flag
                      /\ row'[x].prog.actual = row[x].prog.actual
  BY <1>1, <1>3, <1>4, RowRewritten
<1>. QED
  BY <1>1, <1>2, <1>5, NobodyElse, OneActs

(* The process does not end between a payment and its flag. *)
LEMMA EndsBooks ==
    ASSUME ~ SettleRaces, RunInv, BookInv, Crash \/ Exit
    PROVE  BookInv'
<1>1. StateInv /\ Typed
  BY DEF RunInv, StateInv
<1>2. /\ \A q \in Reqs : pc'[q] \in Ended /\ (pc'[q] # "dead" => pc'[q] = pc[q])
      /\ found' = {}
      /\ \A a \in Actors : settle'[a] = Idle
      /\ \A q \in Reqs : at'[q] = IF pc[q] \in Unclaimed THEN None ELSE at[q]
      /\ UNCHANGED << day, books, row, seen, bucket, cost >>
  BY <1>1, EndsFacts
<1>3. \A a \in Actors : settle[a].step # "flag"
  BY DEF Crash, Exit, ProcessEnds
<1>4. ASSUME NEW q \in Reqs PROVE SameClaim(q)
  <2>1. CASE pc[q] \in Unclaimed
    BY <1>2, <2>1 DEF SameClaim, Claimed
  <2>2. CASE pc[q] \notin Unclaimed
    <3>1. pc'[q] = pc[q] \/ (pc'[q] = "dead" /\ pc[q] # "refused")
      BY <1>1 DEF Crash, Exit, ProcessEnds, Ended, Typed
    <3>2. "dead" \notin Unclaimed \cup {"refused"}
      BY DEF Unclaimed
    <3>. QED
      BY <1>2, <2>2, <3>1, <3>2 DEF SameClaim, Claimed
  <2>. QED
    BY <2>1, <2>2
<1>5. \A a \in Actors : settle'[a].step = "off" /\ settle'[a].to = None
  BY <1>2 DEF Idle
<1>6. \A r \in Rows : SameRow(r) /\ SameMarks(r)
  BY <1>2, <1>3, <1>5, RowKept DEF SameMarks, Moved
<1>7. Calm
  BY <1>2, <1>4, <1>6 DEF Calm, ClaimsSame
<1>8. ASSUME NEW q \in Reqs PROVE Reserved(q)'
  <2>1. pc'[q] \in Ended /\ (pc'[q] = "idle" => pc[q] = "idle")
    BY <1>2
  <2>2. q \in Actors /\ Reserved(q)
    BY Names DEF BookInv
  <2>. QED
    BY <1>2, <1>5, <2>1, <2>2 DEF Reserved, Ended, books
<1>9. \A a \in Actors : ReadTrue(a)'
  BY <1>5 DEF ReadTrue
<1>10. FoundTrue'
  BY <1>2 DEF FoundTrue
<1>. QED
  BY <1>7, <1>8, <1>9, <1>10, CalmKeeps DEF BookInv

-----------------------------------------------------------------------------
(* The steps that move the books.                                          *)

(* An amount booked on a day changes, and the ledger by the difference. *)
LEMMA BookingMoves ==
    ASSUME RunInv, Dated, Covers, Exactly, ClaimsSame,
           NEW q \in Reqs, bookedOn[q] \in Days, NEW from \in Nat, NEW to \in Nat,
           from = booked[q] \/ Strayed(q),
           ledger' = Rebase(bookedOn[q], from, to), bookedOn' = bookedOn,
           booked' = [p \in Reqs |-> IF p = q THEN to ELSE booked[p]]
    PROVE  Covers' /\ Exactly'
<1>0. PICK d1 \in Days : d1 = bookedOn[q]
  OBVIOUS
<1>1. /\ Typed /\ day \in Days /\ day' = day /\ ledger \in [Days -> Nat]
      /\ booked \in [Reqs -> Nat]
  BY DEF RunInv, StateInv, Typed, ClaimsSame
<1>2. \A d : BookedOn(d)' = BookedOn(d)
  BY DEF BookedOn
<1>3. \A p \in Reqs : booked[p] \in Nat /\ booked'[p] \in Nat
  BY <1>1
<1>4. ASSUME NEW d \in Days, d # d1
      PROVE  ledger'[d] = ledger[d] /\ Total(d)' = Total(d)
  <2>1. \A p \in BookedOn(d) : booked[p] \in Nat /\ booked'[p] = booked[p]
    BY <1>0, <1>3, <1>4 DEF BookedOn
  <2>2. Sum(booked', BookedOn(d)) = Sum(booked, BookedOn(d))
    BY <2>1, BookedOnFinite, SumSame
  <2>. QED
    BY <1>0, <1>1, <1>2, <1>4, <2>2 DEF Total, Rebase
<1>5. /\ Total(d1) \in Nat /\ Total(d1) >= booked[q]
      /\ Total(d1)' = Total(d1) - booked[q] + to
  <2>1. q \in BookedOn(d1) /\ IsFiniteSet(BookedOn(d1))
    BY <1>0, BookedOnFinite DEF BookedOn
  <2>2. \A p \in BookedOn(d1) : /\ booked[p] \in Nat /\ booked'[p] \in Nat
                                /\ p # q => booked'[p] = booked[p]
    BY <1>3 DEF BookedOn
  <2>3. booked'[q] = to
    OBVIOUS
  <2>4. /\ Sum(booked, BookedOn(d1)) \in Nat /\ Sum(booked, BookedOn(d1)) >= booked[q]
        /\ Sum(booked', BookedOn(d1)) = Sum(booked, BookedOn(d1)) - booked[q] + booked'[q]
    BY <2>1, <2>2, SumMoves
  <2>. QED
    BY <1>2, <2>3, <2>4 DEF Total
<1>6. ledger'[d1] = IF ledger[d1] + to >= from THEN ledger[d1] + to - from ELSE 0
  BY <1>0, <1>1 DEF Rebase
<1>7. \A p \in Reqs : /\ Strayed(p)' <=> Strayed(p)
                      /\ Claimed(p)' <=> Claimed(p)
                      /\ Claimed(p) => row'[at'[p]].created = row[at[p]].created
  BY ClaimedRow DEF ClaimsSame, SameClaim, SameRow, Strayed
<1>8. ledger[d1] \in Nat /\ booked[q] \in Nat /\ q \in BookedOn(d1)
  BY <1>0, <1>1 DEF BookedOn
<1>9. Covers'
  <2>. SUFFICES ASSUME NEW d \in Days, \A p \in BookedOn(d) : ~ Strayed(p)
                PROVE  ledger'[d] >= Total(d)'
    BY <1>2, <1>7 DEF Covers, BookedOn
  <2>1. ledger[d] >= Total(d)
    BY DEF Covers
  <2>2. CASE d = d1
    <3>1. from = booked[q]
      BY <1>8, <2>2
    <3>2. ledger[d1] >= Total(d1)
      BY <2>1, <2>2
    <3>3. ledger'[d1] = ledger[d1] + to - booked[q]
      BY <1>5, <1>6, <1>8, <3>1, <3>2
    <3>4. ledger'[d1] >= Total(d1)'
      BY <1>5, <1>8, <3>2, <3>3
    <3>. QED
      BY <2>2, <3>4
  <2>3. CASE d # d1
    BY <1>4, <2>1, <2>3
  <2>. QED
    BY <2>2, <2>3
<1>10. Exactly'
  <2>. SUFFICES ASSUME \A p \in BookedOn(day) : Claimed(p) => row[at[p]].created = day
                PROVE  ledger'[day] = Total(day)'
    BY <1>1, <1>2, <1>7 DEF Exactly, BookedOn
  <2>1. ledger[day] = Total(day)
    BY DEF Exactly
  <2>2. CASE day = d1
    <3>1. ~ Strayed(q)
      BY <1>1, <1>8, <2>2 DEF Strayed, Days
    <3>2. from = booked[q]
      BY <3>1
    <3>3. ledger[d1] = Total(d1)
      BY <2>1, <2>2
    <3>4. ledger'[d1] = ledger[d1] + to - booked[q]
      BY <1>5, <1>6, <1>8, <3>2, <3>3
    <3>5. ledger'[d1] = Total(d1)'
      BY <1>5, <1>8, <3>3, <3>4
    <3>. QED
      BY <1>1, <2>2, <3>5
  <2>3. CASE day # d1
    BY <1>1, <1>4, <2>1, <2>3
  <2>. QED
    BY <2>2, <2>3
<1>. QED
  BY <1>9, <1>10

(* What every settling that moves the ledger does, whoever does it. *)
LEMMA SettlingMoves ==
    ASSUME RunInv, BookInv, NEW a \in Actors, NEW r \in Rows, NEW q \in Reqs, Carries(r, q),
           settle[a].row = r, settle[a].step # "off",
           NEW from \in Nat, NEW to \in Nat, from = booked[q] \/ Strayed(q),
           ledger' = Rebase(bookedOn[q], from, to), bookedOn' = bookedOn,
           booked' = [p \in Reqs |-> IF p = q THEN to ELSE booked[p]],
           UNCHANGED << day, row, pc, request, found >>,
           settle'[a].step = "flag", settle'[a].row = r, settle'[a].to = to,
           \A b \in Actors \ {a} : settle'[b] = settle[b]
    PROVE  BookInv'
<1>1. /\ Typed /\ OneSettles /\ Dated /\ OneCarrier /\ RowsTell /\ Covers /\ Exactly /\ FoundTrue
      /\ to # None
  BY ResearchAssumption DEF RunInv, StateInv, ClaimInv, BookInv
<1>2. ClaimsSame
  BY RowKept, NobodyElse DEF ClaimsSame
<1>3. Claimed(q) /\ at[q] = r
  BY CarriesClaimed
<1>4. bookedOn[q] \in Days
  <2>1. row[r].created # 0 /\ row[r].created <= bookedOn[q] /\ row[r].created \in Nat
    BY <1>1, <1>3, ClaimedRow DEF Dated
  <2>. QED
    BY <1>1, <2>1, Bounds DEF Typed, Days
<1>5. Covers' /\ Exactly'
  BY <1>1, <1>2, <1>4, BookingMoves
<1>6. Dated'
  <2>1. \A d \in Days : d > day => ledger'[d] = ledger[d]
    <3>1. bookedOn[q] <= day
      BY <1>1 DEF Dated
    <3>2. \A d \in Days : d > day => d # bookedOn[q]
      BY <1>1, <1>4, <3>1, Bounds DEF Days, Typed
    <3>. QED
      BY <1>1, <3>2 DEF Rebase, Typed
  <2>. QED
    BY <1>1, <1>2, <2>1, DatedKept
<1>7. OneCarrier'
  BY <1>1, <1>2, OneCarrierKept
<1>8. \A b \in Actors : b # a /\ settle[b].step # "off" => settle[b].row # r
  BY <1>1 DEF OneSettles, Engaged
<1>9. \A x \in Rows, p \in Reqs : /\ Carries(x, p)' <=> Carries(x, p)
                                  /\ Carries(x, p) /\ x # r => p # q
                                  /\ Strayed(p)' <=> Strayed(p)
  BY <1>2, <1>3, CarriersSame, CarriesClaimed
<1>10. \A p \in Reqs \ {q} : booked'[p] = booked[p]
  OBVIOUS
<1>11. \A x \in Rows : x # r => (Moved(x)' <=> Moved(x))
  BY DEF Moved
<1>12. Moved(r)'
  BY <1>1 DEF Moved
<1>13. RowsTell'
  <2>1. ASSUME NEW x \in Rows, NEW p \in Reqs, Carries(x, p)' PROVE RowTells(x, p)'
    <3>1. Carries(x, p) /\ RowTells(x, p)
      BY <1>1, <1>9, <2>1 DEF RowsTell
    <3>2. CASE x = r
      BY <1>12, <3>1, <3>2 DEF RowTells
    <3>3. CASE x # r
      BY <1>9, <1>10, <1>11, <3>1, <3>3 DEF RowTells
    <3>. QED
      BY <3>2, <3>3
  <2>. QED
    BY <1>1, <2>1 DEF RowsTell
<1>14. ASSUME NEW p \in Reqs PROVE Reserved(p)'
  <2>1. Reserved(p) /\ p \in Actors
    BY Names DEF BookInv
  <2>2. booked'[p] = booked[p] \/ pc[p] # "reserved"
    BY <1>3, <1>10 DEF Claimed, Unclaimed
  <2>3. settle'[p].step = "final" => settle[p] = settle'[p]
    BY <2>1
  <2>. QED
    BY <2>1, <2>2, <2>3 DEF Reserved, request
<1>15. ASSUME NEW b \in Actors PROVE ReadTrue(b)'
  <2>1. CASE b = a
    BY <1>1, <1>9, <2>1 DEF ReadTrue, OneCarrier
  <2>2. CASE b # a /\ settle[b].step = "off"
    BY <2>2 DEF BookInv, ReadTrue
  <2>3. CASE b # a /\ settle[b].step # "off"
    <3>1. settle'[b] = settle[b] /\ settle[b].row # r /\ settle[b].row \in Rows /\ ReadTrue(b)
      BY <1>8, <2>3 DEF BookInv, RunInv, StateInv, Settled
    <3>2. \A p \in Reqs : Carries(settle[b].row, p) => booked'[p] = booked[p]
      BY <1>9, <1>10, <3>1
    <3>3. \A x \in Rows : x = settle[b].row => SameMarks(x)
      BY <1>11, <3>1 DEF SameMarks
    <3>. QED
      BY <1>2, <3>1, <3>2, <3>3, ReadKept
  <2>. QED
    BY <2>1, <2>2, <2>3
<1>16. FoundTrue'
  <2>1. settle'[Reaper].step # "off"
              => settle[Reaper].step # "off" /\ settle'[Reaper].row = settle[Reaper].row
    BY Names
  <2>. QED
    BY <1>1, <2>1 DEF FoundTrue, Agrees
<1>. QED
  BY <1>5, <1>6, <1>7, <1>13, <1>14, <1>15, <1>16 DEF BookInv

(* Nobody else is settling the row, and its run has the estimate booked    *)
(* until its flag is up.                                                   *)
LEMMA SettlerAlone ==
    ASSUME RunInv, NEW a \in Actors, settle[a].step \in {"pay", "final"}
    PROVE  settle[a].row \in Rows /\ ~ Moved(settle[a].row)
<1>1. settle[a].row \in Rows
  BY DEF RunInv, StateInv, Settled
<1>. QED
  BY <1>1 DEF RunInv, ClaimInv, OneSettles, Engaged, Moved

LEMMA PayBooks ==
    ASSUME RunInv, BookInv, NEW a \in Actors, Pay(a)
    PROVE  BookInv'
<1>. DEFINE r == settle[a].row
            n == settle[a].prog.cost
<1>1. /\ Typed /\ settle[a].step = "pay" /\ ReadTrue(a) /\ r \in Rows /\ ~ Moved(r)
      /\ row[r].st # "none" /\ Dated /\ OneCarrier /\ RowsTell
  BY SettlerAlone DEF RunInv, StateInv, ClaimInv, Created, Pay, BookInv
<1>2. CASE settle[a].prog.flag
  <2>1. UNCHANGED books /\ settle' = [settle EXCEPT ![a] = Idle]
    BY <1>2 DEF Pay, AlreadySettled
  <2>. QED
    BY <2>1, PayNothing
<1>3. CASE ~ settle[a].prog.flag /\ row[r].created # day
  <2>1. UNCHANGED books /\ settle' = [settle EXCEPT ![a].step = "flag"]
    BY <1>3 DEF Pay, AlreadySettled
  <2>. QED
    BY <1>3, <2>1, PayNothing
<1>4. CASE ~ settle[a].prog.flag /\ row[r].created = day
  <2>1. /\ ledger' = Rebase(day, Estimate, n) /\ Book(r, n)
        /\ settle' = [settle EXCEPT ![a].step = "flag", ![a].to = n]
        /\ UNCHANGED bookedOn
    BY <1>4 DEF Pay, AlreadySettled
  <2>2. n \in Nat
    BY <1>1 DEF Typed, SettleType, Progress
  <2>3. PICK q \in Reqs : Carries(r, q)
    BY <1>1 DEF OneCarrier
  <2>4. \A p \in Reqs : Carries(r, p) <=> p = q
    BY <1>1, <2>3 DEF OneCarrier
  <2>5. Claimed(q) /\ at[q] = r
    BY <1>1, <2>3, CarriesClaimed
  <2>6. bookedOn[q] = day
    <3>1. day <= bookedOn[q] /\ bookedOn[q] <= day
      BY <1>1, <1>4, <2>5 DEF Dated
    <3>2. day \in Nat /\ bookedOn[q] \in Nat
      BY <1>1, Bounds DEF Typed, Days
    <3>. QED
      BY <3>1, <3>2
  <2>7. booked[q] = Estimate
    BY <1>1, <1>4, <2>3 DEF ReadTrue, Agrees, RowsTell, RowTells
  <2>8. booked' = [p \in Reqs |-> IF p = q THEN n ELSE booked[p]]
    BY <2>1, <2>4 DEF Book
  <2>9. UNCHANGED << day, row, pc, request, found >>
    BY DEF Pay, clock
  <2>10. /\ settle'[a].step = "flag" /\ settle'[a].row = r /\ settle'[a].to = n
         /\ \A b \in Actors \ {a} : settle'[b] = settle[b]
    BY <1>1, <2>1 DEF Typed, SettleType
  <2>11. Estimate \in Nat /\ ledger' = Rebase(bookedOn[q], Estimate, n) /\ bookedOn' = bookedOn
    BY <2>1, <2>6, Bounds
  <2>. HIDE DEF r, n
  <2>12. settle[a].row = r /\ settle[a].step # "off"
    BY <1>1 DEF r
  <2>. QED
    BY <1>1, <2>2, <2>3, <2>7, <2>8, <2>9, <2>10, <2>11, <2>12, SettlingMoves
<1>. QED
  BY <1>2, <1>3, <1>4

LEMMA PayFinalBooks ==
    ASSUME RunInv, BookInv, NEW q \in Reqs, PayFinal(q)
    PROVE  BookInv'
<1>. DEFINE r == settle[q].row
            from == FinalBase(settle[q].prog)
<1>1. /\ Typed /\ q \in Actors /\ settle[q].step = "final" /\ Reserved(q) /\ ReadTrue(q)
      /\ r \in Rows /\ ~ Moved(r) /\ OneCarrier /\ RowsTell
  BY Names, SettlerAlone DEF RunInv, StateInv, BookInv, PayFinal
<1>2. bucket[q] = bookedOn[q] /\ pc[q] = "saving" /\ r = at[q]
  BY <1>1 DEF Reserved, RunInv, ClaimInv, SettlesOwn
<1>3. Carries(r, q)
  BY <1>1, <1>2 DEF RunInv, ClaimInv, RunsRow, Working, Carries, Unclaimed
<1>4. settle[q].prog \in Progress /\ cost[q] \in Nat
  BY <1>1, Bounds DEF Typed, SettleType
<1>5. from \in Nat
  BY <1>4, Bounds DEF FinalBase, Progress
<1>6. from = booked[q] \/ Strayed(q)
  <2>1. RowTells(r, q) /\ Agrees(settle[q].prog, r)
    BY <1>1, <1>3 DEF RowsTell, ReadTrue
  <2>. QED
    BY <1>1, <2>1 DEF RowTells, Agrees, FinalBase
<1>7. /\ ledger' = Rebase(bookedOn[q], from, cost[q])
      /\ booked' = [p \in Reqs |-> IF p = q THEN cost[q] ELSE booked[p]]
      /\ bookedOn' = bookedOn
  BY <1>1, <1>2 DEF PayFinal, Typed
<1>8. UNCHANGED << day, row, pc, request, found >>
  BY DEF PayFinal, clock
<1>9. /\ settle'[q].step = "flag" /\ settle'[q].row = r /\ settle'[q].to = cost[q]
      /\ \A b \in Actors \ {q} : settle'[b] = settle[b]
  BY <1>1 DEF PayFinal, Typed, SettleType
<1>. HIDE DEF r, from
<1>10. settle[q].row = r /\ settle[q].step # "off"
  BY <1>1 DEF r
<1>. QED
  BY <1>1, <1>3, <1>4, <1>5, <1>6, <1>7, <1>8, <1>9, <1>10, SettlingMoves

LEMMA FlagWritten ==
    ASSUME RunInv, NEW a \in Actors, WriteFlag(a)
    PROVE  LET r == settle[a].row IN
           /\ \A x \in Rows : SameRow(x)
           /\ \A x \in Rows \ {r} : row'[x] = row[x]
           /\ row'[r].prog.flag
           /\ row'[r].prog.actual = IF settle[a].to = None THEN row[r].prog.actual
                                                           ELSE settle[a].to
<1>. DEFINE r == settle[a].row
            p == Flagged(row[r].prog, settle[a].to)
            new == [row[r] EXCEPT !.prog = p, !.fresh = TRUE]
<1>1. Typed /\ r \in Rows
  BY DEF RunInv, StateInv, Settled, WriteFlag
<1>2. row[r] \in RowType /\ row[r].prog \in Progress /\ settle[a].to \in Nat \cup {None}
  BY <1>1 DEF Typed, RowType, SettleType
<1>3. /\ p \in Progress /\ p.flag
      /\ p.actual = IF settle[a].to = None THEN row[r].prog.actual ELSE settle[a].to
  BY <1>2, ProgFields DEF Flagged, Progress
<1>4. row' = [row EXCEPT ![r] = new]
  BY <1>1 DEF WriteFlag, SetProg, Typed
<1>. HIDE DEF p
<1>5. /\ new \in RowType /\ new.gen = row[r].gen /\ new.created = row[r].created
      /\ new.st = row[r].st /\ new.prog = p
  BY <1>2, <1>3 DEF RowType
<1>. HIDE DEF new
<1>6. row'[r] = new /\ \A x \in Rows \ {r} : row'[x] = row[x]
  BY <1>1, <1>4, <1>5, RowWrite
<1>. QED
  BY <1>3, <1>5, <1>6 DEF SameRow

LEMMA FlagBooks ==
    ASSUME RunInv, BookInv, NEW a \in Actors, WriteFlag(a)
    PROVE  BookInv'
<1>5. PICK r, n : settle[a].row = r /\ settle[a].to = n
  OBVIOUS
<1>1. /\ Typed /\ settle[a].step = "flag" /\ ReadTrue(a) /\ r \in Rows
      /\ OneSettles /\ Dated /\ OneCarrier /\ RowsTell /\ Covers /\ Exactly /\ FoundTrue
  BY <1>5 DEF RunInv, StateInv, ClaimInv, Settled, WriteFlag, BookInv
<1>2. UNCHANGED << day, books, pc, request, found >>
  BY DEF WriteFlag, clock
<1>3. /\ \A x \in Rows : SameRow(x)
      /\ \A x \in Rows \ {r} : row'[x] = row[x]
      /\ row'[r].prog.flag
      /\ row'[r].prog.actual = IF n = None THEN row[r].prog.actual ELSE n
  BY <1>5, FlagWritten
<1>4. /\ settle'[a].step = "off" /\ settle'[a].to = None
      /\ \A b \in Actors \ {a} : settle'[b] = settle[b]
  BY <1>1 DEF WriteFlag, Typed, Idle
<1>6. ClaimsSame
  BY <1>2, <1>3, NobodyElse DEF ClaimsSame
<1>7. Dated'
  BY <1>1, <1>2, <1>6, DatedKept DEF books
<1>8. OneCarrier'
  BY <1>1, <1>6, OneCarrierKept
<1>9. Covers' /\ Exactly'
  BY <1>1, <1>2, <1>6, TotalsKept
<1>10. \A b \in Actors : b # a /\ settle[b].step # "off" => settle[b].row # r
  BY <1>1, <1>5 DEF OneSettles, Engaged
<1>11. /\ \A x \in Rows : x # r => SameMarks(x)
       /\ ~ Moved(r)'
  BY <1>3, <1>4, <1>5, <1>10 DEF SameMarks, Moved
<1>12. \A x \in Rows, p \in Reqs : /\ Carries(x, p)' <=> Carries(x, p)
                                   /\ Strayed(p)' <=> Strayed(p)
  BY <1>6, CarriersSame
<1>13. ASSUME NEW q \in Reqs, Carries(r, q) PROVE RowTells(r, q)'
  <2>1. RowTells(r, q) /\ booked'[q] = booked[q] /\ row'[r].gen = row[r].gen
    BY <1>1, <1>2, <1>3, <1>13 DEF RowsTell, books, SameRow
  <2>2. CASE n # None
    <3>1. booked[q] = n
      BY <1>1, <1>5, <1>13, <2>2 DEF ReadTrue
    <3>. QED
      BY <1>3, <2>1, <2>2, <3>1 DEF RowTells
  <2>3. CASE n = None
    <3>1. row[r].created < day /\ ~ row[r].prog.flag
      BY <1>1, <1>5, <2>3 DEF ReadTrue
    <3>2. ~ Moved(r)
      BY <1>5, <1>10, <2>3 DEF Moved
    <3>3. booked[q] = Estimate /\ (row[r].gen = 0 => row[r].prog.actual = None)
      BY <2>1, <3>1, <3>2 DEF RowTells
    <3>4. row'[r].prog.actual = row[r].prog.actual
      BY <1>3, <2>3
    <3>5. CASE row[r].gen = 0
      BY <1>3, <2>1, <3>3, <3>4, <3>5 DEF RowTells
    <3>6. CASE row[r].gen # 0
      <4>1. Claimed(q) /\ at[q] = r /\ seen[q].gen = row[r].gen /\ row[r].gen \in Nat
        BY <1>1, <1>13, CarriesClaimed, ClaimedRow
      <4>2. Strayed(q)'
        BY <1>1, <1>12, <3>1, <3>6, <4>1 DEF Strayed
      <4>. QED
        BY <1>3, <4>2 DEF RowTells
    <3>. QED
      BY <3>5, <3>6
  <2>. QED
    BY <2>2, <2>3
<1>14. RowsTell'
  <2>1. ASSUME NEW x \in Rows, NEW p \in Reqs, Carries(x, p)' PROVE RowTells(x, p)'
    <3>1. Carries(x, p) /\ RowTells(x, p)
      BY <1>1, <1>12, <2>1 DEF RowsTell
    <3>2. CASE x = r
      BY <1>13, <3>1, <3>2
    <3>3. CASE x # r
      BY <1>2, <1>3, <1>11, <1>12, <3>1, <3>3 DEF RowTells, SameRow, SameMarks, books
    <3>. QED
      BY <3>2, <3>3
  <2>2. ASSUME NEW x \in Rows, row'[x].st = "none"
        PROVE  ~ row'[x].prog.flag /\ row'[x].prog.actual = None
    <3>1. row[x].st = "none"
      BY <1>3, <2>2 DEF SameRow
    <3>2. row[r].st # "none"
      BY <1>1, <1>5 DEF RunInv, ClaimInv, Created
    <3>. QED
      BY <1>1, <1>3, <3>1, <3>2 DEF RowsTell
  <2>. QED
    BY <2>1, <2>2 DEF RowsTell
<1>15. ASSUME NEW p \in Reqs PROVE Reserved(p)'
  <2>1. Reserved(p) /\ p \in Actors
    BY Names DEF BookInv
  <2>2. settle'[p].step = "final" => settle[p] = settle'[p]
    BY <1>4, <2>1
  <2>. QED
    BY <1>2, <2>1, <2>2 DEF Reserved, request, books
<1>16. ASSUME NEW b \in Actors PROVE ReadTrue(b)'
  <2>1. CASE b = a
    BY <1>4, <2>1 DEF ReadTrue
  <2>2. CASE b # a /\ settle[b].step = "off"
    BY <1>4, <2>2 DEF BookInv, ReadTrue
  <2>3. CASE b # a /\ settle[b].step # "off"
    <3>1. settle'[b] = settle[b] /\ settle[b].row # r /\ ReadTrue(b)
      BY <1>4, <1>10, <2>3 DEF BookInv
    <3>. QED
      BY <1>2, <1>6, <1>11, <3>1, ReadKept DEF books
  <2>. QED
    BY <2>1, <2>2, <2>3
<1>17. FoundTrue'
  <2>1. \A e \in found : e.row # r
    <3>1. CASE a = Reaper
      BY <1>1, <1>5, <3>1 DEF FoundTrue
    <3>2. CASE a # Reaper
      BY <1>1, <1>5, <3>2, Names DEF OneSettles, Engaged
    <3>. QED
      BY <3>1, <3>2
  <2>2. settle'[Reaper].step # "off"
              => settle[Reaper].step # "off" /\ settle'[Reaper].row = settle[Reaper].row
    BY <1>4, Names
  <2>. QED
    BY <1>1, <1>2, <1>11, <2>1, <2>2, FoundKept
<1>. QED
  BY <1>7, <1>8, <1>9, <1>14, <1>15, <1>16, <1>17 DEF BookInv

-----------------------------------------------------------------------------
(* A reservation, before the request has a run.                            *)

LEMMA UnclaimedKeeps ==
    ASSUME RunInv, BookInv, NEW q \in Reqs, pc[q] \in Unclaimed,
           NEW to \in {"reserved", "refused"}, pc' = [pc EXCEPT ![q] = to],
           UNCHANGED << day, row, at, seen, bucket, settle, found >>,
           \A d \in Days : d > day => ledger'[d] = ledger[d],
           \A p \in Reqs \ {q} : booked'[p] = booked[p] /\ bookedOn'[p] = bookedOn[p],
           bookedOn'[q] = day, to = "reserved" => booked'[q] = Estimate,
           ClaimsSame => Covers' /\ Exactly'
    PROVE  BookInv'
<1>1. /\ Typed /\ Dated /\ OneCarrier /\ RowsTell /\ FoundTrue
      /\ settle[q].step = "off" /\ q \in Actors
  BY Names DEF RunInv, StateInv, ClaimInv, SettlesOwn, BookInv
<1>2. pc'[q] = to /\ \A p \in Reqs \ {q} : pc'[p] = pc[p]
  BY <1>1 DEF Typed
<1>3. ~ Claimed(q) /\ ~ Claimed(q)'
  BY <1>2 DEF Claimed, Unclaimed
<1>4. ClaimsSame
  <2>1. \A p \in Reqs : SameClaim(p)
    BY <1>2, <1>3 DEF SameClaim, Claimed
  <2>. QED
    BY <2>1, RowKept DEF ClaimsSame
<1>5. \A p \in Reqs : Claimed(p) => booked'[p] = booked[p]
  BY <1>3
<1>6. \A r \in Rows : SameMarks(r)
  BY DEF SameMarks, Moved
<1>7. Dated'
  <2>1. day \in Nat
    BY <1>1, Bounds DEF Typed, Days
  <2>2. \A p \in Reqs : bookedOn'[p] = bookedOn[p] \/ (~ Claimed(p) /\ bookedOn'[p] <= day)
    BY <1>3, <2>1
  <2>. QED
    BY <1>1, <1>4, <2>2, DatedKept
<1>8. OneCarrier'
  BY <1>1, <1>4, OneCarrierKept
<1>9. RowsTell'
  BY <1>1, <1>4, <1>5, <1>6, RowsTellKept
<1>10. FoundTrue'
  BY <1>1, <1>6, FoundKept
<1>11. ASSUME NEW p \in Reqs PROVE Reserved(p)'
  <2>1. CASE p = q
    BY <1>1, <1>2, <2>1 DEF Reserved
  <2>2. CASE p # q
    BY <1>2, <2>2, ReservedKept DEF BookInv
  <2>. QED
    BY <2>1, <2>2
<1>12. ASSUME NEW a \in Actors PROVE ReadTrue(a)'
  <2>1. \A p \in Reqs : Carries(settle[a].row, p) => booked'[p] = booked[p]
    BY <1>2, <1>3 DEF Carries
  <2>. QED
    BY <1>4, <1>6, <2>1, ReadKept DEF BookInv
<1>. QED
  BY <1>4, <1>7, <1>8, <1>9, <1>10, <1>11, <1>12 DEF BookInv

LEMMA ReserveBooks ==
    ASSUME RunInv, BookInv, NEW q \in Reqs, ReserveUsd(q), UnderDayCap
    PROVE  BookInv'
<1>0. PICK d1 \in Days : d1 = day
  BY DEF RunInv, StateInv, Typed
<1>1. /\ Typed /\ Reserved(q) /\ Covers /\ Exactly /\ pc[q] = "admitted"
      /\ pc' = [pc EXCEPT ![q] = "reserved"]
      /\ UNCHANGED << day, row, at, seen, bucket, settle, found >>
  BY DEF RunInv, StateInv, BookInv, ReserveUsd, clock, request
<1>2. /\ ledger' = [ledger EXCEPT ![day] = @ + Estimate]
      /\ booked' = [booked EXCEPT ![q] = Estimate]
      /\ bookedOn' = [bookedOn EXCEPT ![q] = day]
  BY DEF ReserveUsd
<1>3. /\ bookedOn[q] = 0 /\ 0 \notin Days /\ \A d \in Days : d \in Nat
      /\ Estimate \in Nat
  BY <1>1, Bounds DEF Reserved, Days
<1>4. /\ booked'[q] = Estimate /\ bookedOn'[q] = day
      /\ \A p \in Reqs \ {q} : booked'[p] = booked[p] /\ bookedOn'[p] = bookedOn[p]
      /\ \A p \in Reqs : booked[p] \in Nat
  BY <1>1, <1>2 DEF Typed
<1>5. /\ ledger'[d1] = ledger[d1] + Estimate /\ ledger[d1] \in Nat
      /\ \A d \in Days : d # d1 => ledger'[d] = ledger[d]
  BY <1>0, <1>1, <1>2 DEF Typed
<1>6. \A d \in Days : d # d1 => BookedOn(d)' = BookedOn(d) /\ Total(d)' = Total(d)
  <2>1. ASSUME NEW d \in Days, d # d1 PROVE BookedOn(d)' = BookedOn(d)
    BY <1>0, <1>3, <1>4, <2>1 DEF BookedOn
  <2>2. ASSUME NEW d \in Days, d # d1 PROVE Total(d)' = Total(d)
    <3>1. q \notin BookedOn(d)
      BY <1>3 DEF BookedOn
    <3>2. \A p \in BookedOn(d) : booked[p] \in Nat /\ booked'[p] = booked[p]
      BY <1>4, <3>1 DEF BookedOn
    <3>3. Sum(booked', BookedOn(d)) = Sum(booked, BookedOn(d))
      BY <3>2, BookedOnFinite, SumSame
    <3>. QED
      BY <2>1, <2>2, <3>3 DEF Total
  <2>. QED
    BY <2>1, <2>2
<1>7. /\ BookedOn(d1)' = BookedOn(d1) \cup {q} /\ q \notin BookedOn(d1)
      /\ Total(d1) \in Nat /\ Total(d1)' = Total(d1) + Estimate
  <2>1. BookedOn(d1)' = BookedOn(d1) \cup {q} /\ q \notin BookedOn(d1)
    BY <1>0, <1>3, <1>4 DEF BookedOn
  <2>2. /\ IsFiniteSet(BookedOn(d1))
        /\ \A p \in BookedOn(d1) : booked[p] \in Nat /\ booked'[p] = booked[p]
    BY <1>4, <2>1, BookedOnFinite DEF BookedOn
  <2>3. Sum(booked, BookedOn(d1)) \in Nat
    BY <2>2, SumNat
  <2>4. Sum(booked', BookedOn(d1)) = Sum(booked, BookedOn(d1))
    BY <2>2, SumSame
  <2>5. \A p \in BookedOn(d1) \cup {q} : booked'[p] \in Nat
    BY <1>3, <1>4, <2>2
  <2>6. Sum(booked', BookedOn(d1) \cup {q}) = Sum(booked', BookedOn(d1)) + booked'[q]
    BY <2>1, <2>2, <2>5, SumAdds
  <2>. QED
    BY <1>4, <2>1, <2>3, <2>4, <2>6 DEF Total
<1>8. ASSUME ClaimsSame PROVE Covers' /\ Exactly'
  <2>1. \A p \in Reqs : /\ Strayed(p)' <=> Strayed(p)
                        /\ Claimed(p)' <=> Claimed(p)
                        /\ Claimed(p) => row'[at'[p]].created = row[at[p]].created
    BY <1>8, ClaimedRow DEF ClaimsSame, SameClaim, SameRow, Strayed
  <2>2. Covers'
    <3>. SUFFICES ASSUME NEW d \in Days, \A p \in BookedOn(d)' : ~ Strayed(p)'
                  PROVE  ledger'[d] >= Total(d)'
      BY DEF Covers
    <3>1. \A p \in BookedOn(d) : ~ Strayed(p)
      BY <1>6, <1>7, <2>1 DEF BookedOn
    <3>2. ledger[d] >= Total(d)
      BY <1>1, <3>1 DEF Covers
    <3>3. CASE d = d1
      <4>1. ledger'[d1] >= Total(d1)'
        BY <1>3, <1>5, <1>7, <3>2, <3>3
      <4>. QED
        BY <3>3, <4>1
    <3>4. CASE d # d1
      BY <1>5, <1>6, <3>2, <3>4
    <3>. QED
      BY <3>3, <3>4
  <2>3. Exactly'
    <3>. SUFFICES ASSUME \A p \in BookedOn(d1)' : Claimed(p)' => row'[at'[p]].created = d1
                  PROVE  ledger'[d1] = Total(d1)'
      BY <1>0, <1>1 DEF Exactly
    <3>1. \A p \in BookedOn(d1) : Claimed(p) => row[at[p]].created = d1
      BY <1>7, <2>1 DEF BookedOn
    <3>2. ledger[d1] = Total(d1)
      BY <1>0, <1>1, <3>1 DEF Exactly
    <3>. QED
      BY <1>3, <1>5, <1>7, <3>2
  <2>. QED
    BY <2>2, <2>3
<1>9. \A d \in Days : d > day => ledger'[d] = ledger[d]
  BY <1>0, <1>3, <1>5
<1>10. pc[q] \in Unclaimed
  BY <1>1 DEF Unclaimed
<1>. QED
  BY <1>1, <1>4, <1>8, <1>9, <1>10, UnclaimedKeeps

LEMMA GiveBackBooks ==
    ASSUME RunInv, BookInv, NEW q \in Reqs, GiveBack(q)
    PROVE  BookInv'
<1>1. /\ Typed /\ Reserved(q) /\ Dated /\ Covers /\ Exactly /\ pc[q] = "reserved"
      /\ pc' = [pc EXCEPT ![q] = "refused"]
      /\ UNCHANGED << day, row, at, seen, bucket, settle, found >>
  BY DEF RunInv, StateInv, BookInv, GiveBack, Refuse, clock, request
<1>2. bookedOn[q] = day /\ booked[q] = Estimate /\ day \in Days
  BY <1>1 DEF Reserved, Typed
<1>3. /\ ledger' = Rebase(bookedOn[q], Estimate, 0) /\ bookedOn' = bookedOn
      /\ booked' = [p \in Reqs |-> IF p = q THEN 0 ELSE booked[p]]
  BY <1>1, <1>2 DEF GiveBack, Typed
<1>4. Estimate \in Nat /\ \A d \in Days : d \in Nat
  BY Bounds DEF Days
<1>5. ClaimsSame => Covers' /\ Exactly'
  BY <1>1, <1>2, <1>3, <1>4, BookingMoves
<1>6. \A d \in Days : d > day => ledger'[d] = ledger[d]
  <2>1. \A d \in Days : d > day => d # day
    BY <1>2, <1>4
  <2>. QED
    BY <1>1, <1>2, <1>3, <2>1 DEF Rebase, Typed
<1>7. pc[q] \in Unclaimed
  BY <1>1 DEF Unclaimed
<1>8. \A p \in Reqs \ {q} : booked'[p] = booked[p] /\ bookedOn'[p] = bookedOn[p]
  BY <1>3
<1>. QED
  BY <1>1, <1>2, <1>3, <1>5, <1>6, <1>7, <1>8, UnclaimedKeeps

-----------------------------------------------------------------------------
(* A row gets a run: a resume claims it, or it is created. The books are   *)
(* those of the run from now on.                                           *)

LEMMA TakesRow ==
    ASSUME RunInv, BookInv, NEW q \in Reqs, pc[q] = "reserved",
           pc' = [pc EXCEPT ![q] = "allocated"], UNCHANGED << day, books, bucket, settle, found >>,
           NEW r \in Rows, \A x \in Rows \ {r} : row'[x] = row[x],
           at'[q] = r, seen'[q].gen = row'[r].gen,
           \A p \in Reqs \ {q} : at'[p] = at[p] /\ seen'[p] = seen[p],
           \A p \in Reqs : Claimed(p) /\ at[p] = r =>
               /\ seen[p].gen < row'[r].gen /\ row'[r].created = row[r].created,
           row'[r].gen \in Nat, row'[r].created \in Nat,
           row'[r].st # "none", row'[r].created # 0, row'[r].created <= day,
           row'[r].gen = 0 => row'[r].created = day,
           ~ row'[r].prog.flag, row'[r].gen = 0 => row'[r].prog.actual = None,
           \A a \in Actors : settle[a].step # "off" => settle[a].row # r,
           \A e \in found : e.row # r
    PROVE  BookInv'
<1>1. /\ Typed /\ Dated /\ OneCarrier /\ RowsTell /\ FoundTrue /\ Covers /\ Exactly
      /\ settle[q].step = "off" /\ q \in Actors /\ Reserved(q)
  BY Names DEF RunInv, StateInv, ClaimInv, SettlesOwn, BookInv, Unclaimed
<1>2. pc'[q] = "allocated" /\ \A p \in Reqs \ {q} : pc'[p] = pc[p]
  BY <1>1 DEF Typed
<1>3. /\ ~ Claimed(q) /\ Claimed(q)'
      /\ \A p \in Reqs \ {q} : Claimed(p)' <=> Claimed(p)
  BY <1>2, Names DEF Claimed, Unclaimed
<1>4. ASSUME NEW p \in Reqs, Claimed(p)
      PROVE  /\ p # q /\ at[p] \in Rows /\ at'[p] = at[p] /\ seen'[p] = seen[p]
             /\ row'[at[p]].created = row[at[p]].created
             /\ seen[p].gen <= row'[at[p]].gen
             /\ at[p] = r => seen[p].gen # row'[r].gen
  <2>1. p # q /\ at[p] \in Rows /\ seen[p].gen \in Nat /\ row[at[p]].gen \in Nat
    BY <1>3, <1>4, ClaimedRow
  <2>2. CASE at[p] = r
    BY <1>4, <2>1, <2>2
  <2>3. CASE at[p] # r
    BY <1>1, <1>4, <2>1, <2>3 DEF OneCarrier
  <2>. QED
    BY <2>2, <2>3
<1>5. \A x \in Rows, p \in Reqs :
        /\ Carries(x, p)' => (x = r /\ p = q) \/ (x # r /\ p # q /\ Carries(x, p))
        /\ x # r /\ Carries(x, p) => Carries(x, p)'
  <2>1. ASSUME NEW x \in Rows, NEW p \in Reqs
        PROVE  Carries(x, p)' <=> Claimed(p)' /\ at'[p] = x /\ seen'[p].gen = row'[x].gen
    BY Names DEF Carries, Claimed
  <2>. QED
    BY <1>3, <1>4, <2>1, CarriesClaimed
<1>6. Carries(r, q)'
  BY <1>2 DEF Carries, Unclaimed
<1>7. \A p \in Reqs : Strayed(p) => Strayed(p)'
  BY <1>3, <1>4 DEF Strayed
<1>8. \A x \in Rows : (Moved(x)' <=> Moved(x)) /\ ~ Moved(r)'
  BY DEF Moved
<1>9. bookedOn'[q] = day /\ booked'[q] = Estimate /\ day \in Nat /\ row'[r].created \in Nat
  BY <1>1, Bounds DEF Reserved, books, Typed, Days
<1>10. Dated'
  <2>1. \A x \in Rows : row'[x].created <= day /\ (row'[x].created = 0 <=> row'[x].st = "none")
    BY <1>1 DEF Dated
  <2>2. ASSUME NEW p \in Reqs, Claimed(p)'
        PROVE  /\ row'[at'[p]].created <= bookedOn'[p]
               /\ seen'[p].gen = 0 => bookedOn'[p] = row'[at'[p]].created
    <3>1. CASE p = q
      BY <1>9, <3>1
    <3>2. CASE p # q
      BY <1>1, <1>3, <1>4, <2>2, <3>2 DEF Dated, books
    <3>. QED
      BY <3>1, <3>2
  <2>. QED
    BY <1>1, <2>1, <2>2 DEF Dated, books
<1>11. OneCarrier'
  <2>1. \A x \in Rows : row'[x].st # "none" => \E p \in Reqs : Carries(x, p)'
    BY <1>1, <1>5, <1>6 DEF OneCarrier
  <2>2. \A x \in Rows : \A o, p \in Reqs : Carries(x, o)' /\ Carries(x, p)' => o = p
    BY <1>1, <1>5 DEF OneCarrier
  <2>3. ASSUME NEW p \in Reqs, Claimed(p)' PROVE seen'[p].gen <= row'[at'[p]].gen
    BY <1>3, <1>4, <2>3
  <2>. QED
    BY <2>1, <2>2, <2>3 DEF OneCarrier
<1>12. RowsTell'
  <2>1. ASSUME NEW x \in Rows, NEW p \in Reqs, Carries(x, p)' PROVE RowTells(x, p)'
    <3>1. CASE x = r
      BY <1>5, <1>8, <1>9, <2>1, <3>1 DEF RowTells
    <3>2. CASE x # r
      <4>1. Carries(x, p) /\ RowTells(x, p) /\ booked'[p] = booked[p] /\ row'[x] = row[x]
        BY <1>1, <1>5, <2>1, <3>2 DEF RowsTell, books
      <4>. QED
        BY <1>7, <1>8, <4>1 DEF RowTells
    <3>. QED
      BY <3>1, <3>2
  <2>. QED
    BY <1>1, <2>1 DEF RowsTell
<1>13. FoundTrue'
  <2>1. \A e \in found : e.row \in Rows \ {r}
    BY <1>1 DEF Typed, FoundType
  <2>2. \A e \in found : row'[e.row] = row[e.row]
    BY <2>1
  <2>. QED
    BY <1>1, <2>2 DEF FoundTrue, Agrees
<1>14. ASSUME NEW p \in Reqs PROVE Reserved(p)'
  <2>1. CASE p = q
    BY <1>1, <1>2, <1>9, <2>1 DEF Reserved
  <2>2. CASE p # q
    BY <1>2, <2>2, ReservedKept DEF BookInv, books
  <2>. QED
    BY <2>1, <2>2
<1>15. ASSUME NEW a \in Actors PROVE ReadTrue(a)'
  <2>1. CASE settle[a].step = "off"
    BY <2>1 DEF BookInv, ReadTrue
  <2>2. CASE settle[a].step # "off"
    <3>1. settle[a].row \in Rows \ {r} /\ ReadTrue(a)
      BY <2>2 DEF RunInv, StateInv, Settled, BookInv
    <3>2. row'[settle[a].row] = row[settle[a].row]
      BY <3>1
    <3>3. \A p \in Reqs : Carries(settle[a].row, p)' => Carries(settle[a].row, p)
      BY <1>5, <3>1
    <3>. QED
      BY <3>1, <3>2, <3>3 DEF ReadTrue, Agrees, books
  <2>. QED
    BY <2>1, <2>2
<1>16. \A d : BookedOn(d)' = BookedOn(d) /\ Total(d)' = Total(d)
  BY DEF books, BookedOn, Total
<1>17. Covers'
  BY <1>1, <1>7, <1>16 DEF Covers, BookedOn, books
<1>18. Exactly'
  <2>1. \A p \in Reqs : Claimed(p) => Claimed(p)' /\ row'[at'[p]].created = row[at[p]].created
    BY <1>3, <1>4
  <2>. QED
    BY <1>1, <1>16, <2>1 DEF Exactly, BookedOn, books
<1>. QED
  BY <1>10, <1>11, <1>12, <1>13, <1>14, <1>15, <1>17, <1>18 DEF BookInv

LEMMA ClaimWrites ==
    ASSUME StateInv, NEW q \in Reqs, ClaimResume(q)
    PROVE  /\ row'[at[q]].created = row[at[q]].created
           /\ ~ row'[at[q]].prog.flag
<1>. DEFINE r == at[q]
            prog == [row[r].prog EXCEPT !.flag = FALSE]
            gen == row[r].gen + 1
            new == [row[r] EXCEPT !.st = "running", !.gen = gen, !.fresh = TRUE,
                                  !.whole = FALSE, !.prog = prog]
<1>1. Typed /\ r \in Rows
  BY ClaimRow DEF StateInv
<1>2. row[r] \in RowType /\ row[r].prog \in Progress
  BY <1>1 DEF Typed, RowType
<1>3. ~ prog.flag
  BY <1>2 DEF Progress
<1>4. row' = [row EXCEPT ![r] = new]
  BY DEF ClaimResume
<1>. HIDE DEF prog, gen
<1>5. new.created = row[r].created /\ new.prog = prog
  BY <1>2 DEF RowType
<1>6. row'[r] = new
  BY <1>1, <1>4 DEF Typed
<1>. QED
  BY <1>3, <1>5, <1>6

LEMMA ClaimBooks ==
    ASSUME ~ SettleRaces, RunInv, BookInv, NEW q \in Reqs, ClaimResume(q)
    PROVE  BookInv'
<1>0. PICK r : r = at[q]
  OBVIOUS
<1>1. /\ StateInv /\ Typed /\ Dated /\ OneCarrier /\ Created /\ pc[q] = "reserved"
      /\ settle[q].step = "off" /\ q \in Actors
  BY Names DEF RunInv, StateInv, ClaimInv, SettlesOwn, BookInv, Unclaimed, ClaimResume
<1>2. /\ pc' = [pc EXCEPT ![q] = "allocated"] /\ at' = at
      /\ UNCHANGED << day, books, bucket, settle, found >>
  BY DEF ClaimResume, clock
<1>3. /\ r \in Rows /\ \A x \in Rows \ {r} : row'[x] = row[x]
      /\ row'[r].st = "running" /\ row'[r].gen = row[r].gen + 1
      /\ seen'[q].gen = row[r].gen + 1
      /\ \A p \in Reqs \ {q} : seen'[p] = seen[p]
      /\ row'[r].created = row[r].created /\ ~ row'[r].prog.flag
  BY <1>0, <1>1, ClaimRow, ClaimWrites
<1>4. row[r].gen \in Nat /\ row[r].created \in Nat /\ row'[r].gen \in Nat /\ row'[r].gen # 0
  <2>1. row[r].gen \in Nat /\ row[r].created \in Nat
    BY <1>1, <1>3 DEF Typed, RowType
  <2>. QED
    BY <1>3, <2>1
<1>5. row[r].st # "none" /\ row[r].created # 0 /\ row[r].created <= day
  BY <1>0, <1>1, <1>3, Names DEF Created, Dated
<1>6. ASSUME NEW p \in Reqs, Claimed(p), at[p] = r PROVE seen[p].gen < row'[r].gen
  <2>1. seen[p].gen <= row[r].gen /\ seen[p].gen \in Nat
    BY <1>1, <1>6, ClaimedRow DEF OneCarrier
  <2>. QED
    BY <1>3, <1>4, <2>1
<1>7. \A b \in Actors \ {q} : ~ Engaged(b, r)
  BY <1>0 DEF ClaimResume, Free
<1>8. /\ \A a \in Actors : settle[a].step # "off" => settle[a].row # r
      /\ \A e \in found : e.row # r
  BY <1>1, <1>7, Names DEF Engaged
<1>. QED
  BY <1>0, <1>1, <1>2, <1>3, <1>4, <1>5, <1>6, <1>8, TakesRow

LEMMA CreateBooks ==
    ASSUME RunInv, BookInv, NEW q \in Reqs, CreateRun(q)
    PROVE  BookInv'
<1>1. /\ StateInv /\ Typed /\ Created /\ RowsTell /\ Dated
      /\ pc[q] = "reserved" /\ at[q] = None
  BY DEF RunInv, StateInv, ClaimInv, BookInv, CreateRun
<1>2. /\ pc' = [pc EXCEPT ![q] = "allocated"] /\ seen' = seen
      /\ UNCHANGED << day, books, bucket, settle, found >>
  BY DEF CreateRun, clock
<1>3. PICK r \in Rows : /\ row[r].st = "none"
                        /\ row' = [row EXCEPT ![r] = [@ EXCEPT !.st = "running", !.fresh = TRUE,
                                                               !.created = day]]
                        /\ at' = [at EXCEPT ![q] = r]
  BY DEF CreateRun
<1>. DEFINE new == [row[r] EXCEPT !.st = "running", !.fresh = TRUE, !.created = day]
<1>4. row[r] \in RowType
  BY <1>1, <1>3 DEF Typed
<1>5. /\ new.st = "running" /\ new.created = day /\ new.gen = row[r].gen
      /\ new.prog = row[r].prog
  BY <1>4 DEF RowType
<1>6. row' = [row EXCEPT ![r] = new]
  BY <1>3
<1>. HIDE DEF new
<1>7. /\ row'[r] = new /\ \A x \in Rows \ {r} : row'[x] = row[x]
      /\ at'[q] = r /\ \A p \in Reqs \ {q} : at'[p] = at[p]
  BY <1>1, <1>3, <1>6 DEF Typed
<1>8. row[r].gen = 0 /\ seen[q].gen = 0 /\ ~ row[r].prog.flag /\ row[r].prog.actual = None
  BY <1>1, <1>3 DEF Created, RowsTell, Unclaimed
<1>9. day \in Nat /\ day # 0
  BY <1>1, Bounds DEF Typed, Days
<1>10. \A p \in Reqs : at[p] # r
  BY <1>1, <1>3, Names DEF Created
<1>11. /\ \A a \in Actors : settle[a].step # "off" => settle[a].row # r
       /\ \A e \in found : e.row # r
  BY <1>1, <1>3 DEF Created
<1>12. /\ row'[r].gen = 0 /\ row'[r].created = day /\ row'[r].st # "none"
       /\ ~ row'[r].prog.flag /\ row'[r].prog.actual = None
  BY <1>5, <1>7, <1>8
<1>13. /\ seen'[q].gen = row'[r].gen /\ row'[r].gen \in Nat
       /\ \A p \in Reqs \ {q} : at'[p] = at[p] /\ seen'[p] = seen[p]
       /\ row'[r].created \in Nat /\ row'[r].created # 0 /\ row'[r].created <= day
  BY <1>2, <1>7, <1>8, <1>9, <1>12
<1>. QED
  BY <1>1, <1>2, <1>7, <1>10, <1>11, <1>12, <1>13, TakesRow

(* A day begins with nothing on its ledger and nothing booked on it. *)
LEMMA NewDayBooks ==
    ASSUME RunInv, BookInv, NewDay
    PROVE  BookInv'
<1>0. PICK d1 : d1 = day + 1
  OBVIOUS
<1>1. /\ Typed /\ Dated /\ OneCarrier /\ RowsTell /\ FoundTrue /\ Covers
      /\ day' = d1 /\ UNCHANGED << books, row, pc, request, settle, found >>
      /\ \A q \in Reqs : pc[q] \notin {"reserved", "allocated", "started"}
      /\ \A a \in Actors : settle[a].step \notin {"pay", "flag"}
  BY <1>0 DEF RunInv, StateInv, BookInv, NewDay
<1>2. day \in Nat /\ d1 \in Days /\ d1 \in Nat /\ d1 > day /\ \A d \in Days : d \in Nat
  BY <1>0, <1>1, Bounds DEF Typed, Days, NewDay
<1>3. UNCHANGED << ledger, booked, bookedOn, at, seen, bucket >>
  BY <1>1 DEF books, request
<1>4. /\ \A q \in Reqs : Claimed(q)' <=> Claimed(q)
      /\ \A x \in Rows, q \in Reqs : Carries(x, q)' <=> Carries(x, q)
      /\ \A x \in Rows : Moved(x)' <=> Moved(x)
  BY <1>1, <1>3 DEF Claimed, Carries, Moved
<1>5. ASSUME NEW q \in Reqs, Strayed(q) PROVE Strayed(q)'
  <2>1. row[at[q]].created \in Nat /\ row[at[q]].created < day
    BY <1>5, ClaimedRow DEF Strayed
  <2>2. row'[at'[q]].created < d1
    BY <1>1, <1>2, <1>3, <2>1
  <2>. QED
    BY <1>1, <1>3, <1>4, <1>5, <2>2 DEF Strayed
<1>6. Dated'
  <2>1. \A r \in Rows : row[r].created \in Nat
    BY <1>1, Bounds DEF Typed, RowType
  <2>2. \A q \in Reqs : bookedOn[q] \in Nat
    BY <1>1, Bounds DEF Typed
  <2>3. \A r \in Rows : row'[r].created <= d1 /\ (row'[r].created = 0 <=> row'[r].st = "none")
    BY <1>1, <1>2, <2>1 DEF Dated
  <2>4. \A d \in Days : d > d1 => ledger'[d] = 0
    BY <1>1, <1>2, <1>3 DEF Dated
  <2>5. \A q \in Reqs : bookedOn'[q] <= d1
    BY <1>1, <1>2, <1>3, <2>2 DEF Dated
  <2>6. \A q \in Reqs : Claimed(q)' => /\ row'[at'[q]].created <= bookedOn'[q]
                                       /\ seen'[q].gen = 0 => bookedOn'[q] = row'[at'[q]].created
    BY <1>1, <1>3, <1>4 DEF Dated
  <2>. QED
    BY <1>1, <2>3, <2>4, <2>5, <2>6 DEF Dated
<1>7. OneCarrier'
  BY <1>1, <1>3, <1>4 DEF OneCarrier
<1>8. RowsTell'
  <2>1. ASSUME NEW r \in Rows, NEW q \in Reqs, Carries(r, q)' PROVE RowTells(r, q)'
    <3>1. RowTells(r, q)
      BY <1>1, <1>4, <2>1 DEF RowsTell
    <3>. QED
      BY <1>1, <1>3, <1>4, <1>5, <3>1 DEF RowTells
  <2>. QED
    BY <1>1, <2>1 DEF RowsTell
<1>9. FoundTrue'
  BY <1>1 DEF FoundTrue, Agrees
<1>10. \A q \in Reqs : Reserved(q)'
  BY <1>1, <1>3 DEF BookInv, Reserved
<1>11. \A a \in Actors : ReadTrue(a)'
  BY <1>1 DEF BookInv, ReadTrue, Agrees
<1>12. \A d : BookedOn(d)' = BookedOn(d) /\ Total(d)' = Total(d)
  BY <1>3 DEF BookedOn, Total
<1>13. Covers'
  BY <1>1, <1>3, <1>5, <1>12 DEF Covers, BookedOn
<1>14. Exactly'
  <2>1. \A q \in Reqs : bookedOn[q] \in Nat /\ bookedOn[q] <= day
    BY <1>1, Bounds DEF Typed, Dated
  <2>2. BookedOn(d1) = {}
    BY <1>2, <2>1 DEF BookedOn
  <2>3. Total(d1) = 0
    BY <2>2, BookedOnFinite, SumNat DEF Total
  <2>4. ledger'[d1] = 0
    BY <1>1, <1>2, <1>3 DEF Dated
  <2>. QED
    BY <1>1, <1>12, <2>3, <2>4 DEF Exactly
<1>. QED
  BY <1>6, <1>7, <1>8, <1>9, <1>10, <1>11, <1>13, <1>14 DEF BookInv

-----------------------------------------------------------------------------
LEMMA BookStep ==
    ASSUME ~ SettleRaces, RunInv, BookInv, [Next]_vars
    PROVE  BookInv'
<1>1. ASSUME NEW q \in Reqs, Arrive(q) \/ Handling(q) PROVE BookInv'
  BY <1>1, RequestBooks, ReserveBooks, ClaimBooks, CreateBooks, GiveBackBooks, EndingBooks
     DEF Handling
<1>2. ASSUME NEW q \in Reqs, Pipeline(q) \/ PayFinal(q) \/ Ending(q) PROVE BookInv'
  BY <1>2, PipelineBooks, EndingBooks, PayFinalBooks, RequestBooks DEF Pipeline
<1>3. ASSUME NEW a \in Actors, Settling(a) PROVE BookInv'
  BY <1>3, MarkBooks, ReadBooks, PayBooks, FlagBooks DEF Settling
<1>4. CASE ReapTick \/ ReapAll \/ ReapRow
  BY <1>4, ReapBooks
<1>5. CASE ShutdownBegin \/ \E r \in Rows : StopRun(r) \/ Cancel(r)
  BY <1>5, StopBooks
<1>6. CASE Crash \/ Exit
  BY <1>6, EndsBooks
<1>7. CASE NewDay \/ \E r \in Rows : Lapse(r)
  BY <1>7, NewDayBooks, LapseBooks
<1>8. CASE UNCHANGED vars
  <2>1. /\ UNCHANGED << day, books, row, pc, request, settle, found, bucket >>
        /\ Stopper \in Actors /\ Stopper \notin Reqs /\ Stopper # Reaper
    BY <1>8, Names DEF vars, clock, request
  <2>. QED
    BY <2>1, RowKept, NobodyElse, OneActs
<1>. QED
  BY <1>1, <1>2, <1>3, <1>4, <1>5, <1>6, <1>7, <1>8 DEF Next

LEMMA BookInit == Init => BookInv
<1>. SUFFICES ASSUME Init PROVE BookInv
  OBVIOUS
<1>1. /\ \A q \in Reqs : pc[q] = "idle" /\ bookedOn[q] = 0 /\ ~ Claimed(q)
      /\ \A a \in Actors : settle[a].step = "off" /\ settle[a].to = None
      /\ \A r \in Rows : row[r].st = "none" /\ row[r].created = 0 /\ row[r].gen = 0
                         /\ ~ row[r].prog.flag /\ row[r].prog.actual = None
      /\ day = 1 /\ found = {}
  BY DEF Init, Idle, NoProgress, Claimed
<1>2. \A d \in Days : ledger[d] = 0 /\ d \in Nat /\ d # 0
  BY Bounds DEF Init, Days
<1>3. Dated
  BY <1>1, <1>2 DEF Dated
<1>4. \A r \in Rows, q \in Reqs : ~ Carries(r, q)
  BY <1>1 DEF Carries, Unclaimed
<1>5. OneCarrier /\ RowsTell
  BY <1>1, <1>4 DEF OneCarrier, RowsTell
<1>6. FoundTrue /\ \A a \in Actors : ReadTrue(a)
  BY <1>1 DEF FoundTrue, ReadTrue
<1>7. \A q \in Reqs : Reserved(q)
  BY <1>1, Names DEF Reserved
<1>8. ASSUME NEW d \in Days PROVE ledger[d] = 0 /\ Total(d) = 0
  <2>1. BookedOn(d) = {}
    BY <1>1, <1>2 DEF BookedOn
  <2>2. Total(d) = 0
    BY <2>1, BookedOnFinite, SumNat DEF Total
  <2>. QED
    BY <1>2, <2>2
<1>9. Covers /\ Exactly
  <2>1. day \in Days
    BY <1>1, Bounds DEF Days
  <2>. QED
    BY <1>8, <2>1 DEF Covers, Exactly
<1>. QED
  BY <1>3, <1>5, <1>6, <1>7, <1>9 DEF BookInv

LEMMA TotalIsSum ==
    ASSUME NEW d
    PROVE  Total(d) = MapThenSumSet(LAMBDA q : booked[q], BookedOn(d))
BY DEF Total, Sum

(* A stray run is one resumed after the day its row was created; and a run *)
(* that is claimed has a row that exists.                                  *)
LEMMA BooksMean ==
    ASSUME RunInv, BookInv
    PROVE  NeverUnderBooked /\ BooksExact
<1>1. NeverUnderBooked
  <2>. SUFFICES ASSUME NEW d \in Days, \A q \in BookedOn(d) : ~ ResumedOverMidnight(q)
                PROVE  ledger[d] >= MapThenSumSet(LAMBDA q : booked[q], BookedOn(d))
    BY DEF NeverUnderBooked
  <2>1. \A q \in BookedOn(d) : ~ Strayed(q)
    BY DEF Strayed, Claimed, ResumedOverMidnight
  <2>2. ledger[d] >= Total(d)
    BY <2>1 DEF BookInv, Covers
  <2>. QED
    BY <2>2, TotalIsSum
<1>2. BooksExact
  <2>. SUFFICES ASSUME \A q \in BookedOn(day) : at[q] = None \/ row[at[q]].created \in {0, day}
                PROVE  ledger[day] = MapThenSumSet(LAMBDA q : booked[q], BookedOn(day))
    BY DEF BooksExact
  <2>1. ASSUME NEW q \in BookedOn(day), Claimed(q) PROVE row[at[q]].created = day
    <3>1. q \in Reqs /\ at[q] # None
      BY <2>1 DEF BookedOn, Claimed
    <3>2. at[q] \in Rows /\ row[at[q]].created # 0
      BY <2>1, <3>1, ClaimedRow DEF BookInv, Dated
    <3>. QED
      BY <3>1, <3>2
  <2>2. ledger[day] = Total(day)
    BY <2>1 DEF BookInv, Exactly
  <2>. QED
    BY <2>2, TotalIsSum
<1>. QED
  BY <1>1, <1>2

LEMMA BooksInduct == ~ SettleRaces /\ RunInv /\ BookInv /\ [Next]_vars => RunInv' /\ BookInv'
BY RunStep, BookStep

(* The ledger of a day (silk_usage's paid_usd) covers what its runs have   *)
(* on it, from try_reserve_usd on, whoever settles them and on whatever    *)
(* day: the wrapper, the pipeline, the reaper or shutdown(), each by       *)
(* reconcile_failed_run_usd or reconcile_run_usd_final. A run resumed      *)
(* after the day its row was created is the one way to lose an amount.     *)
THEOREM BooksCover == ASSUME ~ SettleRaces PROVE Spec => []NeverUnderBooked
<1>1. RunInv /\ BookInv => NeverUnderBooked
  BY BooksMean
<1>2. RunInv /\ BookInv /\ [Next]_vars => RunInv' /\ BookInv'
  BY BooksInduct
<1>. QED
  BY <1>1, <1>2, RunInit, BookInit, PTL DEF Spec

(* And on the day itself, when its runs all began on it, the ledger is no  *)
(* more than what its runs have booked either: no settling takes off more  *)
(* or less than it says, and nothing is given back twice.                  *)
THEOREM BooksAreExact == ASSUME ~ SettleRaces PROVE Spec => []BooksExact
<1>1. RunInv /\ BookInv => BooksExact
  BY BooksMean
<1>2. RunInv /\ BookInv /\ [Next]_vars => RunInv' /\ BookInv'
  BY BooksInduct
<1>. QED
  BY <1>1, <1>2, RunInit, BookInit, PTL DEF Spec

=============================================================================
