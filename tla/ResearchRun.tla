------------------------------ MODULE ResearchRun ------------------------------
(***************************************************************************)
(* The deep-research runs of the root API: admission into a bounded number *)
(* of slots, the dollar reservation on the ledger of the day, the row that *)
(* a run creates or resumes, the pipeline thread and its ending, the       *)
(* reaper of orphaned rows, and the stop of the process.                   *)
(*                                                                         *)
(*   day, ledger   silk_usage: today, and paid_usd per day                 *)
(*   row           table analyses: status, resume_generation, whether the  *)
(*                 heartbeat is inside the stale window, the day created,  *)
(*                 and of progress_json what settling reads: the flag      *)
(*                 usd_reconciled, usd_reconciled_actual, the cost so far  *)
(*   pc, at, seen  a request: where it is, its row, what it read of it     *)
(*   bucket        the day its pipeline captured (_reserve_day)            *)
(*   cost          the run's spending, as its token counters give it       *)
(*   permits, handle, cancel   the slots, registry and cancel events of    *)
(*                 silk_research_runtime, in the memory of the process     *)
(*   settle        what each actor is doing to the books of one row        *)
(*   found         rows the reaper has read and not yet dealt with         *)
(*   toStop, stopping   the handles shutdown() has still to stamp          *)
(*   booked, bookedOn   history: what a request has on the ledger, and     *)
(*                 the day it reserved it                                  *)
(***************************************************************************)
EXTENDS Naturals, FiniteSets, FiniteSetsExt

CONSTANTS
    Reqs,          \* requests to /research, each with one reservation
    Rows,          \* identities of analyses rows
    None,
    Cap,           \* SILK_MAX_CONCURRENT_RESEARCH
    Estimate,      \* expected_run_usd(), in units of spending
    DayCap,        \* SILK_PAID_DAILY_USD_CAP
    MaxCost,       \* bound: what one run spends
    MaxDay,        \* bound: the clock stops after this day
    MaxCrash,      \* bound: ends of the process, by crash or stop
    LongSilence,   \* a live pipeline may be silent past the stale window
    SettleRaces    \* settlings of one row may overlap, or be cut by a crash

Reaper == "reaper"
Stopper == "shutdown"
Actors == Reqs \cup {Reaper, Stopper}
Days == 1..MaxDay

ASSUME ResearchAssumption ==
    /\ None \notin Reqs \cup Rows \cup Nat
    /\ {Reaper, Stopper} \cap Reqs = {}
    /\ IsFiniteSet(Reqs)
    /\ {Cap, Estimate, MaxDay} \subseteq Nat \ {0}
    /\ {DayCap, MaxCost, MaxCrash} \subseteq Nat
    /\ {LongSilence, SettleRaces} \subseteq BOOLEAN

VARIABLES day, ledger, row, pc, at, seen, bucket, cost, permits, handle,
          cancel, settle, found, toStop, stopping, crashes, booked, bookedOn

clock    == << day, crashes >>
books    == << ledger, booked, bookedOn >>
request  == << at, seen, bucket, cost >>
registry == << permits, handle, cancel >>
stop     == << toStop, stopping >>
vars == << clock, books, row, pc, request, registry, settle, found, stop >>

Progress == [flag : BOOLEAN, actual : Nat \cup {None}, cost : Nat]
NoProgress == [flag |-> FALSE, actual |-> None, cost |-> 0]
Idle == [step |-> "off", row |-> None, prog |-> NoProgress, to |-> None]

TypeOK ==
    /\ day \in Days
    /\ ledger \in [Days -> Nat]
    /\ row \in [Rows -> [st : {"none", "running", "failed", "completed"},
                         gen : Nat, fresh : BOOLEAN, whole : BOOLEAN,
                         created : 0..MaxDay, prog : Progress]]
    /\ pc \in [Reqs -> {"idle", "checked", "admitted", "reserved", "allocated",
                        "started", "running", "saving", "closing", "unstarted",
                        "ended", "refused", "dead"}]
    /\ at \in [Reqs -> Rows \cup {None}]
    /\ seen \in [Reqs -> [st : {"none", "running", "failed", "completed"}, gen : Nat]]
    /\ bucket \in [Reqs -> 0..MaxDay]
    /\ cost \in [Reqs -> 0..MaxCost]
    /\ permits \in 0..Cap
    /\ handle \in [Rows -> Reqs \cup {None}]
    /\ cancel \in [Reqs -> BOOLEAN]
    /\ settle \in [Actors -> [step : {"off", "mark", "read", "pay", "final", "flag"},
                              row : Rows \cup {None}, prog : Progress,
                              to : Nat \cup {None}]]
    /\ found \subseteq [row : Rows, orphan : BOOLEAN, prog : Progress]
    /\ toStop \subseteq Rows
    /\ stopping \in BOOLEAN
    /\ crashes \in 0..MaxCrash
    /\ booked \in [Reqs -> Nat]
    /\ bookedOn \in [Reqs -> 0..MaxDay]

Init ==
    /\ day = 1
    /\ ledger = [d \in Days |-> 0]
    /\ row = [r \in Rows |-> [st |-> "none", gen |-> 0, fresh |-> FALSE,
                              whole |-> FALSE, created |-> 0, prog |-> NoProgress]]
    /\ pc = [q \in Reqs |-> "idle"]
    /\ at = [q \in Reqs |-> None]
    /\ seen = [q \in Reqs |-> [st |-> "none", gen |-> 0]]
    /\ bucket = [q \in Reqs |-> 0]
    /\ cost = [q \in Reqs |-> 0]
    /\ permits = Cap
    /\ handle = [r \in Rows |-> None]
    /\ cancel = [q \in Reqs |-> FALSE]
    /\ settle = [a \in Actors |-> Idle]
    /\ found = {}
    /\ toStop = {}
    /\ stopping = FALSE
    /\ crashes = 0
    /\ booked = [q \in Reqs |-> 0]
    /\ bookedOn = [q \in Reqs |-> 0]

-----------------------------------------------------------------------------
(* Helpers.                                                                *)

(* reconcile_usd: the difference on one day's bucket, floored at zero.     *)
Rebase(d, from, to) ==
    [ledger EXCEPT ![d] = IF @ + to >= from THEN @ + to - from ELSE 0]

(* Requests that have no row of their own yet. *)
Unclaimed == {"idle", "checked", "admitted", "reserved"}

(* The request whose run a row is carrying: the last to create or claim it. *)
Carries(r, q) ==
    /\ at[q] = r
    /\ pc[q] \notin Unclaimed \cup {"refused"}
    /\ seen[q].gen = row[r].gen

Engaged(a, r) ==
    \/ settle[a].row = r
    \/ a = Reaper /\ \E e \in found : e.row = r

(* Without SettleRaces an actor leaves a row alone while another one is    *)
(* between its reading of the row and its last write.                      *)
Free(a, r) == SettleRaces \/ \A b \in Actors \ {a} : ~ Engaged(b, r)

Begin(a, r, first) == [settle EXCEPT ![a] = [Idle EXCEPT !.step = first, !.row = r]]

(* update_research_progress merges into what it has read: one step here.   *)
SetProg(r, p) == [row EXCEPT ![r].prog = p, ![r].fresh = TRUE]

-----------------------------------------------------------------------------
(* _research_impl: the checks of a resume, then admission.                 *)

(* Mutant: a completed run is never just replayed. *)
Mut_Resumable(r) ==
    row[r].st # "none" /\ handle[r] = None /\ ~ (row[r].st = "running" /\ row[r].fresh)

(* A resume is refused while the run is live here, or while its heartbeat *)
(* is fresh; a completed run that lacks nothing is replayed, not run.     *)
Resumable(r) ==
    /\ row[r].st # "none"
    /\ handle[r] = None
    /\ ~ (row[r].st = "running" /\ row[r].fresh)
    /\ ~ (row[r].st = "completed" /\ row[r].whole)

Arrive(q) ==
    /\ pc[q] = "idle" /\ ~ stopping
    /\ pc' = [pc EXCEPT ![q] = "checked"]
    /\ \/ UNCHANGED << at, seen >>
       \/ \E r \in Rows :
            /\ Resumable(r)
            /\ at' = [at EXCEPT ![q] = r]
            /\ seen' = [seen EXCEPT ![q] = [st |-> row[r].st, gen |-> row[r].gen]]
    /\ UNCHANGED << clock, books, row, bucket, cost, registry, settle, found, stop >>

(* try_acquire: a slot, or 503. *)
Admit(q) ==
    /\ pc[q] = "checked"
    /\ IF permits > 0
       THEN permits' = permits - 1 /\ pc' = [pc EXCEPT ![q] = "admitted"]
       ELSE permits' = permits /\ pc' = [pc EXCEPT ![q] = "refused"]
    /\ UNCHANGED << clock, books, row, request, handle, cancel, settle, found, stop >>

(* The wrapper's handler: a request that raises before it owns its slot   *)
(* gives it back.                                                          *)
Refuse(q) ==
    /\ pc' = [pc EXCEPT ![q] = "refused"]
    /\ permits' = permits + 1
    /\ UNCHANGED << handle, cancel >>

UnderDayCap == ledger[day] + Estimate <= DayCap

(* try_reserve_usd, or 429. *)
ReserveUsd(q) ==
    /\ pc[q] = "admitted"
    /\ IF UnderDayCap
       THEN /\ ledger' = [ledger EXCEPT ![day] = @ + Estimate]
            /\ booked' = [booked EXCEPT ![q] = Estimate]
            /\ bookedOn' = [bookedOn EXCEPT ![q] = day]
            /\ pc' = [pc EXCEPT ![q] = "reserved"]
            /\ UNCHANGED registry
       ELSE Refuse(q) /\ UNCHANGED books
    /\ UNCHANGED << clock, row, request, settle, found, stop >>

(* Mutant: the claim looks at the status alone. *)
Mut_StillAsSeen(q) == row[at[q]].st = seen[q].st

(* The code compares updated_at as well, and so refuses some claims that   *)
(* are admitted here.                                                      *)
StillAsSeen(q) ==
    /\ row[at[q]].st = seen[q].st
    /\ row[at[q]].gen = seen[q].gen

(* claim_research_resume: a new generation, and the flag taken down; what *)
(* the previous attempt cost, and was settled to, stays.                  *)
ClaimResume(q) ==
    /\ pc[q] = "reserved" /\ at[q] # None
    /\ StillAsSeen(q) /\ Free(q, at[q])
    /\ row' = [row EXCEPT ![at[q]] =
                 [row[at[q]] EXCEPT !.st = "running", !.gen = row[at[q]].gen + 1,
                                    !.fresh = TRUE, !.whole = FALSE,
                                    !.prog = [row[at[q]].prog EXCEPT !.flag = FALSE]]]
    /\ seen' = [seen EXCEPT ![q].gen = row[at[q]].gen + 1]
    /\ pc' = [pc EXCEPT ![q] = "allocated"]
    /\ UNCHANGED << clock, books, at, bucket, cost, registry, settle, found, stop >>

(* create_research_run. *)
CreateRun(q) ==
    /\ pc[q] = "reserved" /\ at[q] = None
    /\ \E r \in Rows :
        /\ row[r].st = "none"
        /\ row' = [row EXCEPT ![r] = [@ EXCEPT !.st = "running", !.fresh = TRUE,
                                               !.created = day]]
        /\ at' = [at EXCEPT ![q] = r]
    /\ pc' = [pc EXCEPT ![q] = "allocated"]
    /\ UNCHANGED << clock, books, seen, bucket, cost, registry, settle, found, stop >>

(* A claim that lost, or raised, or a row that was not written: the       *)
(* reservation is reconciled to nothing.                                  *)
GiveBack(q) ==
    /\ pc[q] = "reserved"
    /\ ledger' = Rebase(day, Estimate, 0)
    /\ booked' = [booked EXCEPT ![q] = 0]
    /\ Refuse(q)
    /\ UNCHANGED << clock, bookedOn, row, request, settle, found, stop >>

(* What raises between these steps is handled by the wrapper alone: the    *)
(* slot goes back, a claimed row stays running until it is reaped, and a   *)
(* reservation that has no row yet is never reconciled.                    *)
Throws(q) ==
    /\ \/ pc[q] = "reserved" /\ at[q] = None /\ pc' = [pc EXCEPT ![q] = "refused"]
       \/ pc[q] = "allocated" /\ pc' = [pc EXCEPT ![q] = "ended"]
    /\ permits' = permits + 1
    /\ UNCHANGED << clock, books, row, request, handle, cancel, settle, found, stop >>

(* register(), after which the run's own ending returns the slot. *)
Register(q) ==
    /\ pc[q] = "allocated"
    /\ handle' = [handle EXCEPT ![at[q]] = q]
    /\ pc' = [pc EXCEPT ![q] = "started"]
    /\ UNCHANGED << clock, books, row, request, permits, cancel, settle, found, stop >>

(* The thread cannot be started: the handle and the slot are returned at  *)
(* once, the row is failed next.                                          *)
StartFails(q) ==
    /\ pc[q] = "allocated" /\ Free(q, at[q])
    /\ permits' = permits + 1
    /\ pc' = [pc EXCEPT ![q] = "unstarted"]
    /\ settle' = Begin(q, at[q], "mark")
    /\ UNCHANGED << clock, books, row, request, handle, cancel, found, stop >>

-----------------------------------------------------------------------------
(* The pipeline.                                                           *)

(* It captures the day of the reservation and writes its first snapshot.   *)
PipelineStart(q) ==
    /\ pc[q] = "started"
    /\ ~ cancel[q]
    /\ bucket' = [bucket EXCEPT ![q] = day]
    /\ row' = SetProg(at[q], [row[at[q]].prog EXCEPT !.cost = 0])
    /\ pc' = [pc EXCEPT ![q] = "running"]
    /\ UNCHANGED << clock, books, at, seen, cost, registry, settle, found, stop >>

(* A stage spends, and its snapshot is a heartbeat. *)
Spend(q) ==
    /\ pc[q] = "running" /\ cost[q] < MaxCost
    /\ cost' = [cost EXCEPT ![q] = @ + 1]
    /\ row' = SetProg(at[q], [row[at[q]].prog EXCEPT !.cost = cost[q] + 1])
    /\ UNCHANGED << clock, books, pc, at, seen, bucket, registry, settle, found, stop >>

(* An exception, a cancellation included, at any point of the run or while *)
(* its result is saved.                                                    *)
Raise(q) ==
    /\ \/ pc[q] \in {"started", "running"}
       \/ pc[q] = "saving" /\ settle[q].step = "off"
    /\ Free(q, at[q])
    /\ pc' = [pc EXCEPT ![q] = "closing"]
    /\ settle' = Begin(q, at[q], "mark")
    /\ UNCHANGED << clock, books, row, request, registry, found, stop >>

(* The end of the pipeline begins the final reconciliation. *)
Finish(q) ==
    /\ pc[q] = "running" /\ Free(q, at[q])
    /\ pc' = [pc EXCEPT ![q] = "saving"]
    /\ settle' = [settle EXCEPT ![q] = [step |-> "final", row |-> at[q],
                                        prog |-> row[at[q]].prog, to |-> None]]
    /\ UNCHANGED << clock, books, row, request, registry, found, stop >>

(* save_analysis: whatever the row says, it is completed now. *)
Save(q) ==
    /\ pc[q] = "saving" /\ settle[q].step = "off" /\ Free(q, at[q])
    /\ \E w \in BOOLEAN :
        row' = [row EXCEPT ![at[q]] = [@ EXCEPT !.st = "completed", !.whole = w,
                                                !.fresh = TRUE]]
    /\ pc' = [pc EXCEPT ![q] = "closing"]
    /\ UNCHANGED << clock, books, request, registry, settle, found, stop >>

(* Mutants: the wrapper returns the slot as well; the handle alone is dropped. *)
Mut_ReturnedTwice(r) == IF handle[r] # None THEN 2 ELSE 0
Mut_NotReturned(r) == 0

(* release(): the slot goes back with the handle it was popped with. *)
Returned(r) == IF handle[r] # None THEN 1 ELSE 0

Release(q) ==
    /\ pc[q] = "closing" /\ settle[q].step = "off"
    /\ permits' = permits + Returned(at[q])
    /\ handle' = [handle EXCEPT ![at[q]] = None]
    /\ pc' = [pc EXCEPT ![q] = "ended"]
    /\ UNCHANGED << clock, books, row, request, cancel, settle, found, stop >>

UnstartedEnds(q) ==
    /\ pc[q] = "unstarted" /\ settle[q].step = "off"
    /\ pc' = [pc EXCEPT ![q] = "ended"]
    /\ UNCHANGED << clock, books, row, request, registry, settle, found, stop >>

(* POST /research/{id}/cancel: the event of the handle registered here. *)
Cancel(r) ==
    /\ handle[r] # None
    /\ cancel' = [cancel EXCEPT ![handle[r]] = TRUE]
    /\ UNCHANGED << clock, books, row, pc, request, permits, handle, settle, found, stop >>

-----------------------------------------------------------------------------
(* Settling the books of a row: the steps of mark_research_failed,         *)
(* reconcile_failed_run_usd and reconcile_run_usd_final, by any actor.     *)

(* mark_research_failed has no guard on the status. The reaper settles by  *)
(* the progress it read with the row, the others read it after the mark.   *)
Mark(a) ==
    /\ settle[a].step = "mark"
    /\ row' = [row EXCEPT ![settle[a].row] = [@ EXCEPT !.st = "failed", !.fresh = TRUE]]
    /\ settle' = [settle EXCEPT ![a].step = IF a = Reaper THEN "pay" ELSE "read"]
    /\ UNCHANGED << clock, books, pc, request, registry, found, stop >>

ReadProgress(a) ==
    /\ settle[a].step = "read"
    /\ settle' = [settle EXCEPT ![a].step = "pay", ![a].prog = row[settle[a].row].prog]
    /\ UNCHANGED << clock, books, row, pc, request, registry, found, stop >>

(* Mutant: the flag is not looked at. *)
Mut_AlreadySettled(p) == FALSE

AlreadySettled(p) == p.flag

(* The books of whoever the row carries move by the difference. *)
Book(r, to) ==
    booked' = [q \in Reqs |-> IF Carries(r, q) THEN to ELSE booked[q]]

(* _reconcile_leaked_usd: nothing if the flag was up; a reservation of an *)
(* earlier day is only flagged; otherwise the estimate becomes the cost.  *)
Pay(a) ==
    /\ settle[a].step = "pay"
    /\ LET r == settle[a].row
           p == settle[a].prog
       IN  IF AlreadySettled(p)
           THEN settle' = [settle EXCEPT ![a] = Idle] /\ UNCHANGED books
           ELSE IF row[r].created # day
           THEN settle' = [settle EXCEPT ![a].step = "flag"] /\ UNCHANGED books
           ELSE /\ ledger' = Rebase(day, Estimate, p.cost)
                /\ Book(r, p.cost)
                /\ settle' = [settle EXCEPT ![a].step = "flag", ![a].to = p.cost]
                /\ UNCHANGED bookedOn
    /\ UNCHANGED << clock, row, pc, request, registry, found, stop >>

(* reconcile_run_usd_final: a run that was settled early goes on from the *)
(* amount it was settled to.                                              *)
FinalBase(p) == IF p.flag /\ p.actual # None THEN p.actual ELSE Estimate

PayFinal(q) ==
    /\ settle[q].step = "final"
    /\ ledger' = Rebase(bucket[q], FinalBase(settle[q].prog), cost[q])
    /\ booked' = [booked EXCEPT ![q] = cost[q]]
    /\ settle' = [settle EXCEPT ![q].step = "flag", ![q].to = cost[q]]
    /\ UNCHANGED << clock, bookedOn, row, pc, request, registry, found, stop >>

(* Mutant: the flag is not put up. *)
Mut_Flagged(p, to) == IF to = None THEN p ELSE [p EXCEPT !.actual = to]

Flagged(p, to) ==
    IF to = None THEN [p EXCEPT !.flag = TRUE]
                 ELSE [p EXCEPT !.flag = TRUE, !.actual = to]

WriteFlag(a) ==
    /\ settle[a].step = "flag"
    /\ row' = SetProg(settle[a].row, Flagged(row[settle[a].row].prog, settle[a].to))
    /\ settle' = [settle EXCEPT ![a] = Idle]
    /\ UNCHANGED << clock, books, pc, request, registry, found, stop >>

-----------------------------------------------------------------------------
(* reap_orphan_research_runs: one read of the stale running rows, and of   *)
(* today's failed ones; then row by row. The runtime's tick() leaves the   *)
(* live handles out; the startup and the refresh scheduler do not. A       *)
(* failed row read with its flag up is passed over by Pay, and so here.    *)

IsOrphan(r) == row[r].st = "running" /\ ~ row[r].fresh

(* Mutant: the reaper looks at running rows only. *)
Mut_Unsettled(r) == FALSE

Unsettled(r) ==
    row[r].st = "failed" /\ row[r].created >= day /\ ~ AlreadySettled(row[r].prog)

ReapRead(skip) ==
    /\ found = {} /\ settle[Reaper].step = "off"
    /\ found' = {[row |-> r, orphan |-> IsOrphan(r), prog |-> row[r].prog] :
                   r \in {x \in Rows : /\ (IsOrphan(x) /\ x \notin skip) \/ Unsettled(x)
                                       /\ Free(Reaper, x)}}
    /\ found' # {}
    /\ UNCHANGED << clock, books, row, pc, request, registry, settle, stop >>

Live == {r \in Rows : handle[r] # None}

ReapTick == ReapRead(Live)
ReapAll == LongSilence /\ ReapRead({})

ReapRow ==
    /\ settle[Reaper].step = "off"
    /\ \E e \in found :
        /\ found' = found \ {e}
        /\ settle' = [settle EXCEPT ![Reaper] =
                        [step |-> IF e.orphan THEN "mark" ELSE "pay", row |-> e.row,
                         prog |-> e.prog, to |-> None]]
    /\ UNCHANGED << clock, books, row, pc, request, registry, stop >>

-----------------------------------------------------------------------------
(* shutdown(), and the end of the process.                                 *)

ShutdownBegin ==
    /\ ~ stopping /\ crashes < MaxCrash
    /\ stopping' = TRUE
    /\ toStop' = Live
    /\ UNCHANGED << clock, books, row, pc, request, registry, settle, found >>

(* One handle: its event, and the row if it still reads running. *)
StopRun(r) ==
    /\ r \in toStop /\ settle[Stopper].step = "off" /\ Free(Stopper, r)
    /\ toStop' = toStop \ {r}
    /\ cancel' = IF handle[r] = None THEN cancel
                 ELSE [cancel EXCEPT ![handle[r]] = TRUE]
    /\ settle' = IF row[r].st = "running" THEN Begin(Stopper, r, "mark") ELSE settle
    /\ UNCHANGED << clock, books, row, pc, request, permits, handle, found, stopping >>

Ended == {"idle", "refused", "ended", "dead"}

ProcessEnds ==
    /\ SettleRaces \/ \A a \in Actors : settle[a].step # "flag"
    /\ crashes' = crashes + 1
    /\ pc' = [q \in Reqs |-> IF pc[q] \in Ended THEN pc[q] ELSE "dead"]
    /\ permits' = Cap
    /\ handle' = [r \in Rows |-> None]
    /\ cancel' = [q \in Reqs |-> FALSE]
    /\ settle' = [a \in Actors |-> Idle]
    /\ found' = {} /\ toStop' = {} /\ stopping' = FALSE
    /\ at' = [q \in Reqs |-> IF pc[q] \in Unclaimed THEN None ELSE at[q]]
    /\ UNCHANGED << day, books, row, seen, bucket, cost >>

Crash == crashes < MaxCrash /\ ~ stopping /\ ProcessEnds

Exit == stopping /\ toStop = {} /\ settle[Stopper].step = "off" /\ ProcessEnds

-----------------------------------------------------------------------------
(* Time.                                                                   *)

Attended(r) == \E q \in Reqs : at[q] = r /\ Carries(r, q) /\ pc[q] \notin Ended

(* Half an hour without a heartbeat: the run is dead, or in a long stage. *)
Lapse(r) ==
    /\ row[r].st = "running" /\ row[r].fresh
    /\ Attended(r) => LongSilence /\ \E q \in Reqs : pc[q] = "running" /\ handle[r] = q
    /\ row' = [row EXCEPT ![r].fresh = FALSE]
    /\ UNCHANGED << clock, books, pc, request, registry, settle, found, stop >>

(* Midnight does not fall between a reservation and the first step of its *)
(* pipeline, nor between two steps of a settling.                         *)
NewDay ==
    /\ day < MaxDay
    /\ \A q \in Reqs : pc[q] \notin {"reserved", "allocated", "started"}
    /\ \A a \in Actors : settle[a].step \notin {"pay", "flag"}
    /\ day' = day + 1
    /\ UNCHANGED << crashes, books, row, pc, request, registry, settle, found, stop >>

-----------------------------------------------------------------------------
Ending(q) == Release(q) \/ UnstartedEnds(q)
Handling(q) ==
    Admit(q) \/ ReserveUsd(q) \/ ClaimResume(q) \/ CreateRun(q) \/ GiveBack(q)
        \/ Throws(q) \/ Register(q) \/ StartFails(q)
Pipeline(q) == PipelineStart(q) \/ Spend(q) \/ Raise(q) \/ Finish(q) \/ Save(q)
Settling(a) == Mark(a) \/ ReadProgress(a) \/ Pay(a) \/ WriteFlag(a)

Next ==
    \/ \E q \in Reqs : Arrive(q) \/ Handling(q) \/ Pipeline(q) \/ PayFinal(q) \/ Ending(q)
    \/ \E r \in Rows : Cancel(r) \/ StopRun(r) \/ Lapse(r)
    \/ \E a \in Actors : Settling(a)
    \/ ReapTick \/ ReapAll \/ ReapRow
    \/ ShutdownBegin \/ Crash \/ Exit \/ NewDay

Spec == Init /\ [][Next]_vars

(* The steps of a request are straight-line code with handlers; a pipeline *)
(* ends, in a result or an exception, since its calls and stages have      *)
(* limits; the reaper's timer and a stopped process's end come. No user,   *)
(* no crash, no midnight and no reading by the unlimited reaper is assumed. *)
FairSpec ==
    /\ Spec
    /\ \A q \in Reqs : /\ WF_vars(Handling(q))
                       /\ WF_vars(PipelineStart(q) \/ Raise(q) \/ Finish(q) \/ Save(q))
                       /\ WF_vars(PayFinal(q))
                       /\ WF_vars(Ending(q))
    /\ \A a \in Actors : WF_vars(Settling(a))
    /\ \A r \in Rows : WF_vars(StopRun(r)) /\ WF_vars(~ Attended(r) /\ Lapse(r))
    /\ WF_vars(ReapTick)
    /\ WF_vars(ReapRow)
    /\ WF_vars(Exit)

-----------------------------------------------------------------------------
Holding == {"admitted", "reserved", "allocated", "started", "running", "saving", "closing"}
Working == {"allocated", "started", "running", "saving", "closing"}
BookedOn(d) == {q \in Reqs : bookedOn[q] = d}

(* Every slot is free or held by one request: none leaks, and none is      *)
(* returned twice, on any of the ways a request is refused, started,       *)
(* failed or stopped.                                                      *)
SlotsExact == permits + Cardinality({q \in Reqs : pc[q] \in Holding}) = Cap

(* A row has one run at a time: two resumes, or a resume of a run that a   *)
(* reaper has failed over while it is alive, never both get it.            *)
OnePipelinePerRow ==
    \A q, p \in Reqs :
        pc[q] \in Working /\ pc[p] \in Working /\ at[q] = at[p] /\ at[q] # None => q = p

(* A resumed run whose row was created before today. *)
ResumedOverMidnight(q) ==
    at[q] # None /\ seen[q].gen > 0 /\ row[at[q]].created < day

(* The ledger of a day covers what is booked on it, the estimate of a run  *)
(* until it is settled and what it was settled to afterwards, however the  *)
(* run, the reaper and the stop of the process settle it between them, on  *)
(* that day or a later one; of a day on which a run of an earlier day was  *)
(* resumed, or one resumed that outlived it, nothing is claimed.           *)
NeverUnderBooked ==
    \A d \in Days :
        (\A q \in BookedOn(d) : ~ ResumedOverMidnight(q))
            => ledger[d] >= MapThenSumSet(LAMBDA q : booked[q], BookedOn(d))

(* The final settling of a run starts from what the run has on the ledger: *)
(* its reservation, or what an early settling made of it, and never what   *)
(* an attempt before it was settled to.                                    *)
FinalFromBooked ==
    \A q \in Reqs : settle[q].step = "final" => FinalBase(settle[q].prog) = booked[q]

(* While a day lasts its ledger is exact, if all its runs began on it: no  *)
(* settling takes off more or less than it says.  A run that failed or was *)
(* reaped has its cost so far on it, one that was given back nothing, and  *)
(* one that raised before it had a row its estimate, for good.             *)
BooksExact ==
    (\A q \in BookedOn(day) : at[q] = None \/ row[at[q]].created \in {0, day})
        => ledger[day] = MapThenSumSet(LAMBDA q : booked[q], BookedOn(day))

(* A completed run that lacks nothing is never run again nor failed over.  *)
WholeIsKept ==
    [][\A r \in Rows : row[r].st = "completed" /\ row[r].whole
          => row'[r].st = "completed" /\ row'[r].whole]_vars

(* A run does not stay running: it ends, or the reaper finds it. *)
EveryRunLeavesRunning ==
    \A r \in Rows : row[r].st = "running" ~> row[r].st # "running"

(* Every slot comes back. *)
SlotsReturn == <>[](permits = Cap)

(* A run that failed is settled, on the day it began, whoever failed it    *)
(* and wherever the process died.                                          *)
FailedIsSettled ==
    \A r \in Rows :
        row[r].st = "failed" /\ row[r].created = day
            ~> row[r].prog.flag \/ row[r].st # "failed" \/ row[r].created < day

(* Whoever dies, and wherever: no row stays running, no slot stays taken   *)
(* and no reservation of the day stays open.                               *)
NothingHeldForEver == EveryRunLeavesRunning /\ SlotsReturn /\ FailedIsSettled

=============================================================================
