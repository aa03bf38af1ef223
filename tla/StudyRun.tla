------------------------------- MODULE StudyRun -------------------------------
(***************************************************************************)
(* The durable study-run runtime of the Silk platform: how a market study  *)
(* is launched, queued, claimed by a process, executed by a worker thread, *)
(* cancelled, timed out, interrupted by a stop or a crash, and how its     *)
(* quota seat is reserved and returned.                                    *)
(*                                                                         *)
(* The platform database is shared by every process; an action is one      *)
(* committed transaction, or one step on a process's own memory.  Two      *)
(* processes overlap during a deploy, so everything a handler reads before *)
(* its transaction may be out of date inside it.                           *)
(*                                                                         *)
(*   study, run   the rows of the tables studies and study_runs            *)
(*   used         the account's launch counter                             *)
(*   req          the HTTP requests of POST /studies/{id}/launch           *)
(*   thread       the RunHandle and worker thread of a claimed run         *)
(*   proc         the processes (one BOOT_ID each)                         *)
(*   inflight     processes whose dispatch() is past its last stop check   *)
(*   suspects     studies the orphan sweep has read and will settle        *)
(*   cancelling   cancel requests between their two transactions           *)
(*   closing      complete/archive requests past their active-run check    *)
(*   seat         history: what happened to the seat of each attempt       *)
(***************************************************************************)
EXTENDS Naturals, FiniteSets

CONSTANTS
    Studies,      \* studies of one account
    Attempts,     \* launch attempts: one run_token each, never reused
    Boots,        \* process lifetimes: one BOOT_ID each
    None,         \* SQL NULL
    Cap,          \* SILK_PLATFORM_MAX_CONCURRENT_RUNS
    Limit,        \* the account's launch limit for the period
    UserOps,      \* the requests users make beside launches
    RacyClose,    \* complete/archive may interleave with a launch
    LaunchCrash,  \* a process may die, or raise, while it serves a launch
    SlowLaunch,   \* a launch request may outlive the orphan-sweep grace
    HungThread    \* a worker may hang past the grace with its run closed

ASSUME StudyRunAssumption ==
    /\ IsFiniteSet(Attempts)
    /\ None \notin Studies \cup Attempts \cup Boots
    /\ Cap \in Nat \ {0}
    /\ Limit \in Nat
    /\ UserOps \subseteq {"cancel", "complete", "archive", "delete"}
    /\ RacyClose \in BOOLEAN
    /\ LaunchCrash \in BOOLEAN
    /\ SlowLaunch \in BOOLEAN
    /\ HungThread \in BOOLEAN

VARIABLES
    study, run, used,                             \* the database
    req, thread, proc, inflight,                  \* the processes
    suspects, cancelling, closing,                \* what handlers have read
    seat                                          \* history

vars == << study, run, used, req, thread, proc, inflight,
           suspects, cancelling, closing, seat >>

ActiveStates   == {"queued", "running"}
FailureStates  == {"failed", "interrupted", "cancelled"}
TerminalStates == FailureStates \cup {"completed"}
InFlight       == {"claimed", "reserved", "refused"}
HandlePcs      == {"engine", "finish", "refinish"}

(* A study in progress carries the token of the attempt that claimed it. *)
StudyRow ==
    {r \in [state : {"draft", "in_progress", "completed", "archived", "deleted"},
            token : Attempts \cup {None}] :
        r.state = "in_progress" => r.token # None}

RunRow == [state : ActiveStates \cup TerminalStates \cup {"none", "deleted"},
           id : Nat, boot : Boots \cup {None}, stale : BOOLEAN, cancel : BOOLEAN]

Request == [pc : InFlight \cup {"idle", "closed", "lost"},
            study : Studies \cup {None}, boot : Boots \cup {None}]

Handle == [pc : HandlePcs \cup {"none", "claimed", "gone"},
           reason : {"none", "requested", "timeout", "shutdown"},
           verdict : TerminalStates \cup {"none"}]

TypeOK ==
    /\ study \in [Studies -> StudyRow]
    /\ run \in [Attempts -> RunRow]
    /\ used \in Nat
    /\ req \in [Attempts -> Request]
    /\ thread \in [Attempts -> Handle]
    /\ proc \in [Boots -> {"new", "up", "stopping", "draining", "dead"}]
    /\ inflight \in SUBSET Boots
    /\ suspects \in [Boots -> SUBSET (Studies \X Attempts)]
    /\ cancelling \in SUBSET (Attempts \X Boots)
    /\ closing \in SUBSET (Studies \X {"completed", "archived"} \X Boots)
    /\ seat \in [Attempts -> {"none", "held", "returned"}]

NoHandle(pc) == [pc |-> pc, reason |-> "none", verdict |-> "none"]

Init ==
    /\ study = [s \in Studies |-> [state |-> "draft", token |-> None]]
    /\ run = [a \in Attempts |-> [state |-> "none", id |-> 0, boot |-> None,
                                  stale |-> FALSE, cancel |-> FALSE]]
    /\ used = 0
    /\ req = [a \in Attempts |-> [pc |-> "idle", study |-> None, boot |-> None]]
    /\ thread = [a \in Attempts |-> NoHandle("none")]
    /\ proc = [b \in Boots |-> "new"]
    /\ inflight = {}
    /\ suspects = [b \in Boots |-> {}]
    /\ cancelling = {}
    /\ closing = {}
    /\ seat = [a \in Attempts |-> "none"]

-----------------------------------------------------------------------------
(* Who is alive, and which rows are whose.                                 *)

Alive(b) == proc[b] \in {"up", "stopping", "draining"}

(* Some process serves requests. *)
AnyUp == \E b \in Boots : proc[b] = "up"

Active(a) == run[a].state \in ActiveStates

HasActiveRun(s) == \E a \in Attempts : req[a].study = s /\ Active(a)

Running == {a \in Attempts : run[a].state = "running"}

(* The run's handle is in the _HANDLES of the process that claimed it. *)
HandleLive(a) == thread[a].pc \in HandlePcs

(* Mutant: the fence asks for the state but not for the attempt's token. *)
Mut_FencedNoToken(a) ==
    /\ req[a].study \in Studies
    /\ study[req[a].study].state = "in_progress"

(* "AND state = 'in_progress' AND run_token = ?": the attempt still owns  *)
(* its study.                                                              *)
Fenced(a) ==
    /\ req[a].study \in Studies
    /\ study[req[a].study].state = "in_progress"
    /\ study[req[a].study].token = a

(* The age of a heartbeat means nothing on a closed row. *)
Closed(row, outcome) == [row EXCEPT !.state = outcome, !.stale = FALSE]

(* Mutant: the close forgets "AND state IN ('queued','running')". *)
Mut_CloseAnyRow(a, outcome) == [run EXCEPT ![a] = Closed(@, outcome)]

CloseRunRow(a, outcome) ==
    IF Active(a) THEN [run EXCEPT ![a] = Closed(@, outcome)] ELSE run

(* quota.release_launch within one period: a guarded decrement. *)
ReleaseLaunch(a) ==
    /\ used' = IF used > 0 THEN used - 1 ELSE 0
    /\ seat' = [seat EXCEPT ![a] = "returned"]

(* Mutant: the seat is returned whether or not the study was reverted. *)
Mut_ReleaseAlways(a) == TRUE

MayRelease(a) == Fenced(a)

(***************************************************************************)
(* _finish_failure: in one transaction the study goes back to draft if the *)
(* attempt still owns it, the run row is closed on its own guard, and the  *)
(* seat is returned only if the study was reverted.                        *)
(***************************************************************************)
FinishFailure(a, outcome) ==
    /\ study' = IF Fenced(a)
                THEN [study EXCEPT ![req[a].study].state = "draft"] ELSE study
    /\ run' = CloseRunRow(a, outcome)
    /\ IF MayRelease(a) THEN ReleaseLaunch(a) ELSE UNCHANGED << used, seat >>

-----------------------------------------------------------------------------
(* launch_study: claim, reserve, then the run row, each its own commit.    *)

ClaimableStudy(s) == study[s].state = "draft"

LaunchClaim(a, s, b) ==
    /\ proc[b] = "up"
    /\ req[a].pc = "idle"
    /\ ClaimableStudy(s)
    /\ study' = [study EXCEPT ![s] = [state |-> "in_progress", token |-> a]]
    /\ req' = [req EXCEPT ![a] = [pc |-> "claimed", study |-> s, boot |-> b]]
    /\ UNCHANGED << run, used, thread, proc, inflight, suspects,
                    cancelling, closing, seat >>

(* reserve_launch: the check and the increment are one guarded UPDATE. *)
LaunchReserve(a) ==
    /\ req[a].pc = "claimed"
    /\ IF used < Limit
       THEN /\ used' = used + 1
            /\ seat' = [seat EXCEPT ![a] = "held"]
            /\ req' = [req EXCEPT ![a].pc = "reserved"]
       ELSE /\ req' = [req EXCEPT ![a].pc = "refused"]
            /\ UNCHANGED << used, seat >>
    /\ UNCHANGED << study, run, thread, proc, inflight, suspects,
                    cancelling, closing >>

(* The compensation of a refused launch asks for the study's id and owner *)
(* only: neither its state nor its token.                                 *)
LaunchCompensate(a) ==
    /\ req[a].pc = "refused"
    /\ study' = IF study[req[a].study].state = "deleted" THEN study
                ELSE [study EXCEPT ![req[a].study].state = "draft"]
    /\ req' = [req EXCEPT ![a].pc = "closed"]
    /\ UNCHANGED << run, used, thread, proc, inflight, suspects,
                    cancelling, closing, seat >>

(* Mutant: create_run does not close the study's older active row. *)
Mut_NoSupersede(a) == {}

(* create_run closes whatever row of the study is still active. *)
Superseded(a) == {x \in Attempts : req[x].study = req[a].study /\ Active(x)}

NewRow ==
    [state |-> "queued", boot |-> None, stale |-> FALSE, cancel |-> FALSE,
     id |-> 1 + Cardinality({x \in Attempts : run[x].state # "none"})]

LaunchCreateRun(a) ==
    /\ req[a].pc = "reserved"
    /\ study[req[a].study].state # "deleted"
    /\ run' = [x \in Attempts |->
                 IF x = a THEN NewRow
                 ELSE IF x \in Superseded(a)
                      THEN Closed(run[x], "interrupted")
                      ELSE run[x]]
    /\ req' = [req EXCEPT ![a].pc = "closed"]
    /\ UNCHANGED << study, used, thread, proc, inflight, suspects,
                    cancelling, closing, seat >>

(* create_run raises: the study goes back to draft under the fence, but   *)
(* release_launch is called whether or not that UPDATE changed a row.     *)
LaunchFails(a) ==
    /\ req[a].pc = "reserved"
    /\ study' = IF Fenced(a)
                THEN [study EXCEPT ![req[a].study].state = "draft"] ELSE study
    /\ ReleaseLaunch(a)
    /\ req' = [req EXCEPT ![a].pc = "closed"]
    /\ UNCHANGED << run, thread, proc, inflight, suspects,
                    cancelling, closing >>

(* An exception that no handler of launch_study covers: reserve_launch and *)
(* the compensations run outside its try.  Everything stays as committed.  *)
LaunchRaises(a) ==
    /\ LaunchCrash
    /\ req[a].pc \in InFlight
    /\ req' = [req EXCEPT ![a].pc = "lost"]
    /\ UNCHANGED << study, run, used, thread, proc, inflight, suspects,
                    cancelling, closing, seat >>

-----------------------------------------------------------------------------
(* dispatch: one immediate transaction that fills the free slots.          *)

(* A queued row whose study is no longer in progress is closed, not run. *)
Abandoned ==
    {a \in Attempts : /\ run[a].state = "queued"
                      /\ study[req[a].study].state # "in_progress"}

(* Mutant: the claim forgets "AND state = 'queued'". *)
Mut_Claimable ==
    {a \in Attempts : Active(a) /\ study[req[a].study].state = "in_progress"}

Claimable ==
    {a \in Attempts : /\ run[a].state = "queued"
                      /\ study[req[a].study].state = "in_progress"}

(* Mutant: the process counts only the rows it runs itself. *)
Mut_OwnSlots(b) ==
    LET n == Cardinality({a \in Running : run[a].boot = b})
    IN  IF n < Cap THEN Cap - n ELSE 0

FreeSlots(b) ==
    LET n == Cardinality(Running) IN IF n < Cap THEN Cap - n ELSE 0

(* "ORDER BY r.id LIMIT 1": the oldest first, while there is a slot. *)
OldestFill(S, n) ==
    /\ Cardinality(S) <= n
    /\ \A a \in S, x \in Claimable \ S : run[a].id < run[x].id

(* Until no slot or no queued row is left, or the stop begins.  A         *)
(* transaction already past its stop check may commit after the stop.     *)
Dispatch(b) ==
    /\ proc[b] = "up" \/ (Alive(b) /\ b \in inflight)
    /\ \E S \in SUBSET Claimable :
          /\ OldestFill(S, FreeSlots(b))
          /\ proc[b] = "up" /\ Cardinality(S) < FreeSlots(b) => S = Claimable
          /\ S \cup Abandoned # {}
          /\ run' = [a \in Attempts |->
                IF a \in S
                THEN [run[a] EXCEPT !.state = "running", !.boot = b, !.stale = FALSE]
                ELSE IF a \in Abandoned THEN Closed(run[a], "cancelled")
                ELSE run[a]]
          /\ thread' = [a \in Attempts |->
                IF a \in S THEN [thread[a] EXCEPT !.pc = "claimed"] ELSE thread[a]]
    /\ inflight' = inflight \ {b}
    /\ UNCHANGED << study, used, req, proc, suspects, cancelling,
                    closing, seat >>

-----------------------------------------------------------------------------
(* _start_claimed, _worker and _thread_body: one run in its process.       *)

OwnerAlive(a) == run[a].boot # None /\ Alive(run[a].boot)

(* The handle is registered, the database's cancel flag is read once more, *)
(* and the thread starts with its event already set if the flag is.        *)
StartThread(a) ==
    /\ thread[a].pc = "claimed"
    /\ OwnerAlive(a)
    /\ thread' = [thread EXCEPT
          ![a] = [NoHandle("engine") EXCEPT
                    !.reason = IF run[a].cancel THEN "requested" ELSE "none"]]
    /\ UNCHANGED << study, run, used, req, proc, inflight, suspects,
                    cancelling, closing, seat >>

StartFails(a) ==
    /\ thread[a].pc = "claimed"
    /\ OwnerAlive(a)
    /\ FinishFailure(a, "failed")
    /\ thread' = [thread EXCEPT ![a] = NoHandle("gone")]
    /\ UNCHANGED << req, proc, inflight, suspects, cancelling, closing >>

(* Mutant: the run is closed under the handle's reason as it stands. *)
Mut_NamedFailure(a) == thread[a].reason

(* _finish_if_cancelled: the name the handle's event gives a failure. *)
NamedFailure(a) ==
    CASE thread[a].reason = "timeout"   -> "failed"
      [] thread[a].reason = "shutdown"  -> "interrupted"
      [] thread[a].reason = "requested" -> "cancelled"
      [] OTHER                          -> "failed"

(* The engine returns.  A refusal, an exception or an empty result looks  *)
(* at the handle's event; an unsaved or unclassified result does not.     *)
EngineReturns(a, verdict) ==
    /\ thread[a].pc = "engine"
    /\ OwnerAlive(a)
    /\ verdict \in {"completed", "failed", NamedFailure(a)}
    /\ thread' = [thread EXCEPT ![a].pc = "finish", ![a].verdict = verdict]
    /\ UNCHANGED << study, run, used, req, proc, inflight, suspects,
                    cancelling, closing, seat >>

Finishing(a) == thread[a].pc \in {"finish", "refinish"} /\ OwnerAlive(a)

(* Mutant: success does not look at the database's cancel flag. *)
Mut_IgnoreCancel(a) == FALSE

CancelledFirst(a) == run[a].state = "running" /\ run[a].cancel

(* _finish_success, first branch: a cancel accepted before the result is  *)
(* committed wins; the transaction is rolled back and the run cancelled.  *)
FinishSuccessCancelled(a) ==
    /\ Finishing(a)
    /\ thread[a].verdict = "completed"
    /\ CancelledFirst(a)
    /\ thread' = [thread EXCEPT ![a].verdict = "cancelled"]
    /\ UNCHANGED << study, run, used, req, proc, inflight, suspects,
                    cancelling, closing, seat >>

(* _finish_success, second branch: study under the fence, row on its own. *)
FinishSuccess(a) ==
    /\ Finishing(a)
    /\ thread[a].verdict = "completed"
    /\ ~ CancelledFirst(a)
    /\ study' = IF Fenced(a)
                THEN [study EXCEPT ![req[a].study].state = "completed"] ELSE study
    /\ run' = CloseRunRow(a, "completed")
    /\ thread' = [thread EXCEPT ![a] = NoHandle("gone")]
    /\ UNCHANGED << used, req, proc, inflight, suspects, cancelling,
                    closing, seat >>

FinishFailed(a) ==
    /\ Finishing(a)
    /\ thread[a].verdict \in FailureStates
    /\ FinishFailure(a, thread[a].verdict)
    /\ thread' = [thread EXCEPT ![a] = NoHandle("gone")]
    /\ UNCHANGED << req, proc, inflight, suspects, cancelling, closing >>

(* The finishing transaction raises (a locked database): it is tried once *)
(* more as a bridge crash, then given up with the row still running.      *)
FinishRaises(a) ==
    /\ Finishing(a)
    /\ thread' = [thread EXCEPT
          ![a] = IF @.pc = "finish"
                 THEN [@ EXCEPT !.pc = "refinish", !.verdict = NamedFailure(a)]
                 ELSE NoHandle("gone")]
    /\ UNCHANGED << study, run, used, req, proc, inflight, suspects,
                    cancelling, closing, seat >>

-----------------------------------------------------------------------------
(* tick: the supervisor's steps, each with its own transaction.            *)

Heartbeat(b) ==
    LET beating == {a \in Running : run[a].boot = b /\ HandleLive(a)} IN
    /\ proc[b] = "up"
    /\ \E a \in beating : run[a].stale
    /\ run' = [a \in Attempts |->
                 IF a \in beating THEN [run[a] EXCEPT !.stale = FALSE] ELSE run[a]]
    /\ UNCHANGED << study, used, req, thread, proc, inflight, suspects,
                    cancelling, closing, seat >>

(* Time: stale_s passes without a heartbeat reaching the row. *)
HeartbeatLapses(a) ==
    /\ run[a].state = "running"
    /\ ~ run[a].stale
    /\ run' = [run EXCEPT ![a].stale = TRUE]
    /\ UNCHANGED << study, used, req, thread, proc, inflight, suspects,
                    cancelling, closing, seat >>

(* The cancel flag of the row sets the handle's event: the scan of tick,  *)
(* and the last step of request_cancel in the process that owns the run.  *)
SignalCancel(a) ==
    /\ HandleLive(a)
    /\ OwnerAlive(a)
    /\ run[a].cancel
    /\ thread[a].reason = "none"
    /\ thread' = [thread EXCEPT ![a].reason = "requested"]
    /\ UNCHANGED << study, run, used, req, proc, inflight, suspects,
                    cancelling, closing, seat >>

(* A handle older than its grace: its event is set and its row closed,    *)
(* under the name of an earlier cancel if there was one.                   *)
Timeout(a) ==
    /\ HandleLive(a)
    /\ OwnerAlive(a)
    /\ thread[a].reason # "shutdown"
    /\ thread[a].reason = "none" \/ Active(a)
    /\ thread' = [thread EXCEPT ![a].reason = IF @ = "none" THEN "timeout" ELSE @]
    /\ FinishFailure(a, IF thread[a].reason = "requested" THEN "cancelled" ELSE "failed")
    /\ UNCHANGED << req, proc, inflight, suspects, cancelling, closing >>

(* The closing transaction of a timeout raises: the next tick retries it. *)
TimeoutRaises(a) ==
    /\ HandleLive(a)
    /\ OwnerAlive(a)
    /\ thread[a].reason = "none"
    /\ thread' = [thread EXCEPT ![a].reason = "timeout"]
    /\ UNCHANGED << study, run, used, req, proc, inflight, suspects,
                    cancelling, closing, seat >>

(* Mutant: only rows of this boot are swept. *)
Mut_StaleOwnRows(b) ==
    {a \in Running : run[a].stale /\ run[a].boot = b /\ ~ HandleLive(a)}

(* Rows of any boot whose heartbeat stopped, but no handle of this process. *)
StaleRows(b) ==
    {a \in Running : run[a].stale /\ ~ (run[a].boot = b /\ HandleLive(a))}

(* _interrupt_run names the end by the cancel flag as the sweep read it,  *)
(* so a flag set since that read is not seen.                              *)
InterruptNames(a) ==
    IF run[a].cancel THEN {"cancelled", "interrupted"} ELSE {"interrupted"}

(* _sweep_stale reads the rows first and closes them one by one later.    *)
(* A heartbeat may lapse at any step, so closing a row that is stale now  *)
(* gives every outcome of closing one that was stale when it was read.    *)
SweepStale(b) ==
    /\ proc[b] = "up"
    /\ \E a \in StaleRows(b) : \E name \in InterruptNames(a) : FinishFailure(a, name)
    /\ UNCHANGED << req, thread, proc, inflight, suspects, cancelling, closing >>

-----------------------------------------------------------------------------
(* recover and shutdown; a process may also die at any step.               *)

BootUp(b) ==
    /\ proc[b] = "new"
    /\ proc' = [proc EXCEPT ![b] = "up"]
    /\ UNCHANGED << study, run, used, req, thread, inflight, suspects,
                    cancelling, closing, seat >>

(* Another process exists or will be started: the service is redeployed.  *)
Replaceable(b) == \E c \in Boots \ {b} : proc[c] \in {"new", "up"}

Serving(b) == {a \in Attempts : req[a].pc \in InFlight /\ req[a].boot = b}

(* The server has finished its requests first.  _STOPPING is set, and the *)
(* event of every handle, unless a reason is already there.               *)
ShutdownBegin(b) ==
    /\ proc[b] = "up"
    /\ Replaceable(b)
    /\ Serving(b) = {}
    /\ \A c \in cancelling : c[2] # b
    /\ \A c \in closing : c[3] # b
    /\ proc' = [proc EXCEPT ![b] = "stopping"]
    /\ thread' = [a \in Attempts |->
          IF run[a].boot = b /\ HandleLive(a) /\ thread[a].reason = "none"
          THEN [thread[a] EXCEPT !.reason = "shutdown"] ELSE thread[a]]
    /\ inflight' \in {inflight, inflight \cup {b}}
    /\ UNCHANGED << study, run, used, req, suspects, cancelling,
                    closing, seat >>

(* The running rows of this boot are read once and closed one by one. *)
ShutdownInterrupt(b) ==
    /\ proc[b] = "stopping"
    /\ \E a \in Running :
          /\ run[a].boot = b
          /\ \E name \in InterruptNames(a) : FinishFailure(a, name)
    /\ UNCHANGED << req, thread, proc, inflight, suspects, cancelling, closing >>

ShutdownDone(b) ==
    /\ proc[b] = "stopping"
    /\ \A a \in Running : run[a].boot # b
    /\ proc' = [proc EXCEPT ![b] = "draining"]
    /\ UNCHANGED << study, run, used, req, thread, inflight, suspects,
                    cancelling, closing, seat >>

(* The end of a process, stopped or killed: its memory is gone. *)
Exit(b) ==
    /\ Alive(b)
    /\ Replaceable(b)
    /\ LaunchCrash \/ Serving(b) = {}
    /\ proc' = [proc EXCEPT ![b] = "dead"]
    /\ req' = [a \in Attempts |->
          IF a \in Serving(b) THEN [req[a] EXCEPT !.pc = "lost"] ELSE req[a]]
    /\ thread' = [a \in Attempts |->
          IF run[a].boot = b THEN NoHandle("gone") ELSE thread[a]]
    /\ inflight' = inflight \ {b}
    /\ suspects' = [suspects EXCEPT ![b] = {}]
    /\ cancelling' = {c \in cancelling : c[2] # b}
    /\ closing' = {c \in closing : c[3] # b}
    /\ UNCHANGED << study, run, used, seat >>

-----------------------------------------------------------------------------
(* sweep_orphans: studies in progress that no run row accounts for.        *)

Launching(s) ==
    \E a \in Attempts : req[a].study = s /\ req[a].pc \in InFlight

(* _ACTIVE still holds an earlier attempt of the study that is overdue. *)
OverdueEntry(b, s) ==
    /\ HungThread
    /\ \E x \in Attempts : /\ req[x].study = s /\ run[x].boot = b
                           /\ HandleLive(x) /\ ~ Active(x)

(* The grace since run_started_at keeps a launch being served out of the  *)
(* sweep, unless the entry of an earlier attempt is overdue.              *)
GraceOver(b, s) == SlowLaunch \/ ~ Launching(s) \/ OverdueEntry(b, s)

(* Mutant: a study whose launch left no row is not taken. *)
Mut_OrphansWithRow(b) ==
    {s \in Studies : /\ study[s].state = "in_progress"
                     /\ ~ HasActiveRun(s)
                     /\ GraceOver(b, s)
                     /\ run[study[s].token].state # "none"}

Orphans(b) ==
    {s \in Studies : /\ study[s].state = "in_progress"
                     /\ ~ HasActiveRun(s)
                     /\ GraceOver(b, s)}

SweepOrphans(b) ==
    /\ proc[b] = "up"
    /\ suspects[b] = {}
    /\ Orphans(b) # {}
    /\ suspects' = [suspects EXCEPT
          ![b] = {<< s, study[s].token >> : s \in Orphans(b)}]
    /\ UNCHANGED << study, run, used, req, thread, proc, inflight, cancelling,
                    closing, seat >>

(* An earlier attempt ran an engine, so the analysis the study points at  *)
(* may have been completed after this attempt began.                      *)
EarlierEngineRan(s, a) ==
    \E x \in Attempts \ {a} : req[x].study = s /\ thread[x].pc # "none"

(* The settling UPDATE asks for in_progress only: not for the token, nor  *)
(* that there is still no run row.                                        *)
SettleOrphan(b) ==
    /\ Alive(b)
    /\ \E o \in suspects[b] :
          /\ suspects' = [suspects EXCEPT ![b] = @ \ {o}]
          /\ \/ /\ study[o[1]].state = "in_progress"
                /\ study' = [study EXCEPT ![o[1]].state = "draft"]
                /\ ReleaseLaunch(o[2])
             \/ /\ study[o[1]].state = "in_progress"
                /\ EarlierEngineRan(o[1], o[2])
                /\ study' = [study EXCEPT ![o[1]].state = "completed"]
                /\ UNCHANGED << used, seat >>
             \/ /\ study[o[1]].state # "in_progress"
                /\ UNCHANGED << study, used, seat >>
    /\ UNCHANGED << run, req, thread, proc, inflight, cancelling, closing >>

-----------------------------------------------------------------------------
(* request_cancel.  Its endpoint has read that the study is in progress,   *)
(* but long before: the updates ask for the row's state and flag only.     *)

(* A queued run: the flag is committed first, the row closed afterwards.  *)
CancelQueued(a, b) ==
    /\ "cancel" \in UserOps
    /\ proc[b] = "up"
    /\ run[a].state = "queued"
    /\ ~ run[a].cancel
    /\ run' = [run EXCEPT ![a].cancel = TRUE]
    /\ cancelling' = cancelling \cup {<< a, b >>}
    /\ UNCHANGED << study, used, req, thread, proc, inflight, suspects,
                    closing, seat >>

CancelQueuedFinish(a, b) ==
    /\ << a, b >> \in cancelling
    /\ Alive(b)
    /\ FinishFailure(a, "cancelled")
    /\ cancelling' = cancelling \ {<< a, b >>}
    /\ UNCHANGED << req, thread, proc, inflight, suspects, closing >>

(* A running one: the flag only; SignalCancel carries it to the handle. *)
CancelRunning(a) ==
    /\ "cancel" \in UserOps
    /\ run[a].state = "running"
    /\ ~ run[a].cancel
    /\ AnyUp
    /\ run' = [run EXCEPT ![a].cancel = TRUE]
    /\ UNCHANGED << study, used, req, thread, proc, inflight, suspects,
                    cancelling, closing, seat >>

-----------------------------------------------------------------------------
(* _lifecycle: complete_study, archive_study; and delete_study.            *)

(* complete_study or archive_study, by the state it writes. *)
CloseOps == (IF "complete" \in UserOps THEN {"completed"} ELSE {}) \cup
            (IF "archive" \in UserOps THEN {"archived"} ELSE {})

(* Mutant: a study already archived can be completed or archived again. *)
Mut_ClosableFrom(to) == {"draft", "in_progress", "completed", "archived"}

ClosableFrom(to) ==
    IF to = "completed" THEN {"in_progress"}
    ELSE {"draft", "in_progress", "completed"}

(* The active-run check is made before the transaction that writes. *)
CloseCheck(s, to, b) ==
    /\ RacyClose
    /\ proc[b] = "up"
    /\ study[s].state # "deleted"
    /\ ~ HasActiveRun(s)
    /\ closing' = closing \cup {<< s, to, b >>}
    /\ UNCHANGED << study, run, used, req, thread, proc, inflight, suspects,
                    cancelling, seat >>

CloseWrite(s, to, b) ==
    /\ << s, to, b >> \in closing
    /\ closing' = closing \ {<< s, to, b >>}
    /\ study' = IF study[s].state \in ClosableFrom(to)
                THEN [study EXCEPT ![s].state = to] ELSE study
    /\ UNCHANGED << run, used, req, thread, proc, inflight, suspects,
                    cancelling, seat >>

(* The same with nothing of a launch between the check and the write. *)
CloseQuietly(s, to) ==
    /\ ~ RacyClose
    /\ AnyUp
    /\ ~ HasActiveRun(s)
    /\ ~ Launching(s)
    /\ study[s].state \in ClosableFrom(to)
    /\ study' = [study EXCEPT ![s].state = to]
    /\ UNCHANGED << run, used, req, thread, proc, inflight, suspects,
                    cancelling, closing, seat >>

(* Check and delete are one immediate transaction. *)
DeleteStudy(s) ==
    /\ "delete" \in UserOps
    /\ AnyUp
    /\ study[s].state \in {"draft", "completed", "archived"}
    /\ ~ HasActiveRun(s)
    /\ study' = [study EXCEPT ![s].state = "deleted"]
    /\ run' = [a \in Attempts |->
          IF req[a].study = s /\ run[a].state \in TerminalStates
          THEN Closed(run[a], "deleted") ELSE run[a]]
    /\ UNCHANGED << used, req, thread, proc, inflight, suspects,
                    cancelling, closing, seat >>

-----------------------------------------------------------------------------
LaunchStep(a) ==
    \/ \E s \in Studies, b \in Boots : LaunchClaim(a, s, b)
    \/ LaunchReserve(a)
    \/ LaunchCompensate(a)
    \/ LaunchCreateRun(a)
    \/ LaunchFails(a)
    \/ LaunchRaises(a)

WorkerStep(a) ==
    \/ StartThread(a)
    \/ StartFails(a)
    \/ \E v \in TerminalStates : EngineReturns(a, v)
    \/ FinishSuccessCancelled(a)
    \/ FinishSuccess(a)
    \/ FinishFailed(a)
    \/ FinishRaises(a)

SupervisorStep(b) ==
    \/ Dispatch(b)
    \/ Heartbeat(b)
    \/ SweepStale(b)
    \/ SweepOrphans(b)
    \/ SettleOrphan(b)

HandleStep(a) ==
    \/ HeartbeatLapses(a)
    \/ SignalCancel(a)
    \/ Timeout(a)
    \/ TimeoutRaises(a)

ProcessStep(b) ==
    \/ BootUp(b)
    \/ ShutdownBegin(b)
    \/ ShutdownInterrupt(b)
    \/ ShutdownDone(b)
    \/ Exit(b)

CancelStep(a) ==
    \/ \E b \in Boots : CancelQueued(a, b) \/ CancelQueuedFinish(a, b)
    \/ CancelRunning(a)

LifecycleStep(s) ==
    \/ \E to \in CloseOps, b \in Boots : CloseCheck(s, to, b) \/ CloseWrite(s, to, b)
    \/ \E to \in CloseOps : CloseQuietly(s, to)
    \/ DeleteStudy(s)

Next ==
    \/ \E a \in Attempts :
          LaunchStep(a) \/ WorkerStep(a) \/ HandleStep(a) \/ CancelStep(a)
    \/ \E b \in Boots : SupervisorStep(b) \/ ProcessStep(b)
    \/ \E s \in Studies : LifecycleStep(s)

Spec == Init /\ [][Next]_vars

(***************************************************************************)
(* Fairness.  The supervisor and the sweeper are timer loops that swallow  *)
(* every error of a pass, a launch request runs to its end, and the worker *)
(* finishes what it has begun; a stopped process ends and another is       *)
(* started.  Nothing is assumed of the engine's return, of users, or of    *)
(* crashes: a run whose engine never returns must be ended by its timeout. *)
(***************************************************************************)
LapsesUnattended(a) == HeartbeatLapses(a) /\ ~ (HandleLive(a) /\ OwnerAlive(a))

Fairness ==
    /\ \A a \in Attempts :
          /\ WF_vars(LaunchReserve(a))
          /\ WF_vars(LaunchCompensate(a))
          /\ WF_vars(LaunchCreateRun(a) \/ LaunchFails(a))
          /\ WF_vars(StartThread(a) \/ StartFails(a))
          /\ WF_vars(FinishSuccess(a) \/ FinishSuccessCancelled(a) \/ FinishFailed(a))
          /\ WF_vars(Timeout(a))
          /\ WF_vars(LapsesUnattended(a))
    /\ \A b \in Boots :
          /\ WF_vars(BootUp(b))
          /\ WF_vars(Dispatch(b))
          /\ WF_vars(SweepStale(b))
          /\ WF_vars(SweepOrphans(b))
          /\ WF_vars(SettleOrphan(b))
          /\ WF_vars(ShutdownInterrupt(b))
          /\ WF_vars(ShutdownDone(b))
          /\ WF_vars(Exit(b) /\ proc[b] = "draining")

FairSpec == Spec /\ Fairness

-----------------------------------------------------------------------------
(* Properties that hold whatever interleaves.                              *)

(* No study ever has two active run rows, so no two workers can both be   *)
(* the current run of a study (the unique index of migration 018).        *)
OneActiveRun ==
    \A a, x \in Attempts :
        Active(a) /\ Active(x) /\ req[a].study = req[x].study => a = x

(* The cap on running rows holds across overlapping processes, because    *)
(* dispatch counts in the database under an immediate transaction.        *)
CapRespected == Cardinality(Running) <= Cap

(* A cancel that was accepted is never answered by a completed run,       *)
(* however late the worker's success arrives (_finish_success).           *)
CancelNeverCompletes ==
    \A a \in Attempts : run[a].state = "completed" => ~ run[a].cancel

(* A closed run row is closed for good: neither a late worker, a timeout, *)
(* a sweep nor a shutdown gives it another ending.                        *)
ClosedRunsStayClosed ==
    [][\A a \in Attempts : run[a].state \in TerminalStates =>
          run'[a].state \in {run[a].state, "deleted"}]_vars

(* A row is claimed from the queue by one process only, once.             *)
ClaimedOnce ==
    [][\A a \in Attempts : run[a].boot # None => run'[a].boot = run[a].boot]_vars

-----------------------------------------------------------------------------
(* Properties of the fenced protocol: they need complete/archive not to    *)
(* land inside a launch, and a launch request to be neither killed nor     *)
(* overtaken by the orphan sweep.                                          *)

(* An archived study stays archived until it is deleted: no late launch   *)
(* step, worker or sweep brings it back (lifecycle.TERMINAL).             *)
ArchivedIsFinal ==
    [][\A s \in Studies : study[s].state = "archived" =>
          study'[s].state \in {"archived", "deleted"}]_vars

(* An active run owns its study: the study is in progress under the run's *)
(* own token, so its result will be accepted and its seat settled.        *)
ActiveRunOwnsStudy == \A a \in Attempts : Active(a) => Fenced(a)

(* The other half of migration 018's equivalence: a study in progress has *)
(* an active run, or the launch request that is about to write one.       *)
InProgressHasRun ==
    \A s \in Studies : study[s].state = "in_progress" =>
        LET a == study[s].token IN Active(a) \/ req[a].pc \in InFlight

(* A completed run's result is the study's own: the run is the study's    *)
(* latest attempt and the study is closed as completed, or closed since.  *)
CompletedRunIsBound ==
    \A a \in Attempts : run[a].state = "completed" =>
        /\ study[req[a].study].token = a
        /\ study[req[a].study].state \in {"completed", "archived"}

(* Study and run rows agree at every moment between two transactions: the  *)
(* fence of every live run holds, no study is in progress for nobody, and  *)
(* no completion was written by an attempt the study has moved on from.    *)
RunAndStudyAgree == ActiveRunOwnsStudy /\ InProgressHasRun /\ CompletedRunIsBound

(* The counter is exactly the number of launches that hold a seat.        *)
SeatsExact == used = Cardinality({a \in Attempts : seat[a] = "held"})

(* No seat is burnt and none is given away: a failed run has returned its *)
(* seat, an active or completed one still holds it.                       *)
SeatFollowsRun ==
    \A a \in Attempts :
        /\ run[a].state \in FailureStates => seat[a] = "returned"
        /\ run[a].state \in ActiveStates \cup {"completed"} => seat[a] = "held"

(* No seat is returned twice, nor apart from its study: a step that lowers *)
(* the counter turns one held seat into a returned one, and puts that      *)
(* study back to draft (release_launch: only when the UPDATE changed it).  *)
SeatReturnedOnce ==
    [][used' < used =>
          \E a \in Attempts :
              /\ seat[a] = "held" /\ seat'[a] = "returned"
              /\ study[req[a].study].state = "in_progress"
              /\ study'[req[a].study].state = "draft"]_vars

-----------------------------------------------------------------------------
(* The abstract account: what the customer may rely on.                    *)

(* A study holds the seat of its latest attempt, for good once closed. *)
HoldsSeat(s) ==
    LET a == study[s].token
    IN  IF a = None THEN "none"
        ELSE IF seat[a] # "held" THEN "none"
        ELSE IF study[s].state = "in_progress" THEN "busy" ELSE "kept"

Ledger == INSTANCE SeatLedger
    WITH holds <- [s \in Studies |-> HoldsSeat(s)], count <- used

(* Every interleaving of requests, workers, sweeps and stops implements    *)
(* the ledger: each start takes a seat, each failure gives that one back,  *)
(* each completion keeps it, and nothing else moves the counter.           *)
ImplementsLedger == Ledger!Spec

-----------------------------------------------------------------------------
(* Liveness, under FairSpec.                                               *)

(* Every queued or running row is eventually closed, through any crash,   *)
(* stop, hung engine or failed finishing transaction.                     *)
EveryRunEnds == \A a \in Attempts : Active(a) ~> ~ Active(a)

(* No study is left in progress forever, even when the process died       *)
(* between the claim and the run row.                                     *)
EveryStudySettles ==
    \A s \in Studies :
        study[s].state = "in_progress" ~> study[s].state # "in_progress"

-----------------------------------------------------------------------------
(* What the repository says and the code does not keep.                    *)

(* After shutdown has interrupted what it read, no running row of the     *)
(* process is left: "a claim inside its transaction does not escape".     *)
ShutdownSealsItsRuns ==
    \A b \in Boots :
        proc[b] = "draining" => \A a \in Running : run[a].boot # b

=============================================================================
