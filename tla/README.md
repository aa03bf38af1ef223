# Verification of the Silk study platform

TLA+ models, TLC runs and TLAPS proofs for the platform in this repository: a
market-study service (FastAPI, SQLite, daemon threads, one process that overlaps
with its successor during a deploy). The models follow a study from the customer's
click to the money it costs:

- **a study is launched**, takes a quota seat, is queued, claimed by a process,
  executed by a worker thread, and ends; its seat is kept or returned (`StudyRun`,
  `SeatLedger`, `Quota`);
- **a research run** is admitted into a slot, reserves dollars, works through its
  pipeline with checkpoints, is cancelled, reaped or resumed (`ResearchRun`,
  `Pipeline`), runs its missions in parallel over shared budgets (`MissionRun`) and
  fetches its sources through a cache, a throttle and a circuit breaker
  (`SourceFetch`);
- **an account** is funded, charged and billed for storage (`Wallet`).

Contents: [1. The system](#1-the-system) ·
[2. Modules](#2-modules) ·
[3. StudyRun against the code](#3-studyrun-against-the-code) ·
[4. The other modules against the code](#4-the-other-modules-against-the-code) ·
[5. Runs, bounds and what they show](#5-runs-bounds-and-what-they-show) ·
[6. Fairness](#6-fairness) ·
[7. Proofs](#7-proofs) ·
[8. Disagreements between code and documentation](#8-disagreements-between-code-and-documentation) ·
[9. What is not modelled](#9-what-is-not-modelled) ·
[10. Plan](#10-plan)

## 1. The system

Every component persists in SQLite: the platform database (`silk_platform/db.py`),
the engine database (`silk_storage.py`) and the usage database (`silk_usage.py`).
Handlers open a connection, read, write under guarded `UPDATE`s (the guard in the
`WHERE`, the outcome in `rowcount`) and commit; there is no lock that spans two
transactions, the wallet's `BEGIN IMMEDIATE` excepted. So each transaction is atomic,
everything read before it may be stale inside it, and correctness rests on the guards.

| Component | State | Operations | Talks to | What is hard | What makes it correct |
|---|---|---|---|---|---|
| **Study-run runtime** `study_runtime.py`, `018_study_runs.sql` | table `study_runs`, `_HANDLES`, `_STOPPING` | create, dispatch, heartbeat, cancel, timeout, stale sweep, recover, shutdown | bridge, launch endpoint, overlapping process | interleaved claims, crashes, stops that race claims | one active run per study, cap, one ending per row, every run ends |
| **Engine bridge** `engine_bridge.py` | `_ACTIVE`, the fence `studies.run_token` | worker body, finish success/failure, orphan sweep | runtime, quota, engine | zombies of older attempts, cancel against success | late results are refused, a cancel is honoured, each failure returns its seat |
| **Launch and lifecycle** `api.py`, `lifecycle.py` | table `studies` | launch (three commits), complete, archive, delete, cancel | quota, runtime | check-then-act, partial failure, process death midway | in progress means there is a run; archived is final |
| **Quota and tiers** `quota.py`, `entitlements.py` | two counters, period and watermark of `accounts`; launch stamps of `studies` | reserve, release, roll, two resets, tier change | launch, bridge, scheduler | month boundary, resets and tier changes against returns | no launch uncounted, user and lifetime limits kept |
| **Wallet, billing, jobs** `wallet.py`, `billing.py`, `jobs.py`, `scheduler.py` | balances, ledger, each scheduler's slots | post, fund, metered charge, monthly storage bill | endpoints, one scheduler per process | read-modify-write, double submission, two schedulers, death midway | balance is the sum of the ledger; a key is charged once; debt has a floor; a month marked done was billed |
| **Research runs** `silk_research_runtime.py`, `silk_storage.py`, `/research` in `api.py`, `silk_usage.py` | table `analyses`, `_RUNS`, slots, daily dollars | admit, reserve, create, claim a resume, finish, fail, cancel, reap, stop | pipeline, day ledger | reaper against late finish, slot leaks, double settling | one pipeline per row, no slot lost, the day's ledger is what is booked, nothing is held for ever |
| **Research pipeline** `silk_research_pipeline.py`, checkpoints in `silk_storage.py`, `/analyses/{id}/report` | `research_missions`, `research_stages`, the saved result | the stages, resume, cancel marks, budget guard, writing a report again | missions, writer, storage | what a resume may reuse; paid text lost between writer and save | nothing is paid for twice, nothing stale is reused, a good report is never replaced by a worse one |
| **Missions and the tool loop** `silk_missions.py`, `silk_llm_runtime.py`, `silk_llm_provider.py`, `silk_context.py` | shared budgets, one thread per mission, the coordinator's reports | parallel pass, round loop, retries, deadline, cancel | provider, sources | threads nobody waits for, retries after a cancel, budget check-then-act | spending stops, the pass ends |
| **Source fetching** `silk_cache.py`, `silk_data_layer.py`, `silk_circuit.py` | files of the cache, failures and window per host, next slot per host | cached get, throttle, retry, breaker | sources | concurrent callers, half-open, write by rename | the host is spared, no torn or stale page, no caller held |
| Login throttle, sessions `throttle.py`, `auth.py` | attempts, tokens | record, check, revoke | login | none across transactions | the window is enforced |
| Ranking, judging, economics, rendering, translation, quality gates | none (arguments and results) | - | - | volume, not interleaving | section 9 |

The hazards of this code, each at its line, are listed in `PROJECT.json`.

## 2. Modules

| Module | What it is |
|---|---|
| `StudyRun` | the runtime, the bridge, the launch and lifecycle endpoints composed over one database, with any number of processes, studies and attempts |
| `SeatLedger` | the abstract account: a launch takes a seat, a failure gives that seat back, a completion keeps it. `StudyRun` implements it (`ImplementsLedger`, checked and proved) |
| `Quota` | the counters over time: clock, months, resets, tiers, per-user count. Where `StudyRun` has a bare counter of one period, this module has the statements of `quota.py` |
| `Wallet` | the money of the platform: transactions statement by statement under one lock, and the schedulers that bill |
| `ResearchRun` | the life of a research run around its pipeline: slots, day ledger, row, generation, settling, reaper, stop |
| `Pipeline` | the inside of one run over its attempts: missions, tail, checkpoints, saved result, regenerated report |
| `MissionRun` | the inside of the pipeline's first stage: threads, budgets, deadline, cancel |
| `SourceFetch` | the inside of a tool call: cache, throttle, breaker |
| `MC...` | the instances TLC checks, one per module |
| `..._proofs` | theorems and proofs, one per module above |

`StudyRun` and `Quota` are two views of the seat: `StudyRun` interleaves
processes and keeps time out, `Quota` keeps time and reduces a run to
running/completed/failed. They meet in `ReleaseLaunch`, which in `StudyRun` is the
guarded decrement of `Quota!Fail` inside one period.

`ResearchRun`, `Pipeline`, `MissionRun` and `SourceFetch` are nested: each treats the
next as one step with a free outcome. What an outer module assumes of the inner one is
what the inner one shows: a pipeline ends (fairness of `Raise \/ Finish` in
`ResearchRun`) because the missions' pass ends (`PassEnds`), which assumes that requests
do (`CallsEnd`). What a run spends in `ResearchRun` is bounded (`MaxCost`) by the caps
that `MissionRun` and `Pipeline` draw on.

## 3. StudyRun against the code

**State.** `study` and `run` are the rows of `studies` and `study_runs`; a run is
identified by its attempt (`run_token` is unique per launch). `run.stale` says the
heartbeat is older than `stale_s()`. `thread` is the `RunHandle` and the worker's
program counter; `thread.reason` is `cancel_reason` with its event, `verdict` is
what the engine returned. `proc` is the life of a process (one `BOOT_ID` each):
*stopping* from `_STOPPING = True` until `shutdown()` returns, *draining* until the
process exits. `req` is the launch request between its commits. `inflight`,
`suspects`, `cancelling` and `closing` are what handlers have read and not yet
acted on. `seat` is history.

**Actions.** One per committed transaction or step on process memory:

| Code | Actions |
|---|---|
| `launch_study` | `LaunchClaim`, `LaunchReserve`, then `LaunchCreateRun`, `LaunchCompensate` (refused) or `LaunchFails` (exception inside the `try`); `LaunchRaises` (exception outside it, under `LaunchCrash`) |
| `dispatch` | `Dispatch`: closes abandoned rows, counts, claims the oldest up to the free slots (fewer only if the process is stopping meanwhile) |
| `_start_claimed` | `StartThread`, `StartFails` |
| `_thread_body` | `EngineReturns`, then `FinishSuccess`, `FinishSuccessCancelled`, `FinishFailed` or `FinishRaises` |
| `tick` | `Heartbeat`, `SignalCancel`, `Timeout`, `TimeoutRaises`, `SweepStale`, `Dispatch` |
| `shutdown`, `recover`, process death | `ShutdownBegin`, `ShutdownInterrupt`, `ShutdownDone`, `Exit`, `BootUp` |
| `sweep_orphans` | `SweepOrphans` (the read), `SettleOrphan` (one study's write) |
| `request_cancel` | `CancelQueued`, `CancelQueuedFinish`, `CancelRunning` |
| complete, archive, delete | `CloseCheck` then `CloseWrite`, or `CloseQuietly`; `DeleteStudy` |

`FinishFailure` is the whole of `_finish_failure`: study under the fence, row on its
own guard, seat only if the study was reverted.

**Flags.** Four constants say which environment a run looks at, so that a property
broken by one hazard can still be checked in the absence of that hazard:

| Flag | `TRUE` means | why it is a flag |
|---|---|---|
| `RacyClose` | complete/archive may land between any two commits of a launch | their active-run check is not in the writing transaction |
| `LaunchCrash` | a process may die while it serves a launch, or raise before the handler's `try` (`api.py:2109`, the `try` is at 2142) | the claim, the reserve and the run row are separate commits, and only the last is compensated |
| `SlowLaunch` | a launch may outlive the orphan-sweep grace | the grace is minutes to an hour, a launch takes milliseconds |
| `HungThread` | a worker may hang past the grace with its run closed | this makes its `_ACTIVE` entry overdue |

With all four `FALSE` the system is the one its authors reason about: processes
still overlap, crash outside launches, stop, time out and cancel at any step. The
structural properties (section 7) are proved for every setting of the flags, and those
that a crash or an orphan sweep could break are also checked with three of them `TRUE`; the
fenced protocol and the refinement are proved with all four `FALSE`.

**Two reductions.** `SweepStale` re-reads the row it closes instead of keeping the
list read earlier: a heartbeat may lapse at any step of the model, so a row that was
stale when it was read is one that may lapse just before the write, and the name of
the ending is chosen over both values of the cancel flag (`InterruptNames`).
`Heartbeat` beats all live rows of a process at once, as the code's single
transaction does.

**External.** What the engine does between its start and its return is one step with a
free outcome (`EngineReturns`); nothing is assumed about its duration.

## 4. The other modules against the code

### Quota

`now` counts seconds, `MonthLen` of them make a month (`current_period`). `used` is
`current_month_study_count`, `life` is `lifetime_study_count`, `stamp` is `launched_at`,
`watermark` is `quota_reset_at`, 0 is NULL. A launch is `Claim` (stamp committed),
`CheckUser` (the account row is read, the derived count tested), `Roll` (the lazy roll,
its own commit; skipped for the basic tier), `Increment` (the guarded increment, which
reads the period again), then `Complete`, `DeleteStudy`, `Fail` (with `release_launch`,
which reads the tier of *today*) or `Compensate`. `MonthlyReset` and `ResetAccountQuota`
are the two resets, `ChangeTier` is `set_account_tier`. The clock may tick between any
two steps.

| Flag | `TRUE` means | why it is a flag |
|---|---|---|
| `LongRuns` | a run of a monthly package may be alive when the month turns | breaks `NeverUnderCounted`, section 8 |
| `SameSecond` | a launch and a reset may carry the same second | documented in `quota.py:268-269`: the comparison is strict |
| `TierRaces` | the tier may change while a launch is alive, and not only between launches | breaks `NeverUnderCounted` and `LifetimeNeverOver`, section 8 |

`UserNeverOver` holds with each of them.

### Wallet

Amounts are whole units. `tx[x]` is what an actor has read and written inside its
transaction; `balance` and `entries` are what is committed.

| Code | Actions |
|---|---|
| `BEGIN IMMEDIATE` | `BeginImmediate`: one writer, the others wait; `Busy`: a request gives up waiting |
| `already_charged`, `already_billed`, the delinquency check | `Check`, under the lock |
| `_apply` | `Write`: one leg on the balance the transaction sees, refused below the floor or, for a purchase, below zero |
| commit, any exception | `Commit`, `Fault` |
| `run_due`, `run_storage_billing` | `Due` (the slot is read), `StartBilling` (the period is read), `BillNext` (one account, one transaction), `JobDone`, `JobFails` (an exception outside the account's `try`, a locked database for one, ends the pass at any account) |
| a process dies | `Die`: its transaction is rolled back, its in-memory slots are lost |

`fund_wallet` is a transaction of two legs, `charge_metered` of one with a client's key,
a bill of one whose key is the month. `skipped` is history: the accounts whose bill
failed, which the job logs and passes over.

### ResearchRun

`row` is the row of `analyses` with the part of `progress_json` that settling reads:
the flag `usd_reconciled`, the amount `usd_reconciled_actual` and the cost so far.
`ledger` is `paid_usd` per day. `settle[a]` is what an actor (a request, the reaper or
the stop) is doing to the books of a row, one committed statement after the other.

| Code | Actions |
|---|---|
| `_research_impl` up to the thread | `Arrive` (the checks of a resume), `Admit` (`try_acquire` or 503), `ReserveUsd` (or 429), `ClaimResume` or `CreateRun`, `GiveBack`, `Throws` (an exception between reservation and registration), `Register`, `StartFails` |
| the background body and the pipeline | `PipelineStart`, `Spend` (a stage, its snapshot, its heartbeat), `Raise`, `Finish`, `Save`, `Release` |
| `mark_research_failed`, `reconcile_failed_run_usd`, `_reconcile_leaked_usd` | `Mark`, `ReadProgress`, `Pay`, `WriteFlag`, by whichever actor |
| `reconcile_run_usd_final` | `Finish` (the read), `PayFinal`, `WriteFlag` |
| `reap_orphan_research_runs` | `ReapTick` (leaves live handles out) or `ReapAll` (startup, refresh scheduler), then `ReapRow` |
| `shutdown`, process end | `ShutdownBegin`, `StopRun`, `Exit`, `Crash` |
| cancel endpoint, time | `Cancel`, `Lapse`, `NewDay` |

| Flag | `TRUE` means | why it is a flag |
|---|---|---|
| `LongSilence` | a live pipeline may be silent past the stale window, so that the unlimited reaper fails it over while it works | `TRUE` in both runs |
| `SettleRaces` | settlings of one row may overlap, or be cut off before their flag | breaks `NeverUnderBooked`, `BooksExact`, `WholeIsKept` and `SlotsExact`, section 8 |

*Assumed.* Midnight does not fall between a reservation and the first step of its
pipeline nor inside a settling (`NewDay`); one process at a time; merging into
`progress_json` is one step (the code reads and writes, section 8). A run may cost more
than its estimate (`ResearchEnds`).

*What is claimed of the day's ledger.* `BooksExact` speaks of the day that lasts, if its runs
began on it. `NeverUnderBooked` speaks of every day, today or past, on which no run of an
earlier day was resumed (`ResumedOverMidnight`): a resume settles against the amount its
row was settled to before, which is on another day's ledger, so on such a day the code
promises less than what is booked (section 8, `ResearchOldAmount`).

### Pipeline

A mission's report and every checkpoint is a *version of its inputs*: that is all that
`fingerprint()` and the reuse conditions compare. An attempt loads the rows (`Start`),
runs the missions that need it in any order (`RunMission`, each checkpointed at once), the
gaps mission (`RunGaps`), the deterministic additions (`Augment`), and then the tail:
`BeginTail` (the reuse condition), `RunAnalyst`, `KeepAnalyst`, `Synthesize`,
`RunWriter`, `KeepReport`, `StudyTail`, `EndTail`, `SaveResult`. Each `_stage_mark`
that honours a cancel is a `Stopped(name)` branch; `_budget_ok` is `BudgetOk` with
`BudgetHit` at any time. `Crash` ends an attempt at any step and leaves the rows.
`RegenRead` and `RegenWrite` are `POST /analyses/{id}/report`: one or both refreshes are run
(`Refreshes`), and what was run is stored in three commits (the missions, the analyst, the
result) of which an exception or a crash may leave out the later ones; the export gate's
verdict is free. `Overlap = FALSE` keeps that request from overlapping another writer of the row.

*Assumed.* The model is available (`ai_ok`), the study tail is on (`SILK_STUDY_SLOTS`),
gap recovery is off, checkpoint writes succeed (the code swallows their failure); the
writer's partial draft, the leads and the verdict, which no resume reads, are left out.

### MissionRun

`attempts` and `tools` are the run's two shared budgets, `agent[m]` the round loop of
one thread: `Top` (wall, cancel, budgets, in this order), `Reserve` (the place in the
budget), `Check` (cancel before every further attempt), `Raise` (either of them refuses: the
thread's call is over), `Retry`, `CallFails`, `Text`
(final, nudged or repaired), `ToolUse`. The coordinator is `Start`, `Wait`, `Collect`
(`cf_wait`), `Record`, `AllIn`, `Abandon` (deadline or cancel), `GapsIn`. `after`, `late`
and `intime` are history.

*Assumed.* `llm_calls` is left out (it counts what `attempts` counts, without retries);
a streaming answer is one step; an exception in a thread is a lost call.

### SourceFetch

All clocks are distances from now, so time is unbounded. `cached_get` is `Ask`,
`OpenTmp`, `CloseTmp`, `Rename`, `Age`; `_http_get` is `CheckOpen`, `CheckHalf` (two
locks), `Throttle`, `Send`, `NoAnswer`, `Busy`, `Answered`; the breaker's three
functions are `IsOpen`, `HalfOpen`, `RecordFailure`/`RecordSuccess`. `fd` follows the
POSIX meaning of an open file whose name is taken over by a rename. `OtherProcess`
writes the same page through a name of its own. A thread's temporary file has the
process in its name and not the thread, so two threads of one process may write one page
through one file: `fd` says what each of them is writing to, `crossed` (history) which
pages were written that way and not by one thread alone since.

Callers differ in what they keep. The World Bank's refuse an error envelope, those of
Comtrade, the IMF and the WTO keep any JSON object (the pages `Objects`); all of them give an
answer without rows a short life, except the index of the World Bank's indicators, which
says nothing of it (`Indexes`). Both sets are constants: the theorems hold for any, the run
has neither, which is the strictest.

A call of the model is one call of `cached_get`. A caller that asks again when it failed, as
`_public_indicator` does up to three times, makes several.

## 5. Runs, bounds and what they show

Times are with two workers on one machine; every run finishes its whole state space (up to the
symmetry named below). Where a cfg says `CHECK_DEADLOCK FALSE`, the system may stop: attempts,
processes, requests and the clock are bounded, and when everything asked for has ended nothing is left to do.

| Run | Bounds | Shows | States |
|---|---|---|---|
| `StudyRunRelaunch` | 1 study, 2 attempts, 2 processes, cap 2, limit 1, every user request | the fence: `RunAndStudyAgree`, `SeatFollowsRun`, `CancelNeverCompletes`, `ArchivedIsFinal`, `SeatReturnedOnce`, `ClaimedOnce`; the refinement `ImplementsLedger` | 1.7 M, 2 min |
| `StudyRunOrphans` | 2 studies, 2 attempts, 2 processes, cap 1, limit 1, crashing and slow launches, hung threads, no user requests | `OneActiveRun`, `CapRespected`, `ClosedRunsStayClosed` in the worst environment, with two studies contending for the slot and the seat | 4.4 M, 3 min |
| `StudyRunEnds` | 1 study, 1 attempt, 2 processes, all requests, archives inside launches, crashing and raising launches, fairness | `EveryRunEnds`, `EveryStudySettles` | 144 k |
| `Quota` | 3 launches, 2 users, limit 2, lifetime limit 1, user limit 1, three months of two seconds | `NeverUnderCounted`, `UserNeverOver`, `LifetimeNeverOver` | 1.1 M |
| `Research` | 3 requests, 2 rows, 2 slots, 1 day, 1 crash | `SlotsExact`, `OnePipelinePerRow`, `BooksExact`, `WholeIsKept` | 4.0 M, 2 min |
| `ResearchEnds` | 2 requests, 1 row, 1 slot, 2 days, 1 crash, a cost that may exceed its estimate, fairness | `NeverUnderBooked` over a midnight, `NothingHeldForEver` | 660 k, 2 min |
| `Wallet` | 2 clients, 2 schedulers, 2 factories and the vault, 2 months, 3 client operations, 1 death, faults at every statement | `LedgerSound`, `ChargedOnce`, `DoneIsBilled` | 2.1 M, 1 min |
| `Pipeline` | 2 missions and the gaps mission, 3 attempts, 2 versions of an input, 1 report written again | `TailFollowsMissions`, `NothingPaidInVain`, `ReportKept`, `RegenKeepsWhole` | 1.6 M |
| `MissionRun` | 2 missions in parallel and the one after them, 3 model calls, 1 tool call, 1 retry, fairness | `StopsSpending`, `PassEnds` | 932 k, 2 min |
| `SourceFetch` | 2 threads on 1 page, another process, threshold 2, cooldown 2, 1 retry, gap 1, fairness | `HostSpared`, `CacheHonest`, `DownHoldsNobody` | 85 k |
| `PipelineStale` | as `Pipeline`, nothing written again | a violation, section 8 | |
| `ResearchOldAmount` | as `ResearchEnds`, safety only | a violation, section 8 | |

`TypeOK` is checked once per module.

**Why these bounds are enough for the questions asked.**

- `StudyRun`: a zombie needs an older attempt and a newer one (2 attempts); a deploy needs a
  process that stops and one that takes over (2); contention for a slot needs two studies
  and a cap of one (`StudyRunOrphans`, which also has one seat for two launches, so that one
  is refused and compensated). The refinement is checked with one study, and proved for any
  number. The liveness run has one attempt, since what must happen to a row
  depends on its own handle, its process and the sweeps.
- `Quota`: a month has two seconds so that two steps of one launch may fall in the same month,
  or not; three months let a returned seat meet a counter that was rolled, and rolled again.
- `ResearchRun`: three requests for two rows let a third take a slot or a row while the first
  is reaped and the second resumes it. `ResearchEnds` has one slot, so that a lost one is felt.
- `Wallet`: two writers suffice for a lost update; two schedulers, two months and a death
  for a bill that is repeated, and for one that is missed.
- `Pipeline`: a stale tail needs an attempt that writes it, one that changes the missions and
  dies, and one that reuses it (3 attempts, 2 versions).
- `MissionRun`: with three calls for three missions the budget runs out in some thread at every
  place where it is read, and one thread can make all three: past its wall it may send two, so
  a loop that does not look at the wall sends a third and is found out. One mission with four
  calls passes as well (137 k states); `Retries = 1` lets a cancel fall between two tries of one call.
- `SourceFetch`: two threads on the same page are what the temporary name is about, and the
  breaker and the throttle do not look at the page. The safety properties also pass with a page
  of `Objects` beside one of `Indexes`, and with three threads on one page; a threshold of two
  tells a failure from an open breaker; two threads can be under way when it opens, and be let
  through together after the cooldown.

Symmetry is used on safety runs only, over identities that are compared for equality and
nothing else. Each property of a passing run has a mutant in `PROJECT.json`: a bug of the
code (a dropped `state = 'draft'`, a fence without the token, a slot returned twice, a
transaction begun without its lock, a tail kept when its inputs changed...) under which TLC
finds it violated.

## 6. Fairness

Every assumption is weak fairness of steps that the code takes by itself. Nothing is
assumed of users, of crashes, or of what an external service answers.

`StudyRun`:

- the steps of a launch request and of `_start_claimed`: straight-line code whose
  exceptions are handled (`LaunchCreateRun \/ LaunchFails`, `StartThread \/ StartFails`);
- the finishing transaction of a worker (`FinishSuccess`, ...), with `FinishRaises`
  always possible instead: nothing says that a finish ever succeeds;
- `Timeout`, `SweepStale`, `Dispatch`: `tick()` runs in the supervisor's loop and wraps
  each step in its own `try`, so one step's failure does not stop the next pass;
- `SweepOrphans`, `SettleOrphan`: the sweeper's timer loop (`start_orphan_sweeper`);
- `LapsesUnattended`: a heartbeat that nobody writes becomes old;
- `BootUp`, the steps of `shutdown()`, and the exit of a process that has been stopped:
  the platform restarts the service.

Nothing is assumed of the engine's return, of `Exit` before a stop, or of heartbeats.
`EveryRunEnds` therefore holds for an engine that hangs forever, and for a finishing
transaction that fails both times.

`ResearchRun`: the steps of a request, and of whoever is settling (straight-line code with
handlers); that a pipeline ends in a result or an exception (its stages and calls are
limited, which `MissionRun` and `SourceFetch` show for theirs); the reaper's timer; the end
of a process that is stopping. Not assumed: midnight, and the unlimited reaper.

`MissionRun`: the coordinator and the threads run, a request ends (it has a timeout), and
the deadlines pass. Nobody has to cancel. `PassEnds` does not need a thread to be waited for.

`SourceFetch`: a thread that has begun a call goes on, a request ends, time passes. That a
thread ever begins a call is not assumed.

## 7. Proofs

All theorems hold for every value of the constants that the module's named assumption
allows. Where a flag of section 3 or 4 names a race that breaks the property, the theorem has
its negation as a hypothesis and nothing else; TLC finds the property violated with the flag
`TRUE` and holds with it `FALSE`, so no hypothesis is vacuous and none is spare.

| Module | Theorem | States | Under |
|---|---|---|---|
| `StudyRun_proofs` | `TypeCorrect` | `Spec => []TypeOK` | |
| | `OneRunPerStudy`, `CapHolds`, `CancelWins` | `[]OneActiveRun`, `[]CapRespected`, `[]CancelNeverCompletes` | |
| | `ClosedForGood`, `ClaimedByOne` | `ClosedRunsStayClosed`, `ClaimedOnce` | |
| | `RowsAgree`, `SeatWithRun` | `[]RunAndStudyAgree`, `[]SeatFollowsRun` | `QuietLaunches` |
| | `ArchiveHolds`, `SeatReturnedWithStudy` | `ArchivedIsFinal`, `SeatReturnedOnce` | `QuietLaunches` |
| | `RefinesLedger` | `ImplementsLedger`: `StudyRun` implements `SeatLedger` | `QuietLaunches` |
| `SeatLedger_proofs` | `CounterIsHeldSeats` | the counter is the number of seats held, and at most the limit | |
| `Quota_proofs` | `TypeCorrect`, `UserLimitHolds` | `[]TypeOK`, `[]UserNeverOver` | |
| | `LifetimeHolds` | `[]LifetimeNeverOver` | `~ TierRaces` |
| | `CountersCoverSeats` | `[]NeverUnderCounted` | `Punctual` |
| `Wallet_proofs` | `WalletTypeCorrect`, `LedgerIsSound`, `ChargedOnlyOnce`, `MonthIsBilled` | `[]TypeOK`, `[]LedgerSound`, `[]ChargedOnce`, `[]DoneIsBilled` | |
| `ResearchRun_proofs` | `TypeCorrect` | `[]TypeOK` | |
| | `SlotsHold`, `OneRunPerRow`, `ResultsStay` | `[]SlotsExact`, `[]OnePipelinePerRow`, `WholeIsKept` | `~ SettleRaces` |
| | `BooksCover`, `BooksAreExact` | `[]NeverUnderBooked`, `[]BooksExact` | `~ SettleRaces` |
| `Pipeline_proofs` | `TypeCorrect`, `TailFollows` | `[]TypeOK`, `[]TailFollowsMissions` | |
| | `PaysForNothingTwice`, `ReportsSurvive`, `RegenLosesNoWhole` | `NothingPaidInVain`, `ReportKept`, `RegenKeepsWhole` | `~ Overlap` |
| `MissionRun_proofs` | `TypeCorrect`, `SpendingStops` | `[]TypeOK`, `[]StopsSpending` | |
| `SourceFetch_proofs` | `FetchTypeCorrect`, `HostIsSpared` | `[]TypeOK`, `[]HostSpared` | |
| | `CacheIsHonest` | `[]CacheHonest` | |

`QuietLaunches` is the four flags of `StudyRun` being `FALSE`; `Punctual` is
`~ TierRaces /\ ~ LongRuns /\ ~ SameSecond`.

**StudyRun, for every setting of the flags.** None of the structural invariants is inductive
alone: `CancelNeverCompletes` needs to know that a row is created without a flag and completed
only from *running*, `OneActiveRun` that a request writes its row once. The inductive
invariant is

    TableInv == TypeOK /\ NoRowYet /\ HandleHasRow /\ UnclaimedHasNoBoot

(a request before its last commit has no row; a handle exists only for a claimed row; an
unclaimed row has no boot). From it, lemma `EveryAttemptStep` shows once, with one case
per action, that every step of the system does to each attempt one of six things: keep
its row, create, claim, close, complete or delete it (`RowStep`), that its request only
moves forward (`RequestStep`) and that a handle appears only with a claim. Each theorem is
then read off that case split; the cap also needs `FillKeepsCap`, the arithmetic of
filling free slots.

**StudyRun, the fenced protocol.** Study, run, request and seat move together only because
of each other, so the four properties are one induction:

    FencedInv == NothingStale /\ TokensName /\ LaunchOwnsStudy /\ RunAndStudyAgree
                 /\ SeatFollowsLaunch /\ SeatFollowsRun /\ DraftHoldsNone /\ SeatsExact

`NothingStale` is where the hypotheses enter: no sweep holds a suspect and no close is past its
check. `TokensName` says which attempt a study's fence names, `LaunchOwnsStudy` that a launch
being served has not lost its study, `DraftHoldsNone` that a study in draft left no seat behind,
`SeatsExact` that the counter is the number of seats held. Lemma `EveryFencedStep` reduces every
action to one move of one attempt or study: a claim, a reservation, a compensation, or one of
`Enqueues`, `GivesUp`, `RunFails`, `RunCompletes`, `StudyArchived`, `StudyDeleted`, or nothing
the invariant can tell. The invariant, the two action properties and the refinement are proved
from the moves and not again from the actions. `RefinesLedger` with `CounterIsHeldSeats` is the
statement that matters to a customer: a seat that is given back is one that was taken, and the
package is never exceeded.

**Quota.** `UserNeverOver` needs `NothingAhead`, no stamp and no watermark ahead of the clock:
then the set a step adds to an admission window is at most the launch being checked, and time,
resets and tiers only shrink it. `LifetimeNeverOver` needs `TierIsRead` (a launch still has the
tier it read), and a count: the lifetime counter is never below the number of `Basics` in
flight or completed. `NeverUnderCounted` needs `SeatRule` for each launch at each of its steps.

**Wallet.** `LedgerSound` speaks of what is committed, and a step that commits is right only
because of what the transaction has done before. The inductive invariant is

    MoneyInv == TypeOK /\ OneWriter /\ LedgerSound /\ ChargedOnce /\ \A x \in Actors : TxSound(x)

`OneWriter` says that exactly the holder of the lock is past `BEGIN IMMEDIATE`, so that the
ledger does not move under it. `TxSound` says of the writing transaction (`Drafted`) that
the ledger *with its draft* would agree with the balances it holds, that its draft is a
beginning of its legs, that no balance is below its floor, and that its key is not in the
ledger. `BooksGrow` is the lemma about one entry more; a commit then publishes what was
already sound (`CommitKeeps`), and a fault or a death leaves what was there (`RollbackKeeps`,
`DieKeeps`). The books are stated without a sum: each entry carries its account's previous
balance on, and the wallet is where the last one left it, so a proof needs no induction on
the ledger. `DoneIsBilled` adds `JobSound`: an account that a pass has taken off its list is
billed, passed over with a log line, or in the transaction that the pass is in.

**ResearchRun.** `SlotsExact` and `OnePipelinePerRow` need each other: a slot is returned by
the handle that is popped, so a handle registered over another one would lose a slot, and two
runs of one row would register twice. The inductive invariant is

    RunInv == StateInv /\ SlotsExact /\ OnePipelinePerRow /\ ClaimInv

`StateInv` has the types and what they rest on. `ClaimInv` has eight parts: `HandlesTrue` (a handle is
that of the run it was registered for), `RunsRow` (a run carries its row's generation, and
between claim and registration nobody settles that row), `SeenBefore` (who waits for a row has
seen an earlier generation of it than the one that runs, which is why its claim fails),
`OneSettles`, `MarksNoResult`, `SettlesOwn`, `Created`, `StopsWhileStopping`. The proof showed
that `~ SettleRaces` is needed by the slots too: with overlapping settlings a reaper may fail a
row between a claim and its registration, a second resume then claims it, the second handle
replaces the first, and one slot never comes back. TLC confirms that trace.

**ResearchRun, the books of the day.** `BooksExact` and `NeverUnderBooked` compare a ledger
that moves by differences, taken from flags and amounts that were read earlier, with the sum
of what each request has booked. The inductive invariant is `RunInv /\ BookInv`,

    BookInv == Dated /\ OneCarrier /\ RowsTell /\ FoundTrue /\ (\A q : Reserved(q))
               /\ (\A a : ReadTrue(a)) /\ Covers /\ Exactly

`RowsTell` is its heart: while its flag is down a row's run has the estimate booked, and once it
is up what stands beside it, unless a settling has moved the ledger and not yet written
(`Moved`). `ReadTrue` and `FoundTrue` say that what an actor, or the reaper's list, has read of
a row still holds when it is acted on, which is where `~ SettleRaces` enters; `OneCarrier` that
an existing row carries the run of exactly one request; `Dated` and `Reserved` on which day a
request has reserved, from its reservation to the day its pipeline captured. `Covers` and
`Exactly` are the two properties, with their exceptions stated for the runs that a row carries
(`Strayed`: resumed after the day of its row) so that they survive the end of the process.
Steps that leave the books alone go through one lemma (`OneActs`), the two that settle an amount
through another (`SettlingMoves`); a claim and a creation are one move (`TakesRow`).
The sum is `MapThenSumSet`, a fold, that is, a recursive function chosen once. Its induction
is over subsets of a finite set: `FoldUnique` shows by well-foundedness that
there is only one such function, `SumIsPile` that it is the cardinality of a pile with `f[x]`
pieces for each `x`; adding, changing and leaving a summand (`SumAdds`, `SumMoves`, `SumSame`)
are then facts about cardinalities.

**Pipeline.** `TailInv` says, of a run whose checkpoints were clean when it began, that what it
may reuse belongs to the versions it *loaded* until the tail begins and to those it *has*
afterwards; `RunsAgain` is the bridge between the two: a mission is as it was loaded and needed
no run, or it is a later version. `PaidInv` adds what is on disk when a report is paid for
(`Held`, `Written`) and that nobody else writes the row (`Alone`).

**MissionRun.** `StopsSpending` counts requests sent after a cancel and after the wall.
`AfterRule` and `LateRule` say how much a thread may still send from each place of its loop;
the induction is over the steps of one thread, the coordinator only freezing the others.

**SourceFetch.** `SpentOnce` needs to know what a thread may still send; `FetchInv` adds
`Retrying` (what was sent and what may still be sent stay within the configured attempts)
and, of the throttle, that reserved slots lie a gap apart and before the next free one.
`CacheHonest` follows the temporary file of each page through the threads that write it, and
adds `Files`: a thread has a file open from its open to its close (`HasFile`); the file
under the temporary name is there while a thread has it open, and cut short only while one
has (`TmpThere`, `TmpOpen`); two threads write a page at once only if it is in `crossed`, and
only then is a file open that bears the page's name (`Crossing`, `NamedWhileOpen`); and a
thread that is by now its page's only writer has written the temporary file from the start,
or that file is gone (`LoneWriter`). The theorem has no hypothesis: two threads on one page
are in it, and a page leaves `crossed` only by the rename of a thread that wrote it alone.

**What the proofs changed in the models.** `ResearchRun` now assumes `MaxDay >= 1` (its first day
exists), and that `None`, the SQL `NULL` of an amount never written, is not itself an amount.
`NeverUnderBooked`, which an earlier version stated of every day, is false of a run
that costs more than its estimate and is resumed over midnight; the old bound (a cost of at most the
estimate) hid it. The property now excludes exactly those days, the bound is lifted, and
what the code does there is a run of its own (`ResearchOldAmount`, section 8).

*Model-checked only.* Liveness under fairness (`EveryRunEnds`, `EveryStudySettles`,
`NothingHeldForEver`, `PassEnds`, `DownHoldsNobody`) is out of the prover's reach. Every
invariant and every action property of the passing runs is stated by a theorem.

## 8. Disagreements between code and documentation

Two are kept as runs that find them violated:

| Run | Property | The code |
|---|---|---|
| `PipelineStale` | `TailAlwaysFollows`: a report is saved beside the missions it was computed from | when a mission has to run again, the saved analyst and report are dropped from the attempt's memory (`silk_research_pipeline.py:328`), and their rows stay. If that attempt dies after the missions' checkpoints and before its analyst's, the next one finds every mission good and reuses the old tail. The comment above the line says that a change of any input cancels it |
| `ResearchOldAmount` | `FinalFromBooked`: the final settling of a run starts from what that run has on the ledger | a claim takes the flag down and leaves the amount the previous attempt was settled to (`silk_storage.py:407`). When a resumed run of an earlier day is reaped while it works, the reaper puts the flag up again without an amount, and the run's own end then starts from the old amount instead of its reservation (`reconcile_run_usd_final`, `silk_storage.py:519`); the comment at `silk_storage.py:512-513` says the amount is the one the ledger was settled to |

The others are reproduced by turning a flag of a cfg to `TRUE`, or by adding the property
named. They are ordinary correctness races, mostly windows of milliseconds.

| Reproduce with | Property | The code |
|---|---|---|
| `RacyClose` | `SeatFollowsRun` | `dispatch` closes an abandoned queued row without returning its seat (`study_runtime.py:158`) |
| `RacyClose` | `ArchivedIsFinal`, `SeatReturnedOnce` | a refused launch's compensation has no state guard and puts an archived study back to draft (`api.py:2114`); the exception path returns the seat unconditionally (`api.py:2189`) |
| `LaunchCrash` | `SeatReturnedOnce` | the orphan sweep returns a seat for a launch that died, or raised, before reserving (`engine_bridge.py:1906`); the claim and the reserve are outside the handler's `try` (`api.py:2109`, 2142) |
| adding it | `ShutdownSealsItsRuns` | a dispatch in flight commits after the stop's read (`study_runtime.py:523`, against the comment at 519-520) |
| `LongRuns` | `NeverUnderCounted` | last month's failure lowers this month's counter (`quota.py:277`) |
| `TierRaces` | `NeverUnderCounted`, `LifetimeNeverOver` | a return looks at today's tier (`entitlements.py:187`, `quota.py:5`) |
| `SettleRaces` | `NeverUnderBooked`, `BooksExact`, `WholeIsKept`, `SlotsExact` | two settlings of one row that overlap between their read and their flag take the estimate off twice, and the failure mark asks for no state (`silk_storage.py:509-516`, against the docstring at 494-495) |
| adding it | `NoTruncatedFile` | two threads that write one page at once can leave it cut short or garbled until one of them, or the next, is done: the temporary name has the process in it and not the thread (`silk_cache.py:133`, whose comment says that no file is cut short) |
| adding it | `FinishedIsKept` | a mission that ended in time and was not collected yet is reported as timed out (`silk_missions.py:1010-1036`, against the docstring at 942-945) |
| `Overlap` | `RegenKeepsWhole`, `ReportKept`, `NothingPaidInVain` | two writers of one row, each from what it read (`api.py:4396`) |

Met while modelling, and followed by the models as the code has it:

- *Studies and seats.* The orphan sweep takes a launch younger than its grace when an
  older attempt's entry is overdue (`HungThread`, `engine_bridge.py:1861`). A cancel that
  arrives after the engine's saved result wins in `_finish_success`
  (`engine_bridge.py:1405`); the comment at line 1677 promises the opposite. When the month
  turns between the lazy roll and the increment (`quota.py:220`), the new month starts with
  the old count; when it turns, or a reset is made, between claim and user check
  (`quota.py:191`), the check does not count its own launch; a reset makes a basic-tier
  return impossible (`quota.py:271`); deleting a completed study removes it from its user's
  count (`repository.py:223`).
- *Money.* A bill that fails is logged and passed over while its month is marked done
  (hence `skipped` in `DoneIsBilled`); a month in which no pass began is never billed;
  `charge_metered` has no caller outside the tests; funding has no key.
- *Research.* An exception between the reservation and the row of a new run
  (`silk_usage.try_reserve_usd` in `api.py`, the `create_research_run` at 3077) returns the slot
  and leaves the dollars booked for the day, with no row that any reaper could settle. Merging
  into `progress_json` is a read and a write in two statements (`silk_storage.py:428-463`); a
  resume that fails on a later day keeps its reservation; a run that fails between its claim and
  its first snapshot settles to the previous attempt's cost. A budget hit on a resume can hide a
  paid report, and a completed row resumed for what it lacks can end with none. The early return
  of the report endpoint for a text that is not better loses the refreshes that were paid for;
  the comment at `silk_research_pipeline.py:381-387` describes a path that cannot be taken.
- *Missions.* The reserve that the comment at `silk_llm_runtime.py:1458` keeps for the final
  call does not hold for two missions at the cap less one; a repair call may be sent
  after the wall.
- *Sources.* An empty index of indicators lives its full seven days, since its caller names no
  short life (`silk_data_layer.py:1149-1151`); an error envelope of Comtrade, the IMF or the WTO
  that is a JSON object is kept, for a short time (`silk_data_layer.py:931`). Of two threads
  that write one page at once, the one whose answer is without rows may leave it with a full
  life. After the cooldown every concurrent caller is a probe, where the docstring says one; a
  late success closes a breaker that others' failures opened; a crash before an empty page is
  aged gives it a full life; breaker and throttle are per process, so two processes double the
  rate.

## 9. What is not modelled

- **Inside a modelled component.** The study runs a process executes without a database
  (`persist=False`) and those the platform starts for itself; two overlapping processes in
  `ResearchRun`; in `Pipeline`, runs without a model, gap recovery and failing checkpoint
  writes; the count of calls without retries, and streaming, in `MissionRun`; a lost or
  corrupted database file.
- **Two engines on one study.** A timed-out worker and the relaunch of its study may both be
  inside the engine. What they do to the platform's rows is in `StudyRun`; what they spend
  twice is not, since to that module the engine is one step.
- **Notifications, audit, the administrator's changes of limits**: written after the commit,
  in their own transaction, their failure swallowed; the limits are constants.
- **Login throttle, sessions, repositories, datasets, housekeeping**: one statement or one
  transaction each, nothing that interleaves.
- **Payments** is a stub; **prices and packages** are tables that give the constants.
- **Ranking, judging, economics, the fact ledger, rendering, translation, quality gates**:
  about nine tenths of the repository's lines. They are pure functions of one thread over
  texts and numbers, whose correctness is in wording, thresholds and layout that a state
  machine has nothing to say about. This is why the map covers a small share of the lines,
  though it covers the code that keeps state between two steps.

## 10. Plan

- The failed checkpoint write in `Pipeline`, and a second process in `ResearchRun`.
- What the flagged races leave standing: the invariants of the research runs and of the quota
  that hold with overlapping settlings and tier changes as well, stated and proved without the
  hypothesis.
