--------------------------- MODULE StudyRun_proofs ---------------------------
(***************************************************************************)
(* Proofs about StudyRun, for every set of studies, attempts and           *)
(* processes, every cap and limit.  The first part holds for every setting *)
(* of the flags; the second, the fenced protocol and its refinement of the *)
(* seat ledger, under QuietLaunches.                                       *)
(***************************************************************************)
EXTENDS StudyRun, FiniteSetTheorems, TLAPS

-----------------------------------------------------------------------------
(* Writes to one row keep its type.                                        *)

(* A study row keeps its type when its state is written. *)
LEMMA StudyWrite ==
    ASSUME TypeOK, NEW s,
           NEW st \in {"draft", "completed", "archived", "deleted"}
    PROVE  [study EXCEPT ![s].state = st] \in [Studies -> StudyRow]
<1>1. CASE s \in Studies
  BY <1>1 DEF TypeOK, StudyRow
<1>2. CASE s \notin Studies
  BY <1>2 DEF TypeOK
<1>. QED
  BY <1>1, <1>2

(* Closing a run row keeps its type. *)
LEMMA ClosedRow ==
    ASSUME NEW r \in RunRow, NEW outcome \in TerminalStates \cup {"deleted"}
    PROVE  Closed(r, outcome) \in RunRow
BY DEF RunRow, Closed

(* _close_run_row keeps the type of the table. *)
LEMMA CloseRunRowType ==
    ASSUME TypeOK, NEW a \in Attempts, NEW outcome \in TerminalStates
    PROVE  CloseRunRow(a, outcome) \in [Attempts -> RunRow]
BY ClosedRow DEF TypeOK, CloseRunRow

(* _finish_failure keeps the types of everything it writes. *)
LEMMA FinishFailureType ==
    ASSUME TypeOK, NEW a \in Attempts, NEW outcome \in FailureStates,
           FinishFailure(a, outcome)
    PROVE  /\ study' \in [Studies -> StudyRow]
           /\ run' \in [Attempts -> RunRow]
           /\ used' \in Nat
           /\ seat' \in [Attempts -> {"none", "held", "returned"}]
<1>1. study' \in [Studies -> StudyRow]
  BY StudyWrite DEF FinishFailure, Fenced, TypeOK
<1>2. run' \in [Attempts -> RunRow]
  BY CloseRunRowType DEF FinishFailure, TerminalStates
<1>3. used' \in Nat /\ seat' \in [Attempts -> {"none", "held", "returned"}]
  BY DEF FinishFailure, ReleaseLaunch, TypeOK
<1>. QED
  BY <1>1, <1>2, <1>3

(* One field of one run row, and of one handle. *)
LEMMA RunFieldWrite ==
    ASSUME TypeOK, NEW a \in Attempts, NEW v \in BOOLEAN
    PROVE  /\ [run EXCEPT ![a].stale = v] \in [Attempts -> RunRow]
           /\ [run EXCEPT ![a].cancel = v] \in [Attempts -> RunRow]
<1>1. /\ [run[a] EXCEPT !.stale = v] \in RunRow
      /\ [run[a] EXCEPT !.cancel = v] \in RunRow
  BY DEF TypeOK, RunRow
<1>. QED
  BY <1>1 DEF TypeOK

(* The handle of a worker that ended, of one that starts, and its fields. *)
LEMMA HandleWrite ==
    ASSUME TypeOK, NEW a \in Attempts
    PROVE  /\ NoHandle("gone") \in Handle
           /\ \A pc \in HandlePcs \cup {"claimed"} :
                 [thread[a] EXCEPT !.pc = pc] \in Handle
           /\ \A r \in {"none", "requested", "timeout", "shutdown"} :
                 /\ [thread[a] EXCEPT !.reason = r] \in Handle
                 /\ [NoHandle("engine") EXCEPT !.reason = r] \in Handle
           /\ \A v \in TerminalStates, pc \in HandlePcs :
                 [thread[a] EXCEPT !.pc = pc, !.verdict = v] \in Handle
           /\ NamedFailure(a) \in TerminalStates
<1>1. thread[a] \in Handle
  BY DEF TypeOK
<1>2. NamedFailure(a) \in TerminalStates
  BY <1>1 DEF NamedFailure, TerminalStates, FailureStates, Handle
<1>. QED
  BY <1>1, <1>2 DEF Handle, HandlePcs, NoHandle

(* The row create_run inserts. *)
LEMMA NewRowType == ASSUME TypeOK PROVE NewRow \in RunRow
<1>. DEFINE R == {x \in Attempts : run[x].state # "none"}
<1>1. IsFiniteSet(R)
  BY StudyRunAssumption, FS_Subset
<1>2. Cardinality(R) \in Nat
  BY <1>1, FS_CardinalityType
<1>. QED
  BY <1>2 DEF NewRow, RunRow, ActiveStates

-----------------------------------------------------------------------------
(* Every variable keeps its type: the rows of the database, the requests,  *)
(* the handles and what handlers have read hold only values that exist.    *)
THEOREM TypeCorrect == Spec => []TypeOK
<1>1. Init => TypeOK
  BY DEF Init, TypeOK, NoHandle, InFlight, HandlePcs, StudyRow, RunRow,
     Request,
         Handle, ActiveStates, FailureStates, TerminalStates
<1>2. ASSUME TypeOK, [Next]_vars PROVE TypeOK'
  <2>. USE <1>2, StudyRunAssumption DEF TypeOK
  <2>1. ASSUME NEW a \in Attempts, NEW s \in Studies, NEW b \in Boots, LaunchClaim(a, s, b)
        PROVE  TypeOK'
    BY <2>1 DEF LaunchClaim, ClaimableStudy, StudyRow, Request, InFlight
  <2>2. ASSUME NEW a \in Attempts, LaunchReserve(a) PROVE TypeOK'
    BY <2>2 DEF LaunchReserve, Request, InFlight
  <2>3. ASSUME NEW a \in Attempts, LaunchCompensate(a) PROVE TypeOK'
    <3>1. study' \in [Studies -> StudyRow]
      BY <2>3, StudyWrite DEF LaunchCompensate
    <3>. QED
      BY <2>3, <3>1, SMTT(30) DEF LaunchCompensate, Request
  <2>4. ASSUME NEW a \in Attempts, LaunchCreateRun(a) PROVE TypeOK'
    <3>1. run' \in [Attempts -> RunRow]
      BY <2>4, NewRowType, ClosedRow DEF LaunchCreateRun, TerminalStates,
         FailureStates
    <3>. QED
      BY <2>4, <3>1 DEF LaunchCreateRun, Request
  <2>5. ASSUME NEW a \in Attempts, LaunchFails(a) PROVE TypeOK'
    <3>1. study' \in [Studies -> StudyRow]
      BY <2>5, StudyWrite DEF LaunchFails
    <3>. QED
      BY <2>5, <3>1 DEF LaunchFails, ReleaseLaunch, Request
  <2>6. ASSUME NEW a \in Attempts, StartThread(a) PROVE TypeOK'
    BY <2>6, HandleWrite DEF StartThread
  <2>7. ASSUME NEW a \in Attempts, StartFails(a) PROVE TypeOK'
    <3>1. "failed" \in FailureStates /\ FinishFailure(a, "failed")
      BY <2>7 DEF StartFails, FailureStates
    <3>2. thread' \in [Attempts -> Handle]
      BY <2>7, HandleWrite DEF StartFails
    <3>. QED
      BY <2>7, <3>1, <3>2, FinishFailureType DEF StartFails
  <2>8. ASSUME NEW a \in Attempts, NEW v \in TerminalStates, EngineReturns(a, v)
        PROVE  TypeOK'
    BY <2>8, HandleWrite DEF EngineReturns, HandlePcs
  <2>9. ASSUME NEW a \in Attempts, FinishSuccessCancelled(a) PROVE TypeOK'
    BY <2>9 DEF FinishSuccessCancelled, Handle, TerminalStates, FailureStates
  <2>10. ASSUME NEW a \in Attempts, FinishSuccess(a) PROVE TypeOK'
    BY <2>10, StudyWrite, CloseRunRowType, HandleWrite DEF FinishSuccess,
       TerminalStates
  <2>11. ASSUME NEW a \in Attempts, FinishFailed(a) PROVE TypeOK'
    BY <2>11, FinishFailureType, HandleWrite DEF FinishFailed
  <2>12. ASSUME NEW a \in Attempts, FinishRaises(a) PROVE TypeOK'
    BY <2>12, HandleWrite DEF FinishRaises, HandlePcs
  <2>13. ASSUME NEW a \in Attempts, HeartbeatLapses(a) PROVE TypeOK'
    BY <2>13, RunFieldWrite DEF HeartbeatLapses
  <2>14. ASSUME NEW a \in Attempts, SignalCancel(a) PROVE TypeOK'
    BY <2>14, HandleWrite DEF SignalCancel
  <2>15. ASSUME NEW a \in Attempts, Timeout(a) PROVE TypeOK'
    <3>. DEFINE name == IF thread[a].reason = "requested" THEN "cancelled" ELSE "failed"
    <3>1. name \in FailureStates /\ FinishFailure(a, name)
      BY <2>15 DEF Timeout, FailureStates
    <3>2. thread[a].reason \in {"none", "requested", "timeout", "shutdown"}
      BY DEF Handle
    <3>3. thread' \in [Attempts -> Handle]
      BY <2>15, <3>2, HandleWrite DEF Timeout
    <3>. QED
      BY <2>15, <3>1, <3>3, FinishFailureType DEF Timeout
  <2>16. ASSUME NEW a \in Attempts, TimeoutRaises(a) PROVE TypeOK'
    BY <2>16, HandleWrite DEF TimeoutRaises
  <2>17. ASSUME NEW a \in Attempts, NEW b \in Boots, CancelQueued(a, b)
        PROVE  TypeOK'
    <3>1. run' \in [Attempts -> RunRow]
      BY <2>17, RunFieldWrite DEF CancelQueued
    <3>. QED
      BY <2>17, <3>1 DEF CancelQueued
  <2>18. ASSUME NEW a \in Attempts, NEW b \in Boots, CancelQueuedFinish(a, b)
        PROVE  TypeOK'
    <3>1. "cancelled" \in FailureStates /\ FinishFailure(a, "cancelled")
      BY <2>18 DEF CancelQueuedFinish, FailureStates
    <3>. QED
      BY <2>18, <3>1, FinishFailureType DEF CancelQueuedFinish
  <2>19. ASSUME NEW a \in Attempts, CancelRunning(a) PROVE TypeOK'
    BY <2>19, RunFieldWrite DEF CancelRunning
  <2>20. ASSUME NEW b \in Boots, Dispatch(b) PROVE TypeOK'
    <3>. PICK S \in SUBSET Claimable :
            /\ run' = [a \in Attempts |->
                  IF a \in S
                  THEN [run[a] EXCEPT !.state = "running", !.boot = b, !.stale = FALSE]
                  ELSE IF a \in Abandoned THEN Closed(run[a], "cancelled")
                  ELSE run[a]]
            /\ thread' = [a \in Attempts |->
                  IF a \in S THEN [thread[a] EXCEPT !.pc = "claimed"] ELSE thread[a]]
      BY <2>20 DEF Dispatch
    <3>1. \A r \in RunRow :
             [r EXCEPT !.state = "running", !.boot = b, !.stale = FALSE] \in RunRow
      BY DEF RunRow, ActiveStates
    <3>2. run' \in [Attempts -> RunRow]
      BY <3>1, ClosedRow DEF TerminalStates, FailureStates
    <3>3. thread' \in [Attempts -> Handle]
      BY HandleWrite
    <3>. QED
      BY <2>20, <3>2, <3>3 DEF Dispatch
  <2>21. ASSUME NEW b \in Boots, Heartbeat(b) PROVE TypeOK'
    <3>1. \A a \in Attempts : [run[a] EXCEPT !.stale = FALSE] \in RunRow
      BY ZenonT(40) DEF RunRow
    <3>2. run' \in [Attempts -> RunRow]
      BY <2>21, <3>1 DEF Heartbeat
    <3>. QED
      BY <2>21, <3>2 DEF Heartbeat
  <2>22. ASSUME NEW b \in Boots, SweepStale(b) PROVE TypeOK'
    <3>. PICK a \in StaleRows(b) : \E x \in InterruptNames(a) : FinishFailure(a, x)
      BY <2>22 DEF SweepStale
    <3>. PICK name \in InterruptNames(a) : FinishFailure(a, name)
      OBVIOUS
    <3>1. a \in Attempts /\ name \in FailureStates
      BY DEF StaleRows, Running, InterruptNames, FailureStates
    <3>. QED
      BY <2>22, <3>1, FinishFailureType DEF SweepStale
  <2>23. ASSUME NEW b \in Boots, SweepOrphans(b) PROVE TypeOK'
    <3>1. \A s \in Orphans(b) : s \in Studies /\ study[s].token \in Attempts
      BY DEF Orphans, StudyRow
    <3>2. suspects' \in [Boots -> SUBSET (Studies \X Attempts)]
      BY <2>23, <3>1 DEF SweepOrphans
    <3>. QED
      BY <2>23, <3>2 DEF SweepOrphans
  <2>24. ASSUME NEW b \in Boots, SettleOrphan(b) PROVE TypeOK'
    <3>. PICK o \in suspects[b] :
            /\ suspects' = [suspects EXCEPT ![b] = @ \ {o}]
            /\ \/ /\ study' = [study EXCEPT ![o[1]].state = "draft"]
                  /\ ReleaseLaunch(o[2])
               \/ /\ study' = [study EXCEPT ![o[1]].state = "completed"]
                  /\ UNCHANGED << used, seat >>
               \/ UNCHANGED << study, used, seat >>
      BY <2>24 DEF SettleOrphan
    <3>1. study' \in [Studies -> StudyRow]
      <4>1. \A st \in {"draft", "completed"} :
               [study EXCEPT ![o[1]].state = st] \in [Studies -> StudyRow]
        BY StudyWrite
      <4>. QED
        BY <4>1
    <3>2. used' \in Nat /\ seat' \in [Attempts -> {"none", "held", "returned"}]
      BY DEF ReleaseLaunch
    <3>3. suspects' \in [Boots -> SUBSET (Studies \X Attempts)]
      OBVIOUS
    <3>. QED
      BY <2>24, <3>1, <3>2, <3>3 DEF SettleOrphan
  <2>25. ASSUME NEW b \in Boots, BootUp(b) PROVE TypeOK'
    BY <2>25 DEF BootUp
  <2>26. ASSUME NEW b \in Boots, ShutdownBegin(b) PROVE TypeOK'
    BY <2>26, HandleWrite DEF ShutdownBegin
  <2>27. ASSUME NEW b \in Boots, ShutdownInterrupt(b) PROVE TypeOK'
    <3>. PICK a \in Running : \E x \in InterruptNames(a) : FinishFailure(a, x)
      BY <2>27 DEF ShutdownInterrupt
    <3>. PICK name \in InterruptNames(a) : FinishFailure(a, name)
      OBVIOUS
    <3>1. a \in Attempts /\ name \in FailureStates
      BY DEF Running, InterruptNames, FailureStates
    <3>. QED
      BY <2>27, <3>1, FinishFailureType DEF ShutdownInterrupt
  <2>28. ASSUME NEW b \in Boots, ShutdownDone(b) PROVE TypeOK'
    BY <2>28 DEF ShutdownDone
  <2>29. ASSUME NEW b \in Boots, Exit(b) PROVE TypeOK'
    <3>1. \A a \in Attempts : [req[a] EXCEPT !.pc = "lost"] \in Request
      BY DEF Request
    <3>2. req' \in [Attempts -> Request]
      BY <2>29, <3>1 DEF Exit
    <3>3. thread' \in [Attempts -> Handle]
      BY <2>29, HandleWrite DEF Exit
    <3>. QED
      BY <2>29, <3>2, <3>3 DEF Exit
  <2>30. ASSUME NEW s \in Studies, NEW to \in CloseOps, NEW b \in Boots, CloseCheck(s, to, b)
        PROVE  TypeOK'
    BY <2>30 DEF CloseCheck, CloseOps
  <2>31. ASSUME NEW s \in Studies, NEW to \in CloseOps, NEW b \in Boots, CloseWrite(s, to, b)
        PROVE  TypeOK'
    BY <2>31, StudyWrite DEF CloseWrite
  <2>32. ASSUME NEW s \in Studies, NEW to \in CloseOps, CloseQuietly(s, to)
        PROVE  TypeOK'
    BY <2>32, StudyWrite DEF CloseQuietly, CloseOps
  <2>33. ASSUME NEW s \in Studies, DeleteStudy(s) PROVE TypeOK'
    <3>1. run' \in [Attempts -> RunRow]
      BY <2>33, ClosedRow DEF DeleteStudy
    <3>. QED
      BY <2>33, <3>1, StudyWrite DEF DeleteStudy
  <2>34. CASE UNCHANGED vars
    BY <2>34 DEF vars
  <2>35. ASSUME NEW a \in Attempts, LaunchRaises(a) PROVE TypeOK'
    BY <2>35 DEF LaunchRaises, Request
  <2>. QED
    BY <2>1, <2>2, <2>3, <2>4, <2>5, <2>6, <2>7, <2>8, <2>9, <2>10, <2>11,
       <2>12, <2>13, <2>14, <2>15, <2>16, <2>17, <2>18, <2>19, <2>20, <2>21,
       <2>22, <2>23, <2>24, <2>25, <2>26, <2>27, <2>28, <2>29, <2>30, <2>31,
       <2>32, <2>33, <2>34, <2>35 DEF Next, LaunchStep, WorkerStep,
       HandleStep, CancelStep, SupervisorStep, ProcessStep, LifecycleStep
<1>. QED
  BY <1>1, <1>2, PTL DEF Spec

-----------------------------------------------------------------------------
(* The life of a run row.  Every invariant of the table study_runs is read *)
(* off what one step may do to one row, its request and its handle.        *)

(* A request that has not yet written its run row. *)
Fresh == {"idle", "claimed", "reserved", "refused"}

NoRowYet == \A x \in Attempts : req[x].pc \in Fresh => run[x].state = "none"

HandleHasRow ==
    \A x \in Attempts : thread[x].pc # "none" => run[x].state \notin {"none", "queued"}

UnclaimedHasNoBoot ==
    \A x \in Attempts : run[x].state \in {"none", "queued"} => run[x].boot = None

TableInv == TypeOK /\ NoRowYet /\ HandleHasRow /\ UnclaimedHasNoBoot

RowKept(x) ==
    /\ run'[x].state = run[x].state
    /\ run'[x].boot = run[x].boot
    /\ run'[x].cancel = run[x].cancel \/ Active(x)

RowCreated(x) ==
    /\ req[x].pc = "reserved"
    /\ req'[x].pc = "closed"
    /\ run'[x].state = "queued"
    /\ run'[x].boot = None
    /\ run'[x].cancel = FALSE
    /\ \A y \in Attempts \ {x} : req[y].study = req[x].study =>
          run'[y].state \notin ActiveStates

RowClaimed(x) ==
    /\ run[x].state = "queued"
    /\ run'[x].state = "running"
    /\ run'[x].cancel = run[x].cancel
    /\ CapRespected'

RowClosed(x) ==
    /\ Active(x)
    /\ run'[x].state \in FailureStates
    /\ run'[x].boot = run[x].boot
    /\ run'[x].cancel = run[x].cancel

RowCompleted(x) ==
    /\ run[x].state = "running"
    /\ ~ run[x].cancel
    /\ run'[x].state = "completed"
    /\ run'[x].boot = run[x].boot
    /\ run'[x].cancel = run[x].cancel

RowDeleted(x) ==
    /\ run[x].state \in TerminalStates
    /\ run'[x].state = "deleted"
    /\ run'[x].boot = run[x].boot
    /\ run'[x].cancel = run[x].cancel

RowStep(x) ==
    \/ RowKept(x)
    \/ RowCreated(x)
    \/ RowClaimed(x)
    \/ RowClosed(x)
    \/ RowCompleted(x)
    \/ RowDeleted(x)

RequestStep(x) ==
    /\ req'[x].pc \in Fresh => req[x].pc \in Fresh
    /\ req[x].pc # "idle" => req'[x].study = req[x].study

HandleAppears(x) ==
    thread[x].pc = "none" /\ thread'[x].pc # "none" =>
        run'[x].state \notin {"none", "queued"}

AttemptStep(x) == RowStep(x) /\ RequestStep(x) /\ HandleAppears(x)

(* _close_run_row closes an active row under a failure's name, or leaves   *)
(* the table as it is.                                                     *)
LEMMA CloseRunRowStep ==
    ASSUME TypeOK, NEW a \in Attempts, NEW outcome \in FailureStates,
           run' = CloseRunRow(a, outcome)
    PROVE  \A x \in Attempts : RowKept(x) \/ RowClosed(x)
<1>1. CASE Active(a)
  <2>1. run' = [run EXCEPT ![a] = Closed(@, outcome)]
    BY <1>1 DEF CloseRunRow
  <2>2. RowClosed(a)
    BY <1>1, <2>1 DEF TypeOK, RunRow, RowClosed, Closed
  <2>3. \A x \in Attempts \ {a} : RowKept(x)
    BY <2>1 DEF TypeOK, RowKept
  <2>. QED
    BY <2>2, <2>3
<1>2. CASE ~ Active(a)
  BY <1>2 DEF CloseRunRow, RowKept
<1>. QED
  BY <1>1, <1>2

(* Cardinality of a disjoint union. *)
LEMMA DisjointUnion ==
    ASSUME NEW S, NEW T, IsFiniteSet(S), IsFiniteSet(T), S \cap T = {}
    PROVE  Cardinality(S \cup T) = Cardinality(S) + Cardinality(T)
<1>1. Cardinality(S \cap T) = 0
  BY FS_EmptySet
<1>2. Cardinality(S) \in Nat /\ Cardinality(T) \in Nat
  BY FS_CardinalityType
<1>3. Cardinality(S \cup T) = Cardinality(S) + Cardinality(T) - Cardinality(S \cap T)
  BY FS_Union
<1>. QED
  BY <1>1, <1>2, <1>3

(* Filling the free slots of dispatch never exceeds the cap. *)
LEMMA FillKeepsCap ==
    ASSUME NEW S \in SUBSET Attempts, NEW b, S # {}, S \cap Running = {},
           Cardinality(S) <= FreeSlots(b)
    PROVE  Cardinality(Running \cup S) <= Cap
<1>1. IsFiniteSet(Running) /\ IsFiniteSet(S)
  BY StudyRunAssumption, FS_Subset DEF Running
<1>2. Cardinality(Running \cup S) = Cardinality(S) + Cardinality(Running)
  <2>1. Running \cup S = S \cup Running
    OBVIOUS
  <2>. QED
    BY <1>1, <2>1, DisjointUnion
<1>3. /\ Cardinality(S) \in Nat /\ Cardinality(S) # 0
      /\ Cardinality(Running) \in Nat
  BY <1>1, FS_CardinalityType, FS_EmptySet
<1>. QED
  BY <1>2, <1>3, StudyRunAssumption DEF FreeSlots

(* What one step of the system does to one attempt. *)
LEMMA EveryAttemptStep ==
    ASSUME TableInv, [Next]_vars
    PROVE  \A x \in Attempts : AttemptStep(x)
<1>. USE DEF TableInv
<1>1. ASSUME run' = run, NEW x \in Attempts PROVE RowKept(x)
  BY <1>1 DEF RowKept
<1>2. ASSUME req' = req, NEW x \in Attempts PROVE RequestStep(x)
  BY <1>2 DEF RequestStep
<1>3. ASSUME thread' = thread, NEW x \in Attempts PROVE HandleAppears(x)
  BY <1>3 DEF HandleAppears
<1>. USE DEF AttemptStep, RowStep
<1>4. ASSUME NEW a \in Attempts, NEW s \in Studies, NEW b \in Boots, LaunchClaim(a, s, b)
      PROVE  \A x \in Attempts : AttemptStep(x)
  <2>1. \A x \in Attempts : RequestStep(x)
    BY <1>4 DEF LaunchClaim, TypeOK, RequestStep, Fresh
  <2>. QED
    BY <1>1, <1>3, <1>4, <2>1 DEF LaunchClaim
<1>5. ASSUME NEW a \in Attempts, LaunchReserve(a)
      PROVE  \A x \in Attempts : AttemptStep(x)
  <2>1. \A x \in Attempts : RequestStep(x)
    BY <1>5 DEF LaunchReserve, TypeOK, Request, RequestStep, Fresh
  <2>. QED
    BY <1>1, <1>3, <1>5, <2>1 DEF LaunchReserve
<1>6. ASSUME NEW a \in Attempts, LaunchCompensate(a)
      PROVE  \A x \in Attempts : AttemptStep(x)
  <2>1. \A x \in Attempts : RequestStep(x)
    BY <1>6 DEF LaunchCompensate, TypeOK, RequestStep, Fresh
  <2>. QED
    BY <1>1, <1>3, <1>6, <2>1 DEF LaunchCompensate
<1>7. ASSUME NEW a \in Attempts, LaunchCreateRun(a)
      PROVE  \A x \in Attempts : AttemptStep(x)
  <2>1. RowCreated(a)
    <3>1. \A y \in Attempts \ {a} : req[y].study = req[a].study =>
             run'[y].state \notin ActiveStates
      BY <1>7 DEF LaunchCreateRun, TypeOK, RunRow, Superseded, Active, Closed,
                  ActiveStates
    <3>. QED
      BY <1>7, <3>1 DEF LaunchCreateRun, TypeOK, RowCreated, NewRow
  <2>2. \A x \in Attempts \ {a} : RowKept(x) \/ RowClosed(x)
    BY <1>7, ZenonT(40) DEF LaunchCreateRun, TypeOK, RunRow, RowKept, RowClosed,
       Superseded,
                Closed, FailureStates
  <2>3. \A x \in Attempts : RequestStep(x)
    BY <1>7 DEF LaunchCreateRun, TypeOK, RequestStep, Fresh
  <2>. QED
    BY <1>3, <1>7, <2>1, <2>2, <2>3 DEF LaunchCreateRun
<1>8. ASSUME NEW a \in Attempts, LaunchFails(a)
      PROVE  \A x \in Attempts : AttemptStep(x)
  <2>1. \A x \in Attempts : RequestStep(x)
    BY <1>8 DEF LaunchFails, TypeOK, RequestStep, Fresh
  <2>. QED
    BY <1>1, <1>3, <1>8, <2>1 DEF LaunchFails
<1>9. ASSUME NEW a \in Attempts, StartThread(a)
      PROVE  \A x \in Attempts : AttemptStep(x)
  <2>1. \A x \in Attempts : HandleAppears(x)
    BY <1>9 DEF StartThread, TypeOK, HandleAppears, Finishing, HandleLive,
       HandlePcs
  <2>. QED
    BY <1>1, <1>2, <1>9, <2>1 DEF StartThread
<1>10. ASSUME NEW a \in Attempts, StartFails(a)
      PROVE  \A x \in Attempts : AttemptStep(x)
  <2>1. "failed" \in FailureStates /\ run' = CloseRunRow(a, "failed")
    BY <1>10 DEF StartFails, FinishFailure, FailureStates
  <2>2. \A x \in Attempts : RowKept(x) \/ RowClosed(x)
    BY <2>1, CloseRunRowStep
  <2>3. \A x \in Attempts : HandleAppears(x)
    <3>1. run[a].state \notin {"none", "queued"}
      BY <1>10 DEF StartFails, HandleHasRow, Finishing
    <3>2. run'[a].state \notin {"none", "queued"}
      BY <2>2, <3>1 DEF RowKept, RowClosed, FailureStates
    <3>. QED
      BY <1>10, <3>2 DEF StartFails, TypeOK, HandleAppears
  <2>. QED
    BY <1>2, <1>10, <2>2, <2>3 DEF StartFails
<1>11. ASSUME NEW a \in Attempts, NEW v \in TerminalStates, EngineReturns(a, v)
      PROVE  \A x \in Attempts : AttemptStep(x)
  <2>1. \A x \in Attempts : HandleAppears(x)
    BY <1>11 DEF EngineReturns, TypeOK, HandleAppears, Finishing,
       HandleLive, HandlePcs
  <2>. QED
    BY <1>1, <1>2, <1>11, <2>1 DEF EngineReturns
<1>12. ASSUME NEW a \in Attempts, FinishSuccessCancelled(a)
      PROVE  \A x \in Attempts : AttemptStep(x)
  <2>1. \A x \in Attempts : HandleAppears(x)
    BY <1>12 DEF FinishSuccessCancelled, TypeOK, HandleAppears, Finishing,
       HandleLive, HandlePcs
  <2>. QED
    BY <1>1, <1>2, <1>12, <2>1 DEF FinishSuccessCancelled
<1>13. ASSUME NEW a \in Attempts, FinishSuccess(a)
      PROVE  \A x \in Attempts : AttemptStep(x)
  <2>1. run[a].state \notin {"none", "queued"}
    BY <1>13 DEF FinishSuccess, Finishing, HandleHasRow
  <2>2. CASE Active(a)
    <3>1. run' = [run EXCEPT ![a] = Closed(@, "completed")]
      BY <1>13, <2>2 DEF FinishSuccess, CloseRunRow
    <3>2. RowCompleted(a)
      BY <1>13, <2>1, <2>2, <3>1 DEF FinishSuccess, CancelledFirst, TypeOK,
         RunRow,
         RowCompleted, Closed, Active, ActiveStates
    <3>3. \A x \in Attempts \ {a} : RowKept(x)
      BY <3>1 DEF TypeOK, RowKept
    <3>4. \A x \in Attempts : HandleAppears(x)
      BY <1>13, <3>2 DEF FinishSuccess, TypeOK, HandleAppears, RowCompleted
    <3>. QED
      BY <1>2, <1>13, <3>2, <3>3, <3>4 DEF FinishSuccess
  <2>3. CASE ~ Active(a)
    <3>1. run' = run
      BY <1>13, <2>3 DEF FinishSuccess, CloseRunRow
    <3>2. \A x \in Attempts : HandleAppears(x)
      BY <1>13, <2>1, <3>1 DEF FinishSuccess, TypeOK, HandleAppears
    <3>. QED
      BY <1>1, <1>2, <1>13, <3>1, <3>2 DEF FinishSuccess
  <2>. QED
    BY <2>2, <2>3
<1>14. ASSUME NEW a \in Attempts, FinishFailed(a)
      PROVE  \A x \in Attempts : AttemptStep(x)
  <2>1. thread[a].verdict \in FailureStates /\ run' = CloseRunRow(a, thread[a].verdict)
    BY <1>14 DEF FinishFailed, FinishFailure, FailureStates
  <2>2. \A x \in Attempts : RowKept(x) \/ RowClosed(x)
    BY <2>1, CloseRunRowStep
  <2>3. \A x \in Attempts : HandleAppears(x)
    <3>1. run[a].state \notin {"none", "queued"}
      BY <1>14 DEF FinishFailed, HandleHasRow, Finishing
    <3>2. run'[a].state \notin {"none", "queued"}
      BY <2>2, <3>1 DEF RowKept, RowClosed, FailureStates
    <3>. QED
      BY <1>14, <3>2 DEF FinishFailed, TypeOK, HandleAppears
  <2>. QED
    BY <1>2, <1>14, <2>2, <2>3 DEF FinishFailed
<1>15. ASSUME NEW a \in Attempts, FinishRaises(a)
      PROVE  \A x \in Attempts : AttemptStep(x)
  <2>1. \A x \in Attempts : HandleAppears(x)
    BY <1>15 DEF FinishRaises, TypeOK, HandleAppears, Finishing, HandleLive,
       HandlePcs
  <2>. QED
    BY <1>1, <1>2, <1>15, <2>1 DEF FinishRaises
<1>16. ASSUME NEW a \in Attempts, HeartbeatLapses(a)
      PROVE  \A x \in Attempts : AttemptStep(x)
  <2>1. \A x \in Attempts : RowKept(x)
    BY <1>16 DEF HeartbeatLapses, TypeOK, RunRow, RowKept, Active, ActiveStates
  <2>. QED
    BY <1>2, <1>3, <1>16, <2>1 DEF HeartbeatLapses
<1>17. ASSUME NEW a \in Attempts, SignalCancel(a)
      PROVE  \A x \in Attempts : AttemptStep(x)
  <2>1. \A x \in Attempts : HandleAppears(x)
    BY <1>17 DEF SignalCancel, TypeOK, HandleAppears, Finishing, HandleLive,
       HandlePcs
  <2>. QED
    BY <1>1, <1>2, <1>17, <2>1 DEF SignalCancel
<1>18. ASSUME NEW a \in Attempts, Timeout(a)
      PROVE  \A x \in Attempts : AttemptStep(x)
  <2>. DEFINE name == IF thread[a].reason = "requested" THEN "cancelled" ELSE "failed"
  <2>1. name \in FailureStates /\ run' = CloseRunRow(a, name)
    BY <1>18 DEF Timeout, FinishFailure, FailureStates
  <2>. HIDE DEF name
  <2>2. \A x \in Attempts : RowKept(x) \/ RowClosed(x)
    BY <2>1, CloseRunRowStep
  <2>3. \A x \in Attempts : HandleAppears(x)
    BY <1>18 DEF Timeout, TypeOK, HandleAppears, HandleLive, HandlePcs
  <2>. QED
    BY <1>2, <1>18, <2>2, <2>3 DEF Timeout
<1>19. ASSUME NEW a \in Attempts, TimeoutRaises(a)
      PROVE  \A x \in Attempts : AttemptStep(x)
  <2>1. \A x \in Attempts : HandleAppears(x)
    BY <1>19 DEF TimeoutRaises, TypeOK, HandleAppears, Finishing,
       HandleLive, HandlePcs
  <2>. QED
    BY <1>1, <1>2, <1>19, <2>1 DEF TimeoutRaises
<1>20. ASSUME NEW a \in Attempts, NEW b \in Boots, CancelQueued(a, b)
      PROVE  \A x \in Attempts : AttemptStep(x)
  <2>1. \A x \in Attempts : RowKept(x)
    BY <1>20 DEF CancelQueued, TypeOK, RunRow, RowKept, Active, ActiveStates
  <2>. QED
    BY <1>2, <1>3, <1>20, <2>1 DEF CancelQueued
<1>21. ASSUME NEW a \in Attempts, NEW b \in Boots, CancelQueuedFinish(a, b)
      PROVE  \A x \in Attempts : AttemptStep(x)
  <2>1. "cancelled" \in FailureStates /\ run' = CloseRunRow(a, "cancelled")
    BY <1>21 DEF CancelQueuedFinish, FinishFailure, FailureStates
  <2>2. \A x \in Attempts : RowKept(x) \/ RowClosed(x)
    BY <2>1, CloseRunRowStep
  <2>. QED
    BY <1>2, <1>3, <1>21, <2>2 DEF CancelQueuedFinish
<1>22. ASSUME NEW a \in Attempts, CancelRunning(a)
      PROVE  \A x \in Attempts : AttemptStep(x)
  <2>1. \A x \in Attempts : RowKept(x)
    BY <1>22 DEF CancelRunning, TypeOK, RunRow, RowKept, Active, ActiveStates
  <2>. QED
    BY <1>2, <1>3, <1>22, <2>1 DEF CancelRunning
<1>23. ASSUME NEW b \in Boots, Dispatch(b)
      PROVE  \A x \in Attempts : AttemptStep(x)
  <2>. PICK S \in SUBSET Claimable :
          /\ Cardinality(S) <= FreeSlots(b)
          /\ run' = [a \in Attempts |->
                IF a \in S
                THEN [run[a] EXCEPT !.state = "running", !.boot = b, !.stale = FALSE]
                ELSE IF a \in Abandoned THEN Closed(run[a], "cancelled")
                ELSE run[a]]
          /\ thread' = [a \in Attempts |->
                IF a \in S THEN [thread[a] EXCEPT !.pc = "claimed"] ELSE thread[a]]
    BY <1>23 DEF Dispatch, OldestFill
  <2>0. ASSUME NEW x \in S PROVE CapRespected'
    <3>1. S \in SUBSET Attempts /\ S # {} /\ S \cap Running = {}
      BY <2>0 DEF Running, Claimable
    <3>2. \A y \in Attempts : run'[y].state = "running" <=>
             y \in S \/ run[y].state = "running"
      BY DEF TypeOK, RunRow, Claimable, Abandoned, Closed
    <3>3. Running' = Running \cup S
      BY <3>1, <3>2 DEF Running
    <3>. QED
      BY <3>1, <3>3, FillKeepsCap DEF CapRespected
  <2>1. ASSUME NEW x \in S PROVE RowClaimed(x)
    <3>1. x \in Attempts /\ run[x].state = "queued"
      BY DEF Claimable
    <3>2. run'[x] = [run[x] EXCEPT !.state = "running", !.boot = b, !.stale = FALSE]
      BY <3>1
    <3>. QED
      BY <2>0, <3>1, <3>2 DEF TypeOK, RunRow, RowClaimed
  <2>2. \A x \in Attempts \ S : RowKept(x) \/ RowClosed(x)
    BY DEF TypeOK, RunRow, RowKept, RowClosed, Abandoned, Active, ActiveStates,
           Closed, FailureStates
  <2>3. \A x \in Attempts : HandleAppears(x)
    BY <2>1 DEF TypeOK, HandleAppears, RowClaimed
  <2>. QED
    BY <1>2, <1>23, <2>1, <2>2, <2>3 DEF Dispatch
<1>24. ASSUME NEW b \in Boots, Heartbeat(b)
      PROVE  \A x \in Attempts : AttemptStep(x)
  <2>1. \A x \in Attempts : RowKept(x)
    BY <1>24 DEF Heartbeat, TypeOK, RunRow, RowKept, Active, ActiveStates
  <2>. QED
    BY <1>2, <1>3, <1>24, <2>1 DEF Heartbeat
<1>25. ASSUME NEW b \in Boots, SweepStale(b)
      PROVE  \A x \in Attempts : AttemptStep(x)
  <2>. PICK a \in StaleRows(b) : \E z \in InterruptNames(a) : FinishFailure(a, z)
    BY <1>25 DEF SweepStale
  <2>. PICK name \in InterruptNames(a) : FinishFailure(a, name)
    OBVIOUS
  <2>1. a \in Attempts /\ name \in FailureStates /\ run' = CloseRunRow(a, name)
    BY DEF StaleRows, Running, InterruptNames, FailureStates, FinishFailure
  <2>2. \A x \in Attempts : RowKept(x) \/ RowClosed(x)
    BY <2>1, CloseRunRowStep
  <2>. QED
    BY <1>2, <1>3, <1>25, <2>2 DEF SweepStale
<1>26. ASSUME NEW b \in Boots, SweepOrphans(b)
      PROVE  \A x \in Attempts : AttemptStep(x)
  BY <1>1, <1>2, <1>3, <1>26 DEF SweepOrphans
<1>27. ASSUME NEW b \in Boots, SettleOrphan(b)
      PROVE  \A x \in Attempts : AttemptStep(x)
  BY <1>1, <1>2, <1>3, <1>27 DEF SettleOrphan
<1>28. ASSUME NEW b \in Boots, BootUp(b)
      PROVE  \A x \in Attempts : AttemptStep(x)
  BY <1>1, <1>2, <1>3, <1>28 DEF BootUp
<1>29. ASSUME NEW b \in Boots, ShutdownBegin(b)
      PROVE  \A x \in Attempts : AttemptStep(x)
  <2>1. \A x \in Attempts : HandleAppears(x)
    BY <1>29 DEF ShutdownBegin, TypeOK, HandleAppears, Finishing,
       HandleLive, HandlePcs
  <2>. QED
    BY <1>1, <1>2, <1>29, <2>1 DEF ShutdownBegin
<1>30. ASSUME NEW b \in Boots, ShutdownInterrupt(b)
      PROVE  \A x \in Attempts : AttemptStep(x)
  <2>. PICK a \in Running : \E z \in InterruptNames(a) : FinishFailure(a, z)
    BY <1>30 DEF ShutdownInterrupt
  <2>. PICK name \in InterruptNames(a) : FinishFailure(a, name)
    OBVIOUS
  <2>1. a \in Attempts /\ name \in FailureStates /\ run' = CloseRunRow(a, name)
    BY DEF Running, InterruptNames, FailureStates, FinishFailure
  <2>2. \A x \in Attempts : RowKept(x) \/ RowClosed(x)
    BY <2>1, CloseRunRowStep
  <2>. QED
    BY <1>2, <1>3, <1>30, <2>2 DEF ShutdownInterrupt
<1>31. ASSUME NEW b \in Boots, ShutdownDone(b)
      PROVE  \A x \in Attempts : AttemptStep(x)
  BY <1>1, <1>2, <1>3, <1>31 DEF ShutdownDone
<1>32. ASSUME NEW b \in Boots, Exit(b)
      PROVE  \A x \in Attempts : AttemptStep(x)
  <2>1. \A x \in Attempts : RequestStep(x)
    BY <1>32 DEF Exit, TypeOK, RequestStep, Serving, InFlight, Fresh
  <2>2. \A x \in Attempts : HandleAppears(x)
    BY <1>32, StudyRunAssumption DEF Exit, TypeOK, HandleAppears,
       UnclaimedHasNoBoot
  <2>. QED
    BY <1>1, <1>32, <2>1, <2>2 DEF Exit
<1>33. ASSUME NEW s \in Studies, NEW to \in CloseOps, NEW b \in Boots, CloseCheck(s, to, b)
      PROVE  \A x \in Attempts : AttemptStep(x)
  BY <1>1, <1>2, <1>3, <1>33 DEF CloseCheck
<1>34. ASSUME NEW s \in Studies, NEW to \in CloseOps, NEW b \in Boots, CloseWrite(s, to, b)
      PROVE  \A x \in Attempts : AttemptStep(x)
  BY <1>1, <1>2, <1>3, <1>34 DEF CloseWrite
<1>35. ASSUME NEW s \in Studies, NEW to \in CloseOps, CloseQuietly(s, to)
      PROVE  \A x \in Attempts : AttemptStep(x)
  BY <1>1, <1>2, <1>3, <1>35 DEF CloseQuietly
<1>36. ASSUME NEW s \in Studies, DeleteStudy(s)
      PROVE  \A x \in Attempts : AttemptStep(x)
  <2>1. \A x \in Attempts : RowKept(x) \/ RowDeleted(x)
    BY <1>36, ZenonT(40) DEF DeleteStudy, TypeOK, RunRow, RowKept, RowDeleted, Closed
  <2>. QED
    BY <1>2, <1>3, <1>36, <2>1 DEF DeleteStudy
<1>37. CASE UNCHANGED vars
  BY <1>1, <1>2, <1>3, <1>37 DEF vars
<1>38. ASSUME NEW a \in Attempts, LaunchRaises(a)
      PROVE  \A x \in Attempts : AttemptStep(x)
  <2>1. \A x \in Attempts : RequestStep(x)
    BY <1>38 DEF LaunchRaises, TypeOK, RequestStep, InFlight, Fresh
  <2>. QED
    BY <1>1, <1>3, <1>38, <2>1 DEF LaunchRaises
<1>. QED
  BY <1>4, <1>5, <1>6, <1>7, <1>8, <1>9, <1>10, <1>11, <1>12, <1>13, <1>14,
     <1>15, <1>16, <1>17, <1>18, <1>19, <1>20, <1>21, <1>22, <1>23, <1>24,
     <1>25, <1>26, <1>27, <1>28, <1>29, <1>30, <1>31, <1>32, <1>33, <1>34,
     <1>35, <1>36, <1>37, <1>38
     DEF Next, LaunchStep, WorkerStep,
     HandleStep, CancelStep, SupervisorStep, ProcessStep, LifecycleStep

(* The invariant the theorems below rest on. *)
LEMMA TableInvariant == Spec => []TableInv
<1>1. Init => TableInv
  <2>1. ASSUME Init PROVE TypeOK
    BY <2>1 DEF Init, TypeOK, NoHandle, InFlight, HandlePcs, StudyRow, RunRow,
       Request, Handle, ActiveStates, FailureStates, TerminalStates
  <2>. QED
    BY <2>1 DEF Init, TableInv, NoRowYet, HandleHasRow, UnclaimedHasNoBoot, NoHandle
<1>2. ASSUME TableInv, TypeOK', [Next]_vars PROVE TableInv'
  <2>1. \A x \in Attempts : AttemptStep(x)
    BY <1>2, EveryAttemptStep
  <2>2. NoRowYet'
    BY <1>2, <2>1 DEF TableInv, NoRowYet, AttemptStep, RowStep, RequestStep, Fresh,
       RowKept, RowCreated, RowClaimed, RowClosed, RowCompleted, RowDeleted,
       Active, ActiveStates, TerminalStates, FailureStates
  <2>3. HandleHasRow'
    BY <1>2, <2>1 DEF TableInv, NoRowYet, HandleHasRow, AttemptStep, RowStep,
       HandleAppears, Fresh, RowKept, RowCreated, RowClaimed, RowClosed,
       RowCompleted, RowDeleted, FailureStates
  <2>4. UnclaimedHasNoBoot'
    BY <1>2, <2>1 DEF TableInv, UnclaimedHasNoBoot, AttemptStep, RowStep, RowKept,
       RowCreated, RowClaimed, RowClosed, RowCompleted, RowDeleted, FailureStates
  <2>. QED
    BY <1>2, <2>2, <2>3, <2>4 DEF TableInv
<1>. QED
  BY <1>1, <1>2, TypeCorrect, PTL DEF Spec

-----------------------------------------------------------------------------
(* A closed run row is closed for good: no late worker, timeout, sweep or  *)
(* shutdown gives it another ending, whatever archives, crashes and slow   *)
(* launches interleave.                                                    *)
THEOREM ClosedForGood == Spec => ClosedRunsStayClosed
<1>1. ASSUME TableInv, [Next]_vars
      PROVE  \A a \in Attempts : run[a].state \in TerminalStates =>
                run'[a].state \in {run[a].state, "deleted"}
  BY <1>1, EveryAttemptStep DEF TableInv, NoRowYet, Fresh, AttemptStep, RowStep,
     RowKept, RowCreated, RowClaimed, RowClosed, RowCompleted, RowDeleted,
     Active, ActiveStates, TerminalStates, FailureStates
<1>. QED
  BY <1>1, TableInvariant, PTL DEF Spec, ClosedRunsStayClosed

(* A row is claimed from the queue by one process only, once. *)
THEOREM ClaimedByOne == Spec => ClaimedOnce
<1>1. ASSUME TableInv, [Next]_vars
      PROVE  \A a \in Attempts : run[a].boot # None => run'[a].boot = run[a].boot
  BY <1>1, EveryAttemptStep DEF TableInv, NoRowYet, UnclaimedHasNoBoot, Fresh,
     AttemptStep, RowStep, RowKept, RowCreated, RowClaimed, RowClosed,
     RowCompleted, RowDeleted
<1>. QED
  BY <1>1, TableInvariant, PTL DEF Spec, ClaimedOnce

(* A cancel that was accepted is never answered by a completed run. *)
THEOREM CancelWins == Spec => []CancelNeverCompletes
<1>1. Init => CancelNeverCompletes
  BY DEF Init, CancelNeverCompletes
<1>2. ASSUME TableInv, CancelNeverCompletes, [Next]_vars PROVE CancelNeverCompletes'
  BY <1>2, EveryAttemptStep DEF CancelNeverCompletes, AttemptStep, RowStep, RowKept,
     RowCreated, RowClaimed, RowClosed, RowCompleted, RowDeleted, Active,
     ActiveStates, FailureStates
<1>. QED
  BY <1>1, <1>2, TableInvariant, PTL DEF Spec

(* No study ever has two active run rows. *)
THEOREM OneRunPerStudy == Spec => []OneActiveRun
<1>1. Init => OneActiveRun
  BY DEF Init, OneActiveRun, Active, ActiveStates
<1>2. ASSUME TableInv, OneActiveRun, [Next]_vars PROVE OneActiveRun'
  <2>. SUFFICES ASSUME NEW a \in Attempts, NEW x \in Attempts, a # x,
                       Active(a)', Active(x)', req'[a].study = req'[x].study
                PROVE  FALSE
    BY DEF OneActiveRun
  <2>1. ASSUME NEW y \in Attempts, Active(y)'
        PROVE  /\ req'[y].study = req[y].study
               /\ Active(y) \/ RowCreated(y)
    <3>1. Active(y) \/ RowCreated(y)
      BY <1>2, <2>1, EveryAttemptStep DEF AttemptStep, RowStep, RowKept, RowClaimed,
         RowClosed, RowCompleted, RowDeleted, Active, ActiveStates, FailureStates
    <3>2. req[y].pc # "idle"
      BY <1>2, <3>1 DEF TableInv, NoRowYet, Fresh, RowCreated, Active, ActiveStates
    <3>. QED
      BY <1>2, <3>1, <3>2, EveryAttemptStep DEF AttemptStep, RequestStep
  <2>2. req[a].study = req[x].study
    BY <2>1
  <2>3. ~ RowCreated(a) /\ ~ RowCreated(x)
    BY <2>2 DEF RowCreated, Active
  <2>. QED
    BY <1>2, <2>1, <2>2, <2>3 DEF OneActiveRun
<1>. QED
  BY <1>1, <1>2, TableInvariant, PTL DEF Spec

(* The cap on running rows holds across every overlap of processes. *)
THEOREM CapHolds == Spec => []CapRespected
<1>1. Init => CapRespected
  <2>1. ASSUME Init PROVE Running = {}
    BY <2>1 DEF Init, Running
  <2>. QED
    BY <2>1, FS_EmptySet, StudyRunAssumption DEF CapRespected
<1>2. ASSUME TableInv, CapRespected, [Next]_vars PROVE CapRespected'
  <2>1. CASE \E x \in Attempts : RowClaimed(x)
    BY <2>1 DEF RowClaimed
  <2>2. CASE ~ \E x \in Attempts : RowClaimed(x)
    <3>1. Running' \subseteq Running
      BY <1>2, <2>2, EveryAttemptStep DEF Running, AttemptStep, RowStep, RowKept,
         RowCreated, RowClosed, RowCompleted, RowDeleted, FailureStates
    <3>2. IsFiniteSet(Running)
      BY StudyRunAssumption, FS_Subset DEF Running
    <3>3. Cardinality(Running') <= Cardinality(Running)
      BY <3>1, <3>2, FS_Subset
    <3>. QED
      BY <1>2, <3>1, <3>2, <3>3, FS_Subset, FS_CardinalityType, StudyRunAssumption
         DEF CapRespected
  <2>. QED
    BY <2>1, <2>2
<1>. QED
  BY <1>1, <1>2, TableInvariant, PTL DEF Spec

-----------------------------------------------------------------------------
(* The fenced protocol.  Study, run, request and seat move together when a *)
(* launch request is neither killed nor overtaken by the orphan sweep and  *)
(* complete/archive do not land inside a launch: the conditions of the     *)
(* runs that check these properties, and hypotheses of the theorems here.  *)

QuietLaunches == ~ RacyClose /\ ~ LaunchCrash /\ ~ SlowLaunch /\ ~ HungThread

(* No handler holds a decision it read before: no sweep has suspects, no  *)
(* close is past its check, and a cancel between its two transactions is   *)
(* about a run that has its row.                                           *)
NothingStale ==
    /\ closing = {}
    /\ \A b \in Boots : suspects[b] = {}
    /\ \A c \in cancelling : run[c[1]].state # "none"

(* A request names its study once it has claimed it, and a study's token  *)
(* is an attempt that claimed this study.  No launch was killed.           *)
TokensName ==
    /\ \A a \in Attempts : req[a].pc # "lost"
    /\ \A a \in Attempts : req[a].pc # "idle" => req[a].study \in Studies
    /\ \A s \in Studies : study[s].token # None =>
          /\ req[study[s].token].study = s
          /\ req[study[s].token].pc # "idle"

(* A launch being served owns the study it claimed. *)
LaunchOwnsStudy == \A a \in Attempts : req[a].pc \in InFlight => Fenced(a)

(* A seat is taken by the reservation, and by nothing before it. *)
SeatFollowsLaunch ==
    \A a \in Attempts :
        /\ req[a].pc \in {"idle", "claimed", "refused"} => seat[a] = "none"
        /\ req[a].pc = "reserved" => seat[a] = "held"

(* A study back in draft holds no seat, so its next launch starts clean. *)
DraftHoldsNone ==
    \A s \in Studies : study[s].state = "draft" /\ study[s].token # None =>
        seat[study[s].token] # "held"

FencedInv ==
    /\ NothingStale
    /\ TokensName
    /\ LaunchOwnsStudy
    /\ RunAndStudyAgree
    /\ SeatFollowsLaunch
    /\ SeatFollowsRun
    /\ DraftHoldsNone
    /\ SeatsExact

-----------------------------------------------------------------------------
(* What one step of the fenced protocol does to the rows: a step of a      *)
(* launch, the end of a run, the close of a study, or nothing they tell    *)
(* apart.                                                                  *)

SameEnd(x) ==
    /\ Active(x)' <=> Active(x)
    /\ ~ Active(x) => run'[x].state = run[x].state

OthersKept(a) == \A x \in Attempts \ {a} : SameEnd(x)

(* create_run finds no older active row to supersede. *)
Enqueues(a) ==
    /\ req[a].pc = "reserved"
    /\ run'[a].state = "queued"
    /\ OthersKept(a)
    /\ req' = [req EXCEPT ![a].pc = "closed"]
    /\ UNCHANGED << study, used, seat >>

(* create_run raised: the study is still the attempt's own. *)
GivesUp(a) ==
    /\ req[a].pc = "reserved"
    /\ study' = [study EXCEPT ![req[a].study].state = "draft"]
    /\ ReleaseLaunch(a)
    /\ req' = [req EXCEPT ![a].pc = "closed"]
    /\ UNCHANGED run

RunFails(a) ==
    /\ Active(a)
    /\ study' = [study EXCEPT ![req[a].study].state = "draft"]
    /\ run'[a].state \in FailureStates
    /\ OthersKept(a)
    /\ ReleaseLaunch(a)
    /\ UNCHANGED req

RunCompletes(a) ==
    /\ Active(a)
    /\ study' = [study EXCEPT ![req[a].study].state = "completed"]
    /\ run'[a].state = "completed"
    /\ OthersKept(a)
    /\ UNCHANGED << req, used, seat >>

StudyArchived(s) ==
    /\ study[s].state \in {"draft", "completed"}
    /\ study' = [study EXCEPT ![s].state = "archived"]
    /\ UNCHANGED << run, req, used, seat >>

StudyDeleted(s) ==
    /\ study[s].state \in {"draft", "completed", "archived"}
    /\ study' = [study EXCEPT ![s].state = "deleted"]
    /\ \A x \in Attempts :
          IF req[x].study = s /\ run[x].state \in TerminalStates
          THEN run'[x].state = "deleted" ELSE run'[x] = run[x]
    /\ UNCHANGED << req, used, seat >>

RowsKept ==
    /\ \A x \in Attempts : SameEnd(x)
    /\ UNCHANGED << study, req, used, seat >>

HandlersKept ==
    /\ closing' = {}
    /\ \A b \in Boots : suspects'[b] = {}
    /\ \A c \in cancelling' : c \in cancelling \/ run[c[1]].state # "none"

AttemptMoves(a) ==
    \/ \E s \in Studies, b \in Boots : LaunchClaim(a, s, b)
    \/ LaunchReserve(a)
    \/ LaunchCompensate(a)
    \/ Enqueues(a)
    \/ GivesUp(a)
    \/ RunFails(a)
    \/ RunCompletes(a)

FencedStep ==
    /\ \/ \E a \in Attempts : AttemptMoves(a)
       \/ \E s \in Studies : StudyArchived(s) \/ StudyDeleted(s)
       \/ RowsKept
    /\ HandlersKept

(* Inside the protocol an attempt with a row is active exactly when it    *)
(* owns its study: the two guards of a closing transaction agree.          *)
LEMMA FenceIsActive ==
    ASSUME TableInv, FencedInv, NEW a \in Attempts, run[a].state # "none"
    PROVE  Fenced(a) <=> Active(a)
<1>1. Active(a) => Fenced(a)
  BY DEF FencedInv, RunAndStudyAgree, ActiveRunOwnsStudy
<1>2. ASSUME Fenced(a) PROVE Active(a)
  <2>1. Active(a) \/ req[a].pc \in InFlight
    BY <1>2 DEF FencedInv, RunAndStudyAgree, InProgressHasRun, Fenced
  <2>2. req[a].pc \notin InFlight
    BY DEF TableInv, NoRowYet, Fresh, InFlight
  <2>. QED
    BY <2>1, <2>2
<1>. QED
  BY <1>1, <1>2

(* Closing one active row. *)
LEMMA CloseOneRow ==
    ASSUME TypeOK, NEW a \in Attempts, NEW outcome \in TerminalStates, Active(a),
           run' = CloseRunRow(a, outcome)
    PROVE  /\ run'[a].state = outcome
           /\ OthersKept(a)
<1>1. run' = [run EXCEPT ![a] = Closed(@, outcome)]
  BY DEF CloseRunRow
<1>2. run'[a].state = outcome
  BY <1>1 DEF TypeOK, RunRow, Closed
<1>3. \A x \in Attempts \ {a} : run'[x] = run[x]
  BY <1>1 DEF TypeOK
<1>. QED
  BY <1>2, <1>3 DEF OthersKept, SameEnd, Active

(* _finish_failure of a run that has its row: study, row and seat end      *)
(* together, or none of them changes.                                      *)
LEMMA FinishFailureStep ==
    ASSUME TableInv, FencedInv, NEW a \in Attempts, NEW outcome \in FailureStates,
           run[a].state # "none", FinishFailure(a, outcome), req' = req
    PROVE  RunFails(a) \/ RowsKept
<1>1. CASE Active(a)
  <2>1. Fenced(a)
    BY <1>1, FenceIsActive
  <2>2. run'[a].state = outcome /\ OthersKept(a)
    BY <1>1, CloseOneRow DEF TableInv, FinishFailure, TerminalStates
  <2>. QED
    BY <1>1, <2>1, <2>2 DEF FinishFailure, MayRelease, RunFails
<1>2. CASE ~ Active(a)
  <2>1. ~ Fenced(a)
    BY <1>2, FenceIsActive
  <2>. QED
    BY <1>2, <2>1 DEF FinishFailure, MayRelease, CloseRunRow, RowsKept, SameEnd,
       Active
<1>. QED
  BY <1>1, <1>2

(* The orphan sweep finds nothing: every study in progress has an active   *)
(* run or a launch that is being served.                                   *)
LEMMA NoOrphans ==
    ASSUME QuietLaunches, TableInv, FencedInv, NEW b \in Boots
    PROVE  Orphans(b) = {}
<1>. SUFFICES ASSUME NEW s \in Orphans(b) PROVE FALSE
  OBVIOUS
<1>1. s \in Studies /\ study[s].state = "in_progress" /\ ~ HasActiveRun(s) /\ ~ Launching(s)
  BY DEF Orphans, GraceOver, OverdueEntry, QuietLaunches
<1>2. study[s].token \in Attempts
  BY <1>1, StudyRunAssumption DEF TableInv, TypeOK, StudyRow
<1>3. req[study[s].token].study = s
  BY <1>1, <1>2, StudyRunAssumption DEF FencedInv, TokensName
<1>4. Active(study[s].token) \/ req[study[s].token].pc \in InFlight
  BY <1>1 DEF FencedInv, RunAndStudyAgree, InProgressHasRun
<1>. QED
  BY <1>1, <1>2, <1>3, <1>4 DEF HasActiveRun, Launching

(* A study without an active run and without a launch is not in progress. *)
LEMMA IdleStudy ==
    ASSUME TableInv, FencedInv, NEW s \in Studies, ~ HasActiveRun(s), ~ Launching(s)
    PROVE  study[s].state # "in_progress"
<1>. SUFFICES ASSUME study[s].state = "in_progress" PROVE FALSE
  OBVIOUS
<1>2. study[s].token \in Attempts
  BY StudyRunAssumption DEF TableInv, TypeOK, StudyRow
<1>3. req[study[s].token].study = s
  BY <1>2, StudyRunAssumption DEF FencedInv, TokensName
<1>4. Active(study[s].token) \/ req[study[s].token].pc \in InFlight
  BY DEF FencedInv, RunAndStudyAgree, InProgressHasRun
<1>. QED
  BY <1>2, <1>3, <1>4 DEF HasActiveRun, Launching

(* Every step of the system is a step of the fenced protocol. *)
LEMMA EveryFencedStep ==
    ASSUME QuietLaunches, TableInv, FencedInv, [Next]_vars
    PROVE  FencedStep
<1>. USE DEF FencedStep
<1>0. /\ TypeOK
      /\ closing = {}
      /\ \A b \in Boots : suspects[b] = {}
      /\ \A c \in cancelling : run[c[1]].state # "none"
  BY DEF TableInv, FencedInv, NothingStale
<1>1. ASSUME UNCHANGED << suspects, cancelling, closing >> PROVE HandlersKept
  BY <1>0, <1>1 DEF HandlersKept
<1>2. ASSUME UNCHANGED << study, run, req, used, seat >> PROVE RowsKept
  BY <1>2 DEF RowsKept, SameEnd, Active
<1>3. ASSUME NEW a \in Attempts, HandleLive(a) \/ thread[a].pc = "claimed"
      PROVE  run[a].state # "none"
  BY <1>3 DEF TableInv, HandleHasRow, HandleLive, HandlePcs
<1>4. ASSUME NEW a \in Attempts, NEW s \in Studies, NEW b \in Boots, LaunchClaim(a, s, b)
      PROVE  FencedStep
  BY <1>1, <1>4 DEF LaunchClaim, AttemptMoves
<1>5. ASSUME NEW a \in Attempts, LaunchReserve(a) PROVE FencedStep
  BY <1>1, <1>5 DEF LaunchReserve, AttemptMoves
<1>6. ASSUME NEW a \in Attempts, LaunchCompensate(a) PROVE FencedStep
  BY <1>1, <1>6 DEF LaunchCompensate, AttemptMoves
<1>7. ASSUME NEW a \in Attempts, LaunchCreateRun(a) PROVE FencedStep
  <2>1. Fenced(a) /\ run[a].state = "none"
    BY <1>7 DEF LaunchCreateRun, FencedInv, LaunchOwnsStudy, InFlight, TableInv,
       NoRowYet, Fresh
  <2>2. Superseded(a) = {}
    BY <2>1 DEF Superseded, FencedInv, RunAndStudyAgree, ActiveRunOwnsStudy, Fenced,
       Active, ActiveStates
  <2>3. run'[a].state = "queued" /\ \A x \in Attempts \ {a} : run'[x] = run[x]
    BY <1>7, <2>2 DEF LaunchCreateRun, NewRow
  <2>4. Enqueues(a)
    BY <1>7, <2>3 DEF LaunchCreateRun, Enqueues, OthersKept, SameEnd, Active
  <2>. QED
    BY <1>1, <1>7, <2>4 DEF LaunchCreateRun, AttemptMoves
<1>8. ASSUME NEW a \in Attempts, LaunchFails(a) PROVE FencedStep
  <2>1. Fenced(a)
    BY <1>8 DEF LaunchFails, FencedInv, LaunchOwnsStudy, InFlight
  <2>2. GivesUp(a)
    BY <1>8, <2>1 DEF LaunchFails, GivesUp
  <2>. QED
    BY <1>1, <1>8, <2>2 DEF LaunchFails, AttemptMoves
<1>9. ASSUME NEW a \in Attempts, StartThread(a) PROVE FencedStep
  BY <1>1, <1>2, <1>9 DEF StartThread
<1>10. ASSUME NEW a \in Attempts, StartFails(a) PROVE FencedStep
  <2>1. RunFails(a) \/ RowsKept
    BY <1>3, <1>10, FinishFailureStep DEF StartFails, FailureStates
  <2>. QED
    BY <1>1, <1>10, <2>1 DEF StartFails, AttemptMoves
<1>11. ASSUME NEW a \in Attempts, NEW v \in TerminalStates, EngineReturns(a, v)
      PROVE  FencedStep
  BY <1>1, <1>2, <1>11 DEF EngineReturns
<1>12. ASSUME NEW a \in Attempts, FinishSuccessCancelled(a) PROVE FencedStep
  BY <1>1, <1>2, <1>12 DEF FinishSuccessCancelled
<1>13. ASSUME NEW a \in Attempts, FinishSuccess(a) PROVE FencedStep
  <2>1. run[a].state # "none"
    BY <1>3, <1>13 DEF FinishSuccess, Finishing, HandleLive, HandlePcs
  <2>2. CASE Active(a)
    <3>1. Fenced(a)
      BY <2>1, <2>2, FenceIsActive
    <3>2. run'[a].state = "completed" /\ OthersKept(a)
      BY <1>0, <1>13, <2>2, CloseOneRow DEF FinishSuccess, TerminalStates
    <3>3. RunCompletes(a)
      BY <1>13, <2>2, <3>1, <3>2 DEF FinishSuccess, RunCompletes
    <3>. QED
      BY <1>1, <1>13, <3>3 DEF FinishSuccess, AttemptMoves
  <2>3. CASE ~ Active(a)
    <3>1. ~ Fenced(a)
      BY <2>1, <2>3, FenceIsActive
    <3>. QED
      BY <1>1, <1>2, <1>13, <2>3, <3>1 DEF FinishSuccess, CloseRunRow
  <2>. QED
    BY <2>2, <2>3
<1>14. ASSUME NEW a \in Attempts, FinishFailed(a) PROVE FencedStep
  <2>1. run[a].state # "none"
    BY <1>3, <1>14 DEF FinishFailed, Finishing, HandleLive, HandlePcs
  <2>2. RunFails(a) \/ RowsKept
    BY <1>14, <2>1, FinishFailureStep DEF FinishFailed
  <2>. QED
    BY <1>1, <1>14, <2>2 DEF FinishFailed, AttemptMoves
<1>15. ASSUME NEW a \in Attempts, FinishRaises(a) PROVE FencedStep
  BY <1>1, <1>2, <1>15 DEF FinishRaises
<1>16. ASSUME NEW a \in Attempts, HeartbeatLapses(a) PROVE FencedStep
  <2>1. \A x \in Attempts : run'[x].state = run[x].state
    BY <1>0, <1>16 DEF HeartbeatLapses, TypeOK, RunRow
  <2>2. RowsKept
    BY <1>16, <2>1 DEF HeartbeatLapses, RowsKept, SameEnd, Active
  <2>. QED
    BY <1>1, <1>16, <2>2 DEF HeartbeatLapses
<1>17. ASSUME NEW a \in Attempts, SignalCancel(a) PROVE FencedStep
  BY <1>1, <1>2, <1>17 DEF SignalCancel
<1>18. ASSUME NEW a \in Attempts, Timeout(a) PROVE FencedStep
  <2>. DEFINE name == IF thread[a].reason = "requested" THEN "cancelled" ELSE "failed"
  <2>1. name \in FailureStates /\ FinishFailure(a, name)
    BY <1>18 DEF Timeout, FailureStates
  <2>. HIDE DEF name
  <2>2. RunFails(a) \/ RowsKept
    BY <1>3, <1>18, <2>1, FinishFailureStep DEF Timeout
  <2>. QED
    BY <1>1, <1>18, <2>2 DEF Timeout, AttemptMoves
<1>19. ASSUME NEW a \in Attempts, TimeoutRaises(a) PROVE FencedStep
  BY <1>1, <1>2, <1>19 DEF TimeoutRaises
<1>20. ASSUME NEW a \in Attempts, NEW b \in Boots, CancelQueued(a, b) PROVE FencedStep
  <2>1. \A x \in Attempts : run'[x].state = run[x].state
    BY <1>0, <1>20 DEF CancelQueued, TypeOK, RunRow
  <2>2. RowsKept
    BY <1>20, <2>1 DEF CancelQueued, RowsKept, SameEnd, Active
  <2>3. HandlersKept
    BY <1>0, <1>20 DEF CancelQueued, HandlersKept
  <2>. QED
    BY <2>2, <2>3
<1>21. ASSUME NEW a \in Attempts, NEW b \in Boots, CancelQueuedFinish(a, b)
      PROVE  FencedStep
  <2>1. run[a].state # "none"
    BY <1>0, <1>21 DEF CancelQueuedFinish
  <2>2. RunFails(a) \/ RowsKept
    BY <1>21, <2>1, FinishFailureStep DEF CancelQueuedFinish, FailureStates
  <2>3. HandlersKept
    BY <1>0, <1>21 DEF CancelQueuedFinish, HandlersKept
  <2>. QED
    BY <2>2, <2>3 DEF AttemptMoves
<1>22. ASSUME NEW a \in Attempts, CancelRunning(a) PROVE FencedStep
  <2>1. \A x \in Attempts : run'[x].state = run[x].state
    BY <1>0, <1>22 DEF CancelRunning, TypeOK, RunRow
  <2>2. RowsKept
    BY <1>22, <2>1 DEF CancelRunning, RowsKept, SameEnd, Active
  <2>. QED
    BY <1>1, <1>22, <2>2 DEF CancelRunning
<1>23. ASSUME NEW b \in Boots, Dispatch(b) PROVE FencedStep
  <2>1. Abandoned = {}
    BY DEF Abandoned, FencedInv, RunAndStudyAgree, ActiveRunOwnsStudy, Fenced,
       Active, ActiveStates
  <2>. PICK S \in SUBSET Claimable :
          run' = [a \in Attempts |->
                IF a \in S
                THEN [run[a] EXCEPT !.state = "running", !.boot = b, !.stale = FALSE]
                ELSE IF a \in Abandoned THEN Closed(run[a], "cancelled")
                ELSE run[a]]
    BY <1>23 DEF Dispatch
  <2>2. \A x \in Attempts \ S : run'[x] = run[x]
    BY <2>1
  <2>3. ASSUME NEW x \in S PROVE run[x].state = "queued" /\ run'[x].state = "running"
    <3>1. x \in Attempts /\ run[x].state = "queued" /\ run[x] \in RunRow
      BY <1>0 DEF Claimable, TypeOK
    <3>2. run'[x] = [run[x] EXCEPT !.state = "running", !.boot = b, !.stale = FALSE]
      BY <3>1
    <3>. QED
      BY <3>1, <3>2 DEF RunRow
  <2>4. ASSUME NEW x \in Attempts PROVE SameEnd(x)
    <3>1. CASE x \in S
      BY <2>3, <3>1 DEF SameEnd, Active, ActiveStates
    <3>2. CASE x \notin S
      BY <2>2, <3>2 DEF SameEnd, Active
    <3>. QED
      BY <3>1, <3>2
  <2>. QED
    BY <1>1, <1>23, <2>4 DEF Dispatch, RowsKept
<1>24. ASSUME NEW b \in Boots, Heartbeat(b) PROVE FencedStep
  <2>1. \A x \in Attempts : run'[x].state = run[x].state
    BY <1>0, <1>24 DEF Heartbeat, TypeOK, RunRow
  <2>2. RowsKept
    BY <1>24, <2>1 DEF Heartbeat, RowsKept, SameEnd, Active
  <2>. QED
    BY <1>1, <1>24, <2>2 DEF Heartbeat
<1>25. ASSUME NEW b \in Boots, SweepStale(b) PROVE FencedStep
  <2>. PICK a \in StaleRows(b) : \E z \in InterruptNames(a) : FinishFailure(a, z)
    BY <1>25 DEF SweepStale
  <2>. PICK name \in InterruptNames(a) : FinishFailure(a, name)
    OBVIOUS
  <2>1. a \in Attempts /\ name \in FailureStates /\ run[a].state # "none"
    BY DEF StaleRows, Running, InterruptNames, FailureStates
  <2>2. RunFails(a) \/ RowsKept
    BY <1>25, <2>1, FinishFailureStep DEF SweepStale
  <2>. QED
    BY <1>1, <1>25, <2>1, <2>2 DEF SweepStale, AttemptMoves
<1>26. ASSUME NEW b \in Boots, SweepOrphans(b) PROVE FencedStep
  BY <1>26, NoOrphans DEF SweepOrphans
<1>27. ASSUME NEW b \in Boots, SettleOrphan(b) PROVE FencedStep
  BY <1>0, <1>27 DEF SettleOrphan
<1>28. ASSUME NEW b \in Boots, BootUp(b) PROVE FencedStep
  BY <1>1, <1>2, <1>28 DEF BootUp
<1>29. ASSUME NEW b \in Boots, ShutdownBegin(b) PROVE FencedStep
  BY <1>1, <1>2, <1>29 DEF ShutdownBegin
<1>30. ASSUME NEW b \in Boots, ShutdownInterrupt(b) PROVE FencedStep
  <2>. PICK a \in Running : \E z \in InterruptNames(a) : FinishFailure(a, z)
    BY <1>30 DEF ShutdownInterrupt
  <2>. PICK name \in InterruptNames(a) : FinishFailure(a, name)
    OBVIOUS
  <2>1. a \in Attempts /\ name \in FailureStates /\ run[a].state # "none"
    BY DEF Running, InterruptNames, FailureStates
  <2>2. RunFails(a) \/ RowsKept
    BY <1>30, <2>1, FinishFailureStep DEF ShutdownInterrupt
  <2>. QED
    BY <1>1, <1>30, <2>1, <2>2 DEF ShutdownInterrupt, AttemptMoves
<1>31. ASSUME NEW b \in Boots, ShutdownDone(b) PROVE FencedStep
  BY <1>1, <1>2, <1>31 DEF ShutdownDone
<1>32. ASSUME NEW b \in Boots, Exit(b) PROVE FencedStep
  <2>1. Serving(b) = {}
    BY <1>32 DEF Exit, QuietLaunches
  <2>2. req' = req
    BY <1>0, <1>32, <2>1 DEF Exit, TypeOK
  <2>3. RowsKept
    BY <1>2, <1>32, <2>2 DEF Exit
  <2>4. HandlersKept
    BY <1>0, <1>32 DEF Exit, HandlersKept, TypeOK
  <2>. QED
    BY <2>3, <2>4
<1>33. ASSUME NEW s \in Studies, NEW to \in CloseOps, NEW b \in Boots, CloseCheck(s, to, b)
      PROVE  FencedStep
  BY <1>33 DEF CloseCheck, QuietLaunches
<1>34. ASSUME NEW s \in Studies, NEW to \in CloseOps, NEW b \in Boots, CloseWrite(s, to, b)
      PROVE  FencedStep
  BY <1>0, <1>34 DEF CloseWrite
<1>35. ASSUME NEW s \in Studies, NEW to \in CloseOps, CloseQuietly(s, to)
      PROVE  FencedStep
  <2>1. study[s].state # "in_progress"
    BY <1>35, IdleStudy DEF CloseQuietly
  <2>2. to = "archived" /\ study[s].state \in {"draft", "completed"}
    BY <1>35, <2>1 DEF CloseQuietly, ClosableFrom, CloseOps
  <2>3. StudyArchived(s)
    BY <1>35, <2>2 DEF CloseQuietly, StudyArchived
  <2>. QED
    BY <1>1, <1>35, <2>3 DEF CloseQuietly
<1>36. ASSUME NEW s \in Studies, DeleteStudy(s) PROVE FencedStep
  <2>1. \A x \in Attempts :
           IF req[x].study = s /\ run[x].state \in TerminalStates
           THEN run'[x].state = "deleted" ELSE run'[x] = run[x]
    BY <1>0, <1>36 DEF DeleteStudy, TypeOK, RunRow, Closed
  <2>2. StudyDeleted(s)
    BY <1>36, <2>1 DEF DeleteStudy, StudyDeleted
  <2>. QED
    BY <1>1, <1>36, <2>2 DEF DeleteStudy
<1>37. CASE UNCHANGED vars
  BY <1>1, <1>2, <1>37 DEF vars
<1>38. ASSUME NEW a \in Attempts, LaunchRaises(a) PROVE FencedStep
  BY <1>38 DEF LaunchRaises, QuietLaunches
<1>. QED
  BY <1>4, <1>5, <1>6, <1>7, <1>8, <1>9, <1>10, <1>11, <1>12, <1>13, <1>14,
     <1>15, <1>16, <1>17, <1>18, <1>19, <1>20, <1>21, <1>22, <1>23, <1>24,
     <1>25, <1>26, <1>27, <1>28, <1>29, <1>30, <1>31, <1>32, <1>33, <1>34,
     <1>35, <1>36, <1>37, <1>38
     DEF Next, LaunchStep, WorkerStep,
     HandleStep, CancelStep, SupervisorStep, ProcessStep, LifecycleStep

(* Taking a seat and returning a held one keep the counter exact. *)
LEMMA SeatTaken ==
    ASSUME TypeOK, SeatsExact, NEW a \in Attempts, seat[a] # "held",
           seat' = [seat EXCEPT ![a] = "held"], used' = used + 1
    PROVE  SeatsExact'
<1>. DEFINE H == {x \in Attempts : seat[x] = "held"}
            G == {x \in Attempts : seat'[x] = "held"}
<1>1. IsFiniteSet(H) /\ a \notin H
  BY StudyRunAssumption, FS_Subset
<1>2. G = H \cup {a}
  BY DEF TypeOK
<1>3. Cardinality(G) = Cardinality(H) + 1
  BY <1>1, <1>2, FS_AddElement
<1>. QED
  BY <1>3 DEF SeatsExact

LEMMA SeatReturned ==
    ASSUME TypeOK, SeatsExact, NEW a \in Attempts, seat[a] = "held", ReleaseLaunch(a)
    PROVE  SeatsExact' /\ used > 0 /\ used' = used - 1
<1>. DEFINE H == {x \in Attempts : seat[x] = "held"}
            G == {x \in Attempts : seat'[x] = "held"}
<1>1. IsFiniteSet(H) /\ a \in H
  BY StudyRunAssumption, FS_Subset
<1>2. G = H \ {a}
  BY DEF TypeOK, ReleaseLaunch
<1>3. Cardinality(G) = Cardinality(H) - 1
  BY <1>1, <1>2, FS_RemoveElement
<1>4. used # 0
  BY <1>1, FS_EmptySet DEF SeatsExact
<1>5. used > 0 /\ used' = used - 1
  BY <1>4 DEF TypeOK, ReleaseLaunch
<1>. QED
  BY <1>3, <1>5 DEF SeatsExact

(* What a study, a request and a seat owe each other in one step. *)
LEMMA ClaimKeepsFence ==
    ASSUME TableInv, FencedInv, NEW a \in Attempts, NEW s \in Studies, NEW b \in Boots,
           LaunchClaim(a, s, b)
    PROVE  /\ TokensName' /\ LaunchOwnsStudy' /\ RunAndStudyAgree'
           /\ SeatFollowsLaunch' /\ SeatFollowsRun' /\ DraftHoldsNone' /\ SeatsExact'
<1>. USE DEF TableInv, FencedInv
<1>1. /\ study[s].state = "draft" /\ req[a].pc = "idle"
      /\ study'[s].state = "in_progress" /\ study'[s].token = a
      /\ \A t \in Studies \ {s} : study'[t] = study[t]
      /\ req'[a].pc = "claimed" /\ req'[a].study = s
      /\ \A x \in Attempts \ {a} : req'[x] = req[x]
      /\ seat[a] = "none" /\ run[a].state = "none"
      /\ run' = run /\ seat' = seat /\ used' = used
  BY DEF LaunchClaim, ClaimableStudy, TypeOK, SeatFollowsLaunch, NoRowYet, Fresh
<1>2. \A x \in Attempts \ {a} : Fenced(x) => Fenced(x)'
  BY <1>1 DEF Fenced
<1>3. Fenced(a)'
  BY <1>1 DEF Fenced
<1>4. TokensName'
  BY <1>1, StudyRunAssumption, SMTT(30) DEF TokensName, TypeOK, StudyRow
<1>5. LaunchOwnsStudy'
  BY <1>1, <1>2, <1>3 DEF LaunchOwnsStudy
<1>6. ActiveRunOwnsStudy'
  BY <1>1, <1>2 DEF RunAndStudyAgree, ActiveRunOwnsStudy, Active, ActiveStates
<1>7. InProgressHasRun'
  <2>. SUFFICES ASSUME NEW t \in Studies, study'[t].state = "in_progress", t # s
                PROVE  \/ run'[study'[t].token].state \in ActiveStates
                       \/ req'[study'[t].token].pc \in InFlight
    BY <1>1 DEF InProgressHasRun, InFlight, Active
  <2>1. study[t].token \in Attempts /\ study'[t] = study[t] /\ study[t].state = "in_progress"
    BY <1>1, StudyRunAssumption DEF TypeOK, StudyRow
  <2>2. Active(study[t].token) \/ req[study[t].token].pc \in InFlight
    BY <2>1 DEF RunAndStudyAgree, InProgressHasRun
  <2>3. study[t].token # a
    BY <1>1, <2>1, StudyRunAssumption DEF TokensName
  <2>. QED
    BY <1>1, <2>1, <2>2, <2>3 DEF Active
<1>8. CompletedRunIsBound'
  <2>. SUFFICES ASSUME NEW x \in Attempts, run[x].state = "completed"
                PROVE  /\ study'[req'[x].study].token = x
                       /\ study'[req'[x].study].state \in {"completed", "archived"}
    BY <1>1 DEF CompletedRunIsBound
  <2>1. /\ study[req[x].study].token = x
        /\ study[req[x].study].state \in {"completed", "archived"}
    BY DEF RunAndStudyAgree, CompletedRunIsBound
  <2>2. x # a /\ req[x].pc # "idle" /\ req[x].study \in Studies
    BY <1>1 DEF NoRowYet, Fresh, TokensName
  <2>. QED
    BY <1>1, <2>1, <2>2
<1>9. SeatFollowsLaunch' /\ SeatFollowsRun' /\ SeatsExact'
  BY <1>1 DEF SeatFollowsLaunch, SeatFollowsRun, SeatsExact
<1>10. DraftHoldsNone'
  BY <1>1 DEF DraftHoldsNone
<1>. QED
  BY <1>4, <1>5, <1>6, <1>7, <1>8, <1>9, <1>10 DEF RunAndStudyAgree

(* An attempt that owns its study lets go of it: the study goes back to    *)
(* draft or is completed, and the attempt has no launch and no active row  *)
(* any more.                                                               *)
LetsGo(a, st) ==
    /\ Fenced(a)
    /\ study' = [study EXCEPT ![req[a].study].state = st]
    /\ \A x \in Attempts : req'[x].study = req[x].study
    /\ req'[a].pc \notin InFlight \cup {"idle", "lost"}
    /\ run'[a].state \notin ActiveStates
    /\ run'[a].state = "completed" <=> st = "completed"
    /\ \A x \in Attempts \ {a} : req'[x] = req[x] /\ SameEnd(x)

LEMMA LetGoKeepsFence ==
    ASSUME TableInv, FencedInv, NEW a \in Attempts, NEW st \in {"draft", "completed"},
           LetsGo(a, st)
    PROVE  TokensName' /\ LaunchOwnsStudy' /\ RunAndStudyAgree'
<1>. USE DEF TableInv, FencedInv
<1>. DEFINE s == req[a].study
<1>1. /\ s \in Studies /\ study[s].state = "in_progress" /\ study[s].token = a
      /\ study'[s].state = st /\ study'[s].token = a
      /\ \A t \in Studies \ {s} : study'[t] = study[t]
  BY DEF LetsGo, Fenced, TypeOK, StudyRow
<1>. HIDE DEF s
<1>2. \A x \in Attempts \ {a} : Fenced(x) => Fenced(x)'
  BY <1>1 DEF LetsGo, Fenced
<1>3. TokensName'
  <2>1. \A t \in Studies : study'[t].token = study[t].token
    BY <1>1
  <2>2. \A t \in Studies : study[t].token # None =>
           study[t].token \in Attempts /\ req[study[t].token].study = t
    BY DEF TokensName, TypeOK, StudyRow
  <2>3. \A x \in Attempts :
           /\ req'[x].study = req[x].study
           /\ req'[x].pc # "lost"
           /\ (req'[x].pc = "idle") <=> (req[x].pc = "idle")
    BY <1>1, StudyRunAssumption DEF LetsGo, TokensName
  <2>. QED
    BY <2>1, <2>2, <2>3 DEF TokensName
<1>4. LaunchOwnsStudy'
  BY <1>2 DEF LaunchOwnsStudy, LetsGo
<1>5. ActiveRunOwnsStudy'
  BY <1>2 DEF LetsGo, SameEnd, RunAndStudyAgree, ActiveRunOwnsStudy, Active
<1>6. InProgressHasRun'
  <2>. SUFFICES ASSUME NEW t \in Studies, study'[t].state = "in_progress"
                PROVE  \/ run'[study'[t].token].state \in ActiveStates
                       \/ req'[study'[t].token].pc \in InFlight
    BY DEF InProgressHasRun, Active
  <2>1. t # s /\ study'[t] = study[t]
    BY <1>1
  <2>2. study[t].token \in Attempts /\ study[t].state = "in_progress"
    BY <2>1, StudyRunAssumption DEF TypeOK, StudyRow
  <2>3. Active(study[t].token) \/ req[study[t].token].pc \in InFlight
    BY <2>2 DEF RunAndStudyAgree, InProgressHasRun
  <2>4. study[t].token # a
    BY <2>1, <2>2, StudyRunAssumption DEF TokensName, s
  <2>. QED
    BY <2>1, <2>2, <2>3, <2>4 DEF LetsGo, SameEnd, Active
<1>7. CompletedRunIsBound'
  <2>. SUFFICES ASSUME NEW x \in Attempts, run'[x].state = "completed"
                PROVE  /\ study'[req[x].study].token = x
                       /\ study'[req[x].study].state \in {"completed", "archived"}
    BY DEF CompletedRunIsBound, LetsGo
  <2>1. CASE x = a
    BY <1>1, <2>1 DEF LetsGo, s
  <2>2. CASE x # a
    <3>1. run[x].state = "completed"
      BY <2>2 DEF LetsGo, SameEnd, Active, ActiveStates
    <3>2. /\ study[req[x].study].token = x
          /\ study[req[x].study].state \in {"completed", "archived"}
      BY <3>1 DEF RunAndStudyAgree, CompletedRunIsBound
    <3>3. req[x].study \in Studies
      BY <3>1 DEF NoRowYet, Fresh, TokensName
    <3>. QED
      BY <1>1, <3>2, <3>3
  <2>. QED
    BY <2>1, <2>2
<1>. QED
  BY <1>3, <1>4, <1>5, <1>6, <1>7 DEF RunAndStudyAgree

(* The studies are as they were: a reservation, a new row, or nothing.    *)
LEMMA StudiesKeptKeepFence ==
    ASSUME TableInv, FencedInv, study' = study,
           \A x \in Attempts :
              /\ req'[x].study = req[x].study
              /\ req'[x].pc = "lost" => req[x].pc = "lost"
              /\ (req'[x].pc = "idle") <=> (req[x].pc = "idle")
              /\ req'[x].pc \in InFlight => req[x].pc \in InFlight
              /\ (req'[x].pc \in InFlight \/ Active(x)') <=>
                    (req[x].pc \in InFlight \/ Active(x))
              /\ run'[x].state = "completed" <=> run[x].state = "completed"
    PROVE  TokensName' /\ LaunchOwnsStudy' /\ RunAndStudyAgree'
<1>. USE DEF TableInv, FencedInv
<1>1. \A x \in Attempts : Fenced(x) => Fenced(x)'
  BY DEF Fenced
<1>2. TokensName'
  <2>1. \A t \in Studies : study[t].token # None => study[t].token \in Attempts
    BY DEF TypeOK, StudyRow
  <2>. QED
    BY <2>1 DEF TokensName
<1>3. LaunchOwnsStudy'
  BY <1>1 DEF LaunchOwnsStudy
<1>4. ActiveRunOwnsStudy'
  BY <1>1 DEF RunAndStudyAgree, ActiveRunOwnsStudy, LaunchOwnsStudy
<1>5. InProgressHasRun'
  <2>. SUFFICES ASSUME NEW t \in Studies, study[t].state = "in_progress"
                PROVE  \/ run'[study[t].token].state \in ActiveStates
                       \/ req'[study[t].token].pc \in InFlight
    BY DEF InProgressHasRun, Active
  <2>1. study[t].token \in Attempts
    BY StudyRunAssumption DEF TypeOK, StudyRow
  <2>2. Active(study[t].token) \/ req[study[t].token].pc \in InFlight
    BY DEF RunAndStudyAgree, InProgressHasRun
  <2>. QED
    BY <2>1, <2>2 DEF Active
<1>6. CompletedRunIsBound'
  BY DEF RunAndStudyAgree, CompletedRunIsBound
<1>. QED
  BY <1>2, <1>3, <1>4, <1>5, <1>6 DEF RunAndStudyAgree

(* A study that nobody runs is archived or deleted. *)
LEMMA CloseKeepsFence ==
    ASSUME TableInv, FencedInv, NEW s \in Studies, StudyArchived(s) \/ StudyDeleted(s)
    PROVE  /\ TokensName' /\ LaunchOwnsStudy' /\ RunAndStudyAgree'
           /\ SeatFollowsLaunch' /\ SeatFollowsRun' /\ DraftHoldsNone' /\ SeatsExact'
<1>. USE DEF TableInv, FencedInv
<1>1. /\ study[s].state # "in_progress" /\ study'[s].token = study[s].token
      /\ study'[s].state \in {"archived", "deleted"}
      /\ \A t \in Studies \ {s} : study'[t] = study[t]
      /\ UNCHANGED << req, used, seat >>
  BY DEF StudyArchived, StudyDeleted, TypeOK, StudyRow
<1>2. \A x \in Attempts : run'[x].state = run[x].state
                          \/ (run[x].state \in TerminalStates /\ run'[x].state = "deleted")
  BY DEF StudyArchived, StudyDeleted
<1>3. \A x \in Attempts : Active(x)' <=> Active(x)
  BY <1>2 DEF Active, ActiveStates, TerminalStates, FailureStates
<1>4. \A x \in Attempts : Fenced(x) => Fenced(x)'
  BY <1>1 DEF Fenced
<1>5. TokensName'
  <2>1. \A t \in Studies : study'[t].token = study[t].token
    BY <1>1
  <2>2. \A t \in Studies : study[t].token # None => study[t].token \in Attempts
    BY DEF TypeOK, StudyRow
  <2>. QED
    BY <1>1, <2>1, <2>2 DEF TokensName
<1>6. LaunchOwnsStudy' /\ ActiveRunOwnsStudy'
  BY <1>1, <1>3, <1>4 DEF LaunchOwnsStudy, RunAndStudyAgree, ActiveRunOwnsStudy
<1>7. InProgressHasRun'
  <2>. SUFFICES ASSUME NEW t \in Studies, study'[t].state = "in_progress"
                PROVE  \/ run'[study'[t].token].state \in ActiveStates
                       \/ req'[study'[t].token].pc \in InFlight
    BY DEF InProgressHasRun, Active
  <2>1. study'[t] = study[t] /\ study[t].token \in Attempts
    BY <1>1, StudyRunAssumption DEF TypeOK, StudyRow
  <2>2. Active(study[t].token) \/ req[study[t].token].pc \in InFlight
    BY <2>1 DEF RunAndStudyAgree, InProgressHasRun
  <2>. QED
    BY <1>1, <1>3, <2>1, <2>2 DEF Active
<1>8. CompletedRunIsBound'
  <2>. SUFFICES ASSUME NEW x \in Attempts, run'[x].state = "completed"
                PROVE  /\ study'[req[x].study].token = x
                       /\ study'[req[x].study].state \in {"completed", "archived"}
    BY <1>1 DEF CompletedRunIsBound
  <2>1. run[x].state = "completed" /\ req[x].study \in Studies
    BY <1>2 DEF NoRowYet, Fresh, TokensName
  <2>2. /\ study[req[x].study].token = x
        /\ study[req[x].study].state \in {"completed", "archived"}
    BY <2>1 DEF RunAndStudyAgree, CompletedRunIsBound
  <2>3. req[x].study = s => StudyArchived(s)
    BY <2>1 DEF StudyDeleted, TerminalStates
  <2>4. req[x].study = s => study'[s].state = "archived"
    BY <2>3 DEF StudyArchived, TypeOK, StudyRow
  <2>. QED
    BY <1>1, <2>1, <2>2, <2>4
<1>9. SeatFollowsLaunch' /\ SeatsExact' /\ DraftHoldsNone'
  BY <1>1 DEF SeatFollowsLaunch, SeatsExact, DraftHoldsNone
<1>10. SeatFollowsRun'
  BY <1>1, <1>2 DEF SeatFollowsRun, ActiveStates, FailureStates
<1>. QED
  BY <1>5, <1>6, <1>7, <1>8, <1>9, <1>10 DEF RunAndStudyAgree

(* The seats of an attempt that lets go of its study.                      *)
LEMMA LetGoKeepsSeats ==
    ASSUME TableInv, FencedInv, NEW a \in Attempts, NEW st \in {"draft", "completed"},
           LetsGo(a, st),
           seat'[a] # "held" <=> st = "draft",
           \A x \in Attempts \ {a} : seat'[x] = seat[x]
    PROVE  DraftHoldsNone'
<1>. USE DEF TableInv, FencedInv
<1>. DEFINE s == req[a].study
<1>1. /\ s \in Studies /\ study'[s].state = st /\ study'[s].token = a
      /\ \A t \in Studies \ {s} : study'[t] = study[t]
  BY DEF LetsGo, Fenced, TypeOK, StudyRow
<1>2. \A t \in Studies \ {s} : study[t].token # a
  BY StudyRunAssumption DEF TokensName
<1>. HIDE DEF s
<1>3. \A t \in Studies : study[t].token # None => study[t].token \in Attempts
  BY DEF TypeOK, StudyRow
<1>. QED
  BY <1>1, <1>2, <1>3 DEF DraftHoldsNone

(* Every step of an attempt keeps the fenced protocol. *)
LEMMA AttemptKeepsFence ==
    ASSUME TableInv, FencedInv, NEW a \in Attempts, AttemptMoves(a)
    PROVE  /\ TokensName' /\ LaunchOwnsStudy' /\ RunAndStudyAgree'
           /\ SeatFollowsLaunch' /\ SeatFollowsRun' /\ DraftHoldsNone' /\ SeatsExact'
<1>. USE DEF TableInv, FencedInv
<1>1. CASE \E s \in Studies, b \in Boots : LaunchClaim(a, s, b)
  BY <1>1, ClaimKeepsFence
<1>2. CASE LaunchReserve(a)
  <2>1. /\ req[a].pc = "claimed" /\ seat[a] = "none" /\ run[a].state = "none"
        /\ \/ req'[a].pc = "reserved" /\ used' = used + 1 /\ seat' = [seat EXCEPT ![a] = "held"]
           \/ req'[a].pc = "refused" /\ used' = used /\ seat' = seat
        /\ \A x \in Attempts \ {a} : req'[x] = req[x]
        /\ req'[a].study = req[a].study
        /\ study' = study /\ run' = run
    BY <1>2 DEF LaunchReserve, TypeOK, Request, SeatFollowsLaunch, NoRowYet, Fresh
  <2>2. TokensName' /\ LaunchOwnsStudy' /\ RunAndStudyAgree'
    <3>1. \A x \in Attempts :
              /\ req'[x].study = req[x].study
              /\ req'[x].pc = "lost" => req[x].pc = "lost"
              /\ (req'[x].pc = "idle") <=> (req[x].pc = "idle")
              /\ (req'[x].pc \in InFlight) <=> (req[x].pc \in InFlight)
              /\ Active(x)' <=> Active(x)
              /\ run'[x].state = run[x].state
      BY <2>1 DEF InFlight, Active
    <3>. QED
      BY <2>1, <3>1, StudiesKeptKeepFence
  <2>3. SeatsExact'
    BY <2>1, SeatTaken DEF SeatsExact
  <2>4. SeatFollowsLaunch'
    BY <2>1 DEF SeatFollowsLaunch, TypeOK
  <2>5. SeatFollowsRun'
    BY <2>1 DEF SeatFollowsRun, TypeOK, FailureStates, ActiveStates
  <2>6. DraftHoldsNone'
    <3>1. Fenced(a)
      BY <2>1 DEF LaunchOwnsStudy, InFlight
    <3>2. \A s \in Studies : study[s].token = a => study[s].state = "in_progress"
      BY <3>1, StudyRunAssumption DEF Fenced, TokensName
    <3>3. \A s \in Studies : study[s].token # None => study[s].token \in Attempts
      BY DEF TypeOK, StudyRow
    <3>. QED
      BY <2>1, <3>2, <3>3 DEF DraftHoldsNone, TypeOK
  <2>. QED
    BY <2>2, <2>3, <2>4, <2>5, <2>6
<1>3. CASE LaunchCompensate(a)
  <2>1. req[a].pc = "refused" /\ seat[a] = "none" /\ run[a].state = "none" /\ Fenced(a)
    BY <1>3 DEF LaunchCompensate, SeatFollowsLaunch, NoRowYet, Fresh, LaunchOwnsStudy,
       InFlight
  <2>2. /\ req'[a].pc = "closed" /\ req'[a].study = req[a].study
        /\ \A x \in Attempts \ {a} : req'[x] = req[x]
        /\ study' = [study EXCEPT ![req[a].study].state = "draft"]
        /\ UNCHANGED << run, used, seat >>
    BY <1>3, <2>1 DEF LaunchCompensate, TypeOK, Request, Fenced
  <2>3. LetsGo(a, "draft")
    BY <2>1, <2>2 DEF LetsGo, SameEnd, Active, ActiveStates, InFlight
  <2>4. TokensName' /\ LaunchOwnsStudy' /\ RunAndStudyAgree'
    BY <2>3, LetGoKeepsFence
  <2>5. DraftHoldsNone'
    BY <2>1, <2>2, <2>3, LetGoKeepsSeats
  <2>6. SeatFollowsLaunch' /\ SeatFollowsRun' /\ SeatsExact'
    BY <2>2 DEF SeatFollowsLaunch, SeatFollowsRun, SeatsExact
  <2>. QED
    BY <2>4, <2>5, <2>6
<1>4. CASE Enqueues(a)
  <2>1. /\ req[a].pc = "reserved" /\ seat[a] = "held" /\ run[a].state = "none"
        /\ req'[a].pc = "closed" /\ run'[a].state = "queued"
        /\ \A x \in Attempts \ {a} : req'[x] = req[x] /\ SameEnd(x)
        /\ req'[a].study = req[a].study
        /\ UNCHANGED << study, used, seat >>
    BY <1>4 DEF Enqueues, OthersKept, TypeOK, Request, SeatFollowsLaunch, NoRowYet, Fresh
  <2>2. TokensName' /\ LaunchOwnsStudy' /\ RunAndStudyAgree'
    <3>1. \A x \in Attempts :
              /\ req'[x].study = req[x].study
              /\ req'[x].pc = "lost" => req[x].pc = "lost"
              /\ (req'[x].pc = "idle") <=> (req[x].pc = "idle")
              /\ req'[x].pc \in InFlight => req[x].pc \in InFlight
              /\ (req'[x].pc \in InFlight \/ Active(x)') <=>
                    (req[x].pc \in InFlight \/ Active(x))
              /\ run'[x].state = "completed" <=> run[x].state = "completed"
      BY <2>1 DEF InFlight, SameEnd, Active, ActiveStates
    <3>. QED
      BY <2>1, <3>1, StudiesKeptKeepFence
  <2>3. SeatsExact' /\ DraftHoldsNone'
    BY <2>1 DEF SeatsExact, DraftHoldsNone
  <2>4. SeatFollowsLaunch'
    BY <2>1 DEF SeatFollowsLaunch
  <2>5. SeatFollowsRun'
    BY <2>1 DEF SeatFollowsRun, SameEnd, Active, FailureStates, ActiveStates
  <2>. QED
    BY <2>2, <2>3, <2>4, <2>5
<1>5. CASE GivesUp(a)
  <2>1. req[a].pc = "reserved" /\ seat[a] = "held" /\ run[a].state = "none" /\ Fenced(a)
    BY <1>5 DEF GivesUp, SeatFollowsLaunch, NoRowYet, Fresh, LaunchOwnsStudy, InFlight
  <2>2. /\ req'[a].pc = "closed" /\ req'[a].study = req[a].study
        /\ \A x \in Attempts \ {a} : req'[x] = req[x]
        /\ study' = [study EXCEPT ![req[a].study].state = "draft"]
        /\ run' = run
        /\ seat'[a] = "returned" /\ \A x \in Attempts \ {a} : seat'[x] = seat[x]
    BY <1>5 DEF GivesUp, ReleaseLaunch, TypeOK, Request
  <2>3. LetsGo(a, "draft")
    BY <2>1, <2>2 DEF LetsGo, SameEnd, Active, ActiveStates, InFlight
  <2>4. TokensName' /\ LaunchOwnsStudy' /\ RunAndStudyAgree'
    BY <2>3, LetGoKeepsFence
  <2>5. DraftHoldsNone'
    BY <2>2, <2>3, LetGoKeepsSeats
  <2>6. SeatsExact'
    BY <1>5, <2>1, SeatReturned DEF GivesUp
  <2>7. SeatFollowsLaunch' /\ SeatFollowsRun'
    BY <2>1, <2>2 DEF SeatFollowsLaunch, SeatFollowsRun, FailureStates, ActiveStates
  <2>. QED
    BY <2>4, <2>5, <2>6, <2>7
<1>6. CASE RunFails(a)
  <2>1. /\ Active(a) /\ Fenced(a) /\ seat[a] = "held"
        /\ req[a].pc \notin InFlight \cup {"idle", "lost"}
    BY <1>6 DEF RunFails, RunAndStudyAgree, ActiveRunOwnsStudy, SeatFollowsRun, Active,
       NoRowYet, Fresh, TokensName, InFlight, ActiveStates
  <2>2. /\ study' = [study EXCEPT ![req[a].study].state = "draft"]
        /\ req' = req /\ run'[a].state \in FailureStates
        /\ \A x \in Attempts \ {a} : SameEnd(x)
        /\ seat'[a] = "returned" /\ \A x \in Attempts \ {a} : seat'[x] = seat[x]
    BY <1>6 DEF RunFails, OthersKept, ReleaseLaunch, TypeOK
  <2>3. LetsGo(a, "draft")
    BY <2>1, <2>2 DEF LetsGo, ActiveStates, FailureStates
  <2>4. TokensName' /\ LaunchOwnsStudy' /\ RunAndStudyAgree'
    BY <2>3, LetGoKeepsFence
  <2>5. DraftHoldsNone'
    BY <2>2, <2>3, LetGoKeepsSeats
  <2>6. SeatsExact'
    BY <1>6, <2>1, SeatReturned DEF RunFails
  <2>7. SeatFollowsLaunch'
    BY <2>1, <2>2 DEF SeatFollowsLaunch, InFlight
  <2>8. SeatFollowsRun'
    BY <2>2 DEF SeatFollowsRun, SameEnd, Active, FailureStates, ActiveStates
  <2>. QED
    BY <2>4, <2>5, <2>6, <2>7, <2>8
<1>7. CASE RunCompletes(a)
  <2>1. /\ Active(a) /\ Fenced(a) /\ seat[a] = "held"
        /\ req[a].pc \notin InFlight \cup {"idle", "lost"}
    BY <1>7 DEF RunCompletes, RunAndStudyAgree, ActiveRunOwnsStudy, SeatFollowsRun, Active,
       NoRowYet, Fresh, TokensName, InFlight, ActiveStates
  <2>2. /\ study' = [study EXCEPT ![req[a].study].state = "completed"]
        /\ UNCHANGED << req, used, seat >> /\ run'[a].state = "completed"
        /\ \A x \in Attempts \ {a} : SameEnd(x)
    BY <1>7 DEF RunCompletes, OthersKept
  <2>3. LetsGo(a, "completed")
    BY <2>1, <2>2 DEF LetsGo, ActiveStates
  <2>4. TokensName' /\ LaunchOwnsStudy' /\ RunAndStudyAgree'
    BY <2>3, LetGoKeepsFence
  <2>5. DraftHoldsNone'
    BY <2>1, <2>2, <2>3, LetGoKeepsSeats
  <2>6. SeatsExact' /\ SeatFollowsLaunch'
    BY <2>2 DEF SeatsExact, SeatFollowsLaunch
  <2>7. SeatFollowsRun'
    BY <2>1, <2>2 DEF SeatFollowsRun, SameEnd, Active, FailureStates, ActiveStates
  <2>. QED
    BY <2>4, <2>5, <2>6, <2>7
<1>. QED
  BY <1>1, <1>2, <1>3, <1>4, <1>5, <1>6, <1>7 DEF AttemptMoves

(* The invariant of the fenced protocol. *)
LEMMA FencedInvariant == ASSUME QuietLaunches PROVE Spec => []FencedInv
<1>1. Init => FencedInv
  <2>. SUFFICES ASSUME Init PROVE FencedInv
    OBVIOUS
  <2>1. SeatsExact
    <3>1. {a \in Attempts : seat[a] = "held"} = {}
      BY DEF Init
    <3>. QED
      BY <3>1, FS_EmptySet DEF Init, SeatsExact
  <2>2. RunAndStudyAgree
    BY DEF Init, RunAndStudyAgree, ActiveRunOwnsStudy, InProgressHasRun,
       CompletedRunIsBound, Active, ActiveStates
  <2>3. NothingStale /\ TokensName /\ LaunchOwnsStudy /\ SeatFollowsLaunch
        /\ SeatFollowsRun /\ DraftHoldsNone
    BY DEF Init, NothingStale, TokensName, LaunchOwnsStudy, SeatFollowsLaunch,
       SeatFollowsRun, DraftHoldsNone, InFlight, FailureStates, ActiveStates
  <2>. QED
    BY <2>1, <2>2, <2>3 DEF FencedInv
<1>2. ASSUME TableInv, TypeOK', FencedInv, [Next]_vars PROVE FencedInv'
  <2>1. FencedStep
    BY <1>2, EveryFencedStep
  <2>2. NothingStale'
    <3>1. \A x \in Attempts : run[x].state # "none" => run'[x].state # "none"
      BY <1>2, EveryAttemptStep DEF AttemptStep, RowStep, RowKept, RowCreated,
         RowClaimed, RowClosed, RowCompleted, RowDeleted, FailureStates
    <3>2. \A c \in cancelling' : c[1] \in Attempts
      BY <1>2 DEF TypeOK
    <3>. QED
      BY <1>2, <2>1, <3>1, <3>2 DEF FencedStep, HandlersKept, FencedInv, NothingStale
  <2>3. CASE \E a \in Attempts : AttemptMoves(a)
    BY <1>2, <2>2, <2>3, AttemptKeepsFence DEF FencedInv
  <2>4. CASE \E s \in Studies : StudyArchived(s) \/ StudyDeleted(s)
    BY <1>2, <2>2, <2>4, CloseKeepsFence DEF FencedInv
  <2>5. CASE RowsKept
    <3>1. TokensName' /\ LaunchOwnsStudy' /\ RunAndStudyAgree'
      <4>1. \A x \in Attempts :
                /\ req'[x] = req[x]
                /\ Active(x)' <=> Active(x)
                /\ run'[x].state = "completed" <=> run[x].state = "completed"
        BY <2>5 DEF RowsKept, SameEnd, Active, ActiveStates
      <4>. QED
        BY <1>2, <2>5, <4>1, StudiesKeptKeepFence DEF RowsKept
    <3>2. SeatFollowsRun'
      BY <1>2, <2>5 DEF RowsKept, SameEnd, FencedInv, SeatFollowsRun, Active,
         ActiveStates, FailureStates
    <3>3. SeatFollowsLaunch' /\ DraftHoldsNone' /\ SeatsExact'
      BY <1>2, <2>5 DEF RowsKept, FencedInv, SeatFollowsLaunch, DraftHoldsNone, SeatsExact
    <3>. QED
      BY <2>2, <3>1, <3>2, <3>3 DEF FencedInv
  <2>. QED
    BY <2>1, <2>3, <2>4, <2>5 DEF FencedStep
<1>. QED
  BY <1>1, <1>2, TableInvariant, TypeCorrect, PTL DEF Spec

-----------------------------------------------------------------------------
(* Study and run rows agree at every moment between two transactions: the  *)
(* fence of every live run holds, no study is in progress for nobody, and  *)
(* no completion was written by an attempt the study has moved on from.    *)
THEOREM RowsAgree == ASSUME QuietLaunches PROVE Spec => []RunAndStudyAgree
<1>1. FencedInv => RunAndStudyAgree
  BY DEF FencedInv
<1>. QED
  BY <1>1, FencedInvariant, PTL

(* No seat is burnt and none is given away: a failed run has returned its  *)
(* seat, an active or completed one still holds it.                        *)
THEOREM SeatWithRun == ASSUME QuietLaunches PROVE Spec => []SeatFollowsRun
<1>1. FencedInv => SeatFollowsRun
  BY DEF FencedInv
<1>. QED
  BY <1>1, FencedInvariant, PTL

(* The study an attempt moves is its own, and was in progress. *)
LEMMA MovesOwnStudy ==
    ASSUME TableInv, FencedInv, NEW a \in Attempts, AttemptMoves(a)
    PROVE  \/ \E s \in Studies, b \in Boots : LaunchClaim(a, s, b)
           \/ Fenced(a) /\ \A t \in Studies : t # req[a].study => study'[t] = study[t]
<1>1. Fenced(a) \/ \E s \in Studies, b \in Boots : LaunchClaim(a, s, b)
  BY DEF AttemptMoves, FencedInv, LaunchOwnsStudy, RunAndStudyAgree, ActiveRunOwnsStudy,
     LaunchReserve, LaunchCompensate, Enqueues, GivesUp, RunFails, RunCompletes, InFlight
<1>2. ASSUME Fenced(a), ~ \E s \in Studies, b \in Boots : LaunchClaim(a, s, b)
      PROVE  \A t \in Studies : t # req[a].study => study'[t] = study[t]
  BY <1>2 DEF AttemptMoves, LaunchReserve, LaunchCompensate, Enqueues, GivesUp,
     RunFails, RunCompletes, TableInv, TypeOK
<1>. QED
  BY <1>1, <1>2

(* An archived study stays archived until it is deleted: no late launch    *)
(* step, worker or sweep brings it back.                                   *)
THEOREM ArchiveHolds == ASSUME QuietLaunches PROVE Spec => ArchivedIsFinal
<1>1. ASSUME TableInv, FencedInv, [Next]_vars
      PROVE  \A s \in Studies : study[s].state = "archived" =>
                study'[s].state \in {"archived", "deleted"}
  <2>. SUFFICES ASSUME NEW s \in Studies, study[s].state = "archived"
                PROVE  study'[s].state \in {"archived", "deleted"}
    OBVIOUS
  <2>1. FencedStep
    BY <1>1, EveryFencedStep
  <2>2. ASSUME NEW a \in Attempts, AttemptMoves(a) PROVE study'[s] = study[s]
    <3>1. ASSUME NEW t \in Studies, NEW b \in Boots, LaunchClaim(a, t, b)
          PROVE  study'[s] = study[s]
      BY <1>1, <3>1 DEF LaunchClaim, ClaimableStudy, TableInv, TypeOK
    <3>. QED
      BY <1>1, <2>2, <3>1, MovesOwnStudy DEF Fenced
  <2>3. ASSUME NEW t \in Studies, StudyArchived(t) \/ StudyDeleted(t)
        PROVE  study'[s].state \in {"archived", "deleted"}
    BY <1>1, <2>3 DEF StudyArchived, StudyDeleted, TableInv, TypeOK, StudyRow
  <2>. QED
    BY <2>1, <2>2, <2>3 DEF FencedStep, RowsKept
<1>. QED
  BY <1>1, TableInvariant, FencedInvariant, PTL DEF Spec, ArchivedIsFinal

(* The steps that lower the counter. *)
LEMMA GiveBackStep ==
    ASSUME TableInv, FencedInv, NEW a \in Attempts, GivesUp(a) \/ RunFails(a)
    PROVE  /\ Fenced(a)
           /\ seat[a] = "held"
           /\ study' = [study EXCEPT ![req[a].study].state = "draft"]
           /\ seat' = [seat EXCEPT ![a] = "returned"]
           /\ used' = used - 1
<1>1. Fenced(a) /\ seat[a] = "held"
  BY DEF FencedInv, LaunchOwnsStudy, RunAndStudyAgree, ActiveRunOwnsStudy, GivesUp,
     RunFails, InFlight, SeatFollowsLaunch, SeatFollowsRun, Active
<1>. QED
  BY <1>1, SeatReturned DEF TableInv, FencedInv, GivesUp, RunFails, ReleaseLaunch

(* No seat is returned twice, nor apart from its study: a step that lowers *)
(* the counter turns one held seat into a returned one, and puts that      *)
(* study back to draft.                                                    *)
THEOREM SeatReturnedWithStudy == ASSUME QuietLaunches PROVE Spec => SeatReturnedOnce
<1>1. ASSUME TableInv, FencedInv, [Next]_vars, used' < used
      PROVE  \E a \in Attempts :
                /\ seat[a] = "held" /\ seat'[a] = "returned"
                /\ study[req[a].study].state = "in_progress"
                /\ study'[req[a].study].state = "draft"
  <2>1. FencedStep
    BY <1>1, EveryFencedStep
  <2>2. PICK a \in Attempts : AttemptMoves(a)
    BY <1>1, <2>1 DEF FencedStep, StudyArchived, StudyDeleted, RowsKept, TableInv, TypeOK
  <2>3. GivesUp(a) \/ RunFails(a)
    BY <1>1, <2>2 DEF AttemptMoves, LaunchClaim, LaunchReserve, LaunchCompensate,
       Enqueues, RunCompletes, TableInv, TypeOK
  <2>4. /\ Fenced(a) /\ seat[a] = "held"
        /\ study' = [study EXCEPT ![req[a].study].state = "draft"]
        /\ seat' = [seat EXCEPT ![a] = "returned"]
    BY <1>1, <2>3, GiveBackStep
  <2>5. /\ seat[a] = "held" /\ seat'[a] = "returned"
        /\ study[req[a].study].state = "in_progress"
        /\ study'[req[a].study].state = "draft"
    BY <1>1, <2>4 DEF Fenced, TableInv, TypeOK, StudyRow
  <2>. QED
    BY <2>5
<1>. QED
  BY <1>1, TableInvariant, FencedInvariant, PTL DEF Spec, SeatReturnedOnce

-----------------------------------------------------------------------------
(* The refinement of the account, step by step.                            *)

(* A study's place in the account follows its token, that attempt's seat   *)
(* and whether it is in progress.                                          *)
LEMMA HoldsKept ==
    ASSUME NEW s \in Studies, study'[s].token = study[s].token,
           study'[s].state = "in_progress" <=> study[s].state = "in_progress",
           study[s].token # None =>
              (seat'[study[s].token] = "held" <=> seat[study[s].token] = "held")
    PROVE  HoldsSeat(s)' = HoldsSeat(s)
BY DEF HoldsSeat

(* Other attempts' studies are not touched by a step of this attempt. *)
LEMMA OthersHold ==
    ASSUME TableInv, FencedInv, NEW a \in Attempts, req[a].pc # "idle",
           \A t \in Studies : t # req[a].study => study'[t] = study[t],
           \A x \in Attempts \ {a} : seat'[x] = seat[x],
           NEW t \in Studies, t # req[a].study
    PROVE  HoldsSeat(t)' = HoldsSeat(t)
<1>1. study[t].token # a
  BY StudyRunAssumption DEF FencedInv, TokensName
<1>2. study[t].token # None => study[t].token \in Attempts
  BY DEF TableInv, TypeOK, StudyRow
<1>. QED
  BY <1>1, <1>2, HoldsKept

(* What an attempt does to the account of its study s: nothing, a start,   *)
(* a seat given back, or a seat kept.                                      *)
LEMMA AttemptHolds ==
    ASSUME TableInv, FencedInv, NEW a \in Attempts, NEW s \in Studies,
           req[a].study = s, Fenced(a), AttemptMoves(a)
    PROVE  \/ HoldsSeat(s)' = HoldsSeat(s) /\ used' = used
           \/ /\ HoldsSeat(s) = "none" /\ HoldsSeat(s)' = "busy"
              /\ used < Limit /\ used' = used + 1
           \/ HoldsSeat(s) = "busy" /\ HoldsSeat(s)' = "none" /\ used' = used - 1
           \/ HoldsSeat(s) = "busy" /\ HoldsSeat(s)' = "kept" /\ used' = used
<1>1. /\ study[s].state = "in_progress" /\ study[s].token = a /\ a # None
      /\ TypeOK
  BY StudyRunAssumption DEF Fenced, TableInv
<1>2. req[a].pc # "idle"
  BY <1>1 DEF FencedInv, TokensName
<1>3. CASE LaunchReserve(a)
  <2>1. study' = study /\ seat[a] = "none"
    BY <1>3 DEF LaunchReserve, FencedInv, SeatFollowsLaunch
  <2>2. \/ used < Limit /\ used' = used + 1 /\ seat'[a] = "held"
        \/ used' = used /\ seat' = seat
    BY <1>1, <1>3 DEF LaunchReserve, TypeOK
  <2>. QED
    BY <1>1, <2>1, <2>2 DEF HoldsSeat
<1>4. CASE LaunchCompensate(a)
  BY <1>1, <1>4 DEF LaunchCompensate, FencedInv, SeatFollowsLaunch, HoldsSeat, TypeOK,
     StudyRow
<1>5. CASE Enqueues(a)
  BY <1>5 DEF Enqueues, HoldsSeat
<1>6. CASE GivesUp(a) \/ RunFails(a)
  <2>1. /\ seat[a] = "held" /\ used' = used - 1
        /\ study' = [study EXCEPT ![s].state = "draft"]
        /\ seat' = [seat EXCEPT ![a] = "returned"]
    BY <1>6, GiveBackStep
  <2>2. study'[s].token = a /\ seat'[a] = "returned"
    BY <1>1, <2>1 DEF TypeOK, StudyRow
  <2>. QED
    BY <1>1, <2>1, <2>2 DEF HoldsSeat
<1>7. CASE RunCompletes(a)
  <2>1. /\ seat[a] = "held" /\ seat' = seat /\ used' = used
        /\ study' = [study EXCEPT ![s].state = "completed"]
    BY <1>7 DEF RunCompletes, FencedInv, SeatFollowsRun, Active
  <2>2. study'[s].token = a /\ study'[s].state = "completed"
    BY <1>1, <2>1 DEF TypeOK, StudyRow
  <2>. QED
    BY <1>1, <2>1, <2>2 DEF HoldsSeat
<1>8. \A t \in Studies, b \in Boots : ~ LaunchClaim(a, t, b)
  BY <1>2 DEF LaunchClaim
<1>. QED
  BY <1>3, <1>4, <1>5, <1>6, <1>7, <1>8 DEF AttemptMoves

(* A claim takes a study that holds nothing and leaves it holding nothing. *)
LEMMA ClaimHolds ==
    ASSUME TableInv, FencedInv, NEW a \in Attempts, NEW s \in Studies, NEW b \in Boots,
           LaunchClaim(a, s, b), NEW t \in Studies
    PROVE  HoldsSeat(t)' = HoldsSeat(t)
<1>1. CASE t = s
  <2>1. HoldsSeat(s) = "none"
    BY DEF LaunchClaim, ClaimableStudy, FencedInv, DraftHoldsNone, HoldsSeat
  <2>2. study'[s].token = a /\ seat'[a] = "none" /\ a # None
    BY StudyRunAssumption DEF LaunchClaim, FencedInv, SeatFollowsLaunch, TableInv, TypeOK
  <2>. QED
    BY <1>1, <2>1, <2>2 DEF HoldsSeat
<1>2. CASE t # s
  BY <1>2, HoldsKept DEF LaunchClaim, TableInv, TypeOK
<1>. QED
  BY <1>1, <1>2

(* Every step of the protocol is a step of the account, or invisible to it. *)
LEMMA LedgerStep ==
    ASSUME QuietLaunches, TableInv, FencedInv, [Next]_vars
    PROVE  \/ /\ \A t \in Studies : HoldsSeat(t)' = HoldsSeat(t)
              /\ used' = used
           \/ \E s \in Studies :
                 /\ \A t \in Studies \ {s} : HoldsSeat(t)' = HoldsSeat(t)
                 /\ \/ /\ HoldsSeat(s) = "none" /\ HoldsSeat(s)' = "busy"
                       /\ used < Limit /\ used' = used + 1
                    \/ HoldsSeat(s) = "busy" /\ HoldsSeat(s)' = "none" /\ used' = used - 1
                    \/ HoldsSeat(s) = "busy" /\ HoldsSeat(s)' = "kept" /\ used' = used
<1>1. FencedStep
  BY EveryFencedStep
<1>2. ASSUME NEW a \in Attempts, NEW s \in Studies, NEW b \in Boots, LaunchClaim(a, s, b)
      PROVE  (\A t \in Studies : HoldsSeat(t)' = HoldsSeat(t)) /\ used' = used
  BY <1>2, ClaimHolds DEF LaunchClaim
<1>3. ASSUME NEW a \in Attempts, AttemptMoves(a), Fenced(a)
      PROVE  /\ req[a].study \in Studies
             /\ \A t \in Studies \ {req[a].study} : HoldsSeat(t)' = HoldsSeat(t)
  <2>1. a # None /\ req[a].study \in Studies /\ req[a].pc # "idle"
    BY <1>3, StudyRunAssumption DEF Fenced, FencedInv, TokensName
  <2>2. \A t \in Studies : t # req[a].study => study'[t] = study[t]
    BY <1>3, <2>1, MovesOwnStudy DEF LaunchClaim
  <2>3. \A x \in Attempts \ {a} : seat'[x] = seat[x]
    BY <1>3 DEF AttemptMoves, LaunchClaim, LaunchReserve, LaunchCompensate, Enqueues,
       GivesUp, RunFails, RunCompletes, ReleaseLaunch, TableInv, TypeOK
  <2>. QED
    BY <2>1, <2>2, <2>3, OthersHold
<1>4. ASSUME NEW s \in Studies, StudyArchived(s) \/ StudyDeleted(s)
      PROVE  (\A t \in Studies : HoldsSeat(t)' = HoldsSeat(t)) /\ used' = used
  <2>1. /\ seat' = seat /\ used' = used
        /\ \A t \in Studies :
              /\ study'[t].token = study[t].token
              /\ study'[t].state = "in_progress" <=> study[t].state = "in_progress"
    BY <1>4 DEF StudyArchived, StudyDeleted, TableInv, TypeOK, StudyRow
  <2>. QED
    BY <2>1, HoldsKept
<1>5. CASE RowsKept
  BY <1>5, HoldsKept DEF RowsKept
<1>6. ASSUME NEW a \in Attempts, AttemptMoves(a), Fenced(a)
      PROVE  \E s \in Studies :
                /\ req[a].study = s
                /\ \A t \in Studies \ {s} : HoldsSeat(t)' = HoldsSeat(t)
                /\ \/ HoldsSeat(s)' = HoldsSeat(s) /\ used' = used
                   \/ /\ HoldsSeat(s) = "none" /\ HoldsSeat(s)' = "busy"
                      /\ used < Limit /\ used' = used + 1
                   \/ HoldsSeat(s) = "busy" /\ HoldsSeat(s)' = "none" /\ used' = used - 1
                   \/ HoldsSeat(s) = "busy" /\ HoldsSeat(s)' = "kept" /\ used' = used
  <2>. PICK s \in Studies : s = req[a].study
    BY <1>3, <1>6
  <2>. QED
    BY <1>3, <1>6, AttemptHolds
<1>. QED
  BY <1>1, <1>2, <1>4, <1>5, <1>6, MovesOwnStudy DEF FencedStep

(* Every interleaving of requests, workers, sweeps and stops implements    *)
(* the ledger: each start takes a seat, each failure gives that one back,  *)
(* each completion keeps it, and nothing else moves the counter.           *)
THEOREM RefinesLedger == ASSUME QuietLaunches PROVE Spec => ImplementsLedger
<1>. DEFINE H == [s \in Studies |-> HoldsSeat(s)]
<1>1. Init => Ledger!Init
  BY DEF Init, Ledger!Init, HoldsSeat
<1>2. ASSUME TableInv, FencedInv, [Next]_vars
      PROVE  [Ledger!Next]_<< H, used >>
  <2>1. CASE (\A t \in Studies : HoldsSeat(t)' = HoldsSeat(t)) /\ used' = used
    BY <2>1
  <2>2. ASSUME NEW s \in Studies,
               \A t \in Studies \ {s} : HoldsSeat(t)' = HoldsSeat(t)
        PROVE  \A v : HoldsSeat(s)' = v => H' = [H EXCEPT ![s] = v]
    BY <2>2
  <2>3. ASSUME NEW s \in Studies,
               \A t \in Studies \ {s} : HoldsSeat(t)' = HoldsSeat(t),
               HoldsSeat(s) = "none", HoldsSeat(s)' = "busy", used < Limit, used' = used + 1
        PROVE  Ledger!Next
    BY <2>2, <2>3 DEF Ledger!Next, Ledger!Start
  <2>4. ASSUME NEW s \in Studies,
               \A t \in Studies \ {s} : HoldsSeat(t)' = HoldsSeat(t),
               HoldsSeat(s) = "busy", HoldsSeat(s)' = "none", used' = used - 1
        PROVE  Ledger!Next
    BY <2>2, <2>4 DEF Ledger!Next, Ledger!GiveBack
  <2>5. ASSUME NEW s \in Studies,
               \A t \in Studies \ {s} : HoldsSeat(t)' = HoldsSeat(t),
               HoldsSeat(s) = "busy", HoldsSeat(s)' = "kept", used' = used
        PROVE  Ledger!Next
    BY <2>2, <2>5 DEF Ledger!Next, Ledger!Keep
  <2>. QED
    BY <1>2, <2>1, <2>3, <2>4, <2>5, LedgerStep
<1>. QED
  BY <1>1, <1>2, TableInvariant, FencedInvariant, PTL DEF Spec, ImplementsLedger,
     Ledger!Spec

=============================================================================
