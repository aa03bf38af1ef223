-------------------------- MODULE MissionRun_proofs --------------------------
(***************************************************************************)
(* Proofs about MissionRun, for every set of missions, both budgets of a   *)
(* run, every budget of a mission and any number of retries.               *)
(***************************************************************************)
EXTENDS MissionRun, TLAPS

-----------------------------------------------------------------------------
(* The row of a thread.                                                    *)

AgentRow ==
    [pc : {"off", "top", "check", "reserve", "sent", "done"},
     round : 0 .. MaxRounds, used : 0 .. Budget, offered : BOOLEAN,
     nudged : BOOLEAN, capped : BOOLEAN, tries : 0 .. Retries,
     repair : BOOLEAN, fate : {"good", "failed"},
     after : 0 .. 2, late : 0 .. 3, intime : BOOLEAN]

LEMMA Bounds ==
    /\ LlmCap \in Nat /\ LlmCap > 0
    /\ ToolCap \in Nat /\ ToolCap > 0
    /\ Budget \in Nat /\ Budget > 0
    /\ Retries \in Nat
    /\ MaxRounds \in Nat /\ MaxRounds > 0
BY MissionRunAssumption DEF MaxRounds

LEMMA NoAgentRow == NoAgent \in AgentRow
BY Bounds DEF NoAgent, AgentRow

(* A thread that finishes leaves a row whose counts are those of no agent. *)
LEMMA FinishRow ==
    ASSUME TypeOK, NEW m \in Everyone, NEW fate \in {"good", "failed"}, Finish(m, fate)
    PROVE  /\ agent'[m] \in AgentRow
           /\ agent'[m].pc = "done" /\ ~ agent'[m].repair
           /\ agent'[m].after = 0 /\ agent'[m].late = 0
           /\ \A x \in Everyone \ {m} : agent'[x] = agent[x]
           /\ agent' \in [Everyone -> AgentRow]
<1>. DEFINE late == m # Gaps /\ ~deadline /\ ~cancel
            row == [NoAgent EXCEPT !.pc = "done", !.fate = fate, !.intime = late]
<1>1. /\ row \in AgentRow /\ row.pc = "done" /\ ~ row.repair
      /\ row.after = 0 /\ row.late = 0
  BY NoAgentRow DEF AgentRow, NoAgent
<1>2. agent' = [agent EXCEPT ![m] = row]
  BY DEF Finish, Set
<1>. HIDE DEF row
<1>. QED
  BY <1>1, <1>2 DEF TypeOK, AgentRow

(* A thread's row is written and the others' are not. *)
LEMMA SetRow ==
    ASSUME TypeOK, NEW m \in Everyone, NEW row \in AgentRow, Set(m, row)
    PROVE  /\ agent'[m] = row
           /\ \A x \in Everyone \ {m} : agent'[x] = agent[x]
           /\ agent' \in [Everyone -> AgentRow]
BY DEF Set, TypeOK, AgentRow

(* A round ends in the next one or, with the last, in a failed mission.    *)
LEMMA NextRoundRow ==
    ASSUME TypeOK, NEW m \in Everyone, NEW a \in AgentRow, NextRound(m, a)
    PROVE  /\ \/ /\ agent'[m].pc = "top" /\ agent'[m].repair = a.repair
                 /\ agent'[m].after = a.after /\ agent'[m].late = a.late
              \/ /\ agent'[m].pc = "done" /\ ~ agent'[m].repair
                 /\ agent'[m].after = 0 /\ agent'[m].late = 0
           /\ \A x \in Everyone \ {m} : agent'[x] = agent[x]
           /\ agent' \in [Everyone -> AgentRow]
<1>1. CASE a.round + 1 < MaxRounds
  <2>. DEFINE row == [a EXCEPT !.pc = "top", !.round = @ + 1, !.offered = FALSE]
  <2>1. a.round \in Nat /\ a.round + 1 \in 0 .. MaxRounds
    BY <1>1, Bounds DEF AgentRow
  <2>2. /\ row \in AgentRow /\ row.pc = "top" /\ row.repair = a.repair
        /\ row.after = a.after /\ row.late = a.late
    BY <2>1 DEF AgentRow
  <2>3. Set(m, row)
    BY <1>1 DEF NextRound
  <2>. HIDE DEF row
  <2>. QED
    BY <2>2, <2>3, SetRow
<1>2. CASE ~ (a.round + 1 < MaxRounds)
  BY <1>2, FinishRow DEF NextRound
<1>. QED
  BY <1>1, <1>2

-----------------------------------------------------------------------------
(* Type correctness.  First what one step of a thread writes: the row and  *)
(* its range, the other threads' rows, the bounds of the two budgets.      *)

RowsKept(m) ==
    /\ \A x \in Everyone \ {m} : agent'[x] = agent[x]
    /\ agent' \in [Everyone -> AgentRow]

LEMMA RowOf ==
    ASSUME TypeOK, NEW m \in Everyone
    PROVE  agent[m] \in AgentRow
BY DEF TypeOK, AgentRow

LEMMA TopRow ==
    ASSUME TypeOK, NEW m \in Everyone, Top(m)
    PROVE  /\ RowsKept(m)
           /\ \/ agent'[m].pc = "done" /\ agent'[m].after = 0 /\ agent'[m].late = 0
              \/ /\ ~ GivesUp(m) /\ agent'[m].pc = "reserve" /\ agent'[m].tries = 0
                 /\ agent'[m].repair = agent[m].repair
                 /\ agent'[m].after = agent[m].after /\ agent'[m].late = agent[m].late
<1>. DEFINE a == agent[m]
            capped == a.capped \/ Capped
            offered == a.used < Budget /\ ~capped
            row == [a EXCEPT !.pc = "reserve", !.capped = capped,
                             !.offered = offered, !.nudged = @ \/ ~offered, !.tries = 0]
<1>1. CASE GivesUp(m)
  <2>1. Finish(m, "failed")
    BY <1>1 DEF Top
  <2>. QED
    BY <2>1, FinishRow DEF RowsKept
<1>2. CASE ~ GivesUp(m)
  <2>1. a \in AgentRow
    BY RowOf
  <2>2. Set(m, row)
    BY <1>2 DEF Top
  <2>3. capped \in BOOLEAN
    BY <2>1 DEF AgentRow, Capped
  <2>. HIDE DEF capped
  <2>4. offered \in BOOLEAN
    OBVIOUS
  <2>. HIDE DEF offered
  <2>5. 0 \in 0 .. Retries /\ a.nudged \in BOOLEAN
    BY <2>1, Bounds DEF AgentRow
  <2>. DEFINE nudged == a.nudged \/ ~ offered
  <2>6. nudged \in BOOLEAN
    BY <2>4, <2>5
  <2>7. row = [a EXCEPT !.pc = "reserve", !.capped = capped,
                        !.offered = offered, !.nudged = nudged, !.tries = 0]
    OBVIOUS
  <2>. HIDE DEF nudged, a, row
  <2>8. /\ row \in AgentRow /\ row.pc = "reserve" /\ row.tries = 0
        /\ row.repair = a.repair /\ row.after = a.after /\ row.late = a.late
    BY <2>1, <2>3, <2>4, <2>5, <2>6, <2>7 DEF AgentRow
  <2>9. Set(m, row)
    BY <2>2
  <2>. QED
    BY <1>2, <2>8, <2>9, SetRow DEF RowsKept, a
<1>. QED
  BY <1>1, <1>2

LEMMA CheckRow ==
    ASSUME TypeOK, NEW m \in Everyone, Check(m)
    PROVE  /\ RowsKept(m)
           /\ \/ agent'[m].pc = "done" /\ agent'[m].after = 0 /\ agent'[m].late = 0
              \/ /\ ~ cancel /\ agent'[m] = [agent[m] EXCEPT !.pc = "reserve"]
<1>1. CASE cancel
  <2>1. Finish(m, "failed")
    BY <1>1 DEF Check, Refused, Raise
  <2>. QED
    BY <2>1, FinishRow DEF RowsKept
<1>2. CASE ~ cancel
  <2>1. Set(m, [agent[m] EXCEPT !.pc = "reserve"])
    BY <1>2 DEF Check, Refused, Goto
  <2>2. [agent[m] EXCEPT !.pc = "reserve"] \in AgentRow
    BY RowOf DEF AgentRow
  <2>. QED
    BY <1>2, <2>1, <2>2, SetRow DEF RowsKept
<1>. QED
  BY <1>1, <1>2 DEF TypeOK

LEMMA ReserveRow ==
    ASSUME TypeOK, NEW m \in Everyone, Reserve(m)
    PROVE  /\ RowsKept(m) /\ attempts' \in 0 .. LlmCap
           /\ \/ agent'[m].pc = "done" /\ agent'[m].after = 0 /\ agent'[m].late = 0
              \/ /\ agent'[m].pc = "sent" /\ agent'[m].repair = agent[m].repair
                 /\ agent'[m].tries = agent[m].tries
                 /\ agent'[m].after = IF cancel THEN Bump(agent[m].after, 2)
                                                ELSE agent[m].after
                 /\ agent'[m].late = IF PastWall(m) /\ agent[m].tries = 0
                                     THEN Bump(agent[m].late, 3) ELSE agent[m].late
<1>. DEFINE a == agent[m]
            after == IF cancel THEN Bump(a.after, 2) ELSE a.after
            late == IF PastWall(m) /\ a.tries = 0 THEN Bump(a.late, 3) ELSE a.late
            row == [a EXCEPT !.pc = "sent", !.after = after, !.late = late]
<1>1. CASE Reserved
  <2>1. a \in AgentRow
    BY RowOf
  <2>2. Set(m, row) /\ attempts' = attempts + 1
    BY <1>1 DEF Reserve
  <2>3. after \in 0 .. 2 /\ late \in 0 .. 3
    BY <2>1 DEF AgentRow, Bump
  <2>. HIDE DEF after, late
  <2>4. /\ row \in AgentRow /\ row.pc = "sent" /\ row.tries = a.tries
        /\ row.repair = a.repair /\ row.after = after /\ row.late = late
    BY <2>1, <2>3 DEF AgentRow
  <2>5. attempts' \in 0 .. LlmCap
    BY <1>1, <2>2, Bounds DEF Reserved, TypeOK
  <2>6. agent'[m] = row /\ RowsKept(m)
    <3>. HIDE DEF row
    <3>. QED
      BY <2>2, <2>4, SetRow DEF RowsKept
  <2>. QED
    BY <2>4, <2>5, <2>6 DEF after, late
<1>2. CASE ~ Reserved
  <2>1. Finish(m, "failed") /\ attempts' = attempts
    BY <1>2 DEF Reserve, Raise
  <2>2. attempts' \in 0 .. LlmCap
    BY <2>1 DEF TypeOK
  <2>. QED
    BY <2>1, <2>2, FinishRow DEF RowsKept
<1>. QED
  BY <1>1, <1>2

LEMMA RetryRow ==
    ASSUME TypeOK, NEW m \in Everyone, Retry(m)
    PROVE  /\ RowsKept(m) /\ agent'[m].tries > 0
           /\ agent'[m] = [agent[m] EXCEPT !.pc = "check", !.tries = @ + 1]
<1>. DEFINE row == [agent[m] EXCEPT !.pc = "check", !.tries = @ + 1]
<1>1. agent[m].tries + 1 \in 0 .. Retries
  BY RowOf, Bounds DEF AgentRow, Retry
<1>2. row \in AgentRow
  BY <1>1, RowOf DEF AgentRow
<1>3. agent[m].tries + 1 > 0
  BY RowOf, Bounds DEF AgentRow
<1>4. row.tries = agent[m].tries + 1
  BY RowOf DEF AgentRow
<1>5. Set(m, row)
  BY DEF Retry
<1>. HIDE DEF row
<1>6. agent'[m] = row /\ RowsKept(m)
  BY <1>2, <1>5, SetRow DEF RowsKept
<1>. QED
  BY <1>3, <1>4, <1>6 DEF row

LEMMA TextRow ==
    ASSUME TypeOK, NEW m \in Everyone, Text(m)
    PROVE  /\ RowsKept(m)
           /\ \/ agent'[m].pc = "done" /\ agent'[m].after = 0 /\ agent'[m].late = 0
              \/ /\ agent'[m].pc = "top" /\ ~ agent[m].repair /\ ~ agent'[m].repair
                 /\ agent'[m].after = agent[m].after /\ agent'[m].late = agent[m].late
              \/ /\ agent'[m].pc = "check" /\ ~ agent[m].repair /\ agent'[m].repair
                 /\ agent'[m].tries = 0
                 /\ agent'[m].after = agent[m].after /\ agent'[m].late = agent[m].late
<1>. DEFINE a == agent[m]
            early == [a EXCEPT !.nudged = TRUE]
            again == [a EXCEPT !.pc = "check", !.repair = TRUE, !.tries = 0]
<1>1. a \in AgentRow
  BY RowOf
<1>2. early \in AgentRow /\ early.repair = a.repair /\ early.after = a.after /\ early.late = a.late
  BY <1>1 DEF AgentRow
<1>0. 0 \in 0 .. Retries
  BY Bounds
<1>3. /\ again \in AgentRow /\ again.pc = "check" /\ again.repair = TRUE /\ again.tries = 0
      /\ again.after = a.after /\ again.late = a.late
  BY <1>0, <1>1 DEF AgentRow
<1>4. \/ ~ a.repair /\ NextRound(m, early)
      \/ ~ a.repair /\ Set(m, again)
      \/ \E fate \in {"good", "failed"} : Finish(m, fate)
  BY DEF Text, MayRepair
<1>. HIDE DEF early, again
<1>5. CASE ~ a.repair /\ NextRound(m, early)
  BY <1>2, <1>5, NextRoundRow DEF RowsKept
<1>6. CASE ~ a.repair /\ Set(m, again)
  BY <1>3, <1>6, SetRow DEF RowsKept
<1>7. CASE \E fate \in {"good", "failed"} : Finish(m, fate)
  BY <1>7, FinishRow DEF RowsKept
<1>. QED
  BY <1>4, <1>5, <1>6, <1>7

(* The run's budget of tool calls grants no more than it has.              *)
LEMMA GrantedIsLeft ==
    ASSUME TypeOK, NEW n \in Nat
    PROVE  Granted(n) \in 0 .. n /\ tools + Granted(n) \in 0 .. ToolCap
BY Bounds DEF Granted, TypeOK

LEMMA ToolUseRow ==
    ASSUME TypeOK, NEW m \in Everyone, ToolUse(m)
    PROVE  /\ RowsKept(m) /\ tools' \in 0 .. ToolCap
           /\ \/ agent'[m].pc = "done" /\ agent'[m].after = 0 /\ agent'[m].late = 0
              \/ /\ agent'[m].pc = "top" /\ ~ agent[m].repair /\ ~ agent'[m].repair
                 /\ agent'[m].after = agent[m].after /\ agent'[m].late = agent[m].late
<1>. DEFINE a == agent[m]
            row(n) == [a EXCEPT !.used = @ + Granted(n), !.capped = @ \/ Granted(n) < n]
<1>1. a \in AgentRow /\ ~ a.repair
  BY RowOf DEF ToolUse
<1>2. PICK n \in 0 .. (Budget - a.used) : tools' = tools + Granted(n) /\ NextRound(m, row(n))
  <2>1. 0 \in 0 .. (Budget - a.used)
    BY <1>1, Bounds DEF AgentRow
  <2>. QED
    BY <2>1 DEF ToolUse
<1>3. n \in Nat /\ a.used + n <= Budget /\ a.used \in Nat
  BY <1>1, Bounds DEF AgentRow
<1>4. Granted(n) \in 0 .. n /\ tools' \in 0 .. ToolCap
  BY <1>2, <1>3, GrantedIsLeft
<1>5. a.used + Granted(n) \in 0 .. Budget
  BY <1>3, <1>4, Bounds
<1>6. (Granted(n) < n) \in BOOLEAN
  OBVIOUS
<1>7. /\ row(n) \in AgentRow /\ row(n).repair = a.repair
      /\ row(n).after = a.after /\ row(n).late = a.late
  <2>. DEFINE g == Granted(n)  short == g < n
  <2>1. a.used + g \in 0 .. Budget /\ short \in BOOLEAN
    BY <1>5
  <2>. HIDE DEF g, short
  <2>2. LET r == [a EXCEPT !.used = @ + g, !.capped = @ \/ short]
        IN  r \in AgentRow /\ r.repair = a.repair /\ r.after = a.after /\ r.late = a.late
    BY <1>1, <2>1 DEF AgentRow
  <2>. QED
    BY <2>2 DEF g, short
<1>. HIDE DEF row
<1>. QED
  BY <1>1, <1>2, <1>4, <1>7, NextRoundRow DEF RowsKept

(* Each kind of step keeps the types.                                      *)
LEMMA AgentTypes ==
    ASSUME TypeOK, NEW m \in Everyone, Agent(m)
    PROVE  TypeOK'
<1>1. CASE Top(m)
  BY <1>1, TopRow DEF Top, TypeOK, RowsKept, AgentRow, budgets, coordinator, clocks
<1>2. CASE Check(m)
  BY <1>2, CheckRow DEF Check, TypeOK, RowsKept, AgentRow, budgets, coordinator, clocks
<1>3. CASE Reserve(m)
  BY <1>3, ReserveRow DEF Reserve, TypeOK, RowsKept, AgentRow, coordinator, clocks
<1>4. CASE Retry(m)
  BY <1>4, RetryRow DEF Retry, TypeOK, RowsKept, AgentRow, budgets, coordinator, clocks
<1>5. CASE CallFails(m)
  BY <1>5, FinishRow DEF CallFails, TypeOK, AgentRow, budgets, coordinator, clocks
<1>6. CASE Text(m)
  BY <1>6, TextRow DEF Text, TypeOK, RowsKept, AgentRow, budgets, coordinator, clocks
<1>7. CASE ToolUse(m)
  BY <1>7, ToolUseRow DEF ToolUse, TypeOK, RowsKept, AgentRow, coordinator, clocks
<1>. QED
  BY <1>1, <1>2, <1>3, <1>4, <1>5, <1>6, <1>7 DEF Agent

(* The row of a thread that has just been started. *)
Started == [NoAgent EXCEPT !.pc = "top"]

LEMMA StartedRow ==
    /\ Started \in AgentRow /\ Started.pc = "top" /\ ~ Started.repair
    /\ Started.after = 0 /\ Started.late = 0
BY NoAgentRow DEF Started, NoAgent, AgentRow

LEMMA GapsStarted ==
    ASSUME TypeOK, StartGaps
    PROVE  /\ agent'[Gaps] = Started
           /\ \A m \in Missions : agent'[m] = agent[m]
           /\ agent' \in [Everyone -> AgentRow]
<1>1. agent' = [agent EXCEPT ![Gaps] = Started]
  BY DEF StartGaps, Started
<1>. QED
  BY <1>1, StartedRow, MissionRunAssumption DEF TypeOK, AgentRow, Everyone

LEMMA CoordinatorTypes ==
    ASSUME TypeOK, Coordinator
    PROVE  TypeOK'
<1>1. CASE Start
  <2>1. agent' = [m \in Everyone |-> IF m \in Missions THEN Started ELSE NoAgent]
    BY <1>1 DEF Start, Started
  <2>2. agent' \in [Everyone -> AgentRow]
    BY <2>1, StartedRow, NoAgentRow
  <2>. QED
    BY <1>1, <2>2 DEF Start, TypeOK, AgentRow, budgets, clocks
<1>2. CASE Wait
  BY <1>2 DEF Wait, TypeOK, budgets, clocks
<1>3. CASE Collect
  <2>1. batch' \subseteq Missions
    BY <1>3 DEF Collect, Pending
  <2>. QED
    BY <1>3, <2>1 DEF Collect, TypeOK, budgets, clocks
<1>4. CASE AllIn
  BY <1>4, GapsStarted DEF AllIn, TypeOK, AgentRow, budgets, clocks
<1>5. CASE Abandon
  <2>1. report' \in [Everyone -> {"none", "good", "failed", "timeout"}]
    BY <1>5 DEF Abandon, TypeOK
  <2>. QED
    BY <1>5, <2>1, GapsStarted DEF Abandon, TypeOK, AgentRow, budgets, clocks
<1>6. CASE GapsIn
  <2>1. Gaps \in Everyone
    BY DEF Everyone
  <2>2. agent[Gaps].fate \in {"good", "failed"}
    BY <2>1, RowOf DEF AgentRow
  <2>. QED
    BY <1>6, <2>1, <2>2 DEF GapsIn, TypeOK, budgets, clocks
<1>7. ASSUME NEW m \in Missions, Record(m) PROVE TypeOK'
  <2>1. m \in Everyone
    BY DEF Everyone
  <2>2. agent[m].fate \in {"good", "failed"}
    BY <2>1, RowOf DEF AgentRow
  <2>. QED
    BY <1>7, <2>1, <2>2 DEF Record, TypeOK, budgets, clocks
<1>. QED
  BY <1>1, <1>2, <1>3, <1>4, <1>5, <1>6, <1>7 DEF Coordinator

LEMMA TypesStep == TypeOK /\ [Next]_vars => TypeOK'
<1>. SUFFICES ASSUME TypeOK, [Next]_vars PROVE TypeOK'
  OBVIOUS
<1>1. CASE Coordinator
  BY <1>1, CoordinatorTypes
<1>2. CASE Cancel \/ Time
  BY <1>2 DEF Cancel, Time, DeadlinePasses, WallPasses, GapsDeadline, TypeOK, budgets, coordinator
<1>3. ASSUME NEW m \in Everyone, Agent(m) PROVE TypeOK'
  BY <1>3, AgentTypes
<1>4. CASE UNCHANGED vars
  BY <1>4 DEF vars, budgets, coordinator, clocks, TypeOK
<1>. QED
  BY <1>1, <1>2, <1>3, <1>4 DEF Next

LEMMA TypesInit == Init => TypeOK
<1>. SUFFICES ASSUME Init PROVE TypeOK
  OBVIOUS
<1>1. agent \in [Everyone -> AgentRow]
  BY NoAgentRow DEF Init
<1>2. attempts \in 0 .. LlmCap /\ tools \in 0 .. ToolCap
  BY Bounds DEF Init
<1>. QED
  BY <1>1, <1>2 DEF Init, TypeOK, AgentRow

(* The state of a pass has its types, and with them its bounds: no more    *)
(* requests than the run's budget of them, no more tool calls than the     *)
(* run's and, per mission, the mission's own (silk_context.py,             *)
(* reserve_llm_attempt, reserve_tool_call; silk_llm_runtime.py, _run_loop).*)
THEOREM TypeCorrect == Spec => []TypeOK
BY TypesInit, TypesStep, PTL DEF Spec

-----------------------------------------------------------------------------
(* Spending.  What a thread has spent after the cancel, and what after its *)
(* wall, decide where it can be: the request after the cancel was the one  *)
(* it had already decided on, and every way to another passes the look at  *)
(* the cancel; after the wall it still answers the call it was in, and     *)
(* repairs the answer once, but begins no further round.                   *)

AfterRule(a) ==
    /\ a.after <= 1
    /\ a.after > 0 => cancel
    /\ a.pc = "reserve" => a.after = 0

LateRule(a) ==
    /\ a.late > 0 => wall
    /\ a.late <= IF a.repair THEN 2 ELSE 1
    /\ a.pc \in {"check", "reserve"} /\ a.repair /\ a.tries = 0 => a.late <= 1
    /\ a.pc = "reserve" /\ ~ a.repair /\ a.tries = 0 => a.late = 0
    /\ a.pc = "check" /\ ~ a.repair => a.tries > 0
    /\ a.pc = "top" => ~ a.repair

SpendingInv ==
    /\ TypeOK
    /\ \A m \in Everyone : AfterRule(agent[m])
    /\ \A m \in Missions : LateRule(agent[m])

(* A thread that has finished has spent its last.                          *)
LEMMA DoneRules ==
    ASSUME NEW a, a.pc = "done" \/ a = NoAgent \/ a = Started,
           a \in AgentRow, a.after = 0, a.late = 0, a.pc = "top" => ~ a.repair
    PROVE  AfterRule(a) /\ LateRule(a)
BY StartedRow DEF AfterRule, LateRule, AgentRow, NoAgent

(* A step of a thread writes its own row by the rules, or leaves it done.  *)
LEMMA SpendingAgent ==
    ASSUME SpendingInv, NEW m \in Everyone, Agent(m)
    PROVE  /\ UNCHANGED << cancel, wall >>
           /\ \A x \in Everyone \ {m} : agent'[x] = agent[x]
           /\ AfterRule(agent'[m])
           /\ m \in Missions => LateRule(agent'[m])
<1>. DEFINE a == agent[m]  b == agent'[m]
<1>0. TypeOK /\ a \in AgentRow /\ AfterRule(a) /\ (m \in Missions => LateRule(a))
  BY RowOf DEF SpendingInv
<1>1. UNCHANGED << cancel, wall >>
  BY DEF Agent, Top, Check, Reserve, Retry, CallFails, Text, ToolUse, clocks
<1>2. a.after \in Nat /\ a.late \in Nat /\ a.tries \in Nat /\ a.repair \in BOOLEAN
  BY <1>0, Bounds DEF AgentRow
<1>3. RowsKept(m)
  BY <1>0, TopRow, CheckRow, ReserveRow, RetryRow, TextRow, ToolUseRow, FinishRow
     DEF Agent, CallFails, RowsKept
<1>4. b \in AgentRow
  BY <1>3 DEF RowsKept
<1>5. b.after \in Nat /\ b.late \in Nat /\ b.tries \in Nat /\ b.repair \in BOOLEAN
  BY <1>4, Bounds DEF AgentRow
<1>. DEFINE Done == b.pc = "done" /\ b.after = 0 /\ b.late = 0
            Goal == AfterRule(b) /\ (m \in Missions => LateRule(b))
<1>. SUFFICES Goal
  BY <1>1, <1>3 DEF RowsKept
<1>6. Done => Goal
  BY <1>4, DoneRules
<1>7. CASE Top(m)
  <2>1. cancel => GivesUp(m)
    BY DEF GivesUp
  <2>2. m \in Missions /\ wall => GivesUp(m)
    BY MissionRunAssumption DEF GivesUp, PastWall
  <2>3. a.pc = "top"
    BY <1>7 DEF Top, At
  <2>4. \/ Done
        \/ /\ ~ GivesUp(m) /\ b.pc = "reserve" /\ b.tries = 0
           /\ b.repair = a.repair /\ b.after = a.after /\ b.late = a.late
    BY <1>0, <1>7, TopRow
  <2>. HIDE DEF a, b
  <2>5. ASSUME ~ GivesUp(m), b.pc = "reserve", b.tries = 0,
               b.repair = a.repair, b.after = a.after, b.late = a.late
        PROVE  Goal
    <3>1. AfterRule(b)
      BY <1>0, <1>2, <2>1, <2>5 DEF AfterRule
    <3>2. m \in Missions => LateRule(b)
      BY <1>0, <1>2, <2>2, <2>3, <2>5 DEF LateRule
    <3>. QED
      BY <3>1, <3>2
  <2>. QED
    BY <1>6, <2>4, <2>5
<1>8. CASE Check(m)
  <2>1. a.pc = "check"
    BY <1>8 DEF Check, At
  <2>2. \/ Done
        \/ /\ ~ cancel /\ b.pc = "reserve" /\ b.tries = a.tries
           /\ b.repair = a.repair /\ b.after = a.after /\ b.late = a.late
    BY <1>0, <1>8, CheckRow DEF AgentRow
  <2>. HIDE DEF a, b
  <2>3. ASSUME ~ cancel, b.pc = "reserve", b.tries = a.tries,
               b.repair = a.repair, b.after = a.after, b.late = a.late
        PROVE  Goal
    <3>1. AfterRule(b)
      BY <1>0, <1>2, <2>3 DEF AfterRule
    <3>2. m \in Missions => LateRule(b)
      BY <1>0, <1>2, <2>1, <2>3 DEF LateRule
    <3>. QED
      BY <3>1, <3>2
  <2>. QED
    BY <1>6, <2>2, <2>3
<1>9. CASE Reserve(m)
  <2>1. a.pc = "reserve"
    BY <1>9 DEF Reserve, At
  <2>. DEFINE sends == /\ b.pc = "sent" /\ b.repair = a.repair /\ b.tries = a.tries
                       /\ b.after = IF cancel THEN Bump(a.after, 2) ELSE a.after
                       /\ b.late = IF PastWall(m) /\ a.tries = 0 THEN Bump(a.late, 3) ELSE a.late
  <2>2. Done \/ sends
    BY <1>0, <1>9, ReserveRow
  <2>. HIDE DEF a, b
  <2>3. ASSUME sends PROVE Goal
    <3>1. AfterRule(b)
      BY <1>0, <1>2, <2>1, <2>3 DEF AfterRule, Bump
    <3>2. m \in Missions => LateRule(b)
      BY <1>0, <1>2, <2>1, <2>3 DEF LateRule, Bump, PastWall
    <3>. QED
      BY <3>1, <3>2
  <2>. QED
    BY <1>6, <2>2, <2>3
<1>10. CASE Retry(m)
  <2>1. a.pc = "sent"
    BY <1>10 DEF Retry, At
  <2>2. /\ b.pc = "check" /\ b.tries > 0
        /\ b.repair = a.repair /\ b.after = a.after /\ b.late = a.late
    BY <1>0, <1>10, RetryRow DEF AgentRow
  <2>. HIDE DEF a, b
  <2>3. AfterRule(b)
    BY <1>0, <1>2, <2>2 DEF AfterRule
  <2>4. m \in Missions => LateRule(b)
    BY <1>0, <1>2, <1>5, <2>2 DEF LateRule
  <2>. QED
    BY <2>3, <2>4
<1>11. CASE CallFails(m)
  BY <1>0, <1>6, <1>11, FinishRow DEF CallFails
<1>12. CASE Text(m) \/ ToolUse(m)
  <2>1. \/ Done
        \/ /\ b.pc = "top" /\ ~ a.repair /\ ~ b.repair
           /\ b.after = a.after /\ b.late = a.late
        \/ /\ b.pc = "check" /\ ~ a.repair /\ b.repair /\ b.tries = 0
           /\ b.after = a.after /\ b.late = a.late
    BY <1>0, <1>12, TextRow, ToolUseRow
  <2>. HIDE DEF a, b
  <2>2. ASSUME b.pc \in {"top", "check"}, ~ a.repair, b.pc = "check" <=> b.repair,
               b.after = a.after, b.late = a.late
        PROVE  Goal
    <3>1. AfterRule(b)
      BY <1>0, <1>2, <2>2 DEF AfterRule
    <3>2. m \in Missions => LateRule(b)
      BY <1>0, <1>2, <1>5, <2>2 DEF LateRule
    <3>. QED
      BY <3>1, <3>2
  <2>. QED
    BY <1>6, <2>1, <2>2
<1>. QED
  BY <1>7, <1>8, <1>9, <1>10, <1>11, <1>12 DEF Agent

LEMMA SpendingStep == SpendingInv /\ [Next]_vars => SpendingInv'
<1>. SUFFICES ASSUME SpendingInv, [Next]_vars PROVE SpendingInv'
  OBVIOUS
<1>0. TypeOK /\ TypeOK'
  BY TypesStep DEF SpendingInv
<1>1. ASSUME \A m \in Everyone : agent'[m] = agent[m] \/ agent'[m] \in {Started, NoAgent},
             cancel => cancel', wall => wall'
      PROVE  SpendingInv'
  <2>1. ASSUME NEW m \in Everyone PROVE AfterRule(agent[m])'
    <3>1. CASE agent'[m] = agent[m]
      BY <1>1, <2>1, <3>1 DEF SpendingInv, AfterRule
    <3>2. CASE agent'[m] \in {Started, NoAgent}
      BY <3>2, StartedRow DEF AfterRule, NoAgent
    <3>. QED
      BY <1>1, <3>1, <3>2
  <2>2. ASSUME NEW m \in Missions PROVE LateRule(agent[m])'
    <3>0. m \in Everyone
      BY DEF Everyone
    <3>1. CASE agent'[m] = agent[m]
      BY <1>1, <2>2, <3>1 DEF SpendingInv, LateRule
    <3>2. CASE agent'[m] \in {Started, NoAgent}
      BY <3>2, StartedRow DEF LateRule, NoAgent
    <3>. QED
      BY <1>1, <3>0, <3>1, <3>2
  <2>. QED
    BY <1>0, <2>1, <2>2 DEF SpendingInv
<1>2. CASE Coordinator
  <2>1. UNCHANGED << cancel, wall >>
    BY <1>2 DEF Coordinator, Start, Wait, Collect, AllIn, Abandon, GapsIn, Record, clocks
  <2>2. CASE Start
    BY <1>1, <2>1, <2>2 DEF Start, Started
  <2>3. CASE AllIn \/ Abandon
    BY <1>0, <1>1, <2>1, <2>3, GapsStarted DEF AllIn, Abandon, Everyone
  <2>4. CASE UNCHANGED agent
    BY <1>1, <2>1, <2>4
  <2>. QED
    BY <1>2, <2>2, <2>3, <2>4 DEF Coordinator, Wait, Collect, GapsIn, Record
<1>3. CASE Cancel \/ Time
  <2>1. agent' = agent /\ (cancel => cancel') /\ (wall => wall')
    BY <1>3 DEF Cancel, Time, DeadlinePasses, WallPasses, GapsDeadline
  <2>. QED
    BY <1>1, <2>1
<1>4. ASSUME NEW m \in Everyone, Agent(m) PROVE SpendingInv'
  <2>1. ASSUME NEW x \in Everyone PROVE AfterRule(agent[x])'
    BY <1>4, <2>1, SpendingAgent DEF SpendingInv, AfterRule
  <2>2. ASSUME NEW x \in Missions PROVE LateRule(agent[x])'
    BY <1>4, <2>2, SpendingAgent DEF SpendingInv, LateRule, Everyone
  <2>. QED
    BY <1>0, <2>1, <2>2 DEF SpendingInv
<1>5. CASE UNCHANGED vars
  BY <1>1, <1>5 DEF vars, clocks
<1>. QED
  BY <1>2, <1>3, <1>4, <1>5 DEF Next

(* Nobody spends for a result that is not wanted: after the cancel a       *)
(* thread sends at most one request, after its wall at most two            *)
(* (silk_llm_runtime.py, _run_loop and silk_llm_provider.py, _post).       *)
THEOREM SpendingStops == Spec => []StopsSpending
<1>1. Init => SpendingInv
  <2>1. Init => \A m \in Everyone : agent[m] = NoAgent
    BY DEF Init
  <2>. QED
    BY <2>1, TypesInit DEF SpendingInv, AfterRule, LateRule, NoAgent, Everyone
<1>2. SpendingInv => StopsSpending
  <2>1. ASSUME SpendingInv, NEW m \in Missions PROVE agent[m].late <= 2
    <3>1. agent[m] \in AgentRow /\ LateRule(agent[m])
      BY <2>1, RowOf DEF SpendingInv, Everyone
    <3>. QED
      BY <3>1 DEF LateRule, AgentRow
  <2>. QED
    BY <2>1 DEF SpendingInv, StopsSpending, AfterRule
<1>. QED
  BY <1>1, <1>2, SpendingStep, PTL DEF Spec

=============================================================================
