------------------------------ MODULE MissionRun ------------------------------
(***************************************************************************)
(* One pass of the missions of a research run (silk_missions.py,           *)
(* run_all_missions): a thread per mission, each a loop of model calls and *)
(* tool calls (silk_llm_runtime.py, _run_loop) over a provider that        *)
(* retries (silk_llm_provider.py, _post), all of them drawing on the run's *)
(* two shared budgets (silk_context.py); and the coordinator, which takes  *)
(* the reports in as they come, gives up on the rest at its deadline or    *)
(* when the run is cancelled, and then runs the last mission, which reads  *)
(* the others' reports.                                                    *)
(*                                                                         *)
(*   attempts, tools   the budgets: requests to the provider, tool calls   *)
(*   agent     the loop of each mission's thread                           *)
(*   phase     where the coordinator is; batch: the finished missions      *)
(*             cf_wait has handed it and it has not recorded yet           *)
(*   report    the reports dict, each also a checkpoint row                *)
(*   cancel    the run's cancel event                                      *)
(*   deadline  the coordinator's shared deadline has passed; wall, gaplate *)
(*             the same of the threads' own limit and of the last mission  *)
(* Three fields of agent are history: after counts the requests a thread   *)
(* began after the cancel, late the calls it began after its wall, intime  *)
(* says that it finished before the deadline and the cancel.               *)
(***************************************************************************)
EXTENDS Naturals, FiniteSets

CONSTANTS
    Missions,     \* the missions that run in parallel
    Gaps,         \* opportunity_gaps
    LlmCap,       \* SILK_RESEARCH_MAX_LLM_CALLS
    ToolCap,      \* SILK_RESEARCH_MAX_TOOL_CALLS
    Budget,       \* tool calls of one mission
    Retries       \* SILK_LLM_MAX_RETRIES

ASSUME MissionRunAssumption ==
    /\ Gaps \notin Missions
    /\ {LlmCap, ToolCap, Budget} \subseteq Nat \ {0}
    /\ Retries \in Nat

VARIABLES attempts, tools, agent, phase, batch, report, cancel, deadline, wall,
          gaplate

budgets == << attempts, tools >>
coordinator == << phase, batch, report >>
clocks == << cancel, deadline, wall, gaplate >>
vars == << budgets, agent, coordinator, clocks >>

Everyone == Missions \cup {Gaps}
MaxRounds == Budget + 2

NoAgent == [pc |-> "off", round |-> 0, used |-> 0, offered |-> FALSE, nudged |-> FALSE,
            capped |-> FALSE, tries |-> 0, repair |-> FALSE, fate |-> "failed",
            after |-> 0, late |-> 0, intime |-> FALSE]

TypeOK ==
    /\ attempts \in 0 .. LlmCap /\ tools \in 0 .. ToolCap
    /\ agent \in [Everyone ->
           [pc : {"off", "top", "check", "reserve", "sent", "done"},
            round : 0 .. MaxRounds, used : 0 .. Budget, offered : BOOLEAN,
            nudged : BOOLEAN, capped : BOOLEAN, tries : 0 .. Retries,
            repair : BOOLEAN, fate : {"good", "failed"},
            after : 0 .. 2, late : 0 .. 3, intime : BOOLEAN]]
    /\ phase \in {"off", "top", "wait", "book", "gaps", "handed"}
    /\ batch \subseteq Missions
    /\ report \in [Everyone -> {"none", "good", "failed", "timeout"}]
    /\ {cancel, deadline, wall, gaplate} \subseteq BOOLEAN

Init ==
    /\ attempts = 0 /\ tools = 0
    /\ agent = [m \in Everyone |-> NoAgent]
    /\ phase = "off" /\ batch = {} /\ report = [m \in Everyone |-> "none"]
    /\ cancel = FALSE /\ deadline = FALSE /\ wall = FALSE /\ gaplate = FALSE

At(m, pc) == agent[m].pc = pc
Set(m, a) == agent' = [agent EXCEPT ![m] = a]
Goto(m, pc) == Set(m, [agent[m] EXCEPT !.pc = pc])
Bump(n, top) == IF n < top THEN n + 1 ELSE n

(* The thread's report; a mission without findings has failed. *)
Finish(m, fate) ==
    Set(m, [NoAgent EXCEPT !.pc = "done", !.fate = fate,
                           !.intime = m # Gaps /\ ~deadline /\ ~cancel])

-----------------------------------------------------------------------------
(* _run_loop, the top of a round: the wall, the cancel, the run's budgets, *)
(* in this order; then the tools are offered, or the final answer is asked *)
(* for in so many words.  llm_calls is left out: it counts what attempts   *)
(* counts, without the retries.                                            *)

PastWall(m) == m # Gaps /\ wall

Capped == attempts >= LlmCap - 1 \/ tools >= ToolCap

Mut_GivesUp(m) == cancel
GivesUp(m) == PastWall(m) \/ cancel

Top(m) ==
    LET a == agent[m]
        capped == a.capped \/ Capped
        offered == a.used < Budget /\ ~capped
    IN  /\ At(m, "top")
        /\ IF GivesUp(m)
           THEN Finish(m, "failed")
           ELSE Set(m, [a EXCEPT !.pc = "reserve", !.capped = capped,
                                 !.offered = offered, !.nudged = @ \/ ~offered,
                                 !.tries = 0])
        /\ UNCHANGED << budgets, coordinator, clocks >>

(* A round that was the last of range(max_rounds) leaves no final text. *)
NextRound(m, a) ==
    IF a.round + 1 < MaxRounds
    THEN Set(m, [a EXCEPT !.pc = "top", !.round = @ + 1, !.offered = FALSE])
    ELSE Finish(m, "failed")

-----------------------------------------------------------------------------
(* _post: every attempt looks at the cancel and then takes its place in    *)
(* the run's budget.  The look before a round's first attempt is the one   *)
(* at the top of the round: nothing happens between the two.  A call that  *)
(* fails loses the mission.                                                *)

Mut_Refused == FALSE
Refused == cancel

(* Both refusals are raised out of _post, past its except.  The mutant     *)
(* catches them with the failures of the request and tries again.          *)
Mut_Raise(m) == Goto(m, "check")
Raise(m) == Finish(m, "failed")

Check(m) ==
    /\ At(m, "check")
    /\ IF Refused THEN Raise(m) ELSE Goto(m, "reserve")
    /\ UNCHANGED << budgets, coordinator, clocks >>

Mut_Reserved == attempts <= LlmCap
Reserved == attempts < LlmCap

Reserve(m) ==
    LET a == agent[m] IN
    /\ At(m, "reserve")
    /\ IF Reserved
       THEN /\ attempts' = attempts + 1
            /\ Set(m, [a EXCEPT !.pc = "sent",
                        !.after = IF cancel THEN Bump(@, 2) ELSE @,
                        !.late = IF PastWall(m) /\ a.tries = 0 THEN Bump(@, 3) ELSE @])
       ELSE Raise(m) /\ UNCHANGED attempts
    /\ UNCHANGED << tools, coordinator, clocks >>

(* 429, 529 or a connection that was not made: another attempt while there *)
(* is one.  A connection lost later is retried only if no attempt was      *)
(* (min(1, Retries)), which allows nothing that the former does not.       *)
Retry(m) ==
    /\ At(m, "sent") /\ agent[m].tries < Retries
    /\ Set(m, [agent[m] EXCEPT !.pc = "check", !.tries = @ + 1])
    /\ UNCHANGED << budgets, coordinator, clocks >>

CallFails(m) ==
    /\ At(m, "sent")
    /\ Finish(m, "failed")
    /\ UNCHANGED << budgets, coordinator, clocks >>

-----------------------------------------------------------------------------
(* The answer.  "good" has cited findings, "thin" can be read and has      *)
(* none, "bad" is no JSON.  An early answer that does not look final gets  *)
(* the finalization request, once; a bad final one, one repair call, and   *)
(* what that brings is final.                                              *)

Answers == {"good", "thin", "bad"}

LooksFinal(kind) == IF kind = "bad" THEN {FALSE} ELSE BOOLEAN

MayRepair(a) == ~a.repair /\ ~a.capped

AnotherChance(a) == ~a.nudged /\ a.round < MaxRounds - 1

Text(m) ==
    LET a == agent[m] IN
    /\ At(m, "sent")
    /\ \E kind \in Answers : \E looksFinal \in LooksFinal(kind) :
           IF ~a.repair /\ ~looksFinal /\ AnotherChance(a)
           THEN NextRound(m, [a EXCEPT !.nudged = TRUE])
           ELSE IF kind = "bad" /\ MayRepair(a)
           THEN Set(m, [a EXCEPT !.pc = "check", !.repair = TRUE, !.tries = 0])
           ELSE Finish(m, IF kind = "good" THEN "good" ELSE "failed")
    /\ UNCHANGED << budgets, coordinator, clocks >>

(* The answer asks for tools (which a repair call does not offer or read): *)
(* n of the calls asked for are allowed by the mission's own budget and    *)
(* not stopped by a cancel; each takes its place in the run's budget, and  *)
(* one that finds none marks the mission.                                  *)
Granted(n) == IF tools + n <= ToolCap THEN n ELSE ToolCap - tools

ToolUse(m) ==
    LET a == agent[m] IN
    /\ At(m, "sent") /\ ~a.repair
    /\ \E n \in IF a.offered THEN 0 .. (Budget - a.used) ELSE {0} :
           /\ tools' = tools + Granted(n)
           /\ NextRound(m, [a EXCEPT !.used = @ + Granted(n),
                                     !.capped = @ \/ Granted(n) < n])
    /\ UNCHANGED << attempts, coordinator, clocks >>

Agent(m) ==
    \/ Top(m) \/ Check(m) \/ Reserve(m) \/ Retry(m) \/ CallFails(m)
    \/ Text(m) \/ ToolUse(m)

-----------------------------------------------------------------------------
(* run_all_missions. *)

Recorded(m) == report[m] # "none"
Pending == {m \in Missions : ~Recorded(m)} \ batch

Start ==
    /\ phase = "off"
    /\ phase' = "top"
    /\ agent' = [m \in Everyone |-> IF m \in Missions THEN [NoAgent EXCEPT !.pc = "top"]
                                                      ELSE NoAgent]
    /\ UNCHANGED << budgets, batch, report, clocks >>

(* The loop stops when the deadline has passed or the run is cancelled;    *)
(* while it waits it sees only the deadline, as cf_wait's timeout.         *)
StopsWaiting == deadline \/ cancel

Wait ==
    /\ phase = "top" /\ Pending # {} /\ ~StopsWaiting
    /\ phase' = "wait"
    /\ UNCHANGED << budgets, agent, batch, report, clocks >>

(* cf_wait, FIRST_COMPLETED: all that have finished by now. *)
Collect ==
    /\ phase = "wait"
    /\ batch' = {m \in Pending : At(m, "done")}
    /\ batch' # {} \/ deadline
    /\ phase' = IF batch' = {} THEN "top" ELSE "book"
    /\ UNCHANGED << budgets, agent, report, clocks >>

(* One report after the other, each with its checkpoint. *)
Record(m) ==
    /\ phase = "book" /\ m \in batch
    /\ report' = [report EXCEPT ![m] = agent[m].fate]
    /\ batch' = batch \ {m}
    /\ phase' = IF batch = {m} THEN "top" ELSE "book"
    /\ UNCHANGED << budgets, agent, clocks >>

StartGaps == agent' = [agent EXCEPT ![Gaps] = [NoAgent EXCEPT !.pc = "top"]]

AllIn ==
    /\ phase = "top" /\ Pending = {}
    /\ phase' = "gaps" /\ StartGaps
    /\ UNCHANGED << budgets, batch, report, clocks >>

(* The threads left behind go on; their results are not looked at. *)
Abandon ==
    /\ phase = "top" /\ Pending # {} /\ StopsWaiting
    /\ report' = [m \in Everyone |-> IF m \in Pending THEN "timeout" ELSE report[m]]
    /\ phase' = "gaps" /\ StartGaps
    /\ UNCHANGED << budgets, batch, clocks >>

GapsIn ==
    /\ phase = "gaps"
    /\ \/ At(Gaps, "done") /\ report' = [report EXCEPT ![Gaps] = agent[Gaps].fate]
       \/ gaplate /\ ~At(Gaps, "done") /\ report' = [report EXCEPT ![Gaps] = "timeout"]
    /\ phase' = "handed"
    /\ UNCHANGED << budgets, agent, batch, clocks >>

Coordinator == Start \/ Wait \/ Collect \/ AllIn \/ Abandon \/ GapsIn \/ \E m \in Missions : Record(m)

-----------------------------------------------------------------------------
Cancel ==
    /\ ~cancel /\ cancel' = TRUE
    /\ UNCHANGED << budgets, agent, coordinator, deadline, wall, gaplate >>

(* The threads' wall is the deadline and a grace. *)
DeadlinePasses ==
    /\ phase # "off" /\ ~deadline /\ deadline' = TRUE
    /\ UNCHANGED << budgets, agent, coordinator, cancel, wall, gaplate >>

WallPasses ==
    /\ deadline /\ ~wall /\ wall' = TRUE
    /\ UNCHANGED << budgets, agent, coordinator, cancel, deadline, gaplate >>

GapsDeadline ==
    /\ phase \in {"gaps", "handed"} /\ ~gaplate /\ gaplate' = TRUE
    /\ UNCHANGED << budgets, agent, coordinator, cancel, deadline, wall >>

Time == DeadlinePasses \/ WallPasses \/ GapsDeadline

Next == Coordinator \/ Cancel \/ Time \/ \E m \in Everyone : Agent(m)

Spec == Init /\ [][Next]_vars

(* The coordinator and the threads run, requests time out, time passes;    *)
(* nobody has to cancel.                                                   *)
FairSpec ==
    /\ Spec /\ WF_vars(Coordinator) /\ WF_vars(Time)
    /\ \A m \in Everyone : WF_vars(Agent(m))

-----------------------------------------------------------------------------
(* Nobody spends for a result that is not wanted: once the run is          *)
(* cancelled a thread sends at most the request it was about to send, no   *)
(* retry, repair call or further round; once its wall has passed, and      *)
(* nobody waits for it, at most that call and the repair of its answer.    *)
StopsSpending ==
    /\ \A m \in Everyone : agent[m].after <= 1
    /\ \A m \in Missions : agent[m].late <= 2

(* A mission that brought its findings before the deadline and before the  *)
(* cancel is not reported as timed out, and its findings are kept.         *)
FinishedIsKept ==
    \A m \in Missions :
        agent[m].intime /\ agent[m].fate = "good" => report[m] # "timeout"

(* The pass ends, and so does every thread it has started, though nobody   *)
(* waits for a thread left behind.                                         *)
PassEnds ==
    phase # "off" ~> phase = "handed" /\ \A m \in Everyone : At(m, "done")

=============================================================================
