------------------------------- MODULE Pipeline -------------------------------
(***************************************************************************)
(* What one research run computes, attempt by attempt, and what it keeps   *)
(* on disk so that a resumed attempt does not pay for it again: the        *)
(* missions, the analyst, the writer and the study tail of                 *)
(* silk_research_pipeline, the checkpoints of silk_storage, and the report *)
(* that POST /analyses/{id}/report writes again.                           *)
(*                                                                         *)
(*   mission   table research_missions: whether the report is a success,   *)
(*             and its version (a new one each time the mission runs or    *)
(*             its data is augmented: what fingerprint() tells apart)      *)
(*   stage     table research_stages: the rows analyst and report, each    *)
(*             with the versions of the missions it was computed from; the *)
(*             writer's unfinished draft, a seed that no step depends on,  *)
(*             and the verdict and leads, which no resume reads, are left  *)
(*             out                                                         *)
(*   saved     json_blob of the row: the report and its inputs             *)
(*   status    status of the row                                           *)
(*   pc, was, rep, usable   an attempt: where it is, the mission reports   *)
(*             it loaded, those it has now, the checkpoints it may reuse   *)
(*   halted, early, analyst, report, cancel   _stage_budget, the early     *)
(*             halt, the analyst's and the writer's outcome, the event     *)
(*   clean     history: the checkpoints the attempt found belonged together*)
(*   regen     the requests that write the report again                    *)
(*                                                                         *)
(* Attempts on one row do not overlap here (ResearchRun models the claim); *)
(* every attempt runs with the model available (ai_ok) and with the study  *)
(* tail on (SILK_STUDY_SLOTS), the defaults of production.                 *)
(***************************************************************************)
EXTENDS Naturals, FiniteSets

CONSTANTS
    Missions,      \* the missions that run in parallel
    Gaps,          \* opportunity_gaps, which reads the findings of the others
    Augmented,     \* missions whose report is augmented after every run
    Regens,        \* requests to write the report again
    MaxAttempt,    \* bound: attempts on the row
    MaxVersion,    \* bound: versions of one mission's report
    Overlap        \* a rewriting request may overlap other writers of the row

AllMissions == Missions \cup {Gaps}
Stages == {"analyst", "report"}

ASSUME PipelineAssumption ==
    /\ Gaps \notin Missions
    /\ IsFiniteSet(Missions)
    /\ Augmented \subseteq Missions
    /\ {MaxAttempt, MaxVersion} \subseteq Nat
    /\ Overlap \in BOOLEAN

VARIABLES mission, stage, saved, status, attempts,
          pc, was, rep, usable, halted, early, analyst, report, cancel, clean,
          regen

disk    == << mission, stage, saved, status >>
attempt == << was, rep, usable, halted, early, analyst, report, cancel, clean >>
vars    == << disk, attempts, pc, attempt, regen >>

Report == [ok : BOOLEAN, v : Nat]
Absent == [ok |-> FALSE, v |-> 0]
Versions(r) == [m \in AllMissions |-> r[m].v]
Nothing == [m \in AllMissions |-> 0]

(* What a stage's row says: nothing, or a status with the inputs' versions. *)
Checkpoint == [st : {"none", "failed", "succeeded"}, on : [AllMissions -> Nat]]
NoCheckpoint == [st |-> "none", on |-> Nothing]
Texts == {"incomplete", "whole"}

TypeOK ==
    /\ mission \in [AllMissions -> Report]
    /\ stage \in [Stages -> Checkpoint]
    /\ saved \in [kind : {"never", "none"} \cup Texts,
                  on : [AllMissions -> Nat], text : [AllMissions -> Nat]]
    /\ status \in {"none", "running", "failed", "completed"}
    /\ attempts \in 0..MaxAttempt
    /\ pc \in {"idle", "missions", "gaps", "augment", "tail", "analyst", "analysed",
               "synthesis", "writer", "written", "slots", "end", "save"}
    /\ was \in [AllMissions -> Report]
    /\ rep \in [AllMissions -> Report]
    /\ usable \in [Stages -> Checkpoint]
    /\ halted \in {"no", "analyst", "synthesis", "writer", "slots"}
    /\ early \in BOOLEAN
    /\ analyst \in [how : {"no", "reused", "early", "budget", "down", "empty", "done"},
                    on : [AllMissions -> Nat]]
    /\ report \in [kind : {"no", "none"} \cup Texts, on : [AllMissions -> Nat]]
    /\ cancel \in BOOLEAN
    /\ clean \in BOOLEAN
    /\ regen \in [Regens -> [step : {"off", "writing", "done"},
                             saw : {"never", "none"} \cup Texts,
                             rep : [AllMissions -> Report],
                             analysed : BOOLEAN]]

Blank == [m \in AllMissions |-> Absent]
NoStages == [s \in Stages |-> NoCheckpoint]

Init ==
    /\ mission = Blank
    /\ stage = NoStages
    /\ saved = [kind |-> "never", on |-> Nothing, text |-> Nothing]
    /\ status = "none"
    /\ attempts = 0
    /\ pc = "idle"
    /\ was = Blank
    /\ rep = Blank
    /\ usable = NoStages
    /\ halted = "no"
    /\ early = FALSE
    /\ analyst = [how |-> "no", on |-> Nothing]
    /\ report = [kind |-> "no", on |-> Nothing]
    /\ cancel = FALSE
    /\ clean = TRUE
    /\ regen = [g \in Regens |-> [step |-> "off", saw |-> "never", rep |-> Blank,
                                  analysed |-> FALSE]]

-----------------------------------------------------------------------------
(* Starting and leaving an attempt.                                        *)

Writing(g) == regen[g].step = "writing"

(* _research_impl: a completed row is replayed as it is, unless one of its *)
(* missions failed or it has no report text.                               *)
Replayed ==
    /\ status = "completed"
    /\ \A m \in AllMissions : mission[m].v > 0 => mission[m].ok
    /\ saved.kind \in Texts

BelongTogether ==
    \A s \in Stages : stage[s].st = "none" \/ stage[s].on = Versions(mission)

(* A new run, or a resumed one: the mission and stage rows are loaded once, *)
(* before the claim, which fails if the row moved in between.               *)
Start ==
    /\ pc = "idle"
    /\ ~ Replayed
    /\ attempts < MaxAttempt
    /\ Overlap \/ \A g \in Regens : ~ Writing(g)
    /\ attempts' = attempts + 1
    /\ pc' = "missions"
    /\ status' = "running"
    /\ was' = mission
    /\ rep' = mission
    /\ usable' = stage
    /\ clean' = BelongTogether
    /\ UNCHANGED << mission, stage, saved, halted, early, analyst, report, cancel, regen >>

Forget ==
    /\ pc' = "idle"
    /\ was' = Blank
    /\ rep' = Blank
    /\ usable' = NoStages
    /\ halted' = "no"
    /\ early' = FALSE
    /\ analyst' = [how |-> "no", on |-> Nothing]
    /\ report' = [kind |-> "no", on |-> Nothing]
    /\ cancel' = FALSE
    /\ clean' = TRUE

(* check_cancelled raised: the background body marks the row failed. *)
Abandon ==
    /\ status' = "failed"
    /\ Forget

Mut_Honoured(name) == name # "end"

(* _stage_mark(name): a cancel is honoured here, and nowhere else in the tail. *)
Honoured(name) == name \notin {"slots", "end"}

Stopped(name) == cancel /\ Honoured(name)

CancelRun ==
    /\ pc # "idle"
    /\ ~ cancel
    /\ cancel' = TRUE
    /\ UNCHANGED << disk, attempts, pc, was, rep, usable, halted, early, analyst,
                    report, clean, regen >>

Crash ==
    /\ pc # "idle" \/ \E g \in Regens : Writing(g)
    /\ Forget
    /\ regen' = [g \in Regens |-> IF Writing(g) THEN [regen[g] EXCEPT !.step = "done"]
                                                ELSE regen[g]]
    /\ UNCHANGED << disk, attempts >>

-----------------------------------------------------------------------------
(* The missions: run_all_missions.                                         *)

NeedsRun(m) == was[m].v = 0 \/ ~ was[m].ok

ToRun == {m \in Missions : NeedsRun(m)}

Ran(m) == rep[m].v # was[m].v

(* A mission returns, fails or passes the shared deadline, in any order, and *)
(* is checkpointed at once. Once cancelled the ones still running are given  *)
(* up as timed out.                                                          *)
RunMission(m) ==
    /\ pc = "missions"
    /\ m \in ToRun
    /\ ~ Ran(m)
    /\ rep[m].v < MaxVersion
    /\ \E ok \in (IF cancel THEN {FALSE} ELSE BOOLEAN) :
          LET new == [ok |-> ok, v |-> mission[m].v + 1]
          IN  /\ rep' = [rep EXCEPT ![m] = new]
              /\ mission' = [mission EXCEPT ![m] = new]
    /\ UNCHANGED << stage, saved, status, attempts, pc, was, usable, halted, early,
                    analyst, report, cancel, clean, regen >>

MissionsDone ==
    /\ pc = "missions"
    /\ \A m \in ToRun : Ran(m)
    /\ pc' = "gaps"
    /\ UNCHANGED << disk, attempts, attempt, regen >>

(* The gaps mission is kept only when no other mission ran again. *)
KeepsGaps == ToRun = {} /\ ~ NeedsRun(Gaps)

RunGaps ==
    /\ pc = "gaps"
    /\ \/ /\ KeepsGaps
          /\ UNCHANGED << rep, mission >>
       \/ /\ ~ KeepsGaps
          /\ rep[Gaps].v < MaxVersion
          /\ \E ok \in BOOLEAN :
                LET new == [ok |-> ok, v |-> mission[Gaps].v + 1]
                IN  /\ rep' = [rep EXCEPT ![Gaps] = new]
                    /\ mission' = [mission EXCEPT ![Gaps] = new]
    /\ pc' = "augment"
    /\ UNCHANGED << stage, saved, status, attempts, was, usable, halted, early, analyst,
                    report, cancel, clean, regen >>

(* The deterministic additions to some reports may find nothing new; what  *)
(* they change is checkpointed again.                                      *)
Augment ==
    /\ pc = "augment"
    /\ \E A \in SUBSET {m \in Augmented : rep[m].v < MaxVersion} :
          LET new == [m \in AllMissions |->
                         IF m \in A THEN [rep[m] EXCEPT !.v = @ + 1] ELSE rep[m]]
          IN  /\ rep' = new
              /\ mission' = [m \in AllMissions |-> IF m \in A THEN new[m] ELSE mission[m]]
    /\ pc' = "tail"
    /\ UNCHANGED << stage, saved, status, attempts, was, usable, halted, early, analyst,
                    report, cancel, clean, regen >>

-----------------------------------------------------------------------------
(* The tail: _run_research_pipeline after the missions.                    *)

Mut_TailDropped == FALSE

(* The saved tail is dropped when a mission had to run or a report changed. *)
TailDropped ==
    \/ \E m \in AllMissions : NeedsRun(m)
    \/ Versions(rep) # Versions(was)

(* _budget_ok: refuses from the first cap that is hit until the run's end; *)
(* the caps (dollars, minutes, day, attempts) may be hit at any time.      *)
BudgetOk == halted = "no"

BudgetHit(name) ==
    halted' = IF halted = "no" THEN name ELSE halted

BeginTail ==
    /\ pc = "tail"
    /\ IF Stopped("analyst")
       THEN Abandon
       ELSE /\ usable' = IF TailDropped THEN NoStages ELSE usable
            /\ early' \in BOOLEAN
            /\ pc' = "analyst"
            /\ UNCHANGED << status, was, rep, halted, analyst, report, cancel, clean >>
    /\ UNCHANGED << mission, stage, saved, attempts, regen >>

Mut_AnalystSaved == FALSE

AnalystSaved == usable["analyst"].st = "succeeded"

(* A saved analysis is reused; otherwise the call is skipped when the      *)
(* pillars already decide or the budget is hit, or it is made, and may     *)
(* fail at the provider or return nothing.                                 *)
RunAnalyst ==
    /\ pc = "analyst"
    /\ \/ /\ AnalystSaved
          /\ analyst' = [how |-> "reused", on |-> usable["analyst"].on]
          /\ UNCHANGED halted
       \/ /\ ~ AnalystSaved
          /\ early
          /\ analyst' = [how |-> "early", on |-> Versions(rep)]
          /\ UNCHANGED halted
       \/ /\ ~ AnalystSaved
          /\ ~ early
          /\ BudgetHit("analyst")
          /\ analyst' = [how |-> "budget", on |-> Versions(rep)]
       \/ /\ ~ AnalystSaved
          /\ ~ early
          /\ BudgetOk
          /\ \E how \in {"down", "empty", "done"} :
                analyst' = [how |-> how, on |-> Versions(rep)]
          /\ UNCHANGED halted
    /\ pc' = "analysed"
    /\ UNCHANGED << disk, attempts, was, rep, usable, early, report, cancel, clean, regen >>

Mut_Outcome == IF analyst.how = "done" THEN "succeeded" ELSE "partial"

Outcome == IF analyst.how = "done" THEN "succeeded" ELSE "failed"

(* The checkpoint is written before the cancel is looked at. *)
KeepAnalyst ==
    /\ pc = "analysed"
    /\ stage' = IF analyst.how = "reused" THEN stage
                ELSE [stage EXCEPT !["analyst"] = [st |-> Outcome, on |-> analyst.on]]
    /\ IF Stopped("synthesis")
       THEN Abandon
       ELSE /\ pc' = "synthesis"
            /\ UNCHANGED << status, attempt >>
    /\ UNCHANGED << mission, saved, attempts, regen >>

(* synthesize (its paid second phase only inside the budget and when the   *)
(* pillars do not decide), then the leads, with the marks "enrich" and     *)
(* "writer" after it.                                                      *)
Synthesize ==
    /\ pc = "synthesis"
    /\ IF Stopped("writer")
       THEN Abandon
       ELSE /\ \/ UNCHANGED halted
               \/ ~ early /\ BudgetHit("synthesis")
            /\ pc' = "writer"
            /\ UNCHANGED << status, was, rep, usable, early, analyst, report, cancel, clean >>
    /\ UNCHANGED << mission, stage, saved, attempts, regen >>

(* Nothing is written over a result that is decided, unpaid for or absent. *)
WriterBarred == early \/ analyst.how \in {"budget", "down"}

ReportSaved == usable["report"].st = "succeeded"

RunWriter ==
    /\ pc = "writer"
    /\ \/ /\ WriterBarred
          /\ report' = [kind |-> "none", on |-> Nothing]
          /\ UNCHANGED halted
       \/ /\ ~ WriterBarred
          /\ BudgetHit("writer")
          /\ report' = [kind |-> "none", on |-> Nothing]
       \/ /\ ~ WriterBarred
          /\ BudgetOk
          /\ ReportSaved
          /\ \E kind \in Texts : report' = [kind |-> kind, on |-> usable["report"].on]
          /\ UNCHANGED halted
       \/ /\ ~ WriterBarred
          /\ BudgetOk
          /\ ~ ReportSaved
          /\ \E kind \in {"none"} \cup Texts :
                report' = [kind |-> kind, on |-> Versions(rep)]
          /\ UNCHANGED halted
    /\ pc' = "written"
    /\ UNCHANGED << disk, attempts, was, rep, usable, early, analyst, cancel, clean, regen >>

HasText == report.kind \in Texts

KeptReport == [stage EXCEPT !["report"] = [st |-> "succeeded", on |-> report.on]]

(* The mark before the study tail comes ahead of the report's checkpoint.  *)
KeepReport ==
    /\ pc = "written"
    /\ IF ~ HasText
       THEN /\ pc' = "end"
            /\ UNCHANGED << stage, status, attempt >>
       ELSE IF Stopped("slots")
            THEN Abandon /\ UNCHANGED stage
            ELSE /\ stage' = KeptReport
                 /\ pc' = "slots"
                 /\ UNCHANGED << status, attempt >>
    /\ UNCHANGED << mission, saved, attempts, regen >>

(* The paid calls of the study tail, each behind its guard; whatever goes  *)
(* wrong leaves the report alone, and a cap hit here is forgotten.         *)
StudyTail ==
    /\ pc = "slots"
    /\ \/ /\ ~ cancel
          /\ BudgetOk
          /\ pc' = "slots"
       \/ pc' = "end"
    /\ UNCHANGED << disk, attempts, attempt, regen >>

EndTail ==
    /\ pc = "end"
    /\ stage' = IF HasText THEN KeptReport ELSE stage
    /\ pc' = "save"
    /\ UNCHANGED << mission, saved, status, attempts, attempt, regen >>

(* _finish_research_run writes the whole result over the row; a failure of *)
(* that write fails the run.                                               *)
SaveResult ==
    /\ pc = "save"
    /\ \/ /\ status' = "completed"
          /\ saved' = [kind |-> IF HasText THEN report.kind ELSE "none",
                       on |-> Versions(rep),
                       text |-> IF HasText THEN report.on ELSE Nothing]
       \/ /\ status' = "failed"
          /\ UNCHANGED saved
    /\ Forget
    /\ UNCHANGED << mission, stage, attempts, regen >>

-----------------------------------------------------------------------------
(* POST /analyses/{id}/report.                                             *)

(* The missions that one request runs again: trends, prices, both or none. *)
Refreshes == {{}} \cup {{m, n} : m \in Missions, n \in Missions}

(* It reads the saved result, and the mission rows; on request it runs     *)
(* missions again (a failed refresh keeps the old report), and the         *)
(* analyst, whose failure ends the request.                                *)
RegenRead(g) ==
    /\ regen[g].step = "off"
    /\ saved.kind # "never"
    /\ Overlap \/ (pc = "idle" /\ \A h \in Regens : ~ Writing(h))
    /\ \E M \in Refreshes, analysed \in BOOLEAN :
          /\ \A m \in M : mission[m].v < MaxVersion
          /\ regen' = [regen EXCEPT ![g] =
                [step |-> "writing", saw |-> saved.kind,
                 rep |-> [m \in AllMissions |->
                             IF m \in M THEN [ok |-> TRUE, v |-> mission[m].v + 1]
                                        ELSE mission[m]],
                 analysed |-> analysed]]
    /\ UNCHANGED << disk, attempts, pc, attempt >>

Mut_Worse(new, old) == new = "none" /\ old \in Texts

(* H1: a complete report is replaced only by a complete one, any text only *)
(* by text.                                                                *)
Worse(new, old) ==
    \/ new = "none" /\ old \in Texts
    \/ new = "incomplete" /\ old = "whole"

(* The writer returned: nothing is stored when the report is worse than    *)
(* the one read.  Otherwise each refreshed mission row is committed, then  *)
(* the analyst's checkpoint, then the result, unless the export gate       *)
(* blocks it; a failure or the end of the process leaves what came before. *)
RegenWrite(g) ==
    /\ Writing(g)
    /\ \E kind \in {"none"} \cup Texts :
          LET seen == regen[g]
              fresh == {m \in AllMissions : seen.rep[m].v > mission[m].v}
              Rows(F) == mission' = [m \in AllMissions |->
                                        IF m \in F THEN seen.rep[m] ELSE mission[m]]
          IN  \/ /\ Worse(kind, seen.saw)
                 /\ UNCHANGED disk
              \/ /\ ~ Worse(kind, seen.saw)
                 /\ \E F \in SUBSET fresh : Rows(F)
                 /\ UNCHANGED << stage, saved, status >>
              \/ /\ ~ Worse(kind, seen.saw)
                 /\ Rows(fresh)
                 /\ stage' = IF seen.analysed
                             THEN [stage EXCEPT !["analyst"] =
                                      [st |-> "succeeded", on |-> Versions(seen.rep)]]
                             ELSE stage
                 /\ \/ UNCHANGED << saved, status >>
                    \/ /\ saved' = [kind |-> kind, on |-> Versions(seen.rep),
                                    text |-> IF kind \in Texts THEN Versions(seen.rep)
                                                               ELSE Nothing]
                       /\ status' = "completed"
    /\ regen' = [regen EXCEPT ![g].step = "done"]
    /\ UNCHANGED << attempts, pc, attempt >>

-----------------------------------------------------------------------------

Rest ==
    /\ pc = "idle"
    /\ \A g \in Regens : ~ Writing(g)
    /\ UNCHANGED vars

Next ==
    \/ Start
    \/ \E m \in Missions : RunMission(m)
    \/ MissionsDone \/ RunGaps \/ Augment
    \/ BeginTail \/ RunAnalyst \/ KeepAnalyst \/ Synthesize
    \/ RunWriter \/ KeepReport \/ StudyTail \/ EndTail \/ SaveResult
    \/ \E g \in Regens : RegenRead(g) \/ RegenWrite(g)
    \/ CancelRun \/ Crash
    \/ Rest

Spec == Init /\ [][Next]_vars

-----------------------------------------------------------------------------
(* Safety.                                                                 *)

Calls(how) == how \in {"down", "empty", "done"}

AnalystCalled == pc = "analyst" /\ pc' = "analysed" /\ Calls(analyst'.how)
WriterCalled == pc = "writer" /\ pc' = "written" /\ report'.kind # "no"
                /\ report'.on = Versions(rep) /\ ~ ReportSaved

(* What a run pays for, it lacks and may have.  An analysis or a report    *)
(* whose checkpoint was computed from the missions the run holds is never  *)
(* paid for again, whatever happened to the attempt that wrote it: a       *)
(* crash, a cancel, a failed save, a later refresh.  And after a cap has   *)
(* stopped a run, after the early halt, or over an analyst that failed, no *)
(* later stage of that run makes a paid call.                              *)
NothingPaidInVain == [][
    /\ AnalystCalled =>
          /\ ~ (stage["analyst"].st = "succeeded" /\ stage["analyst"].on = Versions(rep))
          /\ halted = "no" /\ ~ early
    /\ WriterCalled =>
          /\ ~ (stage["report"].st = "succeeded" /\ stage["report"].on = Versions(rep))
          /\ halted = "no" /\ ~ early /\ analyst.how \notin {"down", "budget"}]_vars

(* A report that the writer has returned survives every ending of its      *)
(* attempt but the loss of the process before its checkpoint: neither a    *)
(* cancel nor the study tail nor a failing save throws it away.            *)
ReportKept == [][
    HasText /\ pc' = "idle" /\ status' # "running" =>
        stage'["report"] = [st |-> "succeeded", on |-> report.on]]_vars

(* "Changing any input cancels the saved tail": a run that found           *)
(* checkpoints computed from the mission rows beside them saves an         *)
(* analysis and a report computed from the missions it saves; and none of  *)
(* these is a failure that the run did not try again (a resume used to     *)
(* return an earlier attempt's failure for ever).                          *)
TailFollowsMissions ==
    pc = "save" =>
        /\ \A m \in AllMissions : rep[m].ok \/ rep[m].v > was[m].v
        /\ clean => /\ analyst.on = Versions(rep)
                    /\ HasText => report.on = Versions(rep)

(* The same without the assumption on what it found.                       *)
TailAlwaysFollows ==
    pc = "save" /\ HasText => report.on = Versions(rep)

(* H1: writing the report again never costs the row a complete report.     *)
RegenKeepsWhole == [][
    \A g \in Regens : Writing(g) /\ regen'[g].step = "done" /\ saved.kind = "whole"
        => saved'.kind = "whole"]_vars

=============================================================================
