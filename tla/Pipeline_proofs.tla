---------------------------- MODULE Pipeline_proofs ----------------------------
(***************************************************************************)
(* Proofs about Pipeline, for every set of missions, whichever of them are *)
(* augmented, every set of rewriting requests and every number of attempts *)
(* and versions.                                                           *)
(***************************************************************************)
EXTENDS Pipeline, TLAPS

-----------------------------------------------------------------------------
(* The types, by name.                                                     *)

Vector == [AllMissions -> Nat]
Places == {"idle", "missions", "gaps", "augment", "tail", "analyst", "analysed",
           "synthesis", "writer", "written", "slots", "end", "save"}
AnalystType == [how : {"no", "reused", "early", "budget", "down", "empty", "done"},
                on : Vector]
ReportType == [kind : {"no", "none"} \cup Texts, on : Vector]
SavedType == [kind : {"never", "none"} \cup Texts, on : Vector, text : Vector]
RegenType == [step : {"off", "writing", "done"}, saw : {"never", "none"} \cup Texts,
              rep : [AllMissions -> Report], analysed : BOOLEAN]

TypedDisk ==
    /\ mission \in [AllMissions -> Report]
    /\ stage \in [Stages -> Checkpoint]
    /\ saved \in SavedType
    /\ status \in {"none", "running", "failed", "completed"}
    /\ attempts \in 0..MaxAttempt
    /\ regen \in [Regens -> RegenType]

TypedAttempt ==
    /\ pc \in Places
    /\ was \in [AllMissions -> Report]
    /\ rep \in [AllMissions -> Report]
    /\ usable \in [Stages -> Checkpoint]
    /\ halted \in {"no", "analyst", "synthesis", "writer", "slots"}
    /\ early \in BOOLEAN
    /\ analyst \in AnalystType
    /\ report \in ReportType
    /\ cancel \in BOOLEAN
    /\ clean \in BOOLEAN

Typed == TypedDisk /\ TypedAttempt

LEMMA TypedSame == TypeOK <=> Typed
BY DEF TypeOK, Typed, TypedDisk, TypedAttempt, Vector, Places, AnalystType, ReportType,
       SavedType, RegenType

(* What nothing and a report's versions are. *)
LEMMA Blanks ==
    /\ Nothing \in Vector /\ Absent \in Report /\ Blank \in [AllMissions -> Report]
    /\ NoCheckpoint \in Checkpoint /\ NoStages \in [Stages -> Checkpoint]
    /\ NoCheckpoint.st = "none"
    /\ [how |-> "no", on |-> Nothing] \in AnalystType
    /\ [kind |-> "no", on |-> Nothing] \in ReportType
BY DEF Nothing, Vector, Absent, Report, Blank, NoCheckpoint, Checkpoint, NoStages, AnalystType,
       ReportType

LEMMA VersionsType ==
    ASSUME NEW r \in [AllMissions -> Report]
    PROVE  Versions(r) \in Vector /\ \A m \in AllMissions : Versions(r)[m] = r[m].v
BY DEF Versions, Vector, Report

(* The end of an attempt, as it leaves its memory. *)
LEMMA Forgets ==
    ASSUME Forget
    PROVE  /\ pc' = "idle" /\ was' = Blank /\ rep' = Blank /\ usable' = NoStages
           /\ analyst'.on = Nothing /\ report'.on = Nothing /\ report'.kind = "no"
           /\ clean' = TRUE /\ TypedAttempt'
BY Blanks DEF Forget, TypedAttempt, Places

LEMMA Abandons ==
    ASSUME TypedDisk, Abandon, UNCHANGED << mission, stage, saved, attempts, regen >>
    PROVE  /\ status' = "failed" /\ pc' = "idle" /\ report'.kind = "no" /\ Typed'
BY Forgets DEF Abandon, Typed, TypedDisk

(* A new version of one mission's report, kept and checkpointed. *)
LEMMA NewVersion ==
    ASSUME Typed, NEW m \in AllMissions, NEW ok \in BOOLEAN,
           LET new == [ok |-> ok, v |-> mission[m].v + 1]
           IN  rep' = [rep EXCEPT ![m] = new] /\ mission' = [mission EXCEPT ![m] = new]
    PROVE  /\ rep' \in [AllMissions -> Report] /\ mission' \in [AllMissions -> Report]
           /\ rep'[m] = mission'[m] /\ mission'[m].v = mission[m].v + 1
           /\ \A n \in AllMissions \ {m} : rep'[n] = rep[n] /\ mission'[n] = mission[n]
<1>. DEFINE new == [ok |-> ok, v |-> mission[m].v + 1]
<1>1. mission[m].v \in Nat
  BY DEF Typed, TypedDisk, Report
<1>2. new \in Report /\ new.v = mission[m].v + 1
  BY <1>1 DEF Report
<1>. HIDE DEF new
<1>3. rep' = [rep EXCEPT ![m] = new] /\ mission' = [mission EXCEPT ![m] = new]
  BY DEF new
<1>. QED
  BY <1>2, <1>3 DEF Typed, TypedDisk, TypedAttempt

(* What the augmented missions' new versions are. *)
LEMMA Augments ==
    ASSUME Typed, Augment
    PROVE  /\ rep' \in [AllMissions -> Report] /\ mission' \in [AllMissions -> Report]
           /\ \A m \in AllMissions : \/ rep'[m] = rep[m] /\ mission'[m] = mission[m]
                                     \/ rep'[m] = mission'[m] /\ rep'[m].v = rep[m].v + 1
<1>1. PICK A \in SUBSET {m \in Augmented : rep[m].v < MaxVersion} :
          /\ rep' = [m \in AllMissions |-> IF m \in A THEN [rep[m] EXCEPT !.v = rep[m].v + 1]
                                                      ELSE rep[m]]
          /\ mission' = [m \in AllMissions |-> IF m \in A THEN rep'[m] ELSE mission[m]]
  BY DEF Augment
<1>2. ASSUME NEW m \in AllMissions
      PROVE  /\ [rep[m] EXCEPT !.v = rep[m].v + 1] \in Report
             /\ [rep[m] EXCEPT !.v = rep[m].v + 1].v = rep[m].v + 1
             /\ rep[m] \in Report /\ mission[m] \in Report
  BY DEF Typed, TypedDisk, TypedAttempt, Report
<1>. QED
  BY <1>1, <1>2

LEMMA StageWrite ==
    ASSUME Typed, NEW s \in Stages, NEW c \in Checkpoint, stage' = [stage EXCEPT ![s] = c]
    PROVE  /\ stage' \in [Stages -> Checkpoint] /\ stage'[s] = c
           /\ \A t \in Stages \ {s} : stage'[t] = stage[t]
BY DEF Typed, TypedDisk

LEMMA KeepsReport ==
    ASSUME Typed, stage' = KeptReport
    PROVE  /\ stage' \in [Stages -> Checkpoint]
           /\ stage'["report"] = [st |-> "succeeded", on |-> report.on]
           /\ stage'["analyst"] = stage["analyst"]
<1>1. [st |-> "succeeded", on |-> report.on] \in Checkpoint
  BY DEF Typed, TypedAttempt, ReportType, Checkpoint, Vector
<1>. QED
  BY <1>1, StageWrite DEF KeptReport, Stages

LEMMA KeepsAnalyst ==
    ASSUME Typed, KeepAnalyst
    PROVE  /\ stage' \in [Stages -> Checkpoint] /\ stage'["report"] = stage["report"]
           /\ stage'["analyst"] = stage["analyst"] \/ stage'["analyst"].on = analyst.on
<1>1. [st |-> Outcome, on |-> analyst.on] \in Checkpoint
  BY DEF Typed, TypedAttempt, AnalystType, Checkpoint, Vector, Outcome
<1>2. CASE analyst.how = "reused"
  BY <1>2 DEF KeepAnalyst, Typed, TypedDisk
<1>3. CASE analyst.how # "reused"
  <2>1. stage' = [stage EXCEPT !["analyst"] = [st |-> Outcome, on |-> analyst.on]]
    BY <1>3 DEF KeepAnalyst
  <2>. DEFINE c == [st |-> Outcome, on |-> analyst.on]
  <2>2. c \in Checkpoint /\ c.on = analyst.on
    BY <1>1
  <2>. HIDE DEF c
  <2>3. stage' = [stage EXCEPT !["analyst"] = c]
    BY <2>1 DEF c
  <2>. QED
    BY <2>2, <2>3, StageWrite DEF Stages
<1>. QED
  BY <1>2, <1>3

(* A rewriting request reads, and later writes: what it leaves of each     *)
(* table.                                                                  *)
LEMMA Reads ==
    ASSUME Typed, NEW g \in Regens, RegenRead(g)
    PROVE  /\ regen' \in [Regens -> RegenType]
           /\ regen'[g].step = "writing" /\ regen'[g].saw = saved.kind
           /\ \A h \in Regens \ {g} : regen'[h] = regen[h]
<1>1. PICK M \in Refreshes, analysed \in BOOLEAN :
          regen' = [regen EXCEPT ![g] =
                [step |-> "writing", saw |-> saved.kind,
                 rep |-> [m \in AllMissions |->
                             IF m \in M THEN [ok |-> TRUE, v |-> mission[m].v + 1]
                                        ELSE mission[m]],
                 analysed |-> analysed]]
  BY DEF RegenRead
<1>. DEFINE r == [m \in AllMissions |-> IF m \in M THEN [ok |-> TRUE, v |-> mission[m].v + 1]
                                                   ELSE mission[m]]
            new == [step |-> "writing", saw |-> saved.kind, rep |-> r, analysed |-> analysed]
<1>2. ASSUME NEW m \in AllMissions
      PROVE  [ok |-> TRUE, v |-> mission[m].v + 1] \in Report /\ mission[m] \in Report
  BY DEF Typed, TypedDisk, Report
<1>3. r \in [AllMissions -> Report]
  BY <1>2
<1>4. saved.kind \in {"never", "none"} \cup Texts
  BY DEF Typed, TypedDisk, SavedType
<1>5. regen' = [regen EXCEPT ![g] = new]
  BY <1>1
<1>. HIDE DEF r
<1>6. new \in RegenType /\ new.step = "writing" /\ new.saw = saved.kind
  BY <1>3, <1>4 DEF RegenType
<1>. HIDE DEF new
<1>. QED
  BY <1>5, <1>6 DEF Typed, TypedDisk

LEMMA Ends ==
    ASSUME Typed, NEW g \in Regens, regen' = [regen EXCEPT ![g].step = "done"]
    PROVE  /\ regen' \in [Regens -> RegenType] /\ regen'[g].step = "done"
           /\ \A h \in Regens \ {g} : regen'[h] = regen[h]
<1>. DEFINE new == [regen[g] EXCEPT !.step = "done"]
<1>1. regen[g] \in RegenType
  BY DEF Typed, TypedDisk
<1>2. new \in RegenType /\ new.step = "done"
  BY <1>1 DEF RegenType
<1>3. regen' = [regen EXCEPT ![g] = new]
  BY DEF Typed, TypedDisk
<1>. HIDE DEF new
<1>. QED
  BY <1>2, <1>3 DEF Typed, TypedDisk

LEMMA Writes ==
    ASSUME Typed, NEW g \in Regens, RegenWrite(g)
    PROVE  /\ Typed' /\ UNCHANGED << attempts, pc, attempt >>
           /\ regen'[g].step = "done" /\ \A h \in Regens \ {g} : regen'[h] = regen[h]
           /\ \A m \in AllMissions : mission'[m].v >= mission[m].v
           /\ stage'["report"] = stage["report"]
           /\ \/ stage'["analyst"] = stage["analyst"]
              \/ \A m \in AllMissions : stage'["analyst"].on[m] <= mission'[m].v
           /\ saved' = saved \/ ~ Worse(saved'.kind, regen[g].saw)
<1>. DEFINE seen == regen[g]
            fresh == {m \in AllMissions : seen.rep[m].v > mission[m].v}
            Wrote(kind) ==
              /\ ~ Worse(kind, seen.saw)
              /\ mission' = [m \in AllMissions |-> IF m \in fresh THEN seen.rep[m]
                                                   ELSE mission[m]]
              /\ stage' = IF seen.analysed
                          THEN [stage EXCEPT !["analyst"] =
                                   [st |-> "succeeded", on |-> Versions(seen.rep)]]
                          ELSE stage
              /\ \/ UNCHANGED << saved, status >>
                 \/ /\ saved' = [kind |-> kind, on |-> Versions(seen.rep),
                                 text |-> IF kind \in Texts THEN Versions(seen.rep)
                                                            ELSE Nothing]
                    /\ status' = "completed"
            Cut(F) ==
              /\ mission' = [m \in AllMissions |-> IF m \in F THEN seen.rep[m] ELSE mission[m]]
              /\ UNCHANGED << stage, saved, status >>
<1>1. /\ regen' \in [Regens -> RegenType] /\ regen'[g].step = "done"
      /\ \A h \in Regens \ {g} : regen'[h] = regen[h]
  BY Ends DEF RegenWrite
<1>2. UNCHANGED << attempts, pc, attempt >>
  BY DEF RegenWrite
<1>3. seen \in RegenType /\ seen.rep \in [AllMissions -> Report]
  BY DEF Typed, TypedDisk, RegenType
<1>4. TypedAttempt'
  BY <1>2 DEF Typed, TypedAttempt, attempt
<1>5. \A m \in AllMissions : mission[m].v \in Nat /\ seen.rep[m].v \in Nat
  BY <1>3 DEF Typed, TypedDisk, Report
<1>6. CASE UNCHANGED disk
  BY <1>1, <1>2, <1>4, <1>5, <1>6 DEF disk, Typed, TypedDisk
<1>8. CASE \E F \in SUBSET fresh : Cut(F)
  <2>1. PICK F \in SUBSET fresh : Cut(F)
    BY <1>8
  <2>2. /\ mission' \in [AllMissions -> Report]
        /\ \A m \in AllMissions : mission'[m].v >= mission[m].v
    BY <1>3, <1>5, <2>1 DEF Typed, TypedDisk
  <2>. QED
    BY <1>1, <1>2, <1>4, <2>1, <2>2 DEF Typed, TypedDisk
<1>7. CASE \E kind \in {"none"} \cup Texts : Wrote(kind)
  <2>1. PICK kind \in {"none"} \cup Texts : Wrote(kind)
    BY <1>7
  <2>2. /\ mission' \in [AllMissions -> Report]
        /\ \A m \in AllMissions : mission'[m].v >= mission[m].v /\ seen.rep[m].v <= mission'[m].v
    BY <1>3, <1>5, <2>1 DEF Typed, TypedDisk
  <2>3. /\ Versions(seen.rep) \in Vector
        /\ \A m \in AllMissions : Versions(seen.rep)[m] = seen.rep[m].v
    BY <1>3, VersionsType
  <2>4. /\ stage' \in [Stages -> Checkpoint] /\ stage'["report"] = stage["report"]
        /\ \/ stage'["analyst"] = stage["analyst"]
           \/ \A m \in AllMissions : stage'["analyst"].on[m] <= mission'[m].v
    <3>. DEFINE c == [st |-> "succeeded", on |-> Versions(seen.rep)]
    <3>1. c \in Checkpoint /\ \A m \in AllMissions : c.on[m] <= mission'[m].v
      BY <2>2, <2>3 DEF Checkpoint, Vector
    <3>2. stage' = stage \/ stage' = [stage EXCEPT !["analyst"] = c]
      BY <2>1
    <3>. HIDE DEF c
    <3>. QED
      BY <3>1, <3>2, StageWrite DEF Stages, Typed, TypedDisk
  <2>5. /\ saved' \in SavedType /\ status' \in {"none", "running", "failed", "completed"}
        /\ saved' = saved \/ saved'.kind = kind
    BY <2>1, <2>3, Blanks DEF Typed, TypedDisk, SavedType
  <2>. QED
    BY <1>1, <1>2, <1>4, <2>1, <2>2, <2>4, <2>5 DEF Typed, TypedDisk
<1>. QED
  BY <1>6, <1>7, <1>8 DEF RegenWrite

LEMMA Crashes ==
    ASSUME Typed, Crash
    PROVE  /\ Typed' /\ Forget /\ UNCHANGED << disk, attempts >>
           /\ \A g \in Regens : regen'[g].step # "writing"
<1>1. \A g \in Regens : regen[g] \in RegenType
  BY DEF Typed, TypedDisk
<1>2. \A g \in Regens : LET r == [regen[g] EXCEPT !.step = "done"]
                        IN  r \in RegenType /\ r.step = "done"
  BY <1>1 DEF RegenType
<1>3. regen' \in [Regens -> RegenType] /\ \A g \in Regens : regen'[g].step # "writing"
  BY <1>1, <1>2 DEF Crash, Writing
<1>4. Forget /\ UNCHANGED << disk, attempts >>
  BY DEF Crash
<1>. QED
  BY <1>3, <1>4, Forgets DEF Typed, TypedDisk, disk

-----------------------------------------------------------------------------
(* Every step keeps the types.                                             *)

LEMMA TypeInit == Init => Typed
<1>. SUFFICES ASSUME Init PROVE Typed
  OBVIOUS
<1>1. [kind |-> "never", on |-> Nothing, text |-> Nothing] \in SavedType
  BY Blanks DEF SavedType
<1>2. [step |-> "off", saw |-> "never", rep |-> Blank, analysed |-> FALSE] \in RegenType
  BY Blanks DEF RegenType
<1>3. 0 \in 0..MaxAttempt
  BY PipelineAssumption
<1>. QED
  BY <1>1, <1>2, <1>3, Blanks DEF Init, Typed, TypedDisk, TypedAttempt, Places

LEMMA MissionsTypes ==
    ASSUME Typed,
           Start \/ (\E m \in Missions : RunMission(m)) \/ MissionsDone \/ RunGaps \/ Augment
    PROVE  Typed'
<1>1. CASE Start
  <2>1. attempts' \in 0..MaxAttempt
    BY <1>1, PipelineAssumption DEF Start, Typed, TypedDisk
  <2>. QED
    BY <1>1, <2>1 DEF Start, Typed, TypedDisk, TypedAttempt, Places, BelongTogether
<1>2. ASSUME NEW m \in Missions, RunMission(m) PROVE Typed'
  <2>1. m \in AllMissions
    BY DEF AllMissions
  <2>2. rep' \in [AllMissions -> Report] /\ mission' \in [AllMissions -> Report]
    BY <1>2, <2>1, NewVersion DEF RunMission
  <2>. QED
    BY <1>2, <2>2 DEF RunMission, Typed, TypedDisk, TypedAttempt
<1>3. CASE MissionsDone
  BY <1>3 DEF MissionsDone, disk, attempt, Typed, TypedDisk, TypedAttempt, Places
<1>4. CASE RunGaps
  <2>1. rep' \in [AllMissions -> Report] /\ mission' \in [AllMissions -> Report]
    <3>1. Gaps \in AllMissions
      BY DEF AllMissions
    <3>2. CASE UNCHANGED << rep, mission >>
      BY <3>2 DEF Typed, TypedDisk, TypedAttempt
    <3>3. CASE ~ KeepsGaps
      BY <1>4, <3>1, <3>3, NewVersion DEF RunGaps
    <3>. QED
      BY <1>4, <3>2, <3>3 DEF RunGaps
  <2>. QED
    BY <1>4, <2>1 DEF RunGaps, Typed, TypedDisk, TypedAttempt, Places
<1>5. CASE Augment
  BY <1>5, Augments DEF Augment, Typed, TypedDisk, TypedAttempt, Places
<1>. QED
  BY <1>1, <1>2, <1>3, <1>4, <1>5

LEMMA TailTypes ==
    ASSUME Typed, BeginTail \/ RunAnalyst \/ KeepAnalyst \/ Synthesize \/ RunWriter
                  \/ KeepReport \/ StudyTail \/ EndTail \/ SaveResult
    PROVE  Typed'
<1>1. CASE Abandon /\ UNCHANGED << mission, stage, saved, attempts, regen >>
  BY <1>1, Abandons DEF Typed
<1>2. CASE BeginTail /\ ~ Stopped("analyst")
  BY <1>2, Blanks DEF BeginTail, Typed, TypedDisk, TypedAttempt, Places
<1>3. CASE RunAnalyst
  <2>1. Versions(rep) \in Vector /\ usable["analyst"].on \in Vector
    BY VersionsType DEF Typed, TypedAttempt, Checkpoint, Stages, Vector
  <2>2. analyst' \in AnalystType
    BY <1>3, <2>1 DEF RunAnalyst, AnalystType
  <2>3. halted' \in {"no", "analyst", "synthesis", "writer", "slots"} /\ pc' \in Places
    BY <1>3 DEF RunAnalyst, BudgetHit, Typed, TypedAttempt, Places
  <2>. QED
    BY <1>3, <2>2, <2>3 DEF RunAnalyst, disk, Typed, TypedDisk, TypedAttempt
<1>4. CASE KeepAnalyst
  <2>1. stage' \in [Stages -> Checkpoint]
    BY <1>4, KeepsAnalyst
  <2>2. CASE Stopped("synthesis")
    BY <1>4, <2>1, <2>2, Forgets DEF KeepAnalyst, Abandon, Typed, TypedDisk
  <2>3. CASE ~ Stopped("synthesis")
    BY <1>4, <2>1, <2>3 DEF KeepAnalyst, attempt, Typed, TypedDisk, TypedAttempt, Places
  <2>. QED
    BY <2>2, <2>3
<1>5. CASE Synthesize /\ ~ Stopped("writer")
  BY <1>5 DEF Synthesize, BudgetHit, Typed, TypedDisk, TypedAttempt, Places
<1>6. CASE RunWriter
  <2>1. Versions(rep) \in Vector /\ usable["report"].on \in Vector /\ Nothing \in Vector
    BY VersionsType, Blanks DEF Typed, TypedAttempt, Checkpoint, Stages, Vector
  <2>2. report' \in ReportType
    BY <1>6, <2>1 DEF RunWriter, ReportType
  <2>3. halted' \in {"no", "analyst", "synthesis", "writer", "slots"} /\ pc' \in Places
    BY <1>6 DEF RunWriter, BudgetHit, Typed, TypedAttempt, Places
  <2>. QED
    BY <1>6, <2>2, <2>3 DEF RunWriter, disk, Typed, TypedDisk, TypedAttempt
<1>7. CASE KeepReport /\ ~ (HasText /\ Stopped("slots"))
  <2>1. stage' \in [Stages -> Checkpoint] /\ pc' \in Places /\ UNCHANGED << status, attempt >>
    BY <1>7, KeepsReport DEF KeepReport, Typed, TypedDisk, Places
  <2>. QED
    BY <1>7, <2>1 DEF KeepReport, attempt, Typed, TypedDisk, TypedAttempt
<1>8. CASE StudyTail
  BY <1>8 DEF StudyTail, disk, attempt, Typed, TypedDisk, TypedAttempt, Places
<1>9. CASE EndTail
  <2>1. stage' \in [Stages -> Checkpoint]
    BY <1>9, KeepsReport DEF EndTail, Typed, TypedDisk
  <2>. QED
    BY <1>9, <2>1 DEF EndTail, attempt, Typed, TypedDisk, TypedAttempt, Places
<1>10. CASE SaveResult
  <2>1. Versions(rep) \in Vector /\ Nothing \in Vector /\ report.on \in Vector
    BY VersionsType, Blanks DEF Typed, TypedAttempt, ReportType
  <2>2. saved' \in SavedType /\ status' \in {"none", "running", "failed", "completed"}
    BY <1>10, <2>1 DEF SaveResult, SavedType, HasText, Typed, TypedDisk
  <2>. QED
    BY <1>10, <2>2, Forgets DEF SaveResult, Typed, TypedDisk
<1>. QED
  BY <1>1, <1>2, <1>3, <1>4, <1>5, <1>6, <1>7, <1>8, <1>9, <1>10 DEF BeginTail, Synthesize, KeepReport

LEMMA TypeStep == Typed /\ [Next]_vars => Typed'
<1>. SUFFICES ASSUME Typed, [Next]_vars PROVE Typed'
  OBVIOUS
<1>1. ASSUME NEW g \in Regens, RegenRead(g) \/ RegenWrite(g) PROVE Typed'
  <2>1. CASE RegenRead(g)
    BY <1>1, <2>1, Reads DEF RegenRead, disk, attempt, Typed, TypedDisk, TypedAttempt
  <2>. QED
    BY <1>1, <2>1, Writes
<1>2. CASE CancelRun
  BY <1>2 DEF CancelRun, disk, Typed, TypedDisk, TypedAttempt
<1>3. CASE Crash
  BY <1>3, Crashes
<1>4. CASE Rest \/ UNCHANGED vars
  BY <1>4 DEF Rest, vars, disk, attempt, Typed, TypedDisk, TypedAttempt
<1>. QED
  BY <1>1, <1>2, <1>3, <1>4, MissionsTypes, TailTypes DEF Next

(* The state of a run, of its disk and of the requests that rewrite its    *)
(* report stays in their types, overlapping or not.                        *)
THEOREM TypeCorrect == Spec => []TypeOK
<1>1. Typed => TypeOK
  BY TypedSame
<1>. QED
  BY <1>1, TypeInit, TypeStep, PTL DEF Spec

-----------------------------------------------------------------------------
(* A run that reaches its end has tried every mission it found lacking,    *)
(* and its tail is computed from what it has now.                          *)

Early == {"missions", "gaps", "augment", "tail"}
Late == {"analyst", "analysed", "synthesis", "writer", "written", "slots", "end", "save"}
After == {"written", "slots", "end", "save"}

Caught(m) == rep[m].v > was[m].v \/ (rep[m] = was[m] /\ ~ NeedsRun(m))

(* A report that the run holds is the one it loaded, or a later version;   *)
(* past the missions it is one that did not need to run, or a later one.   *)
RunsAgain ==
    /\ pc \in {"missions", "gaps"} =>
         /\ \A m \in AllMissions : mission[m].v >= was[m].v
         /\ rep[Gaps] = was[Gaps]
    /\ pc = "missions" => \A m \in Missions : rep[m] = was[m] \/ rep[m].v > was[m].v
    /\ pc = "gaps" => \A m \in Missions : Caught(m)
    /\ pc \in {"augment", "tail"} \cup Late => \A m \in AllMissions : Caught(m)

FromThese(checkpoint, reports) == checkpoint.st = "none" \/ checkpoint.on = Versions(reports)

(* When the checkpoints it found belonged to the missions beside them,     *)
(* those it may reuse do, once the tail has begun, to the missions it has. *)
CleanTail == clean =>
    /\ pc \in Early => \A s \in Stages : FromThese(usable[s], was)
    /\ pc \in Late => \A s \in Stages : FromThese(usable[s], rep)
    /\ pc \in Late \ {"analyst"} => analyst.on = Versions(rep)
    /\ pc \in After /\ HasText => report.on = Versions(rep)

TailInv == Typed /\ RunsAgain /\ CleanTail

LEMMA Numbers ==
    ASSUME Typed
    PROVE  \A m \in AllMissions : /\ rep[m].v \in Nat /\ was[m].v \in Nat /\ mission[m].v \in Nat
                                  /\ rep[m].ok \in BOOLEAN
BY DEF Typed, TypedDisk, TypedAttempt, Report

(* Between two attempts, nothing is claimed. *)
LEMMA IdleTail ==
    ASSUME pc' = "idle"
    PROVE  RunsAgain' /\ CleanTail'
BY DEF RunsAgain, CleanTail, Early, Late, After

(* A step that leaves the attempt's reports alone, and the missions no     *)
(* older.                                                                  *)
LEMMA TailSame ==
    ASSUME TailInv, UNCHANGED << pc, was, rep, usable, analyst, report, clean >>,
           Typed', \A m \in AllMissions : mission'[m].v >= mission[m].v
    PROVE  RunsAgain' /\ CleanTail'
<1>1. RunsAgain'
  <2>1. \A m \in AllMissions : mission[m].v >= was[m].v => mission'[m].v >= was[m].v
    BY Numbers DEF TailInv, Typed, TypedDisk, Report
  <2>. QED
    BY <2>1 DEF TailInv, RunsAgain, Caught, NeedsRun
<1>2. CleanTail'
  BY DEF TailInv, CleanTail, FromThese, HasText
<1>. QED
  BY <1>1, <1>2

LEMMA StartTail ==
    ASSUME TailInv, Start
    PROVE  RunsAgain' /\ CleanTail'
<1>1. /\ pc' = "missions" /\ was' = mission /\ rep' = mission /\ usable' = stage
      /\ mission' = mission /\ stage' = stage /\ clean' = BelongTogether
  BY DEF Start
<1>2. RunsAgain'
  BY <1>1, Numbers DEF TailInv, RunsAgain, Late, AllMissions
<1>3. CleanTail'
  BY <1>1 DEF CleanTail, BelongTogether, FromThese, Early, Late, After
<1>. QED
  BY <1>2, <1>3

LEMMA RunMissionTail ==
    ASSUME TailInv, NEW m \in Missions, RunMission(m)
    PROVE  RunsAgain' /\ CleanTail'
<1>1. /\ pc = "missions" /\ UNCHANGED << pc, was, usable, clean >>
      /\ m \in AllMissions /\ m # Gaps /\ Gaps \in AllMissions
  BY PipelineAssumption DEF RunMission, AllMissions
<1>2. /\ mission'[m].v = mission[m].v + 1 /\ rep'[m] = mission'[m]
      /\ \A n \in AllMissions \ {m} : rep'[n] = rep[n] /\ mission'[n] = mission[n]
  BY <1>1, NewVersion DEF TailInv, RunMission
<1>3. rep'[m].v > was[m].v /\ mission'[m].v >= was[m].v
  BY <1>1, <1>2, Numbers DEF TailInv, RunsAgain
<1>4. RunsAgain'
  BY <1>1, <1>2, <1>3 DEF TailInv, RunsAgain, Late, AllMissions
<1>5. CleanTail'
  BY <1>1 DEF TailInv, CleanTail, FromThese, Early, Late, After
<1>. QED
  BY <1>4, <1>5

LEMMA MissionsDoneTail ==
    ASSUME TailInv, MissionsDone
    PROVE  RunsAgain' /\ CleanTail'
<1>1. /\ pc = "missions" /\ pc' = "gaps"
      /\ UNCHANGED << mission, was, rep, usable, clean >>
  BY DEF MissionsDone, disk, attempt
<1>2. ASSUME NEW m \in Missions PROVE Caught(m)
  <2>1. rep[m] = was[m] \/ rep[m].v > was[m].v
    BY <1>1 DEF TailInv, RunsAgain
  <2>2. NeedsRun(m) => rep[m].v # was[m].v
    BY DEF MissionsDone, ToRun, Ran
  <2>. QED
    BY <2>1, <2>2 DEF Caught
<1>3. RunsAgain'
  BY <1>1, <1>2 DEF TailInv, RunsAgain, Caught, NeedsRun, Late
<1>4. CleanTail'
  BY <1>1 DEF TailInv, CleanTail, FromThese, Early, Late, After
<1>. QED
  BY <1>3, <1>4

LEMMA RunGapsTail ==
    ASSUME TailInv, RunGaps
    PROVE  RunsAgain' /\ CleanTail'
<1>1. /\ pc = "gaps" /\ pc' = "augment" /\ UNCHANGED << was, usable, clean >>
      /\ Gaps \in AllMissions /\ Gaps \notin Missions
  BY PipelineAssumption DEF RunGaps, AllMissions
<1>2. /\ rep'[Gaps].v > was[Gaps].v \/ (rep'[Gaps] = was[Gaps] /\ ~ NeedsRun(Gaps))
      /\ \A n \in Missions : rep'[n] = rep[n]
  <2>1. CASE UNCHANGED << rep, mission >> /\ KeepsGaps
    BY <1>1, <2>1 DEF TailInv, RunsAgain, KeepsGaps
  <2>2. CASE ~ KeepsGaps
    <3>1. /\ mission'[Gaps].v = mission[Gaps].v + 1 /\ rep'[Gaps] = mission'[Gaps]
          /\ \A n \in AllMissions \ {Gaps} : rep'[n] = rep[n] /\ mission'[n] = mission[n]
      BY <1>1, <2>2, NewVersion DEF TailInv, RunGaps
    <3>. QED
      BY <1>1, <3>1, Numbers DEF TailInv, RunsAgain, AllMissions
  <2>. QED
    BY <2>1, <2>2 DEF RunGaps
<1>3. \A m \in AllMissions : Caught(m)'
  BY <1>1, <1>2 DEF TailInv, RunsAgain, Caught, NeedsRun, AllMissions
<1>4. RunsAgain'
  BY <1>1, <1>3 DEF RunsAgain
<1>5. CleanTail'
  BY <1>1 DEF TailInv, CleanTail, FromThese, Early, Late, After
<1>. QED
  BY <1>4, <1>5

LEMMA AugmentTail ==
    ASSUME TailInv, Augment
    PROVE  RunsAgain' /\ CleanTail'
<1>1. pc = "augment" /\ pc' = "tail" /\ UNCHANGED << was, usable, clean >>
  BY DEF Augment
<1>2. \A m \in AllMissions : rep'[m] = rep[m] \/ rep'[m].v = rep[m].v + 1
  BY Augments DEF TailInv
<1>3. ASSUME NEW m \in AllMissions PROVE Caught(m)'
  <2>1. Caught(m)
    BY <1>1 DEF TailInv, RunsAgain
  <2>2. rep[m].v >= was[m].v
    BY <2>1, Numbers DEF Caught, TailInv
  <2>. QED
    BY <1>1, <1>2, <2>1, <2>2, Numbers DEF TailInv, Caught, NeedsRun
<1>4. RunsAgain'
  BY <1>1, <1>3 DEF RunsAgain
<1>5. CleanTail'
  BY <1>1 DEF TailInv, CleanTail, FromThese, Early, Late, After
<1>. QED
  BY <1>4, <1>5

(* The tail begins: checkpoints of other versions are dropped. *)
LEMMA BeginTailTail ==
    ASSUME TailInv, BeginTail, pc' # "idle"
    PROVE  RunsAgain' /\ CleanTail'
<1>1. /\ pc = "tail" /\ pc' = "analyst" /\ UNCHANGED << mission, was, rep, report, clean >>
      /\ usable' = IF TailDropped THEN NoStages ELSE usable
  BY DEF BeginTail, Abandon, Forget
<1>2. RunsAgain'
  BY <1>1 DEF TailInv, RunsAgain, Caught, NeedsRun, Late
<1>3. clean => \A s \in Stages : FromThese(usable'[s], rep)
  <2>1. CASE TailDropped
    BY <1>1, <2>1, Blanks DEF FromThese, NoStages
  <2>2. CASE ~ TailDropped
    BY <1>1, <2>2 DEF TailInv, CleanTail, TailDropped, FromThese, Early
  <2>. QED
    BY <2>1, <2>2
<1>4. CleanTail'
  BY <1>1, <1>3 DEF CleanTail, FromThese, Early, Late, After
<1>. QED
  BY <1>2, <1>4

(* Within the tail, an outcome is reused from a checkpoint or computed     *)
(* from the missions.                                                      *)
LEMMA LateTail ==
    ASSUME TailInv,
           RunAnalyst \/ KeepAnalyst \/ Synthesize \/ RunWriter \/ KeepReport \/ StudyTail \/ EndTail,
           pc' # "idle"
    PROVE  RunsAgain' /\ CleanTail'
<1>0. Typed
  BY DEF TailInv
<1>1. /\ pc \in Late /\ pc' \in Late \ {"analyst"}
      /\ UNCHANGED << mission, was, rep, usable, clean >>
  BY DEF RunAnalyst, KeepAnalyst, Synthesize, RunWriter, KeepReport, StudyTail, EndTail, Late,
         disk, attempt, Abandon, Forget
<1>2. RunsAgain'
  BY <1>1 DEF TailInv, RunsAgain, Caught, NeedsRun, Late
<1>3. clean => analyst'.on = Versions(rep)
  <2>1. CASE RunAnalyst
    <3>1. clean /\ AnalystSaved => usable["analyst"].on = Versions(rep)
      BY <1>1 DEF TailInv, CleanTail, FromThese, AnalystSaved, Stages
    <3>. QED
      BY <2>1, <3>1 DEF RunAnalyst
  <2>2. CASE ~ RunAnalyst
    <3>1. pc # "analyst" /\ UNCHANGED analyst
      BY <1>1, <2>2 DEF KeepAnalyst, Synthesize, RunWriter, KeepReport, StudyTail, EndTail,
                        attempt, Abandon, Forget
    <3>. QED
      BY <1>1, <3>1 DEF TailInv, CleanTail
  <2>. QED
    BY <2>1, <2>2
<1>4. clean /\ pc' \in After /\ HasText' => report'.on = Versions(rep)
  <2>1. CASE RunWriter
    <3>1. clean /\ ReportSaved => usable["report"].on = Versions(rep)
      BY <1>1 DEF TailInv, CleanTail, FromThese, ReportSaved, Stages
    <3>. QED
      BY <2>1, <3>1 DEF RunWriter, HasText, Texts
  <2>2. CASE ~ RunWriter
    <3>1. UNCHANGED report /\ (pc' \in After => pc \in After)
      BY <1>1, <2>2 DEF RunAnalyst, KeepAnalyst, Synthesize, KeepReport, StudyTail, EndTail,
                        attempt, Abandon, Forget, After
    <3>. QED
      BY <3>1 DEF TailInv, CleanTail, HasText
  <2>. QED
    BY <2>1, <2>2
<1>5. CleanTail'
  BY <1>1, <1>3, <1>4 DEF TailInv, CleanTail, FromThese, Early, Late
<1>. QED
  BY <1>2, <1>5

LEMMA TailStep == TailInv /\ [Next]_vars => TailInv'
<1>. SUFFICES ASSUME TailInv, [Next]_vars PROVE TailInv'
  OBVIOUS
<1>0. Typed /\ Typed'
  BY TypeStep DEF TailInv
<1>. SUFFICES RunsAgain' /\ CleanTail'
  BY <1>0 DEF TailInv
<1>1. CASE pc' = "idle"
  BY <1>1, IdleTail
<1>2. CASE Start \/ MissionsDone \/ RunGaps \/ Augment \/ \E m \in Missions : RunMission(m)
  BY <1>2, StartTail, MissionsDoneTail, RunGapsTail, AugmentTail, RunMissionTail
<1>3. CASE pc' # "idle" /\ (BeginTail \/ RunAnalyst \/ KeepAnalyst \/ Synthesize \/ RunWriter
                              \/ KeepReport \/ StudyTail \/ EndTail)
  BY <1>3, BeginTailTail, LateTail
<1>4. CASE SaveResult \/ Crash
  BY <1>4, IdleTail DEF SaveResult, Crash, Forget
<1>5. CASE CancelRun \/ Rest \/ (\E g \in Regens : RegenRead(g)) \/ UNCHANGED vars
  <2>1. UNCHANGED << mission, pc, was, rep, usable, analyst, report, clean >>
    BY <1>5 DEF CancelRun, Rest, RegenRead, vars, disk, attempt
  <2>2. \A m \in AllMissions : mission'[m].v >= mission[m].v
    BY <1>0, <2>1, Numbers
  <2>. QED
    BY <1>0, <2>1, <2>2, TailSame
<1>6. ASSUME NEW g \in Regens, RegenWrite(g) PROVE RunsAgain' /\ CleanTail'
  BY <1>0, <1>6, Writes, TailSame DEF attempt
<1>. QED
  BY <1>1, <1>2, <1>3, <1>4, <1>5, <1>6 DEF Next

LEMMA TailInit == Init => TailInv
BY TypeInit DEF Init, TailInv, RunsAgain, CleanTail, Early, Late, After

(* A result that a run is about to save is computed from the missions it   *)
(* saves, with every failed or missing mission tried again; whatever other *)
(* requests do to the row meanwhile.                                       *)
THEOREM TailFollows == Spec => []TailFollowsMissions
<1>1. TailInv => TailFollowsMissions
  <2>. SUFFICES ASSUME TailInv, pc = "save" PROVE TailFollowsMissions
    BY DEF TailFollowsMissions
  <2>1. ASSUME NEW m \in AllMissions PROVE rep[m].ok \/ rep[m].v > was[m].v
    <3>1. Caught(m)
      BY DEF TailInv, RunsAgain, Late
    <3>. QED
      BY <3>1 DEF Caught, NeedsRun
  <2>2. clean => analyst.on = Versions(rep) /\ (HasText => report.on = Versions(rep))
    BY DEF TailInv, CleanTail, Late, After
  <2>. QED
    BY <2>1, <2>2 DEF TailFollowsMissions
<1>. QED
  BY <1>1, TailInit, TailStep, PTL DEF Spec

-----------------------------------------------------------------------------
(* What a run pays for and what it keeps, when a rewriting request overlaps *)
(* no other writer of the row.                                             *)

(* A request that is rewriting the report has the row to itself, and has   *)
(* read what the row says.                                                 *)
Alone == \A g \in Regens : Writing(g) =>
    /\ pc = "idle" /\ regen[g].saw = saved.kind
    /\ \A h \in Regens : Writing(h) => h = g

NotBeyond(on) == \A m \in AllMissions : on[m] <= mission[m].v

(* A run's reports are those on disk, and nothing is computed from versions *)
(* that are still to come.                                                 *)
KnownVersions ==
    /\ pc # "idle" => rep = mission
    /\ \A s \in Stages : NotBeyond(stage[s].on) /\ NotBeyond(usable[s].on)
    /\ NotBeyond(analyst.on) /\ NotBeyond(report.on)

SameOrOther(s) == usable[s] = stage[s] \/ stage[s].on # Versions(rep)

(* Until a stage's turn comes, its checkpoint on disk is the one the run   *)
(* may reuse, or is computed from other missions than the run has.         *)
Held ==
    /\ pc \in Early => /\ usable = stage
                       /\ \A s \in Stages, m \in AllMissions :
                             usable[s].on[m] <= was[m].v /\ was[m].v <= rep[m].v
    /\ pc = "analyst" => SameOrOther("analyst")
    /\ pc \in {"analyst", "analysed", "synthesis", "writer"} => SameOrOther("report")

Kept == stage["report"] = [st |-> "succeeded", on |-> report.on]

(* A report that the writer has returned is on disk from its checkpoint on. *)
Written ==
    /\ pc # "idle" => status = "running"
    /\ HasText => pc \in After
    /\ HasText /\ pc # "written" => Kept

KeepInv == Alone /\ KnownVersions /\ Held /\ Written

PaidInv == TailInv /\ KeepInv

LEMMA NobodyWrites ==
    ASSUME Alone, pc # "idle", NEW g \in Regens
    PROVE  ~ Writing(g)
BY DEF Alone

LEMMA VersionNumbers ==
    ASSUME Typed
    PROVE  /\ \A s \in Stages, m \in AllMissions : /\ stage[s].on[m] \in Nat
                                                   /\ usable[s].on[m] \in Nat
           /\ \A m \in AllMissions : analyst.on[m] \in Nat /\ report.on[m] \in Nat
           /\ \A m \in AllMissions : mission[m].v \in Nat
BY DEF Typed, TypedDisk, TypedAttempt, Checkpoint, AnalystType, ReportType, Vector, Report

LEMMA NothingBeyond ==
    ASSUME Typed'
    PROVE  /\ NotBeyond(Nothing)'
           /\ \A s \in Stages : NotBeyond(NoStages[s].on)'
BY VersionNumbers DEF NotBeyond, Nothing, NoStages, NoCheckpoint, Typed, TypedDisk, Report

(* What is not beyond the missions stays so when they get newer. *)
LEMMA StillNotBeyond ==
    ASSUME Typed, Typed', \A m \in AllMissions : mission'[m].v >= mission[m].v,
           NEW on \in Vector, NotBeyond(on)
    PROVE  \A m \in AllMissions : on[m] <= mission'[m].v
BY DEF NotBeyond, Vector, Typed, TypedDisk, Report

LEMMA Vectors ==
    ASSUME Typed
    PROVE  /\ \A s \in Stages : stage[s].on \in Vector /\ usable[s].on \in Vector
           /\ analyst.on \in Vector /\ report.on \in Vector
BY DEF Typed, TypedDisk, TypedAttempt, Checkpoint, AnalystType, ReportType, Vector

(* The end of an attempt. *)
LEMMA ForgetKept ==
    ASSUME PaidInv, pc # "idle", Forget, Typed', UNCHANGED << mission, regen >>,
           \A s \in Stages : stage'[s] = stage[s] \/ stage'[s].on \in {analyst.on, report.on}
    PROVE  KeepInv'
<1>0. Typed /\ KeepInv /\ pc' = "idle" /\ usable' = NoStages /\ report'.kind = "no"
      /\ analyst'.on = Nothing /\ report'.on = Nothing
  BY Forgets DEF PaidInv, TailInv
<1>1. Alone'
  BY <1>0, NobodyWrites DEF KeepInv, Alone, Writing
<1>2. KnownVersions'
  <2>1. \A s \in Stages : NotBeyond(stage[s].on)'
    BY <1>0 DEF KeepInv, KnownVersions, NotBeyond
  <2>2. \A s \in Stages : NotBeyond(usable[s].on)'
    BY <1>0, NothingBeyond
  <2>3. NotBeyond(analyst.on)' /\ NotBeyond(report.on)'
    BY <1>0, NothingBeyond
  <2>. QED
    BY <1>0, <2>1, <2>2, <2>3 DEF KnownVersions
<1>3. Held' /\ Written'
  BY <1>0 DEF Held, Written, Early, HasText, Texts
<1>. QED
  BY <1>1, <1>2, <1>3 DEF KeepInv

LEMMA StartKept ==
    ASSUME PaidInv, ~ Overlap, Start
    PROVE  KeepInv'
<1>0. Typed /\ Typed' /\ KeepInv
  BY MissionsTypes DEF PaidInv, TailInv
<1>1. /\ pc = "idle" /\ pc' = "missions" /\ status' = "running" /\ \A g \in Regens : ~ Writing(g)
      /\ was' = mission /\ rep' = mission /\ usable' = stage
      /\ UNCHANGED << mission, stage, saved, analyst, report, regen >>
  BY DEF Start
<1>2. Alone'
  BY <1>1 DEF Alone, Writing
<1>3. KnownVersions'
  BY <1>0, <1>1 DEF KeepInv, KnownVersions, NotBeyond
<1>4. Held'
  <2>1. \A s \in Stages, m \in AllMissions : usable'[s].on[m] <= was'[m].v /\ was'[m].v <= rep'[m].v
    BY <1>0, <1>1, Numbers DEF KeepInv, KnownVersions, NotBeyond
  <2>. QED
    BY <1>1, <2>1 DEF Held
<1>5. Written'
  BY <1>0, <1>1 DEF KeepInv, Written, HasText, After
<1>. QED
  BY <1>2, <1>3, <1>4, <1>5 DEF KeepInv

(* The missions run, are kept or are augmented: reports only get newer.    *)
LEMMA MissionsKept ==
    ASSUME PaidInv, (\E m \in Missions : RunMission(m)) \/ MissionsDone \/ RunGaps \/ Augment
    PROVE  KeepInv'
<1>0. Typed /\ Typed' /\ KeepInv
  BY MissionsTypes DEF PaidInv, TailInv
<1>1. /\ pc \in {"missions", "gaps", "augment"} /\ pc' \in Early
      /\ UNCHANGED << stage, saved, status, was, usable, analyst, report, regen >>
  BY DEF RunMission, MissionsDone, RunGaps, Augment, Early, disk, attempt
<1>2. rep = mission
  BY <1>0, <1>1 DEF KeepInv, KnownVersions
<1>3. rep' = mission' /\ \A m \in AllMissions : mission'[m].v >= mission[m].v
  <2>0. /\ rep' \in [AllMissions -> Report] /\ mission' \in [AllMissions -> Report]
    BY <1>0 DEF Typed, TypedDisk, TypedAttempt
  <2>1. ASSUME \A m \in AllMissions : \/ rep'[m] = rep[m] /\ mission'[m] = mission[m]
                                      \/ rep'[m] = mission'[m] /\ mission'[m].v = mission[m].v + 1
        PROVE  rep' = mission' /\ \A m \in AllMissions : mission'[m].v >= mission[m].v
    <3>1. \A m \in AllMissions : rep'[m] = mission'[m] /\ mission'[m].v >= mission[m].v
      BY <1>0, <1>2, <2>1, Numbers
    <3>. QED
      BY <2>0, <3>1
  <2>2. ASSUME NEW m \in Missions, RunMission(m)
        PROVE  rep' = mission' /\ \A n \in AllMissions : mission'[n].v >= mission[n].v
    <3>1. m \in AllMissions
      BY DEF AllMissions
    <3>. QED
      BY <1>0, <2>1, <2>2, <3>1, NewVersion DEF RunMission
  <2>3. CASE RunGaps
    <3>1. Gaps \in AllMissions
      BY DEF AllMissions
    <3>2. CASE UNCHANGED << rep, mission >>
      BY <2>1, <3>2
    <3>3. CASE ~ KeepsGaps
      BY <1>0, <2>1, <2>3, <3>1, <3>3, NewVersion DEF RunGaps
    <3>. QED
      BY <2>3, <3>2, <3>3 DEF RunGaps
  <2>4. CASE Augment
    BY <1>0, <1>2, <2>1, <2>4, Augments
  <2>5. CASE MissionsDone
    BY <2>1, <2>5 DEF MissionsDone, disk, attempt
  <2>. QED
    BY <2>2, <2>3, <2>4, <2>5
<1>4. Alone'
  BY <1>0, <1>1, NobodyWrites DEF KeepInv, Alone, Writing
<1>5. KnownVersions'
  BY <1>0, <1>1, <1>3, StillNotBeyond, Vectors DEF KeepInv, KnownVersions, NotBeyond
<1>6. Held'
  <2>1. \A s \in Stages, m \in AllMissions : usable[s].on[m] <= was[m].v /\ was[m].v <= rep'[m].v
    BY <1>0, <1>1, <1>2, <1>3, Numbers DEF KeepInv, Held, Early, Typed, TypedDisk, TypedAttempt, Report
  <2>. QED
    BY <1>0, <1>1, <2>1 DEF KeepInv, Held, Early
<1>7. Written'
  BY <1>0, <1>1 DEF KeepInv, Written, HasText, Early, After
<1>. QED
  BY <1>4, <1>5, <1>6, <1>7 DEF KeepInv

(* The tail begins: what is dropped is computed from other missions, since *)
(* one of them is newer now than anything that was on disk.                *)
LEMMA BeginTailKept ==
    ASSUME PaidInv, BeginTail, pc' # "idle"
    PROVE  KeepInv'
<1>0. Typed /\ Typed' /\ KeepInv /\ TailInv
  BY TailTypes DEF PaidInv, TailInv
<1>1. /\ pc = "tail" /\ pc' = "analyst"
      /\ usable' = IF TailDropped THEN NoStages ELSE usable
      /\ UNCHANGED << mission, stage, saved, status, was, rep, analyst, report, regen >>
  BY DEF BeginTail, Abandon, Forget
<1>2. Alone'
  BY <1>0, <1>1, NobodyWrites DEF KeepInv, Alone, Writing
<1>3. KnownVersions'
  BY <1>0, <1>1, NothingBeyond DEF KeepInv, KnownVersions, NotBeyond
<1>4. TailDropped => \E m \in AllMissions : rep[m].v > was[m].v
  <2>1. \A m \in AllMissions : was[m].v <= rep[m].v /\ Caught(m)
    BY <1>0, <1>1 DEF KeepInv, Held, Early, TailInv, RunsAgain, Stages
  <2>2. Versions(rep) # Versions(was) => \E m \in AllMissions : rep[m].v # was[m].v
    BY DEF Versions
  <2>. QED
    BY <1>0, <2>1, <2>2, Numbers DEF TailDropped, Caught
<1>5. \A s \in Stages : usable'[s] = stage[s] \/ stage[s].on # Versions(rep)
  <2>1. CASE TailDropped
    <3>1. PICK m \in AllMissions : rep[m].v > was[m].v
      BY <1>4, <2>1
    <3>2. \A s \in Stages : stage[s].on[m] <= was[m].v
      BY <1>0, <1>1 DEF KeepInv, Held, Early
    <3>3. Versions(rep)[m] = rep[m].v
      BY DEF Versions
    <3>4. \A s \in Stages : stage[s].on[m] # Versions(rep)[m]
      BY <1>0, <3>1, <3>2, <3>3, Numbers, VersionNumbers
    <3>. QED
      BY <3>4
  <2>2. CASE ~ TailDropped
    BY <1>0, <1>1, <2>2 DEF KeepInv, Held, Early
  <2>. QED
    BY <2>1, <2>2
<1>6. Held'
  BY <1>1, <1>5 DEF Held, SameOrOther, Early, Stages
<1>7. Written'
  BY <1>0, <1>1 DEF KeepInv, Written, HasText, After
<1>. QED
  BY <1>2, <1>3, <1>6, <1>7 DEF KeepInv

(* The analyst and the writer. *)
LEMMA StagesKept ==
    ASSUME PaidInv, RunAnalyst \/ Synthesize \/ RunWriter \/ KeepAnalyst, pc' # "idle"
    PROVE  KeepInv'
<1>0. Typed /\ Typed' /\ KeepInv
  BY TailTypes DEF PaidInv, TailInv
<1>1. /\ pc \in {"analyst", "analysed", "synthesis", "writer"}
      /\ pc' \in {"analysed", "synthesis", "writer", "written"}
      /\ UNCHANGED << mission, saved, status, rep, usable, regen >>
  BY DEF RunAnalyst, Synthesize, RunWriter, KeepAnalyst, disk, attempt, Abandon, Forget
<1>2. /\ stage'["report"] = stage["report"]
      /\ stage'["analyst"] = stage["analyst"] \/ stage'["analyst"].on = analyst.on
  BY <1>0, KeepsAnalyst DEF RunAnalyst, Synthesize, RunWriter, disk
<1>3. NotBeyond(Versions(rep)) /\ NotBeyond(Nothing)
  <2>1. rep = mission
    BY <1>0, <1>1 DEF KeepInv, KnownVersions
  <2>. QED
    BY <1>0, <2>1, Numbers DEF NotBeyond, Versions, Nothing
<1>4. NotBeyond(analyst'.on) /\ NotBeyond(report'.on)
  <2>1. /\ analyst'.on \in {analyst.on, usable["analyst"].on, Versions(rep)}
        /\ report'.on \in {report.on, usable["report"].on, Versions(rep), Nothing}
    BY <1>1 DEF RunAnalyst, Synthesize, RunWriter, KeepAnalyst, attempt, Abandon, Forget
  <2>. QED
    BY <1>0, <1>3, <2>1 DEF KeepInv, KnownVersions, Stages
<1>5. Alone'
  BY <1>0, <1>1, NobodyWrites DEF KeepInv, Alone, Writing
<1>6. KnownVersions'
  BY <1>0, <1>1, <1>2, <1>4 DEF KeepInv, KnownVersions, NotBeyond, Stages
<1>7. Held'
  <2>1. pc # "writer" \/ pc' = "written"
    BY DEF RunAnalyst, Synthesize, RunWriter, KeepAnalyst
  <2>2. pc' # "written" => SameOrOther("report")'
    BY <1>0, <1>1, <1>2 DEF KeepInv, Held, SameOrOther
  <2>. QED
    BY <1>1, <2>2 DEF Held, Early
<1>8. Written'
  <2>1. UNCHANGED report \/ pc' = "written"
    BY DEF RunAnalyst, Synthesize, RunWriter, KeepAnalyst, attempt, Abandon, Forget
  <2>2. ~ HasText
    BY <1>0, <1>1 DEF KeepInv, Written, After
  <2>. QED
    BY <1>0, <1>1, <2>1, <2>2 DEF KeepInv, Written, HasText, After
<1>. QED
  BY <1>5, <1>6, <1>7, <1>8 DEF KeepInv

(* The report's checkpoint, and the steps after it. *)
LEMMA AfterKept ==
    ASSUME PaidInv, KeepReport \/ StudyTail \/ EndTail, pc' # "idle"
    PROVE  KeepInv'
<1>0. Typed /\ Typed' /\ KeepInv
  BY TailTypes DEF PaidInv, TailInv
<1>1. /\ pc \in After /\ pc' \in {"slots", "end", "save"}
      /\ UNCHANGED << mission, saved, status, rep, usable, analyst, report, regen >>
  BY DEF KeepReport, StudyTail, EndTail, disk, attempt, Abandon, Forget, After
<1>2. \/ stage' = KeptReport
      \/ stage' = stage /\ (HasText => pc # "written")
  BY <1>1 DEF KeepReport, StudyTail, EndTail, disk, Abandon, Forget
<1>3. /\ stage'["analyst"] = stage["analyst"]
      /\ stage'["report"] = stage["report"] \/ stage'["report"].on = report.on
      /\ HasText => stage'["report"] = [st |-> "succeeded", on |-> report.on]
  BY <1>0, <1>2, KeepsReport DEF KeepInv, Written, Kept
<1>4. Alone'
  BY <1>0, <1>1, NobodyWrites DEF KeepInv, Alone, Writing, After
<1>5. KnownVersions'
  BY <1>0, <1>1, <1>3 DEF KeepInv, KnownVersions, NotBeyond, Stages, After
<1>6. Held'
  BY <1>1 DEF Held, Early
<1>7. Written'
  BY <1>0, <1>1, <1>3 DEF KeepInv, Written, Kept, HasText, After
<1>. QED
  BY <1>4, <1>5, <1>6, <1>7 DEF KeepInv

(* The endings of an attempt; none of them but a crash leaves a report     *)
(* that the writer returned off the disk.                                  *)
LEMMA EndingsKept ==
    ASSUME PaidInv, Typed', pc' = "idle", pc # "idle",
           BeginTail \/ KeepAnalyst \/ Synthesize \/ KeepReport \/ SaveResult
    PROVE  /\ KeepInv'
           /\ HasText => stage'["report"] = [st |-> "succeeded", on |-> report.on]
<1>0. Typed /\ KeepInv
  BY DEF PaidInv, TailInv
<1>1. Forget /\ UNCHANGED << mission, regen >>
  BY DEF BeginTail, KeepAnalyst, Synthesize, KeepReport, SaveResult, Abandon
<1>2. \A s \in Stages : stage'[s] = stage[s] \/ stage'[s].on \in {analyst.on, report.on}
  <2>1. CASE KeepAnalyst
    BY <1>0, <2>1, KeepsAnalyst DEF Stages
  <2>2. CASE ~ KeepAnalyst
    BY <1>1, <2>2 DEF BeginTail, Synthesize, KeepReport, SaveResult, Abandon
  <2>. QED
    BY <2>1, <2>2
<1>3. HasText => stage'["report"] = [st |-> "succeeded", on |-> report.on]
  <2>1. HasText => pc = "save" /\ stage' = stage
    BY <1>0 DEF KeepInv, Written, After, BeginTail, KeepAnalyst, Synthesize, KeepReport, SaveResult,
                Stopped, Honoured
  <2>. QED
    BY <1>0, <2>1 DEF KeepInv, Written, Kept
<1>. QED
  BY <1>1, <1>2, <1>3, ForgetKept

LEMMA CrashKept ==
    ASSUME PaidInv, Crash
    PROVE  KeepInv'
<1>0. Typed /\ KeepInv /\ Typed'
  BY Crashes DEF PaidInv, TailInv
<1>1. /\ UNCHANGED << mission, stage >> /\ \A g \in Regens : regen'[g].step # "writing"
      /\ pc' = "idle" /\ usable' = NoStages /\ report'.kind = "no"
      /\ analyst'.on = Nothing /\ report'.on = Nothing
  BY <1>0, Crashes, Forgets DEF disk
<1>2. Alone'
  BY <1>1 DEF Alone, Writing
<1>3. KnownVersions'
  BY <1>0, <1>1, NothingBeyond DEF KeepInv, KnownVersions, NotBeyond
<1>4. Held' /\ Written'
  BY <1>1 DEF Held, Written, Early, HasText, Texts
<1>. QED
  BY <1>2, <1>3, <1>4 DEF KeepInv

(* The requests that rewrite the report. *)
LEMMA RegenKept ==
    ASSUME PaidInv, ~ Overlap, NEW g \in Regens, RegenRead(g) \/ RegenWrite(g)
    PROVE  KeepInv'
<1>0. Typed /\ KeepInv
  BY DEF PaidInv, TailInv
<1>1. CASE RegenRead(g)
  <2>1. /\ pc = "idle" /\ \A h \in Regens : ~ Writing(h)
        /\ UNCHANGED << mission, stage, saved, status, pc, was, rep, usable, analyst, report >>
    BY <1>1 DEF RegenRead, disk, attempt
  <2>2. /\ regen'[g].step = "writing" /\ regen'[g].saw = saved.kind
        /\ \A h \in Regens \ {g} : regen'[h] = regen[h]
    BY <1>0, <1>1, Reads
  <2>3. Alone'
    BY <2>1, <2>2 DEF Alone, Writing
  <2>4. KnownVersions' /\ Held' /\ Written'
    BY <1>0, <2>1 DEF KeepInv, KnownVersions, NotBeyond, Held, SameOrOther, Written, Kept, HasText
  <2>. QED
    BY <2>3, <2>4 DEF KeepInv
<1>2. CASE RegenWrite(g)
  <2>1. /\ pc = "idle" /\ \A h \in Regens : Writing(h) => h = g
        /\ UNCHANGED << pc, was, rep, usable, analyst, report >>
    BY <1>0, <1>2, Writes DEF KeepInv, Alone, RegenWrite, attempt
  <2>2. /\ Typed' /\ regen'[g].step = "done" /\ \A h \in Regens \ {g} : regen'[h] = regen[h]
        /\ \A m \in AllMissions : mission'[m].v >= mission[m].v
        /\ stage'["report"] = stage["report"]
        /\ \/ stage'["analyst"] = stage["analyst"]
           \/ \A m \in AllMissions : stage'["analyst"].on[m] <= mission'[m].v
    BY <1>0, <1>2, Writes
  <2>3. Alone'
    BY <2>1, <2>2 DEF Alone, Writing
  <2>4. KnownVersions'
    <3>1. /\ \A s \in Stages, m \in AllMissions : /\ stage[s].on[m] <= mission'[m].v
                                                  /\ usable[s].on[m] <= mission'[m].v
          /\ \A m \in AllMissions : analyst.on[m] <= mission'[m].v /\ report.on[m] <= mission'[m].v
      BY <1>0, <2>2, StillNotBeyond, Vectors DEF KeepInv, KnownVersions
    <3>. QED
      BY <2>1, <2>2, <3>1 DEF KnownVersions, NotBeyond, Stages
  <2>5. Held' /\ Written'
    BY <1>0, <2>1 DEF KeepInv, Held, Written, Early, After, HasText
  <2>. QED
    BY <2>3, <2>4, <2>5 DEF KeepInv
<1>. QED
  BY <1>1, <1>2

LEMMA PaidStep == ~ Overlap /\ PaidInv /\ [Next]_vars => PaidInv'
<1>. SUFFICES ASSUME ~ Overlap, PaidInv, [Next]_vars PROVE PaidInv'
  OBVIOUS
<1>0. TailInv' /\ Typed' /\ KeepInv
  BY TailStep DEF PaidInv, TailInv
<1>. SUFFICES KeepInv'
  BY <1>0 DEF PaidInv
<1>1. CASE Start \/ (\E m \in Missions : RunMission(m)) \/ MissionsDone \/ RunGaps \/ Augment
  BY <1>1, StartKept, MissionsKept
<1>2. CASE pc' # "idle" /\ (BeginTail \/ RunAnalyst \/ KeepAnalyst \/ Synthesize \/ RunWriter
                              \/ KeepReport \/ StudyTail \/ EndTail)
  BY <1>2, BeginTailKept, StagesKept, AfterKept
<1>3. CASE pc' = "idle" /\ (BeginTail \/ KeepAnalyst \/ Synthesize \/ KeepReport \/ SaveResult)
  <2>1. pc # "idle"
    BY <1>3 DEF BeginTail, KeepAnalyst, Synthesize, KeepReport, SaveResult
  <2>. QED
    BY <1>0, <1>3, <2>1, EndingsKept
<1>4. CASE Crash
  BY <1>4, CrashKept
<1>5. CASE CancelRun \/ Rest \/ UNCHANGED vars
  BY <1>0, <1>5 DEF CancelRun, Rest, vars, disk, attempt, KeepInv, Alone, Writing, KnownVersions,
                    NotBeyond, Held, SameOrOther, Written, Kept, HasText
<1>6. ASSUME NEW g \in Regens, RegenRead(g) \/ RegenWrite(g) PROVE KeepInv'
  BY <1>6, RegenKept
<1>7. /\ RunAnalyst \/ RunWriter \/ StudyTail \/ EndTail => pc' # "idle"
      /\ SaveResult => pc' = "idle"
  BY DEF RunAnalyst, RunWriter, StudyTail, EndTail, SaveResult, Forget
<1>. QED
  BY <1>1, <1>2, <1>3, <1>4, <1>5, <1>6, <1>7 DEF Next

LEMMA PaidInit == Init => PaidInv
<1>. SUFFICES ASSUME Init PROVE PaidInv
  OBVIOUS
<1>1. Typed /\ TailInv
  BY TypeInit, TailInit
<1>2. KnownVersions
  BY <1>1, VersionNumbers DEF Init, KnownVersions, NotBeyond, NoStages, NoCheckpoint, Nothing
<1>3. Alone /\ Held /\ Written
  BY DEF Init, Alone, Writing, Held, Written, Early, HasText, Texts
<1>. QED
  BY <1>1, <1>2, <1>3 DEF PaidInv, KeepInv

(* Every mission that the tail works on has a report. *)
LEMMA AllReported ==
    ASSUME TailInv, pc \in Late
    PROVE  Versions(rep) # Nothing
<1>1. Gaps \in AllMissions /\ Caught(Gaps)
  BY DEF TailInv, RunsAgain, AllMissions
<1>2. rep[Gaps].v # 0
  BY <1>1, Numbers DEF TailInv, Caught, NeedsRun
<1>. QED
  BY <1>1, <1>2 DEF Versions, Nothing

LEMMA PaysForWhatLacks ==
    ASSUME PaidInv, [Next]_vars
    PROVE  /\ AnalystCalled =>
                /\ ~ (stage["analyst"].st = "succeeded" /\ stage["analyst"].on = Versions(rep))
                /\ halted = "no" /\ ~ early
           /\ WriterCalled =>
                /\ ~ (stage["report"].st = "succeeded" /\ stage["report"].on = Versions(rep))
                /\ halted = "no" /\ ~ early /\ analyst.how \notin {"down", "budget"}
<1>0. TailInv /\ KeepInv
  BY DEF PaidInv
<1>1. ASSUME AnalystCalled
      PROVE  /\ ~ (stage["analyst"].st = "succeeded" /\ stage["analyst"].on = Versions(rep))
             /\ halted = "no" /\ ~ early
  <2>1. RunAnalyst
    BY <1>1 DEF AnalystCalled, Next, vars, disk, attempt, Start, RunMission, MissionsDone, RunGaps,
                Augment, BeginTail, KeepAnalyst, Synthesize, RunWriter, KeepReport, StudyTail,
                EndTail, SaveResult, RegenRead, RegenWrite, CancelRun, Crash, Rest, Forget
  <2>2. ~ AnalystSaved /\ ~ early /\ halted = "no"
    BY <1>1, <2>1 DEF RunAnalyst, AnalystCalled, Calls, BudgetOk
  <2>3. usable["analyst"] = stage["analyst"] \/ stage["analyst"].on # Versions(rep)
    BY <1>0, <1>1 DEF KeepInv, Held, SameOrOther, AnalystCalled
  <2>. QED
    BY <2>2, <2>3 DEF AnalystSaved
<1>2. ASSUME WriterCalled
      PROVE  /\ ~ (stage["report"].st = "succeeded" /\ stage["report"].on = Versions(rep))
             /\ halted = "no" /\ ~ early /\ analyst.how \notin {"down", "budget"}
  <2>1. RunWriter
    BY <1>2 DEF WriterCalled, Next, vars, disk, attempt, Start, RunMission, MissionsDone, RunGaps,
                Augment, BeginTail, RunAnalyst, KeepAnalyst, Synthesize, KeepReport, StudyTail,
                EndTail, SaveResult, RegenRead, RegenWrite, CancelRun, Crash, Rest, Forget
  <2>2. report'.on # Nothing /\ ~ ReportSaved
    BY <1>0, <1>2, AllReported DEF WriterCalled, Late
  <2>3. ~ WriterBarred /\ BudgetOk
    BY <2>1, <2>2 DEF RunWriter
  <2>4. usable["report"] = stage["report"] \/ stage["report"].on # Versions(rep)
    BY <1>0, <1>2 DEF KeepInv, Held, SameOrOther, WriterCalled
  <2>. QED
    BY <2>2, <2>3, <2>4 DEF ReportSaved, WriterBarred, BudgetOk
<1>. QED
  BY <1>1, <1>2

(* What a run pays for, it lacks and may have: an analysis or a report     *)
(* whose checkpoint is of the missions the run has is never computed again, *)
(* and after a cap, the early halt or a failed analyst no later stage makes *)
(* a paid call. A rewriting request that overlaps the run may replace the  *)
(* analyst's checkpoint after the run has loaded its own.                  *)
THEOREM PaysForNothingTwice == ASSUME ~ Overlap PROVE Spec => NothingPaidInVain
<1>1. PaidInv /\ [Next]_vars => PaidInv'
  BY PaidStep
<1>2. PaidInv /\ [Next]_vars =>
        [/\ AnalystCalled =>
              /\ ~ (stage["analyst"].st = "succeeded" /\ stage["analyst"].on = Versions(rep))
              /\ halted = "no" /\ ~ early
         /\ WriterCalled =>
              /\ ~ (stage["report"].st = "succeeded" /\ stage["report"].on = Versions(rep))
              /\ halted = "no" /\ ~ early /\ analyst.how \notin {"down", "budget"}]_vars
  BY PaysForWhatLacks
<1>. QED
  BY <1>1, <1>2, PaidInit, PTL DEF Spec, NothingPaidInVain

LEMMA ReportSurvives ==
    ASSUME PaidInv, [Next]_vars, HasText, pc' = "idle", status' # "running"
    PROVE  stage'["report"] = [st |-> "succeeded", on |-> report.on]
<1>0. Typed /\ Typed' /\ KeepInv /\ pc \in After /\ status = "running"
  BY TypeStep DEF PaidInv, TailInv, KeepInv, Written, After
<1>1. BeginTail \/ KeepAnalyst \/ Synthesize \/ KeepReport \/ SaveResult
  BY <1>0 DEF After, Next, vars, disk, attempt, Start, RunMission, MissionsDone, RunGaps, Augment,
              RunAnalyst, RunWriter, StudyTail, EndTail, RegenRead, RegenWrite, CancelRun, Crash,
              Rest
<1>. QED
  BY <1>0, <1>1, EndingsKept DEF After

(* Neither a cancel nor the study tail nor a failing save throws away a    *)
(* report that the writer returned.                                        *)
THEOREM ReportsSurvive == ASSUME ~ Overlap PROVE Spec => ReportKept
<1>1. PaidInv /\ [Next]_vars => PaidInv'
  BY PaidStep
<1>2. PaidInv /\ [Next]_vars =>
        [HasText /\ pc' = "idle" /\ status' # "running" =>
            stage'["report"] = [st |-> "succeeded", on |-> report.on]]_vars
  BY ReportSurvives
<1>. QED
  BY <1>1, <1>2, PaidInit, PTL DEF Spec, ReportKept

LEMMA WholeSurvives ==
    ASSUME PaidInv, ~ Overlap, [Next]_vars, NEW g \in Regens, Writing(g),
           regen'[g].step = "done", saved.kind = "whole"
    PROVE  saved'.kind = "whole"
<1>0. /\ Typed /\ pc = "idle" /\ regen[g].saw = "whole" /\ regen[g].step = "writing"
      /\ \A h \in Regens : Writing(h) => h = g
  BY DEF PaidInv, TailInv, KeepInv, Alone, Writing
<1>1. (\E h \in Regens : RegenRead(h) \/ RegenWrite(h)) \/ Crash
  BY <1>0 DEF Next, vars, disk, attempt, Start, RunMission, MissionsDone, RunGaps, Augment,
              BeginTail, RunAnalyst, KeepAnalyst, Synthesize, RunWriter, KeepReport, StudyTail,
              EndTail, SaveResult, CancelRun, Rest
<1>2. CASE Crash
  BY <1>2 DEF Crash, disk
<1>3. ASSUME NEW h \in Regens, RegenRead(h) PROVE saved'.kind = "whole"
  BY <1>3 DEF RegenRead, disk
<1>4. ASSUME NEW h \in Regens, RegenWrite(h) PROVE saved'.kind = "whole"
  <2>1. h = g
    BY <1>0, <1>4 DEF RegenWrite
  <2>2. saved' = saved \/ ~ Worse(saved'.kind, "whole")
    BY <1>0, <1>4, <2>1, Writes
  <2>3. saved'.kind \in {"never", "none"} \cup Texts
    BY <1>0, TypeStep DEF Typed, TypedDisk, SavedType
  <2>4. saved'.kind # "never"
    BY <1>0, <1>4 DEF RegenWrite, disk, Texts
  <2>. QED
    BY <2>2, <2>3, <2>4 DEF Worse, Texts
<1>. QED
  BY <1>1, <1>2, <1>3, <1>4

(* H1: writing the report again never costs the row a complete report.     *)
(* Of two requests that read an incomplete one, or of one beside a run,    *)
(* the later to write knows nothing of what the other has written.         *)
THEOREM RegenLosesNoWhole == ASSUME ~ Overlap PROVE Spec => RegenKeepsWhole
<1>1. PaidInv /\ [Next]_vars => PaidInv'
  BY PaidStep
<1>2. PaidInv /\ [Next]_vars =>
        [\A g \in Regens : Writing(g) /\ regen'[g].step = "done" /\ saved.kind = "whole"
            => saved'.kind = "whole"]_vars
  BY WholeSurvives
<1>. QED
  BY <1>1, <1>2, PaidInit, PTL DEF Spec, RegenKeepsWhole

=============================================================================
