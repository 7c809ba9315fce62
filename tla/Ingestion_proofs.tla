-------------------------- MODULE Ingestion_proofs --------------------------
(***************************************************************************)
(* Type correctness of Ingestion and its safety properties, for every      *)
(* number of jobs, requests, plan contents, tries and deaths.              *)
(*                                                                         *)
(* The helpers that edit rows and jobs are typed first; then one lemma per *)
(* action, joined in TypeStep.  ReadyIsPublished and SuccessResetsRecover  *)
(* follow from inductive invariants of their own, ReadyInv and RecoverInv; *)
(* the properties of a source whose jobs did not overlap from SerialInv.   *)
(***************************************************************************)
EXTENDS Ingestion, TLAPS

LEMMA NullTypes ==
    /\ Blank \in SourceRow /\ NoPlan \in PlanRow
    /\ Idle \in Job /\ NoRequest \in Request
    /\ \A t \in Tasks : Queued(t) \in Job
<1>1. Blank \in SourceRow
  BY IngestionAssumption DEF Blank, SourceRow, Statuses, Phases
<1>2. NoPlan \in PlanRow
  BY DEF NoPlan, PlanRow, PlanJson, PlanStatuses, Drafts
<1>3. Idle \in Job
  BY <1>1, <1>2, IngestionAssumption DEF Idle, Job, Tasks, Points
<1>4. NoRequest \in Request
  BY <1>1 DEF NoRequest, Request
<1>5. \A t \in Tasks : Queued(t) \in Job
  BY <1>3 DEF Queued, Job, Points
<1> QED BY <1>1, <1>2, <1>3, <1>4, <1>5

LEMMA FlushType ==
    ASSUME source \in SourceRow, NEW view \in SourceRow, NEW new \in SourceRow
    PROVE  Flush(view, new) \in SourceRow
  BY DEF Flush, SourceRow

LEMMA FlushPlanType ==
    ASSUME plan \in PlanRow, NEW view \in PlanRow, NEW new \in PlanRow
    PROVE  FlushPlan(view, new) \in PlanRow
  BY DEF FlushPlan, PlanRow

LEMMA RowEdits ==
    ASSUME NEW row \in SourceRow
    PROVE  /\ \A s \in Statuses : [row EXCEPT !.status = s] \in SourceRow
           /\ \A p \in Phases : [row EXCEPT !.phase = p] \in SourceRow
           /\ \A s \in Statuses, n \in 0..RecoverCap :
                [row EXCEPT !.status = s, !.recover = n] \in SourceRow
  BY DEF SourceRow

LEMMA JobEdits ==
    ASSUME NEW e \in Job, NEW p \in Points
    PROVE  /\ [e EXCEPT !.at = p] \in Job
           /\ \A r \in SourceRow : [e EXCEPT !.at = p, !.sv = r] \in Job
           /\ \A q \in PlanRow : [e EXCEPT !.at = p, !.pv = q] \in Job
           /\ \A r \in SourceRow, q \in PlanRow :
                [e EXCEPT !.at = p, !.sv = r, !.pv = q] \in Job
  BY DEF Job

LEMMA JobFields ==
    ASSUME TypeOK, NEW j \in Jobs
    PROVE  job[j] \in Job /\ job[j].sv \in SourceRow /\ job[j].pv \in PlanRow
           /\ job[j].task \in Tasks /\ job[j].at \in Points
           /\ job[j].tries \in 0..(MaxTries - 1)
  BY DEF TypeOK, Job

\* the job table after one entry changed
LEMMA SetJob ==
    ASSUME TypeOK, NEW j, NEW e \in Job, job' = [job EXCEPT ![j] = e]
    PROVE  job' \in [Jobs -> Job]
  BY DEF TypeOK

LEMMA DeathsType == ASSUME TypeOK, Die PROVE deaths' \in 0..MaxDeaths
  BY IngestionAssumption DEF Die, TypeOK

\* the variables that the jobs, the requests and the reviewers write; the other
\* two follow from SweepsRest
CoreOK ==
    /\ source \in SourceRow /\ plan \in PlanRow
    /\ job \in [Jobs -> Job] /\ req \in [Clients -> Request]
    /\ published \subseteq Pages
    /\ approved \subseteq Contents \union {NoContent}
    /\ overlap \in BOOLEAN /\ deaths \in 0..MaxDeaths

\* CoreOK' with every variable typed on its own
LEMMA Assemble ==
    ASSUME source' \in SourceRow, plan' \in PlanRow, job' \in [Jobs -> Job],
           req' \in [Clients -> Request], published' \subseteq Pages,
           approved' \subseteq Contents \union {NoContent}, overlap' \in BOOLEAN,
           deaths' \in 0..MaxDeaths
    PROVE  CoreOK'
  BY DEF CoreOK, TypeOK

LEMMA DropType == ASSUME TypeOK, NEW j, Drop(j) PROVE job' \in [Jobs -> Job]
  BY NullTypes DEF Drop, TypeOK

LEMMA RequeuedType ==
    ASSUME TypeOK, NEW j \in Jobs
    PROVE  Requeued(j) \in [Jobs -> Job]
<1>1. [Queued(job[j].task) EXCEPT !.tries = job[j].tries + 1] \in Job
      \/ job[j].tries + 1 >= MaxTries
  BY JobFields, NullTypes, IngestionAssumption DEF Job
<1> QED BY <1>1, NullTypes DEF Requeued, CoreOK, TypeOK

LEMMA FinishType ==
    ASSUME TypeOK, NEW j \in Jobs, Finish(j)
    PROVE  job' \in [Jobs -> Job] /\ deaths' \in 0..MaxDeaths
<1>1. CASE Drop(j) /\ UNCHANGED deaths BY <1>1, DropType DEF TypeOK
<1>2. CASE Die /\ job' = Requeued(j) BY <1>2, DeathsType, RequeuedType
<1> QED BY <1>1, <1>2 DEF Finish

LEMMA ChainType ==
    ASSUME TypeOK, NEW j \in Jobs, NEW t \in Tasks, Chain(j, t)
    PROVE  /\ job' \in [Jobs -> Job] /\ deaths' \in 0..MaxDeaths
           /\ overlap' \in BOOLEAN
<1>1. CASE job' = [job EXCEPT ![j] = Queued(t)] /\ UNCHANGED <<overlap, deaths>>
  BY <1>1, NullTypes DEF TypeOK
<1>2. CASE Die /\ job' = Requeued(j) /\ UNCHANGED overlap
  BY <1>2, DeathsType, RequeuedType DEF TypeOK
<1>3. CASE Die /\ overlap' = TRUE
           /\ \E k \in Jobs : ~Alive(k) /\ job' = [Requeued(j) EXCEPT ![k] = Queued(t)]
  BY <1>3, DeathsType, RequeuedType, NullTypes
<1> QED BY <1>1, <1>2, <1>3 DEF Chain

LEMMA EnqueueType ==
    ASSUME TypeOK, NEW t \in Tasks, Enqueue(t)
    PROVE  job' \in [Jobs -> Job]
  BY NullTypes DEF Enqueue, TypeOK

LEMMA AdvanceType ==
    ASSUME TypeOK, NEW j \in Jobs, NEW new \in SourceRow, NEW p \in Points,
           Advance(j, new, p)
    PROVE  source' \in SourceRow /\ job' \in [Jobs -> Job]
<1>1. source' \in SourceRow BY FlushType, JobFields DEF Advance, TypeOK
<1>2. [job[j] EXCEPT !.at = p, !.sv = new] \in Job BY JobFields, JobEdits
<1> QED BY <1>1, <1>2, SetJob DEF Advance


LEMMA AskType ==
    ASSUME TypeOK, NEW c, NEW op \in {"upload", "retry", "extraction", "regenerate",
        "dept"},
           NEW seen \in SourceRow, Ask(c, op, seen)
    PROVE  req' \in [Clients -> Request] /\ overlap' \in BOOLEAN
<1>1. [op |-> op, seen |-> seen] \in Request BY DEF Request
<1>2. req' \in [Clients -> Request] BY <1>1 DEF Ask, TypeOK
<1> QED BY <1>2 DEF Ask, Begin, CoreOK, TypeOK

LEMMA AnswerType ==
    ASSUME TypeOK, NEW c, Answer(c)
    PROVE  req' \in [Clients -> Request]
  BY NullTypes DEF Answer, TypeOK

LEMMA SeenType ==
    ASSUME TypeOK, NEW c \in Clients
    PROVE  req[c].seen \in SourceRow
  BY DEF TypeOK, Request

LEMMA StartType ==
    ASSUME TypeOK, NEW j \in Jobs, NEW task, NEW p \in Points, Start(j, task, p)
    PROVE  CoreOK'
<1>1. source' \in SourceRow BY RowEdits DEF Start, TypeOK, Statuses
<1>2. [job[j] EXCEPT !.at = p, !.sv = source'] \in Job BY <1>1, JobFields, JobEdits
<1>3. job' \in [Jobs -> Job] BY <1>2, SetJob DEF Start
<1> QED BY <1>1, <1>3 DEF CoreOK, TypeOK, Start, UnchangedHistory

LEMMA StartExtractType == ASSUME TypeOK, NEW j \in Jobs, StartExtract(j) PROVE CoreOK'
  BY StartType DEF StartExtract, Points

LEMMA StartMapReduceType == ASSUME TypeOK, NEW j \in Jobs, StartMapReduce(j)
  PROVE CoreOK'
  BY StartType DEF StartMapReduce, Points

LEMMA StartRefineType == ASSUME TypeOK, NEW j \in Jobs, StartRefine(j) PROVE CoreOK'
  BY StartType DEF StartRefine, Points

LEMMA GateExtractionType == ASSUME TypeOK, NEW j \in Jobs, GateExtraction(j)
  PROVE CoreOK'
<1>1. [job[j].sv EXCEPT !.status = "awaiting_approval"] \in SourceRow
  BY JobFields, RowEdits DEF Statuses
<1>2. source' \in SourceRow
  BY <1>1, FlushType, JobFields DEF GateExtraction, TypeOK
<1>3. job' \in [Jobs -> Job] /\ deaths' \in 0..MaxDeaths
  BY FinishType DEF GateExtraction
<1> QED BY <1>1, <1>2, <1>3 DEF CoreOK, TypeOK, GateExtraction, UnchangedHistory

LEMMA AutoProceedType == ASSUME TypeOK, NEW j \in Jobs, AutoProceed(j) PROVE CoreOK'
<1>1. job' \in [Jobs -> Job] /\ deaths' \in 0..MaxDeaths /\ overlap' \in BOOLEAN
  BY ChainType DEF AutoProceed, Tasks, PostExtractionTasks
<1> QED BY <1>1 DEF CoreOK, TypeOK, AutoProceed, UnchangedHistory

LEMMA StartCaptionType == ASSUME TypeOK, NEW j \in Jobs, StartCaption(j) PROVE CoreOK'
<1>1. [job[j] EXCEPT !.at = "caption"] \in Job
  BY JobFields, JobEdits DEF Points
<1>2. job' \in [Jobs -> Job]
  BY <1>1, SetJob DEF StartCaption
<1> QED BY <1>1, <1>2 DEF CoreOK, TypeOK, StartCaption, UnchangedHistory

LEMMA SkipCaptionType == ASSUME TypeOK, NEW j \in Jobs, SkipCaption(j) PROVE CoreOK'
<1>1. source' \in SourceRow
  BY RowEdits DEF SkipCaption, TypeOK, Statuses
<1>2. job' \in [Jobs -> Job] /\ deaths' \in 0..MaxDeaths /\ overlap' \in BOOLEAN
  BY ChainType DEF SkipCaption, Tasks, PostExtractionTasks
<1> QED BY <1>1, <1>2 DEF CoreOK, TypeOK, SkipCaption, UnchangedHistory

LEMMA FinishCaptionType == ASSUME TypeOK, NEW j \in Jobs, FinishCaption(j) PROVE CoreOK'
<1>1. job' \in [Jobs -> Job] /\ deaths' \in 0..MaxDeaths /\ overlap' \in BOOLEAN
  BY ChainType DEF FinishCaption, Tasks, PostExtractionTasks
<1> QED BY <1>1 DEF CoreOK, TypeOK, FinishCaption, UnchangedHistory

LEMMA ResumeAtPlanType == ASSUME TypeOK, NEW j \in Jobs, ResumeAtPlan(j) PROVE CoreOK'
<1>1. [job[j] EXCEPT !.at = "plan", !.pv = plan] \in Job
  BY JobFields, JobEdits DEF Points, TypeOK
<1>2. job' \in [Jobs -> Job]
  BY <1>1, SetJob DEF ResumeAtPlan
<1> QED BY <1>1, <1>2 DEF CoreOK, TypeOK, ResumeAtPlan, UnchangedHistory

LEMMA SkipMapReduceType == ASSUME TypeOK, NEW j \in Jobs, SkipMapReduce(j) PROVE CoreOK'
<1>1. job' \in [Jobs -> Job] /\ deaths' \in 0..MaxDeaths
  BY FinishType DEF SkipMapReduce
<1> QED BY <1>1 DEF CoreOK, TypeOK, SkipMapReduce, UnchangedHistory

LEMMA StartMapType == ASSUME TypeOK, NEW j \in Jobs, StartMap(j) PROVE CoreOK'
<1> DEFINE new == [job[j].sv EXCEPT !.phase = "map"]
           pv == IF job[j].sv.phase = "plan_review" THEN plan ELSE NoPlan
<1>1. new \in SourceRow BY JobFields, RowEdits DEF Phases
<1>2. pv \in PlanRow BY NullTypes DEF TypeOK
<1>3. source' \in SourceRow BY <1>1, FlushType, JobFields DEF TypeOK, StartMap
<1>4. [job[j] EXCEPT !.at = "map", !.sv = new, !.pv = pv] \in Job
  BY <1>1, <1>2, JobFields, JobEdits DEF Points
<1>5. job' \in [Jobs -> Job] BY <1>4, SetJob DEF StartMap
<1> QED BY <1>3, <1>5 DEF CoreOK, TypeOK, StartMap, UnchangedHistory

LEMMA FinishMapType == ASSUME TypeOK, NEW j \in Jobs, FinishMap(j) PROVE CoreOK'
<1>1. [job[j].sv EXCEPT !.phase = "reduce"] \in SourceRow
  BY JobFields, RowEdits DEF Phases
<1>2. source' \in SourceRow /\ job' \in [Jobs -> Job]
  BY <1>1, AdvanceType DEF FinishMap, Points
<1> QED BY <1>1, <1>2 DEF CoreOK, TypeOK, FinishMap, UnchangedHistory

LEMMA ReduceType == ASSUME TypeOK, NEW j \in Jobs, Reduce(j) PROVE CoreOK'
<1> DEFINE old == IF job[j].pv.status = "none" THEN plan ELSE job[j].pv
           new(k) == [status |-> "pending_review",
                      json |-> [content |-> k, drafts |-> "none"]]
           row == [job[j].sv EXCEPT !.phase = "plan_review"]
<1>1. PICK k \in Contents :
        /\ plan' = IF plan.status = "none" THEN new(k) ELSE FlushPlan(old, new(k))
        /\ source' = Flush(job[j].sv, row)
        /\ job' = [job EXCEPT ![j] =
                     [@ EXCEPT !.at = "plan", !.sv = row, !.pv = new(k)]]
  BY DEF Reduce
<1>2. new(k) \in PlanRow BY DEF PlanRow, PlanJson, PlanStatuses, Drafts
<1>3. old \in PlanRow BY JobFields DEF TypeOK
<1>4. row \in SourceRow BY JobFields, RowEdits DEF Phases
<1> HIDE DEF new, old, row
<1>5. plan' \in PlanRow BY <1>1, <1>2, <1>3, FlushPlanType DEF TypeOK
<1>6. source' \in SourceRow BY <1>1, <1>4, FlushType, JobFields DEF TypeOK
<1>7. [job[j] EXCEPT !.at = "plan", !.sv = row, !.pv = new(k)] \in Job
  BY <1>2, <1>4, JobFields, JobEdits DEF Points
<1>8. job' \in [Jobs -> Job] BY <1>1, <1>7, SetJob
<1> QED BY <1>5, <1>6, <1>8 DEF CoreOK, TypeOK, Reduce, UnchangedHistory

LEMMA AwaitReviewType == ASSUME TypeOK, NEW j \in Jobs, AwaitReview(j) PROVE CoreOK'
<1>a. 0 \in 0..RecoverCap BY IngestionAssumption
<1>1. [job[j].sv EXCEPT !.status = "plan_ready", !.recover = 0] \in SourceRow
  BY <1>a, JobFields, RowEdits DEF Statuses
<1>2. source' \in SourceRow
  BY <1>1, FlushType, JobFields DEF AwaitReview, TypeOK
<1>3. job' \in [Jobs -> Job] /\ deaths' \in 0..MaxDeaths
  BY FinishType DEF AwaitReview
<1> QED BY <1>1, <1>2, <1>3 DEF CoreOK, TypeOK, AwaitReview, UnchangedHistory

LEMMA AutoTriggerRefineType == ASSUME TypeOK, NEW j \in Jobs, AutoTriggerRefine(j)
  PROVE CoreOK'
<1>1. source' \in SourceRow
  BY RowEdits DEF AutoTriggerRefine, TypeOK, Statuses
<1>2. plan' \in PlanRow
  BY DEF AutoTriggerRefine, TypeOK, PlanRow, PlanStatuses
<1>3. approved' \subseteq Contents \union {NoContent}
  BY DEF AutoTriggerRefine, TypeOK, PlanRow, PlanJson
<1>4. job' \in [Jobs -> Job] /\ deaths' \in 0..MaxDeaths /\ overlap' \in BOOLEAN
  BY ChainType DEF AutoTriggerRefine, Tasks, PostExtractionTasks
<1> QED BY <1>1, <1>2, <1>3, <1>4 DEF CoreOK, TypeOK, AutoTriggerRefine, UnchangedHistory

LEMMA RefuseUnapprovedType == ASSUME TypeOK, NEW j \in Jobs, RefuseUnapproved(j)
  PROVE CoreOK'
<1>1. source' \in SourceRow
  BY RowEdits DEF RefuseUnapproved, TypeOK, Statuses
<1>2. job' \in [Jobs -> Job] /\ deaths' \in 0..MaxDeaths
  BY FinishType DEF RefuseUnapproved
<1> QED BY <1>1, <1>2 DEF CoreOK, TypeOK, RefuseUnapproved, UnchangedHistory

LEMMA BeginRefineType == ASSUME TypeOK, NEW j \in Jobs, BeginRefine(j) PROVE CoreOK'
<1>1. [job[j].sv EXCEPT !.phase = "refine"] \in SourceRow
  BY JobFields, RowEdits DEF Phases
<1>2. source' \in SourceRow
  BY <1>1, FlushType, JobFields DEF TypeOK, BeginRefine
<1>3. plan' \in PlanRow
  BY DEF BeginRefine, TypeOK, PlanRow, PlanStatuses
<1>4. [job[j] EXCEPT !.at = "write", !.sv = [job[j].sv EXCEPT !.phase = "refine"],
                     !.pv = plan'] \in Job
  BY <1>1, <1>3, JobFields, JobEdits DEF Points
<1>5. job' \in [Jobs -> Job]
  BY <1>4, SetJob DEF BeginRefine
<1> QED BY <1>1, <1>2, <1>3, <1>4, <1>5 DEF CoreOK, TypeOK, BeginRefine, UnchangedHistory

LEMMA ResumeDraftsType == ASSUME TypeOK, NEW j \in Jobs, ResumeDrafts(j) PROVE CoreOK'
<1> DEFINE found == plan.json.drafts # "none"
           row == [job[j].sv EXCEPT !.phase = IF found THEN "verify" ELSE "refine"]
           p == IF found THEN "commit" ELSE "write"
<1>1. row \in SourceRow BY JobFields, RowEdits DEF Phases
<1>2. p \in Points BY DEF Points
<1>3. /\ source' = Flush(job[j].sv, row)
      /\ job' = [job EXCEPT ![j] = [@ EXCEPT !.at = p, !.sv = row, !.pv = plan]]
  BY DEF ResumeDrafts
<1> HIDE DEF row, p
<1>4. source' \in SourceRow BY <1>1, <1>3, FlushType, JobFields DEF TypeOK
<1>5. [job[j] EXCEPT !.at = p, !.sv = row, !.pv = plan] \in Job
  BY <1>1, <1>2, JobFields, JobEdits DEF TypeOK
<1>6. job' \in [Jobs -> Job] BY <1>3, <1>5, SetJob
<1> QED BY <1>4, <1>6 DEF CoreOK, TypeOK, ResumeDrafts, UnchangedHistory

LEMMA WriteDraftType == ASSUME TypeOK, NEW j \in Jobs, WriteDraft(j) PROVE CoreOK'
<1>1. PICK d \in {"some", "all"} :
        /\ job' = [job EXCEPT ![j].pv.json.drafts = d]
        /\ plan' = [plan EXCEPT !.json = [job[j].pv.json EXCEPT !.drafts = d]]
  BY DEF WriteDraft
<1> DEFINE with == [job[j].pv.json EXCEPT !.drafts = d]
           entry == [job[j] EXCEPT !.pv.json.drafts = d]
<1>2. with \in PlanJson BY JobFields DEF PlanRow, PlanJson, Drafts
<1>3. plan' \in PlanRow BY <1>1, <1>2 DEF TypeOK, PlanRow
<1>4. entry \in Job BY <1>2, JobFields DEF Job, PlanRow
<1>5. job' = [job EXCEPT ![j] = entry] BY <1>1
<1> HIDE DEF entry
<1>6. job' \in [Jobs -> Job] BY <1>4, <1>5, SetJob
<1> QED BY <1>3, <1>6 DEF CoreOK, TypeOK, WriteDraft, UnchangedHistory

LEMMA FinishRefineType == ASSUME TypeOK, NEW j \in Jobs, FinishRefine(j) PROVE CoreOK'
<1>1. [job[j].sv EXCEPT !.phase = "verify"] \in SourceRow
  BY JobFields, RowEdits DEF Phases
<1>2. source' \in SourceRow /\ job' \in [Jobs -> Job]
  BY <1>1, AdvanceType DEF FinishRefine, Points
<1> QED BY <1>1, <1>2 DEF CoreOK, TypeOK, FinishRefine, UnchangedHistory

LEMMA CommitType == ASSUME TypeOK, NEW j \in Jobs, Commit(j) PROVE CoreOK'
<1>1. [status |-> "ready", phase |-> "commit", recover |-> 0] \in SourceRow
  BY IngestionAssumption DEF SourceRow, Statuses, Phases
<1>2. [job[j].pv EXCEPT !.status = "done"] \in PlanRow
  BY JobFields DEF PlanRow, PlanStatuses
<1>3. source' \in SourceRow BY <1>1, FlushType, JobFields DEF Commit, TypeOK
<1>4. plan' \in PlanRow BY <1>2, FlushPlanType, JobFields DEF Commit, TypeOK
<1>5. published' \subseteq Pages
  BY JobFields DEF Commit, TypeOK, PlanRow, PlanJson, Pages
<1>6. job' \in [Jobs -> Job] /\ deaths' \in 0..MaxDeaths BY FinishType DEF Commit
<1> QED BY <1>3, <1>4, <1>5, <1>6 DEF CoreOK, TypeOK, Commit, UnchangedHistory

LEMMA StartRegenerateType == ASSUME TypeOK, NEW j \in Jobs, StartRegenerate(j)
  PROVE CoreOK'
<1>1. [job[j] EXCEPT !.at = "regen", !.pv = plan] \in Job
  BY JobFields, JobEdits DEF Points, TypeOK
<1>2. job' \in [Jobs -> Job]
  BY <1>1, SetJob DEF StartRegenerate
<1> QED BY <1>1, <1>2 DEF CoreOK, TypeOK, StartRegenerate, UnchangedHistory

LEMMA FinishRegenerateType == ASSUME TypeOK, NEW j \in Jobs, FinishRegenerate(j)
  PROVE CoreOK'
<1>1. \A k \in Contents : [status |-> "pending_review",
                         json |-> [content |-> k, drafts |-> "none"]] \in PlanRow
  BY DEF PlanRow, PlanJson, PlanStatuses, Drafts
<1>2. plan' \in PlanRow
  BY <1>1, FlushPlanType, JobFields DEF FinishRegenerate, TypeOK
<1>3. job' \in [Jobs -> Job] /\ deaths' \in 0..MaxDeaths
  BY FinishType DEF FinishRegenerate
<1> QED BY <1>1, <1>2, <1>3 DEF CoreOK, TypeOK, FinishRegenerate, UnchangedHistory

LEMMA FailRegenerateType == ASSUME TypeOK, NEW j \in Jobs, FailRegenerate(j)
  PROVE CoreOK'
<1>1. plan' \in PlanRow
  BY DEF FailRegenerate, TypeOK, PlanRow, PlanStatuses
<1>2. job' \in [Jobs -> Job] /\ deaths' \in 0..MaxDeaths
  BY FinishType DEF FailRegenerate
<1> QED BY <1>1, <1>2 DEF CoreOK, TypeOK, FailRegenerate, UnchangedHistory

LEMMA FailType == ASSUME TypeOK, NEW j \in Jobs, Fail(j) PROVE CoreOK'
<1>1. source' \in SourceRow
  BY RowEdits DEF Fail, TypeOK, Statuses
<1>2. job' \in [Jobs -> Job] /\ deaths' \in 0..MaxDeaths
  BY FinishType DEF Fail
<1> QED BY <1>1, <1>2 DEF CoreOK, TypeOK, Fail, UnchangedHistory

LEMMA OrphanType == ASSUME TypeOK, NEW j \in Jobs, Orphan(j) PROVE CoreOK'
<1>1. job' \in [Jobs -> Job]
  BY DropType DEF Orphan
<1> QED BY <1>1 DEF CoreOK, TypeOK, Orphan, UnchangedHistory

LEMMA CancelSilentlyType == ASSUME TypeOK, NEW j \in Jobs, CancelSilently(j)
  PROVE CoreOK'
<1>1. job' \in [Jobs -> Job] /\ deaths' \in 0..MaxDeaths
  BY DropType, DeathsType DEF CancelSilently
<1> QED BY <1>1 DEF CoreOK, TypeOK, CancelSilently

LEMMA ShutdownType == ASSUME TypeOK, NEW j \in Jobs, Shutdown(j) PROVE CoreOK'
<1>1. source' \in SourceRow
  BY RowEdits DEF Shutdown, TypeOK, Statuses
<1>2. job' \in [Jobs -> Job] /\ deaths' \in 0..MaxDeaths
  BY RequeuedType, DeathsType DEF Shutdown
<1> QED BY <1>1, <1>2 DEF CoreOK, TypeOK, Shutdown

LEMMA KillType == ASSUME TypeOK, NEW j \in Jobs, Kill(j) PROVE CoreOK'
<1>1. job' \in [Jobs -> Job] /\ deaths' \in 0..MaxDeaths
  BY RequeuedType, DeathsType DEF Kill
<1> QED BY <1>1 DEF CoreOK, TypeOK, Kill

LEMMA DeferIntakeType == ASSUME TypeOK, NEW j \in Jobs, DeferIntake(j) PROVE CoreOK'
<1>1. /\ job' \in [Jobs -> Job] /\ deaths' \in 0..MaxDeaths
      /\ overlap' \in BOOLEAN
  <2>1. CASE Finish(j) /\ UNCHANGED overlap BY <2>1, FinishType DEF TypeOK
  <2>2. CASE Chain(j, job[j].task) BY <2>2, ChainType, JobFields
  <2>3. CASE Die /\ Drop(j) /\ UNCHANGED overlap
    BY <2>3, DeathsType, DropType DEF TypeOK
  <2> QED BY <2>1, <2>2, <2>3 DEF DeferIntake
<1> QED BY <1>1 DEF CoreOK, TypeOK, DeferIntake

LEMMA UploadType == ASSUME TypeOK, NEW c \in Clients, Upload(c) PROVE CoreOK'
<1>1. source' \in SourceRow
  BY RowEdits DEF Upload, TypeOK, Statuses
<1>2. req' \in [Clients -> Request] /\ overlap' \in BOOLEAN
  BY AskType, NullTypes DEF Upload
<1> QED BY <1>1, <1>2 DEF CoreOK, TypeOK, Upload, UnchangedHistory

LEMMA EnqueueUploadType == ASSUME TypeOK, NEW c \in Clients, EnqueueUpload(c)
  PROVE CoreOK'
<1>1. job' \in [Jobs -> Job]
  BY EnqueueType DEF EnqueueUpload, Tasks
<1>2. req' \in [Clients -> Request]
  BY AnswerType DEF EnqueueUpload
<1> QED BY <1>1, <1>2 DEF CoreOK, TypeOK, EnqueueUpload, UnchangedHistory

LEMMA BeginRetryType == ASSUME TypeOK, NEW c \in Clients, BeginRetry(c) PROVE CoreOK'
<1>1. req' \in [Clients -> Request] /\ overlap' \in BOOLEAN
  BY AskType DEF BeginRetry, TypeOK
<1> QED BY <1>1 DEF CoreOK, TypeOK, BeginRetry, UnchangedHistory

LEMMA WriteRetryType == ASSUME TypeOK, NEW c \in Clients, WriteRetry(c) PROVE CoreOK'
<1>1. [req[c].seen EXCEPT !.status = "pending"] \in SourceRow
  BY SeenType, RowEdits DEF Statuses
<1>2. source' \in SourceRow
  BY <1>1, SeenType, FlushType DEF WriteRetry, TypeOK
<1>3. job' \in [Jobs -> Job]
  BY EnqueueType DEF WriteRetry, RetryTask, Tasks
<1>4. req' \in [Clients -> Request]
  BY AnswerType DEF WriteRetry
<1> QED BY <1>1, <1>2, <1>3, <1>4 DEF CoreOK, TypeOK, WriteRetry, UnchangedHistory

LEMMA BeginApproveExtractionType ==
  ASSUME TypeOK, NEW c \in Clients, BeginApproveExtraction(c) PROVE CoreOK'
<1>1. job' \in [Jobs -> Job]
  BY EnqueueType DEF BeginApproveExtraction, PostExtractionTasks, Tasks
<1>2. req' \in [Clients -> Request] /\ overlap' \in BOOLEAN
  BY AskType DEF BeginApproveExtraction, TypeOK
<1> QED BY <1>1, <1>2 DEF CoreOK, TypeOK, BeginApproveExtraction, UnchangedHistory

LEMMA WriteApproveExtractionType ==
  ASSUME TypeOK, NEW c \in Clients, WriteApproveExtraction(c) PROVE CoreOK'
<1>1. [req[c].seen EXCEPT !.status = "processing"] \in SourceRow
  BY SeenType, RowEdits DEF Statuses
<1>2. source' \in SourceRow
  BY <1>1, SeenType, FlushType DEF WriteApproveExtraction, TypeOK
<1>3. req' \in [Clients -> Request]
  BY AnswerType DEF WriteApproveExtraction
<1> QED BY <1>1, <1>2, <1>3 DEF CoreOK, TypeOK, WriteApproveExtraction, UnchangedHistory

LEMMA RegeneratePlanType == ASSUME TypeOK, NEW c \in Clients, RegeneratePlan(c)
  PROVE CoreOK'
<1>1. plan' \in PlanRow
  BY DEF RegeneratePlan, TypeOK, PlanRow, PlanStatuses
<1>2. req' \in [Clients -> Request] /\ overlap' \in BOOLEAN
  BY AskType, NullTypes DEF RegeneratePlan
<1> QED BY <1>1, <1>2 DEF CoreOK, TypeOK, RegeneratePlan, UnchangedHistory

LEMMA EnqueueRegenerateType == ASSUME TypeOK, NEW c \in Clients, EnqueueRegenerate(c)
  PROVE CoreOK'
<1>1. job' \in [Jobs -> Job]
  BY EnqueueType DEF EnqueueRegenerate, Tasks
<1>2. req' \in [Clients -> Request]
  BY AnswerType DEF EnqueueRegenerate
<1> QED BY <1>1, <1>2 DEF CoreOK, TypeOK, EnqueueRegenerate, UnchangedHistory

LEMMA BeginDeptChangeType == ASSUME TypeOK, NEW c \in Clients, BeginDeptChange(c)
  PROVE CoreOK'
<1>1. req' \in [Clients -> Request] /\ overlap' \in BOOLEAN
  BY AskType DEF BeginDeptChange, TypeOK
<1> QED BY <1>1 DEF CoreOK, TypeOK, BeginDeptChange, UnchangedHistory

LEMMA WriteDeptChangeType == ASSUME TypeOK, NEW c \in Clients, WriteDeptChange(c)
  PROVE CoreOK'
<1>1. [req[c].seen EXCEPT !.status = "processing"] \in SourceRow
  BY SeenType, RowEdits DEF Statuses
<1>2. source' \in SourceRow
  BY <1>1, SeenType, FlushType DEF WriteDeptChange, TypeOK
<1>3. job' \in [Jobs -> Job]
  BY EnqueueType DEF WriteDeptChange, Tasks
<1>4. req' \in [Clients -> Request]
  BY AnswerType DEF WriteDeptChange
<1> QED BY <1>1, <1>2, <1>3, <1>4 DEF CoreOK, TypeOK, WriteDeptChange, UnchangedHistory

LEMMA LoseCommitType == ASSUME TypeOK, NEW c \in Clients, LoseCommit(c) PROVE CoreOK'
<1>1. job' \in [Jobs -> Job]
  BY EnqueueType DEF LoseCommit, RetryTask, Tasks
<1>2. req' \in [Clients -> Request] /\ deaths' \in 0..MaxDeaths
  BY AnswerType, DeathsType DEF LoseCommit
<1> QED BY <1>1, <1>2 DEF CoreOK, TypeOK, LoseCommit

LEMMA DropRequestType == ASSUME TypeOK, NEW c \in Clients, DropRequest(c) PROVE CoreOK'
<1>1. req' \in [Clients -> Request]
  BY AnswerType DEF DropRequest
<1>2. deaths' \in 0..MaxDeaths
  BY DeathsType DEF TypeOK, DropRequest
<1> QED BY <1>1, <1>2 DEF CoreOK, TypeOK, DropRequest

LEMMA ApprovePlanType == ASSUME TypeOK, ApprovePlan PROVE CoreOK'
<1>1. source' \in SourceRow
  BY RowEdits DEF ApprovePlan, TypeOK, Statuses
<1>2. plan' \in PlanRow
  BY DEF ApprovePlan, TypeOK, PlanRow, PlanStatuses
<1>3. approved' \subseteq Contents \union {NoContent}
  BY DEF ApprovePlan, TypeOK, PlanRow, PlanJson
<1>4. job' \in [Jobs -> Job]
  BY EnqueueType DEF ApprovePlan, Tasks
<1>5. overlap' \in BOOLEAN
  BY DEF ApprovePlan, Begin, TypeOK
<1> QED BY <1>1, <1>2, <1>3, <1>4, <1>5 DEF CoreOK, TypeOK, ApprovePlan, UnchangedHistory

LEMMA LoseApprovalType == ASSUME TypeOK, LoseApproval PROVE CoreOK'
<1>1. job' \in [Jobs -> Job]
  BY EnqueueType DEF LoseApproval, Tasks
<1>2. overlap' \in BOOLEAN /\ deaths' \in 0..MaxDeaths
  BY DeathsType DEF LoseApproval, Begin, TypeOK
<1> QED BY <1>1, <1>2 DEF CoreOK, TypeOK, LoseApproval

LEMMA RejectPlanType == ASSUME TypeOK, RejectPlan PROVE CoreOK'
<1>1. source' \in SourceRow
  BY RowEdits DEF RejectPlan, TypeOK, Statuses
<1>2. plan' \in PlanRow
  BY DEF RejectPlan, TypeOK, PlanRow, PlanStatuses
<1> QED BY <1>1, <1>2 DEF CoreOK, TypeOK, RejectPlan, UnchangedHistory

LEMMA RemoveRowType == ASSUME TypeOK, RemoveRow, published' \subseteq Pages
  PROVE CoreOK'
<1>1. source' \in SourceRow BY NullTypes, RowEdits DEF RemoveRow, Statuses
<1>2. plan' \in PlanRow BY NullTypes DEF RemoveRow
<1> QED BY <1>1, <1>2 DEF CoreOK, TypeOK, RemoveRow, UnchangedHistory

LEMMA DeleteSourceType == ASSUME TypeOK, DeleteSource PROVE CoreOK'
  BY RemoveRowType DEF DeleteSource

-----------------------------------------------------------------------------
(* Type correctness of every step *)

\* a step that is not a sweep's keeps the other two variables typed
LEMMA SweepsRestType == ASSUME TypeOK, SweepsRest, CoreOK' PROVE TypeOK'
  BY DEF TypeOK, CoreOK, SweepsRest

LEMMA SelectType == ASSUME TypeOK, SelectStuck \/ SelectOrphan PROVE TypeOK'
<1>1. selected' = selected \union {Selection(source)}
  BY DEF SelectStuck, SelectOrphan
<1>2. Selection(source) \in Selections
  BY DEF SelectStuck, SelectOrphan, Selection, Selections, TypeOK, SourceRow
<1> QED BY <1>1, <1>2 DEF TypeOK, SelectStuck, SelectOrphan, UnchangedHistory

LEMMA SweepStuckProcessingType == ASSUME TypeOK, SweepStuckProcessing PROVE TypeOK'
<1>1. PICK row \in selected :
        /\ source' = [source EXCEPT !.status = "error",
                        !.recover = IF row.recover < RecoverCap
                                    THEN row.recover + 1 ELSE row.recover]
        /\ selected' = selected \ {row}
  BY DEF SweepStuckProcessing
<1>2. row.recover \in 0..RecoverCap BY DEF TypeOK, Selections
<1>3. (IF row.recover < RecoverCap THEN row.recover + 1 ELSE row.recover)
        \in 0..RecoverCap
  BY <1>2, IngestionAssumption
<1>4. source' \in SourceRow BY <1>1, <1>3, RowEdits DEF TypeOK, Statuses
<1> QED BY <1>1, <1>4 DEF TypeOK, SweepStuckProcessing, UnchangedHistory

LEMMA CleanupOrphanType == ASSUME TypeOK, CleanupOrphan PROVE TypeOK'
<1>1. CoreOK' BY RemoveRowType DEF CleanupOrphan, TypeOK
<1> QED BY <1>1 DEF CleanupOrphan, CoreOK, TypeOK

LEMMA DropSelectionType == ASSUME TypeOK, DropSelection PROVE TypeOK'
  BY DeathsType DEF DropSelection, TypeOK

LEMMA TypeStep == TypeOK /\ [Next]_vars => TypeOK'
<1> SUFFICES ASSUME TypeOK, [Next]_vars PROVE TypeOK' OBVIOUS
<1>1. ASSUME NEW j \in Jobs, JobStep(j) PROVE TypeOK'
  <2>1. CoreOK'
    BY <1>1,
       StartExtractType, GateExtractionType, AutoProceedType, StartCaptionType,
       SkipCaptionType, FinishCaptionType, StartMapReduceType, ResumeAtPlanType,
       SkipMapReduceType, StartMapType, FinishMapType, ReduceType,
       AwaitReviewType, AutoTriggerRefineType, StartRefineType,
       RefuseUnapprovedType, BeginRefineType, ResumeDraftsType, WriteDraftType,
       FinishRefineType, CommitType, StartRegenerateType, FinishRegenerateType,
       FailRegenerateType, FailType, OrphanType
    DEF JobStep
  <2> QED BY <1>1, <2>1, SweepsRestType DEF JobStep
<1>2. ASSUME NEW j \in Jobs, JobTrouble(j) PROVE TypeOK'
  BY <1>2, CancelSilentlyType, ShutdownType, KillType, DeferIntakeType, SweepsRestType
  DEF JobTrouble
<1>3. ASSUME NEW c \in Clients, RequestStep(c) PROVE TypeOK'
  BY <1>3,
     EnqueueUploadType, WriteRetryType, WriteApproveExtractionType,
     EnqueueRegenerateType, WriteDeptChangeType, LoseCommitType,
     DropRequestType, SweepsRestType
  DEF RequestStep
<1>4. ASSUME NEW c \in Clients, UserStep(c) PROVE TypeOK'
  BY <1>4,
     UploadType, BeginRetryType, BeginApproveExtractionType,
     RegeneratePlanType, BeginDeptChangeType, SweepsRestType
  DEF UserStep
<1>5. CASE PlanStep
  BY <1>5, ApprovePlanType, LoseApprovalType, RejectPlanType, DeleteSourceType,
     SweepsRestType
  DEF PlanStep
<1>6. CASE StuckSweep \/ OrphanSweep
  BY <1>6, SelectType, SweepStuckProcessingType, CleanupOrphanType, DropSelectionType
  DEF StuckSweep, OrphanSweep
<1>7. CASE UNCHANGED vars BY <1>7 DEF vars, TypeOK
<1> QED BY <1>1, <1>2, <1>3, <1>4, <1>5, <1>6, <1>7 DEF Next

LEMMA TypeInit == Init => TypeOK
<1> SUFFICES ASSUME Init PROVE TypeOK OBVIOUS
<1>1. source \in SourceRow /\ plan \in PlanRow BY NullTypes DEF Init
<1>2. job \in [Jobs -> Job] BY NullTypes DEF Init
<1>3. req \in [Clients -> Request] BY NullTypes DEF Init
<1>4. deaths \in 0..MaxDeaths BY IngestionAssumption DEF Init
<1> QED BY <1>1, <1>2, <1>3, <1>4 DEF Init, TypeOK

\* Every reachable state has well-typed rows, jobs and requests; in
\* particular no job is tried more than MaxTries times.
THEOREM TypeCorrect == Spec => []TypeOK
<1> QED BY TypeInit, TypeStep, PTL DEF Spec

-----------------------------------------------------------------------------
(* A ready source is published *)

\* the department handler goes on only with a source it saw ready
DeptSawReady ==
    \A c \in Clients : req[c].op = "dept" => req[c].seen.status = "ready"

ReadyInv == TypeOK /\ DeptSawReady /\ ReadyIsPublished

LEMMA ReadyStep == ASSUME ReadyInv, [Next]_vars PROVE ReadyIsPublished' /\ DeptSawReady'
<1> USE DEF ReadyInv, ReadyIsPublished, DeptSawReady
<1>0. req \in [Clients -> Request] BY DEF TypeOK
<1>1. ASSUME NEW j \in Jobs, JobStep(j) PROVE ReadyIsPublished' /\ DeptSawReady'
<2>1. CASE StartExtract(j) BY <2>1, <1>0 DEF StartExtract, Start
<2>2. CASE GateExtraction(j) BY <2>2, <1>0 DEF GateExtraction, Flush
<2>3. CASE AutoProceed(j) BY <2>3, <1>0 DEF AutoProceed
<2>4. CASE StartCaption(j) BY <2>4, <1>0 DEF StartCaption
<2>5. CASE SkipCaption(j) BY <2>5, <1>0 DEF SkipCaption
<2>6. CASE FinishCaption(j) BY <2>6, <1>0 DEF FinishCaption
<2>7. CASE StartMapReduce(j) BY <2>7, <1>0 DEF StartMapReduce, Start
<2>8. CASE ResumeAtPlan(j) BY <2>8, <1>0 DEF ResumeAtPlan
<2>9. CASE SkipMapReduce(j) BY <2>9, <1>0 DEF SkipMapReduce
<2>10. CASE StartMap(j) BY <2>10, <1>0 DEF StartMap, Flush
<2>11. CASE FinishMap(j) BY <2>11, <1>0 DEF FinishMap, Advance, Flush
<2>12. CASE Reduce(j) BY <2>12, <1>0 DEF Reduce, Flush
<2>13. CASE AwaitReview(j) BY <2>13, <1>0 DEF AwaitReview, Flush
<2>14. CASE AutoTriggerRefine(j) BY <2>14, <1>0 DEF AutoTriggerRefine
<2>15. CASE StartRefine(j) BY <2>15, <1>0 DEF StartRefine, Start
<2>16. CASE RefuseUnapproved(j) BY <2>16, <1>0 DEF RefuseUnapproved
<2>17. CASE BeginRefine(j) BY <2>17, <1>0 DEF BeginRefine, Flush
<2>18. CASE ResumeDrafts(j) BY <2>18, <1>0 DEF ResumeDrafts, Flush
<2>19. CASE WriteDraft(j) BY <2>19, <1>0 DEF WriteDraft
<2>20. CASE FinishRefine(j) BY <2>20, <1>0 DEF FinishRefine, Advance, Flush
<2>21. CASE Commit(j) BY <2>21, <1>0 DEF Commit, Flush
<2>22. CASE StartRegenerate(j) BY <2>22, <1>0 DEF StartRegenerate
<2>23. CASE FinishRegenerate(j) BY <2>23, <1>0 DEF FinishRegenerate
<2>24. CASE FailRegenerate(j) BY <2>24, <1>0 DEF FailRegenerate
<2>25. CASE Fail(j) BY <2>25, <1>0 DEF Fail
<2>26. CASE Orphan(j) BY <2>26, <1>0 DEF Orphan
<2> QED
  BY <1>1, <2>1, <2>2, <2>3, <2>4, <2>5, <2>6, <2>7, <2>8, <2>9, <2>10, <2>11, <2>12,
     <2>13, <2>14, <2>15, <2>16, <2>17, <2>18, <2>19, <2>20, <2>21, <2>22, <2>23,
     <2>24, <2>25, <2>26 DEF JobStep
<1>2. ASSUME NEW j \in Jobs, JobTrouble(j) PROVE ReadyIsPublished' /\ DeptSawReady'
<2>1. CASE CancelSilently(j) BY <2>1, <1>0 DEF CancelSilently
<2>2. CASE Shutdown(j) BY <2>2, <1>0 DEF Shutdown
<2>3. CASE Kill(j) BY <2>3, <1>0 DEF Kill
<2>4. CASE DeferIntake(j) BY <2>4, <1>0 DEF DeferIntake
<2> QED BY <1>2, <2>1, <2>2, <2>3, <2>4 DEF JobTrouble
<1>3. ASSUME NEW c \in Clients,
   RequestStep(c) PROVE ReadyIsPublished' /\ DeptSawReady'
<2>1. CASE EnqueueUpload(c)
  BY <2>1, <1>0 DEF EnqueueUpload, Asked, Answer, NoRequest, Blank
<2>2. CASE WriteRetry(c)
  BY <2>2, <1>0 DEF WriteRetry, Asked, Flush, Answer, NoRequest, Blank
<2>3. CASE WriteApproveExtraction(c)
  BY <2>3, <1>0 DEF WriteApproveExtraction, Asked, Flush, Answer, NoRequest, Blank
<2>4. CASE EnqueueRegenerate(c)
  BY <2>4, <1>0 DEF EnqueueRegenerate, Asked, Answer, NoRequest, Blank
<2>5. CASE WriteDeptChange(c)
  BY <2>5, <1>0 DEF WriteDeptChange, Asked, Flush, Answer, NoRequest, Blank
<2>6. CASE LoseCommit(c) BY <2>6, <1>0 DEF LoseCommit, Answer, NoRequest, Blank
<2>7. CASE DropRequest(c) BY <2>7, <1>0 DEF DropRequest, Answer, NoRequest, Blank
<2> QED BY <1>3, <2>1, <2>2, <2>3, <2>4, <2>5, <2>6, <2>7 DEF RequestStep
<1>4. ASSUME NEW c \in Clients, UserStep(c) PROVE ReadyIsPublished' /\ DeptSawReady'
<2>1. CASE Upload(c) BY <2>1, <1>0 DEF Upload, Ask, Blank
<2>2. CASE BeginRetry(c) BY <2>2, <1>0 DEF BeginRetry, Ask
<2>3. CASE BeginApproveExtraction(c) BY <2>3, <1>0 DEF BeginApproveExtraction, Ask
<2>4. CASE RegeneratePlan(c) BY <2>4, <1>0 DEF RegeneratePlan, Ask, Blank
<2>5. CASE BeginDeptChange(c) BY <2>5, <1>0 DEF BeginDeptChange, Ask
<2> QED BY <1>4, <2>1, <2>2, <2>3, <2>4, <2>5 DEF UserStep
<1>5. CASE PlanStep
  <2>1. CASE ApprovePlan BY <2>1, <1>0 DEF ApprovePlan
  <2>2. CASE LoseApproval BY <2>2, <1>0 DEF LoseApproval
  <2>3. CASE RejectPlan BY <2>3, <1>0 DEF RejectPlan
  <2>4. CASE DeleteSource BY <2>4, <1>0 DEF DeleteSource, RemoveRow, Blank
  <2> QED BY <1>5, <2>1, <2>2, <2>3, <2>4 DEF PlanStep
<1>6. CASE SelectStuck \/ SelectOrphan \/ DropSelection
  BY <1>6, <1>0 DEF SelectStuck, SelectOrphan, DropSelection
<1>7. CASE SweepStuckProcessing BY <1>7, <1>0 DEF SweepStuckProcessing
<1>8. CASE CleanupOrphan BY <1>8, <1>0 DEF CleanupOrphan, RemoveRow, Blank
<1>9. CASE UNCHANGED vars BY <1>9 DEF vars
<1> QED BY <1>1, <1>2, <1>3, <1>4, <1>5, <1>6, <1>7, <1>8, <1>9
  DEF Next, StuckSweep, OrphanSweep

\* A source shown as ready has pages in the wiki, whatever jobs and department
\* changes race, for any number of jobs, requests and plan contents.  The
\* strengthening DeptSawReady is what makes the department handler's flush
\* take the status "ready" away when it detaches the pages.
THEOREM ReadyPublished == Spec => []ReadyIsPublished
<1>1. Init => ReadyInv
  BY TypeInit DEF Init, ReadyInv, DeptSawReady, ReadyIsPublished, Blank, NoRequest
<1>2. ReadyInv /\ [Next]_vars => ReadyInv' BY TypeStep, ReadyStep DEF ReadyInv
<1>3. ReadyInv => ReadyIsPublished BY DEF ReadyInv
<1> QED BY <1>1, <1>2, <1>3, PTL DEF Spec

-----------------------------------------------------------------------------
(* Success resets the recovery count *)

PipelinePoints == {"extract", "resume", "map", "reduce", "plan", "load",
                   "write", "commit"}

\* only the tasks the sweep's cutoff knows of hold a copy of the source row
TaskAtPoint ==
    \A j \in Jobs : job[j].at \in PipelinePoints => job[j].task \in PipelineTasks

\* what such a job holds in memory is the count of the row, unless another job
\* reset the row to 0 since, and no sweep is about to write the row; or the job
\* started after the sweep selected the row
RecoverSeen ==
    \A j \in Jobs : job[j].at \in PipelinePoints
      => \/ j \in late
         \/ ~StuckSelected /\ source.recover \in {0, job[j].sv.recover}

RecoverInv == TypeOK /\ TaskAtPoint /\ RecoverSeen

\* what a job is doing when it holds a copy of the row it holds since before
Quiet == \A k \in Jobs : job'[k].at \in PipelinePoints => job'[k] = job[k]

\* putting jobs on the queue or taking them off lets none into the pipeline
LEMMA QuietEnqueue == ASSUME TypeOK, NEW t, Enqueue(t) PROVE Quiet
  BY DEF TypeOK, Enqueue, Queued, Idle, Quiet, PipelinePoints

LEMMA QuietMoves ==
    ASSUME TypeOK, NEW j \in Jobs
    PROVE  /\ Drop(j) => Quiet
           /\ job' = Requeued(j) => Quiet
           /\ \A t : Chain(j, t) => Quiet
           /\ Finish(j) => Quiet
<1>0. job \in [Jobs -> Job] BY DEF TypeOK
<1>1. \A t : Queued(t).at = "queued" /\ Idle.at = "free" BY DEF Queued, Idle
<1>2. \A t, n : [Queued(t) EXCEPT !.tries = n].at = "queued" BY DEF Queued, Idle
<1> USE DEF Quiet, PipelinePoints
<1>3. Drop(j) => Quiet BY <1>0, <1>1 DEF Drop
<1>4. /\ Requeued(j) \in [Jobs -> Job]
      /\ \A k \in Jobs : Requeued(j)[k].at \in PipelinePoints
                           => Requeued(j)[k] = job[k]
  BY <1>0, <1>1, <1>2, RequeuedType DEF Requeued
<1>5. job' = Requeued(j) => Quiet BY <1>4
<1>6. ASSUME NEW t, Chain(j, t) PROVE Quiet
  <2> HIDE DEF Quiet
  <2>1. CASE job' = [job EXCEPT ![j] = Queued(t)] BY <2>1, <1>0, <1>1 DEF Quiet
  <2>2. CASE \E k \in Jobs : job' = [Requeued(j) EXCEPT ![k] = Queued(t)]
    BY <2>2, <1>4, <1>1 DEF Quiet
  <2> QED BY <1>5, <1>6, <2>1, <2>2 DEF Chain
<1> QED BY <1>3, <1>5, <1>6 DEF Finish

\* a step that moves no job into the pipeline and leaves the count alone, or
\* resets it, keeps the invariant
LEMMA QuietKeeps ==
    ASSUME TaskAtPoint, RecoverSeen, Quiet, SweepsRest,
           source'.recover \in {0, source.recover}
    PROVE  TaskAtPoint' /\ RecoverSeen'
  BY DEF TaskAtPoint, RecoverSeen, Quiet, SweepsRest, StuckSelected, PipelinePoints

\* so does a job that starts with the count of the row, and one that goes on
\* with the count it holds
LEMMA MoveKeeps ==
    ASSUME TypeOK, TaskAtPoint, RecoverSeen, SweepsRest, NEW j \in Jobs,
           \A k \in Jobs \ {j} : job'[k] = job[k],
           job'[j].task = job[j].task, source'.recover = source.recover,
           job'[j].at \in PipelinePoints =>
             \/ /\ job[j].at = "queued" /\ job[j].task \in PipelineTasks
                /\ job'[j].sv.recover = source.recover
             \/ /\ job[j].at \in PipelinePoints
                /\ job'[j].sv.recover = job[j].sv.recover
    PROVE  TaskAtPoint' /\ RecoverSeen'
<1>1. TaskAtPoint' BY DEF TaskAtPoint
<1>2. \A k \in Jobs : job'[k].at \in PipelinePoints /\ k \in late => k \in late'
  BY DEF SweepsRest, PipelinePoints
<1>3. StuckSelected' = StuckSelected BY DEF SweepsRest, StuckSelected
<1>4. ASSUME NEW k \in Jobs \ {j}, job'[k].at \in PipelinePoints
      PROVE  \/ k \in late'
             \/ ~StuckSelected' /\ source'.recover \in {0, job'[k].sv.recover}
  BY <1>2, <1>3, <1>4 DEF RecoverSeen
<1>5. ASSUME job'[j].at \in PipelinePoints
      PROVE  \/ j \in late'
             \/ ~StuckSelected' /\ source'.recover \in {0, job'[j].sv.recover}
  <2>1. CASE job[j].at = "queued" /\ job[j].task \in PipelineTasks
    BY <1>3, <1>5, <2>1 DEF SweepsRest, PipelinePoints, Running
  <2>2. CASE job[j].at \in PipelinePoints /\ job'[j].sv.recover = job[j].sv.recover
    BY <1>2, <1>3, <1>5, <2>2 DEF RecoverSeen
  <2> QED BY <1>5, <2>1, <2>2
<1> QED BY <1>1, <1>4, <1>5 DEF RecoverSeen

LEMMA RecoverStep == ASSUME RecoverInv, [Next]_vars PROVE TaskAtPoint' /\ RecoverSeen'
<1> USE DEF RecoverInv
<1>0. job \in [Jobs -> Job] BY DEF TypeOK
<1>1. ASSUME NEW j \in Jobs, JobStep(j) PROVE TaskAtPoint' /\ RecoverSeen'
<2>0. SweepsRest BY <1>1 DEF JobStep
<2>1. CASE StartExtract(j)
  BY <2>1, <2>0, <1>0, MoveKeeps, JobFields DEF StartExtract, Start, PipelinePoints,
     PipelineTasks
<2>2. CASE GateExtraction(j)
  BY <2>2, <2>0, QuietMoves, QuietKeeps, JobFields DEF GateExtraction, Flush
<2>3. CASE AutoProceed(j) BY <2>3, <2>0, QuietMoves, QuietKeeps DEF AutoProceed
<2>4. CASE StartCaption(j)
  BY <2>4, <2>0, <1>0, MoveKeeps, JobFields DEF StartCaption, PipelinePoints,
     PipelineTasks
<2>5. CASE SkipCaption(j) BY <2>5, <2>0, QuietMoves, QuietKeeps DEF SkipCaption
<2>6. CASE FinishCaption(j) BY <2>6, <2>0, QuietMoves, QuietKeeps DEF FinishCaption
<2>7. CASE StartMapReduce(j)
  BY <2>7, <2>0, <1>0, MoveKeeps, JobFields DEF StartMapReduce, Start, PipelinePoints,
     PipelineTasks
<2>8. CASE ResumeAtPlan(j)
  BY <2>8, <2>0, <1>0, MoveKeeps, JobFields DEF ResumeAtPlan, PipelinePoints,
     PipelineTasks
<2>9. CASE SkipMapReduce(j) BY <2>9, <2>0, QuietMoves, QuietKeeps DEF SkipMapReduce
<2>10. CASE StartMap(j)
  BY <2>10, <2>0, <1>0, MoveKeeps, JobFields DEF StartMap, Flush, PipelinePoints,
     PipelineTasks
<2>11. CASE FinishMap(j)
  BY <2>11, <2>0, <1>0, MoveKeeps, JobFields DEF FinishMap, Advance, Flush, PipelinePoints,
     PipelineTasks
<2>12. CASE Reduce(j)
  BY <2>12, <2>0, <1>0, MoveKeeps, JobFields DEF Reduce, Flush, PipelinePoints,
     PipelineTasks
<2>13. CASE AwaitReview(j)
  BY <2>13, <2>0, QuietMoves, QuietKeeps, JobFields DEF AwaitReview, Flush
<2>14. CASE AutoTriggerRefine(j) BY <2>14, <2>0, QuietMoves,
   QuietKeeps DEF AutoTriggerRefine
<2>15. CASE StartRefine(j)
  BY <2>15, <2>0, <1>0, MoveKeeps, JobFields DEF StartRefine, Start, PipelinePoints,
     PipelineTasks
<2>16. CASE RefuseUnapproved(j) BY <2>16, <2>0, QuietMoves, QuietKeeps DEF RefuseUnapproved
<2>17. CASE BeginRefine(j)
  BY <2>17, <2>0, <1>0, MoveKeeps, JobFields DEF BeginRefine, Flush, PipelinePoints,
     PipelineTasks
<2>18. CASE ResumeDrafts(j)
  BY <2>18, <2>0, <1>0, MoveKeeps, JobFields DEF ResumeDrafts, Flush, PipelinePoints,
     PipelineTasks
<2>19. CASE WriteDraft(j)
  BY <2>19, <2>0, <1>0, MoveKeeps, JobFields DEF WriteDraft, PipelinePoints,
     PipelineTasks
<2>20. CASE FinishRefine(j)
  BY <2>20, <2>0, <1>0, MoveKeeps, JobFields DEF FinishRefine, Advance, Flush, PipelinePoints,
     PipelineTasks
<2>21. CASE Commit(j) BY <2>21, <2>0, QuietMoves, QuietKeeps, JobFields DEF Commit, Flush
<2>22. CASE StartRegenerate(j)
  BY <2>22, <2>0, <1>0, MoveKeeps, JobFields DEF StartRegenerate, PipelinePoints,
     PipelineTasks
<2>23. CASE FinishRegenerate(j) BY <2>23, <2>0, QuietMoves, QuietKeeps DEF FinishRegenerate
<2>24. CASE FailRegenerate(j) BY <2>24, <2>0, QuietMoves, QuietKeeps DEF FailRegenerate
<2>25. CASE Fail(j) BY <2>25, <2>0, QuietMoves, QuietKeeps DEF Fail
<2>26. CASE Orphan(j) BY <2>26, <2>0, QuietMoves, QuietKeeps DEF Orphan
<2> QED
  BY <1>1, <2>1, <2>2, <2>3, <2>4, <2>5, <2>6, <2>7, <2>8, <2>9, <2>10, <2>11, <2>12,
     <2>13, <2>14, <2>15, <2>16, <2>17, <2>18, <2>19, <2>20, <2>21, <2>22, <2>23,
     <2>24, <2>25, <2>26 DEF JobStep
<1>2. ASSUME NEW j \in Jobs, JobTrouble(j) PROVE TaskAtPoint' /\ RecoverSeen'
<2>0. SweepsRest BY <1>2 DEF JobTrouble
<2>1. CASE CancelSilently(j) BY <2>1, <2>0, QuietMoves, QuietKeeps DEF CancelSilently
<2>2. CASE Shutdown(j) BY <2>2, <2>0, QuietMoves, QuietKeeps DEF Shutdown
<2>3. CASE Kill(j) BY <2>3, <2>0, QuietMoves, QuietKeeps DEF Kill
<2>4. CASE DeferIntake(j) BY <2>4, <2>0, QuietMoves, QuietKeeps DEF DeferIntake
<2> QED BY <1>2, <2>1, <2>2, <2>3, <2>4 DEF JobTrouble
<1>3. ASSUME NEW c \in Clients, RequestStep(c) PROVE TaskAtPoint' /\ RecoverSeen'
<2>0. SweepsRest BY <1>3 DEF RequestStep
<2>1. CASE EnqueueUpload(c) BY <2>1, <2>0, QuietEnqueue, QuietKeeps DEF EnqueueUpload
<2>2. CASE WriteRetry(c)
  BY <2>2, <2>0, QuietEnqueue, QuietKeeps, SeenType DEF WriteRetry, Flush
<2>3. CASE WriteApproveExtraction(c)
  BY <2>3, <2>0, QuietKeeps, SeenType DEF WriteApproveExtraction, Flush, Quiet
<2>4. CASE EnqueueRegenerate(c) BY <2>4, <2>0, QuietEnqueue,
   QuietKeeps DEF EnqueueRegenerate
<2>5. CASE WriteDeptChange(c)
  BY <2>5, <2>0, QuietEnqueue, QuietKeeps, SeenType DEF WriteDeptChange, Flush
<2>6. CASE LoseCommit(c) BY <2>6, <2>0, QuietEnqueue, QuietKeeps DEF LoseCommit
<2>7. CASE DropRequest(c) BY <2>7, <2>0, QuietKeeps DEF DropRequest, Quiet
<2> QED BY <1>3, <2>1, <2>2, <2>3, <2>4, <2>5, <2>6, <2>7 DEF RequestStep
<1>4. ASSUME NEW c \in Clients, UserStep(c) PROVE TaskAtPoint' /\ RecoverSeen'
<2>0. SweepsRest BY <1>4 DEF UserStep
<2>1. CASE Upload(c) BY <2>1, <2>0, QuietKeeps DEF Upload, Blank, Quiet
<2>2. CASE BeginRetry(c) BY <2>2, <2>0, QuietKeeps DEF BeginRetry, Quiet
<2>3. CASE BeginApproveExtraction(c)
  BY <2>3, <2>0, QuietEnqueue, QuietKeeps DEF BeginApproveExtraction
<2>4. CASE RegeneratePlan(c) BY <2>4, <2>0, QuietKeeps DEF RegeneratePlan, Blank, Quiet
<2>5. CASE BeginDeptChange(c) BY <2>5, <2>0, QuietKeeps DEF BeginDeptChange, Quiet
<2> QED BY <1>4, <2>1, <2>2, <2>3, <2>4, <2>5 DEF UserStep
<1>5. ASSUME PlanStep PROVE TaskAtPoint' /\ RecoverSeen'
<2>0. SweepsRest BY <1>5 DEF PlanStep
<2>1. CASE ApprovePlan BY <2>0, <2>1, QuietEnqueue, QuietKeeps DEF ApprovePlan
<2>2. CASE LoseApproval BY <2>0, <2>2, QuietEnqueue, QuietKeeps DEF LoseApproval
<2>3. CASE RejectPlan BY <2>0, <2>3, QuietKeeps DEF RejectPlan, Quiet
<2>4. CASE DeleteSource
  BY <2>0, <2>4, QuietKeeps DEF DeleteSource, RemoveRow, Blank, Quiet
<2> QED BY <1>5, <2>1, <2>2, <2>3, <2>4 DEF PlanStep
<1>6. CASE SelectStuck
  <2>1. \A j \in Jobs : job[j].at \notin PipelinePoints
    BY <1>6 DEF SelectStuck, Stale, Running, TaskAtPoint, PipelinePoints
  <2> QED BY <1>6, <2>1 DEF SelectStuck, TaskAtPoint, RecoverSeen
<1>7. CASE SelectOrphan
  <2>1. StuckSelected' = StuckSelected
    BY <1>7 DEF SelectOrphan, Selection, StuckSelected
  <2> QED BY <1>7, <2>1 DEF SelectOrphan, TaskAtPoint, RecoverSeen, UnchangedHistory
<1>8. CASE SweepStuckProcessing
  <2>1. StuckSelected BY <1>8 DEF SweepStuckProcessing, StuckSelected
  <2> QED BY <1>8, <2>1 DEF SweepStuckProcessing, TaskAtPoint, RecoverSeen
<1>9. CASE CleanupOrphan
  <2>1. StuckSelected' => StuckSelected BY <1>9 DEF CleanupOrphan, StuckSelected
  <2> QED BY <1>9, <2>1
    DEF CleanupOrphan, RemoveRow, Blank, TaskAtPoint, RecoverSeen
<1>10. CASE DropSelection
  BY <1>10 DEF DropSelection, StuckSelected, TaskAtPoint, RecoverSeen
<1>11. CASE UNCHANGED vars
  BY <1>11 DEF vars, StuckSelected, TaskAtPoint, RecoverSeen
<1> QED BY <1>1, <1>2, <1>3, <1>4, <1>5, <1>6, <1>7, <1>8, <1>9, <1>10, <1>11
  DEF Next, StuckSweep, OrphanSweep

\* The recovery count a source shows when it becomes plan_ready or ready is 0,
\* although the flush skips the column when the job had loaded 0: the sweep
\* selects no row that a running job holds, because its cutoff is above the
\* job timeout (Stale).  Excepted are jobs that start between the SELECT and
\* the UPDATE of a sweep.  For any number of jobs, requests, tries and deaths.
THEOREM SuccessResets == Spec => SuccessResetsRecover
<1> DEFINE A == source'.status \in {"ready", "plan_ready"}
                  /\ source'.status # source.status
                    => source'.recover = 0 \/ late # {}
<1>1. Init => RecoverInv
  BY TypeInit DEF Init, RecoverInv, TaskAtPoint, RecoverSeen, PipelinePoints, Idle
<1>2. RecoverInv /\ [Next]_vars => RecoverInv' BY TypeStep, RecoverStep DEF RecoverInv
<1>3. ASSUME RecoverInv, [Next]_vars PROVE [A]_vars
  <2>0. RecoverSeen BY <1>3 DEF RecoverInv
  <2> USE DEF RecoverSeen
  <2>1. ASSUME NEW j \in Jobs, JobStep(j) PROVE A
    <3>1. CASE StartExtract(j) BY <3>1 DEF StartExtract, Start
    <3>2. CASE GateExtraction(j) BY <3>2 DEF GateExtraction, Flush
    <3>3. CASE AutoProceed(j) BY <3>3 DEF AutoProceed
    <3>4. CASE StartCaption(j) BY <3>4 DEF StartCaption
    <3>5. CASE SkipCaption(j) BY <3>5 DEF SkipCaption
    <3>6. CASE FinishCaption(j) BY <3>6 DEF FinishCaption
    <3>7. CASE StartMapReduce(j) BY <3>7 DEF StartMapReduce, Start
    <3>8. CASE ResumeAtPlan(j) BY <3>8 DEF ResumeAtPlan
    <3>9. CASE SkipMapReduce(j) BY <3>9 DEF SkipMapReduce
    <3>10. CASE StartMap(j) BY <3>10 DEF StartMap, Flush
    <3>11. CASE FinishMap(j) BY <3>11 DEF FinishMap, Advance, Flush
    <3>12. CASE Reduce(j) BY <3>12 DEF Reduce, Flush
    <3>13. CASE AwaitReview(j) BY <3>13, <2>0 DEF PipelinePoints, AwaitReview, Flush
    <3>14. CASE AutoTriggerRefine(j) BY <3>14 DEF AutoTriggerRefine
    <3>15. CASE StartRefine(j) BY <3>15 DEF StartRefine, Start
    <3>16. CASE RefuseUnapproved(j) BY <3>16 DEF RefuseUnapproved
    <3>17. CASE BeginRefine(j) BY <3>17 DEF BeginRefine, Flush
    <3>18. CASE ResumeDrafts(j) BY <3>18 DEF ResumeDrafts, Flush
    <3>19. CASE WriteDraft(j) BY <3>19 DEF WriteDraft
    <3>20. CASE FinishRefine(j) BY <3>20 DEF FinishRefine, Advance, Flush
    <3>21. CASE Commit(j) BY <3>21, <2>0 DEF PipelinePoints, Commit, Flush
    <3>22. CASE StartRegenerate(j) BY <3>22 DEF StartRegenerate
    <3>23. CASE FinishRegenerate(j) BY <3>23 DEF FinishRegenerate
    <3>24. CASE FailRegenerate(j) BY <3>24 DEF FailRegenerate
    <3>25. CASE Fail(j) BY <3>25 DEF Fail
    <3>26. CASE Orphan(j) BY <3>26 DEF Orphan
    <3> QED
      BY <2>1, <3>1, <3>2, <3>3, <3>4, <3>5, <3>6, <3>7, <3>8, <3>9, <3>10, <3>11,
         <3>12, <3>13, <3>14, <3>15, <3>16, <3>17, <3>18, <3>19, <3>20, <3>21, <3>22,
         <3>23, <3>24, <3>25, <3>26 DEF JobStep
  <2>2. ASSUME NEW j \in Jobs, JobTrouble(j) PROVE A
    <3>1. CASE CancelSilently(j) BY <3>1 DEF CancelSilently
    <3>2. CASE Shutdown(j) BY <3>2 DEF Shutdown
    <3>3. CASE Kill(j) BY <3>3 DEF Kill
    <3>4. CASE DeferIntake(j) BY <3>4 DEF DeferIntake
    <3> QED BY <2>2, <3>1, <3>2, <3>3, <3>4 DEF JobTrouble
  <2>3. ASSUME NEW c \in Clients, RequestStep(c) PROVE A
    <3>1. CASE EnqueueUpload(c) BY <3>1 DEF EnqueueUpload
    <3>2. CASE WriteRetry(c) BY <3>2 DEF WriteRetry, Flush
    <3>3. CASE WriteApproveExtraction(c) BY <3>3 DEF WriteApproveExtraction, Flush
    <3>4. CASE EnqueueRegenerate(c) BY <3>4 DEF EnqueueRegenerate
    <3>5. CASE WriteDeptChange(c) BY <3>5 DEF WriteDeptChange, Flush
    <3>6. CASE LoseCommit(c) BY <3>6 DEF LoseCommit
    <3>7. CASE DropRequest(c) BY <3>7 DEF DropRequest
    <3> QED BY <2>3, <3>1, <3>2, <3>3, <3>4, <3>5, <3>6, <3>7 DEF RequestStep
  <2>4. ASSUME NEW c \in Clients, UserStep(c) PROVE A
    <3>1. CASE Upload(c) BY <3>1 DEF Upload, Blank
    <3>2. CASE BeginRetry(c) BY <3>2 DEF BeginRetry
    <3>3. CASE BeginApproveExtraction(c) BY <3>3 DEF BeginApproveExtraction
    <3>4. CASE RegeneratePlan(c) BY <3>4 DEF RegeneratePlan, Blank
    <3>5. CASE BeginDeptChange(c) BY <3>5 DEF BeginDeptChange
    <3> QED BY <2>4, <3>1, <3>2, <3>3, <3>4, <3>5 DEF UserStep
  <2>5. CASE PlanStep
    <3>1. CASE ApprovePlan BY <3>1 DEF ApprovePlan
    <3>2. CASE LoseApproval BY <3>2 DEF LoseApproval
    <3>3. CASE RejectPlan BY <3>3 DEF RejectPlan
    <3>4. CASE DeleteSource BY <3>4 DEF DeleteSource, RemoveRow, Blank
    <3> QED BY <2>5, <3>1, <3>2, <3>3, <3>4 DEF PlanStep
  <2>6. CASE StuckSweep
    <3>1. CASE SelectStuck BY <3>1 DEF SelectStuck
    <3>2. CASE SweepStuckProcessing BY <3>2 DEF SweepStuckProcessing
    <3>3. CASE DropSelection BY <3>3 DEF DropSelection
    <3> QED BY <2>6, <3>1, <3>2, <3>3 DEF StuckSweep
  <2>7. CASE OrphanSweep
    <3>1. CASE SelectOrphan BY <3>1 DEF SelectOrphan
    <3>2. CASE CleanupOrphan BY <3>2 DEF CleanupOrphan, RemoveRow, Blank
    <3> QED BY <2>7, <3>1, <3>2 DEF OrphanSweep
  <2> QED BY <1>3, <2>1, <2>2, <2>3, <2>4, <2>5, <2>6, <2>7 DEF Next
<1> QED BY <1>1, <1>2, <1>3, PTL DEF Spec, SuccessResetsRecover

-----------------------------------------------------------------------------
(* Work in turn: the properties of a source whose jobs did not overlap *)

LatePhases == {"refine", "verify", "commit"}
UnderReview == {"pending_review", "rejected", "regenerating"}

\* a job and a request are at work together only after approve_extraction,
\* which enqueues before it writes; otherwise there is one of them at a time
OneAtATime ==
    /\ \A j, k \in Jobs : Alive(j) /\ Alive(k) => j = k
    /\ \A c, d \in Clients : req[c].op # "none" /\ req[d].op # "none" => c = d
    /\ \A j \in Jobs, c \in Clients :
         Alive(j) /\ req[c].op # "none" => req[c].op = "extraction"

\* what the rows say of each other between two steps
RowsAgree ==
    /\ MayRefine => plan.json.content \in approved
    /\ source.phase \in LatePhases => MayRefine
    /\ source.phase \in {"verify", "commit"} => plan.json.drafts = "all"

PhaseAt == [map |-> "map", reduce |-> "reduce", plan |-> "plan_review",
            write |-> "refine", commit |-> "verify"]

\* what job j holds in memory is what the rows hold, in the columns it is
\* about to write or decide from
InStep(j) ==
    /\ job[j].at \in PipelinePoints => job[j].sv.phase = source.phase
    /\ job[j].at \in DOMAIN PhaseAt => source.phase = PhaseAt[job[j].at]
    /\ job[j].at \in {"map", "reduce"} /\ job[j].pv.status # "none"
         => job[j].pv = plan /\ plan.status # "pending_review"
    /\ job[j].at = "plan" /\ job[j].pv.status = "approved"
         => plan.status = "approved"
    /\ job[j].at \in {"write", "commit"} => job[j].pv = plan
    /\ job[j].at # "free" /\ job[j].task = "regenerate"
         => plan.status \in UnderReview
    /\ job[j].at = "regen" => job[j].task = "regenerate"

AllInStep == \A j \in Jobs : InStep(j)

AskedUnderReview ==
    \A c \in Clients : req[c].op = "regenerate" => plan.status \in UnderReview

PublishedApproved ==
    \A p \in published : p.content \in approved /\ p.drafts = "all"

RowAgrees ==
    RowsAgree /\ (source.status # "deleted" => AskedUnderReview /\ AllInStep)

InTurn == OneAtATime /\ PublishedApproved /\ RowAgrees

SerialInv == RecoverInv /\ (overlap \/ InTurn)

\* job j has left: at most a queued copy with one of these tasks remains
LeavesQueued(j, tasks) ==
    \A k \in Jobs : \/ job'[k].at = "free"
                    \/ k = j /\ job'[k].at = "queued" /\ job'[k].task \in tasks

\* where nothing overlaps, a job that is alive is the only one
LEMMA Alone ==
    ASSUME OneAtATime, NEW j \in Jobs, Alive(j)
    PROVE  \A k \in Jobs : k # j => job[k].at = "free"
  BY DEF OneAtATime, Alive

\* however a job ends, no other one is there afterwards, unless the step
\* itself sets overlap
LEMMA Leaving ==
    ASSUME TypeOK, OneAtATime, NEW j \in Jobs, Alive(j)
    PROVE  /\ Drop(j) => LeavesQueued(j, {})
           /\ job' = Requeued(j) => LeavesQueued(j, {job[j].task})
           /\ Finish(j) => LeavesQueued(j, {job[j].task})
           /\ \A t : Chain(j, t) /\ ~overlap' => LeavesQueued(j, {t, job[j].task})
<1>0. job \in [Jobs -> Job] BY DEF TypeOK
<1>1. \A k \in Jobs : k # j => job[k].at = "free" BY Alone
<1>2. \A t : Queued(t).at = "queued" /\ Queued(t).task = t /\ Idle.at = "free"
  BY DEF Queued, Idle
<1>3. \A t, n : /\ [Queued(t) EXCEPT !.tries = n].at = "queued"
                /\ [Queued(t) EXCEPT !.tries = n].task = t
  BY DEF Queued, Idle
<1>4. Drop(j) => LeavesQueued(j, {}) BY <1>0, <1>1, <1>2 DEF Drop, LeavesQueued
<1>5. job' = Requeued(j) => LeavesQueued(j, {job[j].task})
  BY <1>0, <1>1, <1>2, <1>3 DEF Requeued, LeavesQueued
<1>6. ASSUME NEW t, Chain(j, t), ~overlap' PROVE LeavesQueued(j, {t, job[j].task})
  <2>1. CASE job' = [job EXCEPT ![j] = Queued(t)]
    BY <2>1, <1>0, <1>1, <1>2 DEF LeavesQueued
  <2>2. CASE job' = Requeued(j) BY <2>2, <1>5 DEF LeavesQueued
  <2> QED BY <1>6, <2>1, <2>2 DEF Chain
<1>7. Finish(j) => LeavesQueued(j, {job[j].task})
  BY <1>4, <1>5 DEF Finish, LeavesQueued
<1> QED BY <1>4, <1>5, <1>6, <1>7

\* a job that leaves keeps the order and every copy in step
LEMMA LeavingKeeps ==
    ASSUME OneAtATime, NEW j \in Jobs, Alive(j), NEW tasks, LeavesQueued(j, tasks),
           req' = req, "regenerate" \in tasks => plan'.status \in UnderReview
    PROVE  OneAtATime' /\ AllInStep'
<1>1. OneAtATime' BY DEF OneAtATime, Alive, LeavesQueued
<1>2. AllInStep'
  BY DEF AllInStep, InStep, LeavesQueued, PipelinePoints, PhaseAt
<1> QED BY <1>1, <1>2

\* a job that moves on keeps the order; it alone has to be shown in step
LEMMA MovingKeeps ==
    ASSUME TypeOK, OneAtATime, NEW j \in Jobs, Alive(j), NEW e,
           job' = [job EXCEPT ![j] = e], req' = req
    PROVE  /\ OneAtATime'
           /\ job'[j] = e
           /\ InStep(j)' => AllInStep'
<1>0. job \in [Jobs -> Job] BY DEF TypeOK
<1>1. \A k \in Jobs : k # j => job'[k].at = "free" BY <1>0, Alone
<1>2. OneAtATime' BY <1>1 DEF OneAtATime, Alive
<1>3. \A k \in Jobs : k # j => InStep(k)'
  BY <1>1 DEF InStep, PipelinePoints, PhaseAt
<1> QED BY <1>0, <1>2, <1>3 DEF AllInStep

\* a task enqueued when no job is alive is the only one
LEMMA Enqueuing ==
    ASSUME TypeOK, \A j \in Jobs : ~Alive(j), NEW t, Enqueue(t),
           t = "regenerate" => plan'.status \in UnderReview
    PROVE  /\ \A j, k \in Jobs : Alive(j)' /\ Alive(k)' => j = k
           /\ AllInStep'
<1>0. job \in [Jobs -> Job] BY DEF TypeOK
<1>1. PICK i \in Jobs : job' = [job EXCEPT ![i] = Queued(t)] BY DEF Enqueue
<1>2. Queued(t).at = "queued" /\ Queued(t).task = t BY DEF Queued, Idle
<1>3. /\ job'[i].at = "queued" /\ job'[i].task = t
      /\ \A k \in Jobs : k # i => job'[k].at = "free"
  BY <1>0, <1>1, <1>2 DEF Alive
<1>4. \A j, k \in Jobs : Alive(j)' /\ Alive(k)' => j = k BY <1>3 DEF Alive
<1>5. AllInStep' BY <1>3 DEF AllInStep, InStep, PipelinePoints, PhaseAt
<1> QED BY <1>4, <1>5

\* a pending request other than approve_extraction is alone, and gone once
\* it is answered
LEMMA Answering ==
    ASSUME TypeOK, OneAtATime, NEW c \in Clients, req[c].op # "none", Answer(c)
    PROVE  /\ \A d \in Clients : req'[d].op = "none"
           /\ req[c].op # "extraction" => \A j \in Jobs : ~Alive(j)
<1>1. req \in [Clients -> Request] BY DEF TypeOK
<1>2. NoRequest.op = "none" BY DEF NoRequest
<1> QED BY <1>1, <1>2 DEF OneAtATime, Answer

\* a user who starts work on a source at rest is alone with it
LEMMA Asking ==
    ASSUME TypeOK, NEW c \in Clients, NEW op, NEW seen, Ask(c, op, seen), ~overlap'
    PROVE  /\ \A j \in Jobs : ~Alive(j)
           /\ req'[c].op = op
           /\ \A d \in Clients : d # c => req'[d].op = "none"
<1>1. req \in [Clients -> Request] BY DEF TypeOK
<1> QED BY <1>1 DEF Ask, Begin, Busy

\* the steps of a job that end it and write nothing but the source's status
LEMMA EndingTurn ==
    ASSUME TypeOK, InTurn, NEW j \in Jobs, Alive(j), NEW tasks,
           LeavesQueued(j, tasks), "regenerate" \in tasks => plan.status \in UnderReview,
           req' = req, plan' = plan, approved \subseteq approved',
           published' = published, source'.phase = source.phase,
           source'.status = "deleted" <=> source.status = "deleted"
    PROVE  InTurn'
<1>1. OneAtATime' /\ AllInStep' BY LeavingKeeps DEF InTurn
<1>2. PublishedApproved' BY DEF InTurn, PublishedApproved
<1>3. RowAgrees' BY <1>1 DEF InTurn, RowAgrees, RowsAgree, MayRefine, AskedUnderReview
<1> QED BY <1>1, <1>2, <1>3 DEF InTurn

\* a job at work on a source that exists finds the rows in agreement
LEMMA Agreed ==
    ASSUME TypeOK, InTurn, NEW j \in Jobs, Exists
    PROVE  /\ RowsAgree /\ AskedUnderReview /\ InStep(j)
           /\ job[j].at # "free" /\ job[j].task = "regenerate"
                => plan.status \in UnderReview
  BY DEF InTurn, RowAgrees, AllInStep, InStep, Exists

\* the steps of a job that only load rows or move it on
LEMMA StartTurn ==
    ASSUME TypeOK, InTurn, NEW j \in Jobs, NEW task, NEW p,
           task \in PipelineTasks, p \in {"extract", "resume", "load"},
           Start(j, task, p)
    PROVE  InTurn'
<1>1. Alive(j) /\ Exists BY DEF Start, Alive
<1>2. source'.phase = source.phase /\ source'.status = "processing"
  BY DEF Start, TypeOK, SourceRow
<1> DEFINE e == [job[j] EXCEPT !.at = p, !.sv = source']
<1>3. e.at = p /\ e.sv = source' /\ e.task = task BY JobFields DEF Job, Start
<1>4. OneAtATime' /\ job'[j] = e /\ (InStep(j)' => AllInStep')
  BY <1>1, MovingKeeps DEF Start, InTurn
<1> HIDE DEF e
<1>5. InStep(j)' BY <1>3, <1>4 DEF InStep, PhaseAt, PipelineTasks
<1>6. RowsAgree' /\ AskedUnderReview'
  BY <1>1, <1>2, Agreed DEF Start, UnchangedHistory, RowsAgree, MayRefine,
     AskedUnderReview
<1> QED BY <1>4, <1>5, <1>6 DEF Start, InTurn, PublishedApproved, RowAgrees,
     UnchangedHistory

LEMMA ExtractTurn ==
    ASSUME TypeOK, InTurn, NEW j \in Jobs, ~overlap',
           GateExtraction(j) \/ AutoProceed(j) \/ SkipCaption(j) \/ FinishCaption(j)
    PROVE  InTurn'
<1>1. Alive(j) /\ Exists
  BY DEF GateExtraction, AutoProceed, SkipCaption, FinishCaption, Alive
<1>2. job[j].task = "regenerate" => plan.status \in UnderReview
  BY <1>1, Agreed DEF Alive
<1>3. "regenerate" \notin PostExtractionTasks \union {"map_reduce"}
  BY DEF PostExtractionTasks
<1>4. CASE GateExtraction(j)
  <2>1. source'.phase = source.phase /\ source'.status # "deleted"
    BY <1>1, <1>4, JobFields DEF GateExtraction, Flush, SourceRow, Exists
  <2> QED BY <2>1, <1>1, <1>2, <1>4, Leaving, EndingTurn
    DEF GateExtraction, InTurn, Exists
<1>5. CASE AutoProceed(j)
  BY <1>1, <1>2, <1>3, <1>5, Leaving, EndingTurn DEF AutoProceed, InTurn
<1>6. CASE FinishCaption(j)
  BY <1>1, <1>2, <1>3, <1>6, Leaving, EndingTurn DEF FinishCaption, InTurn
<1>7. CASE SkipCaption(j)
  <2>1. source'.phase = source.phase /\ source'.status = "processing"
    BY <1>7 DEF SkipCaption, TypeOK, SourceRow
  <2> QED BY <2>1, <1>1, <1>2, <1>3, <1>7, Leaving, EndingTurn
    DEF SkipCaption, InTurn, Exists
<1> QED BY <1>4, <1>5, <1>6, <1>7

\* SkipMapReduce, RefuseUnapproved, AwaitReview and what can go wrong: the job
\* ends, of the source only the status is written
LEMMA GivingUpTurn ==
    ASSUME TypeOK, InTurn, NEW j \in Jobs, ~overlap',
           \/ SkipMapReduce(j) \/ RefuseUnapproved(j) \/ AwaitReview(j)
           \/ Fail(j) \/ Orphan(j) \/ JobTrouble(j)
    PROVE  InTurn'
<1>1. Alive(j)
  BY DEF SkipMapReduce, RefuseUnapproved, AwaitReview, Fail, Orphan, JobTrouble,
     CancelSilently, Shutdown, Kill, DeferIntake, Alive, Running
<1>2. CASE Orphan(j)
  BY <1>1, <1>2, Leaving, EndingTurn DEF Orphan, UnchangedHistory, InTurn
<1>3. ASSUME ~Orphan(j) PROVE InTurn'
  <2>1. Exists
    BY <1>3 DEF SkipMapReduce, RefuseUnapproved, AwaitReview, Fail, JobTrouble,
       CancelSilently, Shutdown, Kill, DeferIntake
  <2>2. "regenerate" \in {job[j].task} => plan.status \in UnderReview
    BY <1>1, <2>1, Agreed DEF Alive
  <2>3. source'.phase = source.phase /\ source'.status # "deleted"
    <3>1. CASE AwaitReview(j)
      BY <2>1, <3>1, JobFields DEF AwaitReview, Flush, SourceRow, Exists
    <3> QED BY <1>3, <2>1, <3>1
      DEF SkipMapReduce, RefuseUnapproved, Fail, JobTrouble, CancelSilently,
          Shutdown, Kill, DeferIntake, TypeOK, SourceRow, Exists
  <2>4. /\ req' = req /\ plan' = plan /\ published' = published
        /\ approved' = approved
    BY <1>3 DEF SkipMapReduce, RefuseUnapproved, AwaitReview, Fail, JobTrouble,
       CancelSilently, Shutdown, Kill, DeferIntake
  <2>5. \/ LeavesQueued(j, {}) \/ LeavesQueued(j, {job[j].task})
        \/ LeavesQueued(j, {job[j].task, job[j].task})
    BY <1>1, <1>3, Leaving
    DEF InTurn, SkipMapReduce, RefuseUnapproved, AwaitReview, Fail, JobTrouble,
        CancelSilently, Shutdown, Kill, DeferIntake
  <2>6. PICK tasks : LeavesQueued(j, tasks) /\ tasks \subseteq {job[j].task} BY <2>5
  <2> QED BY <1>1, <2>1, <2>2, <2>3, <2>4, <2>6, EndingTurn DEF Exists
<1> QED BY <1>2, <1>3

\* the steps that move job j to another point with an entry e in step with
\* the rows
LEMMA MovingTurn ==
    ASSUME TypeOK, InTurn, NEW j \in Jobs, Alive(j), Exists, NEW e,
           job' = [job EXCEPT ![j] = e], req' = req, published' = published,
           approved' = approved, RowsAgree', AskedUnderReview',
           job'[j] = e => InStep(j)'
    PROVE  InTurn'
<1>1. OneAtATime' /\ AllInStep' BY MovingKeeps DEF InTurn
<1> QED BY <1>1 DEF InTurn, RowAgrees, PublishedApproved

LEMMA LoadTurn ==
    ASSUME TypeOK, InTurn, NEW j \in Jobs,
           StartCaption(j) \/ ResumeAtPlan(j) \/ StartRegenerate(j)
    PROVE  InTurn'
<1>1. Alive(j) /\ Exists BY DEF StartCaption, ResumeAtPlan, StartRegenerate, Alive
<1>2. InStep(j) /\ RowsAgree /\ AskedUnderReview BY <1>1, Agreed
<1>3. RowsAgree' /\ AskedUnderReview'
  BY <1>2 DEF StartCaption, ResumeAtPlan, StartRegenerate, UnchangedHistory,
     RowsAgree, MayRefine, AskedUnderReview
<1>4. CASE StartCaption(j)
  <2> DEFINE e == [job[j] EXCEPT !.at = "caption"]
  <2>1. e.at = "caption" /\ e.task = "caption" BY <1>4, JobFields DEF StartCaption, Job
  <2> HIDE DEF e
  <2>2. job'[j] = e => InStep(j)' BY <2>1 DEF InStep, PipelinePoints, PhaseAt
  <2>3. job' = [job EXCEPT ![j] = e] BY <1>4 DEF StartCaption, e
  <2> QED BY <1>1, <1>3, <1>4, <2>2, <2>3, MovingTurn DEF StartCaption, UnchangedHistory
<1>5. CASE ResumeAtPlan(j)
  <2> DEFINE e == [job[j] EXCEPT !.at = "plan", !.pv = plan]
  <2>1. /\ e.at = "plan" /\ e.task = job[j].task /\ e.pv = plan
        /\ e.sv = job[j].sv
    BY JobFields DEF Job
  <2>2. job[j].sv.phase = source.phase /\ source.phase = "plan_review"
    BY <1>2, <1>5 DEF ResumeAtPlan, InStep, PipelinePoints
  <2> HIDE DEF e
  <2>3. job'[j] = e => InStep(j)'
    BY <1>1, <1>2, <1>5, <2>1, <2>2
    DEF ResumeAtPlan, InStep, PipelinePoints, PhaseAt, Alive
  <2>4. job' = [job EXCEPT ![j] = e] BY <1>5 DEF ResumeAtPlan, e
  <2> QED BY <1>1, <1>3, <1>5, <2>3, <2>4, MovingTurn DEF ResumeAtPlan, UnchangedHistory
<1>6. CASE StartRegenerate(j)
  <2> DEFINE e == [job[j] EXCEPT !.at = "regen", !.pv = plan]
  <2>1. e.at = "regen" /\ e.task = "regenerate"
    BY <1>6, JobFields DEF StartRegenerate, Job
  <2> HIDE DEF e
  <2>2. job'[j] = e => InStep(j)'
    BY <1>1, <1>2, <1>6, <2>1
    DEF StartRegenerate, InStep, PipelinePoints, PhaseAt, Alive
  <2>3. job' = [job EXCEPT ![j] = e] BY <1>6 DEF StartRegenerate, e
  <2> QED BY <1>1, <1>3, <1>6, <2>2, <2>3, MovingTurn
    DEF StartRegenerate, UnchangedHistory
<1> QED BY <1>4, <1>5, <1>6

\* MAP and REDUCE run only before REFINE, and find the plan as they loaded it
LEMMA MapTurn ==
    ASSUME TypeOK, InTurn, NEW j \in Jobs, StartMap(j) \/ FinishMap(j)
    PROVE  InTurn'
<1>1. Alive(j) /\ Exists BY DEF StartMap, FinishMap, Alive
<1>2. InStep(j) /\ RowsAgree /\ AskedUnderReview BY <1>1, Agreed
<1>3. job[j].sv.phase = source.phase
  BY <1>2 DEF StartMap, FinishMap, InStep, PipelinePoints
<1>4. CASE StartMap(j)
  <2> DEFINE new == [job[j].sv EXCEPT !.phase = "map"]
             pv == IF job[j].sv.phase = "plan_review" THEN plan ELSE NoPlan
             e == [job[j] EXCEPT !.at = "map", !.sv = new, !.pv = pv]
  <2>0. plan' = plan BY <1>4 DEF StartMap
  <2>1. source' = Flush(job[j].sv, new) /\ job' = [job EXCEPT ![j] = e]
    BY <1>4 DEF StartMap
  <2>2. new.phase = "map" BY JobFields DEF SourceRow
  <2>3. e.at = "map" /\ e.sv = new /\ e.pv = pv /\ e.task = job[j].task
    BY JobFields DEF Job
  <2>4. pv.status = "none" \/ (pv = plan /\ plan.status # "pending_review")
    BY <1>4 DEF StartMap, HasReviewablePlan, NoPlan
  <2> HIDE DEF new, pv, e
  <2>5. source'.phase = "map" BY <1>3, <2>1, <2>2 DEF Flush
  <2>6. RowsAgree' /\ AskedUnderReview'
    BY <1>2, <1>4, <2>5 DEF StartMap, UnchangedHistory, RowsAgree, MayRefine,
       AskedUnderReview, LatePhases
  <2>7. job'[j] = e => InStep(j)'
    BY <1>1, <1>2, <2>2, <2>3, <2>4, <2>5, <2>0
    DEF InStep, PipelinePoints, PhaseAt, Alive
  <2> QED BY <1>1, <1>4, <2>1, <2>6, <2>7, MovingTurn DEF StartMap, UnchangedHistory
<1>5. CASE FinishMap(j)
  <2> DEFINE new == [job[j].sv EXCEPT !.phase = "reduce"]
             e == [job[j] EXCEPT !.at = "reduce", !.sv = new]
  <2>1. source' = Flush(job[j].sv, new) /\ job' = [job EXCEPT ![j] = e]
    BY <1>5 DEF FinishMap, Advance
  <2>2. new.phase = "reduce" BY JobFields DEF SourceRow
  <2>3. e.at = "reduce" /\ e.sv = new /\ e.pv = job[j].pv /\ e.task = job[j].task
    BY JobFields DEF Job
  <2> HIDE DEF new, e
  <2>5. source'.phase = "reduce" BY <1>3, <2>1, <2>2 DEF Flush
  <2>6. RowsAgree' /\ AskedUnderReview'
    BY <1>2, <1>5, <2>5 DEF FinishMap, UnchangedHistory, RowsAgree, MayRefine,
       AskedUnderReview, LatePhases
  <2>7. job'[j] = e => InStep(j)'
    BY <1>1, <1>2, <1>5, <2>2, <2>3, <2>5
    DEF FinishMap, InStep, PipelinePoints, PhaseAt, Alive
  <2> QED BY <1>1, <1>5, <2>1, <2>6, <2>7, MovingTurn DEF FinishMap, UnchangedHistory
<1> QED BY <1>4, <1>5

LEMMA ReduceTurn ==
    ASSUME TypeOK, InTurn, NEW j \in Jobs, Reduce(j)
    PROVE  InTurn'
<1>1. Alive(j) /\ Exists /\ job[j].at = "reduce" BY DEF Reduce, Alive
<1>2. InStep(j) /\ RowsAgree /\ AskedUnderReview BY <1>1, Agreed
<1>3. job[j].sv.phase = source.phase
  BY <1>1, <1>2 DEF InStep, PipelinePoints
<1> DEFINE old == IF job[j].pv.status = "none" THEN plan ELSE job[j].pv
           new(k) == [status |-> "pending_review",
                      json |-> [content |-> k, drafts |-> "none"]]
           row == [job[j].sv EXCEPT !.phase = "plan_review"]
           e(k) == [job[j] EXCEPT !.at = "plan", !.sv = row, !.pv = new(k)]
<1>4. PICK k \in Contents :
        /\ plan' = IF plan.status = "none" THEN new(k) ELSE FlushPlan(old, new(k))
        /\ source' = Flush(job[j].sv, row)
        /\ job' = [job EXCEPT ![j] =
                     [@ EXCEPT !.at = "plan", !.sv = row, !.pv = new(k)]]
  BY DEF Reduce
<1>a. job' = [job EXCEPT ![j] = e(k)] BY <1>4
<1>b. req' = req /\ published' = published /\ approved' = approved
  BY DEF Reduce, UnchangedHistory
<1>5. old = plan BY <1>1, <1>2 DEF InStep
<1>6. new(k).status = "pending_review" OBVIOUS
<1>7. FlushPlan(plan, new(k)) = new(k) BY DEF FlushPlan
<1>8. row.phase = "plan_review" BY JobFields DEF SourceRow
<1>9. /\ e(k).at = "plan" /\ e(k).sv = row /\ e(k).pv = new(k)
      /\ e(k).task = job[j].task
  BY JobFields DEF Job
<1> HIDE DEF old, new, row, e
<1>10. plan' = new(k) BY <1>4, <1>5, <1>7
<1>11. source'.phase = "plan_review" BY <1>3, <1>4, <1>8 DEF Flush
<1>12. RowsAgree' BY <1>6, <1>10, <1>11 DEF RowsAgree, MayRefine, LatePhases
<1>13. AskedUnderReview'
  BY <1>6, <1>10 DEF AskedUnderReview, UnderReview
<1>14. job'[j] = e(k) => InStep(j)'
  BY <1>6, <1>8, <1>9, <1>10, <1>11
  DEF InStep, PipelinePoints, PhaseAt, UnderReview
<1> QED BY <1>1, <1>a, <1>b, <1>12, <1>13, <1>14, MovingTurn

\* the plan _auto_trigger_refine approves without a reviewer is approved by
\* the setting; otherwise the job had seen it approved
LEMMA AutoTriggerTurn ==
    ASSUME TypeOK, TaskAtPoint, InTurn, NEW j \in Jobs, ~overlap',
           AutoTriggerRefine(j)
    PROVE  InTurn'
<1>1. Alive(j) /\ Exists /\ job[j].at = "plan"
  BY DEF AutoTriggerRefine, Alive
<1>2. InStep(j) /\ RowsAgree /\ AskedUnderReview BY <1>1, Agreed
<1>3. source'.phase = source.phase /\ source'.status = "processing"
  BY DEF AutoTriggerRefine, TypeOK, SourceRow
<1>4. source.phase = "plan_review" BY <1>1, <1>2 DEF InStep, PhaseAt
<1>5. LeavesQueued(j, {"refine", job[j].task})
  BY <1>1, Leaving DEF AutoTriggerRefine, InTurn
<1>6. CASE plan.status # "pending_review"
  BY <1>1, <1>2, <1>3, <1>5, <1>6, EndingTurn
  DEF AutoTriggerRefine, InStep, Exists
<1>7. CASE plan.status = "pending_review"
  <2>1. /\ plan' = [plan EXCEPT !.status = "approved"]
        /\ approved' = IF AutoApprove THEN approved \union {plan.json.content}
                       ELSE approved
    BY <1>7 DEF AutoTriggerRefine
  <2>2. AutoApprove
    BY <1>1, <1>2, <1>7 DEF AutoTriggerRefine, GoesOnAlone, InStep
  <2>3. plan'.status = "approved" /\ plan'.json = plan.json
    BY <2>1 DEF TypeOK, PlanRow
  <2>4. RowsAgree'
    BY <1>3, <1>4, <2>1, <2>2, <2>3 DEF RowsAgree, MayRefine, LatePhases
  <2>5. job[j].task # "regenerate"
    BY <1>1 DEF TaskAtPoint, PipelinePoints, PipelineTasks
  <2>6. OneAtATime' /\ AllInStep'
    BY <1>1, <1>5, <2>5, LeavingKeeps DEF AutoTriggerRefine, InTurn
  <2>7. AskedUnderReview'
    BY <1>1 DEF AutoTriggerRefine, InTurn, OneAtATime, AskedUnderReview
  <2> QED BY <2>1, <2>4, <2>6, <2>7
    DEF AutoTriggerRefine, InTurn, PublishedApproved, RowAgrees
<1> QED BY <1>6, <1>7

\* REFINE starts from an approved plan only
LEMMA RefineTurn ==
    ASSUME TypeOK, InTurn, NEW j \in Jobs, BeginRefine(j) \/ ResumeDrafts(j)
    PROVE  InTurn'
<1>1. Alive(j) /\ Exists /\ MayRefine /\ job[j].at = "load"
  BY DEF BeginRefine, ResumeDrafts, Alive
<1>2. InStep(j) /\ RowsAgree /\ AskedUnderReview BY <1>1, Agreed
<1>3. job[j].sv.phase = source.phase BY <1>1, <1>2 DEF InStep, PipelinePoints
<1>4. plan.status \notin UnderReview BY <1>1 DEF MayRefine, UnderReview
<1>5. job[j].task # "regenerate" /\ \A c \in Clients : req[c].op # "regenerate"
  BY <1>1, <1>2, <1>4 DEF InStep, AskedUnderReview, Alive
<1>6. req' = req /\ published' = published /\ approved' = approved
  BY DEF BeginRefine, ResumeDrafts, UnchangedHistory
<1>7. CASE BeginRefine(j)
  <2> DEFINE row == [job[j].sv EXCEPT !.phase = "refine"]
             e == [job[j] EXCEPT !.at = "write", !.sv = row, !.pv = plan']
  <2>1. /\ source' = Flush(job[j].sv, row) /\ job' = [job EXCEPT ![j] = e]
        /\ plan' = [plan EXCEPT !.status = "in_progress"]
    BY <1>7 DEF BeginRefine
  <2>2. row.phase = "refine" BY JobFields DEF SourceRow
  <2>3. e.at = "write" /\ e.sv = row /\ e.pv = plan' /\ e.task = job[j].task
    BY JobFields DEF Job
  <2>4. plan'.status = "in_progress" /\ plan'.json = plan.json
    BY <2>1 DEF TypeOK, PlanRow
  <2> HIDE DEF row, e
  <2>5. source'.phase = "refine" BY <1>3, <2>1, <2>2 DEF Flush
  <2>6. RowsAgree' BY <1>1, <1>2, <1>6, <2>4, <2>5 DEF RowsAgree, MayRefine
  <2>7. job'[j] = e => InStep(j)'
    BY <1>5, <2>2, <2>3, <2>5 DEF InStep, PipelinePoints, PhaseAt
  <2>8. AskedUnderReview' BY <1>5, <1>6 DEF AskedUnderReview
  <2> QED BY <1>1, <1>6, <2>1, <2>6, <2>7, <2>8, MovingTurn
<1>8. CASE ResumeDrafts(j)
  <2>1. source.phase \in {"verify", "commit"} BY <1>3, <1>8 DEF ResumeDrafts
  <2>2. plan.json.drafts = "all" BY <1>2, <2>1 DEF RowsAgree
  <2> DEFINE row == [job[j].sv EXCEPT !.phase = "verify"]
             e == [job[j] EXCEPT !.at = "commit", !.sv = row, !.pv = plan]
  <2>3. /\ source' = Flush(job[j].sv, row) /\ job' = [job EXCEPT ![j] = e]
        /\ plan' = plan
    BY <1>8, <2>2 DEF ResumeDrafts
  <2>4. row.phase = "verify" BY JobFields DEF SourceRow
  <2>5. e.at = "commit" /\ e.sv = row /\ e.pv = plan /\ e.task = job[j].task
    BY JobFields DEF Job
  <2> HIDE DEF row, e
  <2>6. source'.phase = "verify" BY <1>3, <2>3, <2>4 DEF Flush
  <2>7. RowsAgree'
    BY <1>1, <1>2, <1>6, <2>2, <2>3, <2>6 DEF RowsAgree, MayRefine
  <2>8. job'[j] = e => InStep(j)'
    BY <1>5, <2>3, <2>4, <2>5, <2>6 DEF InStep, PipelinePoints, PhaseAt
  <2>9. AskedUnderReview' BY <1>5, <1>6 DEF AskedUnderReview
  <2> QED BY <1>1, <1>6, <2>3, <2>7, <2>8, <2>9, MovingTurn
<1> QED BY <1>7, <1>8

\* while pages are written, the plan in memory is the row
LEMMA WriteTurn ==
    ASSUME TypeOK, InTurn, NEW j \in Jobs, WriteDraft(j) \/ FinishRefine(j)
    PROVE  InTurn'
<1>1. Alive(j) /\ Exists /\ job[j].at = "write"
  BY DEF WriteDraft, FinishRefine, Alive
<1>2. InStep(j) /\ RowsAgree /\ AskedUnderReview BY <1>1, Agreed
<1>3. /\ job[j].sv.phase = source.phase /\ source.phase = "refine"
      /\ job[j].pv = plan
  BY <1>1, <1>2 DEF InStep, PipelinePoints, PhaseAt
<1>4. MayRefine BY <1>2, <1>3 DEF RowsAgree, LatePhases
<1>5. job[j].task # "regenerate" /\ \A c \in Clients : req[c].op # "regenerate"
  BY <1>1, <1>2, <1>4 DEF InStep, AskedUnderReview, Alive, MayRefine, UnderReview
<1>6. req' = req /\ published' = published /\ approved' = approved
  BY DEF WriteDraft, FinishRefine, UnchangedHistory
<1>7. AskedUnderReview' BY <1>5, <1>6 DEF AskedUnderReview
<1>8. CASE WriteDraft(j)
  <2>1. PICK d \in {"some", "all"} :
          /\ job' = [job EXCEPT ![j].pv.json.drafts = d]
          /\ plan' = [plan EXCEPT !.json = [job[j].pv.json EXCEPT !.drafts = d]]
    BY <1>8 DEF WriteDraft
  <2> DEFINE e == [job[j] EXCEPT !.pv.json.drafts = d]
  <2>2. job' = [job EXCEPT ![j] = e] BY <2>1
  <2>3. plan' = [plan EXCEPT !.json.drafts = d] BY <1>3, <2>1
  <2>4. e.at = "write" /\ e.sv = job[j].sv /\ e.pv = plan' /\ e.task = job[j].task
    BY <1>1, <1>3, <2>3, JobFields DEF Job
  <2>5. plan'.status = plan.status /\ plan'.json.content = plan.json.content
    BY <2>3 DEF TypeOK, PlanRow, PlanJson
  <2>6. source' = source BY <1>8 DEF WriteDraft
  <2> HIDE DEF e
  <2>7. RowsAgree'
    BY <1>2, <1>3, <1>4, <1>6, <2>5, <2>6 DEF RowsAgree, MayRefine
  <2>8. job'[j] = e => InStep(j)'
    BY <1>3, <1>5, <2>4, <2>6 DEF InStep, PipelinePoints, PhaseAt
  <2> QED BY <1>1, <1>6, <1>7, <2>2, <2>7, <2>8, MovingTurn
<1>9. CASE FinishRefine(j)
  <2> DEFINE row == [job[j].sv EXCEPT !.phase = "verify"]
             e == [job[j] EXCEPT !.at = "commit", !.sv = row]
  <2>1. /\ source' = Flush(job[j].sv, row) /\ job' = [job EXCEPT ![j] = e]
        /\ plan' = plan /\ plan.json.drafts = "all"
    BY <1>3, <1>9 DEF FinishRefine, Advance
  <2>2. row.phase = "verify" BY JobFields DEF SourceRow
  <2>3. e.at = "commit" /\ e.sv = row /\ e.pv = plan /\ e.task = job[j].task
    BY <1>3, JobFields DEF Job
  <2> HIDE DEF row, e
  <2>4. source'.phase = "verify" BY <1>3, <2>1, <2>2 DEF Flush
  <2>5. RowsAgree'
    BY <1>2, <1>4, <1>6, <2>1, <2>4 DEF RowsAgree, MayRefine
  <2>6. job'[j] = e => InStep(j)'
    BY <1>5, <2>1, <2>2, <2>3, <2>4 DEF InStep, PipelinePoints, PhaseAt
  <2> QED BY <1>1, <1>6, <1>7, <2>1, <2>5, <2>6, MovingTurn
<1> QED BY <1>8, <1>9

\* COMMIT publishes what is in memory: the row, approved and whole
LEMMA CommitTurn ==
    ASSUME TypeOK, InTurn, NEW j \in Jobs, Commit(j)
    PROVE  InTurn'
<1>1. Alive(j) /\ Exists /\ job[j].at = "commit" BY DEF Commit, Alive
<1>2. InStep(j) /\ RowsAgree /\ AskedUnderReview BY <1>1, Agreed
<1>3. /\ job[j].sv.phase = source.phase /\ source.phase = "verify"
      /\ job[j].pv = plan
  BY <1>1, <1>2 DEF InStep, PipelinePoints, PhaseAt
<1>4. MayRefine /\ plan.json.content \in approved /\ plan.json.drafts = "all"
  BY <1>2, <1>3 DEF RowsAgree, LatePhases
<1>5. job[j].task # "regenerate" /\ \A c \in Clients : req[c].op # "regenerate"
  BY <1>1, <1>2, <1>4 DEF InStep, AskedUnderReview, Alive, MayRefine, UnderReview
<1>6. req' = req /\ published' = published \union {plan.json} /\ approved' = approved
  BY <1>3 DEF Commit
<1>7. plan'.status = "done" /\ plan'.json = plan.json
  BY <1>3 DEF Commit, FlushPlan, TypeOK, PlanRow
<1>8. LeavesQueued(j, {job[j].task}) BY <1>1, Leaving DEF Commit, InTurn
<1>9. OneAtATime' /\ AllInStep' BY <1>1, <1>5, <1>6, <1>8, LeavingKeeps DEF InTurn
<1>10. PublishedApproved' BY <1>4, <1>6 DEF InTurn, PublishedApproved
<1>11. RowsAgree' BY <1>4, <1>6, <1>7 DEF RowsAgree, MayRefine
<1>12. AskedUnderReview' BY <1>5, <1>6 DEF AskedUnderReview
<1> QED BY <1>9, <1>10, <1>11, <1>12 DEF InTurn, RowAgrees

\* a regenerate job leaves the plan under review
LEMMA RegenerateTurn ==
    ASSUME TypeOK, InTurn, NEW j \in Jobs, FinishRegenerate(j) \/ FailRegenerate(j)
    PROVE  InTurn'
<1>1. Alive(j) /\ Exists /\ job[j].at = "regen"
  BY DEF FinishRegenerate, FailRegenerate, Alive
<1>2. InStep(j) /\ RowsAgree /\ AskedUnderReview BY <1>1, Agreed
<1>3. plan.status \in UnderReview BY <1>1, <1>2 DEF InStep, Alive
<1>4. plan'.status \in UnderReview
  <2>1. CASE FinishRegenerate(j)
    <3>1. PICK k \in Contents :
            plan' = FlushPlan(job[j].pv, [status |-> "pending_review",
                                json |-> [content |-> k, drafts |-> "none"]])
      BY <2>1 DEF FinishRegenerate
    <3>2. plan'.status \in {plan.status, "pending_review"}
      BY <3>1 DEF FlushPlan
    <3> QED BY <1>3, <3>2 DEF UnderReview
  <2>2. CASE FailRegenerate(j)
    BY <1>3, <2>2 DEF FailRegenerate, UnderReview, TypeOK, PlanRow
  <2> QED BY <2>1, <2>2
<1>5. /\ req' = req /\ source' = source /\ published' = published
      /\ approved' = approved
  BY DEF FinishRegenerate, FailRegenerate
<1>6. source.phase \notin LatePhases
  BY <1>2, <1>3 DEF RowsAgree, MayRefine, UnderReview
<1>7. RowsAgree' /\ AskedUnderReview'
  BY <1>4, <1>5, <1>6
  DEF RowsAgree, AskedUnderReview, MayRefine, UnderReview, LatePhases
<1>8. LeavesQueued(j, {job[j].task})
  BY <1>1, Leaving DEF FinishRegenerate, FailRegenerate, InTurn
<1>9. OneAtATime' /\ AllInStep' BY <1>1, <1>4, <1>5, <1>8, LeavingKeeps DEF InTurn
<1> QED BY <1>5, <1>7, <1>9 DEF InTurn, RowAgrees, PublishedApproved

LEMMA JobTurn ==
    ASSUME TypeOK, TaskAtPoint, InTurn, NEW j \in Jobs, JobStep(j), ~overlap'
    PROVE  InTurn'
<1>1. CASE StartExtract(j) \/ StartMapReduce(j) \/ StartRefine(j)
  BY <1>1, StartTurn DEF StartExtract, StartMapReduce, StartRefine, PipelineTasks
<1>2. CASE \/ GateExtraction(j) \/ AutoProceed(j) \/ SkipCaption(j)
           \/ FinishCaption(j)
  BY <1>2, ExtractTurn
<1>3. CASE StartCaption(j) \/ ResumeAtPlan(j) \/ StartRegenerate(j)
  BY <1>3, LoadTurn
<1>4. CASE StartMap(j) \/ FinishMap(j) BY <1>4, MapTurn
<1>5. CASE Reduce(j) BY <1>5, ReduceTurn
<1>6. CASE AutoTriggerRefine(j) BY <1>6, AutoTriggerTurn
<1>7. CASE BeginRefine(j) \/ ResumeDrafts(j) BY <1>7, RefineTurn
<1>8. CASE WriteDraft(j) \/ FinishRefine(j) BY <1>8, WriteTurn
<1>9. CASE Commit(j) BY <1>9, CommitTurn
<1>10. CASE FinishRegenerate(j) \/ FailRegenerate(j) BY <1>10, RegenerateTurn
<1>11. CASE \/ SkipMapReduce(j) \/ RefuseUnapproved(j) \/ AwaitReview(j)
            \/ Fail(j) \/ Orphan(j)
  BY <1>11, GivingUpTurn
<1> QED BY <1>1, <1>2, <1>3, <1>4, <1>5, <1>6, <1>7, <1>8, <1>9, <1>10, <1>11
  DEF JobStep

\* a request that was answered and left at most one new task behind
LEMMA AnswerTurn ==
    ASSUME TypeOK, InTurn, NEW c \in Clients, Asked(c, req[c].op), Answer(c),
           req[c].op \notin {"none", "extraction"},
           NEW t, Enqueue(t), t = "regenerate" => plan.status \in UnderReview,
           plan' = plan, approved' = approved, published' \subseteq published,
           source'.phase = source.phase
    PROVE  InTurn'
<1>1. /\ \A d \in Clients : req'[d].op = "none"
      /\ \A j \in Jobs : ~Alive(j)
  BY Answering DEF InTurn
<1>2. /\ \A j, k \in Jobs : Alive(j)' /\ Alive(k)' => j = k
      /\ AllInStep'
  BY <1>1, Enqueuing
<1>3. OneAtATime' BY <1>1, <1>2 DEF OneAtATime
<1>4. RowsAgree' /\ AskedUnderReview'
  BY <1>1 DEF InTurn, RowAgrees, Asked, Exists, RowsAgree, MayRefine,
     AskedUnderReview
<1> QED BY <1>2, <1>3, <1>4 DEF InTurn, RowAgrees, PublishedApproved

LEMMA RequestTurn ==
    ASSUME TypeOK, InTurn, NEW c \in Clients, RequestStep(c)
    PROVE  InTurn'
<1>a. \A s \in SourceRow, t \in Statuses :
        Flush(s, [s EXCEPT !.status = t]).phase = source.phase
  BY DEF Flush, SourceRow
<1>b. req[c].seen \in SourceRow BY SeenType
<1>1. CASE EnqueueUpload(c)
  BY <1>1, AnswerTurn DEF EnqueueUpload, Asked, UnchangedHistory
<1>2. CASE WriteRetry(c)
  <2>1. source'.phase = source.phase BY <1>2, <1>a, <1>b DEF WriteRetry, Statuses
  <2>2. RetryTask(req[c].seen) # "regenerate" BY DEF RetryTask
  <2> QED BY <1>2, <2>1, <2>2, AnswerTurn DEF WriteRetry, Asked, UnchangedHistory
<1>3. CASE WriteApproveExtraction(c)
  <2>1. source'.phase = source.phase
    BY <1>3, <1>a, <1>b DEF WriteApproveExtraction, Statuses
  <2>2. req' = [req EXCEPT ![c] = NoRequest] /\ NoRequest.op = "none"
    BY <1>3 DEF WriteApproveExtraction, Answer, NoRequest
  <2>3. OneAtATime' /\ AskedUnderReview'
    BY <1>3, <2>2 DEF WriteApproveExtraction, InTurn, RowAgrees, Asked, Exists,
       OneAtATime, AskedUnderReview, Alive, TypeOK
  <2>4. RowsAgree' /\ AllInStep'
    BY <1>3, <2>1 DEF WriteApproveExtraction, UnchangedHistory, InTurn, RowAgrees,
       Asked, Exists, RowsAgree, MayRefine, AllInStep, InStep
  <2> QED BY <1>3, <2>3, <2>4 DEF WriteApproveExtraction, UnchangedHistory, InTurn,
       RowAgrees, PublishedApproved
<1>4. CASE EnqueueRegenerate(c)
  <2>1. plan.status \in UnderReview
    BY <1>4 DEF EnqueueRegenerate, Asked, Exists, InTurn, RowAgrees, AskedUnderReview
  <2> QED BY <1>4, <2>1, AnswerTurn DEF EnqueueRegenerate, Asked, UnchangedHistory
<1>5. CASE WriteDeptChange(c)
  <2>1. source'.phase = source.phase BY <1>5, <1>a, <1>b DEF WriteDeptChange, Statuses
  <2> QED BY <1>5, <2>1, AnswerTurn DEF WriteDeptChange, Asked, UnchangedHistory
<1>6. CASE LoseCommit(c)
  <2>1. RetryTask(req[c].seen) # "regenerate" BY DEF RetryTask
  <2> QED BY <1>6, <2>1, AnswerTurn DEF LoseCommit, Asked
<1>7. CASE DropRequest(c)
  <2>1. req' = [req EXCEPT ![c] = NoRequest] /\ NoRequest.op = "none"
    BY <1>7 DEF DropRequest, Answer, NoRequest
  <2>2. OneAtATime' /\ (AskedUnderReview => AskedUnderReview')
    BY <1>7, <2>1 DEF DropRequest, InTurn, OneAtATime, AskedUnderReview, Alive, TypeOK
  <2> QED BY <1>7, <2>2 DEF DropRequest, InTurn, RowAgrees, RowsAgree, MayRefine,
       PublishedApproved, AllInStep, InStep
<1> QED BY <1>1, <1>2, <1>3, <1>4, <1>5, <1>6, <1>7 DEF RequestStep

\* a request that begins and does not overlap finds no job at work
LEMMA AskTurn ==
    ASSUME TypeOK, InTurn, NEW c \in Clients, NEW op, NEW seen, Ask(c, op, seen),
           ~overlap', op = "regenerate" => plan'.status \in UnderReview,
           \/ job' = job
           \/ op = "extraction" /\ \E t \in PostExtractionTasks : Enqueue(t),
           RowsAgree', published' = published, approved' = approved
    PROVE  InTurn'
<1>1. /\ \A j \in Jobs : ~Alive(j)
      /\ req'[c].op = op /\ \A d \in Clients : d # c => req'[d].op = "none"
  BY Asking
<1>2. AskedUnderReview' BY <1>1 DEF AskedUnderReview
<1>3. CASE job' = job
  <2>1. \A j \in Jobs : job'[j].at = "free" BY <1>1, <1>3 DEF Alive
  <2>2. AllInStep' BY <2>1 DEF AllInStep, InStep, PipelinePoints, PhaseAt
  <2>3. OneAtATime' BY <1>1, <2>1 DEF OneAtATime, Alive
  <2> QED BY <1>2, <2>2, <2>3 DEF InTurn, RowAgrees, PublishedApproved
<1>4. CASE op = "extraction" /\ \E t \in PostExtractionTasks : Enqueue(t)
  <2>1. PICK t \in PostExtractionTasks : Enqueue(t) BY <1>4
  <2>2. t # "regenerate" BY DEF PostExtractionTasks
  <2>3. /\ \A j, k \in Jobs : Alive(j)' /\ Alive(k)' => j = k
        /\ AllInStep'
    BY <1>1, <2>1, <2>2, Enqueuing
  <2>4. OneAtATime' BY <1>1, <1>4, <2>3 DEF OneAtATime
  <2> QED BY <1>2, <2>3, <2>4 DEF InTurn, RowAgrees, PublishedApproved
<1> QED BY <1>3, <1>4

LEMMA UserTurn ==
    ASSUME TypeOK, InTurn, NEW c \in Clients, UserStep(c), ~overlap'
    PROVE  InTurn'
<1>1. RowsAgree
  BY DEF UserStep, Upload, BeginRetry, BeginApproveExtraction, RegeneratePlan,
     BeginDeptChange, CanAsk, Exists, InTurn, RowAgrees
<1>2. CASE Upload(c)
  <2>1. source'.phase = source.phase BY <1>2 DEF Upload, TypeOK, SourceRow
  <2>2. RowsAgree' BY <1>1, <1>2, <2>1 DEF Upload, RowsAgree, MayRefine
  <2> QED BY <1>2, <2>2, AskTurn DEF Upload
<1>3. CASE BeginRetry(c)
  <2>1. RowsAgree' BY <1>1, <1>3 DEF BeginRetry, RowsAgree, MayRefine
  <2> QED BY <1>3, <2>1, AskTurn DEF BeginRetry
<1>4. CASE BeginApproveExtraction(c)
  <2>1. RowsAgree' BY <1>1, <1>4 DEF BeginApproveExtraction, RowsAgree, MayRefine
  <2> QED BY <1>4, <2>1, AskTurn DEF BeginApproveExtraction
<1>5. CASE RegeneratePlan(c)
  <2>1. plan.status \in UnderReview /\ plan'.status = "regenerating"
    BY <1>5 DEF RegeneratePlan, UnderReview, TypeOK, PlanRow
  <2>2. plan'.status \in UnderReview BY <2>1 DEF UnderReview
  <2>3. RowsAgree' 
    <3>1. source.phase \notin LatePhases
      BY <1>1, <2>1 DEF RowsAgree, MayRefine, UnderReview
    <3>2. source' = source BY <1>5 DEF RegeneratePlan
    <3> QED BY <3>1, <3>2, <2>1 DEF RowsAgree, MayRefine, LatePhases
  <2> QED BY <1>5, <2>2, <2>3, AskTurn DEF RegeneratePlan
<1>6. CASE BeginDeptChange(c)
  <2>1. RowsAgree' BY <1>1, <1>6 DEF BeginDeptChange, RowsAgree, MayRefine
  <2> QED BY <1>6, <2>1, AskTurn DEF BeginDeptChange
<1> QED BY <1>2, <1>3, <1>4, <1>5, <1>6 DEF UserStep

\* approve_plan and its lost commit: the only task there is, the only plan
\* content whose approval it records
LEMMA ApproveTurn ==
    ASSUME TypeOK, InTurn, ApprovePlan \/ LoseApproval, ~overlap'
    PROVE  InTurn'
<1>1. /\ \A j \in Jobs : ~Alive(j)
      /\ \A c \in Clients : req[c].op = "none"
  BY DEF ApprovePlan, LoseApproval, Begin, Busy
<1>2. Enqueue("refine") BY DEF ApprovePlan, LoseApproval
<1>3. /\ \A j, k \in Jobs : Alive(j)' /\ Alive(k)' => j = k
      /\ AllInStep'
  BY <1>1, <1>2, Enqueuing
<1>4. req' = req BY DEF ApprovePlan, LoseApproval
<1>5. OneAtATime' /\ AskedUnderReview'
  BY <1>1, <1>3, <1>4 DEF OneAtATime, AskedUnderReview
<1>6. RowsAgree BY DEF ApprovePlan, LoseApproval, Exists, InTurn, RowAgrees
<1>7. source.phase \notin LatePhases
  BY <1>6 DEF ApprovePlan, LoseApproval, RowsAgree, MayRefine
<1>8. RowsAgree' /\ PublishedApproved'
  <2>1. CASE LoseApproval
    BY <1>6, <2>1 DEF LoseApproval, RowsAgree, MayRefine, InTurn, PublishedApproved
  <2>2. CASE ApprovePlan
    <3>1. /\ plan'.status = "approved" /\ plan'.json = plan.json
          /\ source'.phase = source.phase
      BY <2>2 DEF ApprovePlan, TypeOK, PlanRow, SourceRow
    <3>2. approved' = approved \union {plan.json.content} /\ published' = published
      BY <2>2 DEF ApprovePlan
    <3> QED BY <1>7, <3>1, <3>2
      DEF RowsAgree, MayRefine, LatePhases, InTurn, PublishedApproved
  <2> QED BY <2>1, <2>2
<1> QED BY <1>3, <1>5, <1>8 DEF InTurn, RowAgrees

LEMMA OtherTurn ==
    ASSUME TypeOK, InTurn,
           \/ RejectPlan \/ DeleteSource \/ StuckSweep \/ OrphanSweep
           \/ UNCHANGED vars
    PROVE  InTurn'
<1> USE DEF StuckSweep, OrphanSweep
<1>1. job' = job /\ req' = req /\ approved' = approved
  BY DEF RejectPlan, DeleteSource, SelectStuck, SelectOrphan, SweepStuckProcessing,
     CleanupOrphan, DropSelection, RemoveRow, UnchangedHistory, vars
<1>2. OneAtATime' BY <1>1 DEF InTurn, OneAtATime, Alive
<1>3. published' \in {published, {}}
  BY DEF RejectPlan, DeleteSource, SelectStuck, SelectOrphan, SweepStuckProcessing,
     CleanupOrphan, DropSelection, vars
<1>4. PublishedApproved' BY <1>1, <1>3 DEF InTurn, PublishedApproved
<1>5. CASE DeleteSource \/ CleanupOrphan
  <2>1. /\ source'.status = "deleted" /\ source'.phase = "none"
        /\ plan'.status = "none"
    BY <1>5 DEF DeleteSource, CleanupOrphan, RemoveRow, Blank, NoPlan
  <2>2. RowsAgree' BY <2>1 DEF RowsAgree, MayRefine, LatePhases
  <2> QED BY <1>2, <1>4, <2>1, <2>2 DEF InTurn, RowAgrees
<1>6. CASE \/ SelectStuck \/ SelectOrphan \/ DropSelection \/ SweepStuckProcessing
           \/ UNCHANGED vars
  <2>1. /\ source'.phase = source.phase /\ plan' = plan
        /\ source'.status = "deleted" <=> source.status = "deleted"
    <3>1. CASE SweepStuckProcessing
      BY <3>1 DEF SweepStuckProcessing, Exists, TypeOK, SourceRow
    <3>2. CASE ~SweepStuckProcessing
      BY <1>6, <3>2 DEF SelectStuck, SelectOrphan, DropSelection, vars
    <3> QED BY <3>1, <3>2
  <2>2. RowAgrees'
    BY <1>1, <2>1 DEF InTurn, RowAgrees, RowsAgree, MayRefine, AskedUnderReview,
       AllInStep, InStep
  <2> QED BY <1>2, <1>4, <2>2 DEF InTurn
<1>7. CASE RejectPlan
  <2>1. /\ plan.status = "pending_review" /\ plan'.status = "rejected"
        /\ source'.phase = source.phase
    BY <1>7 DEF RejectPlan, TypeOK, PlanRow, SourceRow
  <2>2. RowsAgree /\ AskedUnderReview /\ AllInStep
    BY <1>7 DEF RejectPlan, Exists, InTurn, RowAgrees
  <2>3. source.phase \notin LatePhases BY <2>1, <2>2 DEF RowsAgree, MayRefine
  <2>4. RowsAgree' BY <2>1, <2>3 DEF RowsAgree, MayRefine, LatePhases
  <2>5. AskedUnderReview' BY <2>1 DEF AskedUnderReview, UnderReview
  <2>6. ASSUME NEW j \in Jobs PROVE InStep(j)'
    <3>1. InStep(j) BY <2>2 DEF AllInStep
    <3>2. job[j].at \notin {"write", "commit"}
      BY <2>3, <3>1 DEF InStep, PhaseAt, LatePhases
    <3> QED BY <1>1, <2>1, <3>1, <3>2 DEF InStep, UnderReview
  <2> QED BY <1>2, <1>4, <2>4, <2>5, <2>6 DEF InTurn, RowAgrees, AllInStep
<1> QED BY <1>5, <1>6, <1>7

\* overlap is a history: once set, it stays
LEMMA OverlapStays == ASSUME TypeOK, [Next]_vars, overlap PROVE overlap'
<1>1. \A j, t : Chain(j, t) => overlap' BY Zenon DEF Chain
<1>2. Begin => overlap' BY DEF Begin
<1>3. ASSUME NEW j \in Jobs, JobStep(j) PROVE overlap'
  BY <1>1, <1>3
  DEF JobStep, StartExtract, StartMapReduce, StartRefine, Start, GateExtraction,
      AutoProceed, StartCaption, SkipCaption, FinishCaption, ResumeAtPlan,
      SkipMapReduce, StartMap, FinishMap, Reduce, AwaitReview, AutoTriggerRefine,
      RefuseUnapproved, BeginRefine, ResumeDrafts, WriteDraft, FinishRefine, Commit,
      StartRegenerate, FinishRegenerate, FailRegenerate, Fail, Orphan,
      UnchangedHistory
<1>4. ASSUME NEW j \in Jobs, JobTrouble(j) PROVE overlap'
  BY <1>1, <1>4 DEF JobTrouble, CancelSilently, Shutdown, Kill, DeferIntake
<1>5. ASSUME NEW c \in Clients, RequestStep(c) PROVE overlap'
  BY <1>5
  DEF RequestStep, EnqueueUpload, WriteRetry, WriteApproveExtraction,
      EnqueueRegenerate, WriteDeptChange, LoseCommit, DropRequest, UnchangedHistory
<1>6. ASSUME NEW c \in Clients, UserStep(c) PROVE overlap'
  BY <1>2, <1>6
  DEF UserStep, Upload, BeginRetry, BeginApproveExtraction, RegeneratePlan,
      BeginDeptChange, Ask
<1>7. CASE PlanStep
  BY <1>2, <1>7 DEF PlanStep, ApprovePlan, LoseApproval, RejectPlan, DeleteSource,
     RemoveRow, UnchangedHistory
<1>8. CASE StuckSweep \/ OrphanSweep \/ UNCHANGED vars
  BY <1>8 DEF StuckSweep, OrphanSweep, SelectStuck, SelectOrphan, DropSelection,
     SweepStuckProcessing, CleanupOrphan, RemoveRow, UnchangedHistory, vars
<1> QED BY <1>3, <1>4, <1>5, <1>6, <1>7, <1>8 DEF Next

LEMMA SerialStep == ASSUME SerialInv, [Next]_vars PROVE SerialInv'
<1>1. RecoverInv' BY TypeStep, RecoverStep DEF SerialInv, RecoverInv
<1>2. TypeOK BY DEF SerialInv, RecoverInv
<1>3. ASSUME ~overlap' PROVE InTurn'
  <2>1. TypeOK /\ TaskAtPoint /\ InTurn
    BY <1>2, <1>3, OverlapStays DEF SerialInv, RecoverInv
  <2>2. ASSUME NEW j \in Jobs, JobStep(j) PROVE InTurn' BY <1>3, <2>1, <2>2, JobTurn
  <2>3. ASSUME NEW j \in Jobs, JobTrouble(j) PROVE InTurn'
    BY <1>3, <2>1, <2>3, GivingUpTurn
  <2>4. ASSUME NEW c \in Clients, RequestStep(c) PROVE InTurn'
    BY <2>1, <2>4, RequestTurn
  <2>5. ASSUME NEW c \in Clients, UserStep(c) PROVE InTurn'
    BY <1>3, <2>1, <2>5, UserTurn
  <2>6. CASE ApprovePlan \/ LoseApproval BY <1>3, <2>1, <2>6, ApproveTurn
  <2>7. CASE \/ RejectPlan \/ DeleteSource \/ StuckSweep \/ OrphanSweep
             \/ UNCHANGED vars
    BY <2>1, <2>7, OtherTurn
  <2> QED BY <2>2, <2>3, <2>4, <2>5, <2>6, <2>7 DEF Next, PlanStep
<1> QED BY <1>1, <1>3 DEF SerialInv

LEMMA SerialInit == Init => SerialInv
<1> SUFFICES ASSUME Init PROVE SerialInv OBVIOUS
<1>1. \A j \in Jobs : job[j].at = "free" BY DEF Init, Idle
<1>2. \A c \in Clients : req[c].op = "none" BY DEF Init, NoRequest
<1>3. source.phase = "none" /\ plan.status = "none" BY DEF Init, Blank, NoPlan
<1>4. RecoverInv
  BY <1>1, TypeInit DEF RecoverInv, TaskAtPoint, RecoverSeen, PipelinePoints
<1>5. OneAtATime BY <1>1, <1>2 DEF OneAtATime, Alive
<1>6. RowsAgree /\ AskedUnderReview
  BY <1>2, <1>3 DEF RowsAgree, AskedUnderReview, MayRefine, LatePhases
<1>7. AllInStep BY <1>1 DEF AllInStep, InStep, PipelinePoints, PhaseAt
<1>8. PublishedApproved BY DEF Init, PublishedApproved
<1> QED BY <1>4, <1>5, <1>6, <1>7, <1>8 DEF SerialInv, InTurn, RowAgrees

\* SerialInv is inductive, for any number of jobs and requests, and with any
\* deaths between two steps: where nothing overlapped, one piece of work at a
\* time is at the source and holds the rows as they are.
THEOREM WorkInTurn == Spec => []SerialInv
<1>1. SerialInv /\ [Next]_vars => SerialInv'
  <2>1. SerialInv /\ UNCHANGED vars => SerialInv'
    BY SerialStep
  <2> QED BY SerialStep
<1> QED BY <1>1, SerialInit, PTL DEF Spec

\* Plan review before write: whatever crashes, retries and regenerations come
\* between, COMMIT publishes only what a reviewer or the auto-approve setting
\* approved, as long as no two jobs overlapped.
THEOREM PlanReviewedBeforeWrite == Spec => []CompiledWasApproved
<1>1. SerialInv => CompiledWasApproved
  BY DEF SerialInv, InTurn, PublishedApproved, CompiledWasApproved
<1> QED BY <1>1, WorkInTurn, PTL

\* COMMIT is never handed a partial batch of drafts: a job that finds the
\* source at verify or commit finds every draft in the plan.
THEOREM WholeBatch == Spec => []CommitsWholeBatch
<1>1. SerialInv => CommitsWholeBatch
  BY DEF SerialInv, InTurn, PublishedApproved, CommitsWholeBatch
<1> QED BY <1>1, WorkInTurn, PTL

\* A retry routed to REFINE by the phase of the source is not refused by the
\* status of its plan.
THEOREM RetryAccepted == Spec => []RetryRouteAccepted
<1>1. SerialInv => RetryRouteAccepted
  BY DEF SerialInv, InTurn, RowAgrees, RowsAgree, RetryRouteAccepted, LatePhases
<1> QED BY <1>1, WorkInTurn, PTL

\* what a step does to the phase of a source that is past the plan review
PhaseOnward ==
    \/ source'.phase = source.phase
    \/ source.phase \notin LatePhases
    \/ source.phase = "refine" /\ source'.phase = "verify"
    \/ source.phase = "verify" /\ source'.phase = "commit"
    \/ source.phase = "commit" /\ source'.phase = "verify"

LEMMA JobOnward ==
    ASSUME TypeOK, InTurn, NEW j \in Jobs, JobStep(j)
    PROVE  PhaseOnward
<1> DEFINE moved(p) == [job[j].sv EXCEPT !.phase = p]
<1>1. /\ \A p : moved(p).phase = p /\ Flush(job[j].sv, moved(p)).phase
                                     \in {p, source.phase}
      /\ \A s \in Statuses :
           Flush(job[j].sv, [job[j].sv EXCEPT !.status = s]).phase = source.phase
      /\ Flush(job[j].sv, [job[j].sv EXCEPT !.status = "plan_ready",
                                            !.recover = 0]).phase = source.phase
  BY JobFields DEF Flush, SourceRow
<1>2. Exists => InStep(j) BY Agreed
<1>3. CASE StartMap(j) \/ FinishMap(j) \/ Reduce(j)
  <2>1. Exists BY <1>3 DEF StartMap, FinishMap, Reduce
  <2>2. CASE StartMap(j)
    BY <1>2, <2>1, <2>2 DEF StartMap, InStep, PipelinePoints, LatePhases, PhaseOnward
  <2>3. CASE FinishMap(j) \/ Reduce(j)
    <3>1. job[j].at \in {"map", "reduce"} BY <2>3 DEF FinishMap, Reduce
    <3> QED BY <1>2, <2>1, <3>1 DEF InStep, PhaseAt, LatePhases, PhaseOnward
  <2> QED BY <1>3, <2>2, <2>3
<1>4. CASE BeginRefine(j) \/ ResumeDrafts(j)
  <2>1. Exists /\ job[j].at = "load" BY <1>4 DEF BeginRefine, ResumeDrafts
  <2>2. job[j].sv.phase = source.phase BY <1>2, <2>1 DEF InStep, PipelinePoints
  <2>3. CASE BeginRefine(j)
    <3>1. source' = Flush(job[j].sv, moved("refine")) BY <2>3 DEF BeginRefine
    <3>2. source'.phase \in {"refine", source.phase} BY <1>1, <3>1
    <3> QED BY <2>2, <2>3, <3>2 DEF BeginRefine, PhaseOnward, LatePhases
  <2>4. CASE ResumeDrafts(j)
    <3>1. plan.json.drafts = "all"
      BY <2>2, <2>4 DEF ResumeDrafts, InTurn, RowAgrees, RowsAgree
    <3>2. source' = Flush(job[j].sv, moved("verify"))
      BY <2>4, <3>1 DEF ResumeDrafts
    <3>3. source'.phase \in {"verify", source.phase} BY <1>1, <3>2
    <3> QED BY <2>2, <2>4, <3>3 DEF ResumeDrafts, PhaseOnward
  <2> QED BY <1>4, <2>3, <2>4
<1>5. CASE FinishRefine(j)
  <2>1. source.phase = "refine"
    BY <1>2, <1>5 DEF FinishRefine, InStep, PhaseAt
  <2>2. source' = Flush(job[j].sv, moved("verify"))
    BY <1>5 DEF FinishRefine, Advance
  <2> QED BY <1>1, <2>1, <2>2 DEF PhaseOnward
<1>6. CASE Commit(j)
  <2>1. source.phase = "verify" BY <1>2, <1>6 DEF Commit, InStep, PhaseAt
  <2>2. source'.phase \in {"commit", source.phase} BY <1>6 DEF Commit, Flush
  <2> QED BY <2>1, <2>2 DEF PhaseOnward
<1>7. CASE GateExtraction(j) \/ AwaitReview(j)
  <2>1. source'.phase = source.phase
    BY <1>1, <1>7 DEF GateExtraction, AwaitReview, Statuses
  <2> QED BY <2>1 DEF PhaseOnward
<1>8. CASE \/ StartExtract(j) \/ StartMapReduce(j) \/ StartRefine(j)
           \/ SkipCaption(j) \/ AutoTriggerRefine(j) \/ RefuseUnapproved(j) \/ Fail(j)
  <2>1. source'.phase = source.phase
    BY <1>8 DEF StartExtract, StartMapReduce, StartRefine, Start, SkipCaption,
       AutoTriggerRefine, RefuseUnapproved, Fail, TypeOK, SourceRow
  <2> QED BY <2>1 DEF PhaseOnward
<1>9. CASE \/ AutoProceed(j) \/ StartCaption(j) \/ FinishCaption(j)
           \/ ResumeAtPlan(j) \/ SkipMapReduce(j) \/ WriteDraft(j)
           \/ StartRegenerate(j) \/ FinishRegenerate(j) \/ FailRegenerate(j)
           \/ Orphan(j)
  BY <1>9 DEF AutoProceed, StartCaption, FinishCaption, ResumeAtPlan, SkipMapReduce,
     WriteDraft, StartRegenerate, FinishRegenerate, FailRegenerate, Orphan,
     PhaseOnward
<1> QED BY <1>3, <1>4, <1>5, <1>6, <1>7, <1>8, <1>9 DEF JobStep

\* only a job writes the phase of a source that stays
LEMMA OthersKeepPhase ==
    ASSUME TypeOK, Exists',
           \/ \E j \in Jobs : JobTrouble(j)
           \/ \E c \in Clients : RequestStep(c) \/ UserStep(c)
           \/ PlanStep \/ StuckSweep \/ OrphanSweep
    PROVE  source'.phase = source.phase
<1>1. \A c \in Clients, t \in Statuses :
        Flush(req[c].seen, [req[c].seen EXCEPT !.status = t]).phase = source.phase
  BY SeenType DEF Flush, SourceRow
<1>2. ASSUME NEW j \in Jobs, JobTrouble(j) PROVE source'.phase = source.phase
  BY <1>2 DEF JobTrouble, CancelSilently, Shutdown, Kill, DeferIntake, TypeOK, SourceRow
<1>3. ASSUME NEW c \in Clients, RequestStep(c) PROVE source'.phase = source.phase
  <2>1. CASE WriteRetry(c) \/ WriteApproveExtraction(c) \/ WriteDeptChange(c)
    <3>1. PICK t \in Statuses :
            source' = Flush(req[c].seen, [req[c].seen EXCEPT !.status = t])
      BY <2>1 DEF WriteRetry, WriteApproveExtraction, WriteDeptChange, Statuses
    <3> QED BY <1>1, <3>1
  <2>2. CASE \/ EnqueueUpload(c) \/ EnqueueRegenerate(c) \/ LoseCommit(c)
             \/ DropRequest(c)
    BY <2>2 DEF EnqueueUpload, EnqueueRegenerate, LoseCommit, DropRequest
  <2> QED BY <1>3, <2>1, <2>2 DEF RequestStep
<1>4. ASSUME NEW c \in Clients, UserStep(c) PROVE source'.phase = source.phase
  BY <1>4 DEF UserStep, Upload, BeginRetry, BeginApproveExtraction, RegeneratePlan,
     BeginDeptChange, TypeOK, SourceRow
<1>5. CASE PlanStep
  BY <1>5 DEF PlanStep, ApprovePlan, LoseApproval, RejectPlan, DeleteSource,
     RemoveRow, Blank, Exists, TypeOK, SourceRow
<1>6. CASE StuckSweep
  BY <1>6 DEF StuckSweep, SelectStuck, SweepStuckProcessing, DropSelection, TypeOK,
     SourceRow
<1>7. CASE OrphanSweep
  BY <1>7 DEF OrphanSweep, SelectOrphan, CleanupOrphan, RemoveRow, Blank, Exists
<1> QED BY <1>2, <1>3, <1>4, <1>5, <1>6, <1>7

\* Resume on crash: once REFINE began, no crash, retry or restart sends the
\* source back to a phase it has passed, except a re-run's step from commit to
\* verify; the phases of the plan are never paid for twice.
THEOREM ResumeProved == Spec => ResumeNeverRepeats
<1> DEFINE A == ~overlap' /\ Exists' /\ PhaseRank[source.phase] >= 4
                  => PhaseRank[source'.phase] >= PhaseRank[source.phase]
                     \/ (source.phase = "commit" /\ source'.phase = "verify")
<1>1. ASSUME SerialInv, [Next]_vars PROVE [A]_vars
  <2> SUFFICES ASSUME Next, ~overlap', Exists', PhaseRank[source.phase] >= 4
               PROVE  \/ PhaseRank[source'.phase] >= PhaseRank[source.phase]
                      \/ source.phase = "commit" /\ source'.phase = "verify"
    BY <1>1
  <2>1. TypeOK BY <1>1 DEF SerialInv, RecoverInv
  <2>2. InTurn BY <1>1, <2>1, OverlapStays DEF SerialInv
  <2>3. source.phase \in Phases BY <2>1 DEF TypeOK, SourceRow
  <2>4. source.phase \in LatePhases BY <2>3 DEF PhaseRank, Phases, LatePhases
  <2>5. PhaseOnward
    <3>1. CASE \E j \in Jobs : JobStep(j) BY <2>1, <2>2, <3>1, JobOnward
    <3>2. CASE ~\E j \in Jobs : JobStep(j)
      BY <2>1, <3>2, OthersKeepPhase DEF Next, PhaseOnward
    <3> QED BY <3>1, <3>2
  <2>6. CASE source'.phase = source.phase BY <2>4, <2>6 DEF PhaseRank, LatePhases
  <2>7. CASE source'.phase # source.phase
    BY <2>4, <2>5, <2>7 DEF PhaseOnward, PhaseRank, LatePhases
  <2> QED BY <2>6, <2>7
<1> QED BY <1>1, WorkInTurn, PTL DEF Spec, ResumeNeverRepeats
=============================================================================
