------------------------------ MODULE Ingestion ------------------------------
(***************************************************************************)
(* The life of one source: its row in table sources, its row in table      *)
(* source_compilation_plans, the arq jobs that process it                  *)
(* (app/worker.py, app/ai/mrp/pipeline.py), the API requests that steer it *)
(* (app/routers/sources.py) and the cron sweeps that recover it.  Two      *)
(* sources share no row of these two tables, so one source is enough here. *)
(*                                                                         *)
(* A job is a coroutine that holds its own SQLAlchemy session.  The        *)
(* session factory sets expire_on_commit=False, so a job keeps the column  *)
(* values it read when it first loaded a row: job[j].sv and job[j].pv are  *)
(* those in-memory copies.  A flush sends only the columns whose value     *)
(* differs from the copy, see Flush and FlushPlan.                         *)
(***************************************************************************)
EXTENDS Naturals, FiniteSets

CONSTANTS
    Jobs,           \* slots for arq jobs alive at one time (a bound)
    Clients,        \* slots for API requests in flight (a bound)
    Contents,       \* plan contents the LLM may produce
    NoContent,      \* plan_json of a source without a plan
    SourceKind,     \* Source.source_type, "file" or "url"
    AutoApprove,    \* settings.mrp_auto_approve_plan
    AdminRetries,   \* whether an admin is among the users who press Retry
    Sweeps,         \* the crons that run, by the status they look for (a bound)
    MaxTries,       \* WorkerSettings.max_tries
    MaxDeaths,      \* bound on deaths, see the variable
    RecoverCap      \* settings.max_auto_recover_attempts; the count of a row
                    \* stops here, only whether it is below the cap matters

ASSUME IngestionAssumption ==
    /\ NoContent \notin Contents
    /\ SourceKind \in {"file", "url"}
    /\ AutoApprove \in BOOLEAN
    /\ AdminRetries \in BOOLEAN
    /\ Sweeps \subseteq {"processing", "awaiting_approval"}
    /\ MaxTries \in Nat \ {0}
    /\ MaxDeaths \in Nat
    /\ RecoverCap \in Nat \ {0}

VARIABLES
    source,     \* the committed row of table sources
    plan,       \* the committed row of table source_compilation_plans
    job,        \* the arq jobs of this source
    req,        \* the API requests that span more than one step
    selected,   \* the rows that a cron sweep has SELECTed and not written yet
    published,  \* what COMMIT wrote to the wiki for this source
    approved,   \* history: plan contents approved by a reviewer, or by the
                \* auto-approve setting
    overlap,    \* history: a user started work on the source while other work
                \* ran, or a job ran again beside the successor it had enqueued
    late,       \* history: the running jobs that loaded the row after the sweep of
                \* stuck sources selected it and before that sweep wrote it
    deaths      \* history: worker deaths, timeouts, shutdowns, failed calls of
                \* the API to MinIO, Redis or the database

vars == <<source, plan, job, req, selected, published, approved, overlap, late,
          deaths>>

-----------------------------------------------------------------------------
(* Rows, jobs and requests *)

Statuses == {"absent", "pending", "processing", "awaiting_approval",
             "plan_ready", "error", "ready", "deleted"}
Phases == {"none", "map", "reduce", "plan_review", "refine", "verify", "commit"}
PlanStatuses == {"none", "pending_review", "approved", "rejected",
                 "regenerating", "in_progress", "done"}
Drafts == {"none", "some", "all"}

SourceRow == [status : Statuses, phase : Phases, recover : 0..RecoverCap]
PlanJson == [content : Contents \union {NoContent}, drafts : Drafts]
PlanRow == [status : PlanStatuses, json : PlanJson]

Tasks == {"none", "extract", "caption", "map_reduce", "refine", "regenerate"}

\* where a job stands: not allocated, waiting in Redis, or the await it is at
Points == {"free", "queued", "extract", "caption", "resume", "map", "reduce",
           "plan", "load", "write", "commit", "regen"}

Job == [task : Tasks, at : Points, tries : 0..(MaxTries - 1),
        sv : SourceRow, pv : PlanRow]
Request == [op : {"none", "upload", "retry", "extraction", "regenerate", "dept"},
            seen : SourceRow]
Selections == [status : {"processing", "awaiting_approval"}, recover : 0..RecoverCap]
Pages == [content : Contents \union {NoContent}, drafts : Drafts]

Blank == [status |-> "absent", phase |-> "none", recover |-> 0]
NoPlan == [status |-> "none", json |-> [content |-> NoContent, drafts |-> "none"]]
Idle == [task |-> "none", at |-> "free", tries |-> 0, sv |-> Blank, pv |-> NoPlan]
Queued(task) == [Idle EXCEPT !.task = task, !.at = "queued"]
NoRequest == [op |-> "none", seen |-> Blank]

Exists == source.status \notin {"absent", "deleted"}
Alive(j) == job[j].at # "free"
Running(j) == job[j].at \notin {"free", "queued"}
PipelineTasks == {"extract", "map_reduce", "refine"}

(* The UPDATE a session sends when an object it loaded as view now holds   *)
(* new: a column that did not change in memory is not written, whatever    *)
(* the row holds by now.                                                   *)
Flush(view, new) ==
    [status  |-> IF new.status = view.status THEN source.status ELSE new.status,
     phase   |-> IF new.phase = view.phase THEN source.phase ELSE new.phase,
     recover |-> IF new.recover = view.recover THEN source.recover ELSE new.recover]

FlushPlan(view, new) ==
    [status |-> IF new.status = view.status THEN plan.status ELSE new.status,
     json   |-> IF new.json = view.json THEN plan.json ELSE new.json]

\* a process dies, or a call to Redis or the database fails
Die == deaths < MaxDeaths /\ deaths' = deaths + 1

Drop(j) == job' = [job EXCEPT ![j] = Idle]

\* mutant: one try too many
RequeuedOnceMore(j) ==
    [job EXCEPT ![j] = IF job[j].tries >= MaxTries THEN Idle
                       ELSE [Queued(job[j].task) EXCEPT !.tries = job[j].tries + 1]]

\* arq puts a job back unless it was tried max_tries times
Requeued(j) ==
    [job EXCEPT ![j] = IF job[j].tries + 1 >= MaxTries THEN Idle
                       ELSE [Queued(job[j].task) EXCEPT !.tries = job[j].tries + 1]]

\* job j returns or raises.  arq delivers at least once: when the worker dies
\* before arq took the job off its queue, the job runs again.
Finish(j) ==
    \/ Drop(j) /\ UNCHANGED deaths
    \/ Die /\ job' = Requeued(j)

\* job j enqueues the next task and returns; its slot is handed on, unless the
\* worker dies before or after the enqueue: then j runs again, in the latter
\* case beside its successor
Chain(j, task) ==
    \/ job' = [job EXCEPT ![j] = Queued(task)] /\ UNCHANGED <<overlap, deaths>>
    \/ Die /\ job' = Requeued(j) /\ UNCHANGED overlap
    \/ /\ Die /\ overlap' = TRUE
       /\ \E k \in Jobs : ~Alive(k) /\ job' = [Requeued(j) EXCEPT ![k] = Queued(task)]

\* pool.enqueue_job by anyone but a job that is about to return
Enqueue(task) == \E k \in Jobs : /\ ~Alive(k)
                                 /\ job' = [job EXCEPT ![k] = Queued(task)]

\* job j writes new over its copy of the source row and moves to point p
Advance(j, new, p) ==
    /\ source' = Flush(job[j].sv, new)
    /\ job' = [job EXCEPT ![j] = [@ EXCEPT !.at = p, !.sv = new]]

\* a user sets off work on the source; overlap remembers whether other work,
\* a job or a request, was still under way
Busy == \/ \E j \in Jobs : Alive(j)
        \/ \E c \in Clients : req[c].op # "none"
Begin == overlap' = (overlap \/ Busy)

UnchangedHistory == UNCHANGED <<approved, overlap, deaths>>

StuckSelected == \E row \in selected : row.status = "processing"

\* every step but those of the sweeps: a job that starts now is late if the
\* sweep has selected the row, and a job that ends is forgotten
SweepsRest ==
    /\ UNCHANGED selected
    /\ late' = {j \in Jobs : /\ job'[j].at \notin {"free", "queued"}
                             /\ \/ j \in late
                                \/ ~Running(j) /\ StuckSelected
                                     /\ job[j].task \in PipelineTasks}

-----------------------------------------------------------------------------
Init ==
    /\ source = Blank
    /\ plan = NoPlan
    /\ job = [j \in Jobs |-> Idle]
    /\ req = [c \in Clients |-> NoRequest]
    /\ selected = {}
    /\ published = {}
    /\ approved = {}
    /\ overlap = FALSE
    /\ late = {}
    /\ deaths = 0

-----------------------------------------------------------------------------
(* Tasks of the worker *)

\* the first commit of ingest_file_task, ingest_url_task,
\* ingest_map_reduce_task and ingest_refine_task
Start(j, task, p) ==
    /\ job[j].at = "queued" /\ job[j].task = task
    /\ Exists
    /\ source' = [source EXCEPT !.status = "processing"]
    /\ job' = [job EXCEPT ![j] = [@ EXCEPT !.at = p, !.sv = source']]
    /\ UNCHANGED <<plan, req, published>> /\ UnchangedHistory

StartExtract(j) == Start(j, "extract", "extract")
StartMapReduce(j) == Start(j, "map_reduce", "resume")
StartRefine(j) == Start(j, "refine", "load")

\* token_count above the threshold: the source waits for a human
GateExtraction(j) ==
    /\ job[j].at = "extract"
    /\ Exists
    /\ source' = Flush(job[j].sv, [job[j].sv EXCEPT !.status = "awaiting_approval"])
    /\ Finish(j)
    /\ UNCHANGED <<plan, req, published>> /\ UNCHANGED <<approved, overlap>>

\* enqueue_post_extraction_pipeline: only a file can have images
PostExtractionTasks ==
    IF SourceKind = "file" THEN {"caption", "map_reduce"} ELSE {"map_reduce"}

AutoProceed(j) ==
    /\ job[j].at = "extract"
    /\ Exists
    /\ \E t \in PostExtractionTasks : Chain(j, t)
    /\ UNCHANGED <<source, plan, req, published, approved>>

\* caption_images_task: load the rows; the row itself is written only when
\* no vision provider is configured
StartCaption(j) ==
    /\ job[j].at = "queued" /\ job[j].task = "caption"
    /\ Exists
    /\ job' = [job EXCEPT ![j] = [@ EXCEPT !.at = "caption"]]
    /\ UNCHANGED <<source, plan, req, published>> /\ UnchangedHistory

SkipCaption(j) ==
    /\ job[j].at = "queued" /\ job[j].task = "caption"
    /\ Exists
    /\ source' = [source EXCEPT !.status = "processing"]
    /\ Chain(j, "map_reduce")
    /\ UNCHANGED <<plan, req, published, approved>>

FinishCaption(j) ==
    /\ job[j].at = "caption"
    /\ Exists
    /\ Chain(j, "map_reduce")
    /\ UNCHANGED <<source, plan, req, published, approved>>

-----------------------------------------------------------------------------
(* run_mrp_pipeline: triage, MAP, REDUCE *)

HasReviewablePlan == plan.status \in {"pending_review", "approved"}

\* "already at plan_review, skipping MAP+REDUCE"
ResumeAtPlan(j) ==
    /\ job[j].at = "resume" /\ job[j].sv.phase = "plan_review"
    /\ Exists
    /\ HasReviewablePlan
    /\ job' = [job EXCEPT ![j] = [@ EXCEPT !.at = "plan", !.pv = plan]]
    /\ UNCHANGED <<source, plan, req, published>> /\ UnchangedHistory

\* "already in <phase> phase, skipping": nothing is written
SkipMapReduce(j) ==
    /\ job[j].at = "resume" /\ job[j].sv.phase \in {"refine", "verify", "commit"}
    /\ Exists
    /\ Finish(j)
    /\ UNCHANGED <<source, plan, req, published>> /\ UNCHANGED <<approved, overlap>>

\* run_map_phase sets the phase before the first chunk.  The plan stays in
\* the session when the resume check loaded it.
StartMap(j) ==
    /\ job[j].at = "resume"
    /\ job[j].sv.phase \notin {"refine", "verify", "commit"}
    /\ job[j].sv.phase = "plan_review" => ~HasReviewablePlan
    /\ Exists
    /\ LET new == [job[j].sv EXCEPT !.phase = "map"]
       IN /\ source' = Flush(job[j].sv, new)
          /\ job' = [job EXCEPT ![j] =
                       [@ EXCEPT !.at = "map", !.sv = new,
                                 !.pv = IF job[j].sv.phase = "plan_review"
                                        THEN plan ELSE NoPlan]]
    /\ UNCHANGED <<plan, req, published>> /\ UnchangedHistory

FinishMap(j) ==
    /\ job[j].at = "map"
    /\ Exists
    /\ Advance(j, [job[j].sv EXCEPT !.phase = "reduce"], "reduce")
    /\ UNCHANGED <<plan, req, published>> /\ UnchangedHistory

\* run_reduce_phase: upsert the plan and move to plan_review in one commit
Reduce(j) ==
    /\ job[j].at = "reduce"
    /\ Exists
    /\ \E c \in Contents :
         LET old == IF job[j].pv.status = "none" THEN plan ELSE job[j].pv
             new == [status |-> "pending_review",
                     json |-> [content |-> c, drafts |-> "none"]]
             row == [job[j].sv EXCEPT !.phase = "plan_review"]
         IN /\ plan' = IF plan.status = "none" THEN new ELSE FlushPlan(old, new)
            /\ source' = Flush(job[j].sv, row)
            /\ job' = [job EXCEPT ![j] =
                         [@ EXCEPT !.at = "plan", !.sv = row, !.pv = new]]
    /\ UNCHANGED <<req, published>> /\ UnchangedHistory

\* mutant: any reviewable plan goes on, reviewed or not
GoesOnUnreviewed(j) ==
    AutoApprove \/ job[j].pv.status \in {"pending_review", "approved"}

GoesOnAlone(j) == AutoApprove \/ job[j].pv.status = "approved"

\* result "plan_ready" of ingest_map_reduce_task
AwaitReview(j) ==
    /\ job[j].at = "plan"
    /\ ~GoesOnAlone(j)
    /\ Exists
    /\ source' = Flush(job[j].sv, [job[j].sv EXCEPT !.status = "plan_ready",
                                                    !.recover = 0])
    /\ Finish(j)
    /\ UNCHANGED <<plan, req, published>> /\ UNCHANGED <<approved, overlap>>

\* _auto_trigger_refine opens a session of its own, so both rows are fresh
AutoTriggerRefine(j) ==
    /\ job[j].at = "plan"
    /\ GoesOnAlone(j)
    /\ Exists
    /\ IF plan.status = "pending_review"
       THEN /\ plan' = [plan EXCEPT !.status = "approved"]
            /\ approved' = IF AutoApprove THEN approved \union {plan.json.content}
                           ELSE approved
       ELSE UNCHANGED <<plan, approved>>
    /\ source' = [source EXCEPT !.status = "processing"]
    /\ Chain(j, "refine")
    /\ UNCHANGED <<req, published>>

-----------------------------------------------------------------------------
(* run_refine_pipeline: REFINE, VERIFY, COMMIT *)

MayRefine == plan.status \in {"approved", "in_progress", "done"}

\* "Plan for source is not approved": ValueError, then the error handler
RefuseUnapproved(j) ==
    /\ job[j].at = "load"
    /\ ~MayRefine
    /\ Exists
    /\ source' = [source EXCEPT !.status = "error"]
    /\ Finish(j)
    /\ UNCHANGED <<plan, req, published>> /\ UNCHANGED <<approved, overlap>>

\* mutant: REFINE starts over whatever phase a crash left
BeginRefineAgain(j) ==
    /\ job[j].at = "load"
    /\ MayRefine
    /\ Exists
    /\ LET row == [job[j].sv EXCEPT !.phase = "refine"]
       IN /\ source' = Flush(job[j].sv, row)
          /\ plan' = [plan EXCEPT !.status = "in_progress"]
          /\ job' = [job EXCEPT ![j] =
                       [@ EXCEPT !.at = "write", !.sv = row, !.pv = plan']]
    /\ UNCHANGED <<req, published>> /\ UnchangedHistory

BeginRefine(j) ==
    /\ job[j].at = "load" /\ job[j].sv.phase \notin {"verify", "commit"}
    /\ MayRefine
    /\ Exists
    /\ LET row == [job[j].sv EXCEPT !.phase = "refine"]
       IN /\ source' = Flush(job[j].sv, row)
          /\ plan' = [plan EXCEPT !.status = "in_progress"]
          /\ job' = [job EXCEPT ![j] =
                       [@ EXCEPT !.at = "write", !.sv = row, !.pv = plan']]
    /\ UNCHANGED <<req, published>> /\ UnchangedHistory

\* resumed at verify or commit: load the persisted drafts, or write them anew
ResumeDrafts(j) ==
    /\ job[j].at = "load" /\ job[j].sv.phase \in {"verify", "commit"}
    /\ MayRefine
    /\ Exists
    /\ LET found == plan.json.drafts # "none"
           row == [job[j].sv EXCEPT !.phase = IF found THEN "verify" ELSE "refine"]
       IN /\ source' = Flush(job[j].sv, row)
          /\ job' = [job EXCEPT ![j] =
                       [@ EXCEPT !.at = IF found THEN "commit" ELSE "write",
                                 !.sv = row, !.pv = plan]]
    /\ UNCHANGED <<plan, req, published>> /\ UnchangedHistory

\* _commit_draft writes the whole plan_json of this session plus one draft
WriteDraft(j) ==
    /\ job[j].at = "write"
    /\ Exists
    /\ job[j].pv.json.drafts # "all"
    /\ \E d \in {"some", "all"} \ {job[j].pv.json.drafts} :
         /\ job' = [job EXCEPT ![j].pv.json.drafts = d]
         /\ plan' = [plan EXCEPT !.json = [job[j].pv.json EXCEPT !.drafts = d]]
    /\ UNCHANGED <<source, req, published>> /\ UnchangedHistory

\* mutant: failed pages are treated as done
FinishIncomplete(j) ==
    /\ job[j].at = "write"
    /\ job[j].pv.json.drafts # "none"
    /\ Exists
    /\ Advance(j, [job[j].sv EXCEPT !.phase = "verify"], "commit")
    /\ UNCHANGED <<plan, req, published>> /\ UnchangedHistory

FinishRefine(j) ==
    /\ job[j].at = "write"
    /\ job[j].pv.json.drafts = "all"
    /\ Exists
    /\ Advance(j, [job[j].sv EXCEPT !.phase = "verify"], "commit")
    /\ UNCHANGED <<plan, req, published>> /\ UnchangedHistory

\* run_commit_phase, one transaction
Commit(j) ==
    /\ job[j].at = "commit"
    /\ Exists
    /\ published' = published \union {job[j].pv.json}
    /\ plan' = FlushPlan(job[j].pv, [job[j].pv EXCEPT !.status = "done"])
    /\ source' = Flush(job[j].sv, [status |-> "ready", phase |-> "commit",
                                   recover |-> 0])
    /\ Finish(j)
    /\ UNCHANGED req /\ UNCHANGED <<approved, overlap>>

-----------------------------------------------------------------------------
(* regenerate_plan_task *)

StartRegenerate(j) ==
    /\ job[j].at = "queued" /\ job[j].task = "regenerate"
    /\ Exists
    /\ job' = [job EXCEPT ![j] = [@ EXCEPT !.at = "regen", !.pv = plan]]
    /\ UNCHANGED <<source, plan, req, published>> /\ UnchangedHistory

FinishRegenerate(j) ==
    /\ job[j].at = "regen"
    /\ Exists
    /\ \E c \in Contents :
         plan' = FlushPlan(job[j].pv, [status |-> "pending_review",
                                       json |-> [content |-> c, drafts |-> "none"]])
    /\ Finish(j)
    /\ UNCHANGED <<source, req, published>> /\ UNCHANGED <<approved, overlap>>

FailRegenerate(j) ==
    /\ job[j].at = "regen"
    /\ Exists
    /\ plan' = IF job[j].pv.status = "regenerating"
               THEN [plan EXCEPT !.status = "pending_review"] ELSE plan
    /\ Finish(j)
    /\ UNCHANGED <<source, req, published>> /\ UNCHANGED <<approved, overlap>>

-----------------------------------------------------------------------------
(* What can go wrong with a job *)

\* an exception (a failed LLM call, no text, an incomplete writer batch):
\* the except BaseException handler marks the row in a session of its own.
\* arq does not run a job again that raised.
Fail(j) ==
    /\ Running(j) /\ job[j].task \in PipelineTasks
    /\ Exists
    /\ source' = [source EXCEPT !.status = "error"]
    /\ Finish(j)
    /\ UNCHANGED <<plan, req, published>> /\ UNCHANGED <<approved, overlap>>

\* arq cancels a job at its timeout.  caption_images_task has no handler and
\* that of regenerate_plan_task does not catch CancelledError.
CancelSilently(j) ==
    /\ job[j].at \in {"caption", "regen"}
    /\ Die
    /\ Exists
    /\ Drop(j)
    /\ UNCHANGED <<source, plan, req, published, approved, overlap>>

\* a worker that shuts down cancels its jobs: the handlers run, arq requeues
Shutdown(j) ==
    /\ Running(j)
    /\ Die
    /\ Exists
    /\ source' = IF job[j].task \in PipelineTasks
                 THEN [source EXCEPT !.status = "error"] ELSE source
    /\ job' = Requeued(j)
    /\ UNCHANGED <<plan, req, published, approved, overlap>>

\* SIGKILL, OOM, power: no handler runs
Kill(j) ==
    /\ Running(j)
    /\ Die
    /\ Exists
    /\ job' = Requeued(j)
    /\ UNCHANGED <<source, plan, req, published, approved, overlap>>

\* a job whose source was deleted returns early, or its UPDATE matches no row
Orphan(j) ==
    /\ Alive(j)
    /\ source.status = "deleted"
    /\ Drop(j)
    /\ UNCHANGED <<source, plan, req, published>> /\ UnchangedHistory

\* _check_intake_paused enqueues task_name(source_id) again.  A failed
\* enqueue is only logged.  The copy of a regenerate job lacks user_note: the
\* call raises TypeError.
DeferIntake(j) ==
    /\ job[j].at = "queued" /\ job[j].task \in PipelineTasks \union {"regenerate"}
    /\ Exists
    /\ IF job[j].task = "regenerate" THEN Finish(j) /\ UNCHANGED overlap
       ELSE Chain(j, job[j].task) \/ (Die /\ Drop(j) /\ UNCHANGED overlap)
    /\ UNCHANGED <<source, plan, req, published, approved>>

-----------------------------------------------------------------------------
(* API requests *)

\* seen is the source row the handler goes on to write or to decide from
Ask(c, op, seen) ==
    /\ req' = [req EXCEPT ![c] = [op |-> op, seen |-> seen]]
    /\ Begin
Answer(c) == req' = [req EXCEPT ![c] = NoRequest]
Asked(c, op) == req[c].op = op /\ Exists
CanAsk(c) == req[c].op = "none" /\ Exists

\* POST /sources/upload and /sources/url: the row is committed, then (for a
\* file) MinIO is written, then the job is enqueued
Upload(c) ==
    /\ source.status = "absent" /\ req[c].op = "none"
    /\ source' = [source EXCEPT !.status = "pending"]
    /\ Ask(c, "upload", Blank)
    /\ UNCHANGED <<plan, job, published, approved, deaths>>

EnqueueUpload(c) ==
    /\ Asked(c, "upload")
    /\ Enqueue("extract")
    /\ Answer(c)
    /\ UNCHANGED <<source, plan, published>> /\ UnchangedHistory

BeginRetry(c) ==
    /\ CanAsk(c)
    /\ source.status \in {"error", "plan_ready"}
    /\ source.recover < RecoverCap \/ AdminRetries
    /\ UNCHANGED <<source, plan, job, published, approved, deaths>>
    /\ Ask(c, "retry", source)

\* the task a retry enqueues, from the row the request loaded
RetryTask(seen) ==
    IF seen.phase \in {"refine", "verify", "commit"} THEN "refine"
    ELSE IF \/ seen.phase \in {"map", "reduce", "plan_review"}
            \/ seen.status = "plan_ready"
         THEN "map_reduce" ELSE "extract"

WriteRetry(c) ==
    /\ Asked(c, "retry")
    /\ source' = Flush(req[c].seen, [req[c].seen EXCEPT !.status = "pending"])
    /\ Enqueue(RetryTask(req[c].seen))
    /\ Answer(c)
    /\ UNCHANGED <<plan, published>> /\ UnchangedHistory

\* approve_extraction enqueues first and writes the status afterwards
BeginApproveExtraction(c) ==
    /\ CanAsk(c)
    /\ source.status = "awaiting_approval"
    /\ \E t \in PostExtractionTasks : Enqueue(t)
    /\ UNCHANGED <<source, plan, published, approved, deaths>>
    /\ Ask(c, "extraction", source)

WriteApproveExtraction(c) ==
    /\ Asked(c, "extraction")
    /\ source' = Flush(req[c].seen, [req[c].seen EXCEPT !.status = "processing"])
    /\ Answer(c)
    /\ UNCHANGED <<plan, job, published>> /\ UnchangedHistory

\* plan row locked FOR UPDATE, both rows flushed before the enqueue
ApprovePlan ==
    /\ Exists
    /\ plan.status = "pending_review"
    /\ plan' = [plan EXCEPT !.status = "approved"]
    /\ approved' = approved \union {plan.json.content}
    /\ source' = [source EXCEPT !.status = "processing"]
    /\ Enqueue("refine") /\ Begin
    /\ UNCHANGED <<req, published, deaths>>

\* ApprovePlan, retry_source and update_source enqueue before they commit: the
\* job is out, the commit fails
LoseApproval ==
    /\ Exists
    /\ plan.status = "pending_review"
    /\ Die
    /\ Enqueue("refine") /\ Begin
    /\ UNCHANGED <<source, plan, req, published, approved>>

LoseCommit(c) ==
    /\ \/ Asked(c, "retry") /\ Enqueue(RetryTask(req[c].seen))
       \/ Asked(c, "dept") /\ Enqueue("map_reduce")
    /\ Die
    /\ Answer(c)
    /\ UNCHANGED <<source, plan, published, approved, overlap>>

RejectPlan ==
    /\ Exists
    /\ plan.status = "pending_review"
    /\ plan' = [plan EXCEPT !.status = "rejected"]
    /\ source' = [source EXCEPT !.status = "error"]
    /\ UNCHANGED <<job, req, published>> /\ UnchangedHistory

\* mutant: a compiled plan may be regenerated too
RegenerateCompiled(c) ==
    /\ CanAsk(c)
    /\ plan.status \in {"pending_review", "rejected", "done"}
    /\ plan' = [plan EXCEPT !.status = "regenerating"]
    /\ UNCHANGED <<source, job, published, approved, deaths>>
    /\ Ask(c, "regenerate", Blank)

\* committed first, enqueued afterwards
RegeneratePlan(c) ==
    /\ CanAsk(c)
    /\ plan.status \in {"pending_review", "rejected"}
    /\ plan' = [plan EXCEPT !.status = "regenerating"]
    /\ UNCHANGED <<source, job, published, approved, deaths>>
    /\ Ask(c, "regenerate", Blank)

EnqueueRegenerate(c) ==
    /\ Asked(c, "regenerate")
    /\ Enqueue("regenerate")
    /\ Answer(c)
    /\ UNCHANGED <<source, plan, published>> /\ UnchangedHistory

\* update_source: other departments on a source loaded as ready.  An edit in
\* any other status touches neither row modelled here.
BeginDeptChange(c) ==
    /\ CanAsk(c)
    /\ source.status = "ready"
    /\ UNCHANGED <<source, plan, job, published, approved, deaths>>
    /\ Ask(c, "dept", source)

\* mutant: the pages are detached, the status is left to the worker
WriteDetachOnly(c) ==
    /\ Asked(c, "dept")
    /\ published' = {}
    /\ Enqueue("map_reduce")
    /\ Answer(c)
    /\ UNCHANGED <<source, plan>> /\ UnchangedHistory

WriteDeptChange(c) ==
    /\ Asked(c, "dept")
    /\ published' = {}
    /\ source' = Flush(req[c].seen, [req[c].seen EXCEPT !.status = "processing"])
    /\ Enqueue("map_reduce")
    /\ Answer(c)
    /\ UNCHANGED plan /\ UnchangedHistory

\* delete_source detaches the pages; the plan goes with the row (ON DELETE
\* CASCADE)
RemoveRow ==
    /\ source' = [Blank EXCEPT !.status = "deleted"]
    /\ plan' = NoPlan
    /\ UNCHANGED <<job, req>> /\ UnchangedHistory

DeleteSource == Exists /\ RemoveRow /\ published' = {}

\* the API process dies, MinIO or Redis refuses, or the row is gone
DropRequest(c) ==
    /\ req[c].op # "none"
    /\ \/ source.status = "deleted" /\ UNCHANGED deaths
       \/ Exists /\ Die
    /\ Answer(c)
    /\ UNCHANGED <<source, plan, job, published, approved, overlap>>

-----------------------------------------------------------------------------
(* Cron jobs: each SELECTs its rows and writes them by id in a later statement *)

\* what a sweep goes on to use of a row it selected
Selection(row) == [status |-> row.status, recover |-> row.recover]

\* mutant: the cutoff is shorter than a job
StaleAnyTime == TRUE

\* updated_at is older than twice the job timeout.  A running pipeline task
\* wrote the row when it started and is cancelled at the timeout, so none runs.
Stale == ~\E j \in Jobs : Running(j) /\ job[j].task \in PipelineTasks

\* mutant: the sweep gives a source up when it reaches the cap
SelectBelowCap ==
    /\ "processing" \in Sweeps /\ source.status = "processing"
    /\ source.recover < RecoverCap
    /\ Stale
    /\ ~StuckSelected
    /\ selected' = selected \union {Selection(source)}
    /\ UNCHANGED <<source, plan, job, req, published, late>> /\ UnchangedHistory

\* one run of a cron at a time
SelectStuck ==
    /\ "processing" \in Sweeps /\ source.status = "processing"
    /\ Stale
    /\ ~StuckSelected
    /\ selected' = selected \union {Selection(source)}
    /\ UNCHANGED <<source, plan, job, req, published, late>> /\ UnchangedHistory

SelectOrphan ==
    /\ "awaiting_approval" \in Sweeps /\ source.status = "awaiting_approval"
    /\ \A row \in selected : row.status # "awaiting_approval"
    /\ selected' = selected \union {Selection(source)}
    /\ UNCHANGED <<source, plan, job, req, published, late>> /\ UnchangedHistory

\* both columns are written, whatever the row holds by now
SweepStuckProcessing ==
    /\ Exists
    /\ \E row \in selected :
         /\ row.status = "processing"
         /\ source' = [source EXCEPT !.status = "error",
                          !.recover = IF row.recover < RecoverCap
                                      THEN row.recover + 1 ELSE row.recover]
         /\ selected' = selected \ {row}
    /\ UNCHANGED <<plan, job, req, published, late>> /\ UnchangedHistory

\* detaches nothing
CleanupOrphan ==
    /\ Exists
    /\ \E row \in selected : /\ row.status = "awaiting_approval"
                             /\ selected' = selected \ {row}
    /\ RemoveRow
    /\ UNCHANGED <<published, late>>

\* the row is gone, or the worker of the cron dies
DropSelection ==
    /\ selected # {} /\ selected' = {}
    /\ \/ source.status = "deleted" /\ UNCHANGED deaths
       \/ Exists /\ Die
    /\ UNCHANGED <<source, plan, job, req, published, approved, overlap, late>>

-----------------------------------------------------------------------------
(* Specification *)

\* what a job does on its own; StartX and the steps after it
JobStep(j) ==
    /\ \/ StartExtract(j) \/ GateExtraction(j) \/ AutoProceed(j)
       \/ StartCaption(j) \/ SkipCaption(j) \/ FinishCaption(j)
       \/ StartMapReduce(j) \/ ResumeAtPlan(j) \/ SkipMapReduce(j)
       \/ StartMap(j) \/ FinishMap(j) \/ Reduce(j)
       \/ AwaitReview(j) \/ AutoTriggerRefine(j)
       \/ StartRefine(j) \/ RefuseUnapproved(j) \/ BeginRefine(j)
       \/ ResumeDrafts(j) \/ WriteDraft(j) \/ FinishRefine(j) \/ Commit(j)
       \/ StartRegenerate(j) \/ FinishRegenerate(j) \/ FailRegenerate(j)
       \/ Fail(j) \/ Orphan(j)
    /\ SweepsRest

JobTrouble(j) ==
    /\ CancelSilently(j) \/ Shutdown(j) \/ Kill(j) \/ DeferIntake(j)
    /\ SweepsRest

\* a handler that was entered runs to its end
RequestStep(c) ==
    /\ \/ EnqueueUpload(c) \/ WriteRetry(c) \/ WriteApproveExtraction(c)
       \/ EnqueueRegenerate(c) \/ WriteDeptChange(c)
       \/ LoseCommit(c) \/ DropRequest(c)
    /\ SweepsRest

UserStep(c) ==
    /\ \/ Upload(c) \/ BeginRetry(c) \/ BeginApproveExtraction(c)
       \/ RegeneratePlan(c) \/ BeginDeptChange(c)
    /\ SweepsRest

PlanStep == (ApprovePlan \/ LoseApproval \/ RejectPlan \/ DeleteSource) /\ SweepsRest

StuckSweep == SelectStuck \/ SweepStuckProcessing \/ DropSelection
OrphanSweep == SelectOrphan \/ CleanupOrphan

Next ==
    \/ \E j \in Jobs : JobStep(j) \/ JobTrouble(j)
    \/ \E c \in Clients : RequestStep(c) \/ UserStep(c)
    \/ PlanStep \/ StuckSweep \/ OrphanSweep

Spec == Init /\ [][Next]_vars

(* arq keeps polling, a handler runs on, the crons fire every ten minutes  *)
(* and every hour.  Users owe nothing.                                     *)
Fairness ==
    /\ \A j \in Jobs : WF_vars(JobStep(j))
    /\ \A c \in Clients : WF_vars(RequestStep(c))
    /\ WF_vars(StuckSweep)
    /\ WF_vars(OrphanSweep)

FairSpec == Spec /\ Fairness

-----------------------------------------------------------------------------
(* Properties *)

TypeOK ==
    /\ source \in SourceRow
    /\ plan \in PlanRow
    /\ job \in [Jobs -> Job]
    /\ req \in [Clients -> Request]
    /\ selected \subseteq Selections
    /\ published \subseteq Pages
    /\ approved \subseteq Contents \union {NoContent}
    /\ overlap \in BOOLEAN
    /\ late \subseteq Jobs
    /\ deaths \in 0..MaxDeaths

\* A source shown as ready has pages in the wiki, however many jobs and
\* department changes raced: only run_commit_phase writes "ready", and every
\* handler that detaches pages takes the status away in the same commit.
ReadyIsPublished == source.status = "ready" => published # {}

\* Plan review before write: as long as the jobs of a source never overlapped,
\* each page set COMMIT wrote comes from a plan content that was approved.
CompiledWasApproved ==
    ~overlap => \A p \in published : p.content \in approved

\* Through breaker trips, kills and retries, COMMIT is never handed a partial
\* batch of drafts while the jobs of a source do not overlap.
CommitsWholeBatch ==
    ~overlap => \A p \in published : p.drafts = "all"

\* retry_source routes by pipeline_phase alone; run_refine_pipeline insists on
\* the plan status.  The two agree: a retry sent to REFINE is not refused.
RetryRouteAccepted ==
    ~overlap => (source.phase \in {"refine", "verify", "commit"} => MayRefine)

PhaseRank == [none |-> 0, map |-> 1, reduce |-> 2, plan_review |-> 3,
              refine |-> 4, verify |-> 5, commit |-> 6]

\* Resume on crash: once REFINE began, no crash, retry or restart makes the
\* source repeat an earlier phase (and pay for its LLM calls again), except
\* the step from commit back to verify of a re-run.
ResumeNeverRepeats ==
    [][~overlap' /\ Exists' /\ PhaseRank[source.phase] >= 4
         => PhaseRank[source'.phase] >= PhaseRank[source.phase]
            \/ (source.phase = "commit" /\ source'.phase = "verify")]_vars

\* auto_recover_count is reset by an in-memory assignment that a flush skips
\* when the job loaded 0.  The sweep's cutoff keeps it from counting up behind
\* a running job, so a source that becomes ready or plan_ready shows 0, as the
\* comment of the column says (models.py:134), unless a job started between the
\* SELECT and the UPDATE of a sweep and still runs.
SuccessResetsRecover ==
    [][source'.status \in {"ready", "plan_ready"} /\ source'.status # source.status
         => source'.recover = 0 \/ late # {}]_vars

\* No source stays 'processing': a job finishes it or the sweep flips it.
ProcessingEnds == source.status = "processing" ~> source.status # "processing"

\* An approved plan is picked up by a job, or the source is left in a status
\* that the retry endpoint accepts, as long as the jobs do not overlap.  A
\* retry whose job is lost leaves 'pending', which nothing picks up.
ApprovedIsHandled ==
    plan.status = "approved" /\ source.status # "pending"
      ~> \/ plan.status # "approved" \/ overlap
         \/ source.status \in {"error", "plan_ready"}

-----------------------------------------------------------------------------
(* What the comments promise and the code does not keep *)

\* README: plan review before write, for jobs that overlap as well: every
\* page set COMMIT wrote comes from a plan content that was approved.
NothingCompiledUnreviewed == \A p \in published : p.content \in approved
=============================================================================
