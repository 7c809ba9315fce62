# TLA+ models of Arkon

Arkon turns uploaded documents into a reviewed wiki.  This directory holds TLA+
models of the parts of it that are hard to test: what happens to a source when
jobs, API requests, cron sweeps and crashes interleave; how wiki pages, drafts,
skills and embeddings change under concurrent requests that lock little or nothing;
how the coroutines of one worker share the memory of a local LLM server; and the
rules of who sees and changes what, which the code states many times over.  TLC
checks the models on small instances; TLAPS proves every safety property of the
passing runs for every instance.

    tlc -workers 2 -config Review.cfg MCReview
    tlapm Batch_proofs.tla

`PROJECT.json` holds the machine-readable side: components, runs, the lines of
source each definition stands for, the mutants that show each property can fail,
the findings, the hazards and the theorems.

## The system

FastAPI processes serve the API; arq workers run the long jobs; Postgres (with
pgvector), Redis and MinIO hold the state; a Next.js frontend and an MCP server are
clients.  All paths below are under `src/app/`.

| Part | State | Operations | What makes it correct |
|---|---|---|---|
| Source ingestion (`worker.py`, `ai/mrp/pipeline.py`, `routers/sources.py`) | rows of `sources` and `source_compilation_plans`, jobs in Redis | tasks extract, caption, map-reduce, refine, regenerate; endpoints upload, retry, approve, reject, regenerate, edit, delete; two sweeps | only approved plans are compiled, a ready source has pages, a crash loses no finished work, nothing stays stuck |
| MRP phases (`ai/mrp/mapper.py`, `reducer.py`, `writer.py`, `verifier.py`) | chunk extracts, `plan_json` with drafts | map, reduce, write, verify, digest | a batch is complete before it is committed, no item of it is done twice |
| Local orchestrator (`ai/local_orchestrator/`) | `_state`, `_current_slot`, `_lock`, resident models | `ensure_loaded`, `run_phase`, `shutdown`, drain | at most one model resident, no call blocks for ever |
| Wiki (`services/wiki_service.py`, `routers/wiki*.py`, `mcp/tools.py`) | pages, revisions, drafts, advisory locks | propose, approve, reject, edit, rollback, create, delete, compile | versions are unique and consecutive, an approval meets the text it was compared with |
| AI pre-review (`services/contribution_service.py`, `services/ai_review/`) | draft status, review round, `ai_check_status`, jobs | submit, request changes, resubmit, withdraw, review job, sweep | a running check ends |
| Skills (`services/skill_service.py`, `routers/skill*.py`) | skills, versions, contributions, temp files, jobs | upload, ingest, set current, delete; create, edit, submit, approve contributions; cron | the current version exists, an approved contribution became a version |
| Embedding migration (`worker.reembed_all_pages_task`, `routers/admin_embeddings.py`) | job rows, vectors per specification, active specification | switch, cancel, re-embed, flip, clean-up | search keeps the pages it finds, queries meet vectors of their own model |
| Organization, workspaces, permissions (`routers/rbac.py`, `roles.py`, `projects.py`, `services/permission_engine.py`) | employees, departments, roles, workspaces, members, links | create, change, delete each; decide for a caller | all routes give one answer, the last administrator stays |
| OAuth and MCP access (`services/oauth_service.py`, `mcp_auth_service.py`, `mcp/`) | codes, one token per employee | authorize, exchange, rotate, revoke; resolve the scope of a token, filter tools | a dead token stays dead, a hidden tool is useless |
| Notifications, configuration, providers, statistics, audit | rows and caches | | see "Not modelled" |

How they interact: an endpoint writes a row and enqueues a job by name with an id;
the job opens a session of its own, reads the row again, and enqueues the next task.
The COMMIT phase of an ingestion job writes wiki pages and vectors.  Every LLM call
of a job with a local profile goes through the one `PhaseRouter` of its process.

Four facts about the runtime shape every model here.

* The session factory sets `expire_on_commit=False` (`database/__init__.py:23-27`):
  an object keeps the values it had when it was first loaded, and a flush sends
  only the columns that changed in memory.  Postgres runs at READ COMMITTED.
* A job whose function raises is done.  A job that is cancelled by a shutdown, or
  whose worker dies, runs again, up to `max_tries`.  Delivery is at least once.
* The handlers of the pipeline tasks catch `BaseException`, those of the
  regenerate and caption tasks do not catch a cancellation.
* Coroutines switch only at an await.

## What is modelled

| Module | Models | From |
|---|---|---|
| `Ingestion` | one source: its two rows, its jobs, the requests in flight, the sweeps | `worker.py`, `ai/mrp/*`, `routers/sources.py` |
| `Batch` | inside one source: every chunk row and every page draft | `ai/mrp/mapper.py`, `writer.py`, `pipeline.py` |
| `PhaseRouter` | the router, the lock, the resident models, its callers | `phase_router.py`, `lms_client.py`, `lms_client_guarded.py` |
| `ColdSwap` | the abstract promise about LM Studio's memory | docstring and `ensure_loaded` of `phase_router.py` |
| `Review` | pages, revisions, drafts, locks, requests of the web API and of MCP | `services/wiki_service.py`, `routers/wiki*.py`, `mcp/tools.py` |
| `PageHistory` | the abstract promise about the texts of a page | `database/models.py` |
| `PreReview` | the AI check of a draft: its job, its sweep, the life of the draft | `services/contribution_service.py`, `ai_review/runner.py`, `worker.py` |
| `Skills` | one skill: versions, ingestions, contributions, temp files | `services/skill_service.py`, `routers/skill*.py`, `worker.py` |
| `Contributions` | the choice between the two: one behaviour is about a wiki draft or about a skill | |
| `Access` | accounts, departments, roles, workspaces, tokens and codes, and the requests that change them | `routers/rbac.py`, `roles.py`, `projects.py`, `oauth.py`, `services/*` |
| `Routes` | over the rows of `Access`: every decision who lists, opens, proposes, reviews or is told of something | `services/permission_engine.py`, `routers/*`, `mcp/*` |
| `Embeddings` | pages, their vectors, the migration jobs, the settings | `worker.py`, `routers/admin_embeddings.py`, `services/embedding_storage.py` |
| `MCIngestion`, `MCPhaseRouter`, `MCReview`, `MCAccess`, `MCEmbeddings` | symmetry, a state constraint, role bundles for TLC | |
| `Ingestion_proofs`, `PhaseRouter_proofs`, `Batch_proofs`, `Review_proofs`, `Contributions_proofs`, `Embeddings_proofs`, `Access_proofs`, `Routes_proofs` | theorems and proofs | |

How the modules meet.  `Contributions` composes `PreReview` and `Skills` by a choice,
for they share the states of `contribution_service.py` and no row.  `Routes` extends
`Access`, so its decisions are checked in every state that the requests of `Access`
reach.  `Batch` opens up two steps of `Ingestion`, MAP and the writing of drafts:
`Ingestion` has overlapping jobs and a batch of drafts that is none, some or all,
`Batch` has one job at a time and every item of the batch.  `Review` and `PreReview`
have a draft in common; the check never changes the status of a draft and no decision
reads the check, so each keeps its half of the row.  `PhaseRouter` meets `Ingestion`
only through outcomes: a phase of a job that uses the router ends with an answer or an
error, which `Ingestion` allows at every await.  `Access` decides who may call; the
actions of `Review` and `Skills` leave that out.

### Ingestion

`source` and `plan` are the committed rows.  `job[j]` is a slot for an arq job: its
task, the await it stands at, how often it was tried, and its copies `sv` and `pv`
of the rows it loaded.  `req[c]` is a request that spans more than one commit.
`published` holds one record per COMMIT: the plan content and how much of the batch
was handed to it.  `selected` are the rows a cron has read and not written yet.
`approved`, `overlap` and `late` are history variables, they guide nothing; `deaths`
is history and the bound on failures.

An action is the code from one commit (or enqueue) to the next.  `Flush` and
`FlushPlan` are SQLAlchemy's flush: a column that equals the copy keeps whatever
value the row has by now.  The tasks map as follows.

| Code | Actions |
|---|---|
| `ingest_file_task`, `ingest_url_task` | `StartExtract`, `GateExtraction`, `AutoProceed` |
| `caption_images_task` | `StartCaption`, `SkipCaption`, `FinishCaption` |
| `ingest_map_reduce_task`, `run_mrp_pipeline` | `StartMapReduce`, `ResumeAtPlan`, `SkipMapReduce`, `StartMap`, `FinishMap`, `Reduce`, `AwaitReview`, `AutoTriggerRefine` |
| `ingest_refine_task`, `run_refine_pipeline`, `run_commit_phase` | `StartRefine`, `RefuseUnapproved`, `BeginRefine`, `ResumeDrafts`, `WriteDraft`, `FinishRefine`, `Commit` |
| `regenerate_plan_task` | `StartRegenerate`, `FinishRegenerate`, `FailRegenerate` |
| error handlers, arq, `_check_intake_paused` | `Fail`, `CancelSilently`, `Shutdown`, `Kill`, `Orphan`, `DeferIntake`, `Finish`, `Chain` |
| `routers/sources.py` | `Upload`, `BeginRetry`/`WriteRetry`, `BeginApproveExtraction`/`WriteApproveExtraction`, `ApprovePlan`, `RejectPlan`, `RegeneratePlan`/`EnqueueRegenerate`, `BeginDeptChange`/`WriteDeptChange`, `DeleteSource`, and `LoseApproval`, `LoseCommit`, `DropRequest` when a step of them fails |
| crons, a SELECT and an UPDATE or DELETE by id each | `SelectStuck`/`SweepStuckProcessing`, `SelectOrphan`/`CleanupOrphan`, `DropSelection` |

Abstractions, all on the data side.

* One source.  Two sources share no row of these tables.
* A plan is a value of `Contents`, a batch of drafts is `none`, `some` or `all`; a
  stub that the writer leaves for a page counts as a draft to be written (`some`).
* `ApprovePlan`, the second half of retry and of a department change are atomic
  although they enqueue before they commit: they flush first, so the row is
  locked and the first UPDATE of the job waits for the commit.
  `approve_extraction` does not flush first and takes two steps.
* The sweep's time limit is twice the job timeout.  A running pipeline task wrote
  the row when it started and is cancelled at the timeout, so the SELECT finds the
  row only when no such task runs (`Stale`).  The UPDATE comes in a later statement
  of the same transaction and looks at nothing: a job may begin, and end, between the
  two (`late` names those that began there and still run).
* `recover` stops at the cap: only whether it is below is read anywhere.
* `published` records that COMMIT ran.  Pages it skips or fails to write, which the
  code at most logs, are not told apart here but in `Batch` (`dropped`).

### PhaseRouter and ColdSwap

A caller is a coroutine of one worker that calls `run_phase` or `shutdown`; `pc`
names the await it is at, `want` the slot it needs (`None` for a shutdown).
`lock` is `_lock`, `state` and `slot` are `_state` and `_current_slot`
(`_current_instance_id` is set together with it).  `loaded` is what LM Studio holds.
A caller that leaves the lock behind goes on in `drain`, `settling` and `relock`,
the detour of `_load_slot` after an out-of-memory error.  `Cancel` is a
`CancelledError` at each await, with what the `finally` blocks do there.  An
unload skips a model that answers a request (`Busy`); the poll after it empties the
memory, by SIGKILL if need be, when the worker process is visible
(`WorkerVisible`), and waits for nothing when it is not.  A load that raises, a timeout
included, may still have loaded its model, or load it when LM Studio gets to it
(`LoadFails`; `leftovers` counts these, `MaxLeftovers` bounds them).  Here it joins
`loaded` at once.  One that appears later could outlive an unload in between, but it
only adds to `loaded`, and of the properties only `SwapsCold`, which is not claimed with
leftovers, can fail by an addition.  `get_router` with a
changed configuration shuts the router down and builds another with a lock of its own
(`phase_router.py:620-635`); callers that still hold the old one are not modelled.

`ColdSwap` has one variable, the set of resident models, and two steps: load into
an empty memory, drop everything.  `PhaseRouter` instantiates it with its own
`loaded`; `SwapsCold` is its specification.

### Batch

`chunk` is the status of each extract row, `drafts` the page drafts in `plan_json`,
`wiki` what COMMIT published (one scope stands for all), `dropped` what the last COMMIT
was given and did not write, `phase` the pipeline phase.  `job` is the job under way:
the items left, the results in memory, the breaker (`streak`, `tripped`) and `stale`, a
session whose rows a rollback expired, so that the next one it reads raises.

| Code | Actions |
|---|---|
| `run_map_phase`, `_process_chunk`, the retry round | `StartMap`, `ExtractChunk`, `StartRetryRound`, `RetryChunk`, `FinishMap` |
| `run_refine_phase` with its pruning, sequential and parallel writers | `StartRefine`, `WritePage`, `AbortBatch`, `FinishRefine` |
| `run_refine_pipeline` at `verify` or `commit` | `ResumeDrafts`, `Commit` |
| a job that raises or dies, with the tasks `asyncio.gather` leaves behind | `Fail` |

Items start in their order and at most `width` at a time (`InFlight`, the semaphore).
`_commit_draft` swallows a failed commit: the draft is then in memory only.  COMMIT
passes over a page whose action is neither CREATE nor UPDATE (`pipeline.py:193`, `215`)
and swallows the exception of a single page (`272-273`); a statement that the database
refuses poisons the session instead, and the job fails as a whole (`Fail`).

### Review and PageHistory

A request is a transaction in a client slot `tx[c]`: it begins with what it reads, an
approval then takes the advisory lock of a slug and flushes item by item (`PickDraft`,
`SkipDraft`, `StageApproval`, `RefuseApproval`), and a `Commit...` action ends it or
`Abort` does.  Only flushed rows are locked; the unique index on page and version is
`Accepts`.  Rejection, change request, withdrawal and resubmission check the status at
the start and write it at the end (`CommitStatus`).  Direct edit, rollback and COMMIT
take the version from what they read (`DirectEdit`, `RollbackToRevision`,
`ApplyUpdate`, `CommitWrite`); when the new text is the one the session loaded, as in
a save without a change, the flush sends the version and leaves the text out (`same`),
so that what a deletion rewrote meanwhile stays.  An item of a bulk approval that is
refused is rolled back to its savepoint, and the advisory lock taken inside it goes with
it (`RefuseApproval`).  `approve_draft`'s refresh, check and flush are one step: the
lock, and then the row, are its own.  `DeletePage` rewrites the text of a page that links to
the deleted one, without a revision.  The `Tool...` actions are the MCP tools: the
same transactions with fewer options.  A text is named by where it comes from.

`PageHistory` has one variable, the published texts of each page: a step appends or
the page vanishes with its history.  `Review` instantiates it with the texts its
revision rows give in the order of their versions; `AppendOnly` is its specification.

### PreReview, Skills and Contributions

`PreReview` has the row of a draft (status, round, `ai_check_status`, the round of the
verdict), the requests that are not committed yet and the jobs, which are enqueued
before that commit (`EnqueueAiReview`).  A job is picked, marks the row, checks round
and status again and writes its verdict, each in its own step; it may die between any
two and come back, time out, or be swept.

`Skills` has the skill row, its version rows, the zip files of uploads, the ingest
jobs, the contributions and the requests in flight.  An upload is `Upload`,
`CommitUpload`, `EnqueueIngest` or `FailUpload`; an approval reads (`ApproveContribution`),
copies files (`WriteFiles`) and commits (`CommitContribution`); a commit writes the
columns the request changed (`Saved`).  Uploads never repeat a content.

### Access and Routes

`Access` holds the rows that decide who may do what; every endpoint that changes one
is a request that checks, at its beginning, what the code checks, and commits later.
`Attaches` is `get_current_user`, which gives an account without a role the Employee
role and commits that with the request; the MCP server reads the account as it is, so
there are two sets of permissions, `RestPermissions` and `McpPermissions`.  Taking a
document out of a workspace asks only who calls, not whether the workspace exists
(`RemoveProjectSource`).

`Routes` has one operator per decision: the check of a document and the filter of its
list, the check of a page and the scopes, graph, index and search behind it, the tools
of MCP and the predicates that hide them, the queues of reviewers and the choice of
whom to tell.  They are functions of the rows; that two of them agree is a state
property, checked whenever no request is under way (`AtRest`).  Which documents are
ingested is not a row of `Access`: the decisions over MCP, which ask for it, are compared
for every set of ingested documents, and for every status a list can be asked for.  The
graph of all pages and the graph around a slug are two decisions (`WikiGraph`,
`WikiGraphAround`), because the second asks for no scope.

### Embeddings

A vector is a record of page, specification and the model that made it.  `Model` gives
the model that the registry binds for a specification: the custom one is named by a
setting, and in local mode (`local`, `UpdateLocalAI`) the local model serves every
specification (`registry.py:129-144`).  The registry's reads of these settings are one
step.  A migration is a
request (`SwitchEmbeddingModel`, `CommitSwitch`, `Enqueue`), a job with its list of
pages taken once (`StartJob`), batches (`ReadBatch`, `CommitBatch`, `FailBatch`), the
flip with its clean-up (`ReadForFlip`, `Flip`), cancels and deaths.  The flip loads the
setting before it assigns it: when it read its own specification there, the UPDATE is
left out (`flips`).  A batch may be lost to what the database refuses, a page that is
gone or a vector of another dimension (`LoseBatch`).  A compilation reads specification
and model at its start and writes its vector at its end (`BeginCompile`, `EndCompile`);
when the embedding fails there the page is written without a new one.  Pages people
create have no vector until the next migration, an edit leaves the old one.  A search
binds a model for its question and, after an await, reads the active specification
again (`EmbedQuery`, `SearchPages`).

## Runs

| Run | Instance | Checks | Distinct states |
|---|---|---|---|
| `IngestionSerial` | 2 jobs, 1 request, 2 contents, both sweeps, 3 tries, 3 deaths, cap 2; states with overlapping work are cut off | `TypeOK`, `ReadyIsPublished`, `CompiledWasApproved`, `CommitsWholeBatch`, `RetryRouteAccepted`, `ResumeNeverRepeats` | 273 thousand |
| `IngestionRaces` | 2 jobs, 1 request, 1 content, the stuck sweep, 2 tries, no death, cap 1, no admin | `ReadyIsPublished`, `SuccessResetsRecover` | 1.9 million (three minutes) |
| `IngestionLiveness` | 1 job, 1 request, 1 content, both sweeps, URL, auto-approval, 2 tries, 2 deaths, cap 1 | `ProcessingEnds`, `ApprovedIsHandled` | 269 thousand (two minutes) |
| `Batch` | 4 chunks, 4 pages, width 1 or 2, threshold 2, 5 jobs, 2 failed commits | `TypeOK`, `PublishedWhole`, `BreakerStops`, `KeepsFinishedWork` | 98 thousand |
| `PhaseRouterSwap` | 4 callers, no failures, worker visible | `TypeOK`, `SwapsCold` | 100 thousand |
| `PhaseRouterTrouble` | 2 callers, 2 out-of-memory errors, 2 leftovers, 2 cancellations, worker not visible | `LoadsSerialized`, `CachedIsLoaded`, `CallsReturn` | 147 thousand |
| `Review` | 2 clients, 4 requests, 2 page ids, 2 slugs, 2 drafts, versions up to 3 | `TypeOK`, `HistoryComplete`, `ConflictsAreSeen`, `ApprovedIsOnThePage`, `AppendOnly` | 146 thousand |
| `Contributions` | 1 draft, 2 requests at a time, 2 rounds, 2 tries; or 1 skill, 2 uploads, 1 contribution, 2 requests at a time and 3 in all | `TypeOK`, `RunningEnds`; `CurrentVersionExists`, `ApprovedContributionLanded`, `TempFilesGo` | 257 thousand |
| `Access` | 2 employees, 1 department, workspace, document, role and code; 2 requests that overlap | `AccessTypeOK`, the four `...RoutesAgree`, `HiddenToolsAreUseless`, `DeadTokensStayDead`, `LastAdminLostToARace` | 671 thousand |
| `Embeddings` | 2 pages, 2 jobs, 2 requests, a fixed and a custom specification, 1 name, 2 tries, 1 compilation, 1 search | `EmbeddingsTypeOK`, `QueriesMatchVectors`, `SearchKeepsPages` | 1.6 million (a minute and a half) |
| `IngestionUnreviewed` | no deaths, no sweeps | `NothingCompiledUnreviewed`, violated | |
| `ReviewCreateApproval` | as `Review` | `CreateDraftsMaterialise`, violated | |

What the properties say of the ingestion and of the router.

* `CompiledWasApproved`, `CommitsWholeBatch`: as long as the work on a source never
  overlapped, whatever died or was retried, each set of pages COMMIT wrote comes
  from an approved content and from a complete batch.  The premise `~overlap` is
  needed: see below.
* `RetryRouteAccepted`: `retry_source` looks at the phase, `run_refine_pipeline` at
  the plan status.  They never disagree, so a retry cannot be refused for ever.
* `ResumeNeverRepeats`: once REFINE began, the phase never goes back, except from
  commit to verify in a re-run.
* `ReadyIsPublished`: holds under arbitrary overlap.  It combines two handlers that
  detach pages and write the status in one commit, a status written from a
  stale copy, and the rule that only COMMIT writes `ready`.
* `SuccessResetsRecover`: `auto_recover_count = 0` is skipped by the flush when the
  job had loaded 0.  That is harmless because the sweep selects no source with a
  running job - but for a job that begins between the sweep's SELECT and its UPDATE
  (`late`): it can leave the source ready with a count of 1.
* `ProcessingEnds`, `ApprovedIsHandled`: no source is stuck in `processing`, and an
  approved plan is picked up or can be retried.  The second one leaves out sources
  in `pending`: a retry whose job is lost (a failed deferral, `worker.py:80-81`,
  only logs) leaves `pending`, which retry refuses and no sweep reads.
* `CachedIsLoaded`: the instance `ensure_loaded` returns without asking LM Studio is
  resident whenever the lock is free, unless an out-of-memory error or a cancellation
  happened; loads that raised, with or without leaving their model, do not change it.
* `SwapsCold`: refinement of `ColdSwap`, for calls that are not cancelled and loads that
  neither run out of memory nor raise with the model resident: after such a load the
  router knows of no slot, unloads nothing and loads the next one beside it.  It needs
  `WorkerVisible`: with LM Studio on another host the poll sees no worker, a model that
  was busy during the unload stays, and the next one is loaded beside it.
* `LoadsSerialized`: a caller inside an unload or load holds the lock.  It excludes
  behaviours with both an out-of-memory error and a cancellation: a caller
  cancelled while it takes the lock back releases a lock it does not hold.
* `CallsReturn`: every call ends, with every error and cancellation.

Of the batches.

* `PublishedWhole`: a source at `commit` has all pages in the wiki and none of them is
  a stub, whatever breakers, crashes and retries came between, with two gaps.  `lost`:
  when the commit of the last draft fails, the phase moves on by what is in memory,
  VERIFY raises on the expired rows, and the retry publishes the drafts that were
  committed.  `dropped`: a page that COMMIT was given and skipped or failed to write.
* `BreakerStops`: writers that wait for the semaphore when the breaker trips do not
  start; those under way end.
* `KeepsFinishedWork`: no chunk is extracted and no page written twice, and neither is
  taken back, also not by the pruning of stubs or the late commits of a dead job.

Of the wiki.

* `HistoryComplete`, `AppendOnly`: approvals, bulk approvals, edits, rollbacks and
  compilations compute versions from what they read and take different locks or none;
  with the unique index the revisions stay consecutive, the page shows the last one and
  `PageHistory` is implemented.  A page whose links a deletion rewrote is excepted from
  the second claim: there a newer text may be lost, and a save or rollback that leaves
  the text out adds a revision whose text the page does not show.
* `ConflictsAreSeen`: an approval that is not forced lands on the version its draft was
  written against.  The reviewer's check is older than the lock; the refresh after it
  is what makes this hold.
* `ApprovedIsOnThePage`: an item of a bulk approval that fails leaves no status behind.

Of contributions.

* `RunningEnds`: a check that is `running` ends or is swept.  Nothing like it holds of
  `queued`: a job that ran before the commit leaves it for ever.
* `CurrentVersionExists`, `ApprovedContributionLanded`: uploads, approvals, rejections,
  `set_latest`, ingestions and the deletion write from rows read earlier, and still a
  skill's current version has a row and an approved contribution is a version.
* `TempFilesGo`: the file of an upload is removed by its job or by the cron.

Of access.

* `DocumentRoutesAgree`, `WikiRoutesAgree`, `WorkspaceRoutesAgree`,
  `DraftRoutesAgree`, `HiddenToolsAreUseless`: what a list shows can be opened and
  conversely, on the web and over MCP; reviewers hear of the drafts they may review.
  Their premises are the differences the code has.  An account without a role
  (`Settled`) has default permissions over MCP only.  Drafts that create a page in a
  workspace reach nobody but those who may write everywhere, and these are told of
  drafts they cannot open.  Of the documents a list over MCP shows, those not ingested
  yet can be read by a caller with the `all` scope only (`mcp/tools.py:86`).  The check of a
  skill is compared for callers with a permission on skills, which it does not ask for.
  An administrator lists and searches the pages of every scope over MCP
  (`mcp/tools.py:279`, `503`), while `read_wiki_page` tries the global page of a slug, then
  those of the caller's own departments and workspaces (`382-406`), so what is listed to
  an administrator need not open.  A page around a slug opens only if the graph of all
  pages draws it too.  A tool that is hidden would serve pages of inactive workspaces.
* `DeadTokensStayDead`: a rotated or revoked token is not accepted again, though
  `exchange_code` checks `used` in one statement and writes it in another.
* `LastAdminLostToARace`: a workspace loses its last administrator only with the
  account or when two removals counted the same administrators.

Of the embeddings.

* `SearchKeepsPages`: the promise of no zero-result window.  A page that search finds
  stays found, but for a page that came after the job counted, a flip whose vectors
  another migration has dropped, and a specification set by hand, also when the flip saw
  it there, did not write its own, and it was changed back before the clean-up.
* `QueriesMatchVectors`: vectors are made by the model their specification stands for,
  also by a compilation that spans a flip, and a search meets vectors of the model that
  embedded its question unless a flip came between its two reads - until the custom
  model is renamed, the local mode changed or the specification set by hand.

Why the bounds are enough.  Two job slots are the smallest number at which a job
runs beside another one, and a job that is redelivered beside its successor uses
both.  One request in flight suffices for a race with a
job and with every action that is atomic (approve, reject, delete, the sweeps); in
`IngestionSerial` a second one would never be used, since overlapping work is cut off.
Two contents tell an approved plan from another.
Two tries let a job come back once, three let it come back after the
redelivered copy died too.  `IngestionRaces` has no deaths, to leave room for the two
steps of the sweep; crashes and sweeps together are those of `IngestionSerial`, which
checks `ReadyIsPublished` too, and the theorems hold for all of it.  `Sweeps` says which
crons run; the orphan sweep, which deletes a source that awaits its approval, has no part
in a race of two jobs.  A cap of 1 separates below and at the cap.  Four callers
of the router let two wait for each slot; no property relates more than two.
Deadlock is not checked for `Ingestion`: a deleted source has no next step, and
neither has one whose users do nothing.  The router never stops and is checked.
The other modules stop because each bounds the requests of a behaviour.

In `Batch` four items let two be done, one be under way and one wait, and a threshold
of 2 lets the breaker trip before, at and after the last of them; four chunks are
needed for the 30 % rule to have a case on each side (one of four is too few, two are
enough).  Two jobs bring a source from upload to
`commit`, so five leave room for three that stop.  In `Review` two requests suffice
for a stale read of any kind; drafts may be there from the start, so four in all leave
room for an approval and a bulk approval beside two writers; a version of 3 gives two
writes to one page.  In
`Contributions` a job can come back once and a draft be resubmitted once.  `Access` starts
in every organization of its instance, so two requests suffice for each race of two; its
properties compare decisions in one state, so two accounts and one row of a kind give
each of them a case on either side.  In `Embeddings` two pages allow a batch that
fails beside one that does not, and two jobs are all that can be in flight when two
requests passed the same check.  One name is enough: a request that renames the custom
model ends the claim of `QueriesMatchVectors`, and `SearchKeepsPages` reads no model.

Every passing property has a mutant, an operator beside the action it replaces and
marked "mutant" in the modules (`FinishIncomplete`, `LoadFailsLocked`, ...), each of
them a plausible bug: the property fails when the action is replaced by it.

Fairness.  `Ingestion`: weak fairness of each job's steps (arq polls, awaited calls
end or time out), of a handler that was entered, and of the two crons.  Users, deaths
and deferrals owe nothing.  `PhaseRouter`: weak fairness of a caller outside a wait,
since each request has a timeout, and strong fairness of taking the lock, since
`asyncio.Lock` is first in, first out.  `PreReview` (`ReviewFairness`): a worker takes
jobs off the queue, arq ends what it started (its job timeout), the cron runs.
`Skills` (`SkillsFairness`): requests end, arq ends a running job, the cron runs; a
queued ingestion owes nothing, so `TempFilesGo` rests on the cron alone.  The other
modules state no liveness and no fairness.

## What the code does not keep

Two disagreements with what the repository says are runs that TLC finds violated.

* `IngestionUnreviewed`: jobs of one source are not serialized.  A retry of a source
  in `plan_ready` beside an approval or a regeneration exchanges the plan under the
  refine job, and pages of a content nobody approved are compiled (`README.md:31` of
  the repository; `routers/sources.py:799`).
* `ReviewCreateApproval`: `approve_draft` adds a revision 1 beside the revision 1 of
  `apply_create`; the unique index refuses it, so no draft that creates a page can be
  approved (`services/wiki_service.py:922`, against `routers/wiki_drafts.py:725`).

Others are in the models and no property claims the contrary.

* A job that begins between the SELECT and the UPDATE of the stuck sweep, whose
  transaction locks nothing, is overwritten: its source may end ready with an
  `auto_recover_count` of 1 (`worker.py:1086-1116`, `ai/mrp/pipeline.py:300`, against the
  comment at `database/models.py:134`).
* A load that raised although its model is resident leaves two models in memory
  (`phase_router.py:461-509`, against `142`, "Only one slot ... loaded at a time").
* COMMIT drops pages and the source is ready all the same (`ai/mrp/pipeline.py:193`, `215`,
  `272-273`, `287-300`, against `148`, "all pages ... atomically").
* The graph around a slug is drawn without a check (`routers/wiki.py:646`,
  `services/wiki_service.py:199-256`), under the comment "check access to center page
  first" (`645`).
* `can_access_skill` never asks for `own_dept` (`services/permission_engine.py:188-193`,
  against its docstring, `174-178`); the routes ask for a permission of their own.
* A page that a compilation adds after a migration counted the pages is lost to the
  search at the flip (`worker.py:621-628`, `688`, against `README.md:83` of the
  repository, "no zero-result search window").
* A department change on a ready source detaches its pages and enqueues a job that
  returns at once, because the phase is still `commit` (`ai/mrp/pipeline.py:388-390`,
  against the comment at `routers/sources.py:492`).
* The deferred copy of a regenerate job lacks `user_note` and raises before its handler
  exists: the plan stays `regenerating` (`worker.py:78`).
* After an out-of-memory drain `_load_slot` does not look at `_current_slot` again and
  loads beside the model of another caller (`phase_router.py:480-498`).
* A page whose draft was the last of its batch and whose commit failed is left out of
  the wiki (`writer.py:1093`).
* The default permissions of an account without a role end with its first request to
  the web API, which gives it the empty Employee role (`services/auth_service.py:154`).
* The editors of a workspace are neither told of nor shown the drafts that create a
  page in it (`services/contribution_service.py:169-174`, `routers/wiki_drafts.py:320-342`).

## What is proved

Every invariant and every action property of the passing runs is a theorem, for every
value of the constants.  The assumptions are those of the modules: null values are
distinct, numeric bounds are naturals (`IngestionAssumption`, `PhaseRouterAssumption`,
`BatchAssumption`, `BoundsAssumption`, `NoneAssumption`, `SkillsAssumption`,
`PreReviewAssumption`, `EmbeddingsAssumption`, `AccessAssumption`), and a department, a
workspace and the global scope are told apart (`ScopesDiffer`: in the code they are ids
of two tables and a constant).  TLC evaluates each assumption in the runs.

| Theorem | Statement | Argument |
|---|---|---|
| `Ingestion_proofs!TypeCorrect` | `Spec => []TypeOK` | one lemma per action over lemmas about `Flush`, `Finish`, `Chain`, `Enqueue` |
| `Ingestion_proofs!ReadyPublished` | `Spec => []ReadyIsPublished` | `ReadyInv` |
| `Ingestion_proofs!SuccessResets` | `Spec => SuccessResetsRecover` | `RecoverInv` |
| `Ingestion_proofs!PlanReviewedBeforeWrite` | `Spec => []CompiledWasApproved` | `SerialInv` over `RecoverInv` |
| `Ingestion_proofs!WholeBatch` | `Spec => []CommitsWholeBatch` | `SerialInv` |
| `Ingestion_proofs!RetryAccepted` | `Spec => []RetryRouteAccepted` | `SerialInv` |
| `Ingestion_proofs!ResumeProved` | `Spec => ResumeNeverRepeats` | `SerialInv`, with `PhaseOnward` per step |
| `PhaseRouter_proofs!TypeCorrect` | `Spec => []TypeOK` | with `WantsSlot` |
| `PhaseRouter_proofs!SerializedLoads` | `Spec => []LoadsSerialized` | `LockInv` |
| `PhaseRouter_proofs!CacheTruthful` | `Spec => []CachedIsLoaded` | `CacheInv` over `LockInv` |
| `PhaseRouter_proofs!ImplementsColdSwap` | `Smooth => (Spec => SwapsCold)` | `SwapInv` over `LockInv` |
| `Batch_proofs!TypeCorrect` | `Spec => []TypeOK` | `BatchInv` |
| `Batch_proofs!PublishesWhole` | `Spec => []PublishedWhole` | `BatchInv` |
| `Batch_proofs!WorkKept` | `Spec => KeepsFinishedWork` | `BatchInv`, with a lemma each for chunks and drafts |
| `Batch_proofs!BreakerHolds` | `Spec => []BreakerStops` | `BreakerInv` over `BatchInv` |
| `Review_proofs!TypeCorrect` | `Spec => []TypeOK` | `ReviewInv` |
| `Review_proofs!NoGapInHistory` | `Spec => []HistoryComplete` | `ReviewInv` |
| `Review_proofs!UnforcedApprovalsAreCurrent` | `Spec => []ConflictsAreSeen` | `ReviewInv` |
| `Review_proofs!ApprovedIsPublished` | `Spec => []ApprovedIsOnThePage` | `ReviewInv` |
| `Review_proofs!PagesImplementHistory` | `Spec => AppendOnly` | `ReviewInv`; per page a step is a `Publish`, a `Vanish` or a stutter of `PageHistory` |
| `Contributions_proofs!TypeCorrect` | `Spec => []TypeOK` | `ReviewInv` of the pre-review and `SkillsInv` |
| `Contributions_proofs!CurrentIsARow` | `Spec => []CurrentVersionExists` | `SkillsInv` |
| `Contributions_proofs!ApprovedLanded` | `Spec => []ApprovedContributionLanded` | `SkillsInv` |
| `Embeddings_proofs!TypeCorrect` | `Spec => []EmbeddingsTypeOK` | `EmbeddingsInv` |
| `Embeddings_proofs!LikeWithLike` | `Spec => []QueriesMatchVectors` | `EmbeddingsInv` |
| `Embeddings_proofs!SearchNeverEmpties` | `Spec => SearchKeepsPages` | `EmbeddingsInv` |
| `Access_proofs!TypeCorrect` | `Spec => []AccessTypeOK` | `AccessInv` |
| `Access_proofs!NoTokenReturns` | `Spec => DeadTokensStayDead` | `AccessInv`, with `TokensKept` |
| `Access_proofs!LastAdminOnlyByRace` | `Spec => LastAdminLostToARace` | `AccessInv`, with `MembersKept` |
| `Routes_proofs!Documents`, `WikiPages`, `WorkspaceLists`, `DraftReview`, `ToolVisibility` | `Spec => []` `DocumentRoutesAgree`, `WikiRoutesAgree`, `WorkspaceRoutesAgree`, `DraftRoutesAgree`, `HiddenToolsAreUseless` | consequences of `AccessInv` |

`ReadyIsPublished` is not inductive by itself: the second half of a department change
empties `published` and writes the status from its copy.  If the copy said
`processing`, the flush would skip the column and could leave `ready` in the row.
`DeptSawReady` adds that such a request saw `ready`, so its write is always sent.

`SuccessResetsRecover` needs that a job whose copy says 0 finds 0 in the row.
`RecoverSeen` says of every running pipeline job that it is `late`, or that no sweep has
a stuck row selected and the row's counter is the one in the job's copy, or 0;
`TaskAtPoint` ties the await of a job to its task, so that the SELECT, which alone leads
to counting up, finds nothing while such a job runs.  The lemmas `QuietEnqueue`,
`QuietMoves` and `QuietKeeps` deal once with all steps that leave the running jobs and the
counter alone.

`LockInv` adds `NoDetour`: without an out-of-memory error nobody is in the detour.
`CachedIsLoaded` speaks of a free lock; `CacheInv` adds what holds while it is taken:
a load starts with no slot cached.  `SwapInv` says that at most the model of the
cached slot is resident and that a load starts with no slot cached, hence with an
empty memory; under `Smooth` (worker visible, no out-of-memory error, no leftover, no
cancellation) every action then maps to a load, a drop or a stutter of `ColdSwap`.  Each
of the four premises is needed: TLC finds `SwapsCold` violated when one out-of-memory
error, one leftover or one cancellation is allowed, or with a worker out of sight.

`BatchInv` ties the three places a page can be: the plan, the memory of the job and
what is left to write.  `WriteInv` says that memory and rest make up all pages unless
the breaker tripped, that memory knows all drafts and that no page left has a real one.
All of it is weaker on an expired session, which still holds stubs that it failed to
prune: such a session always has a page left (`StubIsLeft`), and that page raises.
`VerifyInv` and `DraftsInv` carry the batch through VERIFY and through the jobs after it,
up to `lost` and `dropped`.  `BreakerInv` counts: after the breaker tripped, the streak and
the writers still under way stay below threshold and width together, because each stub adds to the
one and takes from the other.  When it trips only those in `InFlight` remain, and they
are at most `width`: the number of items before one of them tells them apart
(`InFlightBound`, an injection into an interval).

`SerialInv` carries the four properties of a source whose jobs did not overlap.  It
says: either `overlap` is set, or the work is in turn.  `OneAtATime` is what the guards
make of `~overlap`: at most one job is alive and at most one request pending, and the
two together only after `approve_extraction`, which enqueues before it writes.  Given
that, `InStep` can say what a job holds in memory: the phase it loaded is the row's, the
await it stands at fixes that phase, and the plan it will flush is the row where a write
depends on it.  So the columns a flush skips have the value the job believes in.
`RowsAgree` is the rest: an approved plan has an approved content, a phase from `refine`
on goes with a plan that REFINE accepts, and from `verify` on the plan has all its
drafts.  None of the three holds alone: Reduce would break the second if its job could
stand at a late phase, and that is `InStep`.  A regeneration needs one more clause,
that the plan stays under review from the request to the end of the job.

`ReviewInv` says of each open request what it still knows from its first step: a page or
draft it will insert is not there, a version it read is at most the page's.  The rows a
bulk approval has flushed but not committed are numbered on from the page (`Numbered`),
and two requests never stage rows of one page or one draft (`Apart`), which is what the
advisory locks and the unique index give.  A commit of n staged rows then appends n
revisions, and that is one `Publish` of `PageHistory`, whose history grows at its end.

`SkillsInv` says what a request may still write from the row it loaded: a version that
exists, or the one its own commit adds.  What every other step does to such a request is
one lemma, `Forward`: version rows and a deletion are never undone while the skill is
there.

`EmbeddingsInv` says of a run that the pages it counted are still to do, in its batch,
deleted, or have a vector of its specification, as long as no other job has flipped
(`alone`); the flip is allowed only with nothing left to do.  As long as `unmixed` holds,
runs, compilations and searches keep a specification and the model that `Model` gives it
together.

`AccessInv` has one part per table, each stated of the table and of the ids it may refer
to, so that a request's commit is a step from tables to tables and the foreign keys with
their cascades are visible in it.  The proof showed that `MaxTokens` must not be 0: an
organization at work starts with a token given out.  That tokens stay dead needs that
each commit gives an account its old token, none, or the next number; that a workspace
keeps an administrator needs that whoever demotes one has counted another.

The five statements of `Routes` are about one state.  Each copy of a rule is unfolded to
what it says of the caller's role, departments, memberships and permissions, and
`AccessInv` supplies what the copies take for granted: roles that exist, departments
that exist, members with one of the four ranks.

Only model-checked: `ProcessingEnds`, `ApprovedIsHandled`, `CallsReturn`, `RunningEnds`
and `TempFilesGo`, the liveness properties, since fairness and ENABLED are out of the
prover's reach.  No module uses a recursive operator; what recursive definitions compute
for every input would need induction over data and would stay with TLC.

## Not modelled

* Ingestion: the status `failed` (`pipeline.py:420`), which the task's own error handler
  replaces by `error` unless the process dies between the two commits; a commit that
  fails after `AutoProceed` or a caption step enqueued its successor; the time between
  the load of the plan and the first commit of REFINE.  `Ingestion` takes draft commits
  to succeed, `Batch` has their failures.  What chunking, evidence selection, merging,
  coverage and the digest compute; a chunk size that changes between two jobs.
* Orchestrator: `drain_ram`, which nothing calls; the admin drain endpoint
  (`routers/admin_local_ai.py:488-545`), which drops models with a client of its own
  while the router keeps its slot; several workers on one LM Studio; just-in-time
  loading by LM Studio; the per-source fallback memory; it is assumed that the poll or
  the SIGKILL does empty the worker.
* Wiki and contributions: the link table, index and log pages, comments and round
  snapshots, the comparison of texts; scopes beside each other (slugs of two scopes
  never meet but in the lock key).
* Skills: names, tags, departments, downloads; several skills share no row but the
  unique name.
* Access: PKCE and expiry (a code that fails them is refused, nothing else happens),
  password login, registration of clients, knowledge types.
* Notifications: inbox rows are appended and marked read, mail and webhooks go out
  after the response; only who is told is modelled.
* Providers, registry, prompts: calls to LLM services are outcomes (answer, error,
  timeout); the caches of the registry hold clients, not decisions.
* `routers/scopes.py` imports names that do not exist and no application includes it.
  Audit rows are appended in the transaction they record, statistics are read-only
  queries.  Frontend, migrations and scripts keep no state of the server; two facts
  come from migrations, the unique index on revisions (026) and the seeded Employee
  role (005).

## Hazards and plan

`PROJECT.json` lists the hazards of the code at their lines, the properties that cover
them, and a note where none does.  Those without a property are behaviours the models
have and the code promises nothing about: a source left `pending` without a job, a plan
left `regenerating`, the re-ingestion after a department change, the role attached to an
account behind its back, and the vectors that a second migration or a late compilation
loses.

No safety property of a passing run is without a theorem.  What is left to prove is more
about the same models: what holds of a source whose jobs do overlap beyond
`ReadyIsPublished`, and that the items of `Batch` implement the three-valued batch of
`Ingestion`.

Left to model are the pure algorithms (merging and deduplication, chunk windows,
coverage) against reference definitions over bounded inputs.
