------------------------------- MODULE Batch --------------------------------
(* The two long batches of one source: MAP extracts its chunks               *)
(* (ai/mrp/mapper.py), REFINE writes the pages of its plan                   *)
(* (ai/mrp/writer.py), and what ai/mrp/pipeline.py makes of their results.   *)
(* Module Ingestion has the statuses, the endpoints and overlapping jobs;    *)
(* here the jobs of the source run one after the other and every row and     *)
(* every page is visible.                                                    *)
(*                                                                           *)
(* Each item of a batch is committed on its own, so that a retry resumes     *)
(* where a job stopped.  A commit can fail: the rollback then expires every  *)
(* row the session holds and the next one that the job reads raises.         *)
(* The chunk size of the source does not change between jobs.                *)
EXTENDS Naturals, FiniteSets

CONSTANTS
    NumChunks,   \* chunks build_chunks cuts the text into
    NumPages,    \* pages of the approved plan, in order of priority
    Widths,      \* concurrency settings a job may run with; 1 is sequential
    Threshold,   \* MRP_WRITER_BREAKER_THRESHOLD
    MaxJobs,     \* bound on the jobs of a behaviour
    MaxFailures  \* bound on failed commits

ASSUME BatchAssumption ==
    /\ NumChunks \in Nat \ {0} /\ NumPages \in Nat \ {0}
    /\ Widths \subseteq Nat \ {0}
    /\ Threshold \in Nat \ {0}
    /\ MaxJobs \in Nat /\ MaxFailures \in Nat

VARIABLES
    phase,     \* sources.pipeline_phase
    chunk,     \* status of each source_chunk_extracts row
    drafts,    \* plan_json._page_drafts
    wiki,      \* the drafts COMMIT published
    job,       \* the job under way
    jobs,      \* history: jobs started
    failures,  \* history: failed commits
    lost,      \* history: pages whose draft only the memory of a job has held
    dropped    \* history: pages that the last COMMIT had and did not write

vars == <<phase, chunk, drafts, wiki, job, jobs, failures, lost, dropped>>

Chunks == 1..NumChunks
Pages == 1..NumPages
Phases == {"none", "map", "plan_review", "refine", "verify", "commit"}

(* A stub is the page "(Page generation failed: ...)" *)
Draft == [page : Pages, stub : BOOLEAN]
PagesOf(D) == {d.page : d \in D}
Real(D) == {d \in D : ~d.stub}

(* todo: items not finished yet.  mem: the page results in memory.           *)
(* streak, tripped: the breaker.  stale: a rollback expired the session.     *)
Job == [at : {"idle", "map", "remap", "write", "verify"}, width : Nat,
        todo : SUBSET (Chunks \union Pages), mem : SUBSET Draft,
        streak : Nat, tripped : BOOLEAN, stale : BOOLEAN]
Idle == [at |-> "idle", width |-> 1, todo |-> {}, mem |-> {}, streak |-> 0,
         tripped |-> FALSE, stale |-> FALSE]

Init ==
    /\ phase = "none"
    /\ chunk = [c \in Chunks |-> "pending"]
    /\ drafts = {} /\ wiki = {} /\ lost = {} /\ dropped = {}
    /\ job = Idle
    /\ jobs = 0 /\ failures = 0

(* The semaphore lets items in in their order: the first width of those left. *)
InFlight == {x \in job.todo : Cardinality({y \in job.todo : y < x}) < job.width}

CommitFailed == failures < MaxFailures /\ failures' = failures + 1

StartJob(at, todo, mem, stale) ==
    /\ job.at = "idle" /\ jobs < MaxJobs
    /\ jobs' = jobs + 1
    /\ \E w \in Widths :
         job' = [Idle EXCEPT !.at = at, !.width = w, !.todo = todo, !.mem = mem,
                             !.stale = stale]

-----------------------------------------------------------------------------
(* MAP *)

(* run_map_phase: rows that are done stay, the others are extracted again. *)
StartMap ==
    /\ phase \in {"none", "map"}
    /\ phase' = "map"
    /\ StartJob("map", {c \in Chunks : chunk[c] # "done"}, {}, FALSE)
    /\ UNCHANGED <<chunk, drafts, wiki, failures, lost, dropped>>

(* The first round, fan-out or rolling.  A failed commit of "done" ends in   *)
(* the handler, which commits "error"; a row it expired may raise later, see *)
(* Fail.                                                                     *)
ExtractChunk(c) ==
    /\ job.at = "map" /\ c \in InFlight
    /\ \E s \in {"done", "error"} : chunk' = [chunk EXCEPT ![c] = s]
    /\ job' = [job EXCEPT !.todo = @ \ {c}]
    /\ UNCHANGED <<phase, drafts, wiki, jobs, failures, lost, dropped>>

(* MIN_FIRST_ROUND_SUCCESS_RATE: a model that failed 7 of 10 chunks is not   *)
(* asked again.                                                              *)
WorthRetrying == 10 * Cardinality({c \in Chunks : chunk[c] = "done"}) >= 3 * NumChunks

StartRetryRound ==
    /\ job.at = "map" /\ job.todo = {}
    /\ job' = [job EXCEPT !.at = "remap", !.width = 1,
                 !.todo = IF WorthRetrying THEN {c \in Chunks : chunk[c] = "error"}
                          ELSE {}]
    /\ UNCHANGED <<phase, chunk, drafts, wiki, jobs, failures, lost, dropped>>

(* A retry that fails leaves the row as it is. *)
RetryChunk(c) ==
    /\ job.at = "remap" /\ c \in InFlight
    /\ \E s \in {"done", "error"} : chunk' = [chunk EXCEPT ![c] = s]
    /\ job' = [job EXCEPT !.todo = @ \ {c}]
    /\ UNCHANGED <<phase, drafts, wiki, jobs, failures, lost, dropped>>

(* One extract is enough for REDUCE, the plan and its approval. *)
FinishMap ==
    /\ job.at = "remap" /\ job.todo = {}
    /\ \E c \in Chunks : chunk[c] = "done"
    /\ phase' = "plan_review"
    /\ job' = Idle
    /\ UNCHANGED <<chunk, drafts, wiki, jobs, failures, lost, dropped>>

-----------------------------------------------------------------------------
(* REFINE *)

\* mutant: stub drafts stay in the plan
StartWithStubs ==
    /\ phase \in {"plan_review", "refine"}
    /\ phase' = "refine"
    /\ StartJob("write", Pages \ PagesOf(Real(drafts)), Real(drafts), FALSE)
    /\ UNCHANGED <<chunk, drafts, wiki, failures, lost, dropped>>

\* mutant: the stubs, but also the drafts next to them, are written again
StartAfresh ==
    /\ phase \in {"plan_review", "refine"}
    /\ phase' = "refine"
    /\ StartJob("write", Pages, {}, FALSE)
    /\ drafts' = {}
    /\ UNCHANGED <<chunk, wiki, failures, lost, dropped>>

(* run_refine_phase keeps the real drafts of an earlier job and prunes its   *)
(* stubs; when that commit fails the first page to write raises.             *)
StartRefine ==
    /\ phase \in {"plan_review", "refine"}
    /\ phase' = "refine"
    /\ \E b \in BOOLEAN :
         /\ StartJob("write", Pages \ PagesOf(Real(drafts)), Real(drafts), b)
         /\ IF b THEN Real(drafts) # drafts /\ CommitFailed /\ UNCHANGED drafts
                 ELSE drafts' = Real(drafts) /\ UNCHANGED failures
    /\ UNCHANGED <<chunk, wiki, lost, dropped>>

Trips(stub) == job.tripped \/ (stub /\ job.streak + 1 >= Threshold)

\* mutant: the writers that wait do not look at the cancel event
LeftAfterAll(p, stub) == job.todo \ {p}

(* What is left once page p is written: after the breaker tripped, only the  *)
(* pages whose writers already hold the semaphore.                           *)
LeftAfter(p, stub) == (IF Trips(stub) THEN InFlight ELSE job.todo) \ {p}

(* A writer answers, with a page or with a stub; _commit_draft appends it    *)
(* and swallows a failed commit.  On an expired session no page gets here.   *)
WritePage(p) ==
    /\ job.at = "write" /\ p \in InFlight /\ ~job.stale
    /\ \E s \in BOOLEAN, b \in BOOLEAN :
         LET d == [page |-> p, stub |-> s] IN
         /\ job' = [job EXCEPT !.todo = LeftAfter(p, s), !.mem = @ \union {d},
                               !.streak = IF s THEN @ + 1 ELSE 0,
                               !.tripped = Trips(s), !.stale = b]
         /\ IF b THEN CommitFailed /\ UNCHANGED drafts
                 ELSE drafts' = drafts \union {d} /\ UNCHANGED failures
    /\ UNCHANGED <<phase, chunk, wiki, jobs, lost, dropped>>

Complete == ~job.tripped /\ Real(job.mem) = job.mem

(* WriterBatchIncomplete: the phase stays, a retry writes the other pages. *)
AbortBatch ==
    /\ job.at = "write" /\ job.todo = {} /\ ~Complete
    /\ job' = Idle
    /\ UNCHANGED <<phase, chunk, drafts, wiki, jobs, failures, lost, dropped>>

\* mutant: the batch is taken for complete when the breaker did not trip
FinishWithStubs ==
    /\ job.at = "write" /\ job.todo = {} /\ ~job.tripped
    /\ phase' = "verify"
    /\ job' = [job EXCEPT !.at = "verify"]
    /\ lost' = PagesOf(job.mem) \ PagesOf(drafts)
    /\ UNCHANGED <<chunk, drafts, wiki, jobs, failures, dropped>>

(* The phase moves on by what is in memory, not by what was committed. *)
FinishRefine ==
    /\ job.at = "write" /\ job.todo = {} /\ Complete
    /\ phase' = "verify"
    /\ job' = [job EXCEPT !.at = "verify"]
    /\ lost' = PagesOf(job.mem) \ PagesOf(drafts)
    /\ UNCHANGED <<chunk, drafts, wiki, jobs, failures, dropped>>

(* A later job at 'verify' or 'commit' takes the drafts that were committed, *)
(* or writes all pages when there are none.                                  *)
ResumeDrafts ==
    /\ phase \in {"verify", "commit"}
    /\ IF drafts # {}
       THEN /\ phase' = "verify"
            /\ StartJob("verify", {}, drafts, FALSE)
       ELSE /\ phase' = "refine"
            /\ StartJob("write", Pages, {}, FALSE)
    /\ UNCHANGED <<chunk, drafts, wiki, failures, lost, dropped>>

(* VERIFY reads the chunk rows: it raises on an expired session.  COMMIT is  *)
(* one transaction; a failed statement fails it as a whole.  A page whose    *)
(* action is neither CREATE nor UPDATE is passed over, and an exception that *)
(* is not the database's costs its page alone: the source is done with or    *)
(* without them.                                                             *)
Commit ==
    /\ job.at = "verify" /\ ~job.stale
    /\ \E gone \in SUBSET PagesOf(job.mem) :
         /\ wiki' = wiki \union {d \in job.mem : d.page \notin gone}
         /\ dropped' = gone
    /\ phase' = "commit"
    /\ job' = Idle
    /\ UNCHANGED <<chunk, drafts, jobs, failures, lost>>

-----------------------------------------------------------------------------
(* The job raises or dies.  asyncio.gather does not stop its other tasks:    *)
(* until the session is closed they may still commit what they finish.       *)
Fail ==
    /\ job.at # "idle"
    /\ job' = Idle
    /\ \E late \in SUBSET (IF job.stale THEN {} ELSE InFlight) :
         /\ chunk' = IF job.at = "map"
                     THEN [c \in Chunks |-> IF c \in late THEN "done" ELSE chunk[c]]
                     ELSE chunk
         /\ IF job.at = "write"
            THEN \E s \in BOOLEAN :
                   drafts' = drafts \union {[page |-> p, stub |-> s] : p \in late}
            ELSE UNCHANGED drafts
    /\ UNCHANGED <<phase, wiki, jobs, failures, lost, dropped>>

Next ==
    \/ StartMap \/ StartRetryRound \/ FinishMap
    \/ \E c \in Chunks : ExtractChunk(c) \/ RetryChunk(c)
    \/ StartRefine \/ AbortBatch \/ FinishRefine \/ ResumeDrafts \/ Commit
    \/ \E p \in Pages : WritePage(p)
    \/ Fail

Spec == Init /\ [][Next]_vars

-----------------------------------------------------------------------------
(* Every row is typed, and the plan never holds two drafts of a page: a stub *)
(* is gone before its page is written again.                                 *)
TypeOK ==
    /\ phase \in Phases
    /\ chunk \in [Chunks -> {"pending", "done", "error"}]
    /\ drafts \subseteq Draft /\ wiki \subseteq Draft
    /\ job \in Job
    /\ jobs \in 0..MaxJobs /\ failures \in 0..MaxFailures
    /\ lost \subseteq Pages /\ dropped \subseteq Pages
    /\ \A d, e \in drafts : d.page = e.page => d = e

(* No stub is ever published, and a source that reached 'commit' has every   *)
(* page of its plan in the wiki, whatever breakers, crashes and retries came *)
(* between, with two gaps.  Lost: a page that was the last of its batch and  *)
(* whose commit failed; the next job publishes the others without it.        *)
(* Dropped: a page that COMMIT had and passed over or failed to write, though *)
(* its docstring says "all pages ... atomically" (pipeline.py:148).          *)
PublishedWhole ==
    /\ Real(wiki) = wiki
    /\ phase = "commit" => Pages \ PagesOf(wiki) \subseteq lost \union dropped

(* Once the breaker tripped no writer starts: the stubs in a row are at most *)
(* its threshold and those of the writers that were under way.               *)
BreakerStops == job.streak < Threshold + job.width

(* A retry neither loses nor repeats finished work: an extracted chunk and a *)
(* committed real draft stay, and neither is given to a later job again,     *)
(* unless no draft of the plan was committed at all.                         *)
KeepsFinishedWork ==
    [][/\ \A c \in Chunks : chunk[c] = "done" => /\ chunk'[c] = "done"
                                                 /\ job'.at = "map" => c \notin job'.todo
       /\ Real(drafts) \subseteq drafts'
       /\ job'.at = "write" => job'.todo \intersect PagesOf(Real(drafts')) = {}]_vars
=============================================================================
