----------------------------- MODULE PreReview ------------------------------
(* The AI pre-review of wiki drafts: the job enqueued by a submission        *)
(* (services/contribution_service.py), the worker that runs the checks       *)
(* (services/ai_review/runner.py) and the cron that clears stuck checks.     *)
(* The job is enqueued before the row it is about is committed, it writes    *)
(* without a lock, and the worker may die at any point.                      *)
EXTENDS Integers, FiniteSets

CONSTANTS
    Drafts,       \* ids of wiki_page_drafts rows
    Authors,      \* request slots: an author's or a reviewer's
    MaxRound,     \* bound on revision_round
    MaxTries      \* WorkerSettings.max_tries

ASSUME PreReviewAssumption == MaxRound \in Nat /\ MaxTries \in Nat \ {0}

VARIABLES
    draft,    \* [status, round, ai, verdict]: verdict is the round it judges
    asking,   \* the request in each slot
    reviews   \* ai_pre_review_draft_task jobs

reviewVars == <<draft, asking, reviews>>

DraftStatuses == {"none", "pending", "needs_revision",
                  "approved", "rejected", "withdrawn"}
Decisions == {"needs_revision", "approved", "rejected", "withdrawn"}
AiStatuses == {"pending", "queued", "running", "passed", "warned", "failed", "skipped"}

NoRow == [status |-> "none", round |-> 0, ai |-> "pending", verdict |-> -1]
NoAsk == [op |-> "none", draft |-> NoRow, id |-> "none"]

ReviewInit ==
    /\ draft = [d \in Drafts |-> NoRow]
    /\ asking = [a \in Authors |-> NoAsk]
    /\ reviews = {}

(* _enqueue_ai_review: off by configuration or refused by Redis it is        *)
(* "skipped", otherwise "queued" and the job is out at once.                 *)
EnqueueAiReview(d, r, ai) ==
    /\ ai \in {"queued", "skipped"}
    /\ reviews' = IF ai = "queued"
                  THEN reviews \union {[id |-> d, round |-> r, at |-> "queued", try |-> 1]}
                  ELSE reviews

(* A submission or a resubmission: the new row, not committed yet. *)
Submit(a, d, ai) ==
    LET new == draft[d].status = "none"
        round == IF new THEN 0 ELSE draft[d].round + 1 IN
    /\ asking[a].op = "none" /\ draft[d].status \in {"none", "needs_revision"}
    /\ new => \A b \in Authors : asking[b].id # d
    /\ round <= MaxRound
    /\ asking' = [asking EXCEPT ![a] = [op |-> IF new THEN "create" ELSE "resubmit",
         id |-> d, draft |-> [status |-> "pending", round |-> round, ai |-> ai,
                              verdict |-> -1]]]
    /\ EnqueueAiReview(d, round, ai)
    /\ UNCHANGED draft

(* Approve, reject, request changes, withdraw: only the status is written. *)
Decide(a, d, to) ==
    /\ asking[a].op = "none"
    /\ \/ draft[d].status = "pending" /\ to \in Decisions
       \/ draft[d].status = "needs_revision" /\ to = "withdrawn"
    /\ asking' = [asking EXCEPT ![a] = [op |-> "decide", id |-> d,
                                        draft |-> [NoRow EXCEPT !.status = to]]]
    /\ UNCHANGED <<draft, reviews>>

CommitRequest(a) ==
    LET r == asking[a] IN
    /\ r.op # "none"
    /\ draft' = [draft EXCEPT ![r.id] =
                   IF r.op = "decide" THEN [@ EXCEPT !.status = r.draft.status]
                                      ELSE r.draft]
    /\ asking' = [asking EXCEPT ![a] = NoAsk]
    /\ UNCHANGED reviews

LoseRequest(a) ==
    /\ asking[a].op # "none"
    /\ asking' = [asking EXCEPT ![a] = NoAsk]
    /\ UNCHANGED <<draft, reviews>>

(***************************************************************************)
(* run_async_checks                                                        *)
(***************************************************************************)
Move(j, at) == reviews' = (reviews \ {j}) \union {[j EXCEPT !.at = at]}
Done(j) == reviews' = reviews \ {j}

PickReview(j) ==
    /\ j.at = "queued"
    /\ IF draft[j.id].status = "pending" THEN Move(j, "picked") ELSE Done(j)
    /\ UNCHANGED <<draft, asking>>

MarkRunning(j) ==
    /\ j.at = "picked"
    /\ draft' = [draft EXCEPT ![j.id].ai = "running"]
    /\ Move(j, "running")
    /\ UNCHANGED asking

(* After the checks: round and status are read again, not locked. *)
Recheck(j) ==
    /\ j.at = "running"
    /\ IF draft[j.id].round = j.round /\ draft[j.id].status = "pending"
       THEN Move(j, "judged") ELSE Done(j)
    /\ UNCHANGED <<draft, asking>>

WriteVerdict(j) ==
    /\ j.at = "judged"
    /\ \E ai \in {"passed", "warned", "failed"} :
         draft' = [draft EXCEPT ![j.id].ai = ai, ![j.id].verdict = j.round]
    /\ Done(j)
    /\ UNCHANGED asking

(* The worker dies and arq runs the job again, up to max_tries. *)
DieInReview(j) ==
    /\ j.at # "queued" /\ j.try < MaxTries
    /\ reviews' = (reviews \ {j}) \union
                  {[j EXCEPT !.at = "queued", !.try = @ + 1]}
    /\ UNCHANGED <<draft, asking>>

(* The job times out or its last try dies: arq ends it for good. *)
EndReview(j) ==
    /\ j.at # "queued"
    /\ Done(j)
    /\ UNCHANGED <<draft, asking>>

\* mutant: the sweep looks for the status the jobs start with
SweepQueuedReview(d) ==
    /\ draft[d].ai = "queued" /\ \A j \in reviews : j.id # d
    /\ draft' = [draft EXCEPT ![d].ai = "skipped"]
    /\ UNCHANGED <<asking, reviews>>

(* After twice the job timeout no job of the draft is at work. *)
SweepStuckReview(d) ==
    /\ draft[d].ai = "running" /\ \A j \in reviews : j.id = d => j.at = "queued"
    /\ draft' = [draft EXCEPT ![d].ai = "skipped"]
    /\ UNCHANGED <<asking, reviews>>

Work(j) == \/ PickReview(j) \/ MarkRunning(j) \/ Recheck(j) \/ WriteVerdict(j)
           \/ DieInReview(j) \/ EndReview(j)

ReviewNext ==
    \/ \E a \in Authors, d \in Drafts :
         \/ \E ai \in {"queued", "skipped"} : Submit(a, d, ai)
         \/ \E to \in Decisions : Decide(a, d, to)
    \/ \E a \in Authors : CommitRequest(a) \/ LoseRequest(a)
    \/ \E j \in reviews : Work(j)
    \/ \E d \in Drafts : SweepStuckReview(d)

Reviews == [id : Drafts, round : 0..MaxRound, try : 1..MaxTries,
            at : {"queued", "picked", "running", "judged"}]

(* The worker takes jobs off the queue, arq ends what it started, the cron   *)
(* runs every ten minutes.                                                   *)
ReviewFairness ==
    /\ \A j \in Reviews : /\ WF_reviewVars(j \in reviews /\ PickReview(j))
                          /\ WF_reviewVars(j \in reviews /\ EndReview(j))
    /\ \A d \in Drafts : WF_reviewVars(SweepStuckReview(d))

(* A check that is running comes to a verdict or is swept, wherever the      *)
(* worker died and however the draft moved on meanwhile.                     *)
RunningEnds == \A d \in Drafts : draft[d].ai = "running" ~> draft[d].ai # "running"

ReviewTypeOK ==
    /\ draft \in [Drafts -> [status : DraftStatuses, round : 0..MaxRound,
                             ai : AiStatuses, verdict : -1..MaxRound]]
    /\ reviews \subseteq Reviews
=============================================================================
