------------------------------- MODULE Skills -------------------------------
(* A skill, its version rows and the contributions to it: uploads and their  *)
(* ingestion by the skills worker, the choice of the current version, the    *)
(* deletion (services/skill_service.py, routers/skills.py, worker.py) and    *)
(* the life cycle of contributions (routers/skill_contributions.py).         *)
(*                                                                           *)
(* A request reads rows, works, and commits; no row is locked in between,    *)
(* and a commit writes the columns the request changed.  Two uploads never   *)
(* have the same content, so the "unchanged" early returns are not taken.    *)
EXTENDS Integers, FiniteSets

CONSTANTS
    Callers,      \* request slots of the API
    Uploads,      \* uploaded packages, each with its file in temp_uploads
    Contribs,     \* ids of skill_contributions rows
    MaxNumber,    \* bound on version_number
    MaxText,      \* bound on the edits of a contribution
    MaxAttempts,  \* SkillWorkerSettings.max_tries
    MaxCalls      \* bound on the requests of a behaviour

ASSUME SkillsAssumption ==
    /\ MaxNumber \in Nat \ {0} /\ MaxText \in Nat /\ MaxAttempts \in Nat \ {0}
    /\ MaxCalls \in Nat
    /\ Uploads \intersect Contribs = {}

VARIABLES
    skill,      \* skills: [status, current, path]
    rows,       \* skill_versions: [by, number, path, hash]
    zips,       \* files in temp_uploads
    ingests,    \* ingest_skill_task jobs
    deletion,   \* delete_skill_task: "none" or "queued"
    contribs,   \* skill_contributions: [status, text, linked]
    calls,      \* the request in each slot
    toCome      \* requests still to come (the bound, no part of the program)

skillsVars == <<skill, rows, zips, ingests, deletion, contribs, calls, toCome>>

ContribStatuses == {"none", "draft", "pending", "needs_revision",
                    "approved", "rejected", "withdrawn", "deleted"}
Editable == {"draft", "needs_revision"}
Absent == {"none", "deleted"}

(* What an upload stores and what an approval copies have different paths. *)
NoPath == [number |-> 0, route |-> "none"]
Stored(n) == [number |-> n, route |-> "content"]
Copied(n) == [number |-> n, route |-> "contribution"]

NoSkill == [status |-> "none", current |-> 0, path |-> NoPath]
NoContrib == [status |-> "none", text |-> 0, linked |-> FALSE]
NoCall == [op |-> "none", by |-> "none", seen |-> NoSkill, new |-> NoSkill,
           to |-> "none", hash |-> 0]

Exists == skill.status \notin {"none", "gone"}
(* The columns that differ from what the request loaded, on the row as it is. *)
Saved(seen, new) == [f \in DOMAIN skill |->
                       IF new[f] = seen[f] THEN skill[f] ELSE new[f]]

SkillsInit ==
    /\ \/ skill = NoSkill /\ rows = {}
       \/ /\ skill = [status |-> "active", current |-> 1, path |-> Stored(1)]
          /\ rows = {[by |-> "seed", number |-> 1, path |-> Stored(1), hash |-> 0]}
    /\ zips = {} /\ ingests = {} /\ deletion = "none"
    /\ contribs = [c \in Contribs |-> NoContrib]
    /\ calls = [k \in Callers |-> NoCall]
    /\ toCome = MaxCalls

Call(k, r) == /\ calls[k].op = "none" /\ toCome > 0
              /\ calls' = [calls EXCEPT ![k] = r]
              /\ toCome' = toCome - 1
Return(k) == calls' = [calls EXCEPT ![k] = NoCall] /\ UNCHANGED toCome

(***************************************************************************)
(* Uploads                                                                 *)
(***************************************************************************)
Unseen(u) == /\ u \notin zips
             /\ \A k \in Callers : calls[k].by # u
             /\ \A r \in rows : r.by # u
             /\ \A j \in ingests : j.by # u

(* upload_skills and reupload_skill: the next number follows the current     *)
(* version, which only moves when an upload has been ingested.               *)
Upload(k, u) ==
    /\ Unseen(u) /\ skill.status # "gone" /\ skill.current < MaxNumber
    /\ zips' = zips \union {u}
    /\ Call(k, [NoCall EXCEPT !.op = "upload", !.by = u, !.seen = skill,
         !.new = IF Exists THEN [skill EXCEPT !.status = "processing"]
                 ELSE [status |-> "processing", current |-> 1, path |-> NoPath]])
    /\ UNCHANGED <<skill, rows, ingests, deletion, contribs>>

CommitUpload(k) ==
    LET q == calls[k]  created == q.seen.status = "none" IN
    /\ q.op = "upload"
    /\ IF created THEN skill.status = "none" /\ skill' = q.new
                  ELSE Exists /\ skill' = Saved(q.seen, q.new)
    /\ rows' = rows \union {[by |-> q.by, path |-> NoPath, hash |-> q.by,
         number |-> IF created THEN 1 ELSE q.seen.current + 1]}
    /\ calls' = [calls EXCEPT ![k].op = "enqueue"]
    /\ UNCHANGED <<zips, ingests, deletion, contribs, toCome>>

EnqueueIngest(k) ==
    /\ calls[k].op = "enqueue"
    /\ ingests' = ingests \union {[by |-> calls[k].by, at |-> "queued", try |-> 1,
                                   seen |-> NoSkill]}
    /\ Return(k)
    /\ UNCHANGED <<skill, rows, zips, deletion, contribs>>

(* The commit or Redis raises: the file goes, a committed row stays. *)
FailUpload(k) ==
    /\ calls[k].op \in {"upload", "enqueue"}
    /\ zips' = zips \ {calls[k].by}
    /\ Return(k)
    /\ UNCHANGED <<skill, rows, ingests, deletion, contribs>>

(***************************************************************************)
(* ingest_skill_task                                                       *)
(***************************************************************************)
EndIngest(j) == ingests' = ingests \ {j}
RowOf(j) == CHOOSE r \in rows : r.by = j.by

StartIngest(j) ==
    /\ j.at = "queued"
    /\ IF Exists /\ \E r \in rows : r.by = j.by
       THEN /\ skill' = [skill EXCEPT !.status = "processing"]
            /\ ingests' = (ingests \ {j}) \union
                          {[j EXCEPT !.at = "running", !.seen = skill']}
       ELSE EndIngest(j) /\ UNCHANGED skill
    /\ UNCHANGED <<rows, zips, deletion, contribs, calls, toCome>>

FinishIngest(j) ==
    LET n == RowOf(j).number IN
    /\ j.at = "running" /\ j.by \in zips /\ Exists
    /\ skill' = Saved(j.seen, [status |-> "active", current |-> n, path |-> Stored(n)])
    /\ rows' = {IF r.by = j.by THEN [r EXCEPT !.path = Stored(n)] ELSE r : r \in rows}
    /\ zips' = zips \ {j.by}
    /\ EndIngest(j)
    /\ UNCHANGED <<deletion, contribs, calls, toCome>>

\* mutant: the type of the column takes the status the handler writes
FailWithError(j) ==
    /\ j.at = "running" /\ Exists
    /\ skill' = [skill EXCEPT !.status = "error"]
    /\ zips' = zips \ {j.by}
    /\ EndIngest(j)
    /\ UNCHANGED <<rows, deletion, contribs, calls, toCome>>

(* A bad package, a file gone, a timeout: skill_status has no "error", so    *)
(* the handler's write is refused and the skill stays as it is.              *)
FailIngest(j) ==
    /\ j.at = "running"
    /\ zips' = zips \ {j.by}
    /\ EndIngest(j)
    /\ UNCHANGED <<skill, rows, deletion, contribs, calls, toCome>>

(* A worker shut down removes the file, a killed one does not; either way    *)
(* arq runs the job again.                                                   *)
InterruptIngest(j) ==
    /\ j.at = "running" /\ j.try < MaxAttempts
    /\ zips' \in {zips, zips \ {j.by}}
    /\ ingests' = (ingests \ {j}) \union
                  {[j EXCEPT !.at = "queued", !.try = @ + 1, !.seen = NoSkill]}
    /\ UNCHANGED <<skill, rows, deletion, contribs, calls, toCome>>

AbandonIngest(j) ==
    /\ j.at = "running" /\ j.try = MaxAttempts
    /\ EndIngest(j)
    /\ UNCHANGED <<skill, rows, zips, deletion, contribs, calls, toCome>>

\* mutant: only files of a committed upload are collected
CleanupUnwanted(u) ==
    /\ u \in zips
    /\ \A k \in Callers : calls[k].by # u
    /\ \A j \in ingests : j.by # u
    /\ \E r \in rows : r.by = u
    /\ zips' = zips \ {u}
    /\ UNCHANGED <<skill, rows, ingests, deletion, contribs, calls, toCome>>

(* Older than an hour: no request and no running job holds the file, a job   *)
(* still in the queue may want it.                                           *)
CleanupTempUploads(u) ==
    /\ u \in zips
    /\ \A k \in Callers : calls[k].by # u
    /\ \A j \in ingests : j.by = u => j.at = "queued"
    /\ zips' = zips \ {u}
    /\ UNCHANGED <<skill, rows, ingests, deletion, contribs, calls, toCome>>

(***************************************************************************)
(* The current version, deletion                                           *)
(***************************************************************************)
Shown == Exists /\ skill.status # "deleting"

\* mutant: the version asked for is not looked up
SetLatestUnchecked(k, n) ==
    /\ Shown /\ n # skill.current
    /\ Call(k, [NoCall EXCEPT !.op = "latest", !.seen = skill,
                  !.new = [skill EXCEPT !.current = n, !.path = Stored(n)]])
    /\ UNCHANGED <<skill, rows, zips, ingests, deletion, contribs>>

SetLatestVersion(k, n) ==
    /\ Shown /\ n # skill.current
    /\ \E r \in rows :
         /\ r.number = n
         /\ Call(k, [NoCall EXCEPT !.op = "latest", !.seen = skill,
                       !.new = [skill EXCEPT !.current = n, !.path = r.path]])
    /\ UNCHANGED <<skill, rows, zips, ingests, deletion, contribs>>

DeleteSkill(k) ==
    /\ Shown
    /\ Call(k, [NoCall EXCEPT !.op = "delete", !.seen = skill,
                  !.new = [skill EXCEPT !.status = "deleting"]])
    /\ UNCHANGED <<skill, rows, zips, ingests, deletion, contribs>>

(* A deletion that cannot be enqueued is logged and left. *)
CommitSkill(k) ==
    /\ calls[k].op \in {"latest", "delete"} /\ Exists
    /\ skill' = Saved(calls[k].seen, calls[k].new)
    /\ IF calls[k].op = "delete" THEN deletion' \in {"queued", deletion}
                                 ELSE UNCHANGED deletion
    /\ Return(k)
    /\ UNCHANGED <<rows, zips, ingests, contribs>>

\* mutant: contributions of the skill outlive it
DeleteSkillAlone ==
    /\ deletion = "queued" /\ deletion' = "none"
    /\ skill' = [NoSkill EXCEPT !.status = "gone"]
    /\ rows' = {}
    /\ UNCHANGED <<zips, ingests, contribs, calls, toCome>>

(* delete_skill_task: the skill, its versions and its contributions, or an   *)
(* exception that ends the job.                                              *)
DeleteSkillTask ==
    /\ deletion = "queued" /\ deletion' = "none"
    /\ \/ /\ skill' = [NoSkill EXCEPT !.status = "gone"]
          /\ rows' = {}
          /\ contribs' = [c \in Contribs |->
               IF contribs[c].linked THEN [contribs[c] EXCEPT !.status = "deleted"]
                                     ELSE contribs[c]]
       \/ UNCHANGED <<skill, rows, contribs>>
    /\ UNCHANGED <<zips, ingests, calls, toCome>>

(***************************************************************************)
(* Contributions                                                           *)
(***************************************************************************)
(* create_contribution makes a draft, create_contribution_from_zip submits.  *)
CreateContribution(c, status, linked) ==
    /\ contribs[c].status = "none" /\ status \in {"draft", "pending"}
    /\ linked => Exists
    /\ contribs' = [contribs EXCEPT ![c] =
                      [status |-> status, text |-> 0, linked |-> linked]]
    /\ UNCHANGED <<skill, rows, zips, ingests, deletion, calls, toCome>>

DeleteContribution(c) ==
    /\ contribs[c].status \notin Absent
    /\ contribs' = [contribs EXCEPT ![c].status = "deleted"]
    /\ UNCHANGED <<skill, rows, zips, ingests, deletion, calls, toCome>>

(* Put, upload, rename, delete of a file: the status is checked, then the    *)
(* storage is written.                                                       *)
EditFiles(k, c) ==
    /\ contribs[c].status \in Editable /\ contribs[c].text < MaxText
    /\ Call(k, [NoCall EXCEPT !.op = "edit", !.by = c])
    /\ UNCHANGED <<skill, rows, zips, ingests, deletion, contribs>>

WriteFiles(k) ==
    LET c == calls[k].by IN
    /\ calls[k].op = "edit"
    /\ contribs' = [contribs EXCEPT ![c].text = IF @ < MaxText THEN @ + 1 ELSE @]
    /\ Return(k)
    /\ UNCHANGED <<skill, rows, zips, ingests, deletion>>

ChangeStatus(k, c, from, to) ==
    /\ contribs[c].status \in from
    /\ Call(k, [NoCall EXCEPT !.op = "status", !.by = c, !.to = to])
    /\ UNCHANGED <<skill, rows, zips, ingests, deletion, contribs>>

SubmitContribution(k, c) == ChangeStatus(k, c, Editable, "pending")
(* "moves back to draft", whatever the contribution was. *)
RejectContribution(k, c) == ChangeStatus(k, c, ContribStatuses \ (Absent \union {"draft"}), "draft")
RequestContribChanges(k, c) == ChangeStatus(k, c, {"pending"}, "needs_revision")
ResubmitContribution(k, c) == ChangeStatus(k, c, {"needs_revision"}, "pending")
WithdrawContribution(k, c) == ChangeStatus(k, c, {"pending", "needs_revision"}, "withdrawn")

CommitContribStatus(k) ==
    LET c == calls[k].by IN
    /\ calls[k].op = "status" /\ contribs[c].status \notin Absent
    /\ contribs' = [contribs EXCEPT ![c].status = calls[k].to]
    /\ Return(k)
    /\ UNCHANGED <<skill, rows, zips, ingests, deletion>>

(* The files are hashed and compared with the versions of the skill, and     *)
(* copied later: the hash is of the text read here.                          *)
ApproveContribution(k, c) ==
    LET x == contribs[c]
        seen == IF x.linked THEN skill ELSE NoSkill IN
    /\ x.status \notin Absent \union {"approved", "rejected"}
    /\ seen.current < MaxNumber
    /\ IF x.linked /\ \E r \in rows : r.by = c /\ r.hash = x.text
       THEN Call(k, [NoCall EXCEPT !.op = "status", !.by = c, !.to = "rejected"])
       ELSE Call(k, [NoCall EXCEPT !.op = "approve", !.by = c, !.seen = seen,
              !.hash = x.text,
              !.new = [status |-> "active", current |-> seen.current + 1,
                       path |-> Copied(seen.current + 1)]])
    /\ UNCHANGED <<skill, rows, zips, ingests, deletion, contribs>>

(* A new skill needs its name free, an old one must still be there. *)
CommitContribution(k) ==
    LET q == calls[k]  c == q.by IN
    /\ q.op = "approve" /\ contribs[c].status \notin Absent
    /\ IF q.seen.status = "none" THEN skill.status = "none" ELSE Exists
    /\ skill' = Saved(q.seen, q.new)
    /\ rows' = rows \union {[by |-> c, number |-> q.new.current, path |-> q.new.path,
                             hash |-> q.hash]}
    /\ contribs' = [contribs EXCEPT ![c].status = "approved", ![c].linked = TRUE]
    /\ Return(k)
    /\ UNCHANGED <<zips, ingests, deletion>>

(* A request that dies or is refused; an upload that dies leaves its file. *)
LoseCall(k) ==
    /\ calls[k].op # "none"
    /\ Return(k)
    /\ UNCHANGED <<skill, rows, zips, ingests, deletion, contribs>>

IngestStep(j) == \/ StartIngest(j) \/ FinishIngest(j) \/ FailIngest(j)
                 \/ InterruptIngest(j) \/ AbandonIngest(j)

Requests(k) ==
    \/ \E u \in Uploads : Upload(k, u)
    \/ \E n \in 1..MaxNumber : SetLatestVersion(k, n)
    \/ DeleteSkill(k)
    \/ \E c \in Contribs :
         \/ EditFiles(k, c) \/ SubmitContribution(k, c) \/ RejectContribution(k, c)
         \/ RequestContribChanges(k, c) \/ ResubmitContribution(k, c)
         \/ WithdrawContribution(k, c) \/ ApproveContribution(k, c)

Commits(k) == \/ CommitUpload(k) \/ EnqueueIngest(k) \/ FailUpload(k) \/ CommitSkill(k)
              \/ WriteFiles(k) \/ CommitContribStatus(k) \/ CommitContribution(k)
              \/ LoseCall(k)

SkillsNext ==
    \/ \E k \in Callers : Requests(k) \/ Commits(k)
    \/ \E j \in ingests : IngestStep(j)
    \/ \E u \in Uploads : CleanupTempUploads(u)
    \/ DeleteSkillTask
    \/ \E c \in Contribs :
         \/ DeleteContribution(c)
         \/ \E s \in {"draft", "pending"}, l \in BOOLEAN : CreateContribution(c, s, l)

(* A request ends, arq ends a job it started, the cron runs every hour. *)
SkillsFairness ==
    /\ \A k \in Callers : WF_skillsVars(Commits(k))
    /\ WF_skillsVars(\E j \in ingests : j.at = "running" /\ IngestStep(j))
    /\ \A u \in Uploads : WF_skillsVars(CleanupTempUploads(u))

(***************************************************************************)
(* Properties                                                              *)
(***************************************************************************)
Paths == [number : 0..MaxNumber, route : {"none", "content", "contribution"}]

(* Types and bounds; the statuses of a skill are those of the database enum. *)
SkillsTypeOK ==
    /\ skill \in [status : {"none", "active", "processing", "deleting", "gone"},
                  current : 0..MaxNumber, path : Paths]
    /\ \A r \in rows : r.number \in 1..MaxNumber /\ r.path \in Paths
    /\ zips \subseteq Uploads
    /\ \A j \in ingests : j.at \in {"queued", "running"} /\ j.try \in 1..MaxAttempts
    /\ contribs \in [Contribs -> [status : ContribStatuses, text : 0..MaxText,
                                  linked : BOOLEAN]]

(* The current version of a skill is one of its version rows, although       *)
(* uploads, approvals, set_latest and ingestions write current_version from  *)
(* rows they read earlier (skill_service.py:247, 600, 878; worker.py:449).   *)
CurrentVersionExists ==
    Exists => \E r \in rows : r.number = skill.current

(* An approved contribution has become a version of its skill, however many  *)
(* approvals, rejections and deletions ran at once (skill_service.py:799-906). *)
ApprovedContributionLanded ==
    \A c \in Contribs : contribs[c].status = "approved" => \E r \in rows : r.by = c

(* The file of an upload leaves temp_uploads, whoever died holding it        *)
(* (worker.py:460-467, 531-552).                                             *)
TempFilesGo == \A u \in Uploads : u \in zips ~> u \notin zips
=============================================================================
