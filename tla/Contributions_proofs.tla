------------------------ MODULE Contributions_proofs ------------------------
(* Skills and the AI pre-review for every number of requests, uploads, jobs  *)
(* and drafts.  SkillsInv says what each request and each job may still      *)
(* write from the rows it read: a version that exists, or one that its own   *)
(* commit adds.  Nothing undoes a deletion, so a version row, once there, is *)
(* there until the skill is gone for good.                                   *)
EXTENDS Contributions, TLAPS

SkillRows == [status : {"none", "active", "processing", "deleting", "gone"},
              current : 0..MaxNumber, path : Paths]
VersionRows == [by : Uploads \union Contribs \union {"seed"}, number : 1..MaxNumber,
                path : Paths, hash : Uploads \union (0..MaxText)]
IngestRows == [by : Uploads, at : {"queued", "running"}, try : 1..MaxAttempts,
               seen : SkillRows]
ContribRows == [status : ContribStatuses, text : 0..MaxText, linked : BOOLEAN]
CallOps == {"none", "upload", "enqueue", "latest", "delete", "edit", "status", "approve"}
CallRows == [op : CallOps, by : Uploads \union Contribs \union {"none"}, seen : SkillRows,
             new : SkillRows, to : ContribStatuses, hash : 0..MaxText]

SkillsTyped == /\ skill \in SkillRows
               /\ rows \subseteq VersionRows
               /\ zips \subseteq Uploads
               /\ ingests \subseteq IngestRows
               /\ contribs \in [Contribs -> ContribRows]
               /\ calls \in [Callers -> CallRows]

\* What a request will write: an upload keeps the current version, unless it
\* makes the skill; an approval moves it to the row it adds; set_latest moves
\* it to a row that is there while the skill is.
CallOK(q) ==
    /\ q.op \in {"upload", "enqueue"} => q.by \in Uploads
    /\ q.op \in {"edit", "status", "approve"} => q.by \in Contribs
    /\ q.op = "upload" => /\ q.seen.current < MaxNumber
                          /\ q.new.current = IF q.seen.status = "none" THEN 1
                                             ELSE q.seen.current
    /\ q.op = "approve" => q.new.current = q.seen.current + 1
    /\ q.op = "delete" => q.new.current = q.seen.current
    /\ q.op = "latest" => \/ skill.status = "gone"
                          \/ \E r \in rows : r.number = q.new.current
    /\ q.op = "status" => q.to \in {"draft", "pending", "needs_revision", "withdrawn",
                                    "rejected"}
CallsInv == \A k \in Callers : CallOK(calls[k])

\* An ingestion at work has its version row.
IngestOK(j) == j.at = "running" =>
                  skill.status = "gone" \/ \E r \in rows : r.by = j.by
IngestsInv == \A j \in ingests : IngestOK(j)

\* What is approved belongs to the skill, and goes with it.
ApprovedLinked == \A c \in Contribs : contribs[c].status = "approved" => contribs[c].linked

SkillsInv == /\ SkillsTyped /\ CallsInv /\ IngestsInv /\ ApprovedLinked
             /\ CurrentVersionExists /\ ApprovedContributionLanded

-----------------------------------------------------------------------------
(* Rows and the helpers that make them.                                      *)

\* Empty rows are well-typed; a number makes a path.
LEMMA EmptyRows ==
    /\ NoSkill \in SkillRows /\ NoCall \in CallRows /\ NoContrib \in ContribRows
    /\ NoCall.op = "none" /\ NoCall.by = "none" /\ NoCall.to = "none" /\ NoCall.hash = 0
    /\ NoCall.seen = NoSkill /\ NoCall.new = NoSkill
    /\ NoSkill.status = "none" /\ NoSkill.current = 0
    /\ \A n \in 0..MaxNumber : Stored(n) \in Paths /\ Copied(n) \in Paths
<1>1. NoPath \in Paths
  BY SkillsAssumption DEF Paths, NoPath
<1>2. NoSkill \in SkillRows /\ NoSkill.status = "none" /\ NoSkill.current = 0
  BY <1>1, SkillsAssumption DEF SkillRows, NoSkill
<1>3. \A n \in 0..MaxNumber : Stored(n) \in Paths /\ Copied(n) \in Paths
  BY DEF Paths, Stored, Copied
<1>4. NoContrib \in ContribRows
  BY SkillsAssumption DEF NoContrib, ContribRows, ContribStatuses
<1>5. NoCall \in CallRows
  <2> HIDE DEF NoSkill
  <2> QED
    BY <1>2, SkillsAssumption DEF NoCall, CallRows, CallOps, ContribStatuses
<1> QED
  BY <1>2, <1>3, <1>4, <1>5 DEF NoCall

\* A commit writes the columns its request changed, on the row as it is: an
\* unchanged column keeps what another request made of it.
LEMMA SavedColumns ==
    ASSUME skill \in SkillRows, NEW s \in SkillRows, NEW n \in SkillRows
    PROVE  /\ Saved(s, n) \in SkillRows
           /\ Saved(s, n).status \in {skill.status, n.status}
           /\ Saved(s, n).current = IF n.current = s.current THEN skill.current ELSE n.current
<1> DEFINE col(f) == IF n[f] = s[f] THEN skill[f] ELSE n[f]
<1>1. DOMAIN skill = {"status", "current", "path"}
  BY DEF SkillRows
<1>2. Saved(s, n) = [f \in {"status", "current", "path"} |-> col(f)]
  BY <1>1 DEF Saved
<1>3. /\ col("status") \in {"none", "active", "processing", "deleting", "gone"}
      /\ col("current") \in 0..MaxNumber /\ col("path") \in Paths
      /\ col("status") \in {skill.status, n.status}
      /\ col("current") = IF n.current = s.current THEN skill.current ELSE n.current
  BY DEF SkillRows
<1> HIDE DEF col
<1>4. Saved(s, n) = [status |-> col("status"), current |-> col("current"),
                     path |-> col("path")]
  BY <1>2
<1> QED
  BY <1>3, <1>4 DEF SkillRows

\* SkillsInit: no request, no job, and a skill that has its version row.
LEMMA SkillsInitInv == SkillsInit => SkillsInv
<1> SUFFICES ASSUME SkillsInit PROVE SkillsInv
  OBVIOUS
<1>1. /\ zips = {} /\ ingests = {} /\ contribs = [c \in Contribs |-> NoContrib]
      /\ calls = [k \in Callers |-> NoCall]
  BY DEF SkillsInit
<1>2. skill \in SkillRows /\ rows \subseteq VersionRows /\ CurrentVersionExists
  <2>1. CASE skill = NoSkill /\ rows = {}
    BY <2>1, EmptyRows DEF CurrentVersionExists, Exists
  <2>2. CASE /\ skill = [status |-> "active", current |-> 1, path |-> Stored(1)]
             /\ rows = {[by |-> "seed", number |-> 1, path |-> Stored(1), hash |-> 0]}
    <3>1. Stored(1) \in Paths /\ 1 \in 1..MaxNumber /\ 0 \in 0..MaxText
      BY EmptyRows, SkillsAssumption
    <3> HIDE DEF Stored
    <3>2. skill \in SkillRows /\ rows \subseteq VersionRows
      BY <2>2, <3>1 DEF SkillRows, VersionRows
    <3>3. CurrentVersionExists
      BY <2>2 DEF CurrentVersionExists
    <3> QED
      BY <3>2, <3>3
  <2> QED
    BY <2>1, <2>2 DEF SkillsInit
<1>3. SkillsTyped
  BY <1>1, <1>2, EmptyRows DEF SkillsTyped
<1>4. CallsInv
  BY <1>1, EmptyRows DEF CallsInv, CallOK
<1>5. \A c \in Contribs : contribs[c].status = "none"
  BY <1>1 DEF NoContrib
<1> QED
  BY <1>1, <1>2, <1>3, <1>4, <1>5
     DEF SkillsInv, IngestsInv, ApprovedLinked, ApprovedContributionLanded

-----------------------------------------------------------------------------
(* What every step of the skills has in common.                              *)

\* A version row keeps its maker and its number, and a skill that is gone
\* stays gone.
Forward ==
    /\ skill.status = "gone" => skill'.status = "gone"
    /\ \/ skill'.status = "gone"
       \/ \A r \in rows : \E x \in rows' : x.by = r.by /\ x.number = r.number

\* Going forward spoils no request and no job.
LEMMA ForwardKeeps ==
    ASSUME Forward, NEW q
    PROVE  (CallOK(q) => CallOK(q)') /\ (IngestOK(q) => IngestOK(q)')
<1>1. CallOK(q) => CallOK(q)'
  BY DEF Forward, CallOK
<1>2. IngestOK(q) => IngestOK(q)'
  BY DEF Forward, IngestOK
<1> QED
  BY <1>1, <1>2

\* What is left to show of a step: types, and the rows it wrote.
LEMMA SkillStep ==
    ASSUME SkillsInv, SkillsTyped', Forward,
           \A k \in Callers : calls'[k] = calls[k] \/ CallOK(calls[k])',
           \A j \in ingests' : j \in ingests \/ IngestOK(j)',
           ApprovedLinked', CurrentVersionExists', ApprovedContributionLanded'
    PROVE  SkillsInv'
<1>1. ASSUME NEW k \in Callers PROVE CallOK(calls[k])'
  <2>1. CallOK(calls[k]) => (calls'[k] = calls[k] => CallOK(calls[k])')
    BY ForwardKeeps DEF CallOK
  <2> QED
    BY <2>1 DEF SkillsInv, CallsInv
<1>2. ASSUME NEW j \in ingests' PROVE IngestOK(j)'
  BY <1>2, ForwardKeeps DEF SkillsInv, IngestsInv
<1> QED
  BY <1>1, <1>2 DEF SkillsInv, CallsInv, IngestsInv

\* The fields of a row that is there.
LEMMA RowFields ==
    ASSUME SkillsInv
    PROVE  /\ \A k \in Callers : calls[k] \in CallRows /\ CallOK(calls[k])
           /\ \A j \in ingests : j \in IngestRows /\ IngestOK(j)
           /\ \A c \in Contribs : contribs[c] \in ContribRows
           /\ \A r \in rows : r \in VersionRows
           /\ skill \in SkillRows
BY DEF SkillsInv, SkillsTyped, CallsInv, IngestsInv

\* A request that comes, moves on or ends, and writes no row.
LEMMA CallStep ==
    ASSUME SkillsInv, NEW k \in Callers, NEW t \in CallRows, CallOK(t),
           calls' = [calls EXCEPT ![k] = t], zips' \subseteq Uploads,
           ingests' \subseteq IngestRows,
           \A j \in ingests' : j \in ingests \/ j.at = "queued",
           UNCHANGED <<skill, rows, contribs>>
    PROVE  SkillsInv'
<1>1. SkillsTyped'
  BY DEF SkillsInv, SkillsTyped
<1>2. Forward
  BY DEF Forward
<1>3. ASSUME NEW i \in Callers PROVE calls'[i] = calls[i] \/ CallOK(calls[i])'
  <2>1. CASE i # k
    BY <2>1 DEF SkillsInv, SkillsTyped
  <2>2. CASE i = k
    <3>1. calls'[i] = t
      BY <2>2 DEF SkillsInv, SkillsTyped
    <3> QED
      BY <3>1 DEF CallOK
  <2> QED
    BY <2>1, <2>2
<1>4. \A j \in ingests' : j \in ingests \/ IngestOK(j)'
  BY DEF IngestOK
<1>5. ApprovedLinked' /\ CurrentVersionExists' /\ ApprovedContributionLanded'
  BY DEF SkillsInv, ApprovedLinked, CurrentVersionExists, Exists, ApprovedContributionLanded
<1> QED
  BY <1>1, <1>2, <1>3, <1>4, <1>5, SkillStep

\* The same for a new request, and for a slot that falls free.
LEMMA CallInv ==
    ASSUME SkillsInv, NEW k \in Callers, NEW t \in CallRows, CallOK(t), Call(k, t),
           zips' \subseteq Uploads, UNCHANGED <<skill, rows, ingests, contribs>>
    PROVE  SkillsInv'
<1>1. /\ calls' = [calls EXCEPT ![k] = t] /\ ingests' \subseteq IngestRows
  BY DEF Call, SkillsInv, SkillsTyped
<1> QED
  BY <1>1, CallStep

\* Upload: the number of its row follows the version it saw.
LEMMA UploadInv ==
    ASSUME SkillsInv, NEW k \in Callers, NEW u \in Uploads, Upload(k, u) PROVE SkillsInv'
<1> DEFINE new == IF Exists THEN [skill EXCEPT !.status = "processing"]
                  ELSE [status |-> "processing", current |-> 1, path |-> NoPath]
           t == [NoCall EXCEPT !.op = "upload", !.by = u, !.seen = skill, !.new = new]
<1>1. /\ skill.status # "gone" /\ skill.current < MaxNumber /\ zips' = zips \union {u}
      /\ Call(k, t) /\ UNCHANGED <<skill, rows, ingests, contribs>>
  BY DEF Upload
<1>2. skill \in SkillRows /\ zips' \subseteq Uploads
  BY <1>1 DEF SkillsInv, SkillsTyped
<1>3. /\ new \in SkillRows
      /\ new.current = IF skill.status = "none" THEN 1 ELSE skill.current
  <2>1. NoPath \in Paths /\ 1 \in 0..MaxNumber
    BY SkillsAssumption DEF Paths, NoPath
  <2> HIDE DEF NoPath
  <2>2. CASE Exists
    BY <1>2, <2>2 DEF SkillRows, Exists
  <2>3. CASE ~Exists
    BY <1>1, <1>2, <2>1, <2>3 DEF SkillRows, Exists
  <2> QED
    BY <2>2, <2>3
<1> HIDE DEF new
<1>4. /\ t \in CallRows /\ t.op = "upload" /\ t.by = u /\ t.seen = skill /\ t.new = new
  BY <1>2, <1>3, EmptyRows DEF CallRows, CallOps
<1> HIDE DEF t
<1>5. CallOK(t)
  BY <1>1, <1>3, <1>4 DEF CallOK
<1> QED
  BY <1>1, <1>2, <1>4, <1>5, CallInv

\* The version that set_latest names is there when the request reads it.
LEMMA SetLatestInv ==
    ASSUME SkillsInv, NEW k \in Callers, NEW n \in 1..MaxNumber, SetLatestVersion(k, n)
    PROVE  SkillsInv'
<1>1. PICK r \in rows :
        /\ r.number = n
        /\ Call(k, [NoCall EXCEPT !.op = "latest", !.seen = skill,
                      !.new = [skill EXCEPT !.current = n, !.path = r.path]])
  BY DEF SetLatestVersion
<1> DEFINE new == [skill EXCEPT !.current = n, !.path = r.path]
           t == [NoCall EXCEPT !.op = "latest", !.seen = skill, !.new = new]
<1>2. skill \in SkillRows /\ r \in VersionRows /\ n \in 0..MaxNumber
  BY DEF SkillsInv, SkillsTyped
<1>3. new \in SkillRows /\ new.current = n
  BY <1>2 DEF SkillRows, VersionRows
<1> HIDE DEF new
<1>4. t \in CallRows /\ t.op = "latest" /\ t.new = new
  BY <1>2, <1>3, EmptyRows DEF CallRows, CallOps
<1> HIDE DEF t
<1>5. CallOK(t)
  BY <1>1, <1>3, <1>4 DEF CallOK
<1>6. Call(k, t) /\ UNCHANGED <<skill, rows, ingests, contribs>> /\ zips' \subseteq Uploads
  BY <1>1 DEF t, new, SetLatestVersion, SkillsInv, SkillsTyped
<1> QED
  BY <1>4, <1>5, <1>6, CallInv

\* A deletion keeps the current version: it only marks the skill.
LEMMA DeleteSkillInv ==
    ASSUME SkillsInv, NEW k \in Callers, DeleteSkill(k) PROVE SkillsInv'
<1> DEFINE new == [skill EXCEPT !.status = "deleting"]
           t == [NoCall EXCEPT !.op = "delete", !.seen = skill, !.new = new]
<1>1. skill \in SkillRows
  BY DEF SkillsInv, SkillsTyped
<1>2. new \in SkillRows /\ new.current = skill.current
  BY <1>1 DEF SkillRows
<1> HIDE DEF new
<1>3. t \in CallRows /\ t.op = "delete" /\ t.new = new /\ t.seen = skill
  BY <1>1, <1>2, EmptyRows DEF CallRows, CallOps
<1> HIDE DEF t
<1>4. CallOK(t)
  BY <1>2, <1>3 DEF CallOK
<1>5. Call(k, t) /\ UNCHANGED <<skill, rows, ingests, contribs>> /\ zips' \subseteq Uploads
  BY DEF t, new, DeleteSkill, SkillsInv, SkillsTyped
<1> QED
  BY <1>3, <1>4, <1>5, CallInv

\* A change of status that no reviewer can use to approve.
LEMMA StatusCallInv ==
    ASSUME SkillsInv, NEW k \in Callers, NEW c \in Contribs,
           NEW to \in {"draft", "pending", "needs_revision", "withdrawn", "rejected"},
           Call(k, [NoCall EXCEPT !.op = "status", !.by = c, !.to = to]),
           UNCHANGED <<skill, rows, zips, ingests, contribs>>
    PROVE  SkillsInv'
<1> DEFINE t == [NoCall EXCEPT !.op = "status", !.by = c, !.to = to]
<1>1. t \in CallRows /\ t.op = "status" /\ t.by = c /\ t.to = to
  BY EmptyRows DEF CallRows, CallOps, ContribStatuses
<1> HIDE DEF t
<1>2. CallOK(t)
  BY <1>1 DEF CallOK
<1>3. Call(k, t) /\ zips' \subseteq Uploads
  BY DEF t, SkillsInv, SkillsTyped
<1> QED
  BY <1>1, <1>2, <1>3, CallInv

\* Submit, reject, request changes, resubmit, withdraw, and the edit of a file.
LEMMA ContribCallInv ==
    ASSUME SkillsInv, NEW k \in Callers, NEW c \in Contribs,
           \/ EditFiles(k, c) \/ SubmitContribution(k, c) \/ RejectContribution(k, c)
           \/ RequestContribChanges(k, c) \/ ResubmitContribution(k, c)
           \/ WithdrawContribution(k, c)
    PROVE  SkillsInv'
<1>1. CASE EditFiles(k, c)
  <2> DEFINE t == [NoCall EXCEPT !.op = "edit", !.by = c]
  <2>1. t \in CallRows /\ t.op = "edit" /\ t.by = c
    BY EmptyRows DEF CallRows, CallOps
  <2> HIDE DEF t
  <2>2. CallOK(t)
    BY <2>1 DEF CallOK
  <2>3. Call(k, t) /\ UNCHANGED <<skill, rows, ingests, contribs>> /\ zips' \subseteq Uploads
    BY <1>1 DEF t, EditFiles, SkillsInv, SkillsTyped
  <2> QED
    BY <2>1, <2>2, <2>3, CallInv
<1>2. CASE ~EditFiles(k, c)
  <2>1. PICK to \in {"draft", "pending", "needs_revision", "withdrawn"} :
          /\ Call(k, [NoCall EXCEPT !.op = "status", !.by = c, !.to = to])
          /\ UNCHANGED <<skill, rows, zips, ingests, contribs>>
    BY <1>2 DEF SubmitContribution, RejectContribution, RequestContribChanges,
                ResubmitContribution, WithdrawContribution, ChangeStatus
  <2> QED
    BY <2>1, StatusCallInv
<1> QED
  BY <1>1, <1>2

\* An approval reads the skill it will write: the version after the current.
LEMMA ApproveInv ==
    ASSUME SkillsInv, NEW k \in Callers, NEW c \in Contribs, ApproveContribution(k, c)
    PROVE  SkillsInv'
<1> DEFINE seen == IF contribs[c].linked THEN skill ELSE NoSkill
           new == [status |-> "active", current |-> seen.current + 1,
                   path |-> Copied(seen.current + 1)]
           t == [NoCall EXCEPT !.op = "approve", !.by = c, !.seen = seen,
                   !.hash = contribs[c].text, !.new = new]
<1>1. /\ seen.current < MaxNumber /\ UNCHANGED <<skill, rows, zips, ingests, contribs>>
      /\ Call(k, t) \/ Call(k, [NoCall EXCEPT !.op = "status", !.by = c, !.to = "rejected"])
  BY DEF ApproveContribution
<1>2. seen \in SkillRows /\ contribs[c].text \in 0..MaxText /\ zips' \subseteq Uploads
  BY <1>1, EmptyRows DEF SkillsInv, SkillsTyped, ContribRows
<1> HIDE DEF seen
<1>3. seen.current + 1 \in 0..MaxNumber
  BY <1>1, <1>2, SkillsAssumption DEF SkillRows
<1>4. Copied(seen.current + 1) \in Paths
  BY <1>3, EmptyRows
<1>5. new \in SkillRows /\ new.current = seen.current + 1
  BY <1>3, <1>4 DEF SkillRows
<1> HIDE DEF new
<1>6. t \in CallRows /\ t.op = "approve" /\ t.by = c /\ t.new = new /\ t.seen = seen
  BY <1>2, <1>5, EmptyRows DEF CallRows, CallOps
<1> HIDE DEF t
<1>7. CallOK(t)
  BY <1>5, <1>6 DEF CallOK
<1> QED
  BY <1>1, <1>2, <1>6, <1>7, CallInv, StatusCallInv

-----------------------------------------------------------------------------
\* Slots that fall free: the request is lost, its upload fails, or its job is
\* enqueued.
LEMMA ReturnInv ==
    ASSUME SkillsInv, NEW k \in Callers, EnqueueIngest(k) \/ FailUpload(k) \/ LoseCall(k)
    PROVE  SkillsInv'
<1>1. /\ calls' = [calls EXCEPT ![k] = NoCall] /\ UNCHANGED <<skill, rows, contribs>>
      /\ zips' \subseteq zips /\ zips \subseteq Uploads /\ ingests \subseteq IngestRows
  BY DEF EnqueueIngest, FailUpload, LoseCall, Return, SkillsInv, SkillsTyped
<1>2. CallOK(NoCall)
  BY EmptyRows DEF CallOK
<1>3. CASE EnqueueIngest(k)
  <2> DEFINE j == [by |-> calls[k].by, at |-> "queued", try |-> 1, seen |-> NoSkill]
  <2>1. calls[k].op = "enqueue" /\ ingests' = ingests \union {j}
    BY <1>3 DEF EnqueueIngest
  <2>2. calls[k].by \in Uploads
    BY <2>1, RowFields DEF CallOK
  <2>3. j \in IngestRows /\ j.at = "queued"
    BY <2>2, EmptyRows, SkillsAssumption DEF IngestRows
  <2> HIDE DEF j
  <2> QED
    BY <1>1, <1>2, <2>1, <2>3, EmptyRows, CallStep
<1>4. CASE FailUpload(k) \/ LoseCall(k)
  <2>1. ingests' = ingests
    BY <1>4 DEF FailUpload, LoseCall
  <2> QED
    BY <1>1, <1>2, <2>1, EmptyRows, CallStep
<1> QED
  BY <1>3, <1>4

\* A step that writes the skill and keeps, or adds to, its rows.
LEMMA CommitStep ==
    ASSUME SkillsInv, SkillsTyped', rows \subseteq rows', CurrentVersionExists',
           skill.status = "gone" => skill'.status = "gone",
           \A k \in Callers : calls'[k] = calls[k] \/ CallOK(calls[k])',
           \A j \in ingests' : j \in ingests \/ IngestOK(j)',
           ApprovedLinked', ApprovedContributionLanded'
    PROVE  SkillsInv'
<1>1. Forward
  BY DEF Forward
<1> QED
  BY <1>1, SkillStep

\* An upload adds its row; only the first one sets the current version.
LEMMA CommitUploadInv ==
    ASSUME SkillsInv, NEW k \in Callers, CommitUpload(k) PROVE SkillsInv'
<1> DEFINE q == calls[k]
           created == q.seen.status = "none"
           row == [by |-> q.by, path |-> NoPath, hash |-> q.by,
                   number |-> IF created THEN 1 ELSE q.seen.current + 1]
           t == [q EXCEPT !.op = "enqueue"]
<1>1. /\ q.op = "upload" /\ rows' = rows \union {row}
      /\ IF created THEN skill.status = "none" /\ skill' = q.new
                    ELSE Exists /\ skill' = Saved(q.seen, q.new)
      /\ calls' = [calls EXCEPT ![k] = t] /\ UNCHANGED <<zips, ingests, contribs>>
  BY DEF CommitUpload
<1>2. /\ q \in CallRows /\ q.by \in Uploads /\ q.seen.current < MaxNumber
      /\ q.new.current = IF created THEN 1 ELSE q.seen.current
  BY <1>1, RowFields DEF CallOK
<1>3. /\ q.seen \in SkillRows /\ q.new \in SkillRows /\ skill \in SkillRows
  BY <1>2, RowFields DEF CallRows
<1>4. row \in VersionRows /\ row.number = (IF created THEN 1 ELSE q.seen.current + 1)
  <2>1. NoPath \in Paths /\ q.seen.current \in 0..MaxNumber
    BY <1>3, SkillsAssumption DEF Paths, NoPath, SkillRows
  <2>2. (IF created THEN 1 ELSE q.seen.current + 1) \in 1..MaxNumber
    BY <1>2, <2>1, SkillsAssumption
  <2> HIDE DEF NoPath
  <2> QED
    BY <1>2, <2>1, <2>2 DEF VersionRows
<1>5. t \in CallRows /\ t.op = "enqueue" /\ t.by = q.by
  BY <1>2 DEF CallRows, CallOps
<1>6. /\ skill' \in SkillRows /\ skill.status # "gone"
      /\ skill'.current = IF created THEN 1 ELSE skill.current
      /\ ~created => Exists
  BY <1>1, <1>2, <1>3, SavedColumns DEF Exists
<1> HIDE DEF q, row, t
<1>7. SkillsTyped'
  BY <1>1, <1>4, <1>5, <1>6 DEF SkillsInv, SkillsTyped
<1>8. CurrentVersionExists'
  <2>1. \E r \in rows' : r.number = skill'.current
    BY <1>1, <1>4, <1>6 DEF SkillsInv, CurrentVersionExists
  <2> QED
    BY <2>1 DEF CurrentVersionExists
<1>9. ASSUME NEW i \in Callers PROVE calls'[i] = calls[i] \/ CallOK(calls[i])'
  <2>1. CASE i # k
    BY <1>1, <2>1 DEF SkillsInv, SkillsTyped
  <2>2. CASE i = k
    <3>1. calls'[i] = t
      BY <1>1, <2>2 DEF SkillsInv, SkillsTyped
    <3> QED
      BY <1>2, <1>5, <3>1 DEF CallOK
  <2> QED
    BY <2>1, <2>2
<1>10. ApprovedLinked' /\ ApprovedContributionLanded'
  BY <1>1 DEF SkillsInv, ApprovedLinked, ApprovedContributionLanded
<1> QED
  BY <1>1, <1>6, <1>7, <1>8, <1>9, <1>10, CommitStep

\* set_latest and deletion: the row that the request read is still there.
LEMMA CommitSkillInv ==
    ASSUME SkillsInv, NEW k \in Callers, CommitSkill(k) PROVE SkillsInv'
<1> DEFINE q == calls[k]
<1>1. /\ q.op \in {"latest", "delete"} /\ Exists /\ skill' = Saved(q.seen, q.new)
      /\ calls' = [calls EXCEPT ![k] = NoCall] /\ UNCHANGED <<rows, zips, ingests, contribs>>
  BY DEF CommitSkill, Return
<1>2. q \in CallRows /\ CallOK(q) /\ skill \in SkillRows
  BY RowFields
<1>3. q.seen \in SkillRows /\ q.new \in SkillRows
  BY <1>2 DEF CallRows
<1>4. /\ skill' \in SkillRows
      /\ skill'.current = IF q.new.current = q.seen.current THEN skill.current
                          ELSE q.new.current
  BY <1>1, <1>2, <1>3, SavedColumns
<1>5. SkillsTyped'
  BY <1>1, <1>4, EmptyRows DEF SkillsInv, SkillsTyped
<1>6. CurrentVersionExists'
  <2>1. \E r \in rows : r.number = skill.current
    BY <1>1 DEF SkillsInv, CurrentVersionExists
  <2>2. q.op = "latest" => \E r \in rows : r.number = q.new.current
    BY <1>1, <1>2 DEF CallOK, Exists
  <2>3. q.op = "delete" => q.new.current = q.seen.current
    BY <1>2 DEF CallOK
  <2>4. \E r \in rows' : r.number = skill'.current
    BY <1>1, <1>4, <2>1, <2>2, <2>3
  <2> QED
    BY <2>4 DEF CurrentVersionExists
<1>7. ASSUME NEW i \in Callers PROVE calls'[i] = calls[i] \/ CallOK(calls[i])'
  <2>1. calls'[i] = calls[i] \/ calls'[i] = NoCall
    BY <1>1 DEF SkillsInv, SkillsTyped
  <2> QED
    BY <2>1, EmptyRows DEF CallOK
<1>8. ApprovedLinked' /\ ApprovedContributionLanded'
  BY <1>1 DEF SkillsInv, ApprovedLinked, ApprovedContributionLanded
<1>9. skill.status = "gone" => skill'.status = "gone"
  BY <1>1 DEF Exists
<1> QED
  BY <1>1, <1>5, <1>6, <1>7, <1>8, <1>9, CommitStep

\* An approval adds its row, makes it the current one and links the
\* contribution, in one commit.
LEMMA CommitContributionInv ==
    ASSUME SkillsInv, NEW k \in Callers, CommitContribution(k) PROVE SkillsInv'
<1> DEFINE q == calls[k]
           c == q.by
           row == [by |-> c, number |-> q.new.current, path |-> q.new.path, hash |-> q.hash]
           x == [contribs[c] EXCEPT !.status = "approved", !.linked = TRUE]
<1>1. /\ q.op = "approve" /\ skill' = Saved(q.seen, q.new) /\ rows' = rows \union {row}
      /\ IF q.seen.status = "none" THEN skill.status = "none" ELSE Exists
      /\ contribs' = [contribs EXCEPT ![c].status = "approved", ![c].linked = TRUE]
      /\ calls' = [calls EXCEPT ![k] = NoCall] /\ UNCHANGED <<zips, ingests>>
  BY DEF CommitContribution, Return
<1>2. /\ q \in CallRows /\ c \in Contribs /\ q.new.current = q.seen.current + 1
  BY <1>1, RowFields DEF CallOK
<1>3. /\ q.seen \in SkillRows /\ q.new \in SkillRows /\ skill \in SkillRows
      /\ q.hash \in 0..MaxText
  BY <1>2, RowFields DEF CallRows
<1>4. /\ q.new.current \in 1..MaxNumber /\ q.new.current # q.seen.current
      /\ q.new.path \in Paths
  BY <1>2, <1>3, SkillsAssumption DEF SkillRows
<1>5. row \in VersionRows /\ row.by = c /\ row.number = q.new.current
  BY <1>2, <1>3, <1>4 DEF VersionRows
<1>6. /\ x \in ContribRows /\ x.linked = TRUE
      /\ \A d \in Contribs : contribs'[d] = IF d = c THEN x ELSE contribs[d]
  <2>1. contribs[c] \in ContribRows /\ contribs \in [Contribs -> ContribRows]
    BY <1>2 DEF SkillsInv, SkillsTyped
  <2>2. x \in ContribRows /\ x.linked = TRUE
    BY <2>1 DEF ContribRows, ContribStatuses
  <2> QED
    BY <1>1, <1>2, <2>1, <2>2
<1>7. skill' \in SkillRows /\ skill'.current = q.new.current /\ skill.status # "gone"
  BY <1>1, <1>3, <1>4, SavedColumns DEF Exists
<1> HIDE DEF q, row, x
<1>8. contribs' \in [Contribs -> ContribRows]
  <2>1. contribs' = [d \in Contribs |-> contribs'[d]]
    BY <1>1 DEF SkillsInv, SkillsTyped
  <2>2. \A d \in Contribs : contribs'[d] \in ContribRows
    BY <1>6 DEF SkillsInv, SkillsTyped
  <2> QED
    BY <2>1, <2>2
<1>9. SkillsTyped'
  BY <1>1, <1>5, <1>7, <1>8, EmptyRows DEF SkillsInv, SkillsTyped
<1>10. CurrentVersionExists'
  BY <1>1, <1>5, <1>7 DEF CurrentVersionExists
<1>11. ApprovedLinked' /\ ApprovedContributionLanded'
  BY <1>1, <1>5, <1>6 DEF SkillsInv, ApprovedLinked, ApprovedContributionLanded
<1>12. ASSUME NEW i \in Callers PROVE calls'[i] = calls[i] \/ CallOK(calls[i])'
  <2>1. calls'[i] = calls[i] \/ calls'[i] = NoCall
    BY <1>1 DEF SkillsInv, SkillsTyped
  <2> QED
    BY <2>1, EmptyRows DEF CallOK
<1> QED
  BY <1>1, <1>7, <1>9, <1>10, <1>11, <1>12, CommitStep

\* A contribution changes, and is not approved by that.
LEMMA ContribStep ==
    ASSUME SkillsInv, NEW c \in Contribs, NEW x \in ContribRows,
           contribs' = [contribs EXCEPT ![c] = x],
           x.status = "approved" => contribs[c].status = "approved" /\ x.linked = contribs[c].linked,
           calls' = calls \/ \E k \in Callers : calls' = [calls EXCEPT ![k] = NoCall],
           UNCHANGED <<skill, rows, zips, ingests>>
    PROVE  SkillsInv'
<1>1. \A d \in Contribs : contribs'[d] = IF d = c THEN x ELSE contribs[d]
  BY DEF SkillsInv, SkillsTyped
<1>2. SkillsTyped'
  BY EmptyRows DEF SkillsInv, SkillsTyped
<1>3. ASSUME NEW i \in Callers PROVE calls'[i] = calls[i] \/ CallOK(calls[i])'
  <2>1. calls'[i] = calls[i] \/ calls'[i] = NoCall
    BY DEF SkillsInv, SkillsTyped
  <2> QED
    BY <2>1, EmptyRows DEF CallOK
<1>4. ApprovedLinked' /\ ApprovedContributionLanded'
  BY <1>1 DEF SkillsInv, ApprovedLinked, ApprovedContributionLanded
<1>5. CurrentVersionExists'
  BY DEF SkillsInv, CurrentVersionExists, Exists
<1> QED
  BY <1>2, <1>3, <1>4, <1>5, CommitStep

\* Contributions come, go, and change files or status.
LEMMA ContribInv ==
    ASSUME SkillsInv, NEW c \in Contribs,
           \/ DeleteContribution(c)
           \/ \E s \in {"draft", "pending"}, l \in BOOLEAN : CreateContribution(c, s, l)
    PROVE  SkillsInv'
<1>1. CASE DeleteContribution(c)
  <2> DEFINE x == [contribs[c] EXCEPT !.status = "deleted"]
  <2>1. x \in ContribRows /\ x.status = "deleted"
    BY RowFields DEF ContribRows, ContribStatuses
  <2>2. /\ contribs' = [contribs EXCEPT ![c] = x]
        /\ UNCHANGED <<skill, rows, zips, ingests, calls>>
    BY <1>1 DEF DeleteContribution
  <2> HIDE DEF x
  <2> QED
    BY <2>1, <2>2, ContribStep
<1>2. ASSUME NEW s \in {"draft", "pending"}, NEW l \in BOOLEAN, CreateContribution(c, s, l)
      PROVE  SkillsInv'
  <2> DEFINE x == [status |-> s, text |-> 0, linked |-> l]
  <2>1. x \in ContribRows /\ x.status = s
    BY SkillsAssumption DEF ContribRows, ContribStatuses
  <2>2. /\ contribs' = [contribs EXCEPT ![c] = x]
        /\ UNCHANGED <<skill, rows, zips, ingests, calls>>
    BY <1>2 DEF CreateContribution
  <2> HIDE DEF x
  <2> QED
    BY <2>1, <2>2, ContribStep
<1> QED
  BY <1>1, <1>2

\* The writes of a request to its contribution.
LEMMA ContribWriteInv ==
    ASSUME SkillsInv, NEW k \in Callers, WriteFiles(k) \/ CommitContribStatus(k)
    PROVE  SkillsInv'
<1> DEFINE c == calls[k].by
<1>1. calls[k].op \in {"edit", "status"} /\ calls' = [calls EXCEPT ![k] = NoCall]
      /\ UNCHANGED <<skill, rows, zips, ingests>>
  BY DEF WriteFiles, CommitContribStatus, Return
<1>2. /\ c \in Contribs /\ calls[k].to \in ContribStatuses
      /\ calls[k].op = "status" => calls[k].to # "approved"
  BY <1>1, RowFields DEF CallOK, CallRows
<1>3. contribs[c] \in ContribRows /\ contribs \in [Contribs -> ContribRows]
  BY <1>2 DEF SkillsInv, SkillsTyped
<1>4. CASE WriteFiles(k)
  <2> DEFINE text == IF contribs[c].text < MaxText THEN contribs[c].text + 1
                     ELSE contribs[c].text
             x == [contribs[c] EXCEPT !.text = text]
  <2>1. contribs' = [contribs EXCEPT ![c] = x]
    BY <1>4 DEF WriteFiles
  <2>2. text \in 0..MaxText
    BY <1>3, SkillsAssumption DEF ContribRows
  <2> HIDE DEF text
  <2>3. /\ x \in ContribRows /\ x.status = contribs[c].status
        /\ x.linked = contribs[c].linked
    BY <1>3, <2>2 DEF ContribRows
  <2> HIDE DEF x, c
  <2> QED
    BY <1>1, <1>2, <2>1, <2>3, ContribStep
<1>5. CASE CommitContribStatus(k)
  <2> DEFINE x == [contribs[c] EXCEPT !.status = calls[k].to]
  <2>1. contribs' = [contribs EXCEPT ![c] = x] /\ calls[k].op = "status"
    BY <1>5 DEF CommitContribStatus
  <2>2. x \in ContribRows /\ x.status # "approved"
    BY <1>2, <1>3, <2>1 DEF ContribRows
  <2> HIDE DEF x, c
  <2> QED
    BY <1>1, <1>2, <2>1, <2>2, ContribStep
<1> QED
  BY <1>4, <1>5

-----------------------------------------------------------------------------
\* A step of an ingestion that writes no row: the job stays, waits or ends,
\* its file stays or goes.
LEMMA IngestStepInv ==
    ASSUME SkillsInv, ingests' \subseteq IngestRows,
           \A j \in ingests' : j \in ingests \/ j.at = "queued",
           zips' \subseteq Uploads, UNCHANGED <<skill, rows, contribs, calls>>
    PROVE  SkillsInv'
<1>1. SkillsTyped'
  BY DEF SkillsInv, SkillsTyped
<1>2. \A j \in ingests' : j \in ingests \/ IngestOK(j)'
  BY DEF IngestOK
<1>3. CurrentVersionExists' /\ ApprovedLinked' /\ ApprovedContributionLanded'
  BY DEF SkillsInv, ApprovedLinked, CurrentVersionExists, Exists, ApprovedContributionLanded
<1> QED
  BY <1>1, <1>2, <1>3, CommitStep

\* A failure, an interruption, the last try, and the hourly cleanup.
LEMMA EndIngestInv ==
    ASSUME SkillsInv,
           \/ \E j \in ingests : FailIngest(j) \/ InterruptIngest(j) \/ AbandonIngest(j)
           \/ \E u \in Uploads : CleanupTempUploads(u)
    PROVE  SkillsInv'
<1>1. zips \subseteq Uploads /\ ingests \subseteq IngestRows
  BY DEF SkillsInv, SkillsTyped
<1>2. ASSUME NEW j \in ingests, InterruptIngest(j) PROVE SkillsInv'
  <2> DEFINE r == [j EXCEPT !.at = "queued", !.try = @ + 1, !.seen = NoSkill]
  <2>1. /\ j.try < MaxAttempts /\ ingests' = (ingests \ {j}) \union {r}
        /\ zips' \subseteq zips /\ UNCHANGED <<skill, rows, contribs, calls>>
    BY <1>2 DEF InterruptIngest
  <2>2. r \in IngestRows /\ r.at = "queued"
    <3>1. j \in IngestRows /\ j.try + 1 \in 1..MaxAttempts
      BY <1>1, <2>1, SkillsAssumption DEF IngestRows
    <3> QED
      BY <3>1, EmptyRows DEF IngestRows
  <2> HIDE DEF r
  <2> QED
    BY <1>1, <2>1, <2>2, IngestStepInv
<1>3. ASSUME NEW j \in ingests, FailIngest(j) \/ AbandonIngest(j) PROVE SkillsInv'
  <2>1. /\ ingests' \subseteq ingests /\ zips' \subseteq zips
        /\ UNCHANGED <<skill, rows, contribs, calls>>
    BY <1>3 DEF FailIngest, AbandonIngest, EndIngest
  <2> QED
    BY <1>1, <2>1, IngestStepInv
<1>4. ASSUME NEW u \in Uploads, CleanupTempUploads(u) PROVE SkillsInv'
  <2>1. ingests' = ingests /\ zips' \subseteq zips /\ UNCHANGED <<skill, rows, contribs, calls>>
    BY <1>4 DEF CleanupTempUploads
  <2> QED
    BY <1>1, <2>1, IngestStepInv
<1> QED
  BY <1>2, <1>3, <1>4

\* A job starts only on a skill and a row that are there.
LEMMA StartIngestInv ==
    ASSUME SkillsInv, NEW j \in ingests, StartIngest(j) PROVE SkillsInv'
<1> DEFINE new == [skill EXCEPT !.status = "processing"]
           r == [j EXCEPT !.at = "running", !.seen = new]
<1>1. UNCHANGED <<rows, zips, contribs, calls>> /\ ingests \subseteq IngestRows
  BY DEF StartIngest, SkillsInv, SkillsTyped
<1>2. CASE Exists /\ \E v \in rows : v.by = j.by
  <2>1. skill' = new /\ ingests' = (ingests \ {j}) \union {r}
    BY <1>2 DEF StartIngest
  <2>2. new \in SkillRows /\ new.current = skill.current /\ skill.status # "gone"
    BY <1>2, RowFields DEF SkillRows, Exists
  <2> HIDE DEF new
  <2>3. r \in IngestRows /\ r.by = j.by
    BY <1>1, <2>2 DEF IngestRows
  <2> HIDE DEF r
  <2>4. SkillsTyped'
    BY <1>1, <2>1, <2>2, <2>3 DEF SkillsInv, SkillsTyped
  <2>5. CurrentVersionExists'
    BY <1>1, <1>2, <2>1, <2>2 DEF SkillsInv, CurrentVersionExists
  <2>6. \A i \in ingests' : i \in ingests \/ IngestOK(i)'
    BY <1>1, <1>2, <2>1, <2>3 DEF IngestOK
  <2>7. ApprovedLinked' /\ ApprovedContributionLanded'
    BY <1>1 DEF SkillsInv, ApprovedLinked, ApprovedContributionLanded
  <2> QED
    BY <1>1, <2>2, <2>4, <2>5, <2>6, <2>7, CommitStep
<1>3. CASE ~(Exists /\ \E v \in rows : v.by = j.by)
  <2>1. ingests' \subseteq ingests /\ UNCHANGED skill
    BY <1>3 DEF StartIngest, EndIngest
  <2>2. zips' \subseteq Uploads
    BY <1>1 DEF SkillsInv, SkillsTyped
  <2> QED
    BY <1>1, <2>1, <2>2, IngestStepInv
<1> QED
  BY <1>2, <1>3

\* An ingestion makes its own row the current one, or leaves the current
\* version as another request has left it.
LEMMA FinishIngestInv ==
    ASSUME SkillsInv, NEW j \in ingests, FinishIngest(j) PROVE SkillsInv'
<1> DEFINE n == RowOf(j).number
           new == [status |-> "active", current |-> n, path |-> Stored(n)]
           kept(r) == IF r.by = j.by THEN [r EXCEPT !.path = Stored(n)] ELSE r
<1>1. /\ j.at = "running" /\ Exists /\ skill' = Saved(j.seen, new)
      /\ rows' = {kept(r) : r \in rows} /\ zips' \subseteq zips /\ ingests' \subseteq ingests
      /\ UNCHANGED <<contribs, calls>>
  BY DEF FinishIngest, EndIngest
<1>2. \E r \in rows : r.by = j.by
  BY <1>1, RowFields DEF IngestOK, Exists
<1>3. RowOf(j) \in rows
  BY <1>2 DEF RowOf
<1>4. n \in 1..MaxNumber /\ n \in 0..MaxNumber
  BY <1>3, RowFields, SkillsAssumption DEF VersionRows
<1>5. Stored(n) \in Paths
  BY <1>4, EmptyRows
<1> HIDE DEF n
<1>6. new \in SkillRows /\ new.current = n
  BY <1>4, <1>5 DEF SkillRows
<1>7. ASSUME NEW r \in rows
      PROVE  kept(r) \in VersionRows /\ kept(r).by = r.by /\ kept(r).number = r.number
  BY <1>5, RowFields DEF VersionRows
<1> HIDE DEF new, kept
<1>8. /\ skill' \in SkillRows
      /\ skill'.current = n \/ skill'.current = skill.current
  <2>1. j.seen \in SkillRows /\ skill \in SkillRows
    BY RowFields DEF IngestRows
  <2> QED
    BY <1>1, <1>6, <2>1, SavedColumns
<1>9. \A r \in rows : \E x \in rows' : x.by = r.by /\ x.number = r.number
  BY <1>1, <1>7
<1>10. SkillsTyped'
  BY <1>1, <1>7, <1>8 DEF SkillsInv, SkillsTyped
<1>11. CurrentVersionExists'
  <2>1. \E r \in rows : r.number = skill'.current
    BY <1>1, <1>3, <1>8 DEF SkillsInv, CurrentVersionExists, n
  <2> QED
    BY <1>9, <2>1 DEF CurrentVersionExists
<1>12. ApprovedLinked' /\ ApprovedContributionLanded'
  BY <1>1, <1>9 DEF SkillsInv, ApprovedLinked, ApprovedContributionLanded
<1>13. Forward
  BY <1>1, <1>9 DEF Forward, Exists
<1> QED
  BY <1>1, <1>10, <1>11, <1>12, <1>13, SkillStep

\* A deletion takes the linked contributions with the rows; no later commit
\* finds the skill.
LEMMA DeleteTaskInv == ASSUME SkillsInv, DeleteSkillTask PROVE SkillsInv'
<1>1. UNCHANGED <<zips, ingests, calls>>
  BY DEF DeleteSkillTask
<1>2. CASE UNCHANGED <<skill, rows, contribs>>
  <2>1. ingests' \subseteq IngestRows /\ zips' \subseteq Uploads
    BY <1>1 DEF SkillsInv, SkillsTyped
  <2> QED
    BY <1>1, <1>2, <2>1, IngestStepInv
<1>3. CASE ~UNCHANGED <<skill, rows, contribs>>
  <2> DEFINE dropped(c) == [contribs[c] EXCEPT !.status = "deleted"]
  <2>1. /\ skill' = [NoSkill EXCEPT !.status = "gone"] /\ rows' = {}
        /\ contribs' = [c \in Contribs |-> IF contribs[c].linked THEN dropped(c)
                                           ELSE contribs[c]]
    BY <1>3 DEF DeleteSkillTask
  <2>2. skill' \in SkillRows /\ skill'.status = "gone"
    BY <2>1, EmptyRows DEF SkillRows
  <2>3. \A c \in Contribs : dropped(c) \in ContribRows /\ dropped(c).status = "deleted"
    BY RowFields DEF ContribRows, ContribStatuses
  <2> HIDE DEF dropped
  <2>4. SkillsTyped'
    BY <1>1, <2>1, <2>2, <2>3 DEF SkillsInv, SkillsTyped
  <2>5. \A c \in Contribs : contribs'[c].status # "approved"
    BY <2>1, <2>3 DEF SkillsInv, ApprovedLinked
  <2>6. Forward /\ CurrentVersionExists' /\ ApprovedLinked' /\ ApprovedContributionLanded'
    BY <2>2, <2>5 DEF Forward, CurrentVersionExists, Exists, ApprovedLinked,
                      ApprovedContributionLanded
  <2> QED
    BY <1>1, <2>4, <2>6, SkillStep
<1> QED
  BY <1>2, <1>3

\* Every step of the skills keeps SkillsInv.
LEMMA SkillsNextInv == ASSUME SkillsInv, [SkillsNext]_skillsVars PROVE SkillsInv'
<1>1. ASSUME NEW k \in Callers, Requests(k) PROVE SkillsInv'
  BY <1>1, UploadInv, SetLatestInv, DeleteSkillInv, ContribCallInv, ApproveInv DEF Requests
<1>2. ASSUME NEW k \in Callers, Commits(k) PROVE SkillsInv'
  BY <1>2, CommitUploadInv, ReturnInv, CommitSkillInv, ContribWriteInv,
     CommitContributionInv DEF Commits
<1>3. ASSUME NEW j \in ingests, IngestStep(j) PROVE SkillsInv'
  BY <1>3, StartIngestInv, FinishIngestInv, EndIngestInv DEF IngestStep
<1>4. CASE UNCHANGED skillsVars
  <2>1. UNCHANGED <<skill, rows, zips, ingests, contribs, calls>>
    BY <1>4 DEF skillsVars
  <2>2. ingests' \subseteq IngestRows /\ zips' \subseteq Uploads
    BY <2>1 DEF SkillsInv, SkillsTyped
  <2> QED
    BY <2>1, <2>2, IngestStepInv
<1> QED
  BY <1>1, <1>2, <1>3, <1>4, EndIngestInv, DeleteTaskInv, ContribInv DEF SkillsNext

-----------------------------------------------------------------------------
(* The AI pre-review: types only.  Its jobs write without a lock, so beyond  *)
(* the types its one promise is a liveness property, which TLC checks.       *)

DraftRows == [status : DraftStatuses, round : 0..MaxRound, ai : AiStatuses,
              verdict : -1..MaxRound]
AskRows == [op : {"none", "create", "resubmit", "decide"}, draft : DraftRows,
            id : Drafts \union {"none"}]

ReviewInv == /\ draft \in [Drafts -> DraftRows]
             /\ asking \in [Authors -> AskRows]
             /\ \A a \in Authors : asking[a].op # "none" => asking[a].id \in Drafts
             /\ reviews \subseteq Reviews

\* No draft and no request are well-typed rows.
LEMMA EmptyReviewRows ==
    NoRow \in DraftRows /\ NoAsk \in AskRows /\ NoAsk.op = "none"
<1>1. NoRow \in DraftRows
  BY PreReviewAssumption DEF NoRow, DraftRows, DraftStatuses, AiStatuses
<1> QED
  BY <1>1 DEF NoAsk, AskRows

\* ReviewInit: no draft, no request, no job.
LEMMA ReviewInitInv == ReviewInit => ReviewInv
BY EmptyReviewRows DEF ReviewInit, ReviewInv

\* A step that writes one draft, one request and one job.
LEMMA ReviewStep ==
    ASSUME ReviewInv, reviews' \subseteq Reviews,
           \/ UNCHANGED draft
           \/ \E d \in Drafts, x \in DraftRows : draft' = [draft EXCEPT ![d] = x],
           \/ UNCHANGED asking
           \/ \E a \in Authors, t \in AskRows :
                 /\ asking' = [asking EXCEPT ![a] = t]
                 /\ t.op # "none" => t.id \in Drafts
    PROVE  ReviewInv'
<1>1. draft' \in [Drafts -> DraftRows]
  BY DEF ReviewInv
<1>2. /\ asking' \in [Authors -> AskRows]
      /\ \A a \in Authors : asking'[a].op # "none" => asking'[a].id \in Drafts
  BY DEF ReviewInv
<1> QED
  BY <1>1, <1>2 DEF ReviewInv

\* Submissions and decisions: the row they will commit is well-typed, and so
\* is the job that is out before it.
LEMMA SubmitInv ==
    ASSUME ReviewInv, NEW a \in Authors, NEW d \in Drafts,
           \/ \E ai \in {"queued", "skipped"} : Submit(a, d, ai)
           \/ \E to \in Decisions : Decide(a, d, to)
    PROVE  ReviewInv'
<1>1. ASSUME NEW ai \in {"queued", "skipped"}, Submit(a, d, ai) PROVE ReviewInv'
  <2> DEFINE new == draft[d].status = "none"
             round == IF new THEN 0 ELSE draft[d].round + 1
             row == [status |-> "pending", round |-> round, ai |-> ai, verdict |-> -1]
             t == [op |-> IF new THEN "create" ELSE "resubmit", id |-> d, draft |-> row]
             j == [id |-> d, round |-> round, at |-> "queued", try |-> 1]
  <2>1. /\ round <= MaxRound /\ asking' = [asking EXCEPT ![a] = t]
        /\ reviews' \subseteq reviews \union {j} /\ UNCHANGED draft
    BY <1>1 DEF Submit, EnqueueAiReview
  <2>2. draft[d].round \in 0..MaxRound
    BY DEF ReviewInv, DraftRows
  <2>3. round \in 0..MaxRound
    BY <2>1, <2>2, PreReviewAssumption
  <2> HIDE DEF round
  <2>4. row \in DraftRows /\ j \in Reviews
    BY <2>3, PreReviewAssumption DEF DraftRows, DraftStatuses, AiStatuses, Reviews
  <2> HIDE DEF row
  <2>5. t \in AskRows /\ t.id = d
    BY <2>4 DEF AskRows
  <2>6. reviews' \subseteq Reviews
    BY <2>1, <2>4 DEF ReviewInv
  <2> HIDE DEF t
  <2> QED
    BY <2>1, <2>5, <2>6, ReviewStep
<1>2. ASSUME NEW to \in Decisions, Decide(a, d, to) PROVE ReviewInv'
  <2> DEFINE row == [NoRow EXCEPT !.status = to]
             t == [op |-> "decide", id |-> d, draft |-> row]
  <2>1. asking' = [asking EXCEPT ![a] = t] /\ UNCHANGED <<draft, reviews>>
    BY <1>2 DEF Decide
  <2>2. row \in DraftRows
    BY EmptyReviewRows DEF DraftRows, DraftStatuses, Decisions
  <2> HIDE DEF row
  <2>3. t \in AskRows /\ t.id = d
    BY <2>2 DEF AskRows
  <2>4. reviews' \subseteq Reviews
    BY <2>1 DEF ReviewInv
  <2> HIDE DEF t
  <2> QED
    BY <2>1, <2>3, <2>4, ReviewStep
<1> QED
  BY <1>1, <1>2

\* A commit, or the loss of a request.
LEMMA EndRequestInv ==
    ASSUME ReviewInv, NEW a \in Authors, CommitRequest(a) \/ LoseRequest(a)
    PROVE  ReviewInv'
<1> DEFINE r == asking[a]
           row == IF r.op = "decide" THEN [draft[r.id] EXCEPT !.status = r.draft.status]
                  ELSE r.draft
<1>1. /\ r.op # "none" /\ asking' = [asking EXCEPT ![a] = NoAsk] /\ reviews' = reviews
      /\ UNCHANGED draft \/ draft' = [draft EXCEPT ![r.id] = row]
  BY DEF CommitRequest, LoseRequest
<1>2. r.id \in Drafts /\ r.draft \in DraftRows /\ draft[r.id] \in DraftRows
  BY <1>1 DEF ReviewInv, AskRows
<1>3. row \in DraftRows
  BY <1>2 DEF DraftRows
<1>4. reviews' \subseteq Reviews
  BY <1>1 DEF ReviewInv
<1> HIDE DEF row, r
<1> QED
  BY <1>1, <1>2, <1>3, <1>4, EmptyReviewRows, ReviewStep

\* The review job and the sweep touch only the columns of the check.
LEMMA WorkInv ==
    ASSUME ReviewInv,
           (\E j \in reviews : Work(j)) \/ (\E d \in Drafts : SweepStuckReview(d))
    PROVE  ReviewInv'
<1>1. ASSUME NEW j \in reviews, Work(j) PROVE ReviewInv'
  <2>1. j \in Reviews /\ reviews \subseteq Reviews /\ draft[j.id] \in DraftRows /\ j.id \in Drafts
    BY DEF ReviewInv, Reviews
  <2>2. ASSUME NEW at \in {"picked", "running", "judged"}, Move(j, at)
        PROVE  reviews' \subseteq Reviews
    <3>1. [j EXCEPT !.at = at] \in Reviews
      BY <2>1 DEF Reviews
    <3> QED
      BY <2>1, <2>2, <3>1 DEF Move
  <2>3. Done(j) => reviews' \subseteq Reviews
    BY <2>1 DEF Done
  <2>4. DieInReview(j) => reviews' \subseteq Reviews
    <3> DEFINE n == j.try + 1
    <3>1. j.try < MaxTries => n \in 1..MaxTries
      BY <2>1, PreReviewAssumption DEF Reviews
    <3>2. DieInReview(j) =>
            /\ j.try < MaxTries
            /\ reviews' = (reviews \ {j}) \union {[j EXCEPT !.at = "queued", !.try = n]}
      BY DEF DieInReview
    <3> HIDE DEF n
    <3>3. n \in 1..MaxTries => [j EXCEPT !.at = "queued", !.try = n] \in Reviews
      BY <2>1 DEF Reviews
    <3> QED
      BY <2>1, <3>1, <3>2, <3>3
  <2>5. reviews' \subseteq Reviews /\ asking' = asking
    BY <1>1, <2>2, <2>3, <2>4 DEF Work, PickReview, MarkRunning, Recheck, WriteVerdict,
                                  DieInReview, EndReview
  <2>6. CASE MarkRunning(j)
    <3> DEFINE x == [draft[j.id] EXCEPT !.ai = "running"]
    <3>1. draft' = [draft EXCEPT ![j.id] = x] /\ x \in DraftRows
      BY <2>1, <2>6 DEF MarkRunning, DraftRows, AiStatuses
    <3> QED
      BY <2>1, <2>5, <3>1, ReviewStep
  <2>7. CASE WriteVerdict(j)
    <3>1. PICK ai \in {"passed", "warned", "failed"} :
            draft' = [draft EXCEPT ![j.id].ai = ai, ![j.id].verdict = j.round]
      BY <2>7 DEF WriteVerdict
    <3> DEFINE x == [draft[j.id] EXCEPT !.ai = ai, !.verdict = j.round]
    <3>2. draft' = [draft EXCEPT ![j.id] = x]
      BY <2>1, <3>1 DEF ReviewInv
    <3>3. j.round \in -1..MaxRound
      BY <2>1, PreReviewAssumption DEF Reviews
    <3>4. x \in DraftRows
      BY <2>1, <3>3 DEF DraftRows, AiStatuses
    <3> HIDE DEF x
    <3> QED
      BY <2>1, <2>5, <3>2, <3>4, ReviewStep
  <2>8. CASE ~MarkRunning(j) /\ ~WriteVerdict(j)
    <3>1. UNCHANGED draft
      BY <1>1, <2>8 DEF Work, PickReview, Recheck, DieInReview, EndReview
    <3> QED
      BY <2>5, <3>1, ReviewStep
  <2> QED
    BY <2>6, <2>7, <2>8
<1>2. ASSUME NEW d \in Drafts, SweepStuckReview(d) PROVE ReviewInv'
  <2> DEFINE x == [draft[d] EXCEPT !.ai = "skipped"]
  <2>1. draft' = [draft EXCEPT ![d] = x] /\ UNCHANGED <<asking, reviews>>
    BY <1>2 DEF SweepStuckReview
  <2>2. x \in DraftRows /\ reviews' \subseteq Reviews
    BY <2>1 DEF ReviewInv, DraftRows, AiStatuses
  <2> HIDE DEF x
  <2> QED
    BY <2>1, <2>2, ReviewStep
<1> QED
  BY <1>1, <1>2

\* Every step of the pre-review keeps its types.
LEMMA ReviewNextInv == ASSUME ReviewInv, [ReviewNext]_reviewVars PROVE ReviewInv'
<1>1. CASE UNCHANGED reviewVars
  BY <1>1 DEF reviewVars, ReviewInv
<1> QED
  BY <1>1, SubmitInv, EndRequestInv, WorkInv DEF ReviewNext

-----------------------------------------------------------------------------
\* Both invariants hold in every reachable state of either kind of behaviour.
THEOREM Invariant == Spec => [](ReviewInv /\ SkillsInv)
<1>1. Init => ReviewInv /\ SkillsInv
  BY ReviewInitInv, SkillsInitInv DEF Init
<1>2. ReviewInv /\ SkillsInv /\ [Next]_vars => (ReviewInv /\ SkillsInv)'
  <2> SUFFICES ASSUME ReviewInv, SkillsInv, [Next]_vars PROVE (ReviewInv /\ SkillsInv)'
    OBVIOUS
  <2>1. [ReviewNext]_reviewVars /\ [SkillsNext]_skillsVars
    BY DEF Next, vars
  <2> QED
    BY <2>1, ReviewNextInv, SkillsNextInv
<1> QED
  BY <1>1, <1>2, PTL DEF Spec

\* Drafts, review jobs, the skill and its rows stay well-typed: no job is tried
\* more than max_tries times, whatever dies (worker.py, runner.py), and the skill
\* has a status of the database enum, whatever a failing ingestion writes.
THEOREM TypeCorrect == Spec => []TypeOK
<1>1. ReviewInv => ReviewTypeOK
  BY DEF ReviewInv, ReviewTypeOK, DraftRows
<1>2. SkillsInv => SkillsTypeOK
  <2> SUFFICES ASSUME SkillsInv PROVE SkillsTypeOK
    OBVIOUS
  <2>1. \A r \in rows : r.number \in 1..MaxNumber /\ r.path \in Paths
    BY DEF SkillsInv, SkillsTyped, VersionRows
  <2>2. \A j \in ingests : j.at \in {"queued", "running"} /\ j.try \in 1..MaxAttempts
    BY DEF SkillsInv, SkillsTyped, IngestRows
  <2> QED
    BY <2>1, <2>2 DEF SkillsInv, SkillsTyped, SkillsTypeOK, SkillRows, ContribRows
<1>3. ReviewInv /\ SkillsInv => TypeOK
  BY <1>1, <1>2 DEF TypeOK
<1> QED
  BY <1>3, Invariant, PTL

\* The current version of a skill is one of its version rows, however many
\* uploads, approvals, ingestions and choices of a version overlap.
THEOREM CurrentIsARow == Spec => []CurrentVersionExists
<1>1. SkillsInv => CurrentVersionExists
  BY DEF SkillsInv
<1> QED
  BY <1>1, Invariant, PTL

\* An approved contribution has its version row, or has gone with the skill.
THEOREM ApprovedLanded == Spec => []ApprovedContributionLanded
<1>1. SkillsInv => ApprovedContributionLanded
  BY DEF SkillsInv
<1> QED
  BY <1>1, Invariant, PTL
=============================================================================
