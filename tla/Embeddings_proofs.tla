-------------------------- MODULE Embeddings_proofs --------------------------
(* Embeddings for every set of pages, jobs, specs, names and requests: rows  *)
(* are typed and the key of the vectors is unique, queries meet vectors of   *)
(* their own model, and the flip keeps every page the search finds.  One     *)
(* inductive invariant, EmbeddingsInv, says what a run of the job has done   *)
(* of its pages and what an unfinished request still holds.                  *)
EXTENDS Embeddings, TLAPS

Steps == {"none", "queued", "picked", "batches", "embedding", "flipping"}
Models == Specs \union Names \union {None}
Vectors == [page : Pages, spec : Specs, model : Models]
JobRows == [spec : Specs, status : Statuses]
RunRows == [at : Steps, try : 0..MaxTries, todo : SUBSET Pages, total : SUBSET Pages,
            batch : SUBSET Pages, model : Models, alone : BOOLEAN, flips : BOOLEAN]
AskRows == {NoAsk} \union [op : {"switch"}, spec : Specs, name : Names \union {None}]
           \union [op : {"enqueue", "cancel"}, job : Jobs]
CompileRows == {NoCompile} \union [page : Pages \union {None}, spec : Specs, model : Models]
QueryRows == {NoQuery} \union [spec : Specs, model : Models]

Typed == /\ pages \subseteq Pages \ gone /\ gone \subseteq Pages
         /\ active \in Specs /\ named \in Names /\ local \in Offered \union {None}
         /\ vectors \subseteq Vectors
         /\ \A v \in vectors : v.page \in pages
         /\ \A v, w \in vectors : v.page = w.page /\ v.spec = w.spec => v = w
         /\ DOMAIN jobs \subseteq Jobs /\ jobs \in [DOMAIN jobs -> JobRows]
         /\ runs \in [Jobs -> RunRows]
         /\ asks \in [Admins -> AskRows]
         /\ compiles \in [Compiles -> CompileRows]
         /\ queries \in [Queries -> QueryRows]

HasVector(p, spec) == \E v \in vectors : v.page = p /\ v.spec = spec

\* A run has a job, works only on pages it counted, and those it has left
\* neither to do nor in its batch have a vector, or have been deleted, while
\* no other job has flipped.
RunOK(j, r) ==
    /\ r.at # "none" => j \in DOMAIN jobs
    /\ r.at = "none" => r = NoRun
    /\ r.at = "queued" => r.try < MaxTries
    /\ r.todo \subseteq r.total /\ r.total \subseteq pages \union gone
    /\ r.at # "embedding" => r.batch = {}
    /\ r.at = "flipping" => r.todo = {}
    /\ r.alone => /\ r.at \in {"batches", "embedding", "flipping"}
                  /\ \A p \in (r.total \intersect pages) \ (r.todo \union r.batch) :
                        HasVector(p, jobs[j].spec)
    /\ unmixed /\ r.at \notin {"none", "queued"} => r.model = Model(jobs[j].spec)

RunsInv == \A j \in Jobs : RunOK(j, runs[j])

\* A request that will enqueue a job, or cancel one, knows its row; no run of
\* a job starts before it is enqueued, and no two requests enqueue one job.
AsksInv ==
    /\ \A a \in Admins : asks[a].op \in {"enqueue", "cancel"} => asks[a].job \in DOMAIN jobs
    /\ \A a \in Admins : asks[a].op = "enqueue" => runs[asks[a].job].at = "none"
    /\ \A a, b \in Admins : asks[a].op = "enqueue" /\ asks[b].op = "enqueue" /\ a # b
          => asks[a].job # asks[b].job

CompilesInv == unmixed =>
    \A c \in Compiles : compiles[c] # NoCompile =>
        compiles[c].model = Model(compiles[c].spec)

VectorsInv == unmixed => \A v \in vectors : v.model = Model(v.spec)
QueriesInv == unmixed =>
    \A q \in Queries : queries[q] # NoQuery => queries[q].model = Model(queries[q].spec)

EmbeddingsInv == Typed /\ RunsInv /\ AsksInv /\ CompilesInv /\ VectorsInv /\ QueriesInv

-----------------------------------------------------------------------------
\* No run, no request, no compilation and no search are well-typed rows.
LEMMA NoRunTyped == /\ NoRun \in RunRows /\ NoAsk \in AskRows
                    /\ NoCompile \in CompileRows /\ NoQuery \in QueryRows
BY EmbeddingsAssumption DEF NoRun, RunRows, Steps, Models, AskRows, CompileRows, QueryRows

\* Every model that a spec stands for is a name or a spec of the catalog.
LEMMA ModelTyped == Typed => \A s \in Specs : Model(s) \in Models
BY DEF Typed, Model, Models, Offered

\* Init: every page has the vector of the active spec, no job.
LEMMA InitInv == Init => EmbeddingsInv
<1> SUFFICES ASSUME Init PROVE EmbeddingsInv
  OBVIOUS
<1>1. PICK live \in SUBSET Pages, s \in Specs :
        /\ pages = live /\ active = s /\ named \in Names /\ local \in Names \union {None}
        /\ vectors = {[page |-> p, spec |-> s, model |-> Model(s)] : p \in live}
  BY DEF Init
<1>2. /\ gone = {} /\ jobs = << >> /\ runs = [j \in Jobs |-> NoRun] /\ unmixed = TRUE
      /\ asks = [a \in Admins |-> NoAsk] /\ compiles = [c \in Compiles |-> NoCompile]
      /\ queries = [q \in Queries |-> NoQuery]
  BY DEF Init
<1>3. DOMAIN jobs = {} /\ jobs \in [DOMAIN jobs -> JobRows]
  BY <1>2
<1>4. /\ vectors \subseteq Vectors /\ \A v \in vectors : v.page \in pages
      /\ \A v \in vectors : v.spec = s /\ v.model = Model(s)
      /\ \A v, w \in vectors : v.page = w.page /\ v.spec = w.spec => v = w
  <2>1. Model(s) \in Models
    BY <1>1 DEF Model, Models, Offered
  <2> QED
    BY <1>1, <2>1 DEF Vectors
<1>5. Typed
  BY <1>1, <1>2, <1>3, <1>4, NoRunTyped DEF Typed, Offered
<1>6. RunsInv
  BY <1>2 DEF RunsInv, RunOK, NoRun
<1>7. AsksInv /\ CompilesInv /\ QueriesInv
  BY <1>2 DEF AsksInv, CompilesInv, QueriesInv, NoAsk
<1>8. VectorsInv
  BY <1>4 DEF VectorsInv
<1> QED
  BY <1>5, <1>6, <1>7, <1>8 DEF EmbeddingsInv

-----------------------------------------------------------------------------
\* A request that changes neither a job nor a run.
LEMMA AskStep ==
    ASSUME EmbeddingsInv, NEW a \in Admins, NEW t \in AskRows,
           asks' = [asks EXCEPT ![a] = t], t.op # "enqueue",
           t.op = "cancel" => t.job \in DOMAIN jobs,
           UNCHANGED <<wiki, settings, jobs, runs, readers>>
    PROVE  EmbeddingsInv'
<1>1. /\ UNCHANGED <<pages, gone, vectors, active, named, local, unmixed, jobs, runs, compiles, queries>>
      /\ \A b \in Admins : asks'[b] = IF b = a THEN t ELSE asks[b]
  BY DEF wiki, readers, settings, EmbeddingsInv, Typed
<1>2. Typed'
  BY <1>1 DEF EmbeddingsInv, Typed
<1>3. RunsInv' /\ CompilesInv' /\ VectorsInv' /\ QueriesInv'
  BY <1>1 DEF EmbeddingsInv, RunsInv, RunOK, HasVector, Model, CompilesInv,
              VectorsInv, QueriesInv
<1>4. AsksInv'
  BY <1>1 DEF EmbeddingsInv, AsksInv
<1> QED
  BY <1>2, <1>3, <1>4 DEF EmbeddingsInv

\* The endpoints that only read, and the requests that are lost.
LEMMA SwitchInv ==
    ASSUME EmbeddingsInv, NEW a \in Admins, NEW s \in Specs,
           NEW n \in Names \union {None}, SwitchEmbeddingModel(a, s, n)
    PROVE  EmbeddingsInv'
<1> DEFINE t == [op |-> "switch", spec |-> s, name |-> n]
<1>1. t \in AskRows /\ t.op = "switch"
  BY DEF AskRows
<1>2. /\ asks' = [asks EXCEPT ![a] = t]
      /\ UNCHANGED <<wiki, settings, jobs, runs, readers>>
  BY DEF SwitchEmbeddingModel, Ask
<1> QED
  BY <1>1, <1>2, AskStep

\* Cancelling remembers the row it found.
LEMMA CancelJobInv ==
    ASSUME EmbeddingsInv, NEW a \in Admins, NEW j \in Jobs, CancelJob(a, j)
    PROVE  EmbeddingsInv'
<1> DEFINE t == [op |-> "cancel", job |-> j]
<1>1. t \in AskRows /\ t.op = "cancel" /\ t.job \in DOMAIN jobs
  BY DEF AskRows, CancelJob
<1>2. /\ asks' = [asks EXCEPT ![a] = t]
      /\ UNCHANGED <<wiki, settings, jobs, runs, readers>>
  BY DEF CancelJob, Ask
<1> QED
  BY <1>1, <1>2, AskStep

\* A lost request holds nothing any more.
LEMMA LoseRequestInv ==
    ASSUME EmbeddingsInv, NEW a \in Admins, LoseRequest(a) PROVE EmbeddingsInv'
<1>1. NoAsk \in AskRows /\ NoAsk.op = "none"
  BY DEF AskRows, NoAsk
<1>2. /\ asks' = [asks EXCEPT ![a] = NoAsk]
      /\ UNCHANGED <<wiki, settings, jobs, runs, readers>>
  BY DEF LoseRequest, Answer
<1> QED
  BY <1>1, <1>2, AskStep

\* A step that leaves the wiki and the runs alone: a job keeps its spec, and a
\* name that changes is a name somebody changed.
LEMMA SameRuns ==
    ASSUME EmbeddingsInv, DOMAIN jobs \subseteq DOMAIN jobs',
           \A i \in DOMAIN jobs : jobs'[i].spec = jobs[i].spec,
           UNCHANGED <<pages, gone, vectors, runs, compiles, queries>>,
           unmixed' => unmixed /\ named' = named /\ local' = local
    PROVE  RunsInv' /\ CompilesInv' /\ VectorsInv' /\ QueriesInv'
<1>1. ASSUME NEW j \in Jobs PROVE RunOK(j, runs[j])'
  <2>1. RunOK(j, runs[j])
    BY DEF EmbeddingsInv, RunsInv
  <2> QED
    BY <2>1 DEF RunOK, HasVector, Model
<1>2. CompilesInv' /\ VectorsInv' /\ QueriesInv'
  BY DEF EmbeddingsInv, CompilesInv, VectorsInv, QueriesInv, Model
<1> QED
  BY <1>1, <1>2 DEF RunsInv

\* A new job has no run; only this request will enqueue it.
LEMMA CommitSwitchInv ==
    ASSUME EmbeddingsInv, NEW a \in Admins, NEW j \in Jobs, CommitSwitch(a, j)
    PROVE  EmbeddingsInv'
<1> DEFINE row == [spec |-> asks[a].spec, status |-> "pending"]
           t == [op |-> "enqueue", job |-> j]
<1>1. /\ asks[a].op = "switch" /\ j \notin DOMAIN jobs
      /\ jobs' = [i \in DOMAIN jobs \union {j} |-> IF i = j THEN row ELSE jobs[i]]
      /\ named' = IF asks[a].name = None THEN named ELSE asks[a].name
      /\ unmixed' = (unmixed /\ named' = named)
      /\ asks' = [asks EXCEPT ![a] = t]
      /\ UNCHANGED <<pages, gone, vectors, active, local, runs, compiles, queries>>
  BY DEF CommitSwitch, wiki, readers
<1>2. asks[a].spec \in Specs /\ asks[a].name \in Names \union {None}
  BY <1>1 DEF EmbeddingsInv, Typed, AskRows, NoAsk
<1>3. row \in JobRows /\ t \in AskRows /\ t.op = "enqueue" /\ t.job = j
  BY <1>2 DEF JobRows, AskRows, Statuses, InFlight
<1>4. /\ DOMAIN jobs' = DOMAIN jobs \union {j} /\ jobs'[j] = row
      /\ \A i \in DOMAIN jobs : jobs'[i] = jobs[i]
      /\ jobs' = [i \in DOMAIN jobs \union {j} |-> jobs'[i]]
  BY <1>1
<1> HIDE DEF row, t
<1>5. DOMAIN jobs' \subseteq Jobs /\ jobs' \in [DOMAIN jobs' -> JobRows]
  BY <1>3, <1>4 DEF EmbeddingsInv, Typed
<1>6. Typed'
  BY <1>1, <1>2, <1>3, <1>5 DEF EmbeddingsInv, Typed
<1>7. RunsInv' /\ CompilesInv' /\ VectorsInv' /\ QueriesInv'
  BY <1>1, <1>4, SameRuns
<1>8. runs[j].at = "none"
  BY <1>1 DEF EmbeddingsInv, RunsInv, RunOK
<1>9. \A b \in Admins : asks'[b] = IF b = a THEN t ELSE asks[b]
  BY <1>1 DEF EmbeddingsInv, Typed
<1>10. AsksInv'
  BY <1>1, <1>3, <1>4, <1>8, <1>9 DEF EmbeddingsInv, AsksInv
<1> QED
  BY <1>6, <1>7, <1>10 DEF EmbeddingsInv

\* A job whose status alone changes.
LEMMA StatusTyped ==
    ASSUME EmbeddingsInv, NEW j \in DOMAIN jobs, NEW status \in Statuses,
           SetStatus(j, status)
    PROVE  /\ DOMAIN jobs' = DOMAIN jobs /\ jobs' \in [DOMAIN jobs' -> JobRows]
           /\ \A i \in DOMAIN jobs : jobs'[i].spec = jobs[i].spec
<1>1. jobs \in [DOMAIN jobs -> JobRows] /\ jobs' = [jobs EXCEPT ![j].status = status]
  BY DEF EmbeddingsInv, Typed, SetStatus
<1> QED
  BY <1>1 DEF JobRows

\* The endpoints that set the status of the job they read.
LEMMA AnswerStatusInv ==
    ASSUME EmbeddingsInv, NEW a \in Admins, EnqueueFails(a) \/ CommitCancel(a)
    PROVE  EmbeddingsInv'
<1>1. PICK status \in Statuses : SetStatus(asks[a].job, status)
  BY DEF EnqueueFails, CommitCancel, SetStatus, Statuses
<1>2. /\ asks[a].job \in DOMAIN jobs /\ asks' = [asks EXCEPT ![a] = NoAsk]
      /\ UNCHANGED <<pages, gone, vectors, active, named, local, unmixed, runs, compiles, queries>>
  BY DEF EnqueueFails, CommitCancel, Answer, EmbeddingsInv, AsksInv, wiki, readers, settings
<1>3. /\ DOMAIN jobs' = DOMAIN jobs /\ jobs' \in [DOMAIN jobs' -> JobRows]
      /\ \A i \in DOMAIN jobs : jobs'[i].spec = jobs[i].spec
  BY <1>1, <1>2, StatusTyped
<1>4. Typed'
  BY <1>2, <1>3, NoRunTyped DEF EmbeddingsInv, Typed
<1>5. RunsInv' /\ CompilesInv' /\ VectorsInv' /\ QueriesInv'
  BY <1>2, <1>3, SameRuns
<1>6. \A b \in Admins : asks'[b] = IF b = a THEN NoAsk ELSE asks[b]
  BY <1>2 DEF EmbeddingsInv, Typed
<1>7. AsksInv'
  BY <1>2, <1>3, <1>6 DEF EmbeddingsInv, AsksInv, NoAsk
<1> QED
  BY <1>4, <1>5, <1>7 DEF EmbeddingsInv

\* The job that is enqueued has no run yet, so it starts with its first try.
LEMMA EnqueueInv ==
    ASSUME EmbeddingsInv, NEW a \in Admins, Enqueue(a) PROVE EmbeddingsInv'
<1> DEFINE j == asks[a].job
           r == [runs[j] EXCEPT !.at = "queued"]
<1>1. /\ asks[a].op = "enqueue" /\ asks' = [asks EXCEPT ![a] = NoAsk]
      /\ runs' = [runs EXCEPT ![j] = r]
      /\ UNCHANGED <<pages, gone, vectors, active, named, local, unmixed, jobs, compiles, queries>>
  BY DEF Enqueue, Answer, wiki, readers, settings
<1>2. /\ j \in DOMAIN jobs /\ j \in Jobs /\ runs[j].at = "none"
  BY <1>1 DEF EmbeddingsInv, Typed, AsksInv
<1>3. runs[j] = NoRun
  BY <1>2 DEF EmbeddingsInv, RunsInv, RunOK
<1>4. /\ r \in RunRows /\ r.at = "queued" /\ r.try = 0 /\ r.alone = FALSE
      /\ r.todo = {} /\ r.total = {} /\ r.batch = {}
  <2>1. /\ NoRun \in RunRows /\ NoRun.try = 0 /\ NoRun.alone = FALSE
        /\ NoRun.todo = {} /\ NoRun.total = {} /\ NoRun.batch = {}
    BY NoRunTyped DEF NoRun
  <2> QED
    BY <1>3, <2>1 DEF RunRows, Steps
<1>5. RunOK(j, r)
  BY <1>2, <1>4, EmbeddingsAssumption DEF RunOK
<1> HIDE DEF r, j
<1>6. /\ \A b \in Admins : asks'[b] = IF b = a THEN NoAsk ELSE asks[b]
      /\ \A i \in Jobs : runs'[i] = IF i = j THEN r ELSE runs[i]
  BY <1>1, <1>2 DEF EmbeddingsInv, Typed
<1>7. Typed'
  BY <1>1, <1>4, NoRunTyped DEF EmbeddingsInv, Typed
<1>8. RunsInv'
  <2> SUFFICES ASSUME NEW i \in Jobs PROVE RunOK(i, runs[i])'
    BY DEF RunsInv
  <2>1. RunOK(i, runs'[i])
    BY <1>5, <1>6 DEF EmbeddingsInv, RunsInv
  <2> QED
    BY <1>1, <2>1 DEF RunOK, HasVector, Model
<1>9. CompilesInv' /\ VectorsInv' /\ QueriesInv'
  BY <1>1 DEF EmbeddingsInv, CompilesInv, VectorsInv, QueriesInv, Model
<1>10. AsksInv'
  <2>1. \A b \in Admins \ {a} : asks[b].op = "enqueue" => asks[b].job # j
    BY <1>1 DEF EmbeddingsInv, AsksInv, j
  <2>2. \A b \in Admins : asks[b].op \in {"enqueue", "cancel"} => asks[b].job \in Jobs
    BY DEF EmbeddingsInv, AsksInv, Typed
  <2> QED
    BY <1>1, <1>6, <2>1, <2>2 DEF EmbeddingsInv, AsksInv, NoAsk
<1> QED
  BY <1>7, <1>8, <1>9, <1>10 DEF EmbeddingsInv

\* The settings by hand end the promise about the models, and keep all else.
LEMMA UpdateSettingsInv ==
    ASSUME EmbeddingsInv,
           \/ \E s \in Specs, n \in Names : UpdateSettings(s, n)
           \/ \E m \in Offered \union {None} : UpdateLocalAI(m)
    PROVE  EmbeddingsInv'
<1>1. /\ active' \in Specs /\ named' \in Names /\ local' \in Offered \union {None}
      /\ unmixed' = FALSE
      /\ UNCHANGED <<pages, gone, vectors, jobs, runs, asks, compiles, queries>>
  BY DEF UpdateSettings, UpdateLocalAI, wiki, readers, EmbeddingsInv, Typed
<1>2. Typed' /\ AsksInv'
  BY <1>1 DEF EmbeddingsInv, Typed, AsksInv
<1>3. RunsInv' /\ CompilesInv' /\ VectorsInv' /\ QueriesInv'
  BY <1>1, SameRuns
<1> QED
  BY <1>2, <1>3 DEF EmbeddingsInv

-----------------------------------------------------------------------------
\* A step of one run that leaves the wiki alone.
LEMMA RunStep ==
    ASSUME EmbeddingsInv, NEW j \in Jobs, NEW r \in RunRows, Step(j, r),
           runs[j].at # "none", RunOK(j, r),
           UNCHANGED jobs \/ \E status \in Statuses : SetStatus(j, status),
           UNCHANGED <<wiki, settings, asks, readers>>
    PROVE  EmbeddingsInv'
<1>1. /\ UNCHANGED <<pages, gone, vectors, active, named, local, unmixed, asks, compiles, queries>>
      /\ \A i \in Jobs : runs'[i] = IF i = j THEN r ELSE runs[i]
      /\ runs' \in [Jobs -> RunRows]
  BY DEF wiki, readers, settings, Step, EmbeddingsInv, Typed
<1>2. j \in DOMAIN jobs
  BY DEF EmbeddingsInv, RunsInv, RunOK
<1>3. /\ DOMAIN jobs' = DOMAIN jobs /\ jobs' \in [DOMAIN jobs' -> JobRows]
      /\ \A i \in DOMAIN jobs : jobs'[i].spec = jobs[i].spec
  BY <1>2, StatusTyped DEF EmbeddingsInv, Typed
<1>4. Typed'
  BY <1>1, <1>3 DEF EmbeddingsInv, Typed
<1>5. RunsInv'
  <2> SUFFICES ASSUME NEW i \in Jobs PROVE RunOK(i, runs[i])'
    BY DEF RunsInv
  <2>1. RunOK(i, runs'[i])
    BY <1>1 DEF EmbeddingsInv, RunsInv
  <2> QED
    BY <1>1, <1>3, <2>1 DEF RunOK, HasVector, Model
<1>6. CompilesInv' /\ VectorsInv' /\ QueriesInv'
  BY <1>1 DEF EmbeddingsInv, CompilesInv, VectorsInv, QueriesInv, Model
<1>7. AsksInv'
  <2>1. \A b \in Admins : asks[b].op = "enqueue" => asks[b].job \in Jobs \ {j}
    BY DEF EmbeddingsInv, AsksInv, Typed
  <2> QED
    BY <1>1, <1>3, <2>1 DEF EmbeddingsInv, AsksInv
<1> QED
  BY <1>4, <1>5, <1>6, <1>7 DEF EmbeddingsInv

\* A run may always end.
LEMMA QuitInv ==
    ASSUME EmbeddingsInv, NEW j \in Jobs, Quit(j), runs[j].at # "none",
           UNCHANGED jobs \/ \E status \in Statuses : SetStatus(j, status),
           UNCHANGED <<wiki, settings, asks, readers>>
    PROVE  EmbeddingsInv'
<1>1. RunOK(j, NoRun)
  BY DEF RunOK, NoRun
<1> QED
  BY <1>1, NoRunTyped, RunStep DEF Quit

\* What is known of the run that takes a step.
LEMMA ThisRun ==
    ASSUME EmbeddingsInv, NEW j \in Jobs, runs[j].at # "none"
    PROVE  /\ runs[j] \in RunRows /\ RunOK(j, runs[j]) /\ j \in DOMAIN jobs
           /\ jobs[j].spec \in Specs /\ runs[j].try \in 0..MaxTries
           /\ Model(jobs[j].spec) \in Models
<1>1. runs[j] \in RunRows /\ RunOK(j, runs[j]) /\ jobs \in [DOMAIN jobs -> JobRows]
  BY DEF EmbeddingsInv, Typed, RunsInv
<1>2. j \in DOMAIN jobs
  BY <1>1 DEF RunOK
<1>3. jobs[j].spec \in Specs
  BY <1>1, <1>2 DEF JobRows
<1>4. Model(jobs[j].spec) \in Models
  BY <1>3, ModelTyped DEF EmbeddingsInv
<1> QED
  BY <1>1, <1>2, <1>3, <1>4 DEF RunRows

\* A queued run has a try left, and binds the model of its job's spec.
LEMMA PickJobInv ==
    ASSUME EmbeddingsInv, NEW j \in Jobs, PickJob(j) PROVE EmbeddingsInv'
<1> DEFINE r == [runs[j] EXCEPT !.at = "picked", !.try = @ + 1,
                                !.model = Model(jobs[j].spec)]
<1>1. /\ runs[j].at = "queued" /\ (Step(j, r) \/ Quit(j))
      /\ UNCHANGED <<wiki, settings, jobs, asks, readers>>
  BY DEF PickJob, At
<1>2. /\ runs[j] \in RunRows /\ RunOK(j, runs[j]) /\ j \in DOMAIN jobs
      /\ runs[j].try \in 0..MaxTries /\ Model(jobs[j].spec) \in Models
  BY <1>1, ThisRun
<1>3. runs[j].try < MaxTries /\ ~runs[j].alone /\ runs[j].todo \subseteq runs[j].total
      /\ runs[j].total \subseteq pages \union gone
  BY <1>1, <1>2 DEF RunOK
<1>4. runs[j].try + 1 \in 0..MaxTries
  BY <1>2, <1>3, EmbeddingsAssumption
<1>5. /\ r \in RunRows /\ r.at = "picked" /\ r.model = Model(jobs[j].spec)
      /\ r.todo = runs[j].todo /\ r.total = runs[j].total /\ r.alone = runs[j].alone
      /\ r.batch = runs[j].batch
  BY <1>2, <1>4 DEF RunRows, Steps
<1> HIDE DEF r
<1>6. RunOK(j, r)
  BY <1>1, <1>2, <1>3, <1>5 DEF RunOK
<1> QED
  BY <1>1, <1>5, <1>6, RunStep, QuitInv

\* The job that is refused, fails or loses its batch ends its run.
LEMMA EndRunInv ==
    ASSUME EmbeddingsInv, NEW j \in Jobs, RefuseJob(j) \/ FailBatch(j) \/ LoseBatch(j)
    PROVE  EmbeddingsInv'
<1>1. runs[j].at # "none" /\ Quit(j) /\ UNCHANGED <<wiki, settings, asks, readers>>
  BY DEF RefuseJob, FailBatch, LoseBatch, At
<1>2. UNCHANGED jobs \/ \E status \in Statuses : SetStatus(j, status)
  BY DEF RefuseJob, FailBatch, LoseBatch, Statuses
<1> QED
  BY <1>1, <1>2, QuitInv

\* A run that starts has all its pages to do.
LEMMA StartJobInv ==
    ASSUME EmbeddingsInv, NEW j \in Jobs, StartJob(j) PROVE EmbeddingsInv'
<1> DEFINE r == [runs[j] EXCEPT !.at = "batches", !.total = pages,
                                !.todo = pages, !.alone = TRUE]
<1>1. /\ runs[j].at = "picked" /\ Step(j, r) /\ SetStatus(j, "running")
      /\ "running" \in Statuses /\ UNCHANGED <<wiki, settings, asks, readers>>
  BY DEF StartJob, At, Statuses, InFlight
<1>2. /\ runs[j] \in RunRows /\ RunOK(j, runs[j]) /\ j \in DOMAIN jobs
  BY <1>1, ThisRun
<1>3. pages \subseteq Pages
  BY DEF EmbeddingsInv, Typed
<1>4. /\ r \in RunRows /\ r.at = "batches" /\ r.model = runs[j].model
      /\ r.todo = pages /\ r.total = pages /\ r.alone = TRUE /\ r.batch = runs[j].batch
  BY <1>2, <1>3 DEF RunRows, Steps
<1>5. runs[j].batch = {}
  BY <1>1, <1>2 DEF RunOK
<1> HIDE DEF r
<1>6. RunOK(j, r)
  BY <1>1, <1>2, <1>4, <1>5 DEF RunOK
<1> QED
  BY <1>1, <1>4, <1>6, RunStep

\* A batch takes a page off the list; a page that is gone has no vector to lack.
LEMMA ReadBatchInv ==
    ASSUME EmbeddingsInv, NEW j \in Jobs, NEW p \in Pages, ReadBatch(j, p)
    PROVE  EmbeddingsInv'
<1> DEFINE r == [runs[j] EXCEPT !.at = "embedding", !.todo = @ \ {p},
                                !.batch = {p} \intersect pages]
<1>1. /\ runs[j].at = "batches" /\ (Step(j, r) \/ Quit(j))
      /\ UNCHANGED <<wiki, settings, jobs, asks, readers>>
  BY DEF ReadBatch, At
<1>2. /\ runs[j] \in RunRows /\ RunOK(j, runs[j]) /\ j \in DOMAIN jobs
  BY <1>1, ThisRun
<1>3. /\ r \in RunRows /\ r.at = "embedding" /\ r.model = runs[j].model
      /\ r.todo = runs[j].todo \ {p} /\ r.total = runs[j].total
      /\ r.alone = runs[j].alone /\ r.batch = {p} \intersect pages
  BY <1>2 DEF RunRows, Steps
<1>4. runs[j].batch = {}
  BY <1>1, <1>2 DEF RunOK
<1> HIDE DEF r
<1>5. RunOK(j, r)
  BY <1>1, <1>2, <1>3, <1>4 DEF RunOK
<1> QED
  BY <1>1, <1>3, <1>5, RunStep, QuitInv

\* The flip is read with nothing left to do.
LEMMA ReadForFlipInv ==
    ASSUME EmbeddingsInv, NEW j \in Jobs, ReadForFlip(j) PROVE EmbeddingsInv'
<1> DEFINE r == [runs[j] EXCEPT !.at = "flipping", !.flips = active # jobs[j].spec]
<1>1. /\ runs[j].at = "batches" /\ runs[j].todo = {} /\ (Step(j, r) \/ Quit(j))
      /\ UNCHANGED <<wiki, settings, jobs, asks, readers>>
  BY DEF ReadForFlip, At
<1>2. /\ runs[j] \in RunRows /\ RunOK(j, runs[j]) /\ j \in DOMAIN jobs
  BY <1>1, ThisRun
<1>3. /\ r \in RunRows /\ r.at = "flipping" /\ r.model = runs[j].model
      /\ r.todo = runs[j].todo /\ r.total = runs[j].total
      /\ r.alone = runs[j].alone /\ r.batch = runs[j].batch
  BY <1>2 DEF RunRows, Steps
<1> HIDE DEF r
<1>4. RunOK(j, r)
  BY <1>1, <1>2, <1>3 DEF RunOK
<1> QED
  BY <1>1, <1>3, <1>4, RunStep, QuitInv

\* A run that dies is queued again while it has a try left.
LEMMA DieInv ==
    ASSUME EmbeddingsInv, NEW j \in Jobs, Die(j) PROVE EmbeddingsInv'
<1> DEFINE r == [NoRun EXCEPT !.at = "queued", !.try = runs[j].try]
<1>1. /\ runs[j].at \notin {"none", "queued"}
      /\ (runs[j].try < MaxTries /\ Step(j, r)) \/ Quit(j)
      /\ UNCHANGED <<wiki, settings, jobs, asks, readers>>
  BY DEF Die
<1>2. runs[j].try \in 0..MaxTries /\ j \in DOMAIN jobs
  BY <1>1, ThisRun
<1>3. /\ r \in RunRows /\ r.at = "queued" /\ r.try = runs[j].try
      /\ r.todo = {} /\ r.total = {} /\ r.batch = {} /\ r.alone = FALSE
  <2>1. /\ NoRun \in RunRows /\ NoRun.alone = FALSE
        /\ NoRun.todo = {} /\ NoRun.total = {} /\ NoRun.batch = {}
    BY NoRunTyped DEF NoRun
  <2> QED
    BY <1>2, <2>1 DEF RunRows, Steps
<1> HIDE DEF r
<1>4. runs[j].try < MaxTries => RunOK(j, r)
  BY <1>2, <1>3 DEF RunOK
<1> QED
  BY <1>1, <1>3, <1>4, RunStep, QuitInv

-----------------------------------------------------------------------------
\* What writing a vector for each page of a set does to the table.
LEMMA UpsertWrites ==
    ASSUME EmbeddingsInv, NEW P \in SUBSET Pages, NEW spec \in Specs, NEW model \in Models,
           vectors' = Upsert(P, spec, model)
    PROVE  /\ vectors' \subseteq Vectors
           /\ \A v \in vectors' : v.page \in pages \union P
           /\ \A v, w \in vectors' : v.page = w.page /\ v.spec = w.spec => v = w
           /\ \A p \in Pages, s \in Specs :
                 HasVector(p, s)' <=> HasVector(p, s) \/ (p \in P /\ s = spec)
           /\ \A v \in vectors' : v \in vectors \/ (v.spec = spec /\ v.model = model)
<1> DEFINE new(p) == [page |-> p, spec |-> spec, model |-> model]
<1>1. /\ vectors \subseteq Vectors /\ \A v \in vectors : v.page \in pages
      /\ \A v, w \in vectors : v.page = w.page /\ v.spec = w.spec => v = w
  BY DEF EmbeddingsInv, Typed
<1>2. \A p \in P : /\ new(p) \in Vectors /\ new(p).page = p
                   /\ new(p).spec = spec /\ new(p).model = model
  BY DEF Vectors
<1>3. vectors' = {v \in vectors : v.page \notin P \/ v.spec # spec} \union {new(p) : p \in P}
  BY DEF Upsert
<1> HIDE DEF new
<1>4. \A v \in vectors' : \/ v \in vectors /\ (v.page \notin P \/ v.spec # spec)
                          \/ \E p \in P : v = new(p)
  BY <1>3
<1>5. \A v \in vectors : v.page \notin P \/ v.spec # spec => v \in vectors'
  BY <1>3
<1>6. \A p \in P : new(p) \in vectors'
  BY <1>3
<1>7. ASSUME NEW p \in Pages, NEW s \in Specs
      PROVE  HasVector(p, s)' <=> HasVector(p, s) \/ (p \in P /\ s = spec)
  BY <1>2, <1>4, <1>5, <1>6 DEF HasVector
<1>8. \A v, w \in vectors' : v.page = w.page /\ v.spec = w.spec => v = w
  BY <1>1, <1>2, <1>4
<1> QED
  BY <1>1, <1>2, <1>4, <1>7, <1>8

\* A step of the wiki or of another run leaves a run as sound as it was: a
\* page it has counted and that is still there keeps its vectors.
LEMMA RunKept ==
    ASSUME EmbeddingsInv, NEW i \in Jobs, NEW r, RunOK(i, r),
           pages' \intersect gone = {}, pages \union gone \subseteq pages' \union gone',
           \A p \in pages \intersect pages', s \in Specs : HasVector(p, s) => HasVector(p, s)',
           UNCHANGED <<jobs, named, local, unmixed>>
    PROVE  RunOK(i, r)'
<1>1. i \in DOMAIN jobs => jobs[i].spec \in Specs
  BY DEF EmbeddingsInv, Typed, JobRows
<1>2. ASSUME r.alone, NEW p \in (r.total \intersect pages') \ (r.todo \union r.batch)
      PROVE  HasVector(p, jobs[i].spec)'
  <2>1. i \in DOMAIN jobs /\ p \in pages
    BY <1>2 DEF RunOK
  <2>2. HasVector(p, jobs[i].spec)
    BY <1>2, <2>1 DEF RunOK
  <2> QED
    BY <1>1, <2>1, <2>2 DEF HasVector
<1> QED
  BY <1>2 DEF RunOK, Model

\* A step of the wiki.
LEMMA WikiStep ==
    ASSUME EmbeddingsInv, Typed', UNCHANGED <<settings, jobs, runs, asks>>,
           pages' \intersect gone = {}, pages \union gone \subseteq pages' \union gone',
           \A p \in pages \intersect pages', s \in Specs : HasVector(p, s) => HasVector(p, s)',
           CompilesInv', VectorsInv', QueriesInv'
    PROVE  EmbeddingsInv'
<1>1. UNCHANGED <<active, named, local, unmixed, jobs, runs, asks>>
  BY DEF settings
<1>2. RunsInv'
  <2> SUFFICES ASSUME NEW i \in Jobs PROVE RunOK(i, runs[i])'
    BY DEF RunsInv
  <2>1. RunOK(i, runs[i])
    BY DEF EmbeddingsInv, RunsInv
  <2>2. \A r : RunOK(i, r) => RunOK(i, r)'
    BY <1>1, RunKept
  <2> QED
    BY <1>1, <2>1, <2>2
<1>3. AsksInv'
  BY <1>1 DEF EmbeddingsInv, AsksInv
<1> QED
  BY <1>2, <1>3 DEF EmbeddingsInv

\* The vectors of a batch carry the spec of the job and its own model.
LEMMA CommitBatchInv ==
    ASSUME EmbeddingsInv, NEW j \in Jobs, CommitBatch(j) PROVE EmbeddingsInv'
<1> DEFINE r == [runs[j] EXCEPT !.at = "batches", !.batch = {}]
<1>1. /\ runs[j].at = "embedding" /\ runs[j].batch \subseteq pages
      /\ runs' = [runs EXCEPT ![j] = r]
      /\ vectors' = Upsert(runs[j].batch, jobs[j].spec, runs[j].model)
      /\ UNCHANGED <<pages, gone, active, named, local, unmixed, jobs, asks, compiles, queries>>
  BY DEF CommitBatch, At, Step, settings, readers
<1>2. /\ runs[j] \in RunRows /\ RunOK(j, runs[j]) /\ j \in DOMAIN jobs
      /\ jobs[j].spec \in Specs
  BY <1>1, ThisRun
<1>3. /\ pages \subseteq Pages \ gone /\ pages \subseteq Pages
      /\ runs[j].batch \in SUBSET Pages /\ runs[j].model \in Models
  BY <1>2 DEF EmbeddingsInv, Typed, RunRows
<1>4. /\ r \in RunRows /\ r.at = "batches" /\ r.model = runs[j].model
      /\ r.todo = runs[j].todo /\ r.total = runs[j].total
      /\ r.alone = runs[j].alone /\ r.batch = {}
  BY <1>2 DEF RunRows, Steps
<1> HIDE DEF r
<1>b. PICK b \in SUBSET Pages : b = runs[j].batch
  BY <1>3
<1>s. PICK spec \in Specs : spec = jobs[j].spec
  BY <1>2
<1>m. PICK model \in Models : model = runs[j].model
  BY <1>3
<1>u. vectors' = Upsert(b, spec, model)
  BY <1>1, <1>b, <1>s, <1>m
<1>5. /\ vectors' \subseteq Vectors
      /\ \A v \in vectors' : v.page \in pages \union b
      /\ \A v, w \in vectors' : v.page = w.page /\ v.spec = w.spec => v = w
      /\ \A p \in Pages, s \in Specs :
            HasVector(p, s)' <=> HasVector(p, s) \/ (p \in b /\ s = spec)
      /\ \A v \in vectors' : v \in vectors \/ (v.spec = spec /\ v.model = model)
  BY <1>u, UpsertWrites
<1>6. \A i \in Jobs : runs'[i] = IF i = j THEN r ELSE runs[i]
  BY <1>1 DEF EmbeddingsInv, Typed
<1>7. Typed'
  <2>1. \A v \in vectors' : v.page \in pages
    BY <1>1, <1>5, <1>b
  <2> QED
    BY <1>1, <1>4, <1>5, <2>1 DEF EmbeddingsInv, Typed
<1>8. RunsInv'
  <2>1. PICK q \in RunRows : q = r
    BY <1>4
  <2>2. RunOK(j, q)'
    <3>1. ASSUME q.alone, NEW p \in (q.total \intersect pages) \ q.todo
          PROVE  HasVector(p, spec)'
      <4>1. p \in b \/ HasVector(p, spec)
        BY <1>2, <1>4, <1>b, <1>s, <2>1, <3>1 DEF RunOK
      <4> QED
        BY <1>3, <1>5, <4>1
    <3>2. unmixed => q.model = Model(jobs[j].spec)
      BY <1>1, <1>2, <1>4, <2>1 DEF RunOK
    <3>3. q.todo \subseteq q.total /\ q.total \subseteq pages \union gone
      BY <1>2, <1>4, <2>1 DEF RunOK
    <3>4. q.at = "batches" /\ q.batch = {}
      BY <1>4, <2>1
    <3>5. jobs[j].spec = spec /\ UNCHANGED <<pages, gone, jobs, named, local, unmixed>>
      BY <1>1, <1>s
    <3>6. q.alone => \A p \in (q.total \intersect pages') \ (q.todo \union q.batch) :
                        HasVector(p, jobs[j].spec)'
      BY <3>1, <3>4, <3>5 DEF HasVector
    <3> QED
      BY <1>2, <3>2, <3>3, <3>4, <3>5, <3>6 DEF RunOK, Model
  <2>3. ASSUME NEW i \in Jobs \ {j} PROVE RunOK(i, runs[i])'
    <3>1. RunOK(i, runs[i])
      BY DEF EmbeddingsInv, RunsInv
    <3>2. /\ pages' \intersect gone = {} /\ pages \union gone \subseteq pages' \union gone'
          /\ \A p \in pages \intersect pages', s \in Specs :
                HasVector(p, s) => HasVector(p, s)'
      BY <1>1, <1>3, <1>5
    <3>3. \A x : RunOK(i, x) => RunOK(i, x)'
      BY <1>1, <3>2, RunKept
    <3> QED
      BY <1>6, <3>1, <3>3
  <2>4. runs'[j] = q
    BY <1>6, <2>1
  <2>5. RunOK(j, runs[j])'
    BY <2>2, <2>4 DEF RunOK
  <2> QED
    BY <2>3, <2>5 DEF RunsInv
<1>9. CompilesInv' /\ QueriesInv'
  BY <1>1 DEF EmbeddingsInv, CompilesInv, QueriesInv, Model
<1>10. VectorsInv'
  BY <1>1, <1>2, <1>5, <1>s, <1>m DEF EmbeddingsInv, VectorsInv, RunOK, Model
<1>11. AsksInv'
  <2>1. \A a \in Admins : asks[a].op = "enqueue" => asks[a].job \in Jobs \ {j}
    BY <1>1 DEF EmbeddingsInv, AsksInv, Typed
  <2> QED
    BY <1>1, <1>6, <2>1 DEF EmbeddingsInv, AsksInv
<1> QED
  BY <1>7, <1>8, <1>9, <1>10, <1>11 DEF EmbeddingsInv

\* After a flip no other run can count on its vectors.
LEMMA FlipInv ==
    ASSUME EmbeddingsInv, NEW j \in Jobs, Flip(j) PROVE EmbeddingsInv'
<1> DEFINE other(i) == [runs[i] EXCEPT !.alone = FALSE]
<1>1. /\ runs[j].at = "flipping" /\ SetStatus(j, "completed") /\ "completed" \in Statuses
      /\ active' \in {jobs[j].spec, active}
      /\ vectors' = {v \in vectors : v.spec = jobs[j].spec}
      /\ runs' = [i \in Jobs |-> IF i = j THEN NoRun ELSE other(i)]
      /\ UNCHANGED <<pages, gone, named, local, asks, compiles, queries, unmixed>>
  BY DEF Flip, At, Statuses, readers
<1>2. j \in DOMAIN jobs /\ jobs[j].spec \in Specs
  BY <1>1, ThisRun
<1>3. /\ DOMAIN jobs' = DOMAIN jobs /\ jobs' \in [DOMAIN jobs' -> JobRows]
      /\ \A i \in DOMAIN jobs : jobs'[i].spec = jobs[i].spec
  BY <1>1, <1>2, StatusTyped
<1>4. ASSUME NEW i \in Jobs
      PROVE  /\ other(i) \in RunRows /\ other(i).alone = FALSE
             /\ other(i).at = runs[i].at /\ other(i).try = runs[i].try
             /\ other(i).todo = runs[i].todo /\ other(i).total = runs[i].total
             /\ other(i).batch = runs[i].batch /\ other(i).model = runs[i].model
             /\ runs[i] = NoRun => other(i) = NoRun
  <2>1. runs[i] \in RunRows
    BY DEF EmbeddingsInv, Typed
  <2>2. [NoRun EXCEPT !.alone = FALSE] = NoRun
    <3>1. NoRun \in RunRows /\ NoRun.alone = FALSE
      BY NoRunTyped DEF NoRun
    <3> QED
      BY <3>1 DEF RunRows
  <2> QED
    BY <2>1, <2>2 DEF RunRows
<1> HIDE DEF other
<1>5. Typed'
  BY <1>1, <1>2, <1>3, <1>4, NoRunTyped DEF EmbeddingsInv, Typed
<1>6. RunsInv'
  <2> SUFFICES ASSUME NEW i \in Jobs PROVE RunOK(i, runs[i])'
    BY DEF RunsInv
  <2>1. CASE i = j
    <3>1. runs'[i] = NoRun
      BY <1>1, <2>1
    <3> QED
      BY <3>1 DEF RunOK, NoRun
  <2>2. CASE i # j
    <3>1. runs'[i] = other(i) /\ RunOK(i, runs[i])
      BY <1>1, <2>2 DEF EmbeddingsInv, RunsInv
    <3>0. PICK r : r = other(i)
      OBVIOUS
    <3>2. runs[i].at # "none"
            => i \in DOMAIN jobs /\ i \in DOMAIN jobs' /\ jobs'[i].spec = jobs[i].spec
      BY <1>3, <3>1 DEF RunOK
    <3>3. /\ pages' = pages /\ gone' = gone /\ unmixed' = unmixed /\ named' = named
          /\ local' = local
          /\ r.alone = FALSE /\ r = runs'[i]
      BY <1>1, <1>4, <3>0, <3>1
    <3>4. /\ r.at = runs[i].at /\ r.try = runs[i].try
          /\ r.todo = runs[i].todo /\ r.total = runs[i].total
          /\ r.batch = runs[i].batch /\ r.model = runs[i].model
          /\ runs[i] = NoRun => r = NoRun
      BY <1>4, <3>0
    <3>5. unmixed' /\ r.at \notin {"none", "queued"}
            => r.model = Model(jobs[i].spec)'
      <4>1. unmixed /\ runs[i].at \notin {"none", "queued"}
              => runs[i].model = Model(jobs[i].spec)
        BY <3>1 DEF RunOK
      <4>2. runs[i].at # "none" => Model(jobs[i].spec)' = Model(jobs[i].spec)
        BY <3>2, <3>3 DEF Model
      <4> QED
        BY <3>3, <3>4, <4>1, <4>2
    <3>6. /\ r.at # "none" => i \in DOMAIN jobs'
          /\ r.at = "none" => r = NoRun
          /\ r.at = "queued" => r.try < MaxTries
          /\ r.todo \subseteq r.total
          /\ r.total \subseteq pages' \union gone'
          /\ r.at # "embedding" => r.batch = {}
          /\ r.at = "flipping" => r.todo = {}
      BY <3>1, <3>2, <3>3, <3>4 DEF RunOK
    <3>7. RunOK(i, r)'
      BY <3>3, <3>5, <3>6 DEF RunOK
    <3> QED
      BY <3>3, <3>7
  <2> QED
    BY <2>1, <2>2
<1>7. CompilesInv' /\ VectorsInv' /\ QueriesInv'
  BY <1>1 DEF EmbeddingsInv, CompilesInv, VectorsInv, QueriesInv, Model
<1>8. AsksInv'
  <2>1. \A a \in Admins : asks[a].op = "enqueue" => asks[a].job \in Jobs \ {j}
    BY <1>1 DEF EmbeddingsInv, AsksInv, Typed
  <2> QED
    BY <1>1, <1>3, <1>4, <2>1 DEF EmbeddingsInv, AsksInv
<1> QED
  BY <1>5, <1>6, <1>7, <1>8 DEF EmbeddingsInv

\* A compilation keeps the spec it began with, and the model of that spec.
LEMMA BeginCompileInv ==
    ASSUME EmbeddingsInv, NEW c \in Compiles, NEW p \in Pages \union {None},
           BeginCompile(c, p) \/ LoseCompile(c)
    PROVE  EmbeddingsInv'
<1> DEFINE new == [page |-> p, spec |-> active, model |-> Model(active)]
<1>1. /\ new \in CompileRows /\ new.spec = active /\ new.model = Model(active)
  BY ModelTyped DEF CompileRows, EmbeddingsInv, Typed
<1>2. PICK w \in {new, NoCompile} : compiles' = [compiles EXCEPT ![c] = w]
  BY DEF BeginCompile, LoseCompile
<1>3. /\ UNCHANGED <<settings, jobs, runs, asks, queries>>
      /\ UNCHANGED <<pages, gone, vectors, active, named, local, unmixed>>
  BY DEF BeginCompile, LoseCompile, wiki, settings
<1> HIDE DEF new
<1>4. \A e \in Compiles : compiles'[e] = IF e = c THEN w ELSE compiles[e]
  BY <1>2 DEF EmbeddingsInv, Typed
<1>5. Typed'
  BY <1>1, <1>2, <1>3, NoRunTyped DEF EmbeddingsInv, Typed
<1>6. CompilesInv' /\ VectorsInv' /\ QueriesInv'
  BY <1>1, <1>2, <1>3, <1>4 DEF EmbeddingsInv, CompilesInv, VectorsInv, QueriesInv, Model
<1>7. /\ pages' \intersect gone = {} /\ pages \union gone \subseteq pages' \union gone'
      /\ \A q \in pages \intersect pages', s \in Specs : HasVector(q, s) => HasVector(q, s)'
  BY <1>3 DEF EmbeddingsInv, Typed, HasVector
<1> QED
  BY <1>3, <1>5, <1>6, <1>7, WikiStep

\* A compilation commits what it read before: spec and model of that time.
LEMMA EndCompileInv ==
    ASSUME EmbeddingsInv, NEW c \in Compiles, NEW p \in Pages, EndCompile(c, p)
    PROVE  EmbeddingsInv'
<1> DEFINE w == compiles[c]
<1>1. /\ w # NoCompile /\ compiles' = [compiles EXCEPT ![c] = NoCompile]
      /\ p \in pages \/ p \notin gone
      /\ pages' = pages \union {p}
      /\ UNCHANGED vectors \/ vectors' = Upsert({p}, w.spec, w.model)
      /\ UNCHANGED <<gone, settings, jobs, runs, asks, queries>>
      /\ UNCHANGED <<active, named, local, unmixed>>
  BY DEF EndCompile, settings
<1>2. w.spec \in Specs /\ w.model \in Models /\ pages \subseteq Pages \ gone
  BY <1>1 DEF EmbeddingsInv, Typed, CompileRows
<1>s. PICK spec \in Specs : spec = w.spec
  BY <1>2
<1>m. PICK model \in Models : model = w.model
  BY <1>2
<1>u. UNCHANGED vectors \/ vectors' = Upsert({p}, spec, model)
  BY <1>1, <1>s, <1>m
<1>3. /\ vectors' \subseteq Vectors
      /\ \A v \in vectors' : v.page \in pages \union {p}
      /\ \A v, x \in vectors' : v.page = x.page /\ v.spec = x.spec => v = x
      /\ \A q \in Pages, s \in Specs :
            HasVector(q, s) => HasVector(q, s)'
      /\ \A v \in vectors' : v \in vectors \/ (v.spec = spec /\ v.model = model)
  <2>1. CASE UNCHANGED vectors
    BY <2>1 DEF EmbeddingsInv, Typed, HasVector
  <2>2. CASE vectors' = Upsert({p}, spec, model)
    <3>1. {p} \in SUBSET Pages
      OBVIOUS
    <3> QED
      BY <2>2, <3>1, UpsertWrites
  <2> QED
    BY <1>u, <2>1, <2>2
<1>4. unmixed => w.model = Model(w.spec)
  BY <1>1 DEF EmbeddingsInv, CompilesInv
<1>5. \A e \in Compiles : compiles'[e] = IF e = c THEN NoCompile ELSE compiles[e]
  BY <1>1 DEF EmbeddingsInv, Typed
<1> HIDE DEF w
<1>6. Typed'
  <2>1. pages' \subseteq Pages \ gone'
    BY <1>1, <1>2
  <2>2. \A v \in vectors' : v.page \in pages'
    BY <1>1, <1>3
  <2> QED
    BY <1>1, <1>3, <2>1, <2>2, NoRunTyped DEF EmbeddingsInv, Typed
<1>7. CompilesInv' /\ QueriesInv'
  BY <1>1, <1>5 DEF EmbeddingsInv, CompilesInv, QueriesInv, Model
<1>8. VectorsInv'
  BY <1>1, <1>3, <1>4, <1>s, <1>m DEF EmbeddingsInv, VectorsInv, Model
<1>9. /\ pages' \intersect gone = {} /\ pages \union gone \subseteq pages' \union gone'
      /\ \A q \in pages \intersect pages', s \in Specs : HasVector(q, s) => HasVector(q, s)'
  BY <1>1, <1>2, <1>3
<1> QED
  BY <1>1, <1>6, <1>7, <1>8, <1>9, WikiStep

\* A page that is created has no vector, one that is deleted takes its own.
LEMMA PageInv ==
    ASSUME EmbeddingsInv, NEW p \in Pages, CreatePage(p) \/ DeletePage(p)
    PROVE  EmbeddingsInv'
<1>1. /\ UNCHANGED <<settings, jobs, runs, asks, compiles, queries>>
      /\ UNCHANGED <<active, named, local, unmixed>>
  BY DEF CreatePage, DeletePage, settings, readers
<1>2. /\ pages \subseteq Pages \ gone /\ gone \subseteq Pages
      /\ \A v \in vectors : v.page \in pages
  BY DEF EmbeddingsInv, Typed
<1>3. /\ pages' \subseteq Pages \ gone' /\ gone' \subseteq Pages
      /\ pages' \intersect gone = {} /\ pages \union gone \subseteq pages' \union gone'
      /\ vectors' \subseteq vectors /\ \A v \in vectors' : v.page \in pages'
      /\ \A v \in vectors : v.page \in pages' => v \in vectors'
  BY <1>2 DEF CreatePage, DeletePage
<1>4. Typed'
  BY <1>1, <1>3 DEF EmbeddingsInv, Typed
<1>5. CompilesInv' /\ VectorsInv' /\ QueriesInv'
  BY <1>1, <1>3 DEF EmbeddingsInv, CompilesInv, VectorsInv, QueriesInv, Model
<1>6. \A q \in pages \intersect pages', s \in Specs : HasVector(q, s) => HasVector(q, s)'
  BY <1>3 DEF HasVector
<1> QED
  BY <1>1, <1>3, <1>4, <1>5, <1>6, WikiStep

\* A search begins with the model of the spec that is active, and ends.
LEMMA SearchInv ==
    ASSUME EmbeddingsInv, NEW q \in Queries, EmbedQuery(q) \/ SearchPages(q)
    PROVE  EmbeddingsInv'
<1> DEFINE new == [spec |-> active, model |-> Model(active)]
<1>1. /\ new \in QueryRows /\ new.spec = active /\ new.model = Model(active)
  BY ModelTyped DEF QueryRows, EmbeddingsInv, Typed
<1>2. PICK w \in {new, NoQuery} : queries' = [queries EXCEPT ![q] = w]
  BY DEF EmbedQuery, SearchPages
<1>3. /\ UNCHANGED <<settings, jobs, runs, asks, compiles>>
      /\ UNCHANGED <<pages, gone, vectors, active, named, local, unmixed>>
  BY DEF EmbedQuery, SearchPages, wiki, settings
<1> HIDE DEF new
<1>4. \A e \in Queries : queries'[e] = IF e = q THEN w ELSE queries[e]
  BY <1>2 DEF EmbeddingsInv, Typed
<1>5. Typed'
  BY <1>1, <1>2, <1>3, NoRunTyped DEF EmbeddingsInv, Typed
<1>6. CompilesInv' /\ VectorsInv' /\ QueriesInv'
  BY <1>1, <1>2, <1>3, <1>4 DEF EmbeddingsInv, CompilesInv, VectorsInv, QueriesInv, Model
<1>7. /\ pages' \intersect gone = {} /\ pages \union gone \subseteq pages' \union gone'
      /\ \A p \in pages \intersect pages', s \in Specs : HasVector(p, s) => HasVector(p, s)'
  BY <1>3 DEF EmbeddingsInv, Typed, HasVector
<1> QED
  BY <1>3, <1>5, <1>6, <1>7, WikiStep

\* A step that changes nothing.
LEMMA StutterInv == ASSUME EmbeddingsInv, UNCHANGED vars PROVE EmbeddingsInv'
<1>1. UNCHANGED <<pages, gone, vectors, active, named, local, jobs, runs, asks, compiles, queries,
                  unmixed>>
  BY DEF vars
<1>2. Typed'
  BY <1>1 DEF EmbeddingsInv, Typed
<1>3. RunsInv' /\ CompilesInv' /\ VectorsInv' /\ QueriesInv'
  BY <1>1, SameRuns DEF EmbeddingsInv, Typed
<1>4. AsksInv'
  BY <1>1 DEF EmbeddingsInv, AsksInv
<1> QED
  BY <1>2, <1>3, <1>4 DEF EmbeddingsInv

\* Every step keeps the invariant.
LEMMA NextInv == ASSUME EmbeddingsInv, [Next]_vars PROVE EmbeddingsInv'
<1>1. CASE Endpoints
  <2>1. ASSUME NEW a \in Admins, NEW s \in Specs, NEW n \in Names \union {None},
               SwitchEmbeddingModel(a, s, n)
        PROVE  EmbeddingsInv'
    BY <2>1, SwitchInv
  <2>2. ASSUME NEW a \in Admins, NEW j \in Jobs, CommitSwitch(a, j) \/ CancelJob(a, j)
        PROVE  EmbeddingsInv'
    BY <2>2, CommitSwitchInv, CancelJobInv
  <2>3. ASSUME NEW a \in Admins,
               Enqueue(a) \/ EnqueueFails(a) \/ CommitCancel(a) \/ LoseRequest(a)
        PROVE  EmbeddingsInv'
    BY <2>3, EnqueueInv, AnswerStatusInv, LoseRequestInv
  <2> QED
    BY <1>1, <2>1, <2>2, <2>3, UpdateSettingsInv DEF Endpoints
<1>2. CASE Worker
  <2>1. ASSUME NEW j \in Jobs, NEW p \in Pages, ReadBatch(j, p) PROVE EmbeddingsInv'
    BY <2>1, ReadBatchInv
  <2>2. ASSUME NEW j \in Jobs,
               PickJob(j) \/ StartJob(j) \/ CommitBatch(j) \/ ReadForFlip(j)
                  \/ Flip(j) \/ Die(j)
        PROVE  EmbeddingsInv'
    BY <2>2, PickJobInv, StartJobInv, CommitBatchInv, ReadForFlipInv, FlipInv, DieInv
  <2>3. ASSUME NEW j \in Jobs, RefuseJob(j) \/ FailBatch(j) \/ LoseBatch(j)
        PROVE  EmbeddingsInv'
    BY <2>3, EndRunInv
  <2> QED
    BY <1>2, <2>1, <2>2, <2>3 DEF Worker
<1>3. CASE Wiki
  <2>1. ASSUME NEW c \in Compiles, NEW p \in Pages \union {None},
               BeginCompile(c, p) \/ LoseCompile(c)
        PROVE  EmbeddingsInv'
    BY <2>1, BeginCompileInv
  <2>2. ASSUME NEW c \in Compiles, NEW p \in Pages, EndCompile(c, p) PROVE EmbeddingsInv'
    BY <2>2, EndCompileInv
  <2>3. ASSUME NEW p \in Pages, CreatePage(p) \/ DeletePage(p) PROVE EmbeddingsInv'
    BY <2>3, PageInv
  <2> QED
    BY <1>3, <2>1, <2>2, <2>3 DEF Wiki
<1>4. CASE Search
  BY <1>4, SearchInv DEF Search
<1> QED
  BY <1>1, <1>2, <1>3, <1>4, StutterInv DEF Next

-----------------------------------------------------------------------------
\* EmbeddingsInv holds in every reachable state, for all sets of pages, jobs,
\* specs, administrators and compilations that overlap.
THEOREM Invariant == Spec => []EmbeddingsInv
<1> QED
  BY InitInv, NextInv, PTL DEF Spec

\* The tables stay well-typed: a page has at most one vector of a spec
\* (embedding_storage.py), no run exceeds max_tries, and a run has its job.
THEOREM TypeCorrect == Spec => []EmbeddingsTypeOK
<1>1. EmbeddingsInv => EmbeddingsTypeOK
  <2> SUFFICES ASSUME EmbeddingsInv PROVE EmbeddingsTypeOK
    OBVIOUS
  <2>1. \A j \in DOMAIN jobs : jobs[j].spec \in Specs /\ jobs[j].status \in Statuses
    BY DEF EmbeddingsInv, Typed, JobRows
  <2>2. \A j \in Jobs : runs[j].try \in 0..MaxTries
    BY DEF EmbeddingsInv, Typed, RunRows
  <2>3. \A j \in Jobs : /\ runs[j].todo \subseteq runs[j].total
                        /\ runs[j].at # "none" => j \in DOMAIN jobs
    BY DEF EmbeddingsInv, RunsInv, RunOK
  <2>4. \A v \in vectors : v.page \in pages /\ v.spec \in Specs
    BY DEF EmbeddingsInv, Typed, Vectors
  <2> QED
    BY <2>1, <2>2, <2>3, <2>4 DEF EmbeddingsInv, Typed, EmbeddingsTypeOK
<1> QED
  BY <1>1, Invariant, PTL

\* Until a hand on the names, the local mode or the active spec, every vector
\* was made by the model that its spec stands for, and a search whose spec is
\* still the active one meets only vectors of the model that embedded its
\* question (tools.py:269, wiki_service.py:394-396).
THEOREM LikeWithLike == Spec => []QueriesMatchVectors
<1>1. EmbeddingsInv => QueriesMatchVectors
  BY DEF EmbeddingsInv, VectorsInv, QueriesInv, QueriesMatchVectors, Met
<1> QED
  BY <1>1, Invariant, PTL

\* A flip that nobody raced keeps every page its job had counted: each has a
\* vector of the spec that becomes active, or is and stays active.
LEMMA FlipKeeps ==
    ASSUME EmbeddingsInv, NEW j \in Jobs, Flip(j), runs[j].alone,
           runs[j].flips \/ active = jobs[j].spec,
           NEW p \in pages \intersect runs[j].total
    PROVE  Found(p)'
<1>1. /\ runs[j].at = "flipping" /\ active' = jobs[j].spec
      /\ vectors' = {v \in vectors : v.spec = jobs[j].spec}
  BY DEF Flip, At
<1>2. runs[j].todo = {} /\ runs[j].batch = {} /\ RunOK(j, runs[j])
  BY <1>1, ThisRun DEF RunOK
<1>3. HasVector(p, jobs[j].spec)
  BY <1>2 DEF RunOK
<1> QED
  BY <1>1, <1>3 DEF HasVector, Found

\* Steps that leave the active spec alone and drop no vector of a page that
\* stays, except to write it anew, keep what the search finds.
LEMMA OthersKeep ==
    ASSUME EmbeddingsInv, UNCHANGED active, NEW p \in pages \intersect pages', Found(p),
           \/ UNCHANGED vectors
           \/ \E P \in SUBSET Pages, spec \in Specs, model \in Models :
                 vectors' = Upsert(P, spec, model)
           \/ \A v \in vectors : v.page \in pages' => v \in vectors'
    PROVE  Found(p)'
<1>1. p \in Pages /\ active \in Specs
  BY DEF EmbeddingsInv, Typed
<1>2. ASSUME NEW P \in SUBSET Pages, NEW spec \in Specs, NEW model \in Models,
             vectors' = Upsert(P, spec, model)
      PROVE  Found(p)'
  <2>1. HasVector(p, active)
    BY DEF Found, HasVector
  <2>2. HasVector(p, active)'
    <3>1. PICK s \in Specs : s = active
      BY <1>1
    <3>2. HasVector(p, s)'
      BY <1>1, <1>2, <2>1, <3>1, UpsertWrites
    <3> QED
      BY <3>1, <3>2 DEF HasVector
  <2> QED
    BY <2>2 DEF Found, HasVector
<1> QED
  BY <1>2 DEF Found

\* A step other than a flip or a hand on the settings keeps what is found.
LEMMA StepKeeps ==
    ASSUME EmbeddingsInv, [Next]_vars, NEW p \in pages \intersect pages', Found(p), ~Found(p)'
    PROVE  \/ \E s \in Specs, n \in Names : UpdateSettings(s, n)
           \/ \E j \in Jobs : Flip(j)
<1> SUFFICES ASSUME ~\E s \in Specs, n \in Names : UpdateSettings(s, n),
                    ~\E j \in Jobs : Flip(j)
             PROVE  FALSE
  OBVIOUS
<1>1. CASE Endpoints \/ Search \/ UNCHANGED vars
  <2>1. UNCHANGED <<active, vectors>>
    BY <1>1 DEF Endpoints, Search, vars, SwitchEmbeddingModel, Ask, CommitSwitch, CancelJob,
       Enqueue, EnqueueFails, CommitCancel, LoseRequest, UpdateLocalAI, EmbedQuery,
       SearchPages, wiki, settings
  <2> QED
    BY <2>1 DEF Found
<1>2. CASE Worker
  <2>1. PICK j \in Jobs : \/ PickJob(j) \/ RefuseJob(j) \/ StartJob(j)
                          \/ \E q \in Pages : ReadBatch(j, q)
                          \/ CommitBatch(j) \/ FailBatch(j) \/ LoseBatch(j)
                          \/ ReadForFlip(j) \/ Die(j)
    BY <1>2 DEF Worker
  <2>2. CASE CommitBatch(j)
    <3>1. /\ runs[j].at = "embedding" /\ UNCHANGED active
          /\ vectors' = Upsert(runs[j].batch, jobs[j].spec, runs[j].model)
      BY <2>2 DEF CommitBatch, At, settings
    <3>2. /\ runs[j].batch \in SUBSET Pages /\ jobs[j].spec \in Specs
          /\ runs[j].model \in Models
      BY <3>1, ThisRun DEF RunRows
    <3> QED
      BY <3>1, <3>2, OthersKeep
  <2>3. CASE ~CommitBatch(j)
    <3>1. UNCHANGED <<active, vectors>>
      BY <2>1, <2>3 DEF PickJob, RefuseJob, StartJob, ReadBatch, FailBatch, LoseBatch,
         ReadForFlip, Die, wiki, settings
    <3> QED
      BY <3>1 DEF Found
  <2> QED
    BY <2>2, <2>3
<1>3. CASE Wiki
  <2>1. UNCHANGED active
    BY <1>3 DEF Wiki, BeginCompile, EndCompile, LoseCompile, CreatePage, DeletePage, settings
  <2>2. ASSUME NEW c \in Compiles, NEW q \in Pages, EndCompile(c, q) PROVE FALSE
    <3>1. /\ compiles[c] # NoCompile
          /\ \/ UNCHANGED vectors
             \/ vectors' = Upsert({q}, compiles[c].spec, compiles[c].model)
      BY <2>2 DEF EndCompile
    <3>2. /\ {q} \in SUBSET Pages /\ compiles[c].spec \in Specs
          /\ compiles[c].model \in Models
      BY <3>1 DEF EmbeddingsInv, Typed, CompileRows
    <3> QED
      BY <2>1, <3>1, <3>2, OthersKeep
  <2>3. ASSUME NEW q \in Pages, DeletePage(q) PROVE FALSE
    <3>1. \A v \in vectors : v.page \in pages' => v \in vectors'
      BY <2>3 DEF DeletePage
    <3> QED
      BY <2>1, <3>1, OthersKeep
  <2>4. CASE UNCHANGED vectors
    BY <2>1, <2>4 DEF Found
  <2> QED
    BY <1>3, <2>2, <2>3, <2>4 DEF Wiki, BeginCompile, LoseCompile, CreatePage, wiki
<1> QED
  BY <1>1, <1>2, <1>3 DEF Next

\* "No zero-result window during the migration" (worker.py:563-565): whatever
\* is retried, failed, cancelled or deleted, a page the search finds stays
\* found, but for a page the job had not counted, a flip another flip had
\* overtaken, or a hand on the settings - also one between the flip's read of
\* the active spec and its commit.
THEOREM SearchNeverEmpties == Spec => SearchKeepsPages
<1> DEFINE Keeps ==
       \A p \in pages \intersect pages' :
          Found(p) /\ ~Found(p)' =>
             \/ \E s \in Specs, n \in Names : UpdateSettings(s, n)
             \/ \E j \in Jobs :
                   /\ Flip(j)
                   /\ \/ p \notin runs[j].total
                      \/ ~runs[j].alone
                      \/ ~runs[j].flips /\ active # jobs[j].spec
<1>1. ASSUME EmbeddingsInv, [Next]_vars PROVE Keeps
  <2> SUFFICES ASSUME NEW p \in pages \intersect pages', Found(p), ~Found(p)',
                      ~\E s \in Specs, n \in Names : UpdateSettings(s, n)
               PROVE  \E j \in Jobs :
                   /\ Flip(j)
                   /\ \/ p \notin runs[j].total
                      \/ ~runs[j].alone
                      \/ ~runs[j].flips /\ active # jobs[j].spec
    OBVIOUS
  <2>1. PICK j \in Jobs : Flip(j)
    BY <1>1, StepKeeps
  <2>2. p \in runs[j].total /\ runs[j].alone /\ (runs[j].flips \/ active = jobs[j].spec)
          => Found(p)'
    BY <1>1, <2>1, FlipKeeps
  <2> QED
    BY <2>1, <2>2
<1>2. EmbeddingsInv /\ [Next]_vars => [Keeps]_vars
  BY <1>1
<1> QED
  BY <1>2, Invariant, PTL DEF Spec, SearchKeepsPages
=============================================================================
