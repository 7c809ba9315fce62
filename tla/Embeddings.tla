----------------------------- MODULE Embeddings -----------------------------
(* Changing the embedding model under a running wiki: the switch and cancel  *)
(* endpoints (routers/admin_embeddings.py), the job that embeds every page   *)
(* again and then flips the active model (worker.py), the vectors            *)
(* (services/embedding_storage.py), the model that the registry binds, which *)
(* local mode overrides (registry.py), and a search (mcp/tools.py).          *)
EXTENDS Integers, FiniteSets, TLC

CONSTANTS
    Pages, Jobs,      \* ids of wiki_pages and of embedding_jobs
    Specs, Custom,    \* the catalog; the spec whose model the settings name
    Names,            \* model names an administrator may give
    Admins, Compiles, \* requests and compilations that may overlap
    Queries,          \* searches that may overlap
    MaxTries,         \* WorkerSettings.max_tries
    MaxRequests,      \* bound on the requests of a behaviour
    None

ASSUME EmbeddingsAssumption ==
    /\ Custom \in Specs /\ None \notin Specs \union Names
    /\ MaxTries \in Nat \ {0} /\ MaxRequests \in Nat

VARIABLES
    pages,     \* wiki pages that exist
    gone,      \* pages that were deleted
    vectors,   \* rows of wiki_page_embeddings_<dim>
    active,    \* app_config: active_embedding_model_spec_id
    named,     \* app_config: embedding_custom_model_id
    local,     \* app_config: local_ai.embedding.model_id, None when the mode is off
    jobs,      \* embedding_jobs: [spec, status]
    runs,      \* the worker's execution of each job
    asks,      \* what each administrator's request has read
    compiles,  \* the pages a compilation is about to commit
    queries,   \* the searches that have bound a model and not yet searched
    toCome,    \* requests still to come (the bound, no part of the program)
    unmixed    \* history: no hand on the names, the local mode or the active spec

vars == <<pages, gone, vectors, active, named, local, jobs, runs, asks, compiles, queries,
          toCome, unmixed>>
settings == <<active, named, local, unmixed>>
readers == <<compiles, queries>>
wiki == <<pages, gone, vectors>>

InFlight == {"pending", "running"}
Statuses == InFlight \union {"completed", "failed", "cancelled"}
NoRun == [at |-> "none", try |-> 0, todo |-> {}, total |-> {}, batch |-> {},
          model |-> None, alone |-> FALSE, flips |-> FALSE]
NoAsk == [op |-> "none"]
NoCompile == [page |-> None]
NoQuery == [model |-> None]

Offered == (Specs \ {Custom}) \union Names
(* get_embedding: in local mode the spec that was asked for does not matter. *)
Model(spec) == IF local # None THEN local ELSE IF spec = Custom THEN named ELSE spec
Upsert(P, spec, model) ==
    {v \in vectors : v.page \notin P \/ v.spec # spec}
    \union {[page |-> p, spec |-> spec, model |-> model] : p \in P}
Found(p) == \E v \in vectors : v.page = p /\ v.spec = active

Init ==
    /\ \E live \in SUBSET Pages, s \in Specs :
          /\ pages = live /\ active = s
          /\ named \in Names /\ local \in Names \union {None}
          /\ vectors = {[page |-> p, spec |-> s, model |-> Model(s)] : p \in live}
    /\ gone = {} /\ jobs = << >> /\ runs = [j \in Jobs |-> NoRun]
    /\ asks = [a \in Admins |-> NoAsk] /\ compiles = [c \in Compiles |-> NoCompile]
    /\ queries = [q \in Queries |-> NoQuery]
    /\ toCome = MaxRequests /\ unmixed = TRUE

(***************************************************************************)
(* Endpoints                                                               *)
(***************************************************************************)
Ask(a, read) ==
    /\ asks[a] = NoAsk /\ toCome > 0
    /\ asks' = [asks EXCEPT ![a] = read] /\ toCome' = toCome - 1
    /\ UNCHANGED <<wiki, settings, jobs, runs, readers>>
Answer(a) == asks' = [asks EXCEPT ![a] = NoAsk]

(* Nothing in flight, as far as this request can see ... *)
SwitchEmbeddingModel(a, spec, name) ==
    /\ \A j \in DOMAIN jobs : jobs[j].status \notin InFlight
    /\ spec # Custom => name = None
    /\ spec = Custom => name # None
    /\ Ask(a, [op |-> "switch", spec |-> spec, name |-> name])
(* ... a new job; the name of a custom model is saved at once. *)
CommitSwitch(a, j) ==
    /\ asks[a].op = "switch" /\ j \notin DOMAIN jobs
    /\ jobs' = [i \in DOMAIN jobs \union {j} |->
                  IF i = j THEN [spec |-> asks[a].spec, status |-> "pending"] ELSE jobs[i]]
    /\ named' = IF asks[a].name = None THEN named ELSE asks[a].name
    /\ unmixed' = (unmixed /\ named' = named)
    /\ asks' = [asks EXCEPT ![a] = [op |-> "enqueue", job |-> j]]
    /\ UNCHANGED <<wiki, active, local, runs, readers, toCome>>
Enqueue(a) ==
    /\ asks[a].op = "enqueue" /\ Answer(a)
    /\ runs' = [runs EXCEPT ![asks[a].job].at = "queued"]
    /\ UNCHANGED <<wiki, settings, jobs, readers, toCome>>
EnqueueFails(a) ==
    /\ asks[a].op = "enqueue" /\ Answer(a)
    /\ jobs' = [jobs EXCEPT ![asks[a].job].status = "failed"]
    /\ UNCHANGED <<wiki, settings, runs, readers, toCome>>

CancelJob(a, j) ==
    /\ j \in DOMAIN jobs /\ jobs[j].status \in InFlight
    /\ Ask(a, [op |-> "cancel", job |-> j])
CommitCancel(a) ==
    /\ asks[a].op = "cancel" /\ Answer(a)
    /\ jobs' = [jobs EXCEPT ![asks[a].job].status = "cancelled"]
    /\ UNCHANGED <<wiki, settings, runs, readers, toCome>>

(* The process dies, or the database refuses: what is not committed is gone. *)
LoseRequest(a) ==
    /\ asks[a] # NoAsk /\ Answer(a)
    /\ UNCHANGED <<wiki, settings, jobs, runs, readers, toCome>>

(* PUT /settings takes the spec and the name of the model like any other key. *)
UpdateSettings(spec, name) ==
    /\ toCome > 0 /\ toCome' = toCome - 1
    /\ active' = spec /\ named' = name /\ <<active', named'>> # <<active, named>>
    /\ unmixed' = FALSE
    /\ UNCHANGED <<wiki, local, jobs, runs, asks, readers>>
(* The local mode and its model: three endpoints, each saves the whole block. *)
UpdateLocalAI(model) ==
    /\ toCome > 0 /\ toCome' = toCome - 1
    /\ local' = model /\ local' # local /\ unmixed' = FALSE
    /\ UNCHANGED <<wiki, active, named, jobs, runs, asks, readers>>

(***************************************************************************)
(* reembed_all_pages_task                                                  *)
(***************************************************************************)
At(j, step) == runs[j].at = step
Step(j, run) == runs' = [runs EXCEPT ![j] = run]
Quit(j) == Step(j, NoRun)
SetStatus(j, status) == jobs' = [jobs EXCEPT ![j].status = status]

\* mutant: the batch is embedded with whatever model is active
PickWithActiveModel(j) ==
    /\ At(j, "queued")
    /\ IF jobs[j].status \in InFlight
       THEN Step(j, [runs[j] EXCEPT !.at = "picked", !.try = @ + 1, !.model = Model(active)])
       ELSE Quit(j)
    /\ UNCHANGED <<wiki, settings, jobs, asks, readers, toCome>>
(* The job is read; the provider is bound to the spec of the job, or to the  *)
(* local model.                                                              *)
PickJob(j) ==
    /\ At(j, "queued")
    /\ IF jobs[j].status \in InFlight
       THEN Step(j, [runs[j] EXCEPT !.at = "picked", !.try = @ + 1,
                                    !.model = Model(jobs[j].spec)])
       ELSE Quit(j)
    /\ UNCHANGED <<wiki, settings, jobs, asks, readers, toCome>>
RefuseJob(j) ==
    /\ At(j, "picked") /\ Quit(j) /\ SetStatus(j, "failed")
    /\ UNCHANGED <<wiki, settings, asks, readers, toCome>>
StartJob(j) ==
    /\ At(j, "picked") /\ SetStatus(j, "running")
    /\ Step(j, [runs[j] EXCEPT !.at = "batches", !.total = pages,
                               !.todo = pages, !.alone = TRUE])
    /\ UNCHANGED <<wiki, settings, asks, readers, toCome>>

(* A batch (here one page) has a session of its own and looks at the status  *)
(* first; a page that is gone is not in the result.                          *)
ReadBatch(j, p) ==
    /\ At(j, "batches") /\ p \in runs[j].todo
    /\ IF jobs[j].status = "cancelled" THEN Quit(j)
       ELSE Step(j, [runs[j] EXCEPT !.at = "embedding", !.todo = @ \ {p},
                       !.batch = {p} \intersect pages])
    /\ UNCHANGED <<wiki, settings, jobs, asks, readers, toCome>>
CommitBatch(j) ==
    /\ At(j, "embedding") /\ runs[j].batch \subseteq pages
    /\ Step(j, [runs[j] EXCEPT !.at = "batches", !.batch = {}])
    /\ vectors' = Upsert(runs[j].batch, jobs[j].spec, runs[j].model)
    /\ UNCHANGED <<pages, gone, settings, jobs, asks, readers, toCome>>
FailBatch(j) ==
    /\ At(j, "embedding") /\ Quit(j) /\ SetStatus(j, "failed")
    /\ UNCHANGED <<wiki, settings, asks, readers, toCome>>
(* A page deleted meanwhile breaks the foreign key, a vector of another      *)
(* dimension its column: nobody handles what the database refuses.           *)
LoseBatch(j) ==
    /\ At(j, "embedding") /\ Quit(j)
    /\ UNCHANGED <<wiki, settings, jobs, asks, readers, toCome>>

\* mutant: the flip does not wait for the last page
FlipOneShort(j) ==
    /\ At(j, "batches") /\ Cardinality(runs[j].todo) <= 1
    /\ IF jobs[j].status = "cancelled" THEN Quit(j)
       ELSE Step(j, [runs[j] EXCEPT !.at = "flipping", !.flips = active # jobs[j].spec])
    /\ UNCHANGED <<wiki, settings, jobs, asks, readers, toCome>>
(* The status, and the row that the flip may have no reason to write.        *)
ReadForFlip(j) ==
    /\ At(j, "batches") /\ runs[j].todo = {}
    /\ IF jobs[j].status = "cancelled" THEN Quit(j)
       ELSE Step(j, [runs[j] EXCEPT !.at = "flipping", !.flips = active # jobs[j].spec])
    /\ UNCHANGED <<wiki, settings, jobs, asks, readers, toCome>>
(* Flip, and drop the vectors of every other spec, in one transaction.       *)
Flip(j) ==
    /\ At(j, "flipping") /\ SetStatus(j, "completed")
    /\ active' = IF runs[j].flips THEN jobs[j].spec ELSE active
    /\ vectors' = {v \in vectors : v.spec = jobs[j].spec}
    /\ runs' = [i \in Jobs |-> IF i = j THEN NoRun ELSE [runs[i] EXCEPT !.alone = FALSE]]
    /\ UNCHANGED <<pages, gone, named, local, asks, readers, toCome, unmixed>>

\* mutant: a run is retried for ever
DieAndRetry(j) ==
    /\ runs[j].at \notin {"none", "queued"}
    /\ Step(j, [NoRun EXCEPT !.at = "queued", !.try = runs[j].try])
    /\ UNCHANGED <<wiki, settings, jobs, asks, readers, toCome>>
(* The worker dies: arq starts the job again, max_tries times in all.        *)
Die(j) ==
    /\ runs[j].at \notin {"none", "queued"}
    /\ IF runs[j].try < MaxTries THEN Step(j, [NoRun EXCEPT !.at = "queued", !.try = runs[j].try])
       ELSE Quit(j)
    /\ UNCHANGED <<wiki, settings, jobs, asks, readers, toCome>>

(***************************************************************************)
(* Pages                                                                   *)
(***************************************************************************)
(* A compilation reads the active spec with its provider and commits later,  *)
(* to a page it finds or, if that is gone, to a new one.                     *)
BeginCompile(c, p) ==
    /\ compiles[c] = NoCompile /\ p \in pages \union {None}
    /\ compiles' = [compiles EXCEPT ![c] = [page |-> p, spec |-> active, model |-> Model(active)]]
    /\ UNCHANGED <<wiki, settings, jobs, runs, asks, queries, toCome>>
(* The service may fail to embed it: the page is written all the same.       *)
EndCompile(c, p) ==
    LET w == compiles[c] IN
    /\ w # NoCompile /\ compiles' = [compiles EXCEPT ![c] = NoCompile]
    /\ IF w.page \in pages THEN p = w.page ELSE p \notin pages \union gone
    /\ pages' = pages \union {p}
    /\ UNCHANGED vectors \/ vectors' = Upsert({p}, w.spec, w.model)
    /\ UNCHANGED <<gone, settings, jobs, runs, asks, queries, toCome>>
LoseCompile(c) ==
    /\ compiles[c] # NoCompile /\ compiles' = [compiles EXCEPT ![c] = NoCompile]
    /\ UNCHANGED <<wiki, settings, jobs, runs, asks, queries, toCome>>
(* A page that a person creates gets no vector (an edit leaves the old one). *)
CreatePage(p) ==
    /\ p \notin pages \union gone /\ pages' = pages \union {p}
    /\ UNCHANGED <<gone, vectors, settings, jobs, runs, asks, readers, toCome>>
(* Vectors go with their page. *)
DeletePage(p) ==
    /\ p \in pages /\ pages' = pages \ {p} /\ gone' = gone \union {p}
    /\ vectors' = {v \in vectors : v.page # p}
    /\ UNCHANGED <<settings, jobs, runs, asks, readers, toCome>>

(***************************************************************************)
(* Search                                                                  *)
(***************************************************************************)
(* The question is embedded with the model of the spec active now ...        *)
EmbedQuery(q) ==
    /\ queries[q] = NoQuery
    /\ queries' = [queries EXCEPT ![q] = [spec |-> active, model |-> Model(active)]]
    /\ UNCHANGED <<wiki, settings, jobs, runs, asks, compiles, toCome>>
(* ... and compared with the vectors of the spec active then.                *)
SearchPages(q) ==
    /\ queries[q] # NoQuery /\ queries' = [queries EXCEPT ![q] = NoQuery]
    /\ UNCHANGED <<wiki, settings, jobs, runs, asks, compiles, toCome>>
Met == {v \in vectors : v.spec = active}

(***************************************************************************)
(* Specification                                                           *)
(***************************************************************************)
Endpoints ==
    \/ \E a \in Admins :
          \/ \E s \in Specs, n \in Names \union {None} : SwitchEmbeddingModel(a, s, n)
          \/ \E j \in Jobs : CommitSwitch(a, j) \/ CancelJob(a, j)
          \/ Enqueue(a) \/ EnqueueFails(a) \/ CommitCancel(a) \/ LoseRequest(a)
    \/ \E s \in Specs, n \in Names : UpdateSettings(s, n)
    \/ \E m \in Offered \union {None} : UpdateLocalAI(m)

Worker ==
    \E j \in Jobs :
       \/ PickJob(j) \/ RefuseJob(j) \/ StartJob(j)
       \/ \E p \in Pages : ReadBatch(j, p)
       \/ CommitBatch(j) \/ FailBatch(j) \/ LoseBatch(j)
       \/ ReadForFlip(j) \/ Flip(j) \/ Die(j)

Wiki ==
    \/ \E c \in Compiles : \/ \E p \in Pages \union {None} : BeginCompile(c, p)
                           \/ \E p \in Pages : EndCompile(c, p)
                           \/ LoseCompile(c)
    \/ \E p \in Pages : CreatePage(p) \/ DeletePage(p)

Search == \E q \in Queries : EmbedQuery(q) \/ SearchPages(q)

Next == Endpoints \/ Worker \/ Wiki \/ Search
Spec == Init /\ [][Next]_vars

(***************************************************************************)
(* Properties                                                              *)
(***************************************************************************)
(* Vectors belong to pages that exist, at most one per page and spec, and a  *)
(* run of a job never outlives its tries.                                    *)
EmbeddingsTypeOK ==
    /\ pages \subseteq Pages \ gone /\ gone \subseteq Pages
    /\ active \in Specs /\ named \in Names /\ local \in Offered \union {None}
    /\ \A v \in vectors : v.page \in pages /\ v.spec \in Specs
    /\ \A v, w \in vectors : v.page = w.page /\ v.spec = w.spec => v = w
    /\ \A j \in DOMAIN jobs : jobs[j].spec \in Specs /\ jobs[j].status \in Statuses
    /\ \A j \in Jobs : /\ runs[j].try \in 0..MaxTries /\ runs[j].todo \subseteq runs[j].total
                       /\ runs[j].at # "none" => j \in DOMAIN jobs

(* "No zero-result window during the migration" (worker.py:563-565): a page  *)
(* the search finds stays found while it exists, whatever is retried, failed *)
(* or cancelled - unless it came after the job had counted the pages; or     *)
(* another job's flip has dropped the vectors of this one; or somebody wrote *)
(* the spec into the settings by hand, be it between the flip's read, which  *)
(* found its own spec there, and its commit, which then writes none.         *)
SearchKeepsPages ==
    [][\A p \in pages \intersect pages' :
          Found(p) /\ ~Found(p)' =>
             \/ \E s \in Specs, n \in Names : UpdateSettings(s, n)
             \/ \E j \in Jobs :
                   /\ Flip(j)
                   /\ \/ p \notin runs[j].total
                      \/ ~runs[j].alone
                      \/ ~runs[j].flips /\ active # jobs[j].spec]_vars

(* Until somebody renames the custom model, changes the local mode or sets   *)
(* the spec by hand, every vector was made by the model its spec stands for  *)
(* - also those of a compilation that spans a flip -, and a search meets     *)
(* only vectors of the model that embedded its question, unless a flip came  *)
(* between its two reads of the active spec (tools.py:269,                   *)
(* wiki_service.py:394-396).                                                 *)
QueriesMatchVectors ==
    unmixed =>
       /\ \A v \in vectors : v.model = Model(v.spec)
       /\ \A q \in Queries : queries[q] # NoQuery /\ queries[q].spec = active =>
             \A v \in Met : v.model = queries[q].model
=============================================================================
