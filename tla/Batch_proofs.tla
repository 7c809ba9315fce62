---------------------------- MODULE Batch_proofs ----------------------------
(* Batch for every number of chunks, pages, jobs and failed commits, every   *)
(* concurrency and every threshold: its rows are typed, what it publishes    *)
(* is whole, and a retry keeps finished work.  These follow from one inductive *)
(* invariant, BatchInv, with one lemma per action; that the breaker stops    *)
(* the batch follows from BreakerInv and a count of the writers under way.   *)
EXTENDS Batch, FiniteSetTheorems, TLAPS

\* Items that a MAP job still has to extract are not done.
MapInv == job.at \in {"map", "remap"} =>
    \A c \in job.todo \intersect Chunks : chunk[c] # "done"

\* Every page is either in memory or left to write, unless the breaker tripped.
\* Memory knows all drafts, and no page left has one; on an expired session
\* this holds once nothing is left.
WriteInv == job.at = "write" =>
    /\ phase = "refine" /\ job.todo \subseteq Pages
    /\ job.tripped \/ Pages \subseteq PagesOf(job.mem) \union job.todo
    /\ ~job.stale => /\ drafts \subseteq job.mem
                     /\ PagesOf(drafts) \intersect job.todo = {}
    /\ job.todo = {} => drafts \subseteq job.mem
    /\ job.todo \intersect PagesOf(Real(drafts)) = {}

\* What VERIFY hands to COMMIT is whole, up to a lost draft.
VerifyInv == job.at = "verify" =>
    /\ phase = "verify" /\ Real(job.mem) = job.mem
    /\ Pages \ PagesOf(job.mem) \subseteq lost

\* So are the drafts a later job at 'verify' or 'commit' finds.
DraftsInv == phase \in {"verify", "commit"} =>
    /\ Real(drafts) = drafts
    /\ drafts = {} \/ Pages \ PagesOf(drafts) \subseteq lost

BatchInv == /\ TypeOK /\ MapInv /\ WriteInv /\ VerifyInv /\ DraftsInv
            /\ PublishedWhole

-----------------------------------------------------------------------------
\* A page that is let in is one of those left.
LEMMA InFlightLeft == InFlight \subseteq job.todo
BY DEF InFlight

\* Init ("no job, no row done, no draft") satisfies the invariant.
LEMMA InitInv == Init => BatchInv
BY BatchAssumption
   DEF Init, BatchInv, TypeOK, MapInv, WriteInv, VerifyInv, DraftsInv,
       PublishedWhole, Idle, Job, Phases, Real

\* A job that starts is a well-typed job when what it is given is.
LEMMA StartJobTyped ==
    ASSUME BatchInv,
           NEW at \in {"map", "write", "verify"}, NEW stale \in BOOLEAN,
           NEW todo \in SUBSET (Chunks \union Pages), NEW mem \in SUBSET Draft,
           StartJob(at, todo, mem, stale)
    PROVE  /\ job' \in Job /\ jobs' \in 0..MaxJobs
           /\ job'.at = at /\ job'.todo = todo /\ job'.mem = mem
           /\ job'.stale = stale /\ job'.tripped = FALSE
<1>1. PICK w \in Widths :
        job' = [Idle EXCEPT !.at = at, !.width = w, !.todo = todo, !.mem = mem,
                            !.stale = stale]
  BY DEF StartJob
<1>2. w \in Nat
  BY BatchAssumption
<1>3. jobs' \in 0..MaxJobs
  BY BatchAssumption DEF BatchInv, TypeOK, StartJob
<1> QED
  BY <1>1, <1>2, <1>3 DEF Idle, Job

\* MAP starts on the rows that are not done.
LEMMA StartMapInv == ASSUME BatchInv, StartMap PROVE BatchInv'
<1> DEFINE left == {c \in Chunks : chunk[c] # "done"}
<1>1. /\ job' \in Job /\ jobs' \in 0..MaxJobs
      /\ job'.at = "map" /\ job'.todo = left
  BY StartJobTyped, {} \in SUBSET Draft, left \in SUBSET (Chunks \union Pages)
     DEF StartMap
<1> QED
  BY <1>1 DEF StartMap, BatchInv, TypeOK, MapInv, WriteInv, VerifyInv,
              DraftsInv, PublishedWhole, Phases

\* One answer for one row of MAP, in either round.
LEMMA ExtractInv ==
    ASSUME BatchInv, NEW c \in Chunks, ExtractChunk(c) \/ RetryChunk(c)
    PROVE  BatchInv'
<1>1. /\ job.at \in {"map", "remap"}
      /\ job' = [job EXCEPT !.todo = @ \ {c}]
      /\ UNCHANGED <<phase, drafts, wiki, jobs, failures, lost, dropped>>
  BY DEF ExtractChunk, RetryChunk
<1>2. PICK s \in {"done", "error"} : chunk' = [chunk EXCEPT ![c] = s]
  BY DEF ExtractChunk, RetryChunk
<1>3. /\ job' \in Job /\ job'.at = job.at /\ job'.todo = job.todo \ {c}
  BY <1>1 DEF BatchInv, TypeOK, Job
<1>4. TypeOK'
  BY <1>1, <1>2, <1>3 DEF BatchInv, TypeOK
<1>5. MapInv'
  BY <1>1, <1>2, <1>3 DEF BatchInv, TypeOK, MapInv
<1> QED
  BY <1>1, <1>3, <1>4, <1>5
     DEF BatchInv, WriteInv, VerifyInv, DraftsInv, PublishedWhole

\* The retry round takes the rows in error.
LEMMA StartRetryRoundInv == ASSUME BatchInv, StartRetryRound PROVE BatchInv'
<1>1. PICK left \in SUBSET {c \in Chunks : chunk[c] = "error"} :
        job' = [job EXCEPT !.at = "remap", !.width = 1, !.todo = left]
  BY DEF StartRetryRound
<1>2. job' \in Job /\ job'.at = "remap" /\ job'.todo = left
  BY <1>1 DEF BatchInv, TypeOK, Job
<1> QED
  BY <1>1, <1>2 DEF StartRetryRound, BatchInv, TypeOK, MapInv, WriteInv,
                    VerifyInv, DraftsInv, PublishedWhole

\* The jobs that end without touching a row: MAP done, REFINE incomplete.
LEMMA StopInv == ASSUME BatchInv, FinishMap \/ AbortBatch PROVE BatchInv'
<1>1. Idle \in Job /\ Idle.at = "idle"
  BY DEF Idle, Job
<1> QED
  BY <1>1 DEF FinishMap, AbortBatch, BatchInv, TypeOK, MapInv, WriteInv,
              VerifyInv, DraftsInv, PublishedWhole, Phases

-----------------------------------------------------------------------------
\* Pruning the stubs leaves a page without a draft for each of them.
LEMMA StubIsLeft ==
    ASSUME BatchInv, Real(drafts) # drafts
    PROVE  Pages \ PagesOf(Real(drafts)) # {}
<1>1. PICK d \in drafts : d.stub
  BY DEF Real
<1>2. d.page \in Pages
  BY DEF BatchInv, TypeOK, Draft
<1>3. d.page \notin PagesOf(Real(drafts))
  BY <1>1 DEF PagesOf, Real, BatchInv, TypeOK
<1> QED
  BY <1>2, <1>3

\* REFINE starts on the pages without a real draft.
LEMMA StartRefineInv == ASSUME BatchInv, StartRefine PROVE BatchInv'
<1> DEFINE left == Pages \ PagesOf(Real(drafts))
<1>1. PICK b \in BOOLEAN :
        /\ StartJob("write", left, Real(drafts), b)
        /\ IF b THEN Real(drafts) # drafts /\ CommitFailed /\ UNCHANGED drafts
                ELSE drafts' = Real(drafts) /\ UNCHANGED failures
  BY DEF StartRefine
<1>2. Real(drafts) \in SUBSET Draft
  BY DEF Real, BatchInv, TypeOK
<1>3. /\ job' \in Job /\ jobs' \in 0..MaxJobs
      /\ job'.at = "write" /\ job'.todo = left /\ job'.mem = Real(drafts)
      /\ job'.stale = b /\ job'.tripped = FALSE
  BY <1>1, <1>2, StartJobTyped, left \in SUBSET (Chunks \union Pages)
<1>4. phase' = "refine" /\ UNCHANGED <<chunk, wiki, lost, dropped>>
  BY DEF StartRefine
<1>5. TypeOK'
  BY <1>1, <1>2, <1>3, <1>4, BatchAssumption
     DEF BatchInv, TypeOK, CommitFailed, Real, Phases
<1>6. WriteInv'
  <2>1. PagesOf(Real(drafts')) = PagesOf(Real(drafts))
    BY <1>1 DEF Real
  <2>2. left = {} => ~b
    BY <1>1, StubIsLeft
  <2>3. CASE b
    BY <2>1, <2>2, <2>3, <1>3, <1>4 DEF WriteInv
  <2>4. CASE ~b
    BY <2>1, <2>4, <1>1, <1>3, <1>4 DEF WriteInv
  <2> QED
    BY <2>3, <2>4
<1> QED
  BY <1>3, <1>4, <1>5, <1>6
     DEF BatchInv, MapInv, VerifyInv, DraftsInv, PublishedWhole

\* A writer answers: its page leaves the batch and enters memory, and the
\* plan unless the commit failed.
LEMMA WritePageInv == ASSUME BatchInv, NEW p \in Pages, WritePage(p) PROVE BatchInv'
<1>1. PICK s \in BOOLEAN, b \in BOOLEAN :
        /\ job' = [job EXCEPT !.todo = LeftAfter(p, s),
                              !.mem = @ \union {[page |-> p, stub |-> s]},
                              !.streak = IF s THEN @ + 1 ELSE 0,
                              !.tripped = Trips(s), !.stale = b]
        /\ IF b THEN CommitFailed /\ UNCHANGED drafts
                ELSE /\ drafts' = drafts \union {[page |-> p, stub |-> s]}
                     /\ UNCHANGED failures
  BY DEF WritePage
<1> DEFINE d == [page |-> p, stub |-> s]
<1>2. /\ job.at = "write" /\ p \in job.todo /\ ~job.stale
      /\ UNCHANGED <<phase, chunk, wiki, jobs, lost, dropped>>
  BY InFlightLeft DEF WritePage
<1>3. /\ d \in Draft /\ d.page = p /\ Trips(s) \in BOOLEAN
      /\ LeftAfter(p, s) \subseteq job.todo \ {p}
      /\ ~Trips(s) => LeftAfter(p, s) = job.todo \ {p} /\ ~job.tripped
  BY InFlightLeft DEF Draft, LeftAfter, Trips, BatchInv, TypeOK, Job
<1>4. /\ job' \in Job /\ job'.at = "write" /\ job'.mem = job.mem \union {d}
      /\ job'.todo = LeftAfter(p, s) /\ job'.tripped = Trips(s) /\ job'.stale = b
  <2>1. /\ job \in Job /\ job.todo \subseteq Chunks \union Pages
        /\ job.mem \subseteq Draft /\ job.streak \in Nat
    BY DEF BatchInv, TypeOK, Job
  <2>2. /\ LeftAfter(p, s) \in SUBSET (Chunks \union Pages)
        /\ job.mem \union {d} \in SUBSET Draft
        /\ (IF s THEN job.streak + 1 ELSE 0) \in Nat
    BY <1>3, <2>1
  <2> HIDE DEF d
  <2>3. job' = [job EXCEPT !.todo = LeftAfter(p, s), !.mem = job.mem \union {d},
                           !.streak = IF s THEN job.streak + 1 ELSE 0,
                           !.tripped = Trips(s), !.stale = b]
    BY <1>1 DEF d
  <2> QED
    BY <1>2, <1>3, <2>1, <2>2, <2>3 DEF Job
<1>5. /\ phase = "refine" /\ job.todo \subseteq Pages
      /\ job.tripped \/ Pages \subseteq PagesOf(job.mem) \union job.todo
      /\ drafts \subseteq job.mem /\ PagesOf(drafts) \intersect job.todo = {}
  BY <1>2 DEF BatchInv, WriteInv
<1>6. drafts' \subseteq drafts \union {d} /\ drafts' \subseteq job'.mem
  BY <1>1, <1>4, <1>5
<1>7. TypeOK'
  <2>1. drafts' \subseteq Draft /\ failures' \in 0..MaxFailures
    BY <1>1, <1>3, BatchAssumption DEF BatchInv, TypeOK, CommitFailed
  <2>2. \A e \in drafts : e.page # p
    BY <1>2, <1>5 DEF PagesOf
  <2>3. \A e, f \in drafts' : e.page = f.page => e = f
    BY <1>3, <1>6, <2>2 DEF BatchInv, TypeOK
  <2> QED
    BY <2>1, <2>3, <1>2, <1>4 DEF BatchInv, TypeOK
<1>8. WriteInv'
  <2>1. PagesOf(job'.mem) = PagesOf(job.mem) \union {p}
    BY <1>3, <1>4 DEF PagesOf
  <2>2. PagesOf(drafts') \subseteq PagesOf(drafts) \union {p}
    BY <1>3, <1>6 DEF PagesOf
  <2>3. PagesOf(drafts') \intersect job'.todo = {}
    BY <2>2, <1>3, <1>4, <1>5
  <2>4. job'.todo \intersect PagesOf(Real(drafts')) = {}
    BY <2>3 DEF PagesOf, Real
  <2>5. job'.tripped \/ Pages \subseteq PagesOf(job'.mem) \union job'.todo
    BY <2>1, <1>3, <1>4, <1>5
  <2> QED
    BY <2>3, <2>4, <2>5, <1>2, <1>3, <1>4, <1>5, <1>6 DEF WriteInv
<1> QED
  BY <1>2, <1>4, <1>5, <1>7, <1>8
     DEF BatchInv, MapInv, VerifyInv, DraftsInv, PublishedWhole

\* A complete batch goes to VERIFY: memory has every page and no stub, and
\* lost is exactly what the committed drafts miss.
LEMMA FinishRefineInv == ASSUME BatchInv, FinishRefine PROVE BatchInv'
<1>1. /\ job' \in Job /\ job'.at = "verify" /\ job'.mem = job.mem
      /\ phase' = "verify" /\ lost' = PagesOf(job.mem) \ PagesOf(drafts)
      /\ UNCHANGED <<chunk, drafts, wiki, jobs, failures, dropped>>
  BY DEF FinishRefine, BatchInv, TypeOK, Job
<1>2. /\ Pages \subseteq PagesOf(job.mem) /\ Real(job.mem) = job.mem
      /\ drafts \subseteq job.mem
  BY DEF FinishRefine, Complete, BatchInv, WriteInv
<1>3. PagesOf(job.mem) \subseteq Pages
  BY DEF PagesOf, BatchInv, TypeOK, Job, Draft
<1>4. Real(drafts) = drafts
  BY <1>2 DEF Real
<1> QED
  BY <1>1, <1>2, <1>3, <1>4
     DEF BatchInv, TypeOK, MapInv, WriteInv, VerifyInv, DraftsInv,
         PublishedWhole, Phases

\* A later job takes the committed drafts, or starts over when there are none.
LEMMA ResumeDraftsInv == ASSUME BatchInv, ResumeDrafts PROVE BatchInv'
<1>1. /\ phase \in {"verify", "commit"}
      /\ UNCHANGED <<chunk, drafts, wiki, failures, lost, dropped>>
  BY DEF ResumeDrafts
<1>2. CASE drafts # {}
  <2>1. phase' = "verify" /\ StartJob("verify", {}, drafts, FALSE)
    BY <1>2 DEF ResumeDrafts
  <2>2. drafts \in SUBSET Draft
    BY DEF BatchInv, TypeOK
  <2>3. /\ job' \in Job /\ jobs' \in 0..MaxJobs
        /\ job'.at = "verify" /\ job'.mem = drafts
    BY <2>1, <2>2, StartJobTyped, {} \in SUBSET (Chunks \union Pages)
  <2> QED
    BY <1>1, <1>2, <2>1, <2>3
       DEF BatchInv, TypeOK, MapInv, WriteInv, VerifyInv, DraftsInv,
           PublishedWhole, Phases
<1>3. CASE drafts = {}
  <2>1. phase' = "refine" /\ StartJob("write", Pages, {}, FALSE)
    BY <1>3 DEF ResumeDrafts
  <2>2. /\ job' \in Job /\ jobs' \in 0..MaxJobs
        /\ job'.at = "write" /\ job'.todo = Pages /\ job'.mem = {}
    BY <2>1, StartJobTyped, {} \in SUBSET Draft,
       Pages \in SUBSET (Chunks \union Pages)
  <2> QED
    BY <1>1, <1>3, <2>1, <2>2
       DEF BatchInv, TypeOK, MapInv, WriteInv, VerifyInv, DraftsInv,
           PublishedWhole, Phases, PagesOf, Real
<1> QED
  BY <1>2, <1>3

\* What COMMIT publishes is what VERIFY had, but for the pages it drops.
LEMMA CommitInv == ASSUME BatchInv, Commit PROVE BatchInv'
<1>1. /\ phase' = "commit" /\ job' = Idle
      /\ UNCHANGED <<chunk, drafts, jobs, failures, lost>>
  BY DEF Commit
<1>0. PICK gone \in SUBSET PagesOf(job.mem) :
        /\ wiki' = wiki \union {d \in job.mem : d.page \notin gone}
        /\ dropped' = gone
  BY DEF Commit
<1>2. /\ phase = "verify" /\ Real(job.mem) = job.mem
      /\ Pages \ PagesOf(job.mem) \subseteq lost /\ job.mem \subseteq Draft
  BY DEF Commit, BatchInv, VerifyInv, TypeOK, Job
<1>3. Real(wiki') = wiki' /\ wiki' \subseteq Draft
  BY <1>0, <1>2 DEF BatchInv, TypeOK, PublishedWhole, Real
<1>4. PagesOf(job.mem) \subseteq PagesOf(wiki') \union dropped'
  BY <1>0 DEF PagesOf
<1>6. dropped' \subseteq Pages
  BY <1>0, <1>2 DEF PagesOf, Draft
<1>5. Idle \in Job /\ Idle.at = "idle"
  BY DEF Idle, Job
<1> QED
  BY <1>1, <1>2, <1>3, <1>4, <1>5, <1>6
     DEF BatchInv, TypeOK, MapInv, WriteInv, VerifyInv, DraftsInv,
         PublishedWhole, Phases

\* A job that dies leaves rows and drafts that the next one can resume from,
\* with whatever its remaining tasks still committed.
LEMMA FailInv == ASSUME BatchInv, Fail PROVE BatchInv'
<1>1. PICK late \in SUBSET (IF job.stale THEN {} ELSE InFlight) :
        /\ chunk' = IF job.at = "map"
                    THEN [c \in Chunks |-> IF c \in late THEN "done" ELSE chunk[c]]
                    ELSE chunk
        /\ IF job.at = "write"
           THEN \E s \in BOOLEAN :
                  drafts' = drafts \union {[page |-> p, stub |-> s] : p \in late}
           ELSE UNCHANGED drafts
  BY DEF Fail
<1>2. /\ job' = Idle /\ job'.at = "idle" /\ job' \in Job
      /\ UNCHANGED <<phase, wiki, jobs, failures, lost, dropped>>
  BY DEF Fail, Idle, Job
<1>3. chunk' \in [Chunks -> {"pending", "done", "error"}]
  BY <1>1 DEF BatchInv, TypeOK
<1>4. CASE job.at = "write"
  <2>1. PICK s \in BOOLEAN :
          drafts' = drafts \union {[page |-> p, stub |-> s] : p \in late}
    BY <1>1, <1>4
  <2>2. /\ phase = "refine" /\ late \subseteq Pages
        /\ \A e \in drafts : e.page \notin late
    BY <1>4, InFlightLeft DEF BatchInv, WriteInv, PagesOf
  <2>3. /\ drafts' \subseteq Draft
        /\ \A e, f \in drafts' : e.page = f.page => e = f
    BY <2>1, <2>2 DEF BatchInv, TypeOK, Draft
  <2> QED
    BY <1>2, <1>3, <2>2, <2>3
       DEF BatchInv, TypeOK, MapInv, WriteInv, VerifyInv, DraftsInv,
           PublishedWhole
<1>5. CASE job.at # "write"
  <2>1. UNCHANGED drafts
    BY <1>1, <1>5
  <2> QED
    BY <1>2, <1>3, <2>1
       DEF BatchInv, TypeOK, MapInv, WriteInv, VerifyInv, DraftsInv,
           PublishedWhole
<1> QED
  BY <1>4, <1>5

\* Every step keeps the invariant.
LEMMA StepInv == BatchInv /\ [Next]_vars => BatchInv'
<1> SUFFICES ASSUME BatchInv, [Next]_vars PROVE BatchInv'
  OBVIOUS
<1>1. CASE UNCHANGED vars
  BY <1>1 DEF vars, BatchInv, TypeOK, MapInv, WriteInv, VerifyInv, DraftsInv,
              PublishedWhole
<1>2. CASE Next
  BY <1>2, StartMapInv, ExtractInv, StartRetryRoundInv, StopInv,
     StartRefineInv, WritePageInv, FinishRefineInv, ResumeDraftsInv,
     CommitInv, FailInv DEF Next
<1> QED
  BY <1>1, <1>2

-----------------------------------------------------------------------------
(* No behaviour leaves BatchInv.                                             *)
THEOREM Inductive == Spec => []BatchInv
BY InitInv, StepInv, PTL DEF Spec

(* The rows of a source are typed and its plan never holds two drafts of one *)
(* page, though the writers of a dead job still commit theirs.               *)
THEOREM TypeCorrect == Spec => []TypeOK
<1>1. BatchInv => TypeOK
  BY DEF BatchInv
<1> QED
  BY <1>1, Inductive, PTL

(* Whatever breakers, crashes and retries came between, the wiki has no stub *)
(* and a source that reached 'commit' misses no page but those whose draft   *)
(* was lost and those that its last COMMIT passed over or failed to write.   *)
THEOREM PublishesWhole == Spec => []PublishedWhole
<1>1. BatchInv => PublishedWhole
  BY DEF BatchInv
<1> QED
  BY <1>1, Inductive, PTL

\* Only a row that is not done changes to error.
LEMMA DoneStays ==
    ASSUME BatchInv, Next, NEW c \in Chunks, chunk[c] = "done"
    PROVE  chunk'[c] = "done"
<1>1. CASE \E k \in Chunks : ExtractChunk(k) \/ RetryChunk(k)
  <2>1. PICK k \in Chunks : ExtractChunk(k) \/ RetryChunk(k)
    BY <1>1
  <2>2. chunk[k] # "done"
    BY <2>1, InFlightLeft DEF ExtractChunk, RetryChunk, BatchInv, MapInv
  <2> QED
    BY <2>1, <2>2 DEF ExtractChunk, RetryChunk, BatchInv, TypeOK
<1>2. CASE Fail
  BY <1>2 DEF Fail
<1>3. CASE UNCHANGED chunk
  BY <1>3
<1> QED
  BY <1>1, <1>2, <1>3
     DEF Next, StartMap, StartRetryRound, FinishMap, StartRefine, AbortBatch,
         FinishRefine, ResumeDrafts, Commit, WritePage

\* The plan loses stubs only.
LEMMA DraftsStay == ASSUME BatchInv, Next PROVE Real(drafts) \subseteq drafts'
<1>1. CASE StartRefine
  BY <1>1 DEF StartRefine, Real
<1>2. CASE \E p \in Pages : WritePage(p)
  BY <1>2 DEF WritePage, Real
<1>3. CASE Fail
  BY <1>3 DEF Fail, Real
<1>4. CASE UNCHANGED drafts
  BY <1>4 DEF Real
<1> QED
  BY <1>1, <1>2, <1>3, <1>4
     DEF Next, StartMap, ExtractChunk, RetryChunk, StartRetryRound, FinishMap,
         AbortBatch, FinishRefine, ResumeDrafts, Commit

(* A retry keeps every extracted chunk and every real draft, and writes no   *)
(* page again that has one.                                                  *)
THEOREM WorkKept == Spec => KeepsFinishedWork
<1> DEFINE Kept ==
      /\ \A c \in Chunks : chunk[c] = "done" => /\ chunk'[c] = "done"
                                                /\ job'.at = "map" => c \notin job'.todo
      /\ Real(drafts) \subseteq drafts'
      /\ job'.at = "write" => job'.todo \intersect PagesOf(Real(drafts')) = {}
<1>1. BatchInv /\ [Next]_vars => [Kept]_vars
  <2> SUFFICES ASSUME BatchInv, Next PROVE Kept
    OBVIOUS
  <2>1. BatchInv'
    BY StepInv
  <2> QED
    BY <2>1, DoneStays, DraftsStay DEF BatchInv, MapInv, WriteInv
<1>2. Spec => [][Kept]_vars
  BY <1>1, Inductive, PTL DEF Spec
<1> QED
  BY <1>2 DEF KeepsFinishedWork

-----------------------------------------------------------------------------
(* The breaker.                                                              *)

\* A tripped breaker leaves fewer writers than the job's width allows: each
\* stub of theirs adds one to the streak and takes one from them.
BreakerInv ==
    /\ job.width >= 1
    /\ job.tripped => job.at = "write"
    /\ IF job.tripped THEN job.streak + Cardinality(job.todo) < Threshold + job.width
       ELSE job.streak < Threshold

LEMMA TodoFinite == BatchInv => IsFiniteSet(job.todo) /\ Cardinality(job.todo) \in Nat
<1> SUFFICES ASSUME BatchInv PROVE IsFiniteSet(job.todo)
  BY FS_CardinalityType
<1>1. PICK n \in Nat : NumChunks <= n /\ NumPages <= n
  <2>1. NumChunks \in Nat /\ NumPages \in Nat
    BY BatchAssumption
  <2>2. CASE NumChunks <= NumPages
    BY <2>1, <2>2
  <2>3. CASE NumPages <= NumChunks
    BY <2>1, <2>3
  <2> QED
    BY <2>1, <2>2, <2>3
<1>2. job.todo \subseteq 1..n
  BY <1>1, BatchAssumption DEF BatchInv, TypeOK, Job, Chunks, Pages
<1>3. IsFiniteSet(1..n)
  BY <1>1, FS_Interval
<1> QED
  BY <1>2, <1>3, FS_Subset

\* The semaphore lets in at most its width: the number of items before it
\* tells any two of those let in apart.
LEMMA InFlightBound ==
    ASSUME BatchInv, job.width >= 1
    PROVE  IsFiniteSet(InFlight) /\ Cardinality(InFlight) <= job.width
<1> DEFINE Before(x) == {y \in job.todo : y < x}
           rank == [x \in InFlight |-> Cardinality(Before(x))]
<1>1. job.width \in Nat /\ job.todo \subseteq Int
  BY BatchAssumption DEF BatchInv, TypeOK, Job, Chunks, Pages
<1>2. ASSUME NEW x PROVE IsFiniteSet(Before(x)) /\ Cardinality(Before(x)) \in Nat
  BY TodoFinite, Before(x) \in SUBSET job.todo, FS_Subset, FS_CardinalityType
<1>3. ASSUME NEW x \in InFlight PROVE Cardinality(Before(x)) \in 0..(job.width - 1)
  <2>1. Cardinality(Before(x)) < job.width
    BY DEF InFlight
  <2>2. Cardinality(Before(x)) \in Nat
    BY <1>2
  <2> HIDE DEF Before
  <2> QED
    BY <2>1, <2>2, <1>1
<1>4. ASSUME NEW x \in InFlight, NEW z \in InFlight, x < z
      PROVE  rank[x] # rank[z]
  <2>1. Before(x) \in SUBSET Before(z)
    BY <1>1, <1>4, InFlightLeft
  <2>2. x \in Before(z) /\ x \notin Before(x)
    BY <1>1, <1>4, InFlightLeft
  <2>3. Cardinality(Before(x)) # Cardinality(Before(z))
    BY <2>1, <2>2, <1>2, FS_Subset
  <2> QED
    BY <2>3
<1>5. \A x, z \in InFlight : rank[x] = rank[z] => x = z
  <2> SUFFICES ASSUME NEW x \in InFlight, NEW z \in InFlight, rank[x] = rank[z]
               PROVE  x = z
    OBVIOUS
  <2>1. ~(x < z)
    BY <1>4
  <2>2. ~(z < x)
    BY <1>4
  <2>3. x \in Int /\ z \in Int
    BY <1>1, InFlightLeft
  <2> QED
    BY <2>1, <2>2, <2>3
<1>6. rank \in Injection(InFlight, 0..(job.width - 1))
  <2>1. rank \in [InFlight -> 0..(job.width - 1)]
    BY <1>3
  <2> HIDE DEF rank
  <2> QED
    BY <2>1, <1>5 DEF Injection, IsInjective
<1>7. /\ IsFiniteSet(0..(job.width - 1))
      /\ Cardinality(0..(job.width - 1)) = job.width
  <2>1. job.width - 1 \in Int /\ 0 \in Int /\ ~(0 > job.width - 1)
    BY <1>1
  <2>2. /\ IsFiniteSet(0..(job.width - 1))
        /\ Cardinality(0..(job.width - 1)) =
             IF 0 > job.width - 1 THEN 0 ELSE (job.width - 1) - 0 + 1
    BY <2>1, FS_Interval
  <2>3. (job.width - 1) - 0 + 1 = job.width
    BY <1>1
  <2> QED
    BY <2>1, <2>2, <2>3
<1> QED
  BY <1>6, <1>7, FS_Injection

\* A job starts with an untripped breaker.
LEMMA StartJobBreaker ==
    ASSUME NEW at, NEW todo, NEW mem, NEW stale, StartJob(at, todo, mem, stale)
    PROVE  BreakerInv'
<1>1. PICK w \in Widths :
        job' = [Idle EXCEPT !.at = at, !.width = w, !.todo = todo, !.mem = mem,
                            !.stale = stale]
  BY DEF StartJob
<1>2. job'.width >= 1 /\ job'.streak = 0 /\ job'.tripped = FALSE
  BY <1>1, BatchAssumption DEF Idle
<1> QED
  BY <1>2, BatchAssumption DEF BreakerInv

\* A writer's answer: the stub that trips the breaker leaves only the writers
\* under way, fewer than the width.
LEMMA WritePageBreaker ==
    ASSUME BatchInv, BreakerInv, NEW p \in Pages, WritePage(p)
    PROVE  BreakerInv'
<1>1. PICK s \in BOOLEAN :
        /\ job'.todo = LeftAfter(p, s) /\ job'.tripped = Trips(s)
        /\ job'.streak = IF s THEN job.streak + 1 ELSE 0
        /\ job'.width = job.width /\ job'.at = "write"
  BY DEF WritePage, BatchInv, TypeOK, Job
<1>2. /\ p \in InFlight /\ p \in job.todo
      /\ job.streak \in Nat /\ job.width \in Nat /\ Threshold \in Nat \ {0}
      /\ job.tripped \in BOOLEAN
  BY InFlightLeft, BatchAssumption DEF WritePage, BatchInv, TypeOK, Job
<1>3. /\ IsFiniteSet(InFlight) /\ Cardinality(InFlight) \in Nat
      /\ Cardinality(InFlight) <= job.width
  BY InFlightBound, FS_CardinalityType DEF BreakerInv
<1>4. CASE ~Trips(s)
  BY <1>1, <1>2, <1>4 DEF BreakerInv, Trips
<1>5. CASE Trips(s)
  <2>1. job'.todo = InFlight \ {p}
    BY <1>1, <1>5 DEF LeftAfter
  <2>2. Cardinality(job'.todo) = Cardinality(InFlight) - 1
    BY <2>1, <1>2, <1>3, FS_RemoveElement
  <2>3. Cardinality(InFlight) <= Cardinality(job.todo)
    BY InFlightLeft, TodoFinite, FS_Subset
  <2>4. Cardinality(job.todo) \in Nat
    BY TodoFinite
  <2>5. CASE job.tripped
    BY <1>1, <1>2, <1>3, <1>5, <2>2, <2>3, <2>4, <2>5 DEF BreakerInv
  <2>6. CASE ~job.tripped
    BY <1>1, <1>2, <1>3, <1>5, <2>2, <2>6 DEF BreakerInv, Trips
  <2> QED
    BY <2>5, <2>6, <1>2
<1> QED
  BY <1>4, <1>5

\* Every other step starts a job, ends it or leaves an untripped breaker.
LEMMA StepBreaker == BatchInv /\ BreakerInv /\ [Next]_vars => BreakerInv'
<1> SUFFICES ASSUME BatchInv, BreakerInv, [Next]_vars PROVE BreakerInv'
  OBVIOUS
<1>1. CASE UNCHANGED vars
  BY <1>1 DEF vars, BreakerInv
<1>2. CASE StartMap \/ StartRefine \/ ResumeDrafts
  BY <1>2, StartJobBreaker DEF StartMap, StartRefine, ResumeDrafts
<1>3. CASE \E p \in Pages : WritePage(p)
  BY <1>3, WritePageBreaker
<1>4. CASE job' = Idle
  BY <1>4, BatchAssumption DEF BreakerInv, Idle
<1>5. CASE StartRetryRound \/ FinishRefine \/ \E c \in Chunks : ExtractChunk(c) \/ RetryChunk(c)
  <2>1. /\ job'.width >= 1 /\ job'.streak = job.streak
        /\ ~job.tripped /\ ~job'.tripped
    <3>1. job \in Job /\ job.width >= 1 /\ (job.tripped => job.at = "write")
      BY DEF BatchInv, TypeOK, BreakerInv
    <3>2. CASE StartRetryRound
      BY <3>1, <3>2 DEF StartRetryRound, Job
    <3>3. CASE FinishRefine
      BY <3>1, <3>3 DEF FinishRefine, Complete, Job
    <3>4. CASE \E c \in Chunks : ExtractChunk(c) \/ RetryChunk(c)
      <4>1. PICK c \in Chunks : job' = [job EXCEPT !.todo = @ \ {c}]
        BY <3>4 DEF ExtractChunk, RetryChunk
      <4>2. job.at # "write"
        BY <3>4 DEF ExtractChunk, RetryChunk
      <4> QED
        BY <3>1, <4>1, <4>2 DEF Job
    <3> QED
      BY <1>5, <3>2, <3>3, <3>4
  <2> QED
    BY <2>1 DEF BreakerInv
<1> QED
  BY <1>1, <1>2, <1>3, <1>4, <1>5
     DEF Next, FinishMap, AbortBatch, Commit, Fail

(* Once the breaker tripped no writer starts, for any width and threshold:   *)
(* the stubs in a row are at most its threshold and those of the writers     *)
(* that were under way.                                                      *)
THEOREM BreakerHolds == Spec => []BreakerStops
<1>1. Init => BreakerInv
  BY BatchAssumption DEF Init, BreakerInv, Idle
<1>2. BatchInv /\ BreakerInv => BreakerStops
  <2> SUFFICES ASSUME BatchInv, BreakerInv PROVE BreakerStops
    OBVIOUS
  <2>1. /\ job.streak \in Nat /\ job.width \in Nat /\ Threshold \in Nat
        /\ Cardinality(job.todo) \in Nat /\ job.width >= 1
    BY BatchAssumption, TodoFinite DEF BatchInv, TypeOK, Job, BreakerInv
  <2> QED
    BY <2>1 DEF BreakerInv, BreakerStops
<1> QED
  BY <1>1, <1>2, StepBreaker, Inductive, PTL DEF Spec
=============================================================================
