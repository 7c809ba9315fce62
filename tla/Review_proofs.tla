---------------------------- MODULE Review_proofs ----------------------------
(* Review for every set of clients, pages, slugs and drafts and every bound: *)
(* its rows are typed, histories have no gap, an unforced approval lands on  *)
(* the version its draft was written against, an approved draft is on its    *)
(* page, and the pages implement PageHistory.  All follow from one inductive *)
(* invariant, ReviewInv; a request that only reads is one lemma, a request   *)
(* that commits has a lemma of its own.                                      *)
EXTENDS Review, Sequences, FiniteSetTheorems, TLAPS

Decisions == {"rejected", "needs_revision", "withdrawn", "pending"}
Ops == {"idle", "propose", "approve", "write", "create", "delete"} \union Decisions
StagedRows == [page : Pages, slug : Slugs \union {None}, draft : Drafts,
               rev : RevisionRows]
Requests == [op : Ops, draft : Drafts \union {None}, page : Pages \union {None},
             slug : Slugs \union {None}, version : 0..MaxVersion,
             text : Texts \union {None}, same : BOOLEAN, force : BOOLEAN,
             todo : SUBSET (Drafts \union Pages), staged : SUBSET StagedRows]

PageRows == [alive : BOOLEAN, slug : Slugs \union {None}, version : 0..MaxVersion,
             text : Texts \union {None}, scrubbed : BOOLEAN]
DraftRows == [status : Open \union Terminal \union {"none"},
              kind : {"edit", "create"}, page : Pages \union {None},
              slug : Slugs \union {None}, base : 0..MaxVersion]

Typed == /\ pages \in [Pages -> PageRows]
         /\ drafts \in [Drafts -> DraftRows]
         /\ lock \in [Slugs -> Clients \union {None}]
         /\ revs \in [Pages -> SUBSET RevisionRows]
         /\ tx \in [Clients -> Requests]

\* What a request read at its start and still knows at its end.  A version it
\* read is no larger than the page's, unless the page is gone by now; a text that
\* it leaves out is the page's, or was scrubbed, while no newer version came; a
\* draft it will insert, or a page it will create, does not exist yet.
RequestOK(t) ==
    /\ t.op = "propose" =>
         /\ t.draft \in Drafts /\ drafts[t.draft].status = "none"
         /\ t.page # None /\ pages[t.page].alive => t.version <= pages[t.page].version
    /\ t.op = "write" =>
         /\ t.page \in Pages /\ t.version > 0
         /\ t.text \in Texts /\ (pages[t.page].alive => t.version <= pages[t.page].version + 1)
         /\ t.same /\ pages[t.page].alive /\ t.version = pages[t.page].version + 1
              => pages[t.page].scrubbed \/ pages[t.page].text = t.text
    /\ t.op = "create" => t.page \in Pages /\ ~pages[t.page].alive
    /\ t.op = "delete" => t.page \in Pages /\ t.todo \subseteq Pages \ {t.page}
    /\ t.op = "approve" => t.todo \subseteq Drafts
    /\ t.op \in Decisions => t.draft \in Drafts

\* Staged rows: their page is there, their draft is of that page, and an
\* unforced one has the version after its draft's.
StagedOK(t) ==
    /\ t.staged # {} => t.op = "approve"
    /\ \A w \in t.staged :
         /\ pages[w.page].alive
         /\ drafts[w.draft].page = w.page /\ drafts[w.draft].status # "none"
         /\ w.rev.draft = w.draft
         /\ ~w.rev.force => w.rev.version = drafts[w.draft].base + 1

\* The staged rows of a page continue its numbering.
On(t, p) == {w \in t.staged : w.page = p}
NumberedOn(t, p, v) ==
    /\ {w.rev.version : w \in On(t, p)} = (v + 1)..(v + Cardinality(On(t, p)))
    /\ \A w, u \in On(t, p) : w.rev.version = u.rev.version => w = u
Numbered(t) == IsFiniteSet(t.staged) /\ \A p \in Pages : NumberedOn(t, p, pages[p].version)

\* Two requests never create the same page, insert the same draft, or have
\* flushed rows of one page or one draft.
ApartRequests(t, u) ==
    /\ t.op = "create" => u.page # t.page
    /\ u.op = "create" => u.page # t.page
    /\ t.op = "propose" /\ u.op = "propose" => t.draft # u.draft
    /\ \A w \in t.staged, x \in u.staged : w.page # x.page /\ w.draft # x.draft
Apart == \A c, e \in Clients : c # e => ApartRequests(tx[c], tx[e])

RequestsInv == \A c \in Clients : RequestOK(tx[c]) /\ StagedOK(tx[c]) /\ Numbered(tx[c])

\* A draft of a page was written against a version the page has had, and
\* goes with the page.
DraftsInv == \A d \in Drafts :
    /\ drafts[d].status = "none" => drafts[d].page = None
    /\ drafts[d].page # None => /\ pages[drafts[d].page].alive
                                /\ drafts[d].base <= pages[drafts[d].page].version

\* A page that is not there has no rows, and a revision made from a draft is
\* of the page that draft is for.
RevsInv == \A p \in Pages :
    /\ ~pages[p].alive => revs[p] = {} /\ pages[p].version = 0
    /\ \A r \in revs[p] : r.draft # None => drafts[r.draft].page = p

ReviewInv == /\ Typed /\ RequestsInv /\ Apart /\ DraftsInv /\ RevsInv
             /\ HistoryComplete /\ ConflictsAreSeen /\ ApprovedIsOnThePage

-----------------------------------------------------------------------------
\* A page and a slot of a typed state.
LEMMA Shapes ==
    ASSUME Typed
    PROVE  /\ \A p \in Pages : /\ pages[p].version \in 0..MaxVersion
                               /\ pages[p].alive \in BOOLEAN
                               /\ revs[p] \subseteq RevisionRows
           /\ \A c \in Clients : tx[c] \in Requests
           /\ \A d \in Drafts : /\ drafts[d].base \in 0..MaxVersion
                                /\ drafts[d].page \in Pages \union {None}
           /\ MaxVersion \in Nat
BY BoundsAssumption DEF Typed, PageRows, DraftRows

\* No staged row, nothing to number.
LEMMA NothingStaged ==
    ASSUME Typed, NEW t, t.staged = {}
    PROVE  StagedOK(t) /\ Numbered(t)
<1>1. StagedOK(t)
  BY DEF StagedOK
<1>2. IsFiniteSet({}) /\ Cardinality({}) = 0
  BY FS_EmptySet
<1>3. ASSUME NEW p \in Pages PROVE NumberedOn(t, p, pages[p].version)
  <2>1. On(t, p) = {}
    BY DEF On
  <2>2. pages[p].version \in Int
    BY Shapes
  <2>3. (pages[p].version + 1)..(pages[p].version + 0) = {}
    BY <2>2
  <2> QED
    BY <1>2, <2>1, <2>3 DEF NumberedOn
<1> QED
  BY <1>1, <1>2, <1>3 DEF Numbered

\* A client slot with no request is as good as none.
LEMMA IdleOK ==
    ASSUME Typed
    PROVE  /\ Idle \in Requests /\ Idle.staged = {} /\ Idle.op = "idle"
           /\ Idle.page = None /\ RequestOK(Idle) /\ StagedOK(Idle) /\ Numbered(Idle)
<1>1. Idle \in Requests
  BY BoundsAssumption DEF Idle, Requests, Ops, Texts
<1>2. /\ RequestOK(Idle) /\ Idle.staged = {} /\ Idle.op = "idle"
      /\ Idle.page = None
  BY DEF RequestOK, Idle, Decisions
<1> QED
  BY <1>1, <1>2, NothingStaged

\* A step that changes one slot only: the new request must be sound, apart
\* from the others, and have staged what it had, or nothing.
LEMMA SlotStep ==
    ASSUME ReviewInv, NEW c \in Clients, NEW t \in Requests,
           tx' = [tx EXCEPT ![c] = t],
           lock' \in [Slugs -> Clients \union {None}],
           UNCHANGED <<pages, revs, drafts>>,
           RequestOK(t), StagedOK(t), Numbered(t),
           \A e \in Clients \ {c} : ApartRequests(t, tx[e])
    PROVE  ReviewInv'
<1> USE DEF ReviewInv
<1>1. Typed' /\ \A e \in Clients : tx'[e] = IF e = c THEN t ELSE tx[e]
  BY DEF Typed, PageRows, DraftRows
<1>2. RequestsInv'
  <2> SUFFICES ASSUME NEW e \in Clients
               PROVE  (RequestOK(tx[e]) /\ StagedOK(tx[e]) /\ Numbered(tx[e]))'
    BY DEF RequestsInv
  <2> DEFINE u == IF e = c THEN t ELSE tx[e]
  <2>1. RequestOK(u) /\ StagedOK(u) /\ Numbered(u)
    BY DEF RequestsInv
  <2>2. tx'[e] = u
    BY <1>1
  <2> HIDE DEF u
  <2>3. RequestOK(tx[e])'
    BY <2>1, <2>2 DEF RequestOK
  <2>4. StagedOK(tx[e])'
    BY <2>1, <2>2 DEF StagedOK
  <2>5. Numbered(tx[e])'
    BY <2>1, <2>2 DEF Numbered, NumberedOn, On
  <2> QED
    BY <2>3, <2>4, <2>5
<1>3. Apart'
  <2> SUFFICES ASSUME NEW e \in Clients, NEW f \in Clients, e # f
               PROVE  ApartRequests(tx[e], tx[f])'
    BY DEF Apart
  <2> QED
    BY <1>1 DEF Apart, ApartRequests
<1>4. DraftsInv' /\ RevsInv' /\ HistoryComplete' /\ ConflictsAreSeen' /\ ApprovedIsOnThePage'
  BY DEF DraftsInv, RevsInv, HistoryComplete, Live, Unique, ConflictsAreSeen, ApprovedIsOnThePage
<1> QED
  BY <1>1, <1>2, <1>3, <1>4

\* A request that begins: it has staged nothing.
LEMMA BeginStep ==
    ASSUME ReviewInv, NEW c \in Clients, NEW t \in Requests, Begin(c, t),
           UNCHANGED <<pages, revs, drafts, lock>>,
           t.staged = {}, RequestOK(t),
           \A e \in Clients \ {c} : ApartRequests(t, tx[e])
    PROVE  ReviewInv'
<1>1. tx' = [tx EXCEPT ![c] = t] /\ Typed /\ lock' \in [Slugs -> Clients \union {None}]
  BY DEF Begin, ReviewInv, Typed, PageRows, DraftRows
<1>2. StagedOK(t) /\ Numbered(t)
  BY <1>1, NothingStaged
<1> QED
  BY <1>1, <1>2, SlotStep

-----------------------------------------------------------------------------
\* A request on a page that is there does not meet one that creates a page.
LEMMA LiveApart ==
    ASSUME ReviewInv, NEW t, t.staged = {}, t.op # "create",
           t.page = None \/ (t.page \in Pages /\ pages[t.page].alive),
           NEW e \in Clients,
           t.op = "propose" /\ tx[e].op = "propose" => t.draft # tx[e].draft
    PROVE  ApartRequests(t, tx[e])
<1>1. RequestOK(tx[e])
  BY DEF ReviewInv, RequestsInv
<1>2. tx[e].op = "create" => tx[e].page # t.page
  BY <1>1, NoneAssumption DEF RequestOK
<1> QED
  BY <1>2 DEF ApartRequests

\* A draft of a page that is there is proposed against a version it has had.
LEMMA ProposeEditInv ==
    ASSUME ReviewInv, NEW c \in Clients, NEW d \in Drafts, NEW p \in Pages,
           NEW b \in 1..(MaxVersion + 1), ProposeEdit(c, d, p, b)
    PROVE  ReviewInv'
<1> DEFINE t == [Idle EXCEPT !.op = "propose", !.draft = d, !.page = p, !.version = b]
<1>0. Idle \in Requests /\ Idle.staged = {} /\ Idle.page = None
  BY IdleOK DEF ReviewInv
<1>1. /\ pages[p].alive /\ b <= pages[p].version /\ pages[p].version \in 0..MaxVersion
      /\ drafts[d].status = "none" /\ \A e \in Clients : tx[e].draft # d
      /\ MaxVersion \in Nat
  BY Shapes DEF ProposeEdit, Unused, Live, ReviewInv
<1>v. b \in 0..MaxVersion
  BY <1>1
<1>2. /\ t.op = "propose" /\ t.draft = d /\ t.page = p /\ t.version = b
      /\ t.staged = {} /\ t \in Requests
  BY <1>v, <1>0 DEF Requests, Ops
<1>3. Begin(c, t) /\ UNCHANGED <<pages, revs, drafts, lock>>
  BY DEF ProposeEdit
<1> HIDE DEF t
<1>4. RequestOK(t)
  BY <1>1, <1>2 DEF RequestOK, Decisions
<1>5. \A e \in Clients : ApartRequests(t, tx[e])
  BY <1>1, <1>2, LiveApart
<1> QED
  BY <1>2, <1>3, <1>4, <1>5, BeginStep

\* So is a new page, against nothing.
LEMMA ProposeCreateInv ==
    ASSUME ReviewInv, NEW c \in Clients, NEW d \in Drafts, NEW s \in Slugs,
           ProposeCreate(c, d, s)
    PROVE  ReviewInv'
<1> DEFINE t == [Idle EXCEPT !.op = "propose", !.draft = d, !.slug = s]
<1>0. Idle \in Requests /\ Idle.staged = {} /\ Idle.page = None
  BY IdleOK DEF ReviewInv
<1>1. /\ drafts[d].status = "none" /\ \A e \in Clients : tx[e].draft # d
      /\ MaxVersion \in Nat
  BY Shapes DEF ProposeCreate, Unused, ReviewInv
<1>2. /\ t.op = "propose" /\ t.draft = d /\ t.page = None
      /\ t.staged = {} /\ t \in Requests
  BY <1>1, <1>0 DEF Requests, Ops
<1>3. Begin(c, t) /\ UNCHANGED <<pages, revs, drafts, lock>>
  BY DEF ProposeCreate
<1> HIDE DEF t
<1>4. RequestOK(t)
  BY <1>1, <1>2 DEF RequestOK, Decisions
<1>5. \A e \in Clients : ApartRequests(t, tx[e])
  BY <1>1, <1>2, LiveApart
<1> QED
  BY <1>2, <1>3, <1>4, <1>5, BeginStep

\* A decision names a draft and nothing else.
LEMMA AskInv ==
    ASSUME ReviewInv, NEW c \in Clients, NEW d \in Drafts, NEW op \in Decisions,
           NEW from, Ask(c, op, d, from)
    PROVE  ReviewInv'
<1> DEFINE t == [Idle EXCEPT !.op = op, !.draft = d]
<1>0. Idle \in Requests /\ Idle.staged = {} /\ Idle.page = None
  BY IdleOK DEF ReviewInv
<1>1. MaxVersion \in Nat
  BY BoundsAssumption
<1>2. /\ t.op = op /\ t.draft = d /\ t.page = None
      /\ t.staged = {} /\ t \in Requests
  BY <1>1, <1>0 DEF Requests, Ops
<1>3. Begin(c, t) /\ UNCHANGED <<pages, revs, drafts, lock>>
  BY DEF Ask
<1> HIDE DEF t
<1>4. RequestOK(t)
  BY <1>2 DEF RequestOK, Decisions
<1>5. \A e \in Clients : ApartRequests(t, tx[e])
  BY <1>2, LiveApart DEF Decisions
<1> QED
  BY <1>2, <1>3, <1>4, <1>5, BeginStep

\* The four decisions of the endpoints and of the tools.
LEMMA DecisionInv ==
    ASSUME ReviewInv, NEW c \in Clients, NEW d \in Drafts,
           \/ RejectDraft(c, d) \/ RequestChanges(c, d)
           \/ WithdrawDraft(c, d) \/ ResubmitDraft(c, d)
    PROVE  ReviewInv'
<1>1. PICK op \in Decisions : \E from : Ask(c, op, d, from)
  BY DEF RejectDraft, RequestChanges, WithdrawDraft, ResubmitDraft, Decisions
<1> QED
  BY <1>1, AskInv

\* An approval starts with nothing staged.
LEMMA ApproveInv ==
    ASSUME ReviewInv, NEW c \in Clients, NEW ds \in SUBSET Drafts,
           NEW force \in BOOLEAN, Approve(c, ds, force)
    PROVE  ReviewInv'
<1> DEFINE t == [Idle EXCEPT !.op = "approve", !.todo = ds, !.force = force]
<1>0. Idle \in Requests /\ Idle.staged = {} /\ Idle.page = None
  BY IdleOK DEF ReviewInv
<1>1. MaxVersion \in Nat
  BY BoundsAssumption
<1>2. /\ t.op = "approve" /\ t.todo = ds /\ t.page = None
      /\ t.staged = {} /\ t \in Requests
  BY <1>1, <1>0 DEF Requests, Ops
<1>3. Begin(c, t) /\ UNCHANGED <<pages, revs, drafts, lock>>
  BY DEF Approve
<1> HIDE DEF t
<1>4. RequestOK(t)
  BY <1>2 DEF RequestOK, Decisions
<1>5. \A e \in Clients : ApartRequests(t, tx[e])
  BY <1>2, LiveApart
<1> QED
  BY <1>2, <1>3, <1>4, <1>5, BeginStep

\* A write aims at the version after the one it reads.
LEMMA WriteInv ==
    ASSUME ReviewInv, NEW c \in Clients, NEW p \in Pages, NEW txt \in Texts,
           Write(c, p, txt)
    PROVE  ReviewInv'
<1>s. PICK same \in Same(p, txt) :
        Begin(c, [Idle EXCEPT !.op = "write", !.page = p, !.text = txt, !.same = same,
                              !.version = pages[p].version + 1])
  BY DEF Write
<1>b. same \in BOOLEAN /\ (same => pages[p].scrubbed \/ pages[p].text = txt)
  BY <1>s DEF Same
<1> DEFINE t == [Idle EXCEPT !.op = "write", !.page = p, !.text = txt, !.same = same,
                             !.version = pages[p].version + 1]
<1>0. Idle \in Requests /\ Idle.staged = {} /\ Idle.page = None
  BY IdleOK DEF ReviewInv
<1>1. /\ pages[p].alive /\ pages[p].version \in 0..MaxVersion
      /\ pages[p].version < MaxVersion /\ MaxVersion \in Nat
  BY Shapes DEF Write, Live, ReviewInv
<1>v. pages[p].version + 1 \in 0..MaxVersion
  BY <1>1
<1>2. /\ t.op = "write" /\ t.page = p /\ t.version = pages[p].version + 1
      /\ t.text = txt /\ t.same = same /\ t.staged = {} /\ t \in Requests
  BY <1>v, <1>0, <1>b DEF Requests, Ops
<1>3. Begin(c, t) /\ UNCHANGED <<pages, revs, drafts, lock>>
  BY <1>s DEF Write
<1> HIDE DEF t
<1>4. RequestOK(t)
  BY <1>1, <1>2, <1>b DEF RequestOK, Decisions
<1>5. \A e \in Clients : ApartRequests(t, tx[e])
  BY <1>1, <1>2, LiveApart
<1> QED
  BY <1>2, <1>3, <1>4, <1>5, BeginStep

\* An edit, a compilation's update and a rollback are writes.
LEMMA AnyWriteInv ==
    ASSUME ReviewInv, NEW c \in Clients, NEW p \in Pages,
           \/ DirectEdit(c, p) \/ ApplyUpdate(c, p)
           \/ \E v \in 1..MaxVersion : RollbackToRevision(c, p, v)
    PROVE  ReviewInv'
<1>1. /\ \A r \in revs[p] : r.text \in Texts
      /\ pages[p].text \in Texts \union {None}
  BY Shapes DEF ReviewInv, RevisionRows, Typed, PageRows
<1>2. PICK txt \in Texts : Write(c, p, txt)
  BY <1>1 DEF DirectEdit, ApplyUpdate, RollbackToRevision, Texts
<1> QED
  BY <1>2, WriteInv

\* A page id that is free when a creation starts is not in another request.
LEMMA ApplyCreateInv ==
    ASSUME ReviewInv, NEW c \in Clients, NEW p \in Pages, NEW s \in Slugs,
           ApplyCreate(c, p, s)
    PROVE  ReviewInv'
<1> DEFINE t == [Idle EXCEPT !.op = "create", !.page = p, !.slug = s]
<1>0. Idle \in Requests /\ Idle.staged = {} /\ Idle.page = None
  BY IdleOK DEF ReviewInv
<1>1. ~pages[p].alive /\ (\A e \in Clients : tx[e].page # p) /\ MaxVersion \in Nat
  BY BoundsAssumption DEF ApplyCreate, Fresh
<1>2. t.op = "create" /\ t.page = p /\ t.staged = {} /\ t \in Requests
  BY <1>1, <1>0 DEF Requests, Ops
<1>3. Begin(c, t) /\ UNCHANGED <<pages, revs, drafts, lock>>
  BY DEF ApplyCreate
<1> HIDE DEF t
<1>4. RequestOK(t)
  BY <1>1, <1>2 DEF RequestOK, Decisions
<1>5. \A e \in Clients : ApartRequests(t, tx[e])
  BY <1>1, <1>2 DEF ApartRequests
<1> QED
  BY <1>2, <1>3, <1>4, <1>5, BeginStep

\* A deletion knows its page and the pages whose links it rewrites.
LEMMA DeletePageInv ==
    ASSUME ReviewInv, NEW c \in Clients, NEW p \in Pages,
           NEW q \in Pages \union {None}, DeletePage(c, p, q)
    PROVE  ReviewInv'
<1> DEFINE t == [Idle EXCEPT !.op = "delete", !.page = p, !.todo = {q} \ {None},
                             !.text = IF q = None THEN None ELSE pages[q].text]
<1>0. Idle \in Requests /\ Idle.staged = {} /\ Idle.page = None
  BY IdleOK DEF ReviewInv
<1>1. pages[p].alive /\ q # p /\ MaxVersion \in Nat
  BY BoundsAssumption, NoneAssumption DEF DeletePage, Live
<1>2. q # None => pages[q].text \in Texts \union {None}
  BY DEF ReviewInv, Typed, PageRows, DraftRows
<1>3. /\ t.op = "delete" /\ t.page = p /\ t.todo = {q} \ {None}
      /\ t.staged = {} /\ t \in Requests
  BY <1>1, <1>2, <1>0 DEF Requests, Ops
<1>4. Begin(c, t) /\ UNCHANGED <<pages, revs, drafts, lock>>
  BY DEF DeletePage
<1> HIDE DEF t
<1>5. RequestOK(t)
  BY <1>1, <1>3 DEF RequestOK, Decisions
<1>6. \A e \in Clients : ApartRequests(t, tx[e])
  BY <1>1, <1>3, LiveApart
<1> QED
  BY <1>3, <1>4, <1>5, <1>6, BeginStep

-----------------------------------------------------------------------------
\* A request that is given up leaves nothing.
LEMMA AbortInv == ASSUME ReviewInv, NEW c \in Clients, Abort(c) PROVE ReviewInv'
<1>1. /\ Idle \in Requests /\ Idle.staged = {} /\ Idle.op = "idle" /\ Idle.page = None
      /\ RequestOK(Idle) /\ StagedOK(Idle) /\ Numbered(Idle)
  BY IdleOK DEF ReviewInv
<1>2. /\ tx' = [tx EXCEPT ![c] = Idle] /\ UNCHANGED <<pages, revs, drafts>>
      /\ lock' \in [Slugs -> Clients \union {None}]
  BY DEF Abort, End, Release, ReviewInv, Typed, PageRows, DraftRows
<1>3. \A e \in Clients : ApartRequests(Idle, tx[e])
  BY <1>1, LiveApart
<1> QED
  BY <1>1, <1>2, <1>3, SlotStep

\* An approval that goes on with what it has staged.
LEMMA ApprovalGoesOn ==
    ASSUME ReviewInv, NEW c \in Clients, tx[c].op = "approve",
           NEW d \in Drafts \union {None}, NEW todo \in SUBSET tx[c].todo,
           tx' = [tx EXCEPT ![c].draft = d, ![c].todo = todo],
           lock' \in [Slugs -> Clients \union {None}],
           UNCHANGED <<pages, revs, drafts>>
    PROVE  ReviewInv'
<1> DEFINE t == [tx[c] EXCEPT !.draft = d, !.todo = todo]
<1>1. /\ tx[c] \in Requests /\ RequestOK(tx[c]) /\ StagedOK(tx[c])
      /\ Numbered(tx[c]) /\ tx \in [Clients -> Requests]
  BY DEF ReviewInv, RequestsInv, Typed
<1>2. /\ t \in Requests /\ t.op = "approve" /\ t.page = tx[c].page
      /\ t.staged = tx[c].staged /\ t.todo \subseteq Drafts
  BY <1>1 DEF Requests, RequestOK
<1>3. tx' = [tx EXCEPT ![c] = t]
  BY <1>1
<1> HIDE DEF t
<1>4. RequestOK(t) /\ StagedOK(t) /\ Numbered(t)
  <2>1. \A p \in Pages : On(t, p) = On(tx[c], p)
    BY <1>2 DEF On
  <2> QED
    BY <1>1, <1>2, <2>1 DEF RequestOK, Decisions, StagedOK, Numbered, NumberedOn
<1>5. \A e \in Clients \ {c} : ApartRequests(t, tx[e])
  BY <1>2 DEF ReviewInv, Apart, ApartRequests
<1> QED
  BY <1>2, <1>3, <1>4, <1>5, SlotStep

\* It picks a draft, passes over one, or drops the one it picked.
LEMMA ChooseInv ==
    ASSUME ReviewInv, NEW c \in Clients, NEW d \in Drafts,
           PickDraft(c, d) \/ SkipDraft(c, d)
    PROVE  ReviewInv'
<1>1. tx \in [Clients -> Requests] /\ lock' \in [Slugs -> Clients \union {None}]
  BY DEF ReviewInv, Typed, PageRows, DraftRows, PickDraft, SkipDraft
<1>2. /\ tx[c].op = "approve" /\ tx[c].draft = None
      /\ UNCHANGED <<pages, revs, drafts>>
  BY DEF PickDraft, SkipDraft
<1>3. PICK e \in {d, None} : tx' = [tx EXCEPT ![c].draft = e, ![c].todo = @ \ {d}]
  <2>1. [tx EXCEPT ![c].todo = @ \ {d}] =
          [tx EXCEPT ![c].draft = None, ![c].todo = @ \ {d}]
    BY <1>1, <1>2 DEF Requests
  <2> QED
    BY <2>1 DEF PickDraft, SkipDraft
<1>4. tx' = [tx EXCEPT ![c].draft = e, ![c].todo = tx[c].todo \ {d}]
  BY <1>1, <1>3
<1>5. e \in Drafts \union {None} /\ tx[c].todo \ {d} \in SUBSET tx[c].todo
  OBVIOUS
<1> QED
  BY <1>1, <1>2, <1>4, <1>5, ApprovalGoesOn

\* A refused item leaves what is staged: the savepoint.
LEMMA RefuseApprovalInv ==
    ASSUME ReviewInv, NEW c \in Clients, RefuseApproval(c) PROVE ReviewInv'
<1>1. tx \in [Clients -> Requests] /\ lock' \in [Slugs -> Clients \union {None}]
  BY DEF ReviewInv, Typed, PageRows, DraftRows, RefuseApproval
<1>2. /\ tx[c].op = "approve" /\ UNCHANGED <<pages, revs, drafts>>
      /\ tx' = [tx EXCEPT ![c].draft = None]
  BY DEF RefuseApproval
<1>3. tx' = [tx EXCEPT ![c].draft = None, ![c].todo = tx[c].todo]
  BY <1>1, <1>2 DEF Requests
<1> QED
  BY <1>1, <1>2, <1>3, ApprovalGoesOn

-----------------------------------------------------------------------------
\* The two revisions a create draft would flush have one number: the index
\* refuses them, so every draft that is staged is an edit.
LEMMA StagedIsEdit ==
    ASSUME ReviewInv, NEW c \in Clients, NEW p \in Pages, StageApproval(c, p)
    PROVE  drafts[tx[c].draft].kind = "edit" /\ tx[c].draft \in Drafts
<1> DEFINE d == tx[c].draft
<1>1. d \in Drafts /\ d # None
  BY DEF StageApproval, ReviewInv, Typed, Requests
<1>2. drafts[d].kind \in {"edit", "create"}
  BY <1>1 DEF ReviewInv, Typed, PageRows, DraftRows
<1>3. ASSUME drafts[d].kind = "create" PROVE FALSE
  <2> DEFINE r1 == Revision(1, d, None, FALSE)
             r2 == Revision(1, d, d, tx[c].force)
             w1 == [page |-> p, slug |-> drafts[d].slug, draft |-> d, rev |-> r1]
             w2 == [page |-> p, slug |-> drafts[d].slug, draft |-> d, rev |-> r2]
  <2>1. \E v : Unique({w.rev : w \in Flush(c, d, p, v)})
    BY DEF StageApproval, Accepts
  <2>2. \A v : Flush(c, d, p, v) = {w1, w2}
    BY <1>3 DEF Flush
  <2>3. w1.rev = r1 /\ w2.rev = r2
    OBVIOUS
  <2> HIDE DEF w1, w2
  <2>4. r1 \in {w.rev : w \in {w1, w2}} /\ r2 \in {w.rev : w \in {w1, w2}}
    BY <2>3
  <2>5. r1.version = r2.version /\ r1.draft # r2.draft
    BY <1>1 DEF Revision
  <2> QED
    BY <2>1, <2>2, <2>4, <2>5 DEF Unique
<1> QED
  BY <1>1, <1>2, <1>3

\* What a request adds to the staged rows of a page.
LEMMA StagedOneMore ==
    ASSUME NEW t, NEW u, NEW w, NEW p, NEW v \in Nat, IsFiniteSet(t.staged),
           u.staged = t.staged \union {w}, w.page = p, NumberedOn(t, p, v),
           w.rev.version = v + Cardinality(On(t, p)) + 1
    PROVE  IsFiniteSet(u.staged) /\ NumberedOn(u, p, v)
<1> DEFINE n == Cardinality(On(t, p))
<1>1. IsFiniteSet(On(t, p)) /\ n \in Nat
  BY FS_Subset, FS_CardinalityType DEF On
<1>2. On(u, p) = On(t, p) \union {w}
  BY DEF On
<1> HIDE DEF n
<1>3. ASSUME NEW x \in On(t, p) PROVE x.rev.version \in (v + 1)..(v + n)
  BY DEF n, NumberedOn
<1>4. w.rev.version = v + n + 1
  BY DEF n
<1>5. \A x \in On(t, p) : x.rev.version # w.rev.version
  BY <1>1, <1>3, <1>4
<1>6. Cardinality(On(u, p)) = n + 1
  BY <1>1, <1>2, <1>5, FS_AddElement DEF n
<1>7. {x.rev.version : x \in On(u, p)} = ((v + 1)..(v + n)) \union {v + n + 1}
  BY <1>2, <1>4 DEF n, NumberedOn
<1>8. ((v + 1)..(v + n)) \union {v + n + 1} = (v + 1)..(v + (n + 1))
  BY <1>1
<1>9. IsFiniteSet(u.staged)
  BY FS_AddElement
<1> QED
  BY <1>2, <1>5, <1>6, <1>7, <1>8, <1>9 DEF NumberedOn

\* An edit that is staged takes the next number of its page; nobody else has
\* flushed a row of that page or of that draft.
LEMMA StageApprovalInv ==
    ASSUME ReviewInv, NEW c \in Clients, NEW p \in Pages, StageApproval(c, p)
    PROVE  ReviewInv'
<1> DEFINE d == tx[c].draft
           n == Cardinality(On(tx[c], p))
           v == pages[p].version
           w == [page |-> p, slug |-> pages[p].slug, draft |-> d,
                 rev |-> Revision(v + n + 1, d, d, tx[c].force)]
           t == [tx[c] EXCEPT !.draft = None, !.staged = @ \union {w}]
<1>1. /\ d \in Drafts /\ d # None /\ drafts[d].kind = "edit" /\ drafts[d].status # "none"
      /\ tx[c].op = "approve" /\ p = drafts[d].page /\ pages[p].alive
      /\ v + n < MaxVersion /\ ~Conflicts(c, d, v + n)
      /\ PageFree(c, p) /\ DraftFree(c, d)
  BY StagedIsEdit DEF StageApproval, Stageable, Own, On
<1>2. /\ tx[c] \in Requests /\ RequestOK(tx[c]) /\ StagedOK(tx[c]) /\ Numbered(tx[c])
      /\ tx \in [Clients -> Requests] /\ tx[c].force \in BOOLEAN
      /\ pages[p].slug \in Slugs \union {None}
  BY DEF ReviewInv, RequestsInv, Typed, PageRows, DraftRows, Requests
<1>3. v \in Nat /\ MaxVersion \in Nat /\ drafts[d].base \in Nat
  BY <1>1, Shapes DEF ReviewInv
<1>4. IsFiniteSet(tx[c].staged) /\ IsFiniteSet(On(tx[c], p)) /\ n \in Nat
  BY <1>2, FS_Subset, FS_CardinalityType DEF On, Numbered
<1>5. tx[c].force \/ drafts[d].base = v + n
  <2>1. p # None /\ drafts[d].base <= v
    BY <1>1, NoneAssumption DEF ReviewInv, DraftsInv
  <2>2. tx[c].force \/ ~(drafts[d].base < v + n)
    BY <1>1 DEF Conflicts
  <2> QED
    BY <1>3, <1>4, <2>1, <2>2
<1>6. Revision(v + n + 1, d, d, tx[c].force) \in RevisionRows
  <2>1. v + n + 1 \in 1..MaxVersion
    BY <1>1, <1>3, <1>4
  <2> QED
    BY <1>1, <1>2, <2>1 DEF RevisionRows, Revision, Texts
<1>7. /\ w \in StagedRows /\ w.page = p /\ w.draft = d /\ w.rev.draft = d
      /\ w.rev.version = v + n + 1 /\ w.rev.force = tx[c].force
  BY <1>1, <1>2, <1>6 DEF StagedRows, Revision
<1>8. tx' = [tx EXCEPT ![c] = t] /\ UNCHANGED <<pages, revs, drafts>>
  <2>1. Flush(c, d, p, v + n + 1) = {w}
    BY <1>1 DEF Flush
  <2>2. tx' = [tx EXCEPT ![c].draft = None,
                         ![c].staged = @ \union Flush(c, d, p, v + n + 1)]
    BY DEF StageApproval, Own, On
  <2> QED
    BY <1>2, <2>1, <2>2 DEF StageApproval
<1>9. lock' \in [Slugs -> Clients \union {None}]
  BY DEF StageApproval, ReviewInv, Typed, PageRows, DraftRows
<1>10. /\ t \in Requests /\ t.op = "approve" /\ t.page = tx[c].page
       /\ t.staged = tx[c].staged \union {w} /\ t.todo \subseteq Drafts
  BY <1>1, <1>2, <1>7 DEF Requests, RequestOK
<1> HIDE DEF t, w, n, v
<1>11. RequestOK(t)
  BY <1>10 DEF RequestOK, Decisions
<1>12. StagedOK(t)
  BY <1>1, <1>2, <1>3, <1>4, <1>5, <1>7, <1>10 DEF StagedOK
<1>13. Numbered(t)
  <2>1. NumberedOn(tx[c], p, v) /\ v = pages[p].version /\ n = Cardinality(On(tx[c], p))
    BY <1>2 DEF Numbered, v, n
  <2>2. w.rev.version = v + Cardinality(On(tx[c], p)) + 1
    BY <1>7, <2>1
  <2>5. /\ v \in Nat /\ IsFiniteSet(tx[c].staged) /\ NumberedOn(tx[c], p, v)
        /\ t.staged = tx[c].staged \union {w} /\ w.page = p
    BY <1>3, <1>4, <1>7, <1>10, <2>1
  <2>4. IsFiniteSet(t.staged) /\ NumberedOn(t, p, v)
    BY <2>2, <2>5, StagedOneMore
  <2>3. ASSUME NEW q \in Pages, q # p PROVE NumberedOn(t, q, pages[q].version)
    <3>1. On(t, q) = On(tx[c], q)
      BY <1>7, <1>10, <2>3 DEF On
    <3> QED
      BY <1>2, <3>1 DEF Numbered, NumberedOn
  <2> QED
    BY <2>1, <2>3, <2>4 DEF Numbered
<1>14. \A e \in Clients \ {c} : ApartRequests(t, tx[e])
  BY <1>1, <1>7, <1>10 DEF ReviewInv, Apart, ApartRequests, PageFree, DraftFree
<1> QED
  BY <1>8, <1>9, <1>10, <1>11, <1>12, <1>13, <1>14, SlotStep

-----------------------------------------------------------------------------
\* A request that ends frees its slot: the other requests stay apart, and the
\* invariant of the requests is that of the others.
LEMMA EndStep ==
    ASSUME ReviewInv, NEW c \in Clients, End(c)
    PROVE  /\ tx' \in [Clients -> Requests] /\ Apart'
           /\ lock' \in [Slugs -> Clients \union {None}]
           /\ \A e \in Clients : tx'[e] = IF e = c THEN Idle ELSE tx[e]
<1>1. /\ Idle \in Requests /\ Idle.staged = {} /\ Idle.op = "idle" /\ Idle.page = None
  BY IdleOK DEF ReviewInv
<1>2. \A e \in Clients : ApartRequests(Idle, tx[e]) /\ ApartRequests(tx[e], Idle)
  BY <1>1, LiveApart DEF ApartRequests
<1>3. tx \in [Clients -> Requests] /\ tx' = [tx EXCEPT ![c] = Idle]
  BY DEF ReviewInv, Typed, End
<1>4. Apart'
  <2> SUFFICES ASSUME NEW e \in Clients, NEW f \in Clients, e # f
               PROVE  ApartRequests(tx[e], tx[f])'
    BY DEF Apart
  <2>1. ApartRequests(tx[e], tx[f])
    BY DEF ReviewInv, Apart
  <2>2. /\ tx'[e] = IF e = c THEN Idle ELSE tx[e]
        /\ tx'[f] = IF f = c THEN Idle ELSE tx[f]
    BY <1>3
  <2>3. ApartRequests(tx'[e], tx'[f])
    BY <1>2, <2>1, <2>2
  <2> QED
    BY <2>3 DEF ApartRequests
<1>5. lock' \in [Slugs -> Clients \union {None}]
  BY DEF End, Release, ReviewInv, Typed, PageRows, DraftRows
<1> QED
  BY <1>1, <1>3, <1>4, <1>5

\* The freed slot satisfies what is asked of a request.
LEMMA EndOthers ==
    ASSUME Typed', NEW c \in Clients, tx'[c] = Idle,
           \A e \in Clients \ {c} :
              (RequestOK(tx[e]) /\ StagedOK(tx[e]) /\ Numbered(tx[e]))'
    PROVE  RequestsInv'
<1>1. (RequestOK(tx[c]) /\ StagedOK(tx[c]))'
  BY DEF RequestOK, StagedOK, Idle, Decisions
<1>2. IsFiniteSet({}) /\ Cardinality({}) = 0
  BY FS_EmptySet
<1>3. ASSUME NEW p \in Pages PROVE NumberedOn(tx[c], p, pages[p].version)'
  <2>1. On(tx[c], p)' = {}
    BY DEF On, Idle
  <2>2. pages'[p].version \in Int
    BY DEF Typed, PageRows, DraftRows
  <2>3. (pages'[p].version + 1)..(pages'[p].version + 0) = {}
    BY <2>2
  <2> QED
    BY <1>2, <2>1, <2>3 DEF NumberedOn
<1>4. Numbered(tx[c])'
  <2>1. IsFiniteSet(tx[c].staged)'
    BY <1>2 DEF Idle
  <2> QED
    BY <1>3, <2>1 DEF Numbered
<1> QED
  BY <1>1, <1>4 DEF RequestsInv

\* A row that is staged belongs to no draft and no page that is not there.
LEMMA StagedRow ==
    ASSUME ReviewInv, NEW e \in Clients, NEW w \in tx[e].staged
    PROVE  /\ w.page \in Pages /\ w.draft \in Drafts /\ w.rev \in RevisionRows
           /\ w.slug \in Slugs \union {None} /\ w.rev.draft = w.draft
           /\ pages[w.page].alive /\ drafts[w.draft].page = w.page
           /\ drafts[w.draft].status # "none" /\ tx[e].op = "approve"
           /\ ~w.rev.force => w.rev.version = drafts[w.draft].base + 1
BY DEF ReviewInv, Typed, Requests, StagedRows, RequestsInv, StagedOK

\* The draft goes in where no row was: no revision and no staged row is of it.
LEMMA CommitProposalInv ==
    ASSUME ReviewInv, NEW c \in Clients, CommitProposal(c) PROVE ReviewInv'
<1> DEFINE t == tx[c]
           row == Pending(IF t.page = None THEN "create" ELSE "edit", t.page, t.slug,
                          t.version)
<1>1. /\ t \in Requests /\ RequestOK(t) /\ t.op = "propose"
      /\ t.page # None => pages[t.page].alive
      /\ UNCHANGED <<pages, revs>> /\ End(c) /\ drafts' = [drafts EXCEPT ![t.draft] = row]
  BY DEF CommitProposal, ReviewInv, RequestsInv, Typed
<1>2. /\ t.draft \in Drafts /\ drafts[t.draft].status = "none"
      /\ t.page # None => t.version <= pages[t.page].version
      /\ t.page \in Pages \union {None} /\ t.slug \in Slugs \union {None}
      /\ t.version \in 0..MaxVersion
  BY <1>1 DEF RequestOK, Requests
<1>3. /\ tx' \in [Clients -> Requests] /\ Apart' /\ tx'[c] = Idle
      /\ lock' \in [Slugs -> Clients \union {None}]
      /\ \A e \in Clients \ {c} : tx'[e] = tx[e]
  BY <1>1, EndStep
<1>4. row.status = "pending" /\ row.page = t.page /\ row.base = t.version
  BY DEF Pending
<1>5. Typed'
  <2>1. row \in DraftRows
    BY <1>2 DEF Pending, Open, DraftRows
  <2> HIDE DEF row
  <2> QED
    BY <1>1, <1>2, <1>3, <2>1 DEF ReviewInv, Typed
<1> HIDE DEF row
<1>6. \A d \in Drafts : drafts'[d] = IF d = t.draft THEN row ELSE drafts[d]
  BY <1>1 DEF ReviewInv, Typed, PageRows, DraftRows
<1>7. ASSUME NEW e \in Clients \ {c}
      PROVE  (RequestOK(tx[e]) /\ StagedOK(tx[e]) /\ Numbered(tx[e]))'
  <2>1. RequestOK(tx[e]) /\ StagedOK(tx[e]) /\ Numbered(tx[e]) /\ ApartRequests(tx[e], t)
    BY DEF ReviewInv, RequestsInv, Apart
  <2>2. RequestOK(tx[e])'
    BY <1>1, <1>3, <1>6, <2>1 DEF RequestOK, ApartRequests
  <2>3. StagedOK(tx[e])'
    BY <1>1, <1>2, <1>3, <1>6, <2>1, StagedRow DEF StagedOK
  <2>4. Numbered(tx[e])'
    BY <1>1, <1>3, <2>1 DEF Numbered, NumberedOn, On
  <2> QED
    BY <2>2, <2>3, <2>4
<1>8. RequestsInv'
  BY <1>3, <1>5, <1>7, EndOthers
<1>9. DraftsInv'
  BY <1>1, <1>2, <1>4, <1>6 DEF ReviewInv, DraftsInv
<1>10. \A q \in Pages : \A r \in revs[q] : r.draft # None =>
         r.draft \in Drafts /\ drafts[r.draft].page = q
  BY Shapes DEF ReviewInv, RevsInv, RevisionRows
<1>11. \A q \in Pages : \A r \in revs[q] : r.draft # t.draft
  <2>1. drafts[t.draft].page = None
    BY <1>2 DEF ReviewInv, DraftsInv
  <2> QED
    BY <1>2, <1>10, <2>1, NoneAssumption
<1>12. RevsInv' /\ ConflictsAreSeen'
  BY <1>1, <1>6, <1>10, <1>11 DEF ReviewInv, RevsInv, ConflictsAreSeen
<1>13. HistoryComplete'
  BY <1>1 DEF ReviewInv, HistoryComplete, Live, Unique
<1>14. ApprovedIsOnThePage'
  BY <1>1, <1>4, <1>6 DEF ReviewInv, ApprovedIsOnThePage
<1> QED
  BY <1>3, <1>5, <1>8, <1>9, <1>12, <1>13, <1>14 DEF ReviewInv

\* A decision replaces a status: an approved draft may stop reading as one,
\* and no draft starts to.
LEMMA CommitStatusInv ==
    ASSUME ReviewInv, NEW c \in Clients, CommitStatus(c) PROVE ReviewInv'
<1> DEFINE t == tx[c]
<1>1. /\ t \in Requests /\ RequestOK(t) /\ t.op \in Decisions
      /\ drafts[t.draft].status # "none"
      /\ UNCHANGED <<pages, revs>> /\ End(c)
      /\ drafts' = [drafts EXCEPT ![t.draft].status = t.op]
  BY DEF CommitStatus, ReviewInv, RequestsInv, Typed, Decisions
<1>2. t.draft \in Drafts
  BY <1>1 DEF RequestOK
<1>3. /\ tx' \in [Clients -> Requests] /\ Apart' /\ tx'[c] = Idle
      /\ lock' \in [Slugs -> Clients \union {None}]
      /\ \A e \in Clients \ {c} : tx'[e] = tx[e]
  BY <1>1, EndStep
<1>4. Typed'
  <2>1. [drafts[t.draft] EXCEPT !.status = t.op] \in DraftRows
    <3>1. drafts[t.draft] \in DraftRows
      BY <1>2 DEF ReviewInv, Typed
    <3>2. t.op \in Open \union Terminal \union {"none"}
      BY <1>1 DEF Decisions, Open, Terminal
    <3> QED
      BY <3>1, <3>2 DEF DraftRows
  <2> QED
    BY <1>1, <1>2, <1>3, <2>1 DEF ReviewInv, Typed
<1>5. \A d \in Drafts : /\ drafts'[d].page = drafts[d].page
                        /\ drafts'[d].base = drafts[d].base
                        /\ drafts'[d].status = IF d = t.draft THEN t.op ELSE drafts[d].status
  BY <1>1 DEF ReviewInv, Typed, PageRows, DraftRows
<1>6. t.op # "none" /\ t.op # "approved"
  BY <1>1 DEF Decisions
<1>7. ASSUME NEW e \in Clients \ {c}
      PROVE  (RequestOK(tx[e]) /\ StagedOK(tx[e]) /\ Numbered(tx[e]))'
  <2>1. RequestOK(tx[e]) /\ StagedOK(tx[e]) /\ Numbered(tx[e])
    BY DEF ReviewInv, RequestsInv
  <2>2. RequestOK(tx[e])'
    BY <1>1, <1>3, <1>5, <2>1 DEF RequestOK
  <2>3. StagedOK(tx[e])'
    BY <1>1, <1>3, <1>5, <1>6, <2>1, StagedRow DEF StagedOK
  <2>4. Numbered(tx[e])'
    BY <1>1, <1>3, <2>1 DEF Numbered, NumberedOn, On
  <2> QED
    BY <2>2, <2>3, <2>4
<1>8. RequestsInv'
  BY <1>3, <1>4, <1>7, EndOthers
<1>9. DraftsInv'
  BY <1>1, <1>5, <1>6 DEF ReviewInv, DraftsInv
<1>10. \A q \in Pages : \A r \in revs[q] : r.draft # None => r.draft \in Drafts
  BY Shapes DEF ReviewInv, RevisionRows
<1>11. RevsInv' /\ ConflictsAreSeen'
  BY <1>1, <1>5, <1>10 DEF ReviewInv, RevsInv, ConflictsAreSeen
<1>12. HistoryComplete'
  BY <1>1 DEF ReviewInv, HistoryComplete, Live, Unique
<1>13. ApprovedIsOnThePage'
  BY <1>1, <1>5, <1>6 DEF ReviewInv, ApprovedIsOnThePage
<1> QED
  BY <1>3, <1>4, <1>8, <1>9, <1>11, <1>12, <1>13 DEF ReviewInv

\* The staged rows of a request stay numbered if the pages it has rows of
\* keep their version.
LEMMA KeepsNumbers ==
    ASSUME ReviewInv, Typed', NEW e \in Clients, tx'[e] = tx[e],
           \A p \in Pages : pages'[p].version = pages[p].version \/ On(tx[e], p) = {}
    PROVE  Numbered(tx[e])'
<1>1. Numbered(tx[e])
  BY DEF ReviewInv, RequestsInv
<1>2. ASSUME NEW p \in Pages PROVE NumberedOn(tx[e], p, pages[p].version)'
  <2>1. On(tx[e], p)' = On(tx[e], p)
    BY DEF On
  <2>2. CASE pages'[p].version = pages[p].version
    BY <1>1, <2>1, <2>2 DEF Numbered, NumberedOn
  <2>3. CASE On(tx[e], p) = {}
    <3>1. Cardinality({}) = 0
      BY FS_EmptySet
    <3>2. pages'[p].version \in Int
      BY DEF Typed, PageRows, DraftRows
    <3>3. (pages'[p].version + 1)..(pages'[p].version + 0) = {}
      BY <3>2
    <3> QED
      BY <2>1, <2>3, <3>1, <3>3 DEF NumberedOn
  <2> QED
    BY <2>2, <2>3
<1> QED
  BY <1>1, <1>2 DEF Numbered

\* The unique index lets a write through only at the version after the last.
LEMMA WriteIsNext ==
    ASSUME ReviewInv, NEW c \in Clients, CommitWrite(c)
    PROVE  /\ tx[c].page \in Pages /\ pages[tx[c].page].alive
           /\ tx[c].version = pages[tx[c].page].version + 1
           /\ tx[c].version \in 1..MaxVersion /\ tx[c].text \in Texts
           /\ \A r \in revs[tx[c].page] : r.version # tx[c].version
<1> DEFINE t == tx[c]
           v == pages[t.page].version
<1>1. /\ t.page \in Pages /\ pages[t.page].alive /\ t.text \in Texts
      /\ t.version > 0 /\ t.version <= v + 1 /\ t.version \in 0..MaxVersion
  BY DEF CommitWrite, ReviewInv, RequestsInv, Typed, Requests, RequestOK
<1>2. v \in Nat /\ MaxVersion \in Nat
  BY <1>1, Shapes DEF ReviewInv
<1>3. \A r \in revs[t.page] : r.version # t.version
  BY DEF CommitWrite, Accepts, Revision
<1>4. {r.version : r \in revs[t.page]} = 1..v
  BY <1>1 DEF ReviewInv, HistoryComplete, Live
<1>5. t.version \notin 1..v
  BY <1>3, <1>4
<1> QED
  BY <1>1, <1>2, <1>3, <1>5

\* A write that lands adds the next revision of its page; nobody had flushed
\* a row of that page.
LEMMA CommitWriteInv ==
    ASSUME ReviewInv, NEW c \in Clients, CommitWrite(c) PROVE ReviewInv'
<1> DEFINE t == tx[c]
           p == t.page
           v == pages[p].version
           new == Revision(t.version, t.text, None, FALSE)
<1>1. /\ p \in Pages /\ pages[p].alive /\ t.version = v + 1
      /\ t.version \in 1..MaxVersion /\ t.text \in Texts
      /\ \A r \in revs[p] : r.version # t.version
  BY WriteIsNext
<1>2. /\ UNCHANGED drafts /\ End(c) /\ PageFree(c, p)
      /\ pages' = [pages EXCEPT ![p].version = t.version,
                                ![p].text = IF t.same THEN @ ELSE t.text,
                                ![p].scrubbed = t.same /\ @]
      /\ revs' = [revs EXCEPT ![p] = @ \union {new}]
  BY DEF CommitWrite
<1>3. /\ tx' \in [Clients -> Requests] /\ Apart' /\ tx'[c] = Idle
      /\ lock' \in [Slugs -> Clients \union {None}]
      /\ \A e \in Clients \ {c} : tx'[e] = tx[e]
  BY <1>2, EndStep
<1>4. /\ new \in RevisionRows /\ new.version = t.version /\ new.draft = None
      /\ new.text = t.text
  BY <1>1 DEF Revision, RevisionRows
<1>5. v \in Nat /\ MaxVersion \in Nat
  BY <1>1, Shapes DEF ReviewInv
<1>s. t.same /\ ~pages[p].scrubbed => pages[p].text = t.text
  BY <1>1 DEF CommitWrite, ReviewInv, RequestsInv, RequestOK
<1> HIDE DEF new, v
<1> DEFINE txt == IF t.same THEN pages[p].text ELSE t.text
           scr == t.same /\ pages[p].scrubbed
<1>t. txt \in Texts \union {None} /\ scr \in BOOLEAN /\ (~scr => txt = t.text)
  <2>1. t.same \in BOOLEAN /\ pages[p] \in PageRows
    BY <1>1 DEF ReviewInv, Typed, Requests
  <2> QED
    BY <1>1, <1>s, <2>1 DEF PageRows
<1>u. pages' = [pages EXCEPT ![p] = [pages[p] EXCEPT !.version = t.version,
                                                     !.text = txt, !.scrubbed = scr]]
  BY <1>1, <1>2 DEF ReviewInv, Typed
<1> HIDE DEF txt, scr
<1>6. Typed'
  <2>1. [pages[p] EXCEPT !.version = t.version, !.text = txt, !.scrubbed = scr]
          \in PageRows
    <3>1. pages[p] \in PageRows
      BY <1>1 DEF ReviewInv, Typed
    <3>2. t.version \in 0..MaxVersion
      BY <1>1, <1>5
    <3> QED
      BY <1>t, <3>1, <3>2 DEF PageRows
  <2>2. pages' \in [Pages -> PageRows]
    BY <1>1, <1>u, <2>1 DEF ReviewInv, Typed
  <2>3. revs' \in [Pages -> SUBSET RevisionRows]
    BY <1>1, <1>2, <1>4 DEF ReviewInv, Typed
  <2> QED
    BY <1>2, <1>3, <2>2, <2>3 DEF ReviewInv, Typed
<1>7. \A q \in Pages : /\ pages'[q].alive = pages[q].alive
                       /\ q # p => pages'[q] = pages[q] /\ revs'[q] = revs[q]
  BY <1>1, <1>2, <1>u DEF ReviewInv, Typed, PageRows
<1>8. /\ pages'[p].version = v + 1
      /\ pages'[p].scrubbed \/ pages'[p].text = t.text
      /\ revs'[p] = revs[p] \union {new} /\ v = pages[p].version
      /\ UNCHANGED drafts
  <2>1. pages'[p] = [pages[p] EXCEPT !.version = t.version, !.text = txt,
                                     !.scrubbed = scr]
    BY <1>1, <1>u DEF ReviewInv, Typed
  <2>2. /\ pages'[p].version = t.version /\ pages'[p].text = txt
        /\ pages'[p].scrubbed = scr
    <3>1. pages[p] \in PageRows
      BY <1>1 DEF ReviewInv, Typed
    <3> QED
      BY <2>1, <3>1 DEF PageRows
  <2>3. revs'[p] = revs[p] \union {new}
    BY <1>1, <1>2 DEF ReviewInv, Typed
  <2>4. t.version = v + 1 /\ v = pages[p].version
    BY <1>1 DEF v
  <2> QED
    BY <1>2, <1>t, <2>2, <2>3, <2>4
<1>9. ASSUME NEW e \in Clients \ {c}
      PROVE  (RequestOK(tx[e]) /\ StagedOK(tx[e]) /\ Numbered(tx[e]))'
  <2>1. RequestOK(tx[e]) /\ StagedOK(tx[e]) /\ tx[e] \in Requests
    BY DEF ReviewInv, RequestsInv, Typed
  <2>2. tx[e].version \in Int
    BY <2>1 DEF Requests
  <2>3. RequestOK(tx[e])'
    <3>1. \A q \in Pages : pages[q].version \in Nat /\ pages'[q].version \in Nat
                           /\ pages[q].version <= pages'[q].version
      BY <1>5, <1>7, <1>8, Shapes DEF ReviewInv
    <3>2. tx[e].page \in Pages \union {None}
      BY <2>1 DEF Requests
    <3>3. tx[e].op = "write" /\ tx[e].page = p => tx[e].version # v + 1 + 1
      BY <1>1, <1>5, <1>8, <2>1, <2>2 DEF RequestOK
    <3> QED
      BY <1>3, <1>7, <1>8, <2>1, <2>2, <3>1, <3>2, <3>3 DEF RequestOK
  <2>4. StagedOK(tx[e])'
    BY <1>3, <1>7, <1>8, <2>1, StagedRow DEF StagedOK
  <2>5. Numbered(tx[e])'
    <3>1. On(tx[e], p) = {}
      BY <1>2 DEF PageFree, On
    <3> QED
      BY <1>3, <1>6, <1>7, <3>1, KeepsNumbers
  <2> QED
    BY <2>3, <2>4, <2>5
<1>10. RequestsInv'
  BY <1>3, <1>6, <1>9, EndOthers
<1>11. DraftsInv'
  <2>1. \A d \in Drafts : drafts[d].base \in Nat /\ drafts[d].page \in Pages \union {None}
    BY Shapes DEF ReviewInv
  <2> QED
    BY <1>5, <1>7, <1>8, <2>1 DEF ReviewInv, DraftsInv
<1>12. RevsInv' /\ ConflictsAreSeen'
  BY <1>1, <1>4, <1>7, <1>8 DEF ReviewInv, RevsInv, ConflictsAreSeen
<1>14. ApprovedIsOnThePage'
  BY <1>1, <1>4, <1>7, <1>8, Shapes DEF ReviewInv, ApprovedIsOnThePage
<1>13. HistoryComplete'
  <2>1. ASSUME NEW q \in Pages, pages[q].alive, q # p
        PROVE  /\ Unique(revs'[q])
               /\ {r.version : r \in revs'[q]} = 1..pages'[q].version
               /\ pages'[q].scrubbed \/ \E r \in revs'[q] :
                    r.version = pages'[q].version /\ r.text = pages'[q].text
    BY <1>7, <2>1 DEF ReviewInv, HistoryComplete, Live
  <2>2. Unique(revs[p]) /\ {r.version : r \in revs[p]} = 1..v
    BY <1>1, <1>8 DEF ReviewInv, HistoryComplete, Live
  <2>3. Unique(revs'[p])
    BY <1>1, <1>4, <1>8, <2>2 DEF Unique
  <2>4. {r.version : r \in revs'[p]} = {r.version : r \in revs[p]} \union {v + 1}
    BY <1>1, <1>4, <1>8
  <2>5. (1..v) \union {v + 1} = 1..(v + 1)
    BY <1>5
  <2>6. pages'[p].scrubbed \/ \E r \in revs'[p] : r.version = pages'[p].version /\ r.text = pages'[p].text
    BY <1>1, <1>4, <1>8
  <2> QED
    BY <1>7, <1>8, <2>1, <2>2, <2>3, <2>4, <2>5, <2>6 DEF HistoryComplete, Live
<1> QED
  BY <1>3, <1>6, <1>10, <1>11, <1>12, <1>13, <1>14 DEF ReviewInv

\* A page is created where no page was and no other request looks.
LEMMA CommitCreateInv ==
    ASSUME ReviewInv, NEW c \in Clients, CommitCreate(c) PROVE ReviewInv'
<1> DEFINE t == tx[c]
           p == t.page
           new == Revision(1, "edit", None, FALSE)
<1>1. /\ p \in Pages /\ ~pages[p].alive /\ t \in Requests
      /\ t.slug \in Slugs \union {None} /\ t.op = "create"
  BY DEF CommitCreate, ReviewInv, RequestsInv, RequestOK, Typed, Requests
<1>2. /\ UNCHANGED drafts /\ End(c)
      /\ pages' = [pages EXCEPT ![p] = NewPage(t.slug, "edit")]
      /\ revs' = [revs EXCEPT ![p] = {new}]
  BY DEF CommitCreate
<1>3. /\ tx' \in [Clients -> Requests] /\ Apart' /\ tx'[c] = Idle
      /\ lock' \in [Slugs -> Clients \union {None}]
      /\ \A e \in Clients \ {c} : tx'[e] = tx[e]
  BY <1>2, EndStep
<1>4. MaxVersion \in Nat \ {0}
  BY BoundsAssumption
<1>5. /\ new \in RevisionRows /\ new.version = 1 /\ new.draft = None /\ new.text = "edit"
  BY <1>4 DEF Revision, RevisionRows, Texts
<1>6. Typed'
  <2>1. NewPage(t.slug, "edit") \in PageRows
    BY <1>1, <1>4 DEF NewPage, PageRows, Texts
  <2> QED
    BY <1>1, <1>2, <1>3, <1>5, <2>1 DEF ReviewInv, Typed
<1>7. /\ pages'[p] = NewPage(t.slug, "edit") /\ revs'[p] = {new} /\ UNCHANGED drafts
      /\ \A q \in Pages \ {p} : pages'[q] = pages[q] /\ revs'[q] = revs[q]
  BY <1>1, <1>2 DEF ReviewInv, Typed
<1>8. pages'[p].alive /\ pages'[p].version = 1 /\ pages'[p].text = "edit"
  BY <1>7 DEF NewPage
<1> HIDE DEF new
<1>9. ASSUME NEW e \in Clients \ {c}
      PROVE  (RequestOK(tx[e]) /\ StagedOK(tx[e]) /\ Numbered(tx[e]))'
  <2>1. /\ RequestOK(tx[e]) /\ StagedOK(tx[e]) /\ tx[e].page # p
        /\ tx[e].page \in Pages \union {None}
    BY <1>1 DEF ReviewInv, RequestsInv, Apart, ApartRequests, Typed, Requests
  <2>2. RequestOK(tx[e])'
    BY <1>3, <1>7, <2>1 DEF RequestOK
  <2>3. \A w \in tx[e].staged : w.page \in Pages \ {p}
    BY <1>1, StagedRow
  <2>4. StagedOK(tx[e])'
    BY <1>3, <1>7, <2>1, <2>3 DEF StagedOK
  <2>5. Numbered(tx[e])'
    <3>1. On(tx[e], p) = {}
      BY <2>3 DEF On
    <3> QED
      BY <1>3, <1>6, <1>7, <3>1, KeepsNumbers
  <2> QED
    BY <2>2, <2>4, <2>5
<1>10. RequestsInv'
  BY <1>3, <1>6, <1>9, EndOthers
<1>11. \A d \in Drafts : drafts[d].page \in Pages \union {None} /\ drafts[d].page # p
  BY <1>1, Shapes, NoneAssumption DEF ReviewInv, DraftsInv
<1>12. DraftsInv' /\ ApprovedIsOnThePage'
  BY <1>7, <1>11 DEF ReviewInv, DraftsInv, ApprovedIsOnThePage
<1>13. RevsInv' /\ ConflictsAreSeen'
  BY <1>5, <1>7, <1>8 DEF ReviewInv, RevsInv, ConflictsAreSeen
<1>14. HistoryComplete'
  <2>1. ASSUME NEW q \in Pages, pages'[q].alive, q # p
        PROVE  /\ Unique(revs'[q])
               /\ {r.version : r \in revs'[q]} = 1..pages'[q].version
               /\ pages'[q].scrubbed \/ \E r \in revs'[q] :
                    r.version = pages'[q].version /\ r.text = pages'[q].text
    BY <1>7, <2>1 DEF ReviewInv, HistoryComplete, Live
  <2>2. {r.version : r \in {new}} = 1..1
    BY <1>5
  <2>3. Unique({new})
    BY DEF Unique
  <2> QED
    BY <1>5, <1>7, <1>8, <2>1, <2>2, <2>3 DEF HistoryComplete, Live
<1> QED
  BY <1>3, <1>6, <1>10, <1>12, <1>13, <1>14 DEF ReviewInv

\* A page goes with its revisions and its drafts, and with no row that a
\* request has staged; the pages that link to it keep their history.
LEMMA DeletePageCascadeInv ==
    ASSUME ReviewInv, NEW c \in Clients, DeletePageCascade(c) PROVE ReviewInv'
<1> DEFINE t == tx[c]
           p == t.page
           gone == {d \in Drafts : drafts[d].page = p}
<1>1. /\ p \in Pages /\ pages[p].alive /\ t \in Requests /\ t.text \in Texts \union {None}
      /\ \A q \in t.todo : q \in Pages /\ q # p /\ pages[q].alive
      /\ PageFree(c, p)
  BY DEF DeletePageCascade, ReviewInv, RequestsInv, RequestOK, Typed, Requests
<1>2. /\ End(c)
      /\ pages' = [q \in Pages |->
           IF q = p THEN NoPage
           ELSE IF q \in t.todo
                THEN [pages[q] EXCEPT !.text = t.text, !.scrubbed = TRUE]
                ELSE pages[q]]
      /\ revs' = [revs EXCEPT ![p] = {}]
      /\ drafts' = [d \in Drafts |-> IF d \in gone THEN NoDraft ELSE drafts[d]]
  BY DEF DeletePageCascade
<1>3. /\ tx' \in [Clients -> Requests] /\ Apart' /\ tx'[c] = Idle
      /\ lock' \in [Slugs -> Clients \union {None}]
      /\ \A e \in Clients \ {c} : tx'[e] = tx[e]
  BY <1>2, EndStep
<1>4. MaxVersion \in Nat \ {0}
  BY BoundsAssumption
<1>5. Typed'
  <2>1. NoPage \in PageRows /\ NoDraft \in DraftRows
    BY <1>4 DEF NoPage, PageRows, NoDraft, DraftRows, Open, Terminal
  <2>2. ASSUME NEW q \in Pages
        PROVE  pages[q] \in PageRows
               /\ [pages[q] EXCEPT !.text = t.text, !.scrubbed = TRUE] \in PageRows
    <3>1. pages[q] \in PageRows
      BY DEF ReviewInv, Typed
    <3> QED
      BY <1>1, <3>1 DEF PageRows
  <2>3. pages' \in [Pages -> PageRows]
    BY <1>2, <2>1, <2>2
  <2>4. drafts' \in [Drafts -> DraftRows]
    BY <1>2, <2>1 DEF ReviewInv, Typed
  <2>5. revs' \in [Pages -> SUBSET RevisionRows]
    BY <1>1, <1>2 DEF ReviewInv, Typed
  <2> QED
    BY <1>3, <2>3, <2>4, <2>5 DEF Typed
<1>6. ~pages'[p].alive /\ pages'[p].version = 0 /\ revs'[p] = {}
  BY <1>1, <1>2 DEF NoPage, ReviewInv, Typed
<1>7. ASSUME NEW q \in Pages \ {p}
      PROVE  /\ pages'[q].alive = pages[q].alive /\ pages'[q].version = pages[q].version
             /\ pages'[q].scrubbed \/ pages'[q] = pages[q]
             /\ revs'[q] = revs[q]
  <2>1. pages[q] \in PageRows
    BY DEF ReviewInv, Typed
  <2>2. \/ pages'[q] = pages[q]
        \/ pages'[q] = [pages[q] EXCEPT !.text = t.text, !.scrubbed = TRUE]
    BY <1>2
  <2>3. revs'[q] = revs[q]
    BY <1>1, <1>2 DEF ReviewInv, Typed
  <2> QED
    BY <2>1, <2>2, <2>3 DEF PageRows
<1>8. \A d \in Drafts : drafts'[d] = IF drafts[d].page = p THEN NoDraft ELSE drafts[d]
  BY <1>2
<1>9. NoDraft.status = "none" /\ NoDraft.page = None
  BY DEF NoDraft
<1>10. ASSUME NEW e \in Clients \ {c}
       PROVE  (RequestOK(tx[e]) /\ StagedOK(tx[e]) /\ Numbered(tx[e]))'
  <2>1. /\ RequestOK(tx[e]) /\ StagedOK(tx[e])
        /\ tx[e].page \in Pages \union {None}
    BY DEF ReviewInv, RequestsInv, Typed, Requests
  <2>2. RequestOK(tx[e])'
    BY <1>3, <1>6, <1>7, <1>8, <1>9, <2>1 DEF RequestOK
  <2>3. \A w \in tx[e].staged : w.page \in Pages \ {p}
    BY <1>1, StagedRow DEF PageFree
  <2>4. \A w \in tx[e].staged : w.draft \in Drafts /\ drafts'[w.draft] = drafts[w.draft]
    BY <1>8, <2>3, StagedRow
  <2>5. StagedOK(tx[e])'
    BY <1>3, <1>7, <2>1, <2>3, <2>4 DEF StagedOK
  <2>6. Numbered(tx[e])'
    <3>1. On(tx[e], p) = {}
      BY <2>3 DEF On
    <3> QED
      BY <1>3, <1>5, <1>7, <3>1, KeepsNumbers
  <2> QED
    BY <2>2, <2>5, <2>6
<1>11. RequestsInv'
  BY <1>3, <1>5, <1>10, EndOthers
<1>12. \A d \in Drafts : drafts[d].page \in Pages \union {None}
  BY Shapes DEF ReviewInv
<1>13. DraftsInv'
  BY <1>7, <1>8, <1>9, <1>12 DEF ReviewInv, DraftsInv
<1>14. ApprovedIsOnThePage'
  <2>1. ASSUME NEW d \in Drafts, drafts'[d].status = "approved"
        PROVE  drafts'[d].page # None /\ \E r \in revs'[drafts'[d].page] : r.draft = d
    BY <1>7, <1>8, <1>9, <1>12, <2>1 DEF ReviewInv, ApprovedIsOnThePage
  <2> QED
    BY <2>1 DEF ApprovedIsOnThePage
<1>15. RevsInv' /\ ConflictsAreSeen'
  <2>1. \A q \in Pages \ {p} : \A r \in revs[q] : r.draft # None =>
          /\ r.draft \in Drafts /\ drafts[r.draft].page = q
          /\ drafts'[r.draft] = drafts[r.draft]
    BY <1>8, Shapes DEF ReviewInv, RevsInv, RevisionRows
  <2> QED
    BY <1>6, <1>7, <2>1 DEF ReviewInv, RevsInv, ConflictsAreSeen
<1>16. HistoryComplete'
  <2>1. ASSUME NEW q \in Pages, pages'[q].alive
        PROVE  /\ Unique(revs'[q])
               /\ {r.version : r \in revs'[q]} = 1..pages'[q].version
               /\ pages'[q].scrubbed \/ \E r \in revs'[q] :
                    r.version = pages'[q].version /\ r.text = pages'[q].text
    BY <1>6, <1>7, <2>1 DEF ReviewInv, HistoryComplete, Live
  <2> QED
    BY <2>1 DEF HistoryComplete, Live
<1> QED
  BY <1>3, <1>5, <1>11, <1>13, <1>14, <1>15, <1>16 DEF ReviewInv

-----------------------------------------------------------------------------
\* Of the rows staged for a page, the one with the highest version carries the
\* version of the page plus their number.
LEMMA HeadRow ==
    ASSUME NEW t, NEW p, NEW v \in Nat, IsFiniteSet(t.staged), NumberedOn(t, p, v),
           On(t, p) # {},
           NEW h, h = CHOOSE w \in On(t, p) :
                        \A u \in On(t, p) : u.rev.version <= w.rev.version
    PROVE  /\ h \in On(t, p) /\ Cardinality(On(t, p)) \in Nat \ {0}
           /\ h.rev.version = v + Cardinality(On(t, p))
<1> DEFINE n == Cardinality(On(t, p))
<1>1. IsFiniteSet(On(t, p)) /\ n \in Nat /\ n # 0
  BY FS_Subset, FS_CardinalityType, FS_EmptySet DEF On
<1>2. {w.rev.version : w \in On(t, p)} = (v + 1)..(v + n)
  BY DEF NumberedOn
<1> HIDE DEF n
<1>3. \A w \in On(t, p) : w.rev.version \in (v + 1)..(v + n)
  BY <1>2
<1>4. v + n \in (v + 1)..(v + n)
  BY <1>1
<1>5. PICK w \in On(t, p) : w.rev.version = v + n
  BY <1>2, <1>4
<1>6. \A u \in On(t, p) : u.rev.version <= w.rev.version
  BY <1>1, <1>3, <1>5
<1>7. h \in On(t, p) /\ \A u \in On(t, p) : u.rev.version <= h.rev.version
  BY <1>5, <1>6
<1>8. h.rev.version = v + n
  BY <1>1, <1>3, <1>5, <1>7
<1> QED
  BY <1>1, <1>7, <1>8 DEF n

\* What a committed approval does to a page it has rows of.
LEMMA ApprovedPage ==
    ASSUME ReviewInv, NEW c \in Clients, CommitApprovals(c), NEW p \in Pages,
           On(tx[c], p) # {}
    PROVE  /\ pages[p].alive /\ pages'[p].alive /\ pages'[p] \in PageRows
           /\ pages[p].version \in Nat /\ Cardinality(On(tx[c], p)) \in Nat \ {0}
           /\ pages'[p].version = pages[p].version + Cardinality(On(tx[c], p))
           /\ revs'[p] = revs[p] \union {w.rev : w \in On(tx[c], p)}
           /\ \E r \in revs'[p] : r.version = pages'[p].version /\ r.text = pages'[p].text
<1> DEFINE h == CHOOSE w \in On(tx[c], p) :
                  \A u \in On(tx[c], p) : u.rev.version <= w.rev.version
<1>1. /\ pages'[p] = [pages[p] EXCEPT !.alive = TRUE, !.slug = h.slug,
                        !.version = h.rev.version, !.text = h.rev.text, !.scrubbed = FALSE]
      /\ revs'[p] = revs[p] \union {w.rev : w \in On(tx[c], p)}
  BY DEF CommitApprovals, On
<1> HIDE DEF h
<1>2. /\ pages[p] \in PageRows /\ pages[p].version \in Nat
      /\ IsFiniteSet(tx[c].staged) /\ NumberedOn(tx[c], p, pages[p].version)
  BY Shapes DEF ReviewInv, Typed, RequestsInv, Numbered
<1>3. /\ h \in On(tx[c], p) /\ Cardinality(On(tx[c], p)) \in Nat \ {0}
      /\ h.rev.version = pages[p].version + Cardinality(On(tx[c], p))
  BY <1>2, HeadRow DEF h
<1>4. /\ h \in tx[c].staged /\ h.page = p
      /\ h.slug \in Slugs \union {None} /\ h.rev \in RevisionRows /\ pages[p].alive
  BY <1>3, StagedRow DEF On
<1>5. h.rev.version \in 0..MaxVersion /\ h.rev.text \in Texts
  <2>1. h.rev.version \in 1..MaxVersion /\ h.rev.text \in Texts /\ MaxVersion \in Nat
    BY <1>4, BoundsAssumption DEF RevisionRows
  <2> QED
    BY <2>1
<1>6. /\ pages'[p] \in PageRows /\ pages'[p].alive
      /\ pages'[p].version = h.rev.version /\ pages'[p].text = h.rev.text
  BY <1>1, <1>2, <1>4, <1>5 DEF PageRows
<1> QED
  BY <1>1, <1>2, <1>3, <1>4, <1>6

\* All staged rows land together: a page goes up by their number, its history
\* has one revision for each, and their drafts read as approved.
LEMMA CommitApprovalsInv ==
    ASSUME ReviewInv, NEW c \in Clients, CommitApprovals(c) PROVE ReviewInv'
<1> DEFINE t == tx[c]
<1>1. /\ t \in Requests /\ RequestOK(t) /\ StagedOK(t) /\ Numbered(t) /\ End(c)
  BY DEF CommitApprovals, ReviewInv, RequestsInv, Typed
<1>2. /\ tx' \in [Clients -> Requests] /\ Apart' /\ tx'[c] = Idle
      /\ lock' \in [Slugs -> Clients \union {None}]
      /\ \A e \in Clients \ {c} : tx'[e] = tx[e]
  BY <1>1, EndStep
<1>3. \A p \in Pages : On(t, p) = {} => pages'[p] = pages[p] /\ revs'[p] = revs[p]
  BY DEF CommitApprovals, On
<1>4. \A p \in Pages : On(t, p) # {} =>
        /\ pages[p].alive /\ pages'[p].alive /\ pages'[p] \in PageRows
        /\ pages[p].version \in Nat /\ Cardinality(On(t, p)) \in Nat \ {0}
        /\ pages'[p].version = pages[p].version + Cardinality(On(t, p))
        /\ revs'[p] = revs[p] \union {w.rev : w \in On(t, p)}
        /\ \E r \in revs'[p] : r.version = pages'[p].version /\ r.text = pages'[p].text
  BY ApprovedPage
<1>5. \A d \in Drafts : drafts'[d] = IF \E w \in t.staged : w.draft = d
                                     THEN [drafts[d] EXCEPT !.status = "approved"]
                                     ELSE drafts[d]
  BY DEF CommitApprovals
<1>6. \A w \in t.staged :
        /\ w.page \in Pages /\ w.draft \in Drafts /\ w.rev \in RevisionRows
        /\ w.rev.draft = w.draft /\ drafts[w.draft].page = w.page /\ w \in On(t, w.page)
        /\ ~w.rev.force => w.rev.version = drafts[w.draft].base + 1
  BY StagedRow DEF On
<1>7. Typed'
  <2>1. pages' \in [Pages -> PageRows]
    <3> DEFINE h(p) == CHOOSE w \in On(t, p) :
                         \A u \in On(t, p) : u.rev.version <= w.rev.version
               row(p) == IF On(t, p) = {} THEN pages[p] ELSE
                           [pages[p] EXCEPT !.alive = TRUE, !.slug = h(p).slug,
                                            !.version = h(p).rev.version,
                                            !.text = h(p).rev.text, !.scrubbed = FALSE]
    <3>a. pages' = [p \in Pages |-> row(p)]
      BY DEF CommitApprovals, On
    <3> HIDE DEF row
    <3>1. pages' = [p \in Pages |-> pages'[p]]
      BY <3>a
    <3>2. \A p \in Pages : pages'[p] \in PageRows
      BY <1>3, <1>4 DEF ReviewInv, Typed
    <3> QED
      BY <3>1, <3>2
  <2>2. drafts' \in [Drafts -> DraftRows]
    <3>1. drafts' = [d \in Drafts |-> drafts'[d]]
      BY DEF CommitApprovals
    <3>2. ASSUME NEW d \in Drafts PROVE drafts'[d] \in DraftRows
      <4>1. drafts[d] \in DraftRows
        BY DEF ReviewInv, Typed
      <4> QED
        BY <1>5, <4>1 DEF DraftRows, Terminal
    <3> QED
      BY <3>1, <3>2
  <2>3. revs' \in [Pages -> SUBSET RevisionRows]
    <3>1. revs' = [p \in Pages |-> revs'[p]]
      BY DEF CommitApprovals
    <3>2. ASSUME NEW p \in Pages PROVE revs'[p] \subseteq RevisionRows
      <4>1. revs[p] \subseteq RevisionRows /\ \A w \in On(t, p) : w.rev \in RevisionRows
        BY <1>6 DEF ReviewInv, Typed, On
      <4> QED
        BY <1>3, <1>4, <4>1
    <3> QED
      BY <3>1, <3>2
  <2> QED
    BY <1>2, <2>1, <2>2, <2>3 DEF Typed
<1>8. ASSUME NEW d \in Drafts
      PROVE  /\ drafts'[d].page = drafts[d].page /\ drafts'[d].base = drafts[d].base
             /\ drafts'[d].status = IF \E w \in t.staged : w.draft = d
                                    THEN "approved" ELSE drafts[d].status
  <2>1. drafts[d] \in DraftRows
    BY DEF ReviewInv, Typed
  <2> QED
    BY <1>5, <2>1 DEF DraftRows
<1>9. ASSUME NEW p \in Pages
      PROVE  /\ pages'[p].alive = pages[p].alive /\ pages'[p].version \in Nat
             /\ pages[p].version \in Nat
             /\ pages'[p] = pages[p] \/ pages[p].version < pages'[p].version
  <2>1. pages[p].version \in Nat /\ pages[p].alive \in BOOLEAN /\ pages'[p].alive \in BOOLEAN
    BY <1>7, Shapes DEF ReviewInv, Typed, PageRows
  <2>2. CASE On(t, p) = {}
    BY <1>3, <2>1, <2>2
  <2>3. CASE On(t, p) # {}
    BY <1>4, <2>1, <2>3
  <2> QED
    BY <2>2, <2>3
<1>10. ASSUME NEW e \in Clients \ {c}
       PROVE  (RequestOK(tx[e]) /\ StagedOK(tx[e]) /\ Numbered(tx[e]))'
  <2>1. /\ RequestOK(tx[e]) /\ StagedOK(tx[e]) /\ ApartRequests(tx[e], t)
        /\ tx[e].page \in Pages \union {None} /\ tx[e].version \in Nat
    BY BoundsAssumption DEF ReviewInv, RequestsInv, Typed, Requests, Apart
  <2>2. \A w \in t.staged : drafts[w.draft].status # "none"
    BY <1>1 DEF StagedOK
  <2>3. RequestOK(tx[e])'
    <3>1. \A p \in Pages : pages[p].version <= pages'[p].version
      BY <1>9
    <3>2. ASSUME tx[e].op = "write", tx[e].page \in Pages, tx[e].same,
                 pages'[tx[e].page].alive,
                 tx[e].version = pages'[tx[e].page].version + 1
          PROVE  pages'[tx[e].page].scrubbed \/ pages'[tx[e].page].text = tx[e].text
      BY <1>9, <2>1, <3>2 DEF RequestOK
    <3> QED
      BY <1>2, <1>8, <1>9, <2>1, <2>2, <3>1, <3>2 DEF RequestOK
  <2>4. StagedOK(tx[e])'
    BY <1>2, <1>8, <1>9, <2>1, StagedRow DEF StagedOK
  <2>5. Numbered(tx[e])'
    <3>1. \A p \in Pages : On(tx[e], p) = {} \/ On(t, p) = {}
      BY <2>1 DEF On, ApartRequests
    <3> QED
      BY <1>2, <1>3, <1>7, <3>1, KeepsNumbers
  <2> QED
    BY <2>3, <2>4, <2>5
<1>11. RequestsInv'
  BY <1>2, <1>7, <1>10, EndOthers
<1>12. DraftsInv'
  <2>1. \A d \in Drafts : drafts[d].base \in Nat /\ drafts[d].page \in Pages \union {None}
    BY Shapes DEF ReviewInv
  <2>2. \A w \in t.staged : drafts[w.draft].status # "none"
    BY <1>1 DEF StagedOK
  <2> QED
    BY <1>8, <1>9, <2>1, <2>2 DEF ReviewInv, DraftsInv
<1>13. ASSUME NEW p \in Pages, NEW r \in revs'[p], r \notin revs[p]
       PROVE  \E w \in On(t, p) : r = w.rev
  BY <1>3, <1>4, <1>13
<1>14. RevsInv' /\ ConflictsAreSeen'
  <2>1. ASSUME NEW p \in Pages, NEW r \in revs'[p], r.draft # None
        PROVE  /\ r.draft \in Drafts /\ drafts[r.draft].page = p
               /\ ~r.force => r.version = drafts[r.draft].base + 1
    <3>1. CASE r \in revs[p]
      BY <2>1, <3>1, Shapes DEF ReviewInv, RevsInv, ConflictsAreSeen, RevisionRows
    <3>2. CASE r \notin revs[p]
      <4>1. PICK w \in t.staged : w.page = p /\ r = w.rev
        BY <1>13, <3>2 DEF On
      <4> QED
        BY <1>6, <4>1
    <3> QED
      BY <3>1, <3>2
  <2>2. ConflictsAreSeen'
    BY <1>8, <2>1 DEF ConflictsAreSeen
  <2>3. \A p \in Pages : \A r \in revs'[p] : r.draft # None => drafts'[r.draft].page = p
    BY <1>8, <2>1
  <2>4. \A p \in Pages : ~pages'[p].alive => revs'[p] = {} /\ pages'[p].version = 0
    BY <1>3, <1>4 DEF ReviewInv, RevsInv
  <2> QED
    BY <2>2, <2>3, <2>4 DEF RevsInv
<1>15. ApprovedIsOnThePage'
  <2> SUFFICES ASSUME NEW d \in Drafts, drafts'[d].status = "approved"
               PROVE  /\ drafts'[d].page # None
                      /\ \E r \in revs'[drafts'[d].page] : r.draft = d
    BY DEF ApprovedIsOnThePage
  <2>1. CASE \E w \in t.staged : w.draft = d
    <3>1. PICK w \in t.staged : w.draft = d
      BY <2>1
    <3>2. /\ w.page \in Pages /\ w \in On(t, w.page) /\ w.rev.draft = d
          /\ drafts'[d].page = w.page
      BY <1>6, <1>8, <3>1
    <3>3. w.rev \in revs'[w.page]
      BY <1>4, <3>2
    <3> QED
      BY <3>2, <3>3, NoneAssumption
  <2>2. CASE ~ \E w \in t.staged : w.draft = d
    <3>1. drafts[d].page # None /\ \E r \in revs[drafts[d].page] : r.draft = d
      BY <1>8, <2>2 DEF ReviewInv, ApprovedIsOnThePage
    <3>2. drafts[d].page \in Pages
      BY <3>1, Shapes DEF ReviewInv
    <3>3. revs[drafts[d].page] \subseteq revs'[drafts[d].page]
      BY <1>3, <1>4, <3>2
    <3> QED
      BY <1>8, <3>1, <3>3
  <2> QED
    BY <2>1, <2>2
<1>16. HistoryComplete'
  <2> SUFFICES ASSUME NEW p \in Pages, pages'[p].alive
               PROVE  /\ Unique(revs'[p])
                      /\ {r.version : r \in revs'[p]} = 1..pages'[p].version
                      /\ pages'[p].scrubbed \/ \E r \in revs'[p] :
                           r.version = pages'[p].version /\ r.text = pages'[p].text
    BY DEF HistoryComplete, Live
  <2>1. /\ pages[p].alive /\ Unique(revs[p])
        /\ {r.version : r \in revs[p]} = 1..pages[p].version
        /\ pages[p].scrubbed \/ \E r \in revs[p] :
             r.version = pages[p].version /\ r.text = pages[p].text
    BY <1>9 DEF ReviewInv, HistoryComplete, Live
  <2>2. CASE On(t, p) = {}
    BY <1>3, <2>1, <2>2
  <2>3. CASE On(t, p) # {}
    <3> DEFINE v == pages[p].version
               n == Cardinality(On(t, p))
    <3>1. /\ v \in Nat /\ n \in Nat /\ pages'[p].version = v + n
          /\ revs'[p] = revs[p] \union {w.rev : w \in On(t, p)}
          /\ \E r \in revs'[p] : r.version = pages'[p].version /\ r.text = pages'[p].text
      BY <1>4, <2>3
    <3>2. /\ {w.rev.version : w \in On(t, p)} = (v + 1)..(v + n)
          /\ \A w, u \in On(t, p) : w.rev.version = u.rev.version => w = u
      BY <1>1 DEF Numbered, NumberedOn
    <3>3. \A r \in revs[p] : r.version \in 1..v
      BY <2>1
    <3> HIDE DEF v, n
    <3>4. \A w \in On(t, p) : w.rev.version \in (v + 1)..(v + n)
      BY <3>2
    <3>5. {r.version : r \in revs'[p]} = (1..v) \union ((v + 1)..(v + n))
      <4>1. {r.version : r \in revs'[p]} = {r.version : r \in revs[p]} \union
              {w.rev.version : w \in On(t, p)}
        BY <3>1
      <4> QED
        BY <2>1, <3>2, <4>1 DEF v
    <3>6. (1..v) \union ((v + 1)..(v + n)) = 1..(v + n)
      BY <3>1
    <3>7. Unique(revs'[p])
      <4>1. \A r \in revs[p], w \in On(t, p) : r.version # w.rev.version
        BY <3>1, <3>3, <3>4
      <4> QED
        BY <2>1, <3>1, <3>2, <4>1 DEF Unique
    <3> QED
      BY <3>1, <3>5, <3>6, <3>7
  <2> QED
    BY <2>2, <2>3
<1> QED
  BY <1>2, <1>7, <1>11, <1>12, <1>14, <1>15, <1>16 DEF ReviewInv

-----------------------------------------------------------------------------
\* One page at version 1, and drafts that are new, edits of it or proposals.
LEMMA InitInv == Init => ReviewInv
<1> SUFFICES ASSUME Init PROVE ReviewInv
  OBVIOUS
<1>1. PICK p \in Pages, s \in Slugs :
        /\ pages = [q \in Pages |-> IF q = p THEN NewPage(s, "seed") ELSE NoPage]
        /\ revs = [q \in Pages |-> IF q = p THEN {Revision(1, "seed", None, FALSE)}
                                            ELSE {}]
        /\ drafts \in [Drafts -> {NoDraft, Pending("edit", p, None, 1)} \union
                                 {Pending("create", None, z, 0) : z \in Slugs \ {s}}]
        /\ lock = [z \in Slugs |-> None]
        /\ tx = [c \in Clients |-> Idle]
  BY DEF Init
<1> DEFINE seed == Revision(1, "seed", None, FALSE)
<1>2. MaxVersion \in Nat \ {0}
  BY BoundsAssumption
<1>3. /\ NewPage(s, "seed") \in PageRows /\ NoPage \in PageRows
      /\ NewPage(s, "seed").alive /\ NewPage(s, "seed").version = 1
      /\ NewPage(s, "seed").text = "seed" /\ ~NoPage.alive /\ NoPage.version = 0
  BY <1>2 DEF NewPage, NoPage, PageRows, Texts
<1>4. /\ seed \in RevisionRows /\ seed.version = 1 /\ seed.draft = None /\ seed.text = "seed"
  BY <1>2 DEF Revision, RevisionRows, Texts
<1>5. ASSUME NEW d \in Drafts
      PROVE  /\ drafts[d] \in DraftRows /\ drafts[d].status \in {"none", "pending"}
             /\ \/ drafts[d].page = None
                \/ drafts[d].status = "pending" /\ drafts[d].page = p /\ drafts[d].base = 1
  <2>1. CASE drafts[d] = NoDraft
    BY <1>2, <2>1 DEF NoDraft, DraftRows, Open
  <2>2. CASE drafts[d] = Pending("edit", p, None, 1)
    BY <1>2, <2>2 DEF Pending, DraftRows, Open
  <2>3. CASE \E z \in Slugs : drafts[d] = Pending("create", None, z, 0)
    BY <1>2, <2>3 DEF Pending, DraftRows, Open
  <2> QED
    BY <1>1, <2>1, <2>2, <2>3
<1> HIDE DEF seed
<1>6. Idle \in Requests
  BY <1>2 DEF Idle, Requests, Ops, Texts
<1>7. Typed
  <2>1. drafts \in [Drafts -> DraftRows]
    BY <1>1, <1>5
  <2>2. tx \in [Clients -> Requests] /\ lock \in [Slugs -> Clients \union {None}]
    BY <1>1, <1>6
  <2>3. revs \in [Pages -> SUBSET RevisionRows] /\ pages \in [Pages -> PageRows]
    BY <1>1, <1>3, <1>4 DEF seed
  <2> QED
    BY <2>1, <2>2, <2>3 DEF Typed
<1>8. /\ Idle.staged = {} /\ Idle.op = "idle"
      /\ RequestOK(Idle) /\ StagedOK(Idle) /\ Numbered(Idle)
  BY <1>7, IdleOK
<1>9. RequestsInv /\ Apart
  BY <1>1, <1>8 DEF RequestsInv, Apart, ApartRequests
<1>10. \A q \in Pages : /\ q = p => pages[q] = NewPage(s, "seed") /\ revs[q] = {seed}
                        /\ q # p => pages[q] = NoPage /\ revs[q] = {}
  BY <1>1 DEF seed
<1>11. DraftsInv /\ ApprovedIsOnThePage
  BY <1>3, <1>5, <1>10 DEF DraftsInv, ApprovedIsOnThePage
<1>12. RevsInv /\ ConflictsAreSeen
  BY <1>3, <1>4, <1>10 DEF RevsInv, ConflictsAreSeen
<1>13. HistoryComplete
  <2>1. Unique({seed}) /\ {r.version : r \in {seed}} = 1..1
    BY <1>4 DEF Unique
  <2> QED
    BY <1>3, <1>4, <1>10, <2>1 DEF HistoryComplete, Live
<1> QED
  BY <1>7, <1>9, <1>11, <1>12, <1>13 DEF ReviewInv

\* Endpoints, tools and the worker start the same requests.
LEMMA StartInv ==
    ASSUME ReviewInv, NEW c \in Clients, Web(c) \/ Tool(c) \/ Compile(c)
    PROVE  ReviewInv'
<1>1. CASE WebBulkApprove(c)
  BY <1>1, ApproveInv DEF WebBulkApprove
<1>2. ASSUME NEW d \in Drafts, WebPropose(c, d) \/ ToolPropose(c, d) PROVE ReviewInv'
  BY <1>2, ProposeEditInv DEF WebPropose, ToolPropose, Live
<1>3. ASSUME NEW d \in Drafts, WebProposeCreate(c, d) \/ ToolProposeCreate(c, d)
      PROVE  ReviewInv'
  BY <1>3, ProposeCreateInv DEF WebProposeCreate, ToolProposeCreate
<1>4. ASSUME NEW d \in Drafts, WebApprove(c, d) \/ ToolApprove(c, d) PROVE ReviewInv'
  BY <1>4, ApproveInv DEF WebApprove, ToolApprove
<1>5. ASSUME NEW d \in Drafts,
             \/ WebReject(c, d) \/ WebRequestChanges(c, d) \/ WebResubmit(c, d)
             \/ WebWithdraw(c, d) \/ ToolReject(c, d) \/ ToolRequestChanges(c, d)
             \/ ToolResubmit(c, d) \/ ToolWithdraw(c, d)
      PROVE  ReviewInv'
  BY <1>5, DecisionInv
     DEF WebReject, WebRequestChanges, WebResubmit, WebWithdraw,
         ToolReject, ToolRequestChanges, ToolResubmit, ToolWithdraw
<1>6. ASSUME NEW p \in Pages, WebCreate(c, p) \/ ToolCreate(c, p) PROVE ReviewInv'
  BY <1>6, ApplyCreateInv DEF WebCreate, ToolCreate
<1>7. ASSUME NEW p \in Pages,
             WebEdit(c, p) \/ WebRollback(c, p) \/ ToolEdit(c, p) \/ ApplyUpdate(c, p)
      PROVE  ReviewInv'
  BY <1>7, AnyWriteInv DEF WebEdit, WebRollback, ToolEdit
<1>8. ASSUME NEW p \in Pages, WebDelete(c, p) PROVE ReviewInv'
  BY <1>8, DeletePageInv DEF WebDelete
<1> QED
  BY <1>1, <1>2, <1>3, <1>4, <1>5, <1>6, <1>7, <1>8 DEF Web, Tool, Compile

\* Every step of every request preserves the invariant.
LEMMA NextInv == ReviewInv /\ [Next]_vars => ReviewInv'
<1> SUFFICES ASSUME ReviewInv, [Next]_vars PROVE ReviewInv'
  OBVIOUS
<1>1. ASSUME NEW c \in Clients, Web(c) \/ Tool(c) \/ Compile(c) PROVE ReviewInv'
  BY <1>1, StartInv
<1>2. ASSUME NEW c \in Clients, Approving(c) PROVE ReviewInv'
  BY <1>2, ChooseInv, StageApprovalInv, RefuseApprovalInv DEF Approving
<1>3. ASSUME NEW c \in Clients, Commit(c) PROVE ReviewInv'
  BY <1>3, CommitProposalInv, CommitStatusInv, CommitApprovalsInv, CommitWriteInv,
     CommitCreateInv, DeletePageCascadeInv DEF Commit
<1>4. ASSUME NEW c \in Clients, Abort(c) PROVE ReviewInv'
  BY <1>4, AbortInv
<1>5. CASE UNCHANGED vars
  <2>1. /\ pages' = pages /\ revs' = revs /\ drafts' = drafts /\ lock' = lock /\ tx' = tx
    BY <1>5 DEF vars
  <2>2. Typed' /\ Apart' /\ DraftsInv' /\ RevsInv'
    BY <2>1 DEF ReviewInv, Typed, Apart, ApartRequests, DraftsInv, RevsInv
  <2>3. RequestsInv'
    <3> SUFFICES ASSUME NEW c \in Clients
                 PROVE  (RequestOK(tx[c]) /\ StagedOK(tx[c]) /\ Numbered(tx[c]))'
      BY DEF RequestsInv
    <3>1. RequestOK(tx[c]) /\ StagedOK(tx[c]) /\ Numbered(tx[c])
      BY DEF ReviewInv, RequestsInv
    <3>2. (RequestOK(tx[c]) /\ StagedOK(tx[c]))'
      BY <2>1, <3>1 DEF RequestOK, StagedOK
    <3>3. Numbered(tx[c])'
      BY <2>1, <3>1 DEF Numbered, NumberedOn, On
    <3> QED
      BY <3>2, <3>3
  <2>4. HistoryComplete' /\ ConflictsAreSeen' /\ ApprovedIsOnThePage'
    BY <2>1 DEF ReviewInv, HistoryComplete, Live, Unique, ConflictsAreSeen,
                ApprovedIsOnThePage
  <2> QED
    BY <2>2, <2>3, <2>4 DEF ReviewInv
<1> QED
  BY <1>1, <1>2, <1>3, <1>4, <1>5 DEF Next

-----------------------------------------------------------------------------
\* The invariant holds in every reachable state.
THEOREM Invariant == Spec => []ReviewInv
BY InitInv, NextInv, PTL DEF Spec

\* Rows of all tables keep their type, and versions their bound.
THEOREM TypeCorrect == Spec => []TypeOK
<1>1. ReviewInv => TypeOK
  BY DEF ReviewInv, Typed, PageRows, DraftRows, TypeOK
<1> QED
  BY <1>1, Invariant, PTL

\* Revisions of a live page are numbered 1 to its version, without a gap or a
\* repeat: of two writers that read one version the second is refused.
THEOREM NoGapInHistory == Spec => []HistoryComplete
<1>1. ReviewInv => HistoryComplete
  BY DEF ReviewInv
<1> QED
  BY <1>1, Invariant, PTL

\* An approval nobody forced lands on the version its draft was written
\* against, whatever other requests committed between its steps.
THEOREM UnforcedApprovalsAreCurrent == Spec => []ConflictsAreSeen
<1>1. ReviewInv => ConflictsAreSeen
  BY DEF ReviewInv
<1> QED
  BY <1>1, Invariant, PTL

\* An approved draft has a revision of its page.
THEOREM ApprovedIsPublished == Spec => []ApprovedIsOnThePage
<1>1. ReviewInv => ApprovedIsOnThePage
  BY DEF ReviewInv
<1> QED
  BY <1>1, Invariant, PTL

-----------------------------------------------------------------------------
\* The texts of a complete set of revisions, in the order of their versions.
TextsOf(R, n) == [v \in 1..n |-> (CHOOSE r \in R : r.version = v).text]
Complete(R, n) == /\ n \in Nat /\ Unique(R) /\ {r.version : r \in R} = 1..n
                  /\ \A r \in R : r.text \in Texts

\* They are a sequence of texts, and every revision shows its own.
LEMMA TextsAreASequence ==
    ASSUME NEW R, NEW n, Complete(R, n)
    PROVE  /\ TextsOf(R, n) \in Seq(Texts) /\ Len(TextsOf(R, n)) = n
           /\ \A r \in R : r.version \in 1..n /\ TextsOf(R, n)[r.version] = r.text
<1>1. n \in Nat /\ {r.version : r \in R} = 1..n
  BY DEF Complete
<1>2. ASSUME NEW v \in 1..n PROVE \E r \in R : r.version = v
  BY <1>1
<1>3. ASSUME NEW v \in 1..n PROVE TextsOf(R, n)[v] \in Texts
  <2>1. (CHOOSE r \in R : r.version = v) \in R
    BY <1>2
  <2> QED
    BY <2>1 DEF TextsOf, Complete
<1>4. ASSUME NEW r \in R PROVE r.version \in 1..n /\ TextsOf(R, n)[r.version] = r.text
  <2>1. r.version \in 1..n
    BY <1>1
  <2>2. (CHOOSE x \in R : x.version = r.version) = r
    BY DEF Complete, Unique
  <2> QED
    BY <2>1, <2>2 DEF TextsOf
<1>5. TextsOf(R, n) \in [1..n -> Texts]
  BY <1>3 DEF TextsOf
<1> QED
  BY <1>1, <1>4, <1>5

\* More revisions of a page only make the sequence longer.
LEMMA MoreTexts ==
    ASSUME NEW R, NEW n, Complete(R, n), NEW S, NEW m, Complete(S, m), R \subseteq S
    PROVE  History!IsPrefix(TextsOf(R, n), TextsOf(S, m))
<1> DEFINE s == TextsOf(R, n)
           t == TextsOf(S, m)
<1>1. /\ s \in Seq(Texts) /\ Len(s) = n /\ n \in Nat
      /\ \A r \in R : r.version \in 1..n /\ s[r.version] = r.text
  BY TextsAreASequence DEF Complete
<1>2. /\ t \in Seq(Texts) /\ Len(t) = m /\ m \in Nat
      /\ \A r \in S : r.version \in 1..m /\ t[r.version] = r.text
  BY TextsAreASequence DEF Complete
<1>3. ASSUME NEW v \in 1..n PROVE v \in 1..m /\ s[v] = t[v]
  <2>1. PICK r \in R : r.version = v
    BY DEF Complete
  <2> QED
    BY <1>1, <1>2, <2>1
<1> HIDE DEF s, t
<1>4. n <= m
  <2>1. n = 0 \/ n \in 1..n
    BY <1>1
  <2> QED
    BY <1>1, <1>2, <1>3, <2>1
<1>5. SubSeq(s, 1, n) = SubSeq(t, 1, n)
  BY <1>1, <1>2, <1>3, <1>4
<1> QED
  BY <1>1, <1>2, <1>4, <1>5 DEF s, t, History!IsPrefix

\* Every page has a complete set of revisions, the pages that are not there none.
LEMMA PagesComplete ==
    ASSUME ReviewInv, NEW p \in Pages
    PROVE  Complete(revs[p], pages[p].version)
<1>1. /\ pages[p].version \in Nat /\ revs[p] \subseteq RevisionRows
  BY Shapes DEF ReviewInv
<1>2. \A r \in revs[p] : r.text \in Texts
  BY <1>1 DEF RevisionRows
<1>3. CASE pages[p].alive
  BY <1>1, <1>2, <1>3 DEF Complete, ReviewInv, HistoryComplete, Live
<1>4. CASE ~pages[p].alive
  <2>1. revs[p] = {} /\ pages[p].version = 0
    BY <1>4 DEF ReviewInv, RevsInv
  <2>2. {r.version : r \in {}} = 1..0
    OBVIOUS
  <2> QED
    BY <2>1, <2>2 DEF Complete, Unique
<1> QED
  BY <1>3, <1>4

\* A step keeps all revisions of a page, or there is no page after it.
LEMMA RevisionsStay ==
    ASSUME ReviewInv, ReviewInv', [Next]_vars, NEW p \in Pages
    PROVE  revs[p] \subseteq revs'[p] \/ pages'[p].version = 0
<1>1. revs \in [Pages -> SUBSET RevisionRows]
  BY DEF ReviewInv, Typed
<1>2. CASE UNCHANGED vars
  BY <1>2 DEF vars
<1>3. ASSUME NEW c \in Clients, Web(c) \/ Tool(c) \/ Compile(c) PROVE UNCHANGED revs
  BY <1>3 DEF Web, Tool, Compile, WebBulkApprove, WebPropose, WebProposeCreate,
     WebApprove, WebReject, WebRequestChanges, WebResubmit, WebWithdraw, WebCreate,
     WebEdit, WebRollback, WebDelete, ToolPropose, ToolProposeCreate, ToolApprove,
     ToolReject, ToolRequestChanges, ToolResubmit, ToolWithdraw, ToolCreate, ToolEdit,
     ProposeEdit, ProposeCreate, Approve, RejectDraft, RequestChanges, WithdrawDraft,
     ResubmitDraft, Ask, ApplyCreate, ApplyUpdate, DirectEdit, RollbackToRevision,
     Write, DeletePage
<1>4. ASSUME NEW c \in Clients, Approving(c) \/ Abort(c) PROVE UNCHANGED revs
  BY <1>4 DEF Approving, PickDraft, SkipDraft, StageApproval, RefuseApproval, Abort
<1>5. ASSUME NEW c \in Clients, CommitProposal(c) \/ CommitStatus(c) PROVE UNCHANGED revs
  BY <1>5 DEF CommitProposal, CommitStatus
<1>6. ASSUME NEW c \in Clients, CommitApprovals(c) PROVE revs[p] \subseteq revs'[p]
  BY <1>6 DEF CommitApprovals
<1>7. ASSUME NEW c \in Clients, CommitWrite(c) PROVE revs[p] \subseteq revs'[p]
  BY <1>1, <1>7 DEF CommitWrite
<1>8. ASSUME NEW c \in Clients, CommitCreate(c) PROVE revs[p] \subseteq revs'[p]
  <2>1. /\ tx[c].page \in Pages /\ ~pages[tx[c].page].alive
    BY <1>8 DEF CommitCreate, ReviewInv, RequestsInv, RequestOK
  <2>2. revs[tx[c].page] = {}
    BY <2>1 DEF ReviewInv, RevsInv
  <2> QED
    BY <1>1, <1>8, <2>1, <2>2 DEF CommitCreate
<1>9. ASSUME NEW c \in Clients, DeletePageCascade(c)
      PROVE  revs[p] \subseteq revs'[p] \/ pages'[p].version = 0
  <2>1. CASE p = tx[c].page
    BY <1>9, <2>1 DEF DeletePageCascade, NoPage
  <2>2. CASE p # tx[c].page
    BY <1>1, <1>9, <2>2 DEF DeletePageCascade
  <2> QED
    BY <2>1, <2>2
<1> QED
  BY <1>2, <1>3, <1>4, <1>5, <1>6, <1>7, <1>8, <1>9 DEF Next, Commit

\* Every step of Review is a step of PageHistory on the published texts.
LEMMA HistoryStep ==
    ASSUME ReviewInv, ReviewInv', [Next]_vars
    PROVE  History!Next
<1> SUFFICES ASSUME NEW p \in Pages PROVE History!Publish(p) \/ History!Vanish(p)
  BY DEF History!Next
<1>1. Complete(revs[p], pages[p].version)
  BY PagesComplete
<1>2. Complete(revs'[p], pages'[p].version)
  <2>1. /\ pages'[p].version \in Nat /\ revs'[p] \subseteq RevisionRows
    BY BoundsAssumption DEF ReviewInv, Typed, PageRows
  <2>2. \A r \in revs'[p] : r.text \in Texts
    BY <2>1 DEF RevisionRows
  <2>3. CASE pages'[p].alive
    BY <2>1, <2>2, <2>3 DEF Complete, ReviewInv, HistoryComplete, Live
  <2>4. CASE ~pages'[p].alive
    <3>1. revs'[p] = {} /\ pages'[p].version = 0
      BY <2>4 DEF ReviewInv, RevsInv
    <3>2. {r.version : r \in {}} = 1..0
      OBVIOUS
    <3> QED
      BY <3>1, <3>2 DEF Complete, Unique
  <2> QED
    BY <2>3, <2>4
<1>3. /\ [q \in Pages |-> Published(q)][p] = TextsOf(revs[p], pages[p].version)
      /\ ([q \in Pages |-> Published(q)][p])' = TextsOf(revs'[p], pages'[p].version)
  BY DEF Published, TextsOf
<1>4. CASE revs[p] \subseteq revs'[p]
  <2>1. History!IsPrefix(TextsOf(revs[p], pages[p].version),
                         TextsOf(revs'[p], pages'[p].version))
    BY <1>1, <1>2, <1>4, MoreTexts
  <2> QED
    BY <1>3, <2>1 DEF History!Publish, History!IsPrefix
<1>5. CASE pages'[p].version = 0
  <2>1. TextsOf(revs'[p], 0) = <<>>
    BY <1>2, <1>5, TextsAreASequence
  <2> QED
    BY <1>3, <1>5, <2>1 DEF History!Vanish
<1> QED
  BY <1>4, <1>5, RevisionsStay

\* The pages implement PageHistory: published texts are never rewritten,
\* reordered or taken back, by any interleaving of approvals, direct edits,
\* rollbacks and compilations; a page goes as a whole.
THEOREM PagesImplementHistory == Spec => AppendOnly
<1>1. Init => History!Init
  <2> SUFFICES ASSUME ReviewInv PROVE History!Init
    BY InitInv
  <2>1. ASSUME NEW p \in Pages PROVE Published(p) \in Seq(Texts)
    <3>1. TextsOf(revs[p], pages[p].version) \in Seq(Texts)
      BY PagesComplete, TextsAreASequence
    <3> QED
      BY <3>1 DEF Published, TextsOf
  <2> QED
    BY <2>1 DEF History!Init
<1>2. ReviewInv /\ ReviewInv' /\ [Next]_vars => History!Next
  BY HistoryStep
<1> QED
  BY <1>1, <1>2, Invariant, PTL DEF Spec, AppendOnly, History!Spec
=============================================================================
