------------------------------- MODULE Review -------------------------------
(* Wiki pages, their revisions and the drafts that change them: the REST     *)
(* endpoints of routers/wiki.py and routers/wiki_drafts.py, the MCP tools    *)
(* that mirror them, services/wiki_service.py, the shared life cycle of      *)
(* services/contribution_service.py.  Their AI pre-review is module PreReview. *)
(*                                                                           *)
(* A request is a transaction of one client slot.  It reads rows (Begin),    *)
(* an approval then takes the advisory lock of the slug and flushes (Stage), *)
(* and it commits.  Rows read by a request are not locked: only staged rows  *)
(* are.  Between any two steps the other clients may run.  Who may call what *)
(* is the business of module Access.                                         *)
EXTENDS Integers, FiniteSets

CONSTANTS
    Clients,      \* request slots of the API and MCP processes
    Pages,        \* ids of wiki_pages rows
    Slugs,        \* slugs of one scope
    Drafts,       \* ids of wiki_page_drafts rows
    MaxVersion,   \* bound on wiki_pages.version
    MaxRequests,  \* bound on the requests of a behaviour
    None          \* no page, draft, lock owner

ASSUME BoundsAssumption == MaxVersion \in Nat \ {0} /\ MaxRequests \in Nat
ASSUME NoneAssumption == None \notin Pages \union Drafts \union Clients

VARIABLES
    pages,    \* wiki_pages: [alive, slug, version, text, scrubbed]
    revs,     \* wiki_page_revisions of each page
    drafts,   \* wiki_page_drafts: [status, kind, page, slug, base]
    lock,     \* owner of the advisory lock of each slug
    tx,       \* the request in each client slot
    left      \* requests still to come (the bound, no part of the program)

vars == <<pages, revs, drafts, lock, tx, left>>

(* A text stands for where it came from: a draft, a direct write, the past. *)
Texts == Drafts \union {"seed", "edit"}
Open == {"pending", "needs_revision"}
Terminal == {"approved", "rejected", "withdrawn"}

NoPage == [alive |-> FALSE, slug |-> None, version |-> 0, text |-> None,
           scrubbed |-> FALSE]
NoDraft == [status |-> "none", kind |-> "edit", page |-> None, slug |-> None,
            base |-> 0]
Idle == [op |-> "idle", draft |-> None, page |-> None, slug |-> None,
         version |-> 0, text |-> None, same |-> FALSE, force |-> FALSE,
         todo |-> {}, staged |-> {}]

NewPage(s, t) == [alive |-> TRUE, slug |-> s, version |-> 1, text |-> t,
                  scrubbed |-> FALSE]
Revision(v, t, d, f) == [version |-> v, text |-> t, draft |-> d, force |-> f]

(* The unique index uq_wiki_revisions_page_version. *)
Unique(R) == \A r1, r2 \in R : r1.version = r2.version => r1 = r2
\* mutant: the index on (page_id, version) is not unique
AcceptsAny(R, new) == new # {}
Accepts(R, new) == Unique(new) /\ \A r \in R, n \in new : r.version # n.version

Live == {p \in Pages : pages[p].alive}
SlugTaken(s) == \E p \in Live : pages[p].slug = s
Fresh(p) == ~pages[p].alive /\ \A c \in Clients : tx[c].page # p
(* A draft id nobody uses: no row and no open request. *)
Unused(d) == drafts[d].status = "none" /\ \A c \in Clients : tx[c].draft # d

Pending(k, p, s, b) ==
    [status |-> "pending", kind |-> k, page |-> p, slug |-> s, base |-> b]

(* One page at version 1 and, for each draft, one of: not proposed yet, an    *)
(* edit of that page, a proposal of a new one.                                *)
Init ==
    \E p \in Pages, s \in Slugs :
        /\ pages = [q \in Pages |-> IF q = p THEN NewPage(s, "seed") ELSE NoPage]
        /\ revs = [q \in Pages |-> IF q = p THEN {Revision(1, "seed", None, FALSE)}
                                            ELSE {}]
        /\ drafts \in [Drafts -> {NoDraft, Pending("edit", p, None, 1)} \union
                                 {Pending("create", None, z, 0) : z \in Slugs \ {s}}]
        /\ lock = [z \in Slugs |-> None]
        /\ tx = [c \in Clients |-> Idle]
        /\ left = MaxRequests

(***************************************************************************)
(* Requests                                                                *)
(***************************************************************************)
Begin(c, r) == /\ tx[c].op = "idle" /\ left > 0
               /\ tx' = [tx EXCEPT ![c] = r]
               /\ left' = left - 1

Release(c) == lock' = [s \in Slugs |-> IF lock[s] = c THEN None ELSE lock[s]]

(* The request is over: its transaction ended and its locks are free. *)
End(c) == /\ tx' = [tx EXCEPT ![c] = Idle]
          /\ Release(c)
          /\ UNCHANGED left

(* Rows another open transaction has flushed: writing them waits. *)
PageFree(c, p) == \A e \in Clients \ {c} : \A w \in tx[e].staged : w.page # p
DraftFree(c, d) == \A e \in Clients \ {c} : \A w \in tx[e].staged : w.draft # d

(* A request that dies, is refused by the database or loses a deadlock. *)
Abort(c) == /\ tx[c].op # "idle"
            /\ End(c)
            /\ UNCHANGED <<pages, revs, drafts>>

(***************************************************************************)
(* Submitting a draft                                                      *)
(***************************************************************************)
\* mutant: the client's base version is taken as it comes
ProposeAnyBase(c, d, p, b) ==
    /\ Unused(d) /\ p \in Live
    /\ Begin(c, [Idle EXCEPT !.op = "propose", !.draft = d, !.page = p,
                             !.version = b])
    /\ UNCHANGED <<pages, revs, drafts, lock>>

ProposeEdit(c, d, p, b) ==
    /\ Unused(d) /\ p \in Live /\ b <= pages[p].version
    /\ Begin(c, [Idle EXCEPT !.op = "propose", !.draft = d, !.page = p,
                             !.version = b])
    /\ UNCHANGED <<pages, revs, drafts, lock>>

ProposeCreate(c, d, s) ==
    /\ Unused(d) /\ ~SlugTaken(s)
    /\ Begin(c, [Idle EXCEPT !.op = "propose", !.draft = d, !.slug = s])
    /\ UNCHANGED <<pages, revs, drafts, lock>>

(* The row goes in; a foreign key to a page deleted meanwhile is refused. *)
CommitProposal(c) ==
    LET t == tx[c] IN
    /\ t.op = "propose"
    /\ t.page # None => pages[t.page].alive
    /\ drafts' = [drafts EXCEPT ![t.draft] =
         Pending(IF t.page = None THEN "create" ELSE "edit", t.page, t.slug, t.version)]
    /\ End(c)
    /\ UNCHANGED <<pages, revs>>

(***************************************************************************)
(* Status changes that are read, checked and written without a lock        *)
(***************************************************************************)
Ask(c, op, d, from) ==
    /\ drafts[d].status \in from
    /\ Begin(c, [Idle EXCEPT !.op = op, !.draft = d])
    /\ UNCHANGED <<pages, revs, drafts, lock>>

RejectDraft(c, d)    == Ask(c, "rejected", d, {"pending"})
RequestChanges(c, d) == Ask(c, "needs_revision", d, {"pending"})
WithdrawDraft(c, d)  == Ask(c, "withdrawn", d, Open)
ResubmitDraft(c, d)  == Ask(c, "pending", d, {"needs_revision"})

(* The write names the row only: whatever its status is by now is replaced. *)
CommitStatus(c) ==
    LET t == tx[c] IN
    /\ t.op \in {"rejected", "needs_revision", "withdrawn", "pending"}
    /\ drafts[t.draft].status # "none" /\ DraftFree(c, t.draft)
    /\ drafts' = [drafts EXCEPT ![t.draft].status = t.op]
    /\ End(c)
    /\ UNCHANGED <<pages, revs>>

(***************************************************************************)
(* Approving.  One draft or, in bulk, several: each is picked by its       *)
(* status, then waits for the lock of its slug, then is staged; everything *)
(* is committed at the end and the locks are kept until then.              *)
(***************************************************************************)
Approve(c, ds, force) ==
    /\ ds # {} /\ \A d \in ds : drafts[d].status # "none"
    /\ Begin(c, [Idle EXCEPT !.op = "approve", !.todo = ds, !.force = force])
    /\ UNCHANGED <<pages, revs, drafts, lock>>

PickDraft(c, d) ==
    /\ tx[c].op = "approve" /\ tx[c].draft = None
    /\ d \in tx[c].todo /\ drafts[d].status = "pending"
    /\ tx' = [tx EXCEPT ![c].draft = d, ![c].todo = @ \ {d}]
    /\ UNCHANGED <<pages, revs, drafts, lock, left>>

(* The bulk endpoint passes over what is gone or no longer pending. *)
SkipDraft(c, d) ==
    /\ tx[c].op = "approve" /\ tx[c].draft = None
    /\ d \in tx[c].todo /\ drafts[d].status # "pending"
    /\ tx' = [tx EXCEPT ![c].todo = @ \ {d}]
    /\ UNCHANGED <<pages, revs, drafts, lock, left>>

TargetSlug(d) == IF drafts[d].kind = "create" THEN drafts[d].slug
                 ELSE pages[drafts[d].page].slug

Own(c, p) == {w \in tx[c].staged : w.page = p}
Rows(c, p) == revs[p] \union {w.rev : w \in Own(c, p)}

(* What approve_draft flushes once it has the lock and the fresh rows.  For  *)
(* a create draft apply_create adds a revision 1 and approve_draft another.  *)
Flush(c, d, p, v) ==
    IF drafts[d].kind = "create"
    THEN {[page |-> p, slug |-> drafts[d].slug, draft |-> d,
           rev |-> Revision(1, d, None, FALSE)],
          [page |-> p, slug |-> drafts[d].slug, draft |-> d,
           rev |-> Revision(1, d, d, tx[c].force)]}
    ELSE {[page |-> p, slug |-> pages[p].slug, draft |-> d,
           rev |-> Revision(v, d, d, tx[c].force)]}

Stageable(c, d, p) ==
    IF drafts[d].kind = "create"
    THEN ~SlugTaken(drafts[d].slug) /\ Fresh(p)
    ELSE p = drafts[d].page /\ pages[p].alive

\* mutant: the draft may be one version behind
ConflictsLate(c, d, v) == /\ drafts[d].kind = "edit" /\ ~tx[c].force
                          /\ drafts[d].base < v - 1
Conflicts(c, d, v) == /\ drafts[d].kind = "edit" /\ ~tx[c].force
                      /\ drafts[d].base < v

StageApproval(c, p) ==
    LET t == tx[c]
        d == t.draft
        v == pages[p].version + Cardinality(Own(c, p))
        new == Flush(c, d, p, v + 1) IN
    /\ t.op = "approve" /\ d # None /\ drafts[d].status # "none"
    /\ Stageable(c, d, p) /\ v < MaxVersion
    /\ lock[TargetSlug(d)] \in {None, c} /\ PageFree(c, p) /\ DraftFree(c, d)
    /\ lock' = [lock EXCEPT ![TargetSlug(d)] = c]
    /\ ~Conflicts(c, d, v) /\ Accepts(Rows(c, p), {w.rev : w \in new})
    /\ tx' = [tx EXCEPT ![c].draft = None, ![c].staged = @ \union new]
    /\ UNCHANGED <<pages, revs, drafts, left>>

(* The item is refused: a conflict, a taken slug, a row that is gone, the    *)
(* unique index, a write that came between the refresh and the flush, or the *)
(* bound.  Rolling back its savepoint also gives back the lock it took; a    *)
(* lock that an earlier item took stays.  A bulk approval goes on, a single  *)
(* one has nothing to commit.                                                *)
\* mutant: no savepoint, the refused item keeps the status it was given
RefuseButApprove(c) ==
    /\ tx[c].op = "approve" /\ tx[c].draft # None
    /\ drafts[tx[c].draft].status # "none" /\ DraftFree(c, tx[c].draft)
    /\ drafts' = [drafts EXCEPT ![tx[c].draft].status = "approved"]
    /\ tx' = [tx EXCEPT ![c].draft = None]
    /\ UNCHANGED <<pages, revs, lock, left>>

RefuseApproval(c) ==
    LET d == tx[c].draft
        gone == drafts[d].status = "none"
        v(p) == pages[p].version + Cardinality(Own(c, p))
        refused(p) == \/ Conflicts(c, d, v(p)) \/ v(p) = MaxVersion
                      \/ ~Accepts(Rows(c, p), {w.rev : w \in Flush(c, d, p, v(p) + 1)})
                      \/ \E e \in Clients : tx[e].page = p IN
    /\ tx[c].op = "approve" /\ d # None
    /\ ~gone => lock[TargetSlug(d)] \in {None, c}
    /\ ~gone => \A p \in Pages : Stageable(c, d, p) => refused(p)
    /\ tx' = [tx EXCEPT ![c].draft = None]
    /\ UNCHANGED <<pages, revs, drafts, lock, left>>

CommitApprovals(c) ==
    LET done == tx[c].staged
        On(p) == {w \in done : w.page = p}
        head(p) == CHOOSE w \in On(p) : \A u \in On(p) : u.rev.version <= w.rev.version IN
    /\ tx[c].op = "approve" /\ tx[c].draft = None /\ tx[c].todo = {}
    /\ pages' = [p \in Pages |-> IF On(p) = {} THEN pages[p] ELSE
         [pages[p] EXCEPT !.alive = TRUE, !.slug = head(p).slug,
                          !.version = head(p).rev.version,
                          !.text = head(p).rev.text, !.scrubbed = FALSE]]
    /\ revs' = [p \in Pages |-> revs[p] \union {w.rev : w \in On(p)}]
    /\ drafts' = [d \in Drafts |-> IF \E w \in done : w.draft = d
                                   THEN [drafts[d] EXCEPT !.status = "approved"]
                                   ELSE drafts[d]]
    /\ End(c)

(***************************************************************************)
(* Writes that go to a page directly, on the version read at the start     *)
(***************************************************************************)
(* Whether text t is, word for word, what the session loaded of page p.  One *)
(* name stands for all edits and for all scrubs: these may differ.           *)
Same(p, t) ==
    IF pages[p].scrubbed \/ (t = "edit" /\ pages[p].text = t) THEN BOOLEAN
    ELSE {pages[p].text = t}

Write(c, p, t) ==
    /\ p \in Live /\ pages[p].version < MaxVersion
    /\ \E same \in Same(p, t) :
         Begin(c, [Idle EXCEPT !.op = "write", !.page = p, !.text = t, !.same = same,
                               !.version = pages[p].version + 1])
    /\ UNCHANGED <<pages, revs, drafts, lock>>

(* A page may be saved as it was opened. *)
DirectEdit(c, p)  == \E t \in {"edit", pages[p].text} \ {None} : Write(c, p, t)
ApplyUpdate(c, p) == \E t \in {"edit", pages[p].text} \ {None} : Write(c, p, t)
RollbackToRevision(c, p, v) ==
    \E r \in revs[p] : r.version = v /\ Write(c, p, r.text)

\* mutant: a save by the same hand replaces the last revision
SaveInPlace(c) ==
    LET t == tx[c]
        v == pages[t.page].version IN
    /\ t.op = "write" /\ pages[t.page].alive /\ PageFree(c, t.page)
    /\ pages' = [pages EXCEPT ![t.page].text = t.text]
    /\ revs' = [revs EXCEPT ![t.page] = {r \in @ : r.version < v} \union
                                         {Revision(v, t.text, None, FALSE)}]
    /\ End(c)
    /\ UNCHANGED drafts

(* The version is always written.  A text that is the loaded one is left out *)
(* of the UPDATE: the row keeps what it holds by now.                        *)
CommitWrite(c) ==
    LET t == tx[c]
        new == Revision(t.version, t.text, None, FALSE) IN
    /\ t.op = "write"
    /\ pages[t.page].alive /\ PageFree(c, t.page)
    /\ Accepts(revs[t.page], {new})
    /\ pages' = [pages EXCEPT
         ![t.page].version = t.version,
         ![t.page].text = IF t.same THEN @ ELSE t.text,
         ![t.page].scrubbed = t.same /\ @]
    /\ revs' = [revs EXCEPT ![t.page] = @ \union {new}]
    /\ End(c)
    /\ UNCHANGED <<drafts>>

(* A page created without review: the slug is checked, the insert is not.   *)
ApplyCreate(c, p, s) ==
    /\ Fresh(p) /\ ~SlugTaken(s)
    /\ Begin(c, [Idle EXCEPT !.op = "create", !.page = p, !.slug = s])
    /\ UNCHANGED <<pages, revs, drafts, lock>>

CommitCreate(c) ==
    LET t == tx[c] IN
    /\ t.op = "create"
    /\ pages' = [pages EXCEPT ![t.page] = NewPage(t.slug, "edit")]
    /\ revs' = [revs EXCEPT ![t.page] =
                  {Revision(1, "edit", None, FALSE)}]
    /\ End(c)
    /\ UNCHANGED <<drafts>>

(* Deleting a page removes its rows and rewrites the pages that link to it: *)
(* q stands for them, with the text read before the write.                  *)
DeletePage(c, p, q) ==
    /\ p \in Live /\ q \in {None} \union (Live \ {p})
    /\ Begin(c, [Idle EXCEPT !.op = "delete", !.page = p,
         !.todo = {q} \ {None}, !.text = IF q = None THEN None ELSE pages[q].text])
    /\ UNCHANGED <<pages, revs, drafts, lock>>

DeletePageCascade(c) ==
    LET t == tx[c]
        gone == {d \in Drafts : drafts[d].page = t.page} IN
    /\ t.op = "delete" /\ pages[t.page].alive
    /\ \A q \in t.todo : pages[q].alive
    /\ \A q \in t.todo \union {t.page} : PageFree(c, q)
    /\ \A d \in gone : DraftFree(c, d)
    /\ pages' = [q \in Pages |->
         IF q = t.page THEN NoPage
         ELSE IF q \in t.todo
              THEN [pages[q] EXCEPT !.text = t.text, !.scrubbed = TRUE]
              ELSE pages[q]]
    /\ revs' = [revs EXCEPT ![t.page] = {}]
    /\ drafts' = [d \in Drafts |-> IF d \in gone THEN NoDraft ELSE drafts[d]]
    /\ End(c)

(***************************************************************************)
(* The endpoints and the MCP tools that start a request.  A tool resolves  *)
(* the page of the draft first, so create drafts are out of its reach.     *)
(***************************************************************************)
OnAPage(d) == drafts[d].page # None

WebPropose(c, d) ==
    \E p \in Pages, b \in 1..(MaxVersion + 1) : ProposeEdit(c, d, p, b)
WebProposeCreate(c, d) == \E s \in Slugs : ProposeCreate(c, d, s)
WebApprove(c, d)      == \E force \in BOOLEAN : Approve(c, {d}, force)
WebBulkApprove(c)     == \E ds \in SUBSET Drafts, force \in BOOLEAN : Approve(c, ds, force)
WebReject(c, d)       == RejectDraft(c, d)
WebRequestChanges(c, d) == RequestChanges(c, d)
WebResubmit(c, d)     == ResubmitDraft(c, d)
WebWithdraw(c, d)     == WithdrawDraft(c, d)
WebCreate(c, p)       == \E s \in Slugs : ApplyCreate(c, p, s)
WebEdit(c, p)         == DirectEdit(c, p)
WebRollback(c, p)     == \E v \in 1..MaxVersion : RollbackToRevision(c, p, v)
WebDelete(c, p)       == \E q \in Pages \union {None} : DeletePage(c, p, q)

Web(c) == \/ WebBulkApprove(c)
          \/ \E d \in Drafts : \/ WebPropose(c, d) \/ WebProposeCreate(c, d)
                               \/ WebApprove(c, d) \/ WebReject(c, d)
                               \/ WebRequestChanges(c, d) \/ WebResubmit(c, d)
                               \/ WebWithdraw(c, d)
          \/ \E p \in Pages : \/ WebCreate(c, p) \/ WebEdit(c, p)
                              \/ WebRollback(c, p) \/ WebDelete(c, p)

(* A slug that names several pages is refused by the tools. *)
Unambiguous(p) == \A q \in Live \ {p} : pages[q].slug # pages[p].slug

ToolPropose(c, d) == \E p \in Live, b \in 1..(MaxVersion + 1) :
    Unambiguous(p) /\ ProposeEdit(c, d, p, b)
ToolProposeCreate(c, d)  == \E s \in Slugs : ProposeCreate(c, d, s)
ToolApprove(c, d)        == OnAPage(d) /\ \E force \in BOOLEAN : Approve(c, {d}, force)
ToolReject(c, d)         == OnAPage(d) /\ RejectDraft(c, d)
ToolRequestChanges(c, d) == OnAPage(d) /\ RequestChanges(c, d)
ToolResubmit(c, d)       == ResubmitDraft(c, d)
ToolWithdraw(c, d)       == WithdrawDraft(c, d)
ToolCreate(c, p)         == \E s \in Slugs : ApplyCreate(c, p, s)
ToolEdit(c, p)           == Unambiguous(p) /\ DirectEdit(c, p)

Tool(c) == \/ \E d \in Drafts : \/ ToolPropose(c, d) \/ ToolProposeCreate(c, d)
                                \/ ToolApprove(c, d) \/ ToolReject(c, d)
                                \/ ToolRequestChanges(c, d) \/ ToolResubmit(c, d)
                                \/ ToolWithdraw(c, d)
           \/ \E p \in Pages : ToolCreate(c, p) \/ ToolEdit(c, p)

(* The worker's COMMIT phase updates pages with apply_update. *)
Compile(c) == \E p \in Pages : ApplyUpdate(c, p)

Approving(c) == \/ \E d \in Drafts : PickDraft(c, d) \/ SkipDraft(c, d)
                \/ \E p \in Pages : StageApproval(c, p)
                \/ RefuseApproval(c)

Commit(c) == \/ CommitProposal(c) \/ CommitStatus(c) \/ CommitApprovals(c)
             \/ CommitWrite(c) \/ CommitCreate(c) \/ DeletePageCascade(c)

Next == \E c \in Clients : \/ Web(c) \/ Tool(c) \/ Compile(c)
                           \/ Approving(c) \/ Commit(c) \/ Abort(c)

Spec == Init /\ [][Next]_vars

(***************************************************************************)
(* Properties                                                              *)
(***************************************************************************)
RevisionRows == [version : 1..MaxVersion, text : Texts, draft : Drafts \union {None},
                 force : BOOLEAN]

TypeOK ==
    /\ pages \in [Pages -> [alive : BOOLEAN, slug : Slugs \union {None},
                 version : 0..MaxVersion, text : Texts \union {None},
                 scrubbed : BOOLEAN]]
    /\ \A p \in Pages : revs[p] \subseteq RevisionRows
    /\ drafts \in [Drafts -> [status : Open \union Terminal \union {"none"},
                 kind : {"edit", "create"}, page : Pages \union {None},
                 slug : Slugs \union {None}, base : 0..MaxVersion]]
    /\ lock \in [Slugs -> Clients \union {None}]

(* The revisions of a live page are numbered 1 to its version without a gap *)
(* or a repeat: no two writers that read the same version both land         *)
(* (uq_wiki_revisions_page_version, wiki_service.py:841-1054).  The page     *)
(* shows the text of the last one, unless a deletion rewrote its links: after *)
(* that revision, or while a request that wrote no new text was under way.    *)
HistoryComplete ==
    \A p \in Live :
        /\ Unique(revs[p])
        /\ {r.version : r \in revs[p]} = 1..pages[p].version
        /\ pages[p].scrubbed \/ \E r \in revs[p] :
             r.version = pages[p].version /\ r.text = pages[p].text

(* An approval nobody forced lands on the very version its draft was        *)
(* written against, whatever else was written while the reviewer waited for *)
(* the lock (the conflict check of approve_draft).                          *)
ConflictsAreSeen ==
    \A p \in Pages : \A r \in revs[p] :
        r.draft # None /\ ~r.force => r.version = drafts[r.draft].base + 1

(* A draft that reads as approved is in the history of its page: an item of *)
(* a bulk approval that fails does not leave its status behind.             *)
ApprovedIsOnThePage ==
    \A d \in Drafts : drafts[d].status = "approved" =>
        drafts[d].page # None /\ \E r \in revs[drafts[d].page] : r.draft = d

(* Texts of a page, oldest first, and the abstract history they implement.  *)
Published(p) ==
    [v \in 1..pages[p].version |-> (CHOOSE r \in revs[p] : r.version = v).text]
History == INSTANCE PageHistory WITH history <- [p \in Pages |-> Published(p)]

(* Published texts are never rewritten, reordered or taken back: rollback,  *)
(* approval and direct edits only append.                                   *)
AppendOnly == History!Spec

(* A create draft is refused only because its slug exists by now.           *)
CreateDraftsMaterialise ==
    [][\A c \in Clients : RefuseApproval(c) /\ drafts[tx[c].draft].kind = "create"
         => SlugTaken(drafts[tx[c].draft].slug)]_vars
=============================================================================
