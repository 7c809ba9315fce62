------------------------------- MODULE Routes -------------------------------
(* What a caller is shown.  The rule of who may read or review what is       *)
(* written many times: in the routes of the web API, in the queries behind   *)
(* their lists, in the tools of the MCP server, in the predicates that hide  *)
(* tools, and in the choice of whom to notify.  Each operator here is one of *)
(* those, over the rows of module Access; the properties say that they agree.*)
EXTENDS Access

Accounts == {e \in DOMAIN staff : Active(e)}

(***************************************************************************)
(* Documents and skills over the web API                                   *)
(***************************************************************************)
Shares(e, tags) == tags = {} \/ tags \intersect staff[e].depts # {}

CanAccessDocument(e, s) ==
    LET level == ScopeLevel(RestPermissions(e), "doc", "read") IN
    level = "all" \/ (level = "own_dept" /\ Shares(e, sources[s].tags))

ListedSources(e) ==
    LET level == ScopeLevel(RestPermissions(e), "doc", "read") IN
    {s \in DOMAIN sources : /\ level # "none"
                            /\ level = "own_dept" => Shares(e, sources[s].tags)}

CanAccessSkill(e, tags) ==
    <<"skill", "read", "all">> \in RestPermissions(e) \/ Shares(e, tags)
SkillFilter(e) == ScopeLevel(RestPermissions(e), "skill", "read")
ApplySkillFilters(e, filter, tags) == filter = "own_dept" => Shares(e, tags)
SkillListed(e, tags) ==
    SkillFilter(e) # "none" /\ ApplySkillFilters(e, SkillFilter(e), tags)

(***************************************************************************)
(* Documents over MCP: the scope resolved for a token, and its tools.      *)
(* "ready" are the documents that have been ingested; a list may ask for   *)
(* the others, being processed or in error, and for all.                   *)
(***************************************************************************)
ActiveWorkspaces(e) == {p \in DOMAIN workspaces : /\ workspaces[p].status = "active"
                                                  /\ e \in DOMAIN workspaces[p].members}
LinkedSources(e) == UNION {workspaces[p].linked : p \in ActiveWorkspaces(e)}
\* mutant: the documents of everybody are left out
TaggedSources(e) == {s \in DOMAIN sources : sources[s].tags \intersect staff[e].depts # {}}
DepartmentSources(e) == {s \in DOMAIN sources : Shares(e, sources[s].tags)}

DocLevel(e) == ScopeLevel(McpPermissions(e), "doc", "read")
AllowedSources(e) == CASE DocLevel(e) = "all"      -> DOMAIN sources
                       [] DocLevel(e) = "own_dept" -> DepartmentSources(e)
                       [] OTHER                    -> {}
ApplyScopeFilter(e, rows) ==
    IF DocLevel(e) = "all" THEN rows
    ELSE rows \intersect (AllowedSources(e) \union LinkedSources(e))

Statuses == {"ready", "other", "all"}
Asked(status, ready) == CASE status = "ready" -> ready
                          [] status = "other" -> DOMAIN sources \ ready
                          [] OTHER            -> DOMAIN sources
ListSources(e, status, ready) == ApplyScopeFilter(e, Asked(status, ready))
AllowedSourceIds(e, ready) ==     \* not asked of a caller who may read all
    ApplyScopeFilter(e, ready)
ReadSource(e, s, ready) ==
    s \in DOMAIN sources /\ (DocLevel(e) = "all" \/ s \in AllowedSourceIds(e, ready))

(***************************************************************************)
(* Wiki pages: a page belongs to everybody, a department or a workspace    *)
(***************************************************************************)
Everybody == "global"
\* The ids of rows are UUIDs: one tells a department from a workspace.
ASSUME ScopesDiffer == /\ Everybody \notin Departments \union Projects
                       /\ Departments \intersect Projects = {}
PageScopes == {Everybody} \union Departments \union Projects
Memberships(e) == {p \in Projects : IsMember(e, p)}
ReadsWiki(e) == HasAny(RestPermissions(e), "wiki", "read")
ReadsAllWiki(e) == <<"wiki", "read", "all">> \in RestPermissions(e)

WikiScopeFilter(e) ==
    CASE ScopeLevel(RestPermissions(e), "wiki", "read") = "all"  -> PageScopes
      [] ScopeLevel(RestPermissions(e), "wiki", "read") = "none" -> {}
      [] OTHER -> {Everybody} \union staff[e].depts \union Memberships(e)

ListWikiPages(e, only) == IF ReadsWiki(e) THEN WikiScopeFilter(e) \intersect only ELSE {}
WikiGraph(e) == IF ReadsWiki(e) THEN WikiScopeFilter(e) ELSE {}
(* The graph around one slug: "near" are the scopes of the pages with that    *)
(* slug and of those a few links away.                                        *)
WikiGraphAround(e, near) == IF ReadsWiki(e) THEN near ELSE {}

GetWikiPage(e, x) ==
    /\ ReadsWiki(e)
    /\ x \in Projects => ReadsAllWiki(e) \/ IsMember(e, x)
    /\ x \in Departments => ReadsAllWiki(e) \/ x \in staff[e].depts
GetWikiIndex(e, x) ==
    /\ ReadsWiki(e)
    /\ x \notin Projects \/ ReadsAllWiki(e) \/ IsMember(e, x)
    /\ x \notin Departments \/ ReadsAllWiki(e) \/ x \in staff[e].depts

MyWikiScopes(e) ==
    {Everybody} \union
    IF ReadsAllWiki(e)
    THEN departments \union DOMAIN workspaces
    ELSE staff[e].depts \union Memberships(e)

ScopeFilterForIdentity(D, P) == {Everybody} \union D \union P
InverseScopeFilter(D, P) == (Departments \ D) \union (Projects \ P)
ListPages(D, P, all) == IF all THEN PageScopes
                        ELSE IF D \union P # {} THEN ScopeFilterForIdentity(D, P)
                        ELSE {Everybody}
SearchPages(D, P, all, inverse) == IF inverse THEN InverseScopeFilter(D, P)
                                   ELSE ListPages(D, P, all)

McpListed(e) == ListPages(staff[e].depts, ActiveWorkspaces(e), IsAdmin(e))
SearchWiki(e) ==
    LET search(inverse) == SearchPages(staff[e].depts, ActiveWorkspaces(e), IsAdmin(e), inverse)
    IN [hits |-> search(FALSE), hint |-> IF IsAdmin(e) THEN {} ELSE search(TRUE)]

(* read_wiki_page walks the scopes in this order; "where" are those in which *)
(* the slug has a page.                                                      *)
\* mutant: workspaces that are not active count
ReadWhereMember(e, where) == where \intersect ({Everybody} \union staff[e].depts
                                               \union Memberships(e))
McpRead(e, where) ==
    IF Everybody \in where THEN {Everybody}
    ELSE IF where \intersect staff[e].depts # {} THEN where \intersect staff[e].depts
    ELSE where \intersect ActiveWorkspaces(e)

(***************************************************************************)
(* Workspaces: what its pages list                                         *)
(***************************************************************************)
CanAccessWorkspace(e, p) == IsAdmin(e) \/ IsMember(e, p)
ListProjects(e) == IF IsAdmin(e) THEN DOMAIN workspaces
                   ELSE {p \in DOMAIN workspaces : e \in DOMAIN workspaces[p].members}
ListMembers(e, p) == IF CanAccessWorkspace(e, p) THEN DOMAIN workspaces[p].members ELSE {}
MemberCandidates(e, p) == IF May(e, p, "admin") THEN Accounts \ DOMAIN workspaces[p].members
                          ELSE {}
OwnSources(p) == {s \in DOMAIN sources : sources[s].owner = p}
\* mutant: its own documents are left out
ListLinkedSources(e, p) == IF CanAccessWorkspace(e, p) THEN workspaces[p].linked ELSE {}
ListProjectSources(e, p) == IF CanAccessWorkspace(e, p)
                            THEN workspaces[p].linked \union OwnSources(p) ELSE {}
SourceCandidates(e, p) == IF May(e, p, "editor") THEN DOMAIN sources \ workspaces[p].linked
                          ELSE {}
ListWorkspaceWiki(e, p) == IF CanAccessWorkspace(e, p) THEN {p} ELSE {}

(***************************************************************************)
(* Wiki drafts: who may propose and review, and who hears of it.  A draft  *)
(* edits a page of its scope or shall create one there.                    *)
(***************************************************************************)
Drafts == [kind : {"edit", "create"}, scope : PageScopes, author : Employees]

CanPropose(e, x) ==
    \/ IsAdmin(e)
    \/ x \in Projects /\ RoleCan(WorkspaceRole(e, x), "contributor")
    \/ x \in Departments /\ \/ <<"wiki", "write", "all">> \in RestPermissions(e)
                            \/ /\ <<"wiki", "write", "own_dept">> \in RestPermissions(e)
                               /\ x \in staff[e].depts
    \/ x = Everybody /\ HasAny(RestPermissions(e), "wiki", "write")
CanReview(e, x) ==
    \/ IsAdmin(e)
    \/ x \in Projects /\ RoleCan(WorkspaceRole(e, x), "editor")
    \/ x \notin Projects /\ <<"wiki", "write", "all">> \in RestPermissions(e)
(* A create draft names its scope itself. *)
CanReviewDraft(e, d) == CanReview(e, d.scope)

ReviewsAll(perms, e) == IsAdmin(e) \/ <<"wiki", "write", "all">> \in perms
EditedWorkspaces(e) == {p \in Projects : /\ IsMember(e, p)
                                         /\ workspaces[p].members[e] \in {"editor", "admin"}}
ReviewablePages(e) == IF ReviewsAll(RestPermissions(e), e) THEN PageScopes
                      ELSE EditedWorkspaces(e)

(* A create draft has no page for the filter to look at. *)
ListAllDrafts(e) ==
    {d \in Drafts : /\ ReadsWiki(e)
                    /\ \/ ReviewsAll(RestPermissions(e), e)
                       \/ d.kind = "edit" /\ d.scope \in ReviewablePages(e)}
ListPageDrafts(e, x) == {d \in Drafts : /\ d.kind = "edit" /\ d.scope = x
                                        /\ CanReview(e, x) \/ d.author = e}
OpenDraft(e, d) == IsAdmin(e) \/ d.author = e \/ CanReviewDraft(e, d)

(* The same over MCP, which reads the caller's row as it is. *)
CanReviewPage(e, x) ==
    IF x \in Projects THEN RoleCan(WorkspaceRole(e, x), "editor")
    ELSE <<"wiki", "write", "all">> \in McpPermissions(e)
CanContributeToPage(e, x) ==
    \/ IsAdmin(e)
    \/ IF x \in Projects THEN RoleCan(WorkspaceRole(e, x), "contributor")
       ELSE IF x \in Departments
       THEN \/ <<"wiki", "write", "all">> \in McpPermissions(e)
            \/ <<"wiki", "write", "own_dept">> \in McpPermissions(e) /\ x \in staff[e].depts
       ELSE HasAny(McpPermissions(e), "wiki", "write")
ListPendingDrafts(e) ==
    {d \in Drafts : /\ d.kind = "edit"
                    /\ ReviewsAll(McpPermissions(e), e) \/ d.scope \in EditedWorkspaces(e)}
ReviewDraft(e, d) == d.kind = "edit" /\ CanReviewPage(e, d.scope)

(* services/notification_service.py: whom a submission is told. *)
\* mutant: editors are not told
GetWorkspaceAdmins(p) == IF p \in DOMAIN workspaces THEN Admins(p) ELSE {}
GetWorkspaceReviewers(p) == {e \in DOMAIN staff : p \in EditedWorkspaces(e)}
GetGlobalReviewers ==
    {e \in DOMAIN staff : \/ IsAdmin(e)
                          \/ /\ staff[e].custom # NoRole
                             /\ <<"wiki", "write", "all">> \in roles[staff[e].custom]}
GetReviewersForScope(x) ==
    GetGlobalReviewers \union (IF x \in Projects THEN GetWorkspaceReviewers(x) ELSE {})
DraftReviewers(d) == IF d.kind = "create" THEN GetGlobalReviewers
                     ELSE GetReviewersForScope(d.scope)
NotifyMany(recipients, actor) == recipients \ {actor}
NotifySubmitted(d) == NotifyMany(DraftReviewers(d), d.author)

(* The predicates that list or hide the tools. *)
RoleSomewhere(e, required) ==
    IsAdmin(e) \/ \E p \in ActiveWorkspaces(e) :
                      RoleCan(workspaces[p].members[e], required)
\* mutant: a workspace editor does not see the tools
ReviewToolsOfAdmins(e) == \/ <<"wiki", "write", "all">> \in McpPermissions(e)
                          \/ RoleSomewhere(e, "admin")
ReviewToolsShown(e) == \/ <<"wiki", "write", "all">> \in McpPermissions(e)
                       \/ RoleSomewhere(e, "editor")
ContributeToolsShown(e) == \/ HasAny(McpPermissions(e), "wiki", "write")
                           \/ RoleSomewhere(e, "contributor")

(***************************************************************************)
(* Properties.  They speak of the rows alone, and are asked when no request *)
(* is under way: since a request may abort at any time, all rows that can  *)
(* be reached at all are reached in such a state.  A caller is settled if  *)
(* the web API and the MCP server read the same role of it.                *)
(***************************************************************************)
AtRest == \A k \in Callers : calls[k] = NoCall
Settled(e) == IsAdmin(e) \/ staff[e].custom # NoRole

(* The list of documents and the check of one document are written twice and *)
(* must agree; so must those of skills, for callers with a permission on      *)
(* them, which can_access_skill itself does not ask for, other than its       *)
(* docstring says (permission_engine.py:178, 188-193).  Over MCP a caller     *)
(* lists what the web API lists and what its active workspaces link.          *)
(* Whatever it can read there is listed; and of what is listed it can read    *)
(* the ingested documents, but one that is not ingested yet only if it may    *)
(* read all (tools.py:86 asks for "ready", 697-738 do not).                   *)
DocumentRoutesAgree ==
    AtRest => \A e \in Accounts :
       /\ ListedSources(e) = {s \in DOMAIN sources : CanAccessDocument(e, s)}
       /\ HasAny(RestPermissions(e), "skill", "read") =>
             \A D \in SUBSET departments : CanAccessSkill(e, D) <=> SkillListed(e, D)
       /\ \A ready \in SUBSET DOMAIN sources :
             /\ Settled(e) =>
                   ListSources(e, "all", ready) = ListedSources(e) \union LinkedSources(e)
             /\ \A s \in DOMAIN sources :
                   ReadSource(e, s, ready) => s \in ListSources(e, "all", ready)
             /\ \A status \in Statuses : \A s \in ListSources(e, status, ready) :
                   ReadSource(e, s, ready) <=> s \in ready \/ DocLevel(e) = "all"

(* A wiki page that is listed or drawn in the graph of all pages can be       *)
(* opened, its index be read and its scope be chosen, and conversely; over    *)
(* MCP an employee opens a slug exactly if some page with it is listed, and   *)
(* only listed pages; search finds those, and its hint counts exactly the     *)
(* others.  The graph around one slug asks for no scope, whatever its comment *)
(* says (wiki.py:645): what it draws can be opened only as far as the graph   *)
(* of all pages draws it too.                                                 *)
WikiRoutesAgree ==
    AtRest => \A e \in Accounts :
       /\ WikiGraph(e) = ListWikiPages(e, PageScopes)
       /\ \A near \in SUBSET PageScopes :
             (\A x \in WikiGraphAround(e, near) : GetWikiPage(e, x))
                <=> near \subseteq WikiGraph(e) \/ ~ReadsWiki(e)
       /\ \A x \in PageScopes :
             /\ ListWikiPages(e, {x}) # {} <=> GetWikiPage(e, x)
             /\ GetWikiIndex(e, x) <=> GetWikiPage(e, x)
             /\ ReadsWiki(e) /\ x \in {Everybody} \union departments \union DOMAIN workspaces =>
                   (x \in MyWikiScopes(e) <=> GetWikiPage(e, x))
       /\ SearchWiki(e).hits = McpListed(e) /\ SearchWiki(e).hint = PageScopes \ McpListed(e)
       /\ ~IsAdmin(e) => \A where \in SUBSET PageScopes :
             /\ McpRead(e, where) \subseteq McpListed(e)
             /\ McpRead(e, where) = {} => where \intersect McpListed(e) = {}

(* Exactly the workspaces that are listed can be entered, and whoever reads  *)
(* the wiki at all reads theirs everywhere.  An account is a member or can   *)
(* be picked, a document is shown or can be picked; and a member of an       *)
(* active workspace reads what it links over MCP as well, whatever the       *)
(* member's own permissions.                                                 *)
WorkspaceRoutesAgree ==
    AtRest => \A e \in Accounts, p \in DOMAIN workspaces :
       /\ p \in ListProjects(e) <=> ListWorkspaceWiki(e, p) # {}
       /\ ReadsWiki(e) /\ ListWorkspaceWiki(e, p) # {} => GetWikiPage(e, p)
       /\ May(e, p, "admin") => Accounts \subseteq ListMembers(e, p) \union MemberCandidates(e, p)
       /\ May(e, p, "editor") =>
             SourceCandidates(e, p) \ OwnSources(p) = DOMAIN sources \ ListProjectSources(e, p)
       /\ p \in ActiveWorkspaces(e) =>
             \A s \in ListProjectSources(e, p) : sources[s].owner = p \/ ReadSource(e, s, DOMAIN sources)

(* Whoever may review a draft is told of it and finds it in the lists of the *)
(* web API and of the MCP server, which decide alike; the editors of a       *)
(* workspace miss the drafts that shall create a page there.  And whoever is *)
(* told can open the draft, those excepted who hear of the drafts of every   *)
(* workspace because they may write all other pages.                         *)
DraftRoutesAgree ==
    AtRest => \A e \in Accounts, d \in Drafts :
       /\ Settled(e) =>
             /\ CanPropose(e, d.scope) <=> CanContributeToPage(e, d.scope)
             /\ d.kind = "edit" => (ReviewDraft(e, d) <=> CanReviewDraft(e, d))
       /\ Settled(e) /\ CanReviewDraft(e, d) =>
             \/ /\ d.author = e \/ e \in NotifySubmitted(d)
                /\ ReadsWiki(e) => d \in ListAllDrafts(e)
                /\ d.kind = "edit" => d \in ListPendingDrafts(e) \intersect ListPageDrafts(e, d.scope)
             \/ d.kind = "create" /\ d.scope \in Projects
       /\ e \in NotifySubmitted(d) =>
             OpenDraft(e, d) \/ (d.scope \in Projects /\ e \in GetGlobalReviewers)

(* mcp/permissions.py hides a tool only from callers whom its body would     *)
(* refuse on every page, pages of workspaces that are not active aside.      *)
HiddenToolsAreUseless ==
    AtRest => \A e \in Accounts, x \in PageScopes :
       (x \in Projects => IsAdmin(e) \/ x \in ActiveWorkspaces(e)) =>
       /\ CanReviewPage(e, x) => ReviewToolsShown(e)
       /\ CanContributeToPage(e, x) => ContributeToolsShown(e)
=============================================================================
