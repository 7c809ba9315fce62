---------------------------- MODULE Routes_proofs ----------------------------
(* The copies of each rule of module Routes agree in every state that the    *)
(* requests of module Access reach, for every organization: the rules differ *)
(* only where the rows would have to be out of order, and AccessInv says     *)
(* that they never are.                                                      *)
EXTENDS Routes, Access_proofs

(* The order of the roles in a workspace.                                    *)
LEMMA Ranks ==
    /\ \A r \in MemberRoles : /\ RoleCan(r, "admin") <=> r = "admin"
                              /\ RoleCan(r, "editor") <=> r \in {"editor", "admin"}
    /\ \A required \in {"contributor", "editor", "admin"} :
          ~RoleCan("none", required) /\ RoleCan("admin", required)
<1>1. /\ Level["viewer"] = 0 /\ Level["contributor"] = 1 /\ Level["editor"] = 2
      /\ Level["admin"] = 3 /\ Level["none"] = -1
  BY DEF Level
<1> QED
  BY <1>1 DEF RoleCan, MemberRoles

(* What the rows say of one caller.                                          *)
LEMMA CallerRow ==
    ASSUME AccessInv, NEW e \in Accounts
    PROVE  /\ e \in DOMAIN staff /\ staff[e].depts \subseteq Departments
           /\ staff[e].depts \subseteq departments /\ departments \subseteq Departments
           /\ DOMAIN workspaces \subseteq Projects
           /\ LinkedSources(e) \subseteq DOMAIN sources
           /\ ActiveWorkspaces(e) \subseteq DOMAIN workspaces
           /\ Memberships(e) \subseteq Projects
<1>1. e \in DOMAIN staff /\ staff[e].depts \subseteq departments /\ departments \subseteq Departments
  BY Rows DEF Accounts
<1>2. \A p \in DOMAIN workspaces : p \in Projects /\ workspaces[p].linked \subseteq DOMAIN sources
  BY WorkspaceRow
<1>3. ActiveWorkspaces(e) \subseteq DOMAIN workspaces /\ Memberships(e) \subseteq Projects
  BY DEF ActiveWorkspaces, Memberships
<1>4. LinkedSources(e) \subseteq DOMAIN sources
  BY <1>2, <1>3 DEF LinkedSources
<1> QED
  BY <1>1, <1>2, <1>3, <1>4

(* A caller's role in a workspace: an administrator's everywhere, else the   *)
(* one the members say.                                                      *)
LEMMA WorkspaceRank ==
    ASSUME AccessInv, NEW e \in Accounts, NEW p,
           NEW required \in {"contributor", "editor", "admin"}
    PROVE  /\ IsAdmin(e) => RoleCan(WorkspaceRole(e, p), required)
           /\ ~IsAdmin(e) /\ RoleCan(WorkspaceRole(e, p), required) =>
                 /\ IsMember(e, p)
                 /\ RoleCan(workspaces[p].members[e], required)
           /\ IsMember(e, p) =>
                 /\ p \in Projects /\ workspaces[p].members[e] \in MemberRoles
                 /\ ~IsAdmin(e) => WorkspaceRole(e, p) = workspaces[p].members[e]
<1>1. IsMember(e, p) => p \in Projects /\ workspaces[p].members[e] \in MemberRoles
  BY WorkspaceRow DEF IsMember
<1> QED
  BY <1>1, Ranks DEF WorkspaceRole

(* A caller has all permissions or those of its role, and a settled one has  *)
(* the same for both servers.                                                *)
LEMMA CallerPermissions ==
    ASSUME AccessInv, NEW e \in Accounts
    PROVE  /\ IsAdmin(e) => RestPermissions(e) = Permissions /\ McpPermissions(e) = Permissions
           /\ Settled(e) => RestPermissions(e) = McpPermissions(e)
           /\ ~IsAdmin(e) /\ staff[e].custom # NoRole =>
                 /\ RestPermissions(e) = roles[staff[e].custom]
                 /\ McpPermissions(e) = roles[staff[e].custom]
           /\ \A a \in {"read", "write"} : <<"wiki", a, "all">> \in Permissions
<1>1. \A P \in SUBSET Permissions : Migrated(P) = P
  BY DEF Migrated, IsLegacy
<1>2. /\ staff[e].custom \in DOMAIN roles \union {NoRole}
      /\ \A r \in DOMAIN roles : roles[r] \subseteq Permissions
  BY Rows DEF AccessInv, RoleTable, Accounts
<1>3. staff[e].custom # NoRole => Granted(staff[e].custom) = roles[staff[e].custom]
  BY <1>1, <1>2 DEF Granted
<1>4. \A a \in {"read", "write"} : <<"wiki", a, "all">> \in Permissions
  BY DEF Permissions, Scoped, Levels
<1> QED
  BY <1>3, <1>4 DEF RestPermissions, McpPermissions, Attaches, Settled

-----------------------------------------------------------------------------
(* Documents and skills.                                                     *)

\* The list of documents and the check of one document agree, and those of
\* skills do; over MCP what can be read is listed, and what is listed can be read
\* if it is ingested or the caller may read all.  With the permissions the two
\* servers share, it is what the web API lists and the workspaces link.
LEMMA DocumentsAgree == AccessInv => DocumentRoutesAgree
<1> SUFFICES ASSUME AccessInv, NEW e \in Accounts
    PROVE  /\ ListedSources(e) = {s \in DOMAIN sources : CanAccessDocument(e, s)}
           /\ HasAny(RestPermissions(e), "skill", "read") =>
                 \A D \in SUBSET departments : CanAccessSkill(e, D) <=> SkillListed(e, D)
           /\ \A ready \in SUBSET DOMAIN sources :
                 /\ Settled(e) =>
                       ListSources(e, "all", ready) = ListedSources(e) \union LinkedSources(e)
                 /\ \A s \in DOMAIN sources :
                       ReadSource(e, s, ready) => s \in ListSources(e, "all", ready)
                 /\ \A status \in Statuses : \A s \in ListSources(e, status, ready) :
                       ReadSource(e, s, ready) <=> s \in ready \/ DocLevel(e) = "all"
  BY DEF DocumentRoutesAgree
<1>1. ListedSources(e) = {s \in DOMAIN sources : CanAccessDocument(e, s)}
  BY DEF ListedSources, CanAccessDocument, ScopeLevel
<1>2. ASSUME HasAny(RestPermissions(e), "skill", "read"), NEW D \in SUBSET departments
      PROVE  CanAccessSkill(e, D) <=> SkillListed(e, D)
  BY <1>2 DEF CanAccessSkill, SkillListed, SkillFilter, ApplySkillFilters, HasAny, ScopeLevel
<1>3. ASSUME Settled(e), NEW ready \in SUBSET DOMAIN sources
      PROVE  ListSources(e, "all", ready) = ListedSources(e) \union LinkedSources(e)
  <2>1. RestPermissions(e) = McpPermissions(e) /\ LinkedSources(e) \subseteq DOMAIN sources
    BY <1>3, CallerPermissions, CallerRow
  <2> DEFINE level == ScopeLevel(RestPermissions(e), "doc", "read")
  <2>2. DocLevel(e) = level /\ level \in {"all", "own_dept", "none"}
    BY <2>1 DEF DocLevel, ScopeLevel
  <2> HIDE DEF level
  <2>3. ListedSources(e) = CASE level = "all"      -> DOMAIN sources
                             [] level = "own_dept" -> DepartmentSources(e)
                             [] OTHER              -> {}
    <3>1. ASSUME NEW s \in DOMAIN sources
          PROVE  s \in ListedSources(e) <=>
                    level # "none" /\ (level = "own_dept" => Shares(e, sources[s].tags))
      BY DEF ListedSources, level
    <3>2. ListedSources(e) \subseteq DOMAIN sources /\ DepartmentSources(e) \subseteq DOMAIN sources
      BY DEF ListedSources, DepartmentSources
    <3> QED
      BY <2>2, <3>1, <3>2 DEF DepartmentSources
  <2>4. DepartmentSources(e) \subseteq DOMAIN sources
    BY DEF DepartmentSources
  <2> QED
    BY <2>1, <2>2, <2>3, <2>4 DEF ListSources, Asked, ApplyScopeFilter, AllowedSources
<1>4. ASSUME NEW ready \in SUBSET DOMAIN sources, NEW s \in DOMAIN sources,
             ReadSource(e, s, ready)
      PROVE  s \in ListSources(e, "all", ready)
  BY <1>4 DEF ListSources, Asked, ReadSource, AllowedSourceIds, ApplyScopeFilter
<1>5. ASSUME NEW ready \in SUBSET DOMAIN sources, NEW status \in Statuses,
             NEW s \in ListSources(e, status, ready)
      PROVE  ReadSource(e, s, ready) <=> s \in ready \/ DocLevel(e) = "all"
  <2>1. Asked(status, ready) \subseteq DOMAIN sources
    BY DEF Asked, Statuses
  <2>2. CASE DocLevel(e) = "all"
    BY <2>1, <2>2 DEF ListSources, ReadSource, ApplyScopeFilter
  <2>3. CASE DocLevel(e) # "all"
    BY <2>1, <2>3 DEF ListSources, ReadSource, AllowedSourceIds, ApplyScopeFilter
  <2> QED
    BY <2>2, <2>3
<1> QED
  BY <1>1, <1>2, <1>3, <1>4, <1>5

-----------------------------------------------------------------------------
(* Wiki pages.                                                               *)

\* What a caller is shown of the wiki over the web API: its scopes, listed,
\* opened and chosen.
LEMMA WikiRead ==
    ASSUME AccessInv, NEW e \in Accounts, NEW x \in PageScopes
    PROVE  /\ x \in WikiScopeFilter(e) <=> GetWikiPage(e, x)
           /\ WikiScopeFilter(e) \subseteq PageScopes
           /\ ~ReadsWiki(e) => WikiScopeFilter(e) = {}
           /\ ReadsWiki(e) /\ x \in {Everybody} \union departments \union DOMAIN workspaces =>
                 (x \in MyWikiScopes(e) <=> GetWikiPage(e, x))
<1> DEFINE level == ScopeLevel(RestPermissions(e), "wiki", "read")
           own == {Everybody} \union staff[e].depts \union Memberships(e)
<1>1. /\ level \in {"all", "own_dept", "none"} /\ ReadsWiki(e) <=> level # "none"
      /\ ReadsAllWiki(e) <=> level = "all"
  BY DEF ReadsWiki, ReadsAllWiki, HasAny, ScopeLevel
<1>2. WikiScopeFilter(e) = CASE level = "all" -> PageScopes [] level = "none" -> {} [] OTHER -> own
  BY DEF WikiScopeFilter
<1>3. /\ staff[e].depts \subseteq Departments /\ departments \subseteq Departments
      /\ DOMAIN workspaces \subseteq Projects /\ Memberships(e) \subseteq Projects
      /\ \A p \in Projects : p \in Memberships(e) <=> IsMember(e, p)
  BY CallerRow DEF Memberships
<1>4. /\ own \subseteq PageScopes
      /\ x \in own <=> (x \in Projects => IsMember(e, x)) /\ (x \in Departments => x \in staff[e].depts)
  <2>1. \/ x = Everybody /\ x \notin Projects /\ x \notin Departments
        \/ x \in Departments /\ x \notin Projects /\ x # Everybody
        \/ x \in Projects /\ x \notin Departments /\ x # Everybody
    BY ScopesDiffer DEF PageScopes
  <2>2. own \subseteq PageScopes
    BY <1>3 DEF PageScopes
  <2>3. x \in own <=> x = Everybody \/ x \in staff[e].depts \/ x \in Memberships(e)
    OBVIOUS
  <2> QED
    BY <1>3, <2>1, <2>2, <2>3
<1> HIDE DEF level, own
<1>5. x \in WikiScopeFilter(e) <=> GetWikiPage(e, x)
  BY <1>1, <1>2, <1>4 DEF GetWikiPage
<1>6. WikiScopeFilter(e) \subseteq PageScopes /\ (~ReadsWiki(e) => WikiScopeFilter(e) = {})
  BY <1>1, <1>2, <1>4
<1>7. ASSUME ReadsWiki(e), x \in {Everybody} \union departments \union DOMAIN workspaces
      PROVE  x \in MyWikiScopes(e) <=> GetWikiPage(e, x)
  <2>1. CASE ReadsAllWiki(e)
    BY <1>7, <2>1 DEF MyWikiScopes, GetWikiPage
  <2>2. CASE ~ReadsAllWiki(e)
    <3>1. MyWikiScopes(e) = own
      BY <2>2 DEF MyWikiScopes, own
    <3> QED
      BY <1>4, <1>7, <2>2, <3>1 DEF GetWikiPage
  <2> QED
    BY <2>1, <2>2
<1> QED
  BY <1>5, <1>6, <1>7

\* What it is shown over MCP: the pages listed, found and opened by a slug.
LEMMA WikiOverMcp ==
    ASSUME AccessInv, NEW e \in Accounts
    PROVE  /\ SearchWiki(e).hits = McpListed(e)
           /\ SearchWiki(e).hint = PageScopes \ McpListed(e)
           /\ ~IsAdmin(e) => \A where \in SUBSET PageScopes :
                 /\ McpRead(e, where) \subseteq McpListed(e)
                 /\ McpRead(e, where) = {} => where \intersect McpListed(e) = {}
<1> DEFINE D == staff[e].depts
           P == ActiveWorkspaces(e)
<1>1. D \subseteq Departments /\ P \subseteq Projects
  BY CallerRow
<1>2. McpListed(e) = IF IsAdmin(e) THEN PageScopes ELSE {Everybody} \union D \union P
  BY DEF McpListed, ListPages, ScopeFilterForIdentity
<1>3. SearchWiki(e).hits = McpListed(e)
  BY DEF SearchWiki, SearchPages, McpListed
<1>4. SearchWiki(e).hint = PageScopes \ McpListed(e)
  <2>1. SearchWiki(e).hint = IF IsAdmin(e) THEN {} ELSE (Departments \ D) \union (Projects \ P)
    BY DEF SearchWiki, SearchPages, InverseScopeFilter
  <2>2. (Departments \ D) \union (Projects \ P) = PageScopes \ ({Everybody} \union D \union P)
    BY <1>1, ScopesDiffer DEF PageScopes
  <2> HIDE DEF D, P
  <2> QED
    BY <1>2, <2>1, <2>2
<1>5. ASSUME ~IsAdmin(e), NEW where \in SUBSET PageScopes
      PROVE  /\ McpRead(e, where) \subseteq McpListed(e)
             /\ McpRead(e, where) = {} => where \intersect McpListed(e) = {}
  <2>1. McpRead(e, where) = IF Everybody \in where THEN {Everybody}
                            ELSE IF where \intersect D # {} THEN where \intersect D
                            ELSE where \intersect P
    BY DEF McpRead
  <2> HIDE DEF D, P
  <2> QED
    BY <1>2, <1>5, <2>1
<1> QED
  BY <1>3, <1>4, <1>5

\* The wiki's routes agree.
LEMMA WikiAgrees == AccessInv => WikiRoutesAgree
<1> SUFFICES ASSUME AccessInv, NEW e \in Accounts
    PROVE  /\ WikiGraph(e) = ListWikiPages(e, PageScopes)
           /\ \A near \in SUBSET PageScopes :
                 (\A x \in WikiGraphAround(e, near) : GetWikiPage(e, x))
                    <=> near \subseteq WikiGraph(e) \/ ~ReadsWiki(e)
           /\ \A x \in PageScopes :
                 /\ ListWikiPages(e, {x}) # {} <=> GetWikiPage(e, x)
                 /\ GetWikiIndex(e, x) <=> GetWikiPage(e, x)
                 /\ ReadsWiki(e) /\ x \in {Everybody} \union departments \union DOMAIN workspaces =>
                       (x \in MyWikiScopes(e) <=> GetWikiPage(e, x))
           /\ SearchWiki(e).hits = McpListed(e) /\ SearchWiki(e).hint = PageScopes \ McpListed(e)
           /\ ~IsAdmin(e) => \A where \in SUBSET PageScopes :
                 /\ McpRead(e, where) \subseteq McpListed(e)
                 /\ McpRead(e, where) = {} => where \intersect McpListed(e) = {}
  BY DEF WikiRoutesAgree
<1>1. WikiGraph(e) = ListWikiPages(e, PageScopes)
  <2>1. Everybody \in PageScopes
    BY DEF PageScopes
  <2>2. WikiScopeFilter(e) \subseteq PageScopes
    BY <2>1, WikiRead
  <2> QED
    BY <2>2 DEF WikiGraph, ListWikiPages
<1>2. ASSUME NEW x \in PageScopes
      PROVE  /\ ListWikiPages(e, {x}) # {} <=> GetWikiPage(e, x)
             /\ GetWikiIndex(e, x) <=> GetWikiPage(e, x)
             /\ ReadsWiki(e) /\ x \in {Everybody} \union departments \union DOMAIN workspaces =>
                   (x \in MyWikiScopes(e) <=> GetWikiPage(e, x))
  <2>1. GetWikiIndex(e, x) <=> GetWikiPage(e, x)
    BY DEF GetWikiIndex, GetWikiPage
  <2>2. ListWikiPages(e, {x}) # {} <=> x \in WikiScopeFilter(e)
    BY WikiRead DEF ListWikiPages
  <2> QED
    BY <2>1, <2>2, WikiRead
<1>3. ASSUME NEW near \in SUBSET PageScopes
      PROVE  (\A x \in WikiGraphAround(e, near) : GetWikiPage(e, x))
                <=> near \subseteq WikiGraph(e) \/ ~ReadsWiki(e)
  <2>1. ASSUME ReadsWiki(e), NEW x \in near PROVE GetWikiPage(e, x) <=> x \in WikiGraph(e)
    <3>1. ListWikiPages(e, {x}) # {} <=> GetWikiPage(e, x)
      BY <1>2
    <3> QED
      BY <3>1, <2>1 DEF ListWikiPages, WikiGraph
  <2>2. ReadsWiki(e) => WikiGraphAround(e, near) = near
    BY DEF WikiGraphAround
  <2>3. ~ReadsWiki(e) => WikiGraphAround(e, near) = {}
    BY DEF WikiGraphAround
  <2> QED
    BY <2>1, <2>2, <2>3
<1> QED
  BY <1>1, <1>2, <1>3, WikiOverMcp

-----------------------------------------------------------------------------
(* Workspaces.                                                               *)

\* The lists of a workspace agree with its checks.
LEMMA WorkspacesAgree == AccessInv => WorkspaceRoutesAgree
<1> SUFFICES ASSUME AccessInv, NEW e \in Accounts, NEW p \in DOMAIN workspaces
    PROVE  /\ p \in ListProjects(e) <=> ListWorkspaceWiki(e, p) # {}
           /\ ReadsWiki(e) /\ ListWorkspaceWiki(e, p) # {} => GetWikiPage(e, p)
           /\ May(e, p, "admin") => Accounts \subseteq ListMembers(e, p) \union MemberCandidates(e, p)
           /\ May(e, p, "editor") =>
                 SourceCandidates(e, p) \ OwnSources(p) = DOMAIN sources \ ListProjectSources(e, p)
           /\ p \in ActiveWorkspaces(e) =>
                 \A s \in ListProjectSources(e, p) :
                    sources[s].owner = p \/ ReadSource(e, s, DOMAIN sources)
  BY DEF WorkspaceRoutesAgree
<1>1. p \in Projects /\ p \notin Departments /\ workspaces[p].linked \subseteq DOMAIN sources
  BY WorkspaceRow, ScopesDiffer
<1>2. p \in ListProjects(e) <=> ListWorkspaceWiki(e, p) # {}
  BY DEF ListProjects, ListWorkspaceWiki, CanAccessWorkspace, IsMember
<1>3. ASSUME ReadsWiki(e), ListWorkspaceWiki(e, p) # {} PROVE GetWikiPage(e, p)
  <2>1. IsAdmin(e) \/ IsMember(e, p)
    BY <1>3 DEF ListWorkspaceWiki, CanAccessWorkspace
  <2>2. IsAdmin(e) => ReadsAllWiki(e)
    BY CallerPermissions DEF ReadsAllWiki
  <2> QED
    BY <1>1, <1>3, <2>1, <2>2 DEF GetWikiPage
<1>4. ASSUME NEW required \in {"editor", "admin"}, May(e, p, required)
      PROVE  CanAccessWorkspace(e, p)
  BY <1>4, WorkspaceRank DEF May, CanAccessWorkspace
<1>5. ASSUME May(e, p, "admin")
      PROVE  Accounts \subseteq ListMembers(e, p) \union MemberCandidates(e, p)
  BY <1>4, <1>5 DEF ListMembers, MemberCandidates
<1>6. ASSUME May(e, p, "editor")
      PROVE  SourceCandidates(e, p) \ OwnSources(p) = DOMAIN sources \ ListProjectSources(e, p)
  BY <1>4, <1>6 DEF SourceCandidates, ListProjectSources
<1>7. ASSUME p \in ActiveWorkspaces(e), NEW s \in ListProjectSources(e, p), sources[s].owner # p
      PROVE  ReadSource(e, s, DOMAIN sources)
  <2>1. s \in workspaces[p].linked /\ s \in DOMAIN sources
    BY <1>1, <1>7 DEF ListProjectSources, OwnSources
  <2>2. s \in LinkedSources(e)
    BY <1>7, <2>1 DEF LinkedSources
  <2> QED
    BY <2>1, <2>2 DEF ReadSource, AllowedSourceIds, ApplyScopeFilter
<1> QED
  BY <1>2, <1>3, <1>5, <1>6, <1>7

-----------------------------------------------------------------------------
(* Drafts.                                                                   *)

\* A scope is a workspace, a department or everybody, and only one of them.
LEMMA OneScope ==
    ASSUME NEW x \in PageScopes
    PROVE  \/ x = Everybody /\ x \notin Projects /\ x \notin Departments
           \/ x \in Departments /\ x \notin Projects /\ x # Everybody
           \/ x \in Projects /\ x \notin Departments /\ x # Everybody
BY ScopesDiffer DEF PageScopes

\* Who reviews the pages of a scope: an administrator, an editor of the
\* workspace, or a writer of everything else.
LEMMA Reviewers ==
    ASSUME AccessInv, NEW e \in Accounts, NEW x \in PageScopes
    PROVE  /\ ~IsAdmin(e) => (CanReview(e, x) <=>
                 \/ x \in EditedWorkspaces(e)
                 \/ x \notin Projects /\ <<"wiki", "write", "all">> \in RestPermissions(e))
           /\ IsAdmin(e) => CanReview(e, x) /\ <<"wiki", "write", "all">> \in RestPermissions(e)
           /\ IsAdmin(e) => CanReviewPage(e, x)
           /\ ~IsAdmin(e) => (CanReviewPage(e, x) <=>
                 \/ x \in EditedWorkspaces(e)
                 \/ x \notin Projects /\ <<"wiki", "write", "all">> \in McpPermissions(e))
           /\ x \in EditedWorkspaces(e) => x \in Projects
<1>1. ASSUME ~IsAdmin(e), x \in Projects
      PROVE  RoleCan(WorkspaceRole(e, x), "editor") <=> x \in EditedWorkspaces(e)
  BY <1>1, WorkspaceRank, Ranks DEF EditedWorkspaces, WorkspaceRole
<1>2. IsAdmin(e) => /\ <<"wiki", "write", "all">> \in RestPermissions(e)
                    /\ <<"wiki", "write", "all">> \in McpPermissions(e)
                    /\ RoleCan(WorkspaceRole(e, x), "editor")
  BY CallerPermissions, WorkspaceRank
<1>3. x \in EditedWorkspaces(e) => x \in Projects
  BY DEF EditedWorkspaces
<1> QED
  BY <1>1, <1>2, <1>3 DEF CanReview, CanReviewPage

\* Who may propose a change there, over both servers.
LEMMA Proposers ==
    ASSUME AccessInv, NEW e \in Accounts, Settled(e), NEW x \in PageScopes
    PROVE  CanPropose(e, x) <=> CanContributeToPage(e, x)
<1>1. RestPermissions(e) = McpPermissions(e)
  BY CallerPermissions
<1>2. CASE IsAdmin(e)
  BY <1>2 DEF CanPropose, CanContributeToPage
<1>3. CASE ~IsAdmin(e) /\ x \in Projects
  BY <1>3, OneScope DEF CanPropose, CanContributeToPage
<1>4. CASE ~IsAdmin(e) /\ x \in Departments
  BY <1>1, <1>4, OneScope DEF CanPropose, CanContributeToPage
<1>5. CASE ~IsAdmin(e) /\ x = Everybody
  BY <1>1, <1>5, OneScope DEF CanPropose, CanContributeToPage
<1> QED
  BY <1>2, <1>3, <1>4, <1>5, OneScope

\* Who hears of every draft: the administrators, and those whose role lets
\* them write all pages.
LEMMA GlobalReviewers ==
    ASSUME AccessInv, NEW e \in Accounts
    PROVE  e \in GetGlobalReviewers <=>
              IsAdmin(e) \/ (Settled(e) /\ <<"wiki", "write", "all">> \in RestPermissions(e))
<1>1. e \in DOMAIN staff
  BY CallerRow
<1> QED
  BY <1>1, CallerPermissions DEF GetGlobalReviewers, Settled

\* The two servers decide alike on a draft, and show it to whom they let
\* decide; whoever is told of it can open it.
LEMMA DraftsAgree == AccessInv => DraftRoutesAgree
<1> SUFFICES ASSUME AccessInv, NEW e \in Accounts, NEW d \in Drafts
    PROVE  /\ Settled(e) =>
                 /\ CanPropose(e, d.scope) <=> CanContributeToPage(e, d.scope)
                 /\ d.kind = "edit" => (ReviewDraft(e, d) <=> CanReviewDraft(e, d))
           /\ Settled(e) /\ CanReviewDraft(e, d) =>
                 \/ /\ d.author = e \/ e \in NotifySubmitted(d)
                    /\ ReadsWiki(e) => d \in ListAllDrafts(e)
                    /\ d.kind = "edit" => d \in ListPendingDrafts(e) \intersect ListPageDrafts(e, d.scope)
                 \/ d.kind = "create" /\ d.scope \in Projects
           /\ e \in NotifySubmitted(d) =>
                 OpenDraft(e, d) \/ (d.scope \in Projects /\ e \in GetGlobalReviewers)
  BY DEF DraftRoutesAgree
<1> DEFINE x == d.scope
<1>1. x \in PageScopes /\ d.kind \in {"edit", "create"} /\ e \in DOMAIN staff
  BY CallerRow DEF Drafts
<1>2. Settled(e) => RestPermissions(e) = McpPermissions(e)
  BY CallerPermissions
<1>3. ASSUME Settled(e)
      PROVE  /\ CanPropose(e, x) <=> CanContributeToPage(e, x)
             /\ d.kind = "edit" => (ReviewDraft(e, d) <=> CanReviewDraft(e, d))
  BY <1>1, <1>2, <1>3, Proposers, Reviewers DEF ReviewDraft, CanReviewDraft
<1>4. ASSUME Settled(e), CanReview(e, x), ~(d.kind = "create" /\ x \in Projects)
      PROVE  /\ d.author = e \/ e \in NotifySubmitted(d)
             /\ ReadsWiki(e) => d \in ListAllDrafts(e)
             /\ d.kind = "edit" => d \in ListPendingDrafts(e) \intersect ListPageDrafts(e, x)
  <2>1. \/ ReviewsAll(RestPermissions(e), e)
        \/ d.kind = "edit" /\ x \in EditedWorkspaces(e) /\ x \in Projects
    BY <1>1, <1>4, Reviewers DEF ReviewsAll
  <2>2. \/ e \in GetGlobalReviewers
        \/ d.kind = "edit" /\ x \in Projects /\ e \in GetWorkspaceReviewers(x)
    BY <1>1, <1>4, <2>1, GlobalReviewers DEF ReviewsAll, GetWorkspaceReviewers
  <2>3. d.author = e \/ e \in NotifySubmitted(d)
    BY <1>1, <2>2 DEF NotifySubmitted, NotifyMany, DraftReviewers, GetReviewersForScope
  <2>4. ReadsWiki(e) => d \in ListAllDrafts(e)
    BY <1>1, <2>1 DEF ListAllDrafts, ReviewablePages
  <2>5. d.kind = "edit" => d \in ListPendingDrafts(e)
    BY <1>2, <1>4, <2>1 DEF ListPendingDrafts
  <2>6. d.kind = "edit" => d \in ListPageDrafts(e, x)
    BY <1>4 DEF ListPageDrafts
  <2> QED
    BY <2>3, <2>4, <2>5, <2>6
<1>5. ASSUME e \in NotifySubmitted(d)
      PROVE  OpenDraft(e, d) \/ (x \in Projects /\ e \in GetGlobalReviewers)
  <2>1. e \in GetGlobalReviewers \/ (x \in Projects /\ e \in GetWorkspaceReviewers(x))
    BY <1>5 DEF NotifySubmitted, NotifyMany, DraftReviewers, GetReviewersForScope
  <2>2. CASE e \in GetGlobalReviewers /\ x \notin Projects
    BY <1>1, <2>2, GlobalReviewers, Reviewers DEF OpenDraft, CanReviewDraft
  <2>3. CASE e \in GetWorkspaceReviewers(x)
    <3>1. x \in EditedWorkspaces(e)
      BY <2>3 DEF GetWorkspaceReviewers
    <3> QED
      BY <1>1, <3>1, Reviewers DEF OpenDraft, CanReviewDraft
  <2> QED
    BY <2>1, <2>2, <2>3
<1> QED
  BY <1>3, <1>4, <1>5 DEF CanReviewDraft

\* Who may use a tool on some page sees it.
LEMMA ToolsShown == AccessInv => HiddenToolsAreUseless
<1> SUFFICES ASSUME AccessInv, NEW e \in Accounts, NEW x \in PageScopes,
                    x \in Projects => IsAdmin(e) \/ x \in ActiveWorkspaces(e)
             PROVE  /\ CanReviewPage(e, x) => ReviewToolsShown(e)
                    /\ CanContributeToPage(e, x) => ContributeToolsShown(e)
  BY DEF HiddenToolsAreUseless
<1>1. CASE IsAdmin(e)
  BY <1>1 DEF ReviewToolsShown, ContributeToolsShown, RoleSomewhere
<1>2. CASE ~IsAdmin(e) /\ x \in Projects
  <2>1. ASSUME NEW required \in {"contributor", "editor"}, RoleCan(WorkspaceRole(e, x), required)
        PROVE  RoleSomewhere(e, required)
    BY <1>2, <2>1, WorkspaceRank DEF RoleSomewhere
  <2>2. CanReviewPage(e, x) => ReviewToolsShown(e)
    BY <1>2, <2>1 DEF CanReviewPage, ReviewToolsShown
  <2>3. CanContributeToPage(e, x) => RoleCan(WorkspaceRole(e, x), "contributor")
    BY <1>2 DEF CanContributeToPage
  <2> QED
    BY <2>1, <2>2, <2>3 DEF ContributeToolsShown
<1>3. CASE ~IsAdmin(e) /\ x \notin Projects
  BY <1>3 DEF CanReviewPage, CanContributeToPage, ReviewToolsShown, ContributeToolsShown,
              HasAny, ScopeLevel
<1> QED
  BY <1>1, <1>2, <1>3

-----------------------------------------------------------------------------
(* The theorems.                                                             *)

\* Whatever requests came before, the documents and skills that a caller is
\* listed are those it may open (routers/sources.py, skills.py,
\* permission_engine.py), over MCP too (mcp_auth_service.py, mcp/tools.py).
THEOREM Documents == Spec => []DocumentRoutesAgree
BY DocumentsAgree, Invariant, PTL

\* So are wiki pages: lists, graph, page, index, scopes, the MCP search and its
\* hint, and read_wiki_page (routers/wiki.py, mcp/tools.py).
THEOREM WikiPages == Spec => []WikiRoutesAgree
BY WikiAgrees, Invariant, PTL

\* And the workspaces, their members, candidates and documents
\* (routers/projects.py).
THEOREM WorkspaceLists == Spec => []WorkspaceRoutesAgree
BY WorkspacesAgree, Invariant, PTL

\* Who may review a draft is told and shown it, and who is told can open it
\* (routers/wiki_drafts.py, notification_service.py, mcp/tools.py).
THEOREM DraftReview == Spec => []DraftRoutesAgree
BY DraftsAgree, Invariant, PTL

\* No tool is hidden from a caller its body would serve (mcp/permissions.py).
THEOREM ToolVisibility == Spec => []HiddenToolsAreUseless
BY ToolsShown, Invariant, PTL
=============================================================================
