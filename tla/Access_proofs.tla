---------------------------- MODULE Access_proofs ----------------------------
(* The rows of an organization for every number of accounts, roles,          *)
(* departments, workspaces, documents and overlapping requests: no row       *)
(* refers to a row that is gone, no dead token comes back, and a workspace   *)
(* loses its last administrator only to a race.  The invariant is a          *)
(* conjunction of one part per table, each said of the table and of the      *)
(* ids it may refer to, so that a commit is a step from tables to tables.    *)
EXTENDS Access, TLAPS

RoleIds == CustomRoles \union {EmployeeRole}
StaffRows == [role : {"admin", "employee"}, custom : RoleIds \union {NoRole},
              depts : SUBSET Departments, active : BOOLEAN, token : 0..MaxTokens]
SourceRows == [tags : SUBSET Departments, owner : Projects \union {NoRole}]
MemberMaps == UNION {[X -> MemberRoles] : X \in SUBSET Employees}
WorkspaceRows == [status : {"active", "archived"}, linked : SUBSET Sources,
                  members : MemberMaps]
CodeRows == [owner : Employees, used : BOOLEAN]

\* A table of accounts over the roles R, the departments D and n tokens.
StaffTable(f, R, D, n) ==
    /\ DOMAIN f \subseteq Employees
    /\ \A e \in DOMAIN f : /\ f[e] \in StaffRows /\ f[e].custom \in R \union {NoRole}
                           /\ f[e].depts \subseteq D /\ f[e].token \in 0..n
RoleTable(f) == /\ DOMAIN f \subseteq RoleIds /\ EmployeeRole \in DOMAIN f
                /\ \A r \in DOMAIN f : f[r] \subseteq Permissions
SourceTable(f, D) ==
    /\ DOMAIN f \subseteq Sources
    /\ \A s \in DOMAIN f : f[s] \in SourceRows /\ f[s].tags \subseteq D
WorkspaceTable(f, E, S) ==
    /\ DOMAIN f \subseteq Projects
    /\ \A p \in DOMAIN f : /\ f[p] \in WorkspaceRows /\ DOMAIN f[p].members \subseteq E
                           /\ f[p].linked \subseteq S
CodeTable(f, E) == \A c \in DOMAIN f : f[c] \in CodeRows /\ f[c].owner \in E

\* What a request may ask.  One about a member has counted administrators
\* other than this one, or makes an administrator.
DoOK(w) ==
    /\ w.op = "create_department" => w.id \in Departments
    /\ w.op \in {"create_employee", "update_employee"} =>
          w.id \in Employees /\ w.role \in {"admin", "employee"}
    /\ w.op = "toggle" => w.active \in BOOLEAN
    /\ w.op \in {"create_role", "update_role"} => w.id \in RoleIds /\ w.perms \subseteq Permissions
    /\ w.op = "delete_role" => w.id # EmployeeRole
    /\ w.op = "create_project" => w.id \in Projects
    /\ w.op = "set_status" => w.status \in {"active", "archived"}
    /\ w.op \in {"add_members", "set_member"} => w.role \in MemberRoles
    /\ w.op = "remove_member" => w.admins # {w.who}
    /\ w.op = "set_member" => w.role = "admin" \/ w.admins # {w.who}
    /\ w.op = "upload" => w.id \in Sources /\ w.owner \in Projects

StaffInv == StaffTable(staff, DOMAIN roles, departments, issued)
SourcesInv == SourceTable(sources, departments)
WorkspacesInv == WorkspaceTable(workspaces, DOMAIN staff, DOMAIN sources)
CodesInv == CodeTable(codes, DOMAIN staff)
CallsInv == /\ DOMAIN calls = Callers
            /\ \A k \in Callers : calls[k].by \in Employees /\ DoOK(calls[k].do)
Bounded == /\ departments \subseteq Departments
           /\ issued \in 0..MaxTokens /\ toCome \in 0..MaxCalls

AccessInv == /\ StaffInv /\ RoleTable(roles) /\ SourcesInv /\ WorkspacesInv /\ CodesInv
             /\ CallsInv /\ Bounded

\* A step gives out one new token at most.
TokensKept ==
    \A e \in DOMAIN staff' :
       \/ staff'[e].token \in {0, issued + 1}
       \/ e \in DOMAIN staff /\ staff'[e].token = staff[e].token

-----------------------------------------------------------------------------
(* Tables.                                                                   *)

\* A bigger table of roles, departments or tokens refers to no less.
LEMMA StaffGrows ==
    ASSUME NEW f, NEW R, NEW D, NEW n \in Nat, NEW R2, NEW D2, NEW n2 \in Nat,
           StaffTable(f, R, D, n), R \subseteq R2, D \subseteq D2, n <= n2
    PROVE  StaffTable(f, R2, D2, n2)
<1>1. ASSUME NEW e \in DOMAIN f PROVE f[e].token \in 0..n2
  BY DEF StaffTable
<1> QED
  BY <1>1 DEF StaffTable

\* What the attached role changes in a table: one column of one row.
LEMMA AttachedRows ==
    ASSUME NEW k, NEW f
    PROVE  /\ DOMAIN Attached(k, f) = DOMAIN f
           /\ \A e \in DOMAIN f :
                 Attached(k, f)[e] \in {f[e], [f[e] EXCEPT !.custom = EmployeeRole]}
<1>1. CASE calls[k].attach /\ calls[k].by \in DOMAIN f
  <2> DEFINE g == [f EXCEPT ![calls[k].by].custom = EmployeeRole]
  <2>1. /\ DOMAIN g = DOMAIN f
        /\ \A e \in DOMAIN f : g[e] \in {f[e], [f[e] EXCEPT !.custom = EmployeeRole]}
    BY <1>1
  <2>2. Attached(k, f) = g
    BY <1>1 DEF Attached
  <2> QED
    BY <2>1, <2>2
<1>2. CASE ~(calls[k].attach /\ calls[k].by \in DOMAIN f)
  BY <1>2 DEF Attached
<1> QED
  BY <1>1, <1>2

\* The attached role is one that is always there.
LEMMA AttachedTable ==
    ASSUME NEW k, NEW f, NEW R, NEW D, NEW n, StaffTable(f, R, D, n), EmployeeRole \in R
    PROVE  /\ StaffTable(Attached(k, f), R, D, n)
           /\ DOMAIN Attached(k, f) = DOMAIN f
           /\ \A e \in DOMAIN f : Attached(k, f)[e].token = f[e].token
<1>1. ASSUME NEW e \in DOMAIN f, NEW row \in {f[e], [f[e] EXCEPT !.custom = EmployeeRole]}
      PROVE  /\ row \in StaffRows /\ row.custom \in R \union {NoRole}
             /\ row.depts \subseteq D /\ row.token \in 0..n /\ row.token = f[e].token
  <2>1. /\ f[e] \in StaffRows /\ f[e].custom \in R \union {NoRole}
        /\ f[e].depts \subseteq D /\ f[e].token \in 0..n
    BY DEF StaffTable
  <2> QED
    BY <2>1 DEF StaffRows, RoleIds
<1>2. /\ DOMAIN Attached(k, f) = DOMAIN f /\ DOMAIN f \subseteq Employees
      /\ \A e \in DOMAIN f :
            Attached(k, f)[e] \in {f[e], [f[e] EXCEPT !.custom = EmployeeRole]}
  BY AttachedRows DEF StaffTable
<1> QED
  BY <1>1, <1>2 DEF StaffTable

\* Workspaces do not lose anything by more accounts and documents.
LEMMA WorkspacesGrow ==
    ASSUME NEW f, NEW E, NEW S, NEW E2, NEW S2, WorkspaceTable(f, E, S),
           E \subseteq E2, S \subseteq S2
    PROVE  WorkspaceTable(f, E2, S2)
<1>1. \A p \in DOMAIN f : /\ DOMAIN f[p].members \subseteq E2 /\ f[p].linked \subseteq S2
  BY DEF WorkspaceTable
<1> QED
  BY <1>1 DEF WorkspaceTable

\* A map of members, by its domain and its values.
LEMMA MemberMap ==
    ASSUME NEW m, NEW X, m = [x \in X |-> m[x]]
    PROVE  m \in MemberMaps <=> X \subseteq Employees /\ \A x \in X : m[x] \in MemberRoles
<1>1. m \in MemberMaps <=> \E Y \in SUBSET Employees : m \in [Y -> MemberRoles]
  BY DEF MemberMaps
<1>2. DOMAIN m = X
  OBVIOUS
<1>3. ASSUME m \in MemberMaps PROVE X \subseteq Employees /\ \A x \in X : m[x] \in MemberRoles
  BY <1>1, <1>2, <1>3
<1>4. ASSUME X \subseteq Employees, \A x \in X : m[x] \in MemberRoles PROVE m \in MemberMaps
  <2>1. m \in [X -> MemberRoles]
    BY <1>4
  <2> QED
    BY <1>1, <1>4, <2>1
<1> QED
  BY <1>3, <1>4

-----------------------------------------------------------------------------
(* Steps.                                                                    *)

\* The request in a slot ends.
Ended(k) == calls' = [calls EXCEPT ![k] = NoCall] /\ UNCHANGED toCome

\* An empty slot asks nothing.
LEMMA NoCallOK == NoCall.by \in Employees /\ DoOK(NoCall.do)
BY AccessAssumption DEF NoCall, DoOK

\* The end of a request leaves the slots and the bound in order.
LEMMA EndedInv ==
    ASSUME AccessInv, NEW k \in Callers, Ended(k)
    PROVE  CallsInv' /\ toCome' \in 0..MaxCalls
<1>1. DOMAIN calls' = Callers /\ \A i \in Callers : calls'[i] = IF i = k THEN NoCall ELSE calls[i]
  BY DEF Ended, AccessInv, CallsInv
<1> QED
  BY <1>1, NoCallOK DEF Ended, AccessInv, CallsInv, Bounded

\* What is left to show of a commit that adds no document and no code.
LEMMA CommitStep ==
    ASSUME AccessInv, NEW k \in Callers, Ended(k),
           StaffInv', TokensKept, DOMAIN staff \subseteq DOMAIN staff',
           RoleTable(roles)', departments' \subseteq Departments, issued' \in 0..MaxTokens,
           SourcesInv', WorkspacesInv', CodesInv'
    PROVE  AccessInv' /\ TokensKept
BY EndedInv DEF AccessInv, Bounded

\* The commonest commit: the caller's attached role, and a table of which the
\* accounts know nothing.
LEMMA AttachStep ==
    ASSUME AccessInv, NEW k \in Callers, Ended(k), staff' = Attached(k, staff),
           UNCHANGED <<issued, codes>>, RoleTable(roles)', DOMAIN roles \subseteq DOMAIN roles',
           departments \subseteq departments', departments' \subseteq Departments,
           SourcesInv', WorkspaceTable(workspaces', DOMAIN staff, DOMAIN sources')
    PROVE  AccessInv' /\ TokensKept
<1>1. issued \in Nat /\ EmployeeRole \in DOMAIN roles /\ issued \in 0..MaxTokens
  BY DEF AccessInv, Bounded, RoleTable
<1>2. /\ StaffTable(Attached(k, staff), DOMAIN roles, departments, issued)
      /\ DOMAIN Attached(k, staff) = DOMAIN staff
      /\ \A e \in DOMAIN staff : Attached(k, staff)[e].token = staff[e].token
  BY <1>1, AttachedTable DEF AccessInv, StaffInv
<1>3. StaffTable(Attached(k, staff), DOMAIN roles', departments', issued)
  BY <1>1, <1>2, StaffGrows
<1>4. StaffInv' /\ TokensKept /\ DOMAIN staff' = DOMAIN staff
  BY <1>2, <1>3 DEF StaffInv, TokensKept
<1>5. WorkspacesInv' /\ CodesInv'
  BY <1>4 DEF AccessInv, WorkspacesInv, CodesInv
<1> QED
  BY <1>1, <1>4, <1>5, CommitStep

-----------------------------------------------------------------------------
(* Requests begin: no table changes.                                         *)

\* A well-formed request of an account that is there.
LEMMA BeginStep ==
    ASSUME AccessInv, NEW k \in Callers, NEW q, q.by \in Employees, DoOK(q.do),
           calls' = [calls EXCEPT ![k] = q], toCome > 0, toCome' = toCome - 1, UNCHANGED db
    PROVE  AccessInv' /\ TokensKept
<1>1. UNCHANGED <<staff, roles, departments, sources, workspaces, codes, issued>>
  BY DEF db
<1>2. DOMAIN calls' = Callers /\ \A i \in Callers : calls'[i] = IF i = k THEN q ELSE calls[i]
  BY DEF AccessInv, CallsInv
<1>3. CallsInv'
  BY <1>2 DEF AccessInv, CallsInv
<1>4. Bounded'
  <2>1. toCome' \in 0..MaxCalls
    BY AccessAssumption DEF AccessInv, Bounded
  <2> QED
    BY <1>1, <2>1 DEF AccessInv, Bounded
<1>5. /\ StaffInv' /\ RoleTable(roles)' /\ SourcesInv' /\ WorkspacesInv' /\ CodesInv'
  BY <1>1 DEF AccessInv, StaffInv, SourcesInv, WorkspacesInv, CodesInv
<1> QED
  BY <1>1, <1>3, <1>4, <1>5 DEF AccessInv, TokensKept

\* The same for a session of the web API.
LEMMA BeginInv ==
    ASSUME AccessInv, NEW k \in Callers, Free(k), NEW e \in DOMAIN staff, NEW do, DoOK(do),
           Begin(k, e, do)
    PROVE  AccessInv' /\ TokensKept
<1> DEFINE q == [by |-> e, attach |-> Attaches(e), do |-> do]
<1>1. /\ calls' = [calls EXCEPT ![k] = q] /\ toCome' = toCome - 1 /\ UNCHANGED db /\ toCome > 0
  BY DEF Begin, Free
<1>2. q.by = e /\ q.do = do
  OBVIOUS
<1>3. e \in Employees
  BY DEF AccessInv, StaffInv, StaffTable
<1> HIDE DEF q
<1> QED
  BY <1>1, <1>2, <1>3, BeginStep

\* The departments, accounts, roles and tokens: every endpoint asks for
\* something that its commit can do.
LEMMA OrganizationInv ==
    ASSUME AccessInv, NEW k \in Callers, Free(k), NEW e \in DOMAIN staff, Organization(k, e)
    PROVE  AccessInv' /\ TokensKept
<1>1. CASE Look(k, e)
  <2> DEFINE w == [op |-> "look"]
  <2>1. DoOK(w) /\ Begin(k, e, w)
    BY <1>1 DEF Look, DoOK
  <2> QED
    BY <2>1, BeginInv
<1>2. ASSUME NEW d \in Departments, CreateDepartment(k, e, d) PROVE AccessInv' /\ TokensKept
  <2> DEFINE w == [op |-> "create_department", id |-> d]
  <2>1. DoOK(w) /\ Begin(k, e, w)
    BY <1>2 DEF CreateDepartment, DoOK
  <2> QED
    BY <2>1, BeginInv
<1>3. ASSUME NEW d \in Departments, DeleteDepartment(k, e, d) PROVE AccessInv' /\ TokensKept
  <2> DEFINE w == [op |-> "delete_department", id |-> d]
  <2>1. DoOK(w) /\ Begin(k, e, w)
    BY <1>3 DEF DeleteDepartment, DoOK
  <2> QED
    BY <2>1, BeginInv
<1>4. ASSUME NEW x \in Employees, NEW r \in {"admin", "employee"}, NEW c,
             NEW D \in SUBSET Departments,
             CreateEmployee(k, e, x, r, c, D) \/ UpdateEmployee(k, e, x, r, c, D)
      PROVE  AccessInv' /\ TokensKept
  <2> DEFINE w == [op |-> "create_employee", id |-> x, role |-> r, custom |-> c, depts |-> D]
             v == [op |-> "update_employee", id |-> x, role |-> r, custom |-> c, depts |-> D,
                   seen |-> staff[x]]
  <2>1. DoOK(w) /\ DoOK(v)
    BY DEF DoOK
  <2>2. Begin(k, e, w) \/ Begin(k, e, v)
    BY <1>4 DEF CreateEmployee, UpdateEmployee
  <2> HIDE DEF w, v
  <2> QED
    BY <2>1, <2>2, BeginInv
<1>5. ASSUME NEW x \in Employees,
             \/ DeleteEmployee(k, e, x) \/ RotateToken(k, e, x) \/ RevokeToken(k, e, x)
             \/ \E d \in Departments : AddDepartment(k, e, x, d) \/ RemoveDepartment(k, e, x, d)
      PROVE  AccessInv' /\ TokensKept
  <2> DEFINE w(op) == [op |-> op, id |-> x]
             v(op, d) == [op |-> op, id |-> x, dept |-> d]
  <2>1. /\ \A op \in {"delete_employee", "rotate", "revoke"} : DoOK(w(op))
        /\ \A op \in {"join", "leave"}, d \in Departments : DoOK(v(op, d))
    BY DEF DoOK
  <2>2. \/ \E op \in {"delete_employee", "rotate", "revoke"} : Begin(k, e, w(op))
        \/ \E op \in {"join", "leave"}, d \in Departments : Begin(k, e, v(op, d))
    BY <1>5 DEF DeleteEmployee, RotateToken, RevokeToken, AddDepartment, RemoveDepartment
  <2> HIDE DEF w, v
  <2> QED
    BY <2>1, <2>2, BeginInv
<1>6. ASSUME NEW x \in Employees, ToggleEmployee(k, e, x) PROVE AccessInv' /\ TokensKept
  <2>1. PICK b \in BOOLEAN : Begin(k, e, [op |-> "toggle", id |-> x, active |-> b])
    <3>1. (~staff[x].active) \in BOOLEAN
      OBVIOUS
    <3> QED
      BY <1>6, <3>1 DEF ToggleEmployee
  <2> DEFINE w == [op |-> "toggle", id |-> x, active |-> b]
  <2>2. DoOK(w)
    BY DEF DoOK
  <2> QED
    BY <2>1, <2>2, BeginInv
<1>7. ASSUME NEW r \in RoleIds, NEW b \in Bundles, CreateRole(k, e, r, b) \/ UpdateRole(k, e, r, b)
      PROVE  AccessInv' /\ TokensKept
  <2> DEFINE w(op) == [op |-> op, id |-> r, perms |-> Migrated(b)]
  <2>1. PICK op \in {"create_role", "update_role"} : Begin(k, e, w(op)) /\ Valid(b)
    BY <1>7 DEF CreateRole, UpdateRole
  <2>2. DoOK(w(op))
    BY <2>1 DEF DoOK, Valid
  <2> HIDE DEF w
  <2> QED
    BY <2>1, <2>2, BeginInv
<1>8. ASSUME NEW r \in RoleIds, DeleteRole(k, e, r) PROVE AccessInv' /\ TokensKept
  <2> DEFINE w == [op |-> "delete_role", id |-> r]
  <2>1. DoOK(w) /\ Begin(k, e, w)
    BY <1>8 DEF DeleteRole, DoOK
  <2> QED
    BY <2>1, BeginInv
<1> QED
  BY <1>1, <1>2, <1>3, <1>4, <1>5, <1>6, <1>7, <1>8 DEF Organization, RoleIds

\* The workspaces and the tags of a document.
LEMMA WorkspacesAskInv ==
    ASSUME AccessInv, NEW k \in Callers, Free(k), NEW e \in DOMAIN staff,
           \/ Workspaces(k, e)
           \/ \E s \in Sources, D \in SUBSET Departments : TagSource(k, e, s, D)
    PROVE  AccessInv' /\ TokensKept
<1>1. ASSUME NEW p \in Projects, CreateProject(k, e, p) \/ DeleteProject(k, e, p)
      PROVE  AccessInv' /\ TokensKept
  <2> DEFINE w(op) == [op |-> op, id |-> p]
  <2>1. \A op \in {"create_project", "delete_project"} : DoOK(w(op))
    BY DEF DoOK
  <2>2. \E op \in {"create_project", "delete_project"} : Begin(k, e, w(op))
    BY <1>1 DEF CreateProject, DeleteProject
  <2> HIDE DEF w
  <2> QED
    BY <2>1, <2>2, BeginInv
<1>2. ASSUME NEW p \in Projects, NEW status \in {"active", "archived"},
             UpdateProject(k, e, p, status)
      PROVE  AccessInv' /\ TokensKept
  <2> DEFINE w == [op |-> "set_status", id |-> p, status |-> status]
  <2>1. DoOK(w) /\ Begin(k, e, w)
    BY <1>2 DEF UpdateProject, DoOK
  <2> QED
    BY <2>1, BeginInv
<1>3. ASSUME NEW p \in Projects, NEW X, NEW r \in MemberRoles, AddMembers(k, e, p, X, r)
      PROVE  AccessInv' /\ TokensKept
  <2> DEFINE w == [op |-> "add_members", id |-> p, role |-> r,
                   who |-> (X \intersect DOMAIN staff) \ DOMAIN workspaces[p].members]
  <2>1. DoOK(w) /\ Begin(k, e, w)
    BY <1>3 DEF AddMembers, DoOK
  <2> HIDE DEF w
  <2> QED
    BY <2>1, BeginInv
<1>4. ASSUME NEW p \in Projects, NEW x \in Employees, RemoveMember(k, e, p, x)
      PROVE  AccessInv' /\ TokensKept
  <2> DEFINE w == [op |-> "remove_member", id |-> p, who |-> x, admins |-> Admins(p)]
  <2>1. DoOK(w) /\ Begin(k, e, w)
    BY <1>4 DEF RemoveMember, LastAdmin, DoOK
  <2> HIDE DEF w
  <2> QED
    BY <2>1, BeginInv
<1>5. ASSUME NEW p \in Projects, NEW x \in Employees, NEW r \in MemberRoles,
             UpdateMember(k, e, p, x, r)
      PROVE  AccessInv' /\ TokensKept
  <2> DEFINE w == [op |-> "set_member", id |-> p, who |-> x, role |-> r,
                   admins |-> Admins(p), was |-> workspaces[p].members[x]]
  <2>1. DoOK(w) /\ Begin(k, e, w)
    BY <1>5 DEF UpdateMember, LastAdmin, DoOK
  <2> HIDE DEF w
  <2> QED
    BY <2>1, BeginInv
<1>6. ASSUME NEW p \in Projects, NEW s \in Sources,
             AddProjectSource(k, e, p, s) \/ RemoveProjectSource(k, e, p, s)
      PROVE  AccessInv' /\ TokensKept
  <2> DEFINE w(op) == [op |-> op, id |-> p, source |-> s]
             v == [op |-> "delete_source", id |-> s]
  <2>1. DoOK(v) /\ \A op \in {"link", "unlink"} : DoOK(w(op))
    BY DEF DoOK
  <2>2. Begin(k, e, v) \/ \E op \in {"link", "unlink"} : Begin(k, e, w(op))
    BY <1>6 DEF AddProjectSource, RemoveProjectSource
  <2> HIDE DEF w, v
  <2> QED
    BY <2>1, <2>2, BeginInv
<1>7. ASSUME NEW p \in Projects, NEW s \in Sources, UploadWorkspaceSource(k, e, p, s)
      PROVE  AccessInv' /\ TokensKept
  <2> DEFINE w == [op |-> "upload", id |-> s, owner |-> p]
  <2>1. DoOK(w) /\ Begin(k, e, w)
    BY <1>7 DEF UploadWorkspaceSource, DoOK
  <2> QED
    BY <2>1, BeginInv
<1>8. ASSUME NEW s \in Sources, NEW D \in SUBSET Departments, TagSource(k, e, s, D)
      PROVE  AccessInv' /\ TokensKept
  <2> DEFINE w == [op |-> "tag", id |-> s, tags |-> D]
  <2>1. DoOK(w) /\ Begin(k, e, w)
    BY <1>8 DEF TagSource, DoOK
  <2> QED
    BY <2>1, BeginInv
<1> QED
  BY <1>1, <1>2, <1>3, <1>4, <1>5, <1>6, <1>7, <1>8 DEF Workspaces

-----------------------------------------------------------------------------
(* Requests end.                                                             *)

\* The accounts after a commit that also writes the attached role.
LEMMA TableStep ==
    ASSUME NEW k, NEW T, staff' = Attached(k, T), EmployeeRole \in DOMAIN roles',
           StaffTable(T, DOMAIN roles', departments', issued')
    PROVE  /\ StaffInv' /\ DOMAIN staff' = DOMAIN T
           /\ \A e \in DOMAIN T : staff'[e].token = T[e].token
<1>1. /\ StaffTable(Attached(k, T), DOMAIN roles', departments', issued')
      /\ DOMAIN Attached(k, T) = DOMAIN T
      /\ \A e \in DOMAIN T : Attached(k, T)[e].token = T[e].token
  BY AttachedTable
<1> QED
  BY <1>1 DEF StaffInv

\* What the invariant says of one account, and of one request.
LEMMA Rows ==
    ASSUME AccessInv
    PROVE  /\ \A e \in DOMAIN staff :
                 /\ e \in Employees /\ staff[e] \in StaffRows
                 /\ staff[e].custom \in DOMAIN roles \union {NoRole}
                 /\ staff[e].depts \subseteq departments /\ staff[e].token \in 0..issued
           /\ \A k \in Callers : DoOK(calls[k].do)
           /\ EmployeeRole \in DOMAIN roles /\ DOMAIN roles \subseteq RoleIds
           /\ departments \subseteq Departments
           /\ issued \in 0..MaxTokens /\ issued \in Nat
BY DEF AccessInv, StaffInv, StaffTable, CallsInv, RoleTable, Bounded

\* Only the attached role is written.
LEMMA LookInv ==
    ASSUME AccessInv, NEW k \in Callers, EndLook(k) PROVE AccessInv' /\ TokensKept
<1>1. /\ Ended(k) /\ staff' = Attached(k, staff)
      /\ UNCHANGED <<roles, departments, sources, workspaces, codes, issued>>
  BY DEF EndLook, Commit, Ended
<1>2. /\ RoleTable(roles)' /\ SourcesInv' /\ departments' \subseteq Departments
      /\ WorkspaceTable(workspaces', DOMAIN staff, DOMAIN sources')
  BY <1>1 DEF AccessInv, SourcesInv, WorkspacesInv, Bounded
<1> QED
  BY <1>1, <1>2, AttachStep

\* A new department, and new tags of a document.
LEMMA DepartmentInv ==
    ASSUME AccessInv, NEW k \in Callers, CommitDepartment(k) PROVE AccessInv' /\ TokensKept
<1> DEFINE d == calls[k].do.id
<1>1. /\ Ended(k) /\ staff' = Attached(k, staff) /\ departments' = departments \union {d}
      /\ UNCHANGED <<roles, sources, workspaces, codes, issued>>
  BY DEF CommitDepartment, Commit, Ended
<1>2. d \in Departments
  BY Rows DEF CommitDepartment, Commit, DoOK
<1>3. /\ RoleTable(roles)' /\ departments' \subseteq Departments
      /\ departments \subseteq departments'
      /\ WorkspaceTable(workspaces', DOMAIN staff, DOMAIN sources')
  BY <1>1, <1>2 DEF AccessInv, WorkspacesInv, Bounded
<1>4. SourcesInv'
  BY <1>1, <1>3 DEF AccessInv, SourcesInv, SourceTable
<1> QED
  BY <1>1, <1>3, <1>4, AttachStep

\* Tags name departments that exist when they are written.
LEMMA TagsInv ==
    ASSUME AccessInv, NEW k \in Callers, CommitTags(k) PROVE AccessInv' /\ TokensKept
<1> DEFINE w == calls[k].do
           row == [sources[w.id] EXCEPT !.tags = w.tags]
<1>1. /\ Ended(k) /\ staff' = Attached(k, staff)
      /\ w.id \in DOMAIN sources /\ w.tags \subseteq departments
      /\ sources' = [sources EXCEPT ![w.id].tags = w.tags]
      /\ UNCHANGED <<roles, departments, workspaces, codes, issued>>
  BY DEF CommitTags, Commit, Ended
<1>2. /\ DOMAIN sources' = DOMAIN sources
      /\ \A s \in DOMAIN sources : sources'[s] \in {sources[s], row}
  BY <1>1
<1>3. row \in SourceRows /\ row.tags = w.tags
  <2>1. sources[w.id] \in SourceRows /\ w.tags \in SUBSET Departments
    BY <1>1, Rows DEF AccessInv, SourcesInv, SourceTable
  <2> QED
    BY <2>1 DEF SourceRows
<1> HIDE DEF row, w
<1>4. SourcesInv'
  BY <1>1, <1>2, <1>3 DEF AccessInv, SourcesInv, SourceTable
<1>5. /\ RoleTable(roles)' /\ departments' \subseteq Departments
      /\ WorkspaceTable(workspaces', DOMAIN staff, DOMAIN sources')
  BY <1>1, <1>2 DEF AccessInv, WorkspacesInv, Bounded
<1> QED
  BY <1>1, <1>4, <1>5, AttachStep

\* A department goes with the rows that name it.
LEMMA DepartmentGoneInv ==
    ASSUME AccessInv, NEW k \in Callers, CommitDepartmentGone(k) PROVE AccessInv' /\ TokensKept
<1> DEFINE d == calls[k].do.id
           without(e) == [staff[e] EXCEPT !.depts = @ \ {d}]
           T == [e \in DOMAIN staff |-> without(e)]
           untagged(s) == [sources[s] EXCEPT !.tags = @ \ {d}]
<1>1. /\ Ended(k) /\ staff' = Attached(k, T) /\ departments' = departments \ {d}
      /\ sources' = [s \in DOMAIN sources |-> untagged(s)]
      /\ UNCHANGED <<roles, workspaces, codes, issued>>
  BY DEF CommitDepartmentGone, Commit, Ended
<1>2. ASSUME NEW e \in DOMAIN staff
      PROVE  /\ without(e) \in StaffRows /\ without(e).custom = staff[e].custom
             /\ without(e).depts = staff[e].depts \ {d}
             /\ without(e).token = staff[e].token
  BY Rows DEF StaffRows
<1>3. ASSUME NEW s \in DOMAIN sources
      PROVE  untagged(s) \in SourceRows /\ untagged(s).tags \subseteq departments \ {d}
  <2>1. sources[s] \in SourceRows /\ sources[s].tags \subseteq departments
    BY DEF AccessInv, SourcesInv, SourceTable
  <2> QED
    BY <2>1 DEF SourceRows
<1>4. DOMAIN T = DOMAIN staff /\ \A e \in DOMAIN staff : T[e] = without(e)
  OBVIOUS
<1> HIDE DEF T, without, untagged, d
<1>5. StaffTable(T, DOMAIN roles', departments', issued') /\ EmployeeRole \in DOMAIN roles'
  BY <1>1, <1>2, <1>4, Rows DEF StaffTable
<1>6. /\ StaffInv' /\ DOMAIN staff' = DOMAIN staff /\ TokensKept
  <2>1. /\ StaffInv' /\ DOMAIN staff' = DOMAIN T
        /\ \A e \in DOMAIN T : staff'[e].token = T[e].token
    BY <1>1, <1>5, TableStep
  <2> QED
    BY <1>2, <1>4, <2>1 DEF TokensKept
<1>7. DOMAIN sources' = DOMAIN sources /\ SourcesInv'
  BY <1>1, <1>3 DEF AccessInv, SourcesInv, SourceTable
<1>8. /\ RoleTable(roles)' /\ departments' \subseteq Departments /\ issued' \in 0..MaxTokens
      /\ WorkspacesInv' /\ CodesInv'
  BY <1>1, <1>6, <1>7, Rows DEF AccessInv, WorkspacesInv, CodesInv
<1> QED
  BY <1>1, <1>6, <1>7, <1>8, CommitStep

\* More accounts: whoever belongs to something still belongs to it.
LEMMA MoreStaff ==
    ASSUME AccessInv, DOMAIN staff \subseteq DOMAIN staff', UNCHANGED <<sources, workspaces, codes>>
    PROVE  WorkspacesInv' /\ CodesInv'
<1>1. WorkspaceTable(workspaces, DOMAIN staff', DOMAIN sources)
  BY WorkspacesGrow DEF AccessInv, WorkspacesInv
<1>2. CodesInv'
  BY DEF AccessInv, CodesInv, CodeTable
<1> QED
  BY <1>1, <1>2 DEF WorkspacesInv

\* A commit that writes accounts, departments and roles being as they were.
LEMMA StaffStep ==
    ASSUME AccessInv, NEW k \in Callers, Ended(k), StaffInv', TokensKept,
           DOMAIN staff \subseteq DOMAIN staff', issued' \in 0..MaxTokens,
           UNCHANGED <<roles, departments, sources, workspaces, codes>>
    PROVE  AccessInv' /\ TokensKept
<1>1. /\ RoleTable(roles)' /\ departments' \subseteq Departments /\ SourcesInv'
  BY DEF AccessInv, SourcesInv, Bounded
<1> QED
  BY <1>1, MoreStaff, CommitStep

\* A new account has no token yet; its role and departments are there.
LEMMA EmployeeInv ==
    ASSUME AccessInv, NEW k \in Callers, CommitEmployee(k) PROVE AccessInv' /\ TokensKept
<1> DEFINE w == calls[k].do
           row == [role |-> w.role, custom |-> w.custom, depts |-> w.depts,
                   active |-> TRUE, token |-> 0]
<1>1. /\ Ended(k) /\ w.op = "create_employee"
      /\ w.custom \in DOMAIN roles \union {NoRole} /\ w.depts \subseteq departments
      /\ staff' = [x \in DOMAIN staff \union {w.id} |->
                     IF x # w.id THEN Attached(k, staff)[x] ELSE row]
      /\ UNCHANGED <<roles, departments, sources, workspaces, codes, issued>>
  BY DEF CommitEmployee, Commit, Ended
<1>2. w.id \in Employees /\ w.role \in {"admin", "employee"}
  BY <1>1, Rows DEF DoOK
<1>3. /\ row \in StaffRows /\ row.custom = w.custom /\ row.depts = w.depts /\ row.token = 0
  <2>1. w.custom \in RoleIds \union {NoRole} /\ w.depts \in SUBSET Departments
        /\ 0 \in 0..MaxTokens
    BY <1>1, Rows, AccessAssumption
  <2> QED
    BY <1>2, <2>1 DEF StaffRows
<1>4. /\ StaffTable(Attached(k, staff), DOMAIN roles, departments, issued)
      /\ DOMAIN Attached(k, staff) = DOMAIN staff
      /\ \A e \in DOMAIN staff : Attached(k, staff)[e].token = staff[e].token
  BY Rows, AttachedTable DEF AccessInv, StaffInv
<1> HIDE DEF row, w
<1>5. /\ DOMAIN staff' = DOMAIN staff \union {w.id}
      /\ \A x \in DOMAIN staff' : \/ x = w.id /\ staff'[x] = row
                                  \/ x \in DOMAIN staff /\ staff'[x] = Attached(k, staff)[x]
  BY <1>1
<1>6. StaffTable(staff', DOMAIN roles, departments, issued) /\ 0 \in 0..issued
  BY <1>1, <1>2, <1>3, <1>4, <1>5, Rows DEF StaffTable
<1>7. StaffInv' /\ TokensKept
  BY <1>1, <1>3, <1>4, <1>5, <1>6 DEF StaffInv, TokensKept
<1> QED
  BY <1>1, <1>5, <1>7, Rows, StaffStep

\* One row of an account is saved, its token kept or cleared.
LEMMA SaveRow ==
    ASSUME AccessInv, NEW k \in Callers, Ended(k), NEW x \in DOMAIN staff, NEW row \in StaffRows,
           row.custom \in DOMAIN roles \union {NoRole}, row.depts \subseteq departments,
           row.token \in {0, staff[x].token}, staff' = Attached(k, [staff EXCEPT ![x] = row]),
           UNCHANGED <<roles, departments, sources, workspaces, codes, issued>>
    PROVE  AccessInv' /\ TokensKept
<1> DEFINE T == [staff EXCEPT ![x] = row]
<1>1. /\ DOMAIN T = DOMAIN staff
      /\ \A e \in DOMAIN staff : T[e] = IF e = x THEN row ELSE staff[e]
  OBVIOUS
<1>2. row.token \in 0..issued
  BY Rows
<1>3. staff' = Attached(k, T)
  OBVIOUS
<1> HIDE DEF T
<1>4. StaffTable(T, DOMAIN roles', departments', issued') /\ EmployeeRole \in DOMAIN roles'
  BY <1>1, <1>2, Rows DEF StaffTable
<1>5. /\ StaffInv' /\ DOMAIN staff' = DOMAIN T
      /\ \A e \in DOMAIN T : staff'[e].token = T[e].token
  BY <1>3, <1>4, TableStep
<1>6. TokensKept
  BY <1>1, <1>5 DEF TokensKept
<1> QED
  BY <1>1, <1>5, <1>6, Rows, StaffStep

\* An update writes the columns that differ from what it read.
LEMMA UpdateInv ==
    ASSUME AccessInv, NEW k \in Callers, CommitUpdate(k) PROVE AccessInv' /\ TokensKept
<1> DEFINE w == calls[k].do
           new == w.depts \ w.seen.depts
           old == w.seen.depts \ w.depts
           x == w.id
           role == IF w.role = w.seen.role THEN staff[x].role ELSE w.role
           custom == IF w.custom = w.seen.custom THEN staff[x].custom ELSE w.custom
           depts == (staff[x].depts \ old) \union new
           row == [staff[x] EXCEPT !.role = role, !.custom = custom, !.depts = depts]
<1>1. /\ Ended(k) /\ w.op = "update_employee" /\ x \in DOMAIN staff
      /\ row.custom \in DOMAIN roles \union {NoRole}
      /\ new \subseteq departments \ staff[x].depts
      /\ staff' = Attached(k, [staff EXCEPT ![x] = row])
      /\ UNCHANGED <<roles, departments, sources, workspaces, codes, issued>>
  BY DEF CommitUpdate, Commit, Ended
<1>2. /\ staff[x] \in StaffRows /\ staff[x].depts \subseteq departments
      /\ w.role \in {"admin", "employee"} /\ departments \subseteq Departments
      /\ DOMAIN roles \subseteq RoleIds
  BY <1>1, Rows DEF DoOK
<1>3. row.custom = custom
  BY <1>2 DEF StaffRows
<1>4. /\ role \in {"admin", "employee"} /\ depts \subseteq departments
      /\ custom \in RoleIds \union {NoRole}
  BY <1>1, <1>2, <1>3 DEF StaffRows
<1> HIDE DEF role, custom, depts
<1>5. row \in StaffRows /\ row.depts = depts /\ row.token = staff[x].token
  BY <1>2, <1>4 DEF StaffRows
<1> HIDE DEF row, x
<1> QED
  BY <1>1, <1>4, <1>5, SaveRow

\* Joining and leaving a department, activation; the revocation of a token.
LEMMA RowInv ==
    ASSUME AccessInv, NEW k \in Callers, CommitRow(k) \/ CommitRevocation(k)
    PROVE  AccessInv' /\ TokensKept
<1> DEFINE w == calls[k].do
           x == w.id
<1>1. /\ Ended(k) /\ x \in DOMAIN staff
      /\ UNCHANGED <<roles, departments, sources, workspaces, codes, issued>>
  BY DEF CommitRow, CommitRevocation, Commit, Ended
<1>2. /\ staff[x] \in StaffRows /\ staff[x].depts \subseteq departments
      /\ staff[x].custom \in DOMAIN roles \union {NoRole}
      /\ departments \subseteq Departments /\ 0 \in 0..MaxTokens
  BY <1>1, Rows, AccessAssumption
<1>3. ASSUME NEW D \in SUBSET departments,
             staff' = Attached(k, [staff EXCEPT ![x] = [staff[x] EXCEPT !.depts = D]])
      PROVE  AccessInv' /\ TokensKept
  <2> DEFINE row == [staff[x] EXCEPT !.depts = D]
  <2>1. /\ row \in StaffRows /\ row.custom = staff[x].custom /\ row.depts = D
        /\ row.token = staff[x].token
    BY <1>2 DEF StaffRows
  <2> HIDE DEF x
  <2> QED
    BY <1>1, <1>2, <1>3, <2>1, SaveRow
<1>4. ASSUME NEW b \in BOOLEAN,
             staff' = Attached(k, [staff EXCEPT ![x] = [staff[x] EXCEPT !.active = b]])
      PROVE  AccessInv' /\ TokensKept
  <2> DEFINE row == [staff[x] EXCEPT !.active = b]
  <2>1. /\ row \in StaffRows /\ row.custom = staff[x].custom /\ row.depts = staff[x].depts
        /\ row.token = staff[x].token
    BY <1>2 DEF StaffRows
  <2> HIDE DEF x
  <2> QED
    BY <1>1, <1>2, <1>4, <2>1, SaveRow
<1>5. CASE CommitRevocation(k)
  <2> DEFINE row == [staff[x] EXCEPT !.token = 0]
  <2>1. staff' = Attached(k, [staff EXCEPT ![x] = row])
    BY <1>5 DEF CommitRevocation
  <2>2. /\ row \in StaffRows /\ row.custom = staff[x].custom /\ row.depts = staff[x].depts
        /\ row.token = 0
    BY <1>2 DEF StaffRows
  <2> HIDE DEF x, row
  <2> QED
    BY <1>1, <1>2, <2>1, <2>2, SaveRow
<1>6. CASE CommitRow(k)
  <2>1. \/ /\ w.op = "join" /\ w.dept \in departments
           /\ staff' = Attached(k, [staff EXCEPT ![x] =
                                      [staff[x] EXCEPT !.depts = @ \union {w.dept}]])
        \/ /\ w.op = "leave"
           /\ staff' = Attached(k, [staff EXCEPT ![x] = [staff[x] EXCEPT !.depts = @ \ {w.dept}]])
        \/ /\ w.op = "toggle"
           /\ staff' = Attached(k, [staff EXCEPT ![x] = [staff[x] EXCEPT !.active = w.active]])
    BY <1>6 DEF CommitRow
  <2>2. /\ w.op = "toggle" => w.active \in BOOLEAN
        /\ w.dept \in departments => staff[x].depts \union {w.dept} \in SUBSET departments
        /\ staff[x].depts \ {w.dept} \in SUBSET departments
    BY <1>2, Rows DEF DoOK
  <2> HIDE DEF x, w
  <2> QED
    BY <1>3, <1>4, <2>1, <2>2
<1> QED
  BY <1>5, <1>6

\* An account goes with its memberships and its codes.
LEMMA EmployeeGoneInv ==
    ASSUME AccessInv, NEW k \in Callers, CommitEmployeeGone(k) PROVE AccessInv' /\ TokensKept
<1> DEFINE x == calls[k].do.id
           E == DOMAIN staff \ {x}
           T == Restrict(staff, E)
           left(p) == [workspaces[p] EXCEPT !.members = Restrict(@, DOMAIN @ \ {x})]
<1>1. /\ Ended(k) /\ staff' = Attached(k, T)
      /\ workspaces' = [p \in DOMAIN workspaces |-> left(p)]
      /\ codes' = Restrict(codes, {c \in DOMAIN codes : codes[c].owner # x})
      /\ UNCHANGED <<roles, departments, sources, issued>>
  BY DEF CommitEmployeeGone, Commit, Ended
<1>2. DOMAIN T = E /\ \A e \in E : T[e] = staff[e]
  BY DEF Restrict
<1>3. ASSUME NEW p \in DOMAIN workspaces
      PROVE  /\ left(p) \in WorkspaceRows /\ left(p).linked = workspaces[p].linked
             /\ DOMAIN left(p).members \subseteq E
  <2> DEFINE m == workspaces[p].members
             n == Restrict(m, DOMAIN m \ {x})
  <2>1. /\ workspaces[p] \in WorkspaceRows /\ DOMAIN m \subseteq DOMAIN staff
    BY DEF AccessInv, WorkspacesInv, WorkspaceTable
  <2>2. m \in MemberMaps
    BY <2>1 DEF WorkspaceRows
  <2>3. m = [y \in DOMAIN m |-> m[y]]
    BY <2>2 DEF MemberMaps
  <2>4. DOMAIN m \subseteq Employees /\ \A y \in DOMAIN m : m[y] \in MemberRoles
    BY <2>2, <2>3, MemberMap
  <2>5. /\ n = [y \in DOMAIN m \ {x} |-> n[y]] /\ DOMAIN n = DOMAIN m \ {x}
        /\ \A y \in DOMAIN m \ {x} : n[y] = m[y]
    BY DEF Restrict
  <2> HIDE DEF n
  <2>6. n \in MemberMaps
    BY <2>4, <2>5, MemberMap
  <2>7. left(p) = [workspaces[p] EXCEPT !.members = n]
    BY DEF n
  <2> HIDE DEF left
  <2> QED
    BY <2>1, <2>5, <2>6, <2>7 DEF WorkspaceRows
<1> HIDE DEF T, left, x
<1>4. StaffTable(T, DOMAIN roles', departments', issued') /\ EmployeeRole \in DOMAIN roles'
  BY <1>1, <1>2, Rows DEF StaffTable
<1>5. /\ StaffInv' /\ DOMAIN staff' = E
      /\ \A e \in E : staff'[e].token = staff[e].token
  BY <1>1, <1>2, <1>4, TableStep
<1>6. WorkspacesInv'
  <2>1. ASSUME NEW p \in DOMAIN workspaces
        PROVE  /\ left(p) \in WorkspaceRows /\ DOMAIN left(p).members \subseteq E
               /\ left(p).linked \subseteq DOMAIN sources
    BY <1>3 DEF AccessInv, WorkspacesInv, WorkspaceTable
  <2>2. DOMAIN workspaces \subseteq Projects
    BY DEF AccessInv, WorkspacesInv, WorkspaceTable
  <2>3. WorkspaceTable(workspaces', E, DOMAIN sources)
    BY <1>1, <2>1, <2>2 DEF WorkspaceTable
  <2> QED
    BY <1>1, <1>5, <2>3 DEF WorkspacesInv
<1>7. CodesInv'
  <2>1. /\ DOMAIN codes' = {c \in DOMAIN codes : codes[c].owner # x}
        /\ \A c \in DOMAIN codes' : codes'[c] = codes[c]
    BY <1>1 DEF Restrict
  <2> QED
    BY <1>5, <2>1 DEF AccessInv, CodesInv, CodeTable
<1>8. TokensKept
  BY <1>5 DEF TokensKept
<1>9. /\ RoleTable(roles)' /\ SourcesInv' /\ Bounded' /\ CallsInv'
  BY <1>1, EndedInv DEF AccessInv, SourcesInv, Bounded
<1> QED
  BY <1>5, <1>6, <1>7, <1>8, <1>9 DEF AccessInv

\* A new token is the next number; it may go to an account that is gone.
LEMMA GeneratedToken ==
    ASSUME AccessInv, NEW T, StaffTable(T, DOMAIN roles, departments, issued),
           DOMAIN T = DOMAIN staff, \A e \in DOMAIN T : T[e].token = staff[e].token,
           NEW x, GenerateToken(T, x), UNCHANGED <<roles, departments>>
    PROVE  /\ StaffInv' /\ TokensKept /\ DOMAIN staff' = DOMAIN staff
           /\ issued' \in 0..MaxTokens
<1>1. /\ issued \in Nat /\ issued + 1 \in Nat /\ issued <= issued + 1
      /\ issued + 1 \in 0..MaxTokens /\ issued + 1 \in 0..(issued + 1)
      /\ issued' = issued + 1
  BY Rows, AccessAssumption DEF GenerateToken
<1>2. StaffTable(T, DOMAIN roles, departments, issued + 1)
  BY <1>1, StaffGrows
<1>3. CASE x \in DOMAIN T
  <2> DEFINE row == [T[x] EXCEPT !.token = issued + 1]
  <2>1. staff' = [T EXCEPT ![x].token = issued + 1]
    BY <1>3 DEF GenerateToken
  <2>2. /\ DOMAIN staff' = DOMAIN T
        /\ \A e \in DOMAIN T : staff'[e] = IF e = x THEN row ELSE T[e]
    BY <1>3, <2>1
  <2>3. /\ row \in StaffRows /\ row.custom = T[x].custom /\ row.depts = T[x].depts
        /\ row.token = issued + 1
    BY <1>1, <1>3 DEF StaffTable, StaffRows
  <2> HIDE DEF row
  <2>4. StaffTable(staff', DOMAIN roles, departments, issued + 1)
    BY <1>1, <1>2, <1>3, <2>2, <2>3 DEF StaffTable
  <2>5. TokensKept
    BY <2>2, <2>3 DEF TokensKept
  <2> QED
    BY <1>1, <2>2, <2>4, <2>5 DEF StaffInv
<1>4. CASE x \notin DOMAIN T
  <2>1. staff' = T
    BY <1>4 DEF GenerateToken
  <2> QED
    BY <1>1, <1>2, <2>1 DEF StaffInv, TokensKept
<1> QED
  BY <1>3, <1>4

\* Rotations and exchanges of a code.
LEMMA TokenInv ==
    ASSUME AccessInv, NEW k \in Callers, CommitRotation(k) \/ CommitExchange(k)
    PROVE  AccessInv' /\ TokensKept
<1>1. /\ Ended(k) /\ UNCHANGED <<roles, departments, sources, workspaces>>
  BY DEF CommitRotation, CommitExchange, Commit, Ended
<1>2. StaffTable(staff, DOMAIN roles, departments, issued) /\ EmployeeRole \in DOMAIN roles
  BY Rows DEF AccessInv, StaffInv
<1>3. /\ StaffTable(Attached(k, staff), DOMAIN roles, departments, issued)
      /\ DOMAIN Attached(k, staff) = DOMAIN staff
      /\ \A e \in DOMAIN staff : Attached(k, staff)[e].token = staff[e].token
  BY Rows, AttachedTable DEF AccessInv, StaffInv
<1>4. PICK x : GenerateToken(staff, x) \/ GenerateToken(Attached(k, staff), x)
  BY DEF CommitRotation, CommitExchange
<1>5. /\ StaffInv' /\ TokensKept /\ DOMAIN staff' = DOMAIN staff /\ issued' \in 0..MaxTokens
  <2>1. CASE GenerateToken(staff, x)
    BY <1>1, <1>2, <2>1, GeneratedToken
  <2>2. CASE GenerateToken(Attached(k, staff), x)
    BY <1>1, <1>3, <2>2, GeneratedToken
  <2> QED
    BY <1>4, <2>1, <2>2
<1>6. CodesInv'
  <2> DEFINE c == calls[k].do.code
             row == [codes[c] EXCEPT !.used = TRUE]
  <2>1. CASE c \in DOMAIN codes /\ codes' = [codes EXCEPT ![c].used = TRUE]
    <3>1. /\ DOMAIN codes' = DOMAIN codes
          /\ \A i \in DOMAIN codes : codes'[i] \in {codes[i], row}
      BY <2>1
    <3>2. codes[c] \in CodeRows /\ codes[c].owner \in DOMAIN staff
      BY <2>1 DEF AccessInv, CodesInv, CodeTable
    <3>3. row \in CodeRows /\ row.owner = codes[c].owner
      BY <3>2 DEF CodeRows
    <3> HIDE DEF row, c
    <3> QED
      BY <1>5, <3>1, <3>2, <3>3, <2>1 DEF AccessInv, CodesInv, CodeTable
  <2>2. CASE UNCHANGED codes
    BY <1>5, <2>2 DEF AccessInv, CodesInv
  <2> QED
    BY <2>1, <2>2 DEF CommitRotation, CommitExchange
<1>7. /\ RoleTable(roles)' /\ departments' \subseteq Departments /\ SourcesInv' /\ WorkspacesInv'
  BY <1>1, <1>5 DEF AccessInv, SourcesInv, WorkspacesInv, Bounded
<1> QED
  BY <1>1, <1>5, <1>6, <1>7, CommitStep

\* A role is written: no account refers to less.
LEMMA RoleInv ==
    ASSUME AccessInv, NEW k \in Callers, CommitRole(k) PROVE AccessInv' /\ TokensKept
<1> DEFINE w == calls[k].do
<1>1. /\ Ended(k) /\ staff' = Attached(k, staff) /\ roles' = With(roles, w.id, w.perms)
      /\ w.op \in {"create_role", "update_role"}
      /\ UNCHANGED <<departments, sources, workspaces, codes, issued>>
  BY DEF CommitRole, Commit, Ended
<1>2. w.id \in RoleIds /\ w.perms \subseteq Permissions
  BY <1>1, Rows DEF DoOK
<1> HIDE DEF w
<1>3. /\ DOMAIN roles' = DOMAIN roles \union {w.id}
      /\ \A r \in DOMAIN roles' : roles'[r] = IF r = w.id THEN w.perms ELSE roles[r]
  BY <1>1 DEF With
<1>4. RoleTable(roles)' /\ DOMAIN roles \subseteq DOMAIN roles'
  BY <1>2, <1>3 DEF AccessInv, RoleTable
<1>5. /\ departments' \subseteq Departments /\ SourcesInv'
      /\ WorkspaceTable(workspaces', DOMAIN staff, DOMAIN sources')
  BY <1>1 DEF AccessInv, SourcesInv, WorkspacesInv, Bounded
<1> QED
  BY <1>1, <1>4, <1>5, AttachStep

\* A role that goes is taken from the accounts that have it; the Employee role
\* cannot go.
LEMMA RoleGoneInv ==
    ASSUME AccessInv, NEW k \in Callers, CommitRoleGone(k) PROVE AccessInv' /\ TokensKept
<1> DEFINE r == calls[k].do.id
           without(e) == [staff[e] EXCEPT !.custom = IF @ = r THEN NoRole ELSE @]
           T == [e \in DOMAIN staff |-> without(e)]
<1>1. /\ Ended(k) /\ staff' = Attached(k, T)
      /\ calls[k].do.op = "delete_role"
      /\ roles' = Restrict(roles, DOMAIN roles \ {r})
      /\ UNCHANGED <<departments, sources, workspaces, codes, issued>>
  BY DEF CommitRoleGone, Commit, Ended
<1>2. r # EmployeeRole
  BY <1>1, Rows DEF DoOK
<1>3. /\ DOMAIN roles' = DOMAIN roles \ {r}
      /\ \A x \in DOMAIN roles' : roles'[x] = roles[x]
  BY <1>1 DEF Restrict
<1>4. ASSUME NEW e \in DOMAIN staff
      PROVE  /\ without(e) \in StaffRows /\ without(e).depts = staff[e].depts
             /\ without(e).token = staff[e].token
             /\ without(e).custom = IF staff[e].custom = r THEN NoRole ELSE staff[e].custom
  BY Rows DEF StaffRows
<1>5. DOMAIN T = DOMAIN staff /\ \A e \in DOMAIN staff : T[e] = without(e)
  OBVIOUS
<1> HIDE DEF T, without, r
<1>6. \A e \in DOMAIN staff : without(e).custom \in DOMAIN roles' \union {NoRole}
  BY <1>3, <1>4, Rows
<1>7. StaffTable(T, DOMAIN roles', departments', issued') /\ EmployeeRole \in DOMAIN roles'
  BY <1>1, <1>2, <1>3, <1>4, <1>5, <1>6, Rows DEF StaffTable
<1>8. StaffInv' /\ DOMAIN staff' = DOMAIN staff /\ TokensKept
  <2>1. /\ StaffInv' /\ DOMAIN staff' = DOMAIN T
        /\ \A e \in DOMAIN T : staff'[e].token = T[e].token
    BY <1>1, <1>7, TableStep
  <2> QED
    BY <1>4, <1>5, <2>1 DEF TokensKept
<1>9. RoleTable(roles)'
  BY <1>2, <1>3 DEF AccessInv, RoleTable
<1>10. /\ departments' \subseteq Departments /\ SourcesInv' /\ issued' \in 0..MaxTokens
       /\ WorkspacesInv' /\ CodesInv'
  BY <1>1, <1>8, Rows DEF AccessInv, SourcesInv, WorkspacesInv, CodesInv
<1> QED
  BY <1>1, <1>8, <1>9, <1>10, CommitStep

\* A step of the workspaces and documents that leaves the accounts to the
\* attached role.
LEMMA WorkspaceStep ==
    ASSUME AccessInv, NEW k \in Callers, Ended(k), staff' = Attached(k, staff) \/ UNCHANGED staff,
           UNCHANGED <<roles, departments, codes, issued>>,
           SourceTable(sources', departments),
           WorkspaceTable(workspaces', DOMAIN staff, DOMAIN sources')
    PROVE  AccessInv' /\ TokensKept
<1>1. /\ RoleTable(roles)' /\ departments' \subseteq Departments /\ SourcesInv'
  BY DEF AccessInv, SourcesInv, Bounded
<1>2. CASE staff' = Attached(k, staff)
  BY <1>1, <1>2, AttachStep
<1>3. CASE UNCHANGED staff
  <2>1. StaffInv' /\ TokensKept /\ WorkspacesInv' /\ CodesInv' /\ issued' \in 0..MaxTokens
    BY <1>3, Rows DEF AccessInv, StaffInv, TokensKept, WorkspacesInv, CodesInv
  <2> QED
    BY <1>1, <1>3, <2>1, CommitStep
<1> QED
  BY <1>2, <1>3

\* A new workspace has its creator as administrator.
LEMMA ProjectInv ==
    ASSUME AccessInv, NEW k \in Callers, CommitProject(k) PROVE AccessInv' /\ TokensKept
<1> DEFINE p == calls[k].do.id
           e == calls[k].by
           m == [x \in {e} |-> "admin"]
           row == [status |-> "active", linked |-> {}, members |-> m]
<1>1. /\ Ended(k) /\ calls[k].do.op = "create_project" /\ e \in DOMAIN staff
      /\ workspaces' = With(workspaces, p, row)
      /\ UNCHANGED <<staff, roles, departments, sources, codes, issued>>
  BY DEF CommitProject, Commit, Ended
<1>2. p \in Projects /\ e \in Employees
  BY <1>1, Rows DEF DoOK
<1>3. m \in MemberMaps /\ DOMAIN m = {e}
  <2>1. /\ m = [x \in {e} |-> m[x]] /\ {e} \subseteq Employees /\ DOMAIN m = {e}
        /\ \A x \in {e} : m[x] \in MemberRoles
    BY <1>2 DEF MemberRoles
  <2> HIDE DEF m
  <2> QED
    BY <2>1, MemberMap
<1> HIDE DEF m
<1>4. row \in WorkspaceRows /\ row.members = m /\ row.linked = {}
  BY <1>3 DEF WorkspaceRows
<1> HIDE DEF row, p, e
<1>5. /\ DOMAIN workspaces' = DOMAIN workspaces \union {p}
      /\ \A q \in DOMAIN workspaces' : workspaces'[q] = IF q = p THEN row ELSE workspaces[q]
  BY <1>1 DEF With
<1>6. WorkspaceTable(workspaces', DOMAIN staff, DOMAIN sources)
  BY <1>1, <1>2, <1>3, <1>4, <1>5 DEF AccessInv, WorkspacesInv, WorkspaceTable
<1> QED
  BY <1>1, <1>6, WorkspaceStep DEF AccessInv, SourcesInv

\* Deleting a workspace leaves its pages and its own documents.
LEMMA ProjectGoneInv ==
    ASSUME AccessInv, NEW k \in Callers, CommitProjectGone(k) PROVE AccessInv' /\ TokensKept
<1>1. /\ Ended(k) /\ \E S \in SUBSET DOMAIN workspaces : workspaces' = Restrict(workspaces, S)
      /\ UNCHANGED <<staff, roles, departments, sources, codes, issued>>
  BY DEF CommitProjectGone, Commit, Ended
<1>2. /\ DOMAIN workspaces' \subseteq DOMAIN workspaces
      /\ \A q \in DOMAIN workspaces' : workspaces'[q] = workspaces[q]
  BY <1>1 DEF Restrict
<1>3. WorkspaceTable(workspaces', DOMAIN staff, DOMAIN sources)
  BY <1>2 DEF AccessInv, WorkspacesInv, WorkspaceTable
<1> QED
  BY <1>1, <1>3, WorkspaceStep DEF AccessInv, SourcesInv

\* One workspace is saved.
LEMMA SaveWorkspace ==
    ASSUME AccessInv, NEW k \in Callers, Ended(k), NEW p \in DOMAIN workspaces,
           NEW row \in WorkspaceRows, DOMAIN row.members \subseteq DOMAIN staff,
           row.linked \subseteq DOMAIN sources, workspaces' = [workspaces EXCEPT ![p] = row],
           staff' = Attached(k, staff),
           UNCHANGED <<roles, departments, sources, codes, issued>>
    PROVE  AccessInv' /\ TokensKept
<1>1. /\ DOMAIN workspaces' = DOMAIN workspaces
      /\ \A q \in DOMAIN workspaces : workspaces'[q] = IF q = p THEN row ELSE workspaces[q]
  OBVIOUS
<1>2. WorkspaceTable(workspaces', DOMAIN staff, DOMAIN sources)
  BY <1>1 DEF AccessInv, WorkspacesInv, WorkspaceTable
<1> QED
  BY <1>2, WorkspaceStep DEF AccessInv, SourcesInv

\* What the invariant says of one workspace.
LEMMA WorkspaceRow ==
    ASSUME AccessInv, NEW p \in DOMAIN workspaces
    PROVE  /\ p \in Projects /\ workspaces[p] \in WorkspaceRows
           /\ workspaces[p].members = [x \in DOMAIN workspaces[p].members
                                         |-> workspaces[p].members[x]]
           /\ workspaces[p].members \in MemberMaps
           /\ DOMAIN workspaces[p].members \subseteq DOMAIN staff
           /\ DOMAIN workspaces[p].members \subseteq Employees
           /\ \A x \in DOMAIN workspaces[p].members : workspaces[p].members[x] \in MemberRoles
           /\ workspaces[p].linked \subseteq DOMAIN sources
           /\ DOMAIN sources \subseteq Sources
<1> DEFINE m == workspaces[p].members
<1>1. /\ p \in Projects /\ workspaces[p] \in WorkspaceRows /\ DOMAIN m \subseteq DOMAIN staff
      /\ workspaces[p].linked \subseteq DOMAIN sources /\ DOMAIN sources \subseteq Sources
  BY DEF AccessInv, WorkspacesInv, WorkspaceTable, SourcesInv, SourceTable
<1>2. m \in MemberMaps
  BY <1>1 DEF WorkspaceRows
<1>3. m = [x \in DOMAIN m |-> m[x]]
  BY <1>2 DEF MemberMaps
<1>4. DOMAIN m \subseteq Employees /\ \A x \in DOMAIN m : m[x] \in MemberRoles
  BY <1>2, <1>3, MemberMap
<1> QED
  BY <1>1, <1>2, <1>3, <1>4

\* What a commit makes of the members of a workspace.
MembersAfter(m, w) ==
    CASE w.op = "add_members" ->
            [x \in DOMAIN m \union (w.who \intersect DOMAIN staff) |->
               IF x \in DOMAIN m THEN m[x] ELSE w.role]
      [] w.op = "remove_member" -> Restrict(m, DOMAIN m \ {w.who})
      [] w.op = "set_member" -> [m EXCEPT ![w.who] = IF w.role = w.was THEN @ ELSE w.role]
      [] OTHER -> m

\* A commit to a workspace changes its members, or its links, or its status.
LEMMA WorkspaceCases ==
    ASSUME NEW k \in Callers, CommitWorkspace(k)
    PROVE  LET w == calls[k].do  ws == workspaces[w.id] IN
           /\ Ended(k) /\ w.id \in DOMAIN workspaces /\ staff' = Attached(k, staff)
           /\ UNCHANGED <<roles, departments, sources, codes, issued>>
           /\ \/ /\ w.op = "set_status"
                 /\ workspaces' = [workspaces EXCEPT ![w.id] = [ws EXCEPT !.status = w.status]]
              \/ /\ w.op \in {"add_members", "remove_member", "set_member"}
                 /\ w.op = "set_member" => w.who \in DOMAIN ws.members
                 /\ workspaces' = [workspaces EXCEPT ![w.id] =
                                     [ws EXCEPT !.members = MembersAfter(ws.members, w)]]
              \/ /\ w.op \in {"link", "unlink"}
                 /\ \E L \in SUBSET (ws.linked \union DOMAIN sources) :
                      workspaces' = [workspaces EXCEPT ![w.id] = [ws EXCEPT !.linked = L]]
<1> DEFINE w == calls[k].do
           ws == workspaces[w.id]
<1>1. /\ Ended(k) /\ w.id \in DOMAIN workspaces /\ staff' = Attached(k, staff)
      /\ UNCHANGED <<roles, departments, sources, codes, issued>>
  BY DEF CommitWorkspace, Commit, Ended
<1>2. CASE w.op = "set_status"
  BY <1>1, <1>2 DEF CommitWorkspace
<1>3. CASE w.op = "add_members"
  BY <1>1, <1>3 DEF CommitWorkspace, MembersAfter
<1>4. CASE w.op = "remove_member"
  BY <1>1, <1>4 DEF CommitWorkspace, MembersAfter
<1>5. CASE w.op = "set_member"
  <2>1. /\ w.who \in DOMAIN ws.members
        /\ workspaces' = [workspaces EXCEPT ![w.id] = [ws EXCEPT !.members[w.who] =
                            IF w.role = w.was THEN @ ELSE w.role]]
    BY <1>5 DEF CommitWorkspace
  <2> QED
    BY <1>1, <1>5, <2>1 DEF MembersAfter
<1>6. CASE w.op = "link"
  <2>1. /\ w.source \in DOMAIN sources
        /\ workspaces' = [workspaces EXCEPT ![w.id] = [ws EXCEPT !.linked = @ \union {w.source}]]
    BY <1>6 DEF CommitWorkspace
  <2>2. ws.linked \union {w.source} \in SUBSET (ws.linked \union DOMAIN sources)
    BY <2>1
  <2> QED
    BY <1>1, <1>6, <2>1, <2>2
<1>7. CASE w.op = "unlink"
  <2>1. workspaces' = [workspaces EXCEPT ![w.id] = [ws EXCEPT !.linked = @ \ {w.source}]]
    BY <1>7 DEF CommitWorkspace
  <2>2. ws.linked \ {w.source} \in SUBSET (ws.linked \union DOMAIN sources)
    OBVIOUS
  <2> QED
    BY <1>1, <1>7, <2>1, <2>2
<1> QED
  BY <1>2, <1>3, <1>4, <1>5, <1>6, <1>7 DEF CommitWorkspace

\* Whatever becomes of the members, they are accounts with a member's role.
LEMMA MembersAfterOK ==
    ASSUME AccessInv, NEW k \in Callers, NEW p \in DOMAIN workspaces,
           calls[k].do.op \in {"add_members", "remove_member", "set_member"}
    PROVE  LET n == MembersAfter(workspaces[p].members, calls[k].do) IN
           n \in MemberMaps /\ DOMAIN n \subseteq DOMAIN staff
<1> DEFINE w == calls[k].do
           m == workspaces[p].members
           n == MembersAfter(m, w)
<1>1. /\ m = [x \in DOMAIN m |-> m[x]] /\ DOMAIN m \subseteq DOMAIN staff
      /\ DOMAIN staff \subseteq Employees /\ \A x \in DOMAIN m : m[x] \in MemberRoles
  BY WorkspaceRow, Rows
<1>2. w.op \in {"add_members", "set_member"} => w.role \in MemberRoles
  BY Rows DEF DoOK
<1>3. SUFFICES \E X \in SUBSET DOMAIN staff :
                  n = [x \in X |-> n[x]] /\ \A x \in X : n[x] \in MemberRoles
  <2>1. PICK X \in SUBSET DOMAIN staff :
                n = [x \in X |-> n[x]] /\ \A x \in X : n[x] \in MemberRoles
    BY <1>3
  <2> HIDE DEF n
  <2>2. DOMAIN n = X /\ X \subseteq Employees
    BY <1>1, <2>1
  <2>3. n \in MemberMaps
    BY <2>1, <2>2, MemberMap
  <2>4. n \in MemberMaps /\ DOMAIN n \subseteq DOMAIN staff
    BY <2>2, <2>3
  <2> QED
    BY <2>4 DEF n
<1>4. CASE w.op = "add_members"
  <2> DEFINE X == DOMAIN m \union (w.who \intersect DOMAIN staff)
  <2>1. n = [x \in X |-> IF x \in DOMAIN m THEN m[x] ELSE w.role]
    BY <1>4 DEF MembersAfter
  <2>2. X \in SUBSET DOMAIN staff /\ n = [x \in X |-> n[x]]
    BY <1>1, <2>1
  <2>3. \A x \in X : n[x] \in MemberRoles
    BY <1>1, <1>2, <1>4, <2>1
  <2> QED
    BY <2>2, <2>3
<1>5. CASE w.op = "remove_member"
  <2> DEFINE X == DOMAIN m \ {w.who}
  <2>1. n = [x \in X |-> m[x]]
    BY <1>5 DEF MembersAfter, Restrict
  <2>2. X \in SUBSET DOMAIN staff /\ n = [x \in X |-> n[x]]
    BY <1>1, <2>1
  <2>3. \A x \in X : n[x] \in MemberRoles
    BY <1>1, <2>1
  <2> QED
    BY <2>2, <2>3
<1>6. CASE w.op = "set_member"
  <2>1. n = [x \in DOMAIN m |-> IF x = w.who THEN IF w.role = w.was THEN m[x] ELSE w.role
                                ELSE m[x]]
    BY <1>6 DEF MembersAfter
  <2>2. DOMAIN m \in SUBSET DOMAIN staff /\ n = [x \in DOMAIN m |-> n[x]]
    BY <1>1, <2>1
  <2>3. \A x \in DOMAIN m : n[x] \in MemberRoles
    BY <1>1, <1>2, <1>6, <2>1
  <2> QED
    BY <2>2, <2>3
<1> QED
  BY <1>4, <1>5, <1>6

\* Members, links and status of a workspace.
LEMMA WorkspaceInv ==
    ASSUME AccessInv, NEW k \in Callers, CommitWorkspace(k) PROVE AccessInv' /\ TokensKept
<1> DEFINE w == calls[k].do
           ws == workspaces[w.id]
           n == MembersAfter(ws.members, w)
           Saves(row) == workspaces' = [workspaces EXCEPT ![w.id] = row]
           Fits(row) == /\ row \in WorkspaceRows /\ DOMAIN row.members \subseteq DOMAIN staff
                        /\ row.linked \subseteq DOMAIN sources
<1>1. /\ Ended(k) /\ w.id \in DOMAIN workspaces /\ staff' = Attached(k, staff)
      /\ UNCHANGED <<roles, departments, sources, codes, issued>>
      /\ \/ w.op = "set_status" /\ Saves([ws EXCEPT !.status = w.status])
         \/ /\ w.op \in {"add_members", "remove_member", "set_member"}
            /\ Saves([ws EXCEPT !.members = n])
         \/ \E L \in SUBSET (ws.linked \union DOMAIN sources) : Saves([ws EXCEPT !.linked = L])
  BY WorkspaceCases
<1>2. /\ ws \in WorkspaceRows /\ DOMAIN ws.members \subseteq DOMAIN staff
      /\ ws.linked \subseteq DOMAIN sources /\ DOMAIN sources \subseteq Sources
  BY <1>1, WorkspaceRow
<1>3. SUFFICES \E row : Saves(row) /\ Fits(row)
  <2>1. PICK row : Saves(row) /\ Fits(row)
    BY <1>3
  <2> QED
    BY <1>1, <2>1, SaveWorkspace
<1>4. CASE w.op = "set_status" /\ Saves([ws EXCEPT !.status = w.status])
  <2>1. w.status \in {"active", "archived"}
    BY <1>4, Rows DEF DoOK
  <2> DEFINE row == [ws EXCEPT !.status = w.status]
  <2>2. Fits(row)
    BY <1>2, <2>1 DEF WorkspaceRows
  <2> HIDE DEF Fits, Saves
  <2> QED
    BY <1>4, <2>2
<1>5. CASE /\ w.op \in {"add_members", "remove_member", "set_member"}
           /\ Saves([ws EXCEPT !.members = n])
  <2>1. n \in MemberMaps /\ DOMAIN n \subseteq DOMAIN staff
    BY <1>1, <1>5, MembersAfterOK
  <2> DEFINE row == [ws EXCEPT !.members = n]
  <2> HIDE DEF n
  <2>2. Fits(row)
    BY <1>2, <2>1 DEF WorkspaceRows
  <2> HIDE DEF Fits, Saves
  <2> QED
    BY <1>5, <2>2
<1>6. ASSUME NEW L \in SUBSET (ws.linked \union DOMAIN sources), Saves([ws EXCEPT !.linked = L])
      PROVE  \E row : Saves(row) /\ Fits(row)
  <2> DEFINE row == [ws EXCEPT !.linked = L]
  <2>1. L \subseteq DOMAIN sources /\ L \subseteq Sources
    BY <1>2
  <2>2. Fits(row)
    BY <1>2, <2>1 DEF WorkspaceRows
  <2> HIDE DEF Fits, Saves
  <2> QED
    BY <1>6, <2>2
<1> QED
  BY <1>1, <1>4, <1>5, <1>6

\* A document is stored, with no department yet.
LEMMA SourceInv ==
    ASSUME AccessInv, NEW k \in Callers, CommitSource(k) PROVE AccessInv' /\ TokensKept
<1> DEFINE w == calls[k].do
           row == [tags |-> {}, owner |-> w.owner]
<1>1. /\ Ended(k) /\ w.op = "upload" /\ sources' = With(sources, w.id, row)
      /\ staff' = Attached(k, staff)
      /\ UNCHANGED <<roles, departments, workspaces, codes, issued>>
  BY DEF CommitSource, Commit, Ended
<1>2. w.id \in Sources /\ row \in SourceRows /\ row.tags = {}
  BY <1>1, Rows DEF DoOK, SourceRows
<1> HIDE DEF row, w
<1>3. /\ DOMAIN sources' = DOMAIN sources \union {w.id}
      /\ \A s \in DOMAIN sources' : sources'[s] = IF s = w.id THEN row ELSE sources[s]
  BY <1>1 DEF With
<1>4. SourceTable(sources', departments)
  BY <1>2, <1>3 DEF AccessInv, SourcesInv, SourceTable
<1>5. WorkspaceTable(workspaces', DOMAIN staff, DOMAIN sources')
  BY <1>1, <1>3, WorkspacesGrow DEF AccessInv, WorkspacesInv
<1> QED
  BY <1>1, <1>4, <1>5, WorkspaceStep

\* A document goes with the links to it.
LEMMA SourceGoneInv ==
    ASSUME AccessInv, NEW k \in Callers, CommitSourceGone(k) PROVE AccessInv' /\ TokensKept
<1> DEFINE s == calls[k].do.id
           without(p) == [workspaces[p] EXCEPT !.linked = @ \ {s}]
<1>1. /\ Ended(k) /\ staff' = Attached(k, staff)
      /\ sources' = Restrict(sources, DOMAIN sources \ {s})
      /\ workspaces' = [p \in DOMAIN workspaces |-> without(p)]
      /\ UNCHANGED <<roles, departments, codes, issued>>
  BY DEF CommitSourceGone, Commit, Ended
<1>2. /\ DOMAIN sources' = DOMAIN sources \ {s}
      /\ \A x \in DOMAIN sources' : sources'[x] = sources[x]
  BY <1>1 DEF Restrict
<1>3. SourceTable(sources', departments)
  BY <1>2 DEF AccessInv, SourcesInv, SourceTable
<1>4. ASSUME NEW p \in DOMAIN workspaces
      PROVE  /\ p \in Projects /\ without(p) \in WorkspaceRows
             /\ DOMAIN without(p).members \subseteq DOMAIN staff
             /\ without(p).linked \subseteq DOMAIN sources'
  <2>1. /\ p \in Projects /\ workspaces[p] \in WorkspaceRows
        /\ DOMAIN workspaces[p].members \subseteq DOMAIN staff
        /\ workspaces[p].linked \subseteq DOMAIN sources
    BY WorkspaceRow
  <2> QED
    BY <1>2, <2>1 DEF WorkspaceRows
<1>5. /\ DOMAIN workspaces' = DOMAIN workspaces
      /\ \A p \in DOMAIN workspaces : workspaces'[p] = without(p)
  BY <1>1
<1> HIDE DEF without, s
<1>6. WorkspaceTable(workspaces', DOMAIN staff, DOMAIN sources')
  BY <1>4, <1>5 DEF WorkspaceTable
<1> QED
  BY <1>1, <1>3, <1>6, WorkspaceStep

\* Codes are given to accounts that are there.
LEMMA AuthorizeInv ==
    ASSUME AccessInv, NEW e \in DOMAIN staff, NEW c, toCome > 0, Authorize(e, c)
    PROVE  AccessInv' /\ TokensKept
<1> DEFINE row == [owner |-> e, used |-> FALSE]
<1>1. /\ codes' = With(codes, c, row) /\ toCome' = toCome - 1
      /\ UNCHANGED <<staff, roles, departments, sources, workspaces, issued, calls>>
  BY DEF Authorize
<1>2. row \in CodeRows /\ row.owner = e
  BY Rows DEF CodeRows
<1> HIDE DEF row
<1>3. /\ DOMAIN codes' = DOMAIN codes \union {c}
      /\ \A i \in DOMAIN codes' : codes'[i] = IF i = c THEN row ELSE codes[i]
  BY <1>1 DEF With
<1>4. CodesInv'
  BY <1>1, <1>2, <1>3 DEF AccessInv, CodesInv, CodeTable
<1>5. toCome' \in 0..MaxCalls
  BY <1>1, AccessAssumption DEF AccessInv, Bounded
<1>6. StaffInv' /\ RoleTable(roles)' /\ SourcesInv' /\ WorkspacesInv' /\ CallsInv' /\ Bounded'
  BY <1>1, <1>5 DEF AccessInv, StaffInv, SourcesInv, WorkspacesInv, CallsInv, Bounded
<1> QED
  BY <1>1, <1>4, <1>6 DEF AccessInv, TokensKept

\* The exchange of a code acts for its owner.
LEMMA ExchangeInv ==
    ASSUME AccessInv, NEW k \in Callers, NEW c, ExchangeCode(k, c)
    PROVE  AccessInv' /\ TokensKept
<1> DEFINE q == [by |-> codes[c].owner, attach |-> FALSE, do |-> [op |-> "exchange", code |-> c]]
<1>1. /\ calls' = [calls EXCEPT ![k] = q] /\ toCome > 0 /\ toCome' = toCome - 1
      /\ UNCHANGED db /\ c \in DOMAIN codes
  BY DEF ExchangeCode, Free
<1>2. q.by \in Employees /\ DoOK(q.do)
  <2>1. q.by \in Employees
    BY <1>1 DEF AccessInv, CodesInv, CodeTable, CodeRows
  <2>2. DoOK([op |-> "exchange", code |-> c])
    BY DEF DoOK
  <2> QED
    BY <2>1, <2>2
<1> HIDE DEF q
<1> QED
  BY <1>1, <1>2, BeginStep

\* A request that fails leaves the rows as they are.
LEMMA AbortInv ==
    ASSUME AccessInv, NEW k \in Callers, Abort(k) PROVE AccessInv' /\ TokensKept
<1>1. /\ Ended(k) /\ UNCHANGED <<staff, roles, departments, sources, workspaces, codes, issued>>
  BY DEF Abort, Ended, db
<1>2. /\ StaffInv' /\ RoleTable(roles)' /\ SourcesInv' /\ WorkspacesInv' /\ CodesInv'
      /\ departments' \subseteq Departments /\ issued' \in 0..MaxTokens /\ TokensKept
  BY <1>1 DEF AccessInv, StaffInv, SourcesInv, WorkspacesInv, CodesInv, Bounded, TokensKept
<1> QED
  BY <1>1, <1>2, CommitStep

-----------------------------------------------------------------------------
(* The invariant.                                                            *)

\* A fresh installation, and an organization at work.
LEMMA InitInv == Init => AccessInv
<1> SUFFICES ASSUME Init PROVE AccessInv
  OBVIOUS
<1>1. PICK atWork \in BOOLEAN, b \in {x \in Bundles : Valid(x)} :
          /\ departments = IF atWork THEN Departments ELSE {}
          /\ roles = [r \in (IF atWork THEN CustomRoles ELSE {}) \union {EmployeeRole} |->
                        IF r = EmployeeRole THEN {} ELSE Migrated(b)]
          /\ \E D \in SUBSET departments, r \in (DOMAIN roles \ {EmployeeRole}) \union {NoRole} :
                staff = [e \in IF atWork THEN Employees ELSE {Founder} |->
                           [role   |-> IF e = Founder THEN "admin" ELSE "employee",
                            custom |-> IF e = Founder THEN NoRole ELSE r,
                            depts  |-> IF e = Founder THEN {} ELSE D,
                            active |-> TRUE, token |-> IF e = Founder THEN 0 ELSE 1]]
          /\ issued = IF atWork THEN 1 ELSE 0
          /\ \E o \in DOMAIN staff :
                /\ atWork => o # Founder
                /\ codes = [c \in IF atWork THEN Codes ELSE {} |-> [owner |-> o, used |-> FALSE]]
          /\ \E S \in SUBSET Sources, T \in SUBSET departments, linked \in SUBSET Sources,
                o \in Projects \union {NoRole}, r \in {"contributor", "admin"} :
                /\ linked \subseteq S /\ (~atWork => S = {} /\ o = NoRole)
                /\ o # NoRole => T = {} /\ linked = {}
                /\ sources = [s \in S |-> [tags |-> T, owner |-> o]]
                /\ workspaces = [p \in IF atWork THEN Projects ELSE {} |->
                     [status |-> "active", linked |-> linked, members |->
                        [e \in DOMAIN staff |-> IF e = Founder THEN "admin" ELSE r]]]
  BY DEF Init
<1>2. calls = [k \in Callers |-> NoCall] /\ toCome = MaxCalls
  BY DEF Init
<1>3. RoleTable(roles)
  <2>1. Migrated(b) \subseteq Permissions
    BY DEF Valid
  <2> QED
    BY <1>1, <2>1 DEF RoleTable, RoleIds
<1>4. CallsInv
  BY <1>2, NoCallOK DEF CallsInv
<1>5. Bounded
  BY <1>1, <1>2, AccessAssumption DEF Bounded
<1>6. StaffInv /\ DOMAIN staff \subseteq Employees
  <2>1. PICK D \in SUBSET departments, r \in (DOMAIN roles \ {EmployeeRole}) \union {NoRole} :
                staff = [e \in IF atWork THEN Employees ELSE {Founder} |->
                           [role   |-> IF e = Founder THEN "admin" ELSE "employee",
                            custom |-> IF e = Founder THEN NoRole ELSE r,
                            depts  |-> IF e = Founder THEN {} ELSE D,
                            active |-> TRUE, token |-> IF e = Founder THEN 0 ELSE 1]]
    BY <1>1
  <2> DEFINE row(e) == [role   |-> IF e = Founder THEN "admin" ELSE "employee",
                        custom |-> IF e = Founder THEN NoRole ELSE r,
                        depts  |-> IF e = Founder THEN {} ELSE D,
                        active |-> TRUE, token |-> IF e = Founder THEN 0 ELSE 1]
             X == IF atWork THEN Employees ELSE {Founder}
  <2>2. X \subseteq Employees /\ \A e \in X : e = Founder \/ issued = 1
    BY <1>1, AccessAssumption
  <2>3. DOMAIN roles \subseteq RoleIds /\ departments \subseteq Departments /\ issued \in 0..MaxTokens
    BY <1>3, <1>5 DEF RoleTable, Bounded
  <2>4. ASSUME NEW e \in X
        PROVE  /\ row(e) \in StaffRows /\ row(e).custom \in DOMAIN roles \union {NoRole}
               /\ row(e).depts \subseteq departments /\ row(e).token \in 0..issued
    <3>1. /\ (IF e = Founder THEN 0 ELSE 1) \in 0..issued
          /\ (IF e = Founder THEN 0 ELSE 1) \in 0..MaxTokens
      BY <2>2, <2>3, AccessAssumption
    <3> QED
      BY <2>3, <3>1 DEF StaffRows
  <2>5. DOMAIN staff = X /\ \A e \in X : staff[e] = row(e)
    BY <2>1
  <2> HIDE DEF row, X
  <2> QED
    BY <2>2, <2>4, <2>5 DEF StaffInv, StaffTable
<1>7. CodesInv
  <2>1. PICK o \in DOMAIN staff :
           codes = [c \in IF atWork THEN Codes ELSE {} |-> [owner |-> o, used |-> FALSE]]
    BY <1>1
  <2>2. [owner |-> o, used |-> FALSE] \in CodeRows
    BY <1>6 DEF CodeRows
  <2> QED
    BY <2>1, <2>2 DEF CodesInv, CodeTable
<1>8. SourcesInv /\ WorkspacesInv
  <2>1. PICK S \in SUBSET Sources, T \in SUBSET departments, linked \in SUBSET Sources,
             o \in Projects \union {NoRole}, r \in {"contributor", "admin"} :
                /\ linked \subseteq S /\ (~atWork => S = {} /\ o = NoRole)
                /\ o # NoRole => T = {} /\ linked = {}
                /\ sources = [s \in S |-> [tags |-> T, owner |-> o]]
                /\ workspaces = [p \in IF atWork THEN Projects ELSE {} |->
                     [status |-> "active", linked |-> linked, members |->
                        [e \in DOMAIN staff |-> IF e = Founder THEN "admin" ELSE r]]]
    BY <1>1
  <2>2. SourcesInv
    <3>1. [tags |-> T, owner |-> o] \in SourceRows
      BY <1>5 DEF SourceRows, Bounded
    <3> QED
      BY <2>1, <3>1 DEF SourcesInv, SourceTable
  <2> DEFINE m == [e \in DOMAIN staff |-> IF e = Founder THEN "admin" ELSE r]
             row == [status |-> "active", linked |-> linked, members |-> m]
             P == IF atWork THEN Projects ELSE {}
  <2>3. m \in MemberMaps /\ DOMAIN m = DOMAIN staff
    <3>1. /\ m = [e \in DOMAIN staff |-> m[e]] /\ DOMAIN m = DOMAIN staff
          /\ \A e \in DOMAIN staff : m[e] \in MemberRoles
      BY DEF MemberRoles
    <3> HIDE DEF m
    <3> QED
      BY <1>6, <3>1, MemberMap
  <2>4. workspaces = [p \in P |-> row] /\ P \subseteq Projects
    BY <2>1
  <2> HIDE DEF m, P
  <2>5. row \in WorkspaceRows /\ row.members = m /\ row.linked = linked
    BY <2>3 DEF WorkspaceRows
  <2> HIDE DEF row
  <2>6. DOMAIN sources = S
    BY <2>1
  <2>7. WorkspacesInv
    BY <2>1, <2>3, <2>4, <2>5, <2>6 DEF WorkspacesInv, WorkspaceTable
  <2> QED
    BY <2>2, <2>7
<1> QED
  BY <1>3, <1>4, <1>5, <1>6, <1>7, <1>8 DEF AccessInv

\* Whatever ends a request.
LEMMA EndsInv ==
    ASSUME AccessInv, NEW k \in Callers, Ends(k) PROVE AccessInv' /\ TokensKept
<1>1. CASE Abort(k) \/ EndLook(k) \/ CommitDepartment(k) \/ CommitDepartmentGone(k)
  BY <1>1, AbortInv, LookInv, DepartmentInv, DepartmentGoneInv
<1>2. CASE CommitEmployee(k) \/ CommitUpdate(k) \/ CommitEmployeeGone(k) \/ CommitRow(k)
  BY <1>2, EmployeeInv, UpdateInv, EmployeeGoneInv, RowInv
<1>3. CASE CommitRotation(k) \/ CommitRevocation(k) \/ CommitExchange(k)
  BY <1>3, TokenInv, RowInv
<1>4. CASE CommitRole(k) \/ CommitRoleGone(k) \/ CommitProject(k) \/ CommitProjectGone(k)
  BY <1>4, RoleInv, RoleGoneInv, ProjectInv, ProjectGoneInv
<1>5. CASE CommitWorkspace(k) \/ CommitSource(k) \/ CommitSourceGone(k) \/ CommitTags(k)
  BY <1>5, WorkspaceInv, SourceInv, SourceGoneInv, TagsInv
<1> QED
  BY <1>1, <1>2, <1>3, <1>4, <1>5 DEF Ends

\* Every step.
LEMMA NextInv == AccessInv /\ Next => AccessInv' /\ TokensKept
<1> SUFFICES ASSUME AccessInv, Next PROVE AccessInv' /\ TokensKept
  OBVIOUS
<1>1. PICK k \in Callers :
       \/ Ends(k)
       \/ \E c \in Codes : ExchangeCode(k, c)
       \/ Free(k) /\ \E e \in {x \in DOMAIN staff : Active(x)} :
             \/ Organization(k, e) \/ Workspaces(k, e)
             \/ \E s \in Sources, D \in SUBSET Departments : TagSource(k, e, s, D)
             \/ \E c \in Codes : Authorize(e, c)
  BY DEF Next
<1>2. CASE Ends(k)
  BY <1>2, EndsInv
<1>3. ASSUME NEW c \in Codes, ExchangeCode(k, c) PROVE AccessInv' /\ TokensKept
  BY <1>3, ExchangeInv
<1>4. ASSUME Free(k), NEW e \in DOMAIN staff, Organization(k, e) PROVE AccessInv' /\ TokensKept
  BY <1>4, OrganizationInv
<1>5. ASSUME Free(k), NEW e \in DOMAIN staff,
             \/ Workspaces(k, e)
             \/ \E s \in Sources, D \in SUBSET Departments : TagSource(k, e, s, D)
      PROVE  AccessInv' /\ TokensKept
  BY <1>5, WorkspacesAskInv
<1>6. ASSUME Free(k), NEW e \in DOMAIN staff, NEW c \in Codes, Authorize(e, c)
      PROVE  AccessInv' /\ TokensKept
  BY <1>6, AuthorizeInv DEF Free
<1> QED
  BY <1>1, <1>2, <1>3, <1>4, <1>5, <1>6

\* No step, no change.
LEMMA StutterInv == AccessInv /\ UNCHANGED vars => AccessInv'
BY DEF AccessInv, StaffInv, SourcesInv, WorkspacesInv, CodesInv, CallsInv, Bounded, vars, db

\* However many requests overlap, and whichever of them fail, the tables stay
\* in order: the foreign keys and their cascades, the roles and permissions
\* (rbac.py, roles.py), the members of workspaces (projects.py), the tokens
\* given out (mcp_auth_service.py) and what the requests under way may write.
THEOREM Invariant == Spec => []AccessInv
<1>1. AccessInv /\ [Next]_vars => AccessInv'
  BY NextInv, StutterInv
<1> QED
  BY <1>1, InitInv, PTL DEF Spec

-----------------------------------------------------------------------------
(* What follows.                                                             *)

\* No row refers to a row that is gone, and every request acts for an account.
THEOREM TypeCorrect == Spec => []AccessTypeOK
<1>1. AccessInv => AccessTypeOK
  <2> SUFFICES ASSUME AccessInv PROVE AccessTypeOK
    OBVIOUS
  <2>1. \A e \in DOMAIN staff :
          /\ e \in Employees
          /\ staff[e].role \in {"admin", "employee"} /\ staff[e].active \in BOOLEAN
          /\ staff[e].custom \in DOMAIN roles \union {NoRole}
          /\ staff[e].depts \subseteq departments /\ staff[e].token \in 0..issued
    BY Rows DEF StaffRows
  <2>2. /\ departments \subseteq Departments
        /\ DOMAIN roles \subseteq CustomRoles \union {EmployeeRole}
        /\ \A r \in DOMAIN roles : roles[r] \subseteq Permissions
        /\ \A s \in DOMAIN sources : sources[s].tags \subseteq departments
        /\ \A c \in DOMAIN codes : codes[c].owner \in DOMAIN staff
        /\ issued \in 0..MaxTokens /\ toCome \in 0..MaxCalls
        /\ \A k \in Callers : calls[k].by \in Employees
    BY DEF AccessInv, Bounded, RoleTable, RoleIds, SourcesInv, SourceTable, CodesInv, CodeTable,
           CallsInv
  <2>3. ASSUME NEW p \in DOMAIN workspaces
        PROVE  /\ workspaces[p].status \in {"active", "archived"}
               /\ DOMAIN workspaces[p].members \subseteq DOMAIN staff
               /\ Range(workspaces[p].members) \subseteq MemberRoles
               /\ workspaces[p].linked \subseteq DOMAIN sources
    <3>1. /\ workspaces[p] \in WorkspaceRows /\ workspaces[p].linked \subseteq DOMAIN sources
          /\ DOMAIN workspaces[p].members \subseteq DOMAIN staff
          /\ \A x \in DOMAIN workspaces[p].members : workspaces[p].members[x] \in MemberRoles
      BY WorkspaceRow
    <3>2. Range(workspaces[p].members) \subseteq MemberRoles
      BY <3>1 DEF Range
    <3> QED
      BY <3>1, <3>2 DEF WorkspaceRows
  <2> QED
    BY <2>1, <2>2, <2>3 DEF AccessTypeOK
<1> QED
  BY <1>1, Invariant, PTL

\* A token that was rotated away, revoked or lost with its account is never
\* accepted again: whatever commits, an account keeps its token, loses it, or
\* gets the next one (mcp_auth_service.py, exchange_code).
THEOREM NoTokenReturns == Spec => DeadTokensStayDead
<1>1. AccessInv /\ [Next]_vars => [\A t \in 1..issued : ~Held(t) => ~Held(t)']_vars
  <2> SUFFICES ASSUME AccessInv, Next PROVE \A t \in 1..issued : ~Held(t) => ~Held(t)'
    OBVIOUS
  <2> SUFFICES ASSUME NEW t \in 1..issued, Held(t)' PROVE Held(t)
    OBVIOUS
  <2>1. TokensKept /\ issued \in Nat
    BY NextInv, Rows
  <2>2. PICK e \in DOMAIN staff' : staff'[e].token = t
    BY DEF Held
  <2>3. t \notin {0, issued + 1}
    BY <2>1
  <2> QED
    BY <2>1, <2>2, <2>3 DEF TokensKept, Held
<1> QED
  BY <1>1, Invariant, PTL DEF Spec, DeadTokensStayDead

\* The administrators in a map of members.
AdminsIn(m) == {x \in DOMAIN m : m[x] = "admin"}

\* No workspace that stays gains or loses members.
MembersKept ==
    \A p \in DOMAIN workspaces \intersect DOMAIN workspaces' :
        workspaces'[p].members = workspaces[p].members

\* Members change when an account goes, and in the commits made for that.
LEMMA WhoChangesMembers ==
    ASSUME AccessInv, Next
    PROVE  \/ MembersKept
           \/ DOMAIN staff' # DOMAIN staff
           \/ \E k \in Callers : /\ CommitWorkspace(k)
                                 /\ calls[k].do.op \in {"add_members", "remove_member", "set_member"}
<1>1. UNCHANGED workspaces => MembersKept
  BY DEF MembersKept
<1>2. ASSUME NEW k \in Callers, CommitEmployeeGone(k) PROVE DOMAIN staff' # DOMAIN staff
  <2> DEFINE x == calls[k].do.id
             T == Restrict(staff, DOMAIN staff \ {x})
  <2>1. x \in DOMAIN staff /\ staff' = Attached(k, T)
    BY <1>2 DEF CommitEmployeeGone
  <2>2. DOMAIN T = DOMAIN staff \ {x}
    BY DEF Restrict
  <2> HIDE DEF T
  <2> QED
    BY <2>1, <2>2, AttachedRows
<1>3. ASSUME NEW k \in Callers, CommitProject(k) PROVE MembersKept
  BY <1>3 DEF CommitProject, Commit, Fresh, With, MembersKept
<1>4. ASSUME NEW k \in Callers, CommitProjectGone(k) PROVE MembersKept
  BY <1>4 DEF CommitProjectGone, Restrict, MembersKept
<1>5. ASSUME NEW k \in Callers, CommitSourceGone(k) PROVE MembersKept
  <2> DEFINE s == calls[k].do.id
  <2>1. workspaces' = [p \in DOMAIN workspaces |-> [workspaces[p] EXCEPT !.linked = @ \ {s}]]
    BY <1>5 DEF CommitSourceGone
  <2>2. ASSUME NEW p \in DOMAIN workspaces
        PROVE  [workspaces[p] EXCEPT !.linked = @ \ {s}].members = workspaces[p].members
    BY WorkspaceRow DEF WorkspaceRows
  <2> QED
    BY <2>1, <2>2 DEF MembersKept
<1>6. ASSUME NEW k \in Callers, CommitWorkspace(k),
             calls[k].do.op \notin {"add_members", "remove_member", "set_member"}
      PROVE  MembersKept
  <2> DEFINE w == calls[k].do
             ws == workspaces[w.id]
  <2>1. /\ w.id \in DOMAIN workspaces
        /\ \/ workspaces' = [workspaces EXCEPT ![w.id] = [ws EXCEPT !.status = w.status]]
           \/ \E L \in SUBSET (ws.linked \union DOMAIN sources) :
                workspaces' = [workspaces EXCEPT ![w.id] = [ws EXCEPT !.linked = L]]
    BY <1>6, WorkspaceCases
  <2>2. ws \in WorkspaceRows
    BY <2>1, WorkspaceRow
  <2>3. /\ [ws EXCEPT !.status = w.status].members = ws.members
        /\ \A L : [ws EXCEPT !.linked = L].members = ws.members
    BY <2>2 DEF WorkspaceRows
  <2>4. ASSUME NEW row, row.members = ws.members, workspaces' = [workspaces EXCEPT ![w.id] = row]
        PROVE  MembersKept
    BY <2>1, <2>4 DEF MembersKept
  <2> QED
    BY <2>1, <2>3, <2>4
<1>7. \/ UNCHANGED workspaces
      \/ \E k \in Callers : CommitEmployeeGone(k) \/ CommitProject(k) \/ CommitProjectGone(k)
                             \/ CommitSourceGone(k) \/ CommitWorkspace(k)
  <2>1. ASSUME NEW k \in Callers, Ends(k)
        PROVE  \/ UNCHANGED workspaces
               \/ CommitEmployeeGone(k) \/ CommitProject(k) \/ CommitProjectGone(k)
               \/ CommitSourceGone(k) \/ CommitWorkspace(k)
    BY <2>1 DEF Ends, Abort, EndLook, CommitDepartment, CommitDepartmentGone, CommitEmployee,
                CommitUpdate, CommitRow, CommitRotation, CommitRevocation, CommitExchange,
                CommitRole, CommitRoleGone, CommitSource, CommitTags, db
  <2>2. ASSUME NEW k, NEW e, Organization(k, e) PROVE UNCHANGED workspaces
    BY <2>2 DEF Organization, Look, CreateDepartment, DeleteDepartment, CreateEmployee,
                UpdateEmployee, DeleteEmployee, ToggleEmployee, RotateToken, RevokeToken,
                AddDepartment, RemoveDepartment, CreateRole, UpdateRole, DeleteRole, Begin, db
  <2>3. ASSUME NEW k, NEW e, Workspaces(k, e) PROVE UNCHANGED workspaces
    BY <2>3 DEF Workspaces, CreateProject, DeleteProject, UpdateProject, AddMembers, RemoveMember,
                UpdateMember, AddProjectSource, RemoveProjectSource, UploadWorkspaceSource,
                Begin, db
  <2>4. ASSUME NEW k, NEW c, NEW e, NEW s, NEW D,
               ExchangeCode(k, c) \/ Authorize(e, c) \/ TagSource(k, e, s, D)
        PROVE  UNCHANGED workspaces
    BY <2>4 DEF ExchangeCode, Authorize, TagSource, Begin, db
  <2> QED
    BY <2>1, <2>2, <2>3, <2>4 DEF Next
<1> QED
  BY <1>1, <1>2, <1>3, <1>4, <1>5, <1>6, <1>7

\* A commit that takes the last administrator had counted others.
LEMMA LastAdminCounted ==
    ASSUME AccessInv, NEW k \in Callers, NEW p \in DOMAIN workspaces,
           LET w == calls[k].do  m == workspaces[p].members IN
           /\ w.op \in {"add_members", "remove_member", "set_member"}
           /\ AdminsIn(m) # {} /\ AdminsIn(MembersAfter(m, w)) = {}
    PROVE  /\ calls[k].do.op \in {"remove_member", "set_member"}
           /\ calls[k].do.admins # AdminsIn(workspaces[p].members)
<1> DEFINE w == calls[k].do
           m == workspaces[p].members
           n == MembersAfter(m, w)
<1>1. PICK x \in DOMAIN m : m[x] = "admin"
  BY DEF AdminsIn
<1>2. DoOK(w)
  BY Rows
<1>3. \A y \in DOMAIN n : n[y] # "admin"
  BY DEF AdminsIn
<1>4. CASE w.op = "add_members"
  <2>1. x \in DOMAIN n /\ n[x] = m[x]
    BY <1>1, <1>4 DEF MembersAfter
  <2> QED
    BY <1>1, <1>3, <2>1
<1>5. ASSUME w.op \in {"remove_member", "set_member"}, w.admins = AdminsIn(m) PROVE FALSE
  <2>1. ASSUME NEW y \in DOMAIN m, y # w.who, m[y] = "admin" PROVE FALSE
    <3>1. y \in DOMAIN n /\ n[y] = m[y]
      BY <1>5, <2>1 DEF MembersAfter, Restrict
    <3> QED
      BY <1>3, <2>1, <3>1
  <2>2. AdminsIn(m) = {w.who}
    BY <1>1, <2>1 DEF AdminsIn
  <2>3. w.op = "set_member" /\ w.role = "admin"
    BY <1>2, <1>5, <2>2 DEF DoOK
  <2>4. w.who \in DOMAIN m /\ m[w.who] = "admin"
    BY <2>2 DEF AdminsIn
  <2>5. w.who \in DOMAIN n /\ n[w.who] = "admin"
    BY <2>3, <2>4 DEF MembersAfter
  <2> QED
    BY <1>3, <2>5
<1> QED
  BY <1>4, <1>5

\* A removal or a demotion takes the last administrator of a workspace only if
\* another commit changed the administrators it had counted (remove_member and
\* update_member of projects.py count them before they write).
THEOREM LastAdminOnlyByRace == Spec => LastAdminLostToARace
<1> DEFINE Lost(p) == Admins(p) # {} /\ Admins(p)' = {} =>
             \/ DOMAIN staff' # DOMAIN staff
             \/ \E k \in Callers : /\ calls'[k] # calls[k]
                                   /\ calls[k].do.op \in {"remove_member", "set_member"}
                                   /\ calls[k].do.admins # Admins(p)
<1>1. AccessInv /\ [Next]_vars =>
         [\A p \in DOMAIN workspaces \intersect DOMAIN workspaces' : Lost(p)]_vars
  <2> SUFFICES ASSUME AccessInv, Next
               PROVE  \A p \in DOMAIN workspaces \intersect DOMAIN workspaces' : Lost(p)
    OBVIOUS
  <2> SUFFICES ASSUME NEW p \in DOMAIN workspaces \intersect DOMAIN workspaces',
                      Admins(p) # {}, Admins(p)' = {}, DOMAIN staff' = DOMAIN staff
               PROVE  \E k \in Callers : /\ calls'[k] # calls[k]
                                         /\ calls[k].do.op \in {"remove_member", "set_member"}
                                         /\ calls[k].do.admins # Admins(p)
    OBVIOUS
  <2>1. AdminsIn(workspaces[p].members) # {} /\ AdminsIn(workspaces'[p].members) = {}
    BY DEF Admins, AdminsIn
  <2>2. ~MembersKept
    BY <2>1 DEF MembersKept
  <2>3. PICK k \in Callers :
           /\ CommitWorkspace(k)
           /\ calls[k].do.op \in {"add_members", "remove_member", "set_member"}
    BY <2>2, WhoChangesMembers
  <2> DEFINE w == calls[k].do
             ws == workspaces[w.id]
  <2>4. /\ w.id \in DOMAIN workspaces /\ Ended(k)
        /\ workspaces' = [workspaces EXCEPT ![w.id] =
                            [ws EXCEPT !.members = MembersAfter(ws.members, w)]]
    BY <2>3, WorkspaceCases
  <2>5. [ws EXCEPT !.members = MembersAfter(ws.members, w)].members = MembersAfter(ws.members, w)
    BY <2>4, WorkspaceRow DEF WorkspaceRows
  <2>6. w.id = p /\ AdminsIn(MembersAfter(workspaces[p].members, w)) = {}
    BY <2>1, <2>4, <2>5
  <2>7. w.op \in {"remove_member", "set_member"} /\ w.admins # AdminsIn(workspaces[p].members)
    BY <2>1, <2>3, <2>6, LastAdminCounted
  <2>8. calls'[k] = NoCall
    BY <2>4 DEF Ended, AccessInv, CallsInv
  <2>9. NoCall.do.op = "none"
    BY DEF NoCall
  <2> QED
    BY <2>7, <2>8, <2>9 DEF Admins, AdminsIn
<1> QED
  BY <1>1, Invariant, PTL DEF Spec, LastAdminLostToARace
=============================================================================
