------------------------------- MODULE Access -------------------------------
(* Who may read and change what: employees, departments, roles, workspaces   *)
(* and their members, MCP tokens and OAuth codes (routers/rbac.py, roles.py, *)
(* projects.py, oauth.py), and the rules by which the web API and the MCP    *)
(* server answer a caller (permission_engine.py, mcp_auth_service.py,        *)
(* mcp/permissions.py, mcp/tools.py, routers/wiki.py).                       *)
(*                                                                           *)
(* A request of the web API loads its caller, checks, and commits when it    *)
(* ends; no row it read is locked.  Ids are never used twice.                *)
EXTENDS Integers, FiniteSets, Functions

CONSTANTS
    Employees, Founder,   \* ids of employees rows; the first administrator
    Departments, Projects, Sources, CustomRoles, Codes,   \* ids of rows
    Bundles,      \* sets of permission names a role may be given
    Callers,      \* request slots of the API
    MaxTokens,    \* bound on the MCP tokens issued
    MaxCalls      \* bound on the requests of a behaviour

ASSUME AccessAssumption ==
    Founder \in Employees /\ MaxTokens \in Nat \ {0} /\ MaxCalls \in Nat

VARIABLES
    staff,        \* employees with their department rows, by id
    roles,        \* roles: the permission names stored in each
    departments,  \* departments that exist
    sources,      \* sources: [tags: department rows, owner: workspace or none]
    workspaces,   \* projects: [status, members: the role of each, linked]
    codes,        \* oauth_auth_codes: [owner, used]
    issued,       \* how many MCP tokens have been generated
    spent,        \* ids of deleted rows
    calls,        \* the request in each slot
    toCome        \* requests still to come (the bound, no part of the program)

db == <<staff, roles, departments, sources, workspaces, codes, issued, spent>>
vars == <<db, calls, toCome>>

(***************************************************************************)
(* Permissions: resource, action, scope                                    *)
(***************************************************************************)
Levels == {"own_dept", "all"}
Scoped == {<<"doc", "read">>, <<"wiki", "read">>, <<"wiki", "write">>,
           <<"skill", "read">>, <<"doc", "edit">>}
Manage(what) == <<"org", what, "manage">>
Permissions == {<<p[1], p[2], s>> : p \in Scoped, s \in Levels}
               \union {Manage(w) : w \in {"departments", "employees", "roles"}}
EmployeeDefaults == {<<r, "read", "own_dept">> : r \in {"doc", "wiki", "skill"}}
                    \union {<<"wiki", "write", "own_dept">>}

LegacyNames == {<<"documents", "read">>, <<"kb", "read">>, <<"kb", "edit">>,
                <<"employees", "edit">>}
LegacyMap == [n \in LegacyNames |->
    CASE n[1] = "documents"     -> {<<"doc", "read", "own_dept">>}
      [] n = <<"kb", "read">>   -> {<<"wiki", "read", "own_dept">>}
      [] n = <<"kb", "edit">>   -> {<<"wiki", "write", "own_dept">>}
      [] n[1] = "employees"     -> {Manage("employees")}]
IsLegacy(n) == n \notin Permissions
Migrated(names) == {n \in names : ~IsLegacy(n)}
                   \union UNION {LegacyMap[n] : n \in {m \in names : IsLegacy(m)}}

Valid(names) == Migrated(names) \subseteq Permissions

ScopeLevel(perms, resource, action) ==
    IF <<resource, action, "all">> \in perms THEN "all"
    ELSE IF <<resource, action, "own_dept">> \in perms THEN "own_dept" ELSE "none"
HasAny(perms, resource, action) == ScopeLevel(perms, resource, action) # "none"

EmployeeRole == "Employee"     \* the system role migration 005 creates, empty
NoRole == "none"

Active(e) == e \in DOMAIN staff /\ staff[e].active
IsAdmin(e) == staff[e].role = "admin"
Granted(r) == IF r = NoRole THEN EmployeeDefaults ELSE Migrated(roles[r])

(* get_current_user gives a caller without a custom role the Employee role;  *)
(* the MCP server reads the row as it is.                                    *)
Attaches(e) == ~IsAdmin(e) /\ staff[e].custom = NoRole
RestPermissions(e) ==
    IF IsAdmin(e) THEN Permissions
    ELSE Granted(IF Attaches(e) THEN EmployeeRole ELSE staff[e].custom)
McpPermissions(e) == IF IsAdmin(e) THEN Permissions ELSE Granted(staff[e].custom)

(***************************************************************************)
(* Workspaces                                                              *)
(***************************************************************************)
MemberRoles == {"viewer", "contributor", "editor", "admin"}
Level == [viewer |-> 0, contributor |-> 1, editor |-> 2, admin |-> 3, none |-> -1]
RoleCan(r, required) == Level[r] >= Level[required]

IsMember(e, p) == p \in DOMAIN workspaces /\ e \in DOMAIN workspaces[p].members
WorkspaceRole(e, p) == IF IsAdmin(e) THEN "admin"
                       ELSE IF IsMember(e, p) THEN workspaces[p].members[e] ELSE "none"
Admins(p) == {x \in DOMAIN workspaces[p].members : workspaces[p].members[x] = "admin"}

(***************************************************************************)
(* Requests                                                                *)
(***************************************************************************)
NoCall == [by |-> Founder, attach |-> FALSE, do |-> [op |-> "none"]]

(* A fresh installation, or an organization at work that earlier requests    *)
(* have set up: one custom role, and one workspace all its employees are in. *)
Init ==
    /\ \E atWork \in BOOLEAN, b \in {x \in Bundles : Valid(x)} :
          /\ departments = IF atWork THEN Departments ELSE {}
          /\ roles = [r \in (IF atWork THEN CustomRoles ELSE {}) \union {EmployeeRole} |->
                        IF r = EmployeeRole THEN {} ELSE Migrated(b)]
          /\ \E D \in SUBSET departments, r \in (DOMAIN roles \ {EmployeeRole}) \union {NoRole} :
                staff = [e \in IF atWork THEN Employees ELSE {Founder} |->
                           [role   |-> IF e = Founder THEN "admin" ELSE "employee",
                            custom |-> IF e = Founder THEN NoRole ELSE r,
                            depts  |-> IF e = Founder THEN {} ELSE D,
                            active |-> TRUE, token |-> IF e = Founder THEN 0 ELSE 1]]
          /\ issued = IF atWork THEN 1 ELSE 0
          /\ \E o \in DOMAIN staff :
                /\ atWork => o # Founder
                /\ codes = [c \in IF atWork THEN Codes ELSE {} |-> [owner |-> o, used |-> FALSE]]
          /\ \E S \in SUBSET Sources, T \in SUBSET departments, linked \in SUBSET Sources,
                o \in Projects \union {NoRole}, r \in {"contributor", "admin"} :
                /\ linked \subseteq S /\ (~atWork => S = {} /\ o = NoRole)
                /\ o # NoRole => T = {} /\ linked = {}
                /\ sources = [s \in S |-> [tags |-> T, owner |-> o]]
                /\ workspaces = [p \in IF atWork THEN Projects ELSE {} |->
                     [status |-> "active", linked |-> linked, members |->
                        [e \in DOMAIN staff |-> IF e = Founder THEN "admin" ELSE r]]]
    /\ spent = {}
    /\ calls = [k \in Callers |-> NoCall]
    /\ toCome = MaxCalls

\* A table with one more row, or another row under that id.
With(table, id, row) == [x \in DOMAIN table \union {id} |-> IF x = id THEN row ELSE table[x]]
Fresh(id, live) == id \notin live /\ id \notin spent
Allowed(e, perm) == perm \in RestPermissions(e)

Free(k) == calls[k] = NoCall /\ toCome > 0
Begin(k, e, do) ==
    /\ calls' = [calls EXCEPT ![k] = [by |-> e, attach |-> Attaches(e), do |-> do]]
    /\ toCome' = toCome - 1
    /\ UNCHANGED db

(* Whatever fails - a row gone, a key taken, the database - rolls back. *)
Abort(k) == /\ calls[k] # NoCall
            /\ calls' = [calls EXCEPT ![k] = NoCall]
            /\ UNCHANGED <<db, toCome>>

(* The commit of the request in slot k also writes the attached role. *)
Commit(k, op) ==
    /\ calls[k].do.op = op
    /\ calls[k].attach => calls[k].by \in DOMAIN staff
    /\ calls' = [calls EXCEPT ![k] = NoCall]
    /\ UNCHANGED toCome
Attached(k, rows) == IF calls[k].attach /\ calls[k].by \in DOMAIN rows
                     THEN [rows EXCEPT ![calls[k].by].custom = EmployeeRole] ELSE rows

(* Any other request: nothing changes but the caller's attached role. *)
Look(k, e) == Begin(k, e, [op |-> "look"])
EndLook(k) == /\ Commit(k, "look")
              /\ staff' = Attached(k, staff)
              /\ UNCHANGED <<roles, departments, sources, workspaces, codes, issued, spent>>

(***************************************************************************)
(* routers/rbac.py: departments and employees                              *)
(***************************************************************************)
CreateDepartment(k, e, d) ==
    /\ Allowed(e, Manage("departments")) /\ Fresh(d, departments)
    /\ Begin(k, e, [op |-> "create_department", id |-> d])
CommitDepartment(k) ==
    LET d == calls[k].do.id IN
    /\ Commit(k, "create_department") /\ Fresh(d, departments)
    /\ departments' = departments \union {d}
    /\ staff' = Attached(k, staff)
    /\ UNCHANGED <<roles, sources, workspaces, codes, issued, spent>>

DeleteDepartment(k, e, d) ==
    /\ Allowed(e, Manage("departments")) /\ d \in departments
    /\ Begin(k, e, [op |-> "delete_department", id |-> d])
(* The rows that tie employees and documents to it go along. *)
CommitDepartmentGone(k) ==
    LET d == calls[k].do.id IN
    /\ Commit(k, "delete_department") /\ d \in departments
    /\ departments' = departments \ {d} /\ spent' = spent \union {d}
    /\ staff' = Attached(k, [x \in DOMAIN staff |->
                               [staff[x] EXCEPT !.depts = @ \ {d}]])
    /\ sources' = [s \in DOMAIN sources |-> [sources[s] EXCEPT !.tags = @ \ {d}]]
    /\ UNCHANGED <<roles, workspaces, codes, issued>>

CreateEmployee(k, e, x, r, c, D) ==
    /\ Allowed(e, Manage("employees")) /\ Fresh(x, DOMAIN staff) /\ D \subseteq departments
    /\ Begin(k, e, [op |-> "create_employee", id |-> x, role |-> r, custom |-> c, depts |-> D])
CommitEmployee(k) ==
    LET w == calls[k].do IN
    /\ Commit(k, "create_employee") /\ Fresh(w.id, DOMAIN staff)
    /\ w.custom \in DOMAIN roles \union {NoRole} /\ w.depts \subseteq departments
    /\ staff' = [x \in DOMAIN staff \union {w.id} |->
                   IF x # w.id THEN Attached(k, staff)[x]
                   ELSE [role |-> w.role, custom |-> w.custom, depts |-> w.depts,
                         active |-> TRUE, token |-> 0]]
    /\ UNCHANGED <<roles, departments, sources, workspaces, codes, issued, spent>>

UpdateEmployee(k, e, x, r, c, D) ==
    /\ Allowed(e, Manage("employees")) /\ x \in DOMAIN staff /\ D \subseteq departments
    /\ Begin(k, e, [op |-> "update_employee", id |-> x, role |-> r, custom |-> c, depts |-> D,
                    seen |-> staff[x]])
\* mutant: the request writes back the whole row it has read
SaveWholeRow(k) ==
    LET w == calls[k].do
        row == [w.seen EXCEPT !.role = w.role, !.custom = w.custom, !.depts = w.depts] IN
    /\ Commit(k, "update_employee") /\ w.id \in DOMAIN staff
    /\ row.custom \in DOMAIN roles \union {NoRole} /\ row.depts \subseteq departments
    /\ staff' = Attached(k, [staff EXCEPT ![w.id] = row])
    /\ UNCHANGED <<roles, departments, sources, workspaces, codes, issued, spent>>
(* Only columns that differ from the loaded row are written. *)
CommitUpdate(k) ==
    LET w == calls[k].do
        new == w.depts \ w.seen.depts  old == w.seen.depts \ w.depts
        row == [staff[w.id] EXCEPT
                  !.role   = IF w.role = w.seen.role THEN @ ELSE w.role,
                  !.custom = IF w.custom = w.seen.custom THEN @ ELSE w.custom,
                  !.depts  = (@ \ old) \union new] IN
    /\ Commit(k, "update_employee") /\ w.id \in DOMAIN staff
    /\ row.custom \in DOMAIN roles \union {NoRole}
    /\ new \subseteq departments \ staff[w.id].depts
    /\ staff' = Attached(k, [staff EXCEPT ![w.id] = row])
    /\ UNCHANGED <<roles, departments, sources, workspaces, codes, issued, spent>>

DeleteEmployee(k, e, x) ==
    /\ Allowed(e, Manage("employees")) /\ x \in DOMAIN staff /\ ~IsAdmin(x)
    /\ Begin(k, e, [op |-> "delete_employee", id |-> x])
(* Memberships and codes go with the row. *)
CommitEmployeeGone(k) ==
    LET x == calls[k].do.id IN
    /\ Commit(k, "delete_employee") /\ x \in DOMAIN staff
    /\ staff' = Attached(k, Restrict(staff, DOMAIN staff \ {x}))
    /\ workspaces' = [p \in DOMAIN workspaces |-> [workspaces[p] EXCEPT
                        !.members = Restrict(@, DOMAIN @ \ {x})]]
    /\ codes' = Restrict(codes, {c \in DOMAIN codes : codes[c].owner # x})
    /\ spent' = spent \union {x}
    /\ UNCHANGED <<roles, departments, sources, issued>>

AddDepartment(k, e, x, d) ==
    /\ Allowed(e, Manage("employees"))
    /\ x \in DOMAIN staff /\ d \in departments \ staff[x].depts
    /\ Begin(k, e, [op |-> "join", id |-> x, dept |-> d])
RemoveDepartment(k, e, x, d) ==
    /\ Allowed(e, Manage("employees")) /\ x \in DOMAIN staff /\ d \in staff[x].depts
    /\ Begin(k, e, [op |-> "leave", id |-> x, dept |-> d])
ToggleEmployee(k, e, x) ==
    /\ Allowed(e, Manage("employees")) /\ x \in DOMAIN staff
    /\ Begin(k, e, [op |-> "toggle", id |-> x, active |-> ~staff[x].active])
CommitRow(k) ==
    LET w == calls[k].do
        Save(op, row) == Commit(k, op) /\ staff' = Attached(k, [staff EXCEPT ![w.id] = row])
    IN  /\ w.op \in {"join", "leave", "toggle"} /\ w.id \in DOMAIN staff
        /\ \/ /\ w.op = "join" /\ w.dept \in departments \ staff[w.id].depts
              /\ Save("join", [staff[w.id] EXCEPT !.depts = @ \union {w.dept}])
           \/ w.op = "leave" /\ Save("leave", [staff[w.id] EXCEPT !.depts = @ \ {w.dept}])
           \/ w.op = "toggle" /\ Save("toggle", [staff[w.id] EXCEPT !.active = w.active])
        /\ UNCHANGED <<roles, departments, sources, workspaces, codes, issued, spent>>

(***************************************************************************)
(* MCP tokens and OAuth codes                                              *)
(***************************************************************************)
RotateToken(k, e, x) ==
    /\ x = e \/ (Allowed(e, Manage("employees")) /\ x \in DOMAIN staff)
    /\ Begin(k, e, [op |-> "rotate", id |-> x])
RevokeToken(k, e, x) ==
    /\ x = e \/ Allowed(e, Manage("employees"))
    /\ Begin(k, e, [op |-> "revoke", id |-> x])

(* generate_token; an account that is gone gets a token nobody accepts. *)
GenerateToken(rows, x) ==
    /\ issued < MaxTokens
    /\ issued' = issued + 1
    /\ staff' = IF x \in DOMAIN rows THEN [rows EXCEPT ![x].token = issued + 1] ELSE rows
CommitRotation(k) ==
    /\ Commit(k, "rotate") /\ GenerateToken(Attached(k, staff), calls[k].do.id)
    /\ UNCHANGED <<roles, departments, sources, workspaces, codes, spent>>
CommitRevocation(k) ==
    LET x == calls[k].do.id IN
    /\ Commit(k, "revoke") /\ x \in DOMAIN staff
    /\ staff' = Attached(k, [staff EXCEPT ![x].token = 0])
    /\ UNCHANGED <<roles, departments, sources, workspaces, codes, issued, spent>>

(* authorize_post and exchange_code act for a person, not for a web session. *)
Authorize(e, c) ==
    /\ c \notin DOMAIN codes /\ c \notin spent
    /\ codes' = With(codes, c, [owner |-> e, used |-> FALSE])
    /\ toCome' = toCome - 1
    /\ UNCHANGED <<staff, roles, departments, sources, workspaces, issued, spent, calls>>
ExchangeCode(k, c) ==
    /\ Free(k) /\ c \in DOMAIN codes /\ ~codes[c].used
    /\ calls' = [calls EXCEPT ![k] = [by |-> codes[c].owner, attach |-> FALSE,
                                      do |-> [op |-> "exchange", code |-> c]]]
    /\ toCome' = toCome - 1
    /\ UNCHANGED db
CommitExchange(k) ==
    LET c == calls[k].do.code IN
    /\ Commit(k, "exchange") /\ GenerateToken(staff, calls[k].by)
    /\ codes' = IF c \in DOMAIN codes THEN [codes EXCEPT ![c].used = TRUE] ELSE codes
    /\ UNCHANGED <<roles, departments, sources, workspaces, spent>>

(***************************************************************************)
(* routers/roles.py                                                        *)
(***************************************************************************)
CreateRole(k, e, r, b) ==
    /\ Allowed(e, Manage("roles")) /\ Fresh(r, DOMAIN roles) /\ Valid(b)
    /\ Begin(k, e, [op |-> "create_role", id |-> r, perms |-> Migrated(b)])
UpdateRole(k, e, r, b) ==
    /\ Allowed(e, Manage("roles")) /\ r \in DOMAIN roles /\ Valid(b)
    /\ Begin(k, e, [op |-> "update_role", id |-> r, perms |-> Migrated(b)])
CommitRole(k) ==
    LET w == calls[k].do IN
    /\ \/ Commit(k, "create_role") /\ Fresh(w.id, DOMAIN roles)
       \/ Commit(k, "update_role") /\ w.id \in DOMAIN roles
    /\ roles' = With(roles, w.id, w.perms)
    /\ staff' = Attached(k, staff)
    /\ UNCHANGED <<departments, sources, workspaces, codes, issued, spent>>

DeleteRole(k, e, r) ==
    /\ Allowed(e, Manage("roles")) /\ r \in DOMAIN roles \ {EmployeeRole}
    /\ Begin(k, e, [op |-> "delete_role", id |-> r])
\* mutant: the accounts keep the id of the deleted role
CommitRoleAlone(k) ==
    LET r == calls[k].do.id IN
    /\ Commit(k, "delete_role") /\ r \in DOMAIN roles
    /\ roles' = Restrict(roles, DOMAIN roles \ {r}) /\ spent' = spent \union {r}
    /\ staff' = Attached(k, staff)
    /\ UNCHANGED <<departments, sources, workspaces, codes, issued>>
CommitRoleGone(k) ==
    LET r == calls[k].do.id IN
    /\ Commit(k, "delete_role") /\ r \in DOMAIN roles
    /\ roles' = Restrict(roles, DOMAIN roles \ {r}) /\ spent' = spent \union {r}
    /\ staff' = Attached(k, [x \in DOMAIN staff |-> [staff[x] EXCEPT
                               !.custom = IF @ = r THEN NoRole ELSE @]])
    /\ UNCHANGED <<departments, sources, workspaces, codes, issued>>

(***************************************************************************)
(* routers/projects.py: workspaces, members and their documents            *)
(***************************************************************************)
May(e, p, required) ==
    p \in DOMAIN workspaces /\ RoleCan(WorkspaceRole(e, p), required)

CreateProject(k, e, p) ==
    /\ IsAdmin(e) /\ Fresh(p, DOMAIN workspaces)
    /\ Begin(k, e, [op |-> "create_project", id |-> p])
CommitProject(k) ==
    LET p == calls[k].do.id  e == calls[k].by IN
    /\ Commit(k, "create_project") /\ Fresh(p, DOMAIN workspaces) /\ e \in DOMAIN staff
    /\ workspaces' = With(workspaces, p, [status |-> "active", linked |-> {},
                                          members |-> [x \in {e} |-> "admin"]])
    /\ UNCHANGED <<staff, roles, departments, sources, codes, issued, spent>>

UpdateProject(k, e, p, status) ==
    /\ May(e, p, "admin")
    /\ Begin(k, e, [op |-> "set_status", id |-> p, status |-> status])
AddMembers(k, e, p, X, r) ==
    /\ May(e, p, "admin") /\ X \intersect DOMAIN staff # {}
    /\ Begin(k, e, [op |-> "add_members", id |-> p, role |-> r,
                    who |-> (X \intersect DOMAIN staff) \ DOMAIN workspaces[p].members])

\* mutant: the last member is guarded, not the last administrator
LastMember(p, x) == DOMAIN workspaces[p].members = {x}
(* The guard of the last administrator reads the members as they are now. *)
LastAdmin(p, x) == Admins(p) = {x}
RemoveMember(k, e, p, x) ==
    /\ May(e, p, "admin") /\ IsMember(x, p) /\ ~LastAdmin(p, x)
    /\ Begin(k, e, [op |-> "remove_member", id |-> p, who |-> x, admins |-> Admins(p)])
UpdateMember(k, e, p, x, r) ==
    /\ May(e, p, "admin") /\ IsMember(x, p)
    /\ r = "admin" \/ ~LastAdmin(p, x)
    /\ Begin(k, e, [op |-> "set_member", id |-> p, who |-> x, role |-> r,
                    admins |-> Admins(p), was |-> workspaces[p].members[x]])

AddProjectSource(k, e, p, s) ==
    /\ May(e, p, "editor") /\ s \in DOMAIN sources \ workspaces[p].linked
    /\ Begin(k, e, [op |-> "link", id |-> p, source |-> s])

(* What these commits do to a workspace that still exists. *)
CommitWorkspace(k) ==
    LET w == calls[k].do  ws == workspaces[w.id]
        Save(op, row) == /\ Commit(k, op)
                         /\ workspaces' = [workspaces EXCEPT ![w.id] = row]
    IN  /\ w.op \in {"set_status", "add_members", "remove_member", "set_member",
                     "link", "unlink"}
        /\ w.id \in DOMAIN workspaces
        /\ \/ w.op = "set_status" /\ Save("set_status", [ws EXCEPT !.status = w.status])
           \/ /\ w.op = "add_members"    \* a taken or dangling id fails alone
              /\ Save("add_members", [ws EXCEPT !.members =
                        [x \in DOMAIN @ \union (w.who \intersect DOMAIN staff) |->
                            IF x \in DOMAIN @ THEN @[x] ELSE w.role]])
           \/ /\ w.op = "remove_member"
              /\ Save("remove_member", [ws EXCEPT !.members =
                        Restrict(@, DOMAIN @ \ {w.who})])
           \/ /\ w.op = "set_member" /\ w.who \in DOMAIN ws.members
              /\ Save("set_member", [ws EXCEPT !.members[w.who] =
                        IF w.role = w.was THEN @ ELSE w.role])
           \/ /\ w.op = "link" /\ w.source \in DOMAIN sources \ ws.linked
              /\ Save("link", [ws EXCEPT !.linked = @ \union {w.source}])
           \/ w.op = "unlink" /\ Save("unlink", [ws EXCEPT !.linked = @ \ {w.source}])
        /\ staff' = Attached(k, staff)
        /\ UNCHANGED <<roles, departments, sources, codes, issued, spent>>

DeleteProject(k, e, p) ==
    /\ IsAdmin(e) /\ p \in DOMAIN workspaces
    /\ Begin(k, e, [op |-> "delete_project", id |-> p])
(* Its wiki pages and its own documents stay: scope_id is no foreign key. *)
CommitProjectGone(k) ==
    LET p == calls[k].do.id IN
    /\ Commit(k, "delete_project") /\ p \in DOMAIN workspaces
    /\ workspaces' = Restrict(workspaces, DOMAIN workspaces \ {p})
    /\ spent' = spent \union {p}
    /\ UNCHANGED <<staff, roles, departments, sources, codes, issued>>

UploadWorkspaceSource(k, e, p, s) ==
    /\ May(e, p, "editor") /\ Fresh(s, DOMAIN sources)
    /\ Begin(k, e, [op |-> "upload", id |-> s, owner |-> p])
CommitSource(k) ==
    LET w == calls[k].do IN
    /\ Commit(k, "upload") /\ Fresh(w.id, DOMAIN sources)
    /\ sources' = With(sources, w.id, [tags |-> {}, owner |-> w.owner])
    /\ staff' = Attached(k, staff)
    /\ UNCHANGED <<roles, departments, workspaces, codes, issued, spent>>

(* A linked document is unlinked, an own one is deleted: nobody asks whether *)
(* the workspace is still there.                                             *)
RemoveProjectSource(k, e, p, s) ==
    LET linked == p \in DOMAIN workspaces /\ s \in workspaces[p].linked IN
    /\ RoleCan(WorkspaceRole(e, p), "editor") /\ s \in DOMAIN sources
    /\ \/ linked /\ Begin(k, e, [op |-> "unlink", id |-> p, source |-> s])
       \/ /\ ~linked /\ sources[s].owner = p
          /\ Begin(k, e, [op |-> "delete_source", id |-> s])
CommitSourceGone(k) ==
    LET s == calls[k].do.id IN
    /\ Commit(k, "delete_source") /\ s \in DOMAIN sources
    /\ sources' = Restrict(sources, DOMAIN sources \ {s}) /\ spent' = spent \union {s}
    /\ workspaces' = [p \in DOMAIN workspaces |-> [workspaces[p] EXCEPT !.linked = @ \ {s}]]
    /\ staff' = Attached(k, staff)
    /\ UNCHANGED <<roles, departments, codes, issued>>

(* routers/sources.py, update_source: the departments of a document. *)
TagSource(k, e, s, D) ==
    /\ HasAny(RestPermissions(e), "doc", "edit")
    /\ s \in DOMAIN sources /\ D \subseteq departments
    /\ Begin(k, e, [op |-> "tag", id |-> s, tags |-> D])
CommitTags(k) ==
    LET w == calls[k].do IN
    /\ Commit(k, "tag") /\ w.id \in DOMAIN sources /\ w.tags \subseteq departments
    /\ sources' = [sources EXCEPT ![w.id].tags = w.tags]
    /\ staff' = Attached(k, staff)
    /\ UNCHANGED <<roles, departments, workspaces, codes, issued, spent>>

(***************************************************************************)
(* Specification                                                           *)
(***************************************************************************)
Organization(k, e) ==
    \/ Look(k, e)
    \/ \E d \in Departments : CreateDepartment(k, e, d) \/ DeleteDepartment(k, e, d)
    \/ \E x \in Employees :
          \/ \E r \in {"admin", "employee"}, c \in DOMAIN roles \union {NoRole},
                D \in SUBSET Departments :
                CreateEmployee(k, e, x, r, c, D) \/ UpdateEmployee(k, e, x, r, c, D)
          \/ DeleteEmployee(k, e, x) \/ ToggleEmployee(k, e, x)
          \/ RotateToken(k, e, x) \/ RevokeToken(k, e, x)
          \/ \E d \in Departments : AddDepartment(k, e, x, d) \/ RemoveDepartment(k, e, x, d)
    \/ \E r \in CustomRoles \union {EmployeeRole} :
          \/ \E b \in Bundles : CreateRole(k, e, r, b) \/ UpdateRole(k, e, r, b)
          \/ DeleteRole(k, e, r)

Workspaces(k, e) ==
    \E p \in Projects :
       \/ CreateProject(k, e, p) \/ DeleteProject(k, e, p)
       \/ \E status \in {"active", "archived"} : UpdateProject(k, e, p, status)
       \/ \E X \in SUBSET Employees, r \in MemberRoles : AddMembers(k, e, p, X, r)
       \/ \E x \in Employees :
             \/ RemoveMember(k, e, p, x)
             \/ \E r \in MemberRoles : UpdateMember(k, e, p, x, r)
       \/ \E s \in Sources :
             \/ AddProjectSource(k, e, p, s) \/ RemoveProjectSource(k, e, p, s)
             \/ UploadWorkspaceSource(k, e, p, s)

Ends(k) ==
    \/ Abort(k) \/ EndLook(k)
    \/ CommitDepartment(k) \/ CommitDepartmentGone(k)
    \/ CommitEmployee(k) \/ CommitUpdate(k) \/ CommitEmployeeGone(k) \/ CommitRow(k)
    \/ CommitRotation(k) \/ CommitRevocation(k) \/ CommitExchange(k)
    \/ CommitRole(k) \/ CommitRoleGone(k)
    \/ CommitProject(k) \/ CommitProjectGone(k) \/ CommitWorkspace(k)
    \/ CommitSource(k) \/ CommitSourceGone(k) \/ CommitTags(k)

Next ==
    \E k \in Callers :
       \/ Ends(k)
       \/ \E c \in Codes : ExchangeCode(k, c)
       \/ Free(k) /\ \E e \in {x \in DOMAIN staff : Active(x)} :
             \/ Organization(k, e) \/ Workspaces(k, e)
             \/ \E s \in Sources, D \in SUBSET Departments : TagSource(k, e, s, D)
             \/ \E c \in Codes : Authorize(e, c)

Spec == Init /\ [][Next]_vars

(***************************************************************************)
(* Properties                                                              *)
(***************************************************************************)
(* Rows refer to rows that exist, and a request names the account it acts    *)
(* for: what the foreign keys and their cascades must keep.                  *)
AccessTypeOK ==
    /\ DOMAIN staff \subseteq Employees /\ departments \subseteq Departments
    /\ DOMAIN roles \subseteq CustomRoles \union {EmployeeRole}
    /\ \A r \in DOMAIN roles : roles[r] \subseteq Permissions
    /\ \A e \in DOMAIN staff :
          /\ staff[e].role \in {"admin", "employee"} /\ staff[e].active \in BOOLEAN
          /\ staff[e].custom \in DOMAIN roles \union {NoRole}
          /\ staff[e].depts \subseteq departments /\ staff[e].token \in 0..issued
    /\ \A s \in DOMAIN sources : sources[s].tags \subseteq departments
    /\ \A p \in DOMAIN workspaces :
          /\ workspaces[p].status \in {"active", "archived"}
          /\ DOMAIN workspaces[p].members \subseteq DOMAIN staff
          /\ Range(workspaces[p].members) \subseteq MemberRoles
          /\ workspaces[p].linked \subseteq DOMAIN sources
    /\ \A c \in DOMAIN codes : codes[c].owner \in DOMAIN staff
    /\ issued \in 0..MaxTokens /\ toCome \in 0..MaxCalls
    /\ \A k \in Callers : calls[k].by \in Employees

(* A token that was rotated away, revoked or lost with its account is never  *)
(* accepted again, whichever of two rotations, an exchange and a revocation  *)
(* commits last.                                                             *)
Held(t) == \E e \in DOMAIN staff : staff[e].token = t
DeadTokensStayDead == [][\A t \in 1..issued : ~Held(t) => ~Held(t)']_vars

(* A removal or a demotion takes the last administrator of a workspace only  *)
(* if another commit changed the administrators it had counted.              *)
LastAdminLostToARace ==
    [][\A p \in DOMAIN workspaces \intersect DOMAIN workspaces' :
          Admins(p) # {} /\ Admins(p)' = {} =>
             \/ DOMAIN staff' # DOMAIN staff
             \/ \E k \in Callers : /\ calls'[k] # calls[k]
                                   /\ calls[k].do.op \in {"remove_member", "set_member"}
                                   /\ calls[k].do.admins # Admins(p)]_vars

=============================================================================
