SPECIFICATION Spec
CONSTANTS
    Employees = {e1, e2}
    Founder = e1
    Departments = {d1}
    Projects = {p1}
    Sources = {s1}
    CustomRoles = {r1}
    Codes = {c1}
    Bundles <- Few
    Callers = {k1, k2}
    MaxTokens = 3
    MaxCalls = 2
INVARIANTS AccessTypeOK DocumentRoutesAgree WikiRoutesAgree WorkspaceRoutesAgree DraftRoutesAgree HiddenToolsAreUseless
PROPERTIES DeadTokensStayDead LastAdminLostToARace
CHECK_DEADLOCK FALSE
SYMMETRY Slots
