------------------------------ MODULE MCAccess ------------------------------
(* Two requests at a time; a role is a reader's, an editor's of everything   *)
(* or, with legacy names, a clerk's.                                         *)
EXTENDS Routes, TLC

Few == {
    {<<"doc", "read", "own_dept">>, <<"skill", "read", "own_dept">>, <<"kb", "read">>},
    {<<"doc", "read", "all">>, <<"doc", "edit", "own_dept">>, <<"wiki", "read", "all">>,
     <<"wiki", "write", "all">>, <<"skill", "read", "all">>, <<"employees", "edit">>}}

Slots == Permutations(Callers)

=============================================================================
