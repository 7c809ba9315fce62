--------------------------- MODULE Contributions ----------------------------
(* The two kinds of contribution, wiki drafts under AI pre-review and skill   *)
(* contributions.  They share the states of contribution_service.py but no    *)
(* row, so a behaviour is about one or about the other.                       *)
EXTENDS PreReview, Skills

VARIABLE kind   \* the kind of contribution this behaviour is about

vars == <<kind, reviewVars, skillsVars>>

Init == kind \in {"wiki_draft", "skill"} /\ ReviewInit /\ SkillsInit

Next ==
    /\ UNCHANGED kind
    /\ \/ kind = "wiki_draft" /\ ReviewNext /\ UNCHANGED skillsVars
       \/ kind = "skill" /\ SkillsNext /\ UNCHANGED reviewVars

Spec == Init /\ [][Next]_vars /\ ReviewFairness /\ SkillsFairness

(* The rows of both kinds, with the combinations the jobs and requests leave. *)
TypeOK == ReviewTypeOK /\ SkillsTypeOK
=============================================================================
