------------------------------ MODULE MCReview ------------------------------
(* Two requests at a time over two drafts, two page ids and two slugs. *)
EXTENDS Review, TLC

Symmetry == Permutations(Clients) \union Permutations(Pages)
            \union Permutations(Drafts) \union Permutations(Slugs)
=============================================================================
