---------------------------- MODULE MCEmbeddings ----------------------------
(* Two jobs over two pages; the catalog has a fixed spec and a custom one.   *)
EXTENDS Embeddings

Symmetry == Permutations(Pages) \union Permutations(Jobs) \union Permutations(Names)
=============================================================================
