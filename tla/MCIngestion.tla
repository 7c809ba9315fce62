---------------------------- MODULE MCIngestion ----------------------------
(* Instances of Ingestion for TLC. *)
EXTENDS Ingestion, TLC

MCSymmetry == Permutations(Jobs) \union Permutations(Clients)
                \union Permutations(Contents)

\* the runs about a source that is worked on by one job at a time
Serial == ~overlap
=============================================================================
