--------------------------- MODULE MCEmbeddingJob ---------------------------
(***************************************************************************)
(* Embedding jobs on small instances.  Workers are interchangeable, and so *)
(* are reconcilers.                                                        *)
(***************************************************************************)
EXTENDS EmbeddingJob, TLC

TwoEach == [j \in Jobs |-> 2]

Interchangeable == Permutations(Workers) \cup Permutations(Reconcilers)
=============================================================================
