------------------------- MODULE MCMaterialKeyVault -------------------------
(***************************************************************************)
(* The vault on small instances.  Processes are interchangeable, and so    *)
(* are preparations.                                                       *)
(***************************************************************************)
EXTENDS MaterialKeyVault, TLC

Interchangeable == Permutations(Procs) \cup Permutations(Preparations)
=============================================================================
