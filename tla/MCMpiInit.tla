----------------------------- MODULE MCMpiInit -----------------------------
(* The instances of MpiInit.  Rank 0 is special, so no symmetry is used.   *)
EXTENDS MpiInit

=============================================================================
