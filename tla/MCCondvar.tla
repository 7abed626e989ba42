----------------------------- MODULE MCCondvar -----------------------------
(* The instances of Condvar; liveness is checked, so no symmetry is used.  *)
EXTENDS Condvar

=============================================================================
