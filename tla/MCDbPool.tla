------------------------------ MODULE MCDbPool ------------------------------
(***************************************************************************)
(* DbPool for TLC.                                                         *)
(***************************************************************************)
EXTENDS DbPool, TLC

\* For DbPool_count.cfg, which checks no liveness.
Symmetric == Permutations(Thread)
=============================================================================
