--------------------------- MODULE MCClientSlots ---------------------------
(***************************************************************************)
(* ClientSlots for TLC.  The count is taken modulo 4 instead of 2^32: it   *)
(* must not wrap with Cardinality(Conn) <= 3 threads counted, and must be  *)
(* seen to wrap when it drops below zero.                                  *)
(***************************************************************************)
EXTENDS ClientSlots, TLC

Symmetric == Permutations(Conn) \cup Permutations(FD)
=============================================================================
