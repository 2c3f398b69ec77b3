----------------------------- MODULE MCBigData -----------------------------
(***************************************************************************)
(* BigData for TLC.                                                        *)
(***************************************************************************)
EXTENDS BigData, TLC

Symmetric == Permutations(Slot)
=============================================================================
