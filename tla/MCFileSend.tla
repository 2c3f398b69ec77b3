----------------------------- MODULE MCFileSend -----------------------------
(* A file of three units, an empty one, and packets of two.                *)
EXTENDS FileSend, TLC
CONSTANTS a, e

MCSize == (a :> 3) @@ (e :> 0)
=============================================================================
