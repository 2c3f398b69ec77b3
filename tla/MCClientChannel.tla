-------------------------- MODULE MCClientChannel --------------------------
(***************************************************************************)
(* ClientChannel for TLC, which evaluates the assumptions of Crc and       *)
(* Handshake before the run: whether a damaged packet is recognised rests  *)
(* on the first, the answer to "register" on the second.                   *)
(***************************************************************************)
EXTENDS ClientChannel, Crc, Handshake, TLC

Symmetric == Permutations(Sender)
=============================================================================
