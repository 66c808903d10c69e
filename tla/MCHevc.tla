------------------------------- MODULE MCHevc -------------------------------
(* Model values of HevcDecoder for TLC. *)
EXTENDS HevcDecoder, TLC

CoreSymmetry == Permutations(Cores)
=============================================================================
