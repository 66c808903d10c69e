----------------------------- MODULE MCBaseComp -----------------------------
(* Model-checking instance of BaseComp.                                      *)
EXTENDS BaseComp
=============================================================================
