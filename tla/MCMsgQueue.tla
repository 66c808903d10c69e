----------------------------- MODULE MCMsgQueue -----------------------------
(* Model-checking instance of MsgQueue, and the mutations of its actions     *)
(* that its properties must detect.                                          *)
EXTENDS MsgQueue, TLC

\* Threads and heap cells are interchangeable.
Symmetry == Permutations(Threads) \cup Permutations(Nodes)
=============================================================================
