------------------------------- MODULE MCDwl --------------------------------
EXTENDS Dwl

(* Two cores, a and b two formats.  In the first layout only core 0 has both; *)
(* in the second the cores are alike.                                         *)
CONSTANTS f1, f2, p1, p2
MCThreads == DwlThreads
MCAlike == {0 :> {"a"} @@ 1 :> {"a"}}
MCLayouts == MCAlike \cup {0 :> {"a", "b"} @@ 1 :> {"a"}}
MCOneProcess == f1 :> p1 @@ f2 :> p1
MCProcess == f1 :> p1 @@ f2 :> p2
=============================================================================
