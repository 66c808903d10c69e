------------------------------ MODULE MCEncoder -----------------------------
(* What the client may send in which state, for the runs of Encoder *)
EXTENDS Encoder

Set(s) == <<"StateSet", s>>

\* Load, encode, stop, unload
EncodeOnly == {<<"Loaded", Set("Idle")>>, <<"Idle", Set("Executing")>>,
               <<"Executing", Set("Idle")>>, <<"Idle", Set("Loaded")>>}

\* and every kind of command somewhere: pause, flush, a port disabled and
\* enabled, a transition that is none, one that is rejected, the invalid state
Commanding == EncodeOnly \cup
  {<<"Executing", Set("Pause")>>, <<"Pause", Set("Executing")>>, <<"Pause", Set("Idle")>>,
   <<"Executing", <<"Flush", "in">>>>, <<"Idle", <<"PortDisable", "out">>>>,
   <<"Idle", <<"PortEnable", "out">>>>, <<"Loaded", Set("WaitForResources")>>,
   <<"WaitForResources", Set("Loaded")>>, <<"Executing", Set("Loaded")>>,
   <<"Idle", Set("Idle")>>, <<"Executing", Set("Invalid")>>}
=============================================================================
