------------------------------ MODULE MCDecoder -----------------------------
(* What the client may send in which state, for the runs of Decoder *)
EXTENDS Decoder

\* Buffers of a port are interchangeable.
Symmetry == Permutations(InBufs) \cup Permutations(OutBufs)

Set(s) == <<"StateSet", s>>

\* Load, play, stop, unload
PlayOnly == {<<"Loaded", Set("Idle")>>, <<"Idle", Set("Executing")>>,
             <<"Executing", Set("Idle")>>, <<"Idle", Set("Loaded")>>}

\* and seek: flush all ports while playing
PlayFlush == PlayOnly \cup {<<"Executing", <<"Flush", "all">>>>}

\* and answer OMX_EventPortSettingsChanged
PlayReconf == PlayFlush \cup {<<"Executing", <<"PortDisable", "out">>>>,
                              <<"Executing", <<"PortEnable", "out">>>>}

\* PlayFlush, and pause an idle component
IdlePause == PlayFlush \cup {<<"Idle", Set("Pause")>>, <<"Pause", Set("Idle")>>}

\* PlayFlush, and flush an idle component
IdleFlush == PlayFlush \cup {<<"Idle", <<"Flush", "all">>>>}

\* State transitions of a component that has buffers, two that it rejects,
\* and a flush
Transitions ==
  {<<"Loaded", Set("Idle")>>, <<"Idle", Set("Executing")>>, <<"Idle", Set("Pause")>>,
   <<"Executing", Set("Pause")>>, <<"Executing", Set("Idle")>>, <<"Pause", Set("Executing")>>,
   <<"Pause", Set("Idle")>>, <<"Executing", Set("Loaded")>>, <<"Idle", Set("WaitForResources")>>,
   <<"Executing", Set("Invalid")>>, <<"Executing", Set("Executing")>>,
   <<"Executing", <<"Flush", "all">>>>}
=============================================================================
