# A TLA+ model of the VPU's OpenMAX IL components and decoder

This directory models the software that drives a video processor: the OpenMAX IL
components (`project.omx/openmax_il`), in which a client's calls, the thread of a
component and the thread that outputs decoded frames share ports, buffers, a command
queue and a codec; the HEVC decoder library below the decoder component; and the
layer below that, which shares the hardware cores between instances and processes, in
user space and in the kernel. TLC checks the models on small instances; TLAPS proves
safety properties of the queue, the decoder's ports, commands and threads, the encoder's
buffers and the driver for every instance (section 4). All line numbers are those of the files
under `src/`. Short names stand for files in `project.omx/openmax_il/source`,
`vc8000d/software/source`, `vc8000d/software/linux` and `vc8000e/software/source`.

## 1. The system

| part | state | operations | talks to |
|---|---|---|---|
| message queue `msgque.c` | doubly linked list, size, mutex, event | init, push_back, get_front, get_size, destroy | OSAL events and mutexes |
| base component `basecomp.c` | queue, thread | init, send_command, (try_)recv_command, cmd_dispatch, destroy | message queue; starts the component thread |
| OSAL `OSAL.c` | threads, recursive mutexes, events made of a pipe and a mutex, linear memory | create, set, reset, wait, wait for several, destroy | the system |
| port `port.c` | list of allocated buffers, queue of buffers handed over, `bufferevent`, `bufferRdy`, `bEnabled`, `bPopulated` | allocate, release, find, push, get, pop, pop at an index, clear | its component, under `buffermutex` |
| decoder `decoder/decoder.c` | `OMX_DECODER`, `SHARED_DATA`, ports in, out and post-processor, codec, prevBuffer | OMX calls; command handlers `async_decoder_*`; `async_decoder_decode`; `output_thread` | all of the above; the client by callbacks |
| codecs `decoder/codec_*.c` | an instance of a decoder library | decode, getframe, setframebuffer, pictureconsumed, endofstream, abort, abortafter | `vc8000d/software/source` |
| encoder `encoder/encoder.c`, `encoder_vc8000e.c` | `OMX_ENCODER`: ports, codec, numbers of the frames taken in and of the picture the codec wants next, `input_eos` | like the decoder; one thread, input buffers taken by frame number | port, queue, `vc8000e`; the client by callbacks |
| HEVC library `hevc/hevcdecapi.c`, `hevc_dpb.c`, `hevc_fb_mngr.c` | frame buffer list (who uses a buffer, how often), decoded picture buffer, output fifo, semaphores | Decode, NextPicture, PictureConsumed, AddBuffer, EndOfStream, Abort, AbortAfter | DWL; called by the codec interface |
| decoder wrapper layer `dwl/dwl_linux.c`, `dwl_linux_hw.c` | instances, one semaphore per core, callbacks, a listener thread per process | Init, ReserveHw, EnableHw, WaitHwReady, DisableHw, Release | kernel driver, by ioctl |
| kernel driver `pcidriver/hantro_dec.c` | owner of every core, `dec_irq`, `dec_core_sem` | reserve, flush and pull registers, CORE_WAIT, interrupt, release, close of a file | the cores |
| encoder library `hevc/hevcencapi.c` | order of pictures, rate control | StrmStart, StrmEncode, FindNextPic, StrmEnd | hardware |
| OMX core `core/hantro_omx_core.c` | table of components, instances | Init, GetHandle, FreeHandle, ... | constructors of the components |

Also in the repository and left aside: the libraries' other formats, Bellagio
(vendored), the Android glue (a copy of the core), test clients, the post-processor
wrapper, `util.c`.

Three threads meet in a decoder:

* the **client's** thread, inside an OMX call. `SendCommand` changes flags
  (`statetrans`, `releaseBuffers`, `bEnabled`), may abort the codec, and then
  queues the command; `FillThisBuffer` registers a buffer with the codec, queues
  it and marks its picture consumed;
* the **component thread**, `decoder_thread_main`: it drains the command queue,
  executing each command to its end, and otherwise decodes the first buffer of the
  in port. Handlers wait (for buffers to be allocated or freed), join the output
  thread, spin on `hasFrame`, and call the client back;
* the **output thread**: it blocks in `codec->getframe`, finds the picture's
  buffer in the out port's queue, calls `FillBufferDone`, then pops the buffer. It
  is created by Idle->Executing and by Flush(all).

An encoder has no output thread; its component thread looks for the frame the codec
wants next, which need not be the oldest. In the HEVC library up to five actors share
the frame buffer list: the thread that decodes, the one that fetches pictures, the
client that consumes them, the cores, and the thread that is called when a core is
ready. In the layer below, decoding threads and listeners of several processes wait
in the driver for cores and interrupts, and a process may die at any point.

What is hard here: the flags are read and written without a common lock; a
command's flags take effect when it is SENT, its handler runs later; a buffer is
looked up in one critical section and used in another; callbacks run under
recursive locks; the threads wait for each other (join, spin, codec). In the library,
a buffer's users let go of it in any order and in different threads, and counters are
updated in many places. In the driver, an interrupt, the wake-up it causes and the
owner it is meant for may no longer belong together when they are looked at. The
file `PROJECT.json` lists these hazards line by line with the properties that
would catch them.

What makes the parts correct: the queue is a FIFO whose event tells whether it is
empty; no command is left sleeping and FreeHandle ends; every buffer has one owner,
none is lost, and in Idle the client has them all; the codec writes only into
buffers the component has; a thread is joined only when it will end, and does not
outlive the codec; a pending state transition has a command behind it; commands
complete and a stream's end is delivered. An encoder gives an input buffer back only
when its frame is encoded. The library decodes only into buffers nobody uses, its
counts are the number of users, a picture is output once, and waits for a buffer, for
the end of the stream and for an abort end. A core runs only for the file that owns it,
a decoder is told that its picture is done only when it is, requests for cores are
served, and what a dead process held is free again.

## 2. Modules

| module | models | extends |
|---|---|---|
| `MsgFifo` | what a message queue promises: a FIFO and a `ready` flag | |
| `MsgQueue` | `msgque.c` on the events of `OSAL.c`: nodes, links, the unlocked read of the tail, failing pipes, destroy | |
| `MsgQueueProofs` | theorems `QueueInvariant`, `QueueTyped`, `QueueEvent`, `QueueLeaksNothing`, `QueueImplementsFifo` | `MsgQueue`, `TLAPS` |
| `BaseComp` | `basecomp.c`, the loop of `decoder_thread_main`, FreeHandle | `MsgQueue` |
| `Port` | `port.c` as operators on a record | |
| `PortProofs` | lemmas: what each operation of `port.c` does to queue, capacity and event | `Port`, `TLAPS` |
| `DecoderState` | `OMX_DECODER`, `SHARED_DATA`, the codec and its calls, Init | `Port` |
| `DecoderClient` | the client's calls | `DecoderState` |
| `DecoderThread` | command handlers | `DecoderState` |
| `DecoderDecode` | `async_decoder_decode`, `async_decode_data` | `DecoderThread` |
| `DecoderOutput` | `output_thread`, `async_dispatch_frame_buffer` | `DecoderState` |
| `Decoder` | all of it together; specification, fairness, properties | the three before |
| `DecoderProofs` | theorems `PortEvents`, `DecoderTyped`, `TransitionsPending`, `OutputHasCodec`, `JoinsEnd` | `Decoder`, `PortProofs` |
| `DecoderBufferProofs` | theorems `OneOwns`, `NoneIsLost`, `CodecWritesOwn`, `IdleReturns`, `NoAssertion`, `ReturnsNothingInUse` | `DecoderProofs` |
| `EncoderControl` | the encoder's state, client's calls, command handlers, order of pictures | `Port` |
| `Encoder` | `async_video_encoder_encode`, start and end of a stream; specification, properties | `EncoderControl` |
| `EncoderProofs` | theorems `BufferInvariant`, `EncoderTyped`, `BuffersKept` | `Encoder`, `PortProofs` |
| `EncoderFrameProofs` | theorems `FrameInvariant`, `FramesStay`, `EncoderEvents` | `EncoderProofs` |
| `FrameBufferList` | `hevc_fb_mngr.c` as operators on a record: marks, counts, free buffers, output fifo | |
| `HevcDpb` | `hevc_dpb.c` as operators on a record: slots, references, output order, fullness | `FrameBufferList` |
| `HevcDecoder` | `hevcdecapi.c`: the threads; specification, fairness, properties | `HevcDpb` |
| `HevcProofs` | theorem `OutputIsWoken` | `HevcDecoder`, `TLAPS` |
| `HantroDec` | the kernel driver `hantro_dec.c` (without VCMD), the cores and their interrupts | |
| `Dwl` | `dwl_linux.c`, `dwl_linux_hw.c`, processes and their deaths, above the driver | `HantroDec` |
| `DwlProofs` | theorems `DwlTyped`, `CoresRunForOwner`, `WaitEndsWhenDone`, `SemaphoreExact`, `ListenerPullsItsCore` | `Dwl`, `TLAPS` |
| `MC...` | values of constants for TLC | |

### Message queue and base component

A critical section under `q->mutex` is one step. `push_back` takes two:
`PushPrepare` (allocate, read `q->tail` with no lock, fill in the node) and
`PushLink`. `PushEventFails` and `GetEventFails` are the paths on which the pipe of
the event fails, which leave the event's own mutex locked; `PushBlocks` and
`GetBlocks` are calls that then hang inside the queue's mutex. `order` is a history
variable, the linked nodes from oldest to newest. `BaseComp` adds
the loop (`LoopTest`, `LoopWake`, `LoopDispatch`, `LoopDrained`, `LoopFails`) and
FreeHandle (`DeinitStop`: run = FALSE; `DeinitSendExit`; `DeinitJoin`;
`DeinitDestroy`). Every one of its steps is a step of the queue or leaves it alone.
What a command does is reduced to whether it stops the component (`Fatal`).

### Decoder

`dec` and `sd` hold the fields of `OMX_DECODER` and `SHARED_DATA` that steer control,
`port` the in and the out port, `cmdq` the command queue (a sequence: what
`MsgQueue` implements), `cli`, `comp` and `out` the three threads. A command
handler is a *plan*, the sequence `comp.todo` of the steps it has left
(`StatePlan`, `FlushPlan`, `DisablePlan`, `EnablePlan`); a step ends where other
threads can get in between: at a wait, a join, a lock or a callback. So
Executing->Idle is join, abortafter, return(in), spin, return(out), reset, state.

The codec is what `decoder.c` can observe of `codec_hevc.c` and the calls it makes
to `hevcdecapi.c`: `phase` (waiting for headers, for frame buffers, or decoding),
`free` (buffers it may decode into), `pics` (decoded, not yet output), `shown`
(output, not yet consumed), the flush marker, end of stream and abort. What the
stream contains is nondeterministic: pictures, nothing, headers, an error.

Data races and uninitialised reads are choices: `timeout` in the wait for buffers
is never initialised and `OSAL_EventWait` only ever sets it to true, so once the
component thread has waited it may fail even if the buffers came.

The client keeps to the rules of OpenMAX IL (it uses only buffers it holds, allocates
and frees when it may, sends what `Legal` allows in the state it has been told of).
`Allow` lists liberties beyond the simplest client and scheduler; each run says
which it takes:

* `pipeline`: commands are sent, and buffers handed over, before the last command
  has completed;
* `refill`: `EmptyBufferDone` hands the buffer straight back;
* `disable`: ports are disabled without being asked to;
* `headers`: the stream changes its headers;
* `fillrace`: the other threads run between the steps of `FillThisBuffer`. Without
  it these three steps are not interrupted, because the interruption is a defect
  (section 3, observations) that would hide all others.

### Encoder

`enc` holds the fields of `OMX_ENCODER`, `frame` the number, the EOS flag and the
contents of each input buffer, `codec` the order of pictures of `VCEncFindNextPic`: the
first picture alone, then groups of a size from `GopSizes`, the last of a group before
the others. The client holds sets of buffers and may hand any of them over again from
the moment of the callback, with one exception: `async_encoder_return_buffers` returns a
whole queue in one step (`ReturnBuffers`), because the port is locked and only the callbacks
themselves could hand over a buffer; that they do is the liberty `refill`. `enc.mine` says who allocates the input buffers, which decides
what happens when no output buffer comes. Commands are plans, as in the decoder.
Encoding is `PickFrame` (the lookup under the port's lock), `NoFrame` (EOS or nothing),
`StartStream`, `EncodeFrame` and its failures, `Deliver`, `Coded`, `PopFirst` or
`GiveBack`, `EndStream` and its failures; start and end call `FillBufferDone` before they pop
(`StartPop`, `EndPop`), and the end sets `in_frame_id` to 0 without a lock (`EndReset`). `hist` is history: the frames handed over and encoded, and
whether the stream is `whole`, neither interrupted by a command or an error nor
discarded in part. Liberties: `error` (the codec fails or discards a frame), `again` (a
second stream), `refill` (above).

### HEVC library

A step of the decoding thread ends where it leaves a critical section of the frame
buffer list. `DecodeSlice`, `DecodeIdr`, `DecodeCra`, `NewHeaders`, `EndOfStream` and
`Abort` begin a call; the steps of `DecodeStep` finish it. The slices are chosen
nondeterministically: which pictures are kept as references, when a picture is output,
whether it is damaged, which older pictures `HevcDpbMarkOlderUnused` drops (`OlderSets`: any,
since a picture may have `is_tsa_ref` set). `HwError` is a timeout or a bus or system error:
`decoder.c` then decodes no more, it aborts. `NextPicture`, `PeekSem`, `PeekHw`, `PeekPop` are the output
thread in `PeekOutputPic`; `Consume` and `ConsumeClear` the client; `Callback`,
`CallbackClear`, `CallbackDecrement` are `HevcMCHwRdyCallback`. Liberties: `reinit` (new
headers that keep the buffers while the client has pictures), `cra` (random access
pictures that drop older ones), `late` (`AbortAfter` while a callback is half done),
`hdrabort` (an abort while new headers wait).

### Wrapper layer and kernel driver

`HantroDec` is the driver: `k[t]` is the ioctl thread `t` is in, and a step ends where
the code drops `owner_lock` or may sleep. `sem`, `dec_owner` and `dec_irq` are its
variables; `hw` is what a core's status register tells, `started` the file whose
registers are in the core. The rewriting of formats for pairs of a main and an
auxiliary core is left out, because `ReserveIO` has the second pipeline behind
`if (0)` (2010ff). `Dwl` adds per instance the decoding thread (`dec`) and the listener
(`lis`) that `DWLInit` starts, per process the semaphores, callbacks and `b_stopped`,
which the instances of a process share, and `Kill`: a killed process runs no more user
code, its waits end, and its files are closed. Liberties: `two` (two instances of a
process at a time), `drain`, `leak`, `late`, `zombie`, described in the module.

## 3. Runs

Bounds: `MaxQueue` commands in the queue and `MaxPics` pictures in the codec are
guards; the numbers of buffers, heap cells, threads and pipe failures are the sizes of
constants. `SYMMETRY` is used only in runs without a liveness property: the refinement
and action properties checked under it are safety properties that name no member of a
symmetric set.

### Passing

* **msgqueue** (three threads, three cells, one pipe failure). `ListInOrder`: the
  `prev` links run through the nodes in the order they were linked, whatever was stale
  when they were prepared; `EventMatchesQueue`: the event is signalled exactly when
  there is a message; `NoFaultNoLeak`: without pipe failures nothing leaks;
  `ImplementsFifo`: the queue refines `MsgFifo` (mapping: `fifo` is the data of the nodes
  in `order`, `ready` the event). Three threads are the least for which a stale tail can
  be both unlinked and replaced before it is used.
* **basecomp** (two clients, the component thread, FreeHandle). `CommandsFetched` and
  `DeinitEnds` are liveness properties; the second is also the wakeup that a flag
  without a command would lose.
* **decoder_play** (two buffers on each port; load, play, seek by Flush(all),
  reconfigure, stop, unload, codec errors and timeouts; no liberties). Buffers:
  `OneOwner`, `NoneLost`, `CodecWritesQueued`, `IdleHoldsNothing`. Threads:
  `NoAssertFails`, `CodecOutlivesOutput`, `JoinWillEnd`, `ReturnAlone`. Two buffers are
  the least for which the place of a frame in the queue matters, and for prevBuffer and
  the buffer being decoded to differ.
* **decoder_live** (two in, one out buffer). Every command is completed
  (`CommandsComplete`) and the end of the stream is delivered (`StreamEnds`).
* **decoder_transitions** (one buffer on each port; pipelined commands, refilling
  callbacks, changing headers, transitions that are rejected). `TransitionPending`: a
  component that refuses a state change because one is pending has that one's command
  on its way; `EventsInStep`: a port's event says whether it has buffers queued.
  Under these liberties the properties of decoder_play do not all hold (below); these
  two do.
* **encoder** (five input buffers, one output buffer, streams of up to five frames, groups
  of one or two pictures, `OMX_MAX_GOP_SIZE` 4 instead of 8, every kind of command, codec
  errors; 2.0 million states). `BuffersOwned`, `EventsInStep`, `FramesKept` and
  `StreamEnds`. The client hands nothing over while a whole queue is being returned (no
  `refill`, see the observations). With one frame more than `MaxGop` a buffer is given back before the end
  of the stream; groups of two are the least that are encoded out of order. A client whose
  stream is broken and has `MaxBroken` frames only stops and unloads. `GopSizes` leaves two
  below `MaxGop`: for longer groups see the observations.
* **hevc** (four buffers, a DPB of two, one core and two cores, three pictures;
  1.8 million states). `NoAssertFails`; `FreeCount` and `CountsExact`: the counters are
  the users they stand for; `DecodesIntoUnused`; `OutputOnce`; `WakeupNotLost`: the
  output semaphore is never behind the fifo; `FullnessCovers`. Four buffers for two slots
  are two that the client or the cores can hold back. Also checked once: three posts and
  four pictures, and one core with a DPB of three and five pictures.
* **hevc_live** (one core). `AllocServed`, `EosDelivered`, `AbortEnds`.
* **dwl** (two files in two processes, of which one may be killed and one instance uses
  several cores; two cores, alike or of different formats; two pictures; 320,000 states,
  once also checked with three pictures, 1.1 million). `SemExact`: the driver's semaphore
  counts the free cores; `RunsForOwner`: a core decodes for the file that owns it;
  `ReadyWhenDone`, `RegsOfCore`; liveness: `ReserveServed`, `ComesToRest`.

`CHECK_DEADLOCK FALSE` is said because each of these systems may really stop: a queue
whose event mutex a failed call left locked or that has been destroyed, a base component
that has been destroyed, an invalid component, a client that has nothing to ask, a
stream that has ended, a driver whose files are all closed.

### Fairness

In the OpenMAX components, each thread is weakly fair (the operating system runs it), a call a client has begun
is finished, and the client frees, allocates and refills buffers as OpenMAX IL
obliges it to. `DecodePicture(FALSE)`, the last picture in an input buffer, is strongly
fair: a buffer holds finitely many bytes, so a decoder that keeps decoding reaches the
end of it. Not assumed: that the codec ever skips data, fails or sees new headers, or
that the client sends a command. The encoder's client also need not send frames.

In the library, the threads are weakly fair and the client consumes the pictures it has;
`HwReady` is strongly fair, because a picture ends although the hardware may ask for more
of the stream first. Not assumed: that anything is decoded, ended or aborted. Below it,
threads are scheduled, a core ends its picture or times out, interrupts are delivered,
and a signalled thread leaves its wait; opening, closing, the end of a stream and
deaths are up to the client.

### Where code and its comments disagree

Each of these runs is expected to find its property violated; `PROJECT.json` quotes the
comment.

* **hevc_reset** (`reinit`): new headers set every count to 0 before waiting for the
  counts to become 0, so the DPB is reset while the client has pictures
  (`hevcdecapi.c:778`). With `DecodesIntoUnused` in place of `ResetUnused` TLC shows the
  next pictures being decoded into them.
* **dwl_zombie** (`zombie`): the interrupt of a core whose process died stays in
  `dec_irq` and is reported to the next owner of the core, whose `DWLWaitHwReady`
  returns early.
* **encoder_eos**: the last frame, with the EOS flag, arrives between the lookup that did
  not find it and the read of `input_eos`; the stream ends without it.

### Observations

What follows has no run of its own. Each can be seen with the change given to the
configuration named.

`MsgQueue.cfg`, `BaseComp.cfg`:

* invariant `CommitOrRollback`: a failing pipe leaves a node allocated and the event's
  mutex locked although `msgque.h` promises commit/rollback.
* invariant `DestroyFreesAll`: the stale `next` makes `msgque_destroy` leak or free twice.

`Decoder.cfg`:

* `Allow = {"pipeline"}`: `JoinWillEnd` fails. Idle is requested while a flush is
  executed; the flush withdraws `releaseBuffers` (5683) and the abort and starts the
  output thread again, and the handler of Idle joins it (5279), although the comment at
  7452 says that the output thread should be aborted.
* `Legal <- IdlePause` with `SpinWillEnd`: Executing, Idle, Pause, Idle spins for ever on
  `hasFrame`, which the return of buffers sets itself. It also fails in decoder_play,
  when PortEnable(out) has timed out and the client disables the port again.
* `Allow = {"fillrace"}`: `NoAssertFails` fails. `pictureconsumed` frees a picture that was
  decoded after the buffer was pushed.
* `Allow = {"refill"}`: `NoneLost` fails. A buffer handed over from `EmptyBufferDone` is
  cleared away.
* `Legal <- IdleFlush`: `CodecOutlivesOutput` fails. Flush(all) in Idle starts an output
  thread that Idle->Loaded leaves behind, without a codec.
* `CountMin = 1` with two out buffers: `CodecWritesQueued` fails. `checkExtraBuffers`
  survives a flush, so a buffer that arrives between new headers and the
  reconfiguration is registered and is still registered after PortDisable returned it.
  decoder_play therefore has `CountMin` equal to the number of buffers.
* `Allow = {"headers"}`: `ReturnAlone` fails. The output thread has fetched a frame and
  not yet set `hasFrame` when the component thread, reconfiguring, looks at it.
* `Legal` with Executing->Pause and Pause->Idle: `ReturnAlone` fails.
  `transition_to_idle_from_paused` does not stop the output thread.
* `Allow = {"disable"}`, or `Legal` with Flush(out) in Executing: `ReturnAlone` fails. Neither
  command waits for the output thread to end, and `hasFrame` does not cover the buffer it
  is about to deliver with the EOS flag.
* `FillStates = {"Executing", "Idle"}`: `IdleHoldsNothing` fails, at once: a buffer handed
  over in Idle stays queued until the component executes.

`Encoder.cfg`:

* `GopSizes = {3}`: `EventsInStep` fails; `GopSizes = {4}`, `MaxFrames = 8`: `StreamEnds`
  fails. With `OMX_MAX_GOP_SIZE` 8 these are groups of 7 and of 8. A buffer popped by
  frame number while one other is queued resets the event; and if a stream of 1 + 8k
  frames is coded in groups of eight, the frame with the EOS flag is given back with the
  others, the queue is empty, and the end of the stream is never looked for. The adaptive
  size of the groups, which may choose eight, is the default (4365).
* `Allow = {"error", "refill"}`: `BuffersOwned` fails, and the other three properties hold.
  `async_encoder_return_buffers` takes the length of the queue (6628), calls the client
  back for as many buffers and clears the queue (6653): what `FillBufferDone` or
  `EmptyBufferDone` hands over in between, under the recursive mutex of the port, is lost.
  No command is needed for this: the end of a stream returns the buffers of both ports
  while the component is in Executing (7618-7619, 7839-7840).
* `Allow = {"again"}`: `FramesKept` fails. Nothing resets `enc_next_pic_id` and
  `input_eos` for the next stream.
* a flush of the in port, or Idle, with frames queued leaves `enc_next_pic_id` naming a
  frame that was returned, and nothing is encoded any more; frames that are rejected or
  discarded make the frame numbers skip, which is why `EventsInStep` speaks of the in port
  only while the stream is whole.
* component-allocated input buffers: waiting for an output buffer ends in
  `OMX_ErrorOverflow` also because Idle was requested, and makes the component invalid
  (action `EncodeGivesUp`); Idle between the start of the stream and its first frame makes
  the next `VCEncStrmStart` fail (action `StartRefused`).
* the frames of an incomplete last group are never encoded; a stream of one empty EOS
  buffer does not end; PortEnable in Pause waits for ever, since allocation is refused
  (643-648).

`Hevc.cfg`, `HevcLive.cfg`:

* invariant `FullnessExact` with `Allow = {"cra"}` fails: a picture that a CRA picture drops is
  marked unused (`hevc_dpb.c:747`) before it is asked whether it was a reference (761), so
  `fullness` is not decremented for one that was output already, against the comment at
  1145; it errs only on the side `FullnessCovers` allows.
* `Allow = {"late"}`: `NoAssertFails` fails. The callback frees the core before the counts,
  and `HevcDecAbortAfter` takes idle cores for the end of all work. The component decodes
  on one core (`codec_hevc.c:614`).
* `Allow = {"hdrabort"}`: `AbortEnds` fails. `WaitOutputEmpty` does not look at the abort.
* `HwError` with `"idle"` for `"failed"`: `AllocServed` fails. An error return leaves pictures
  in `out_buf`; a caller that decodes on may wait for ever for a buffer they hold. The
  component does not (`decoder.c:7317-7340`).

`Dwl.cfg`:

* `Allow = {"leak"}`: `SemExact` fails. A signal ends `ReserveDecoder`'s second wait and
  the unit taken from `dec_core_sem` is not given back.
* `Allow = {"late"}`: `RegsOfCore` fails. After a timeout CORE_WAIT is called again with the
  same variable, and may answer with another core.
* `Allow = {"drain"}`, both instances multi-core, `Mortal = {}`, `MaxPics = 1`:
  `ReserveServed` fails. The end of a stream reserves all cores one by one
  (`hevcdecapi.c:2006`), and so does the other instance.
* `Process <- MCOneProcess`, `Mortal = {}`: `ReadyWhenDone` and `RegsOfCore` fail. A process
  that closes a decoder and opens another resets `b_stopped` before the old, detached
  listener has seen it. With `Allow = {"two"}` and `MultiCore = {}` the listener waits on
  the first instance's file only.

## 4. Proofs

Every theorem holds for all values of the constants that satisfy the named assumptions of
the modules (`ConstantsOK`, `DecoderConstantsOK`, `EncoderConstantsOK`,
`HevcAssumption`, `HantroAssumption`, `DwlAssumption`, `DwlThreadsOnly`), which TLC evaluates in the runs:
any number of threads, nodes, buffers, cores and processes, any bounds, any stream.
Where a theorem has hypotheses of its own they are stated in it; each excludes a behaviour
for which section 3 (Observations) names a property that fails, with the one exception told
under the decoder's buffers. The proofs have one lemma per operation
or action and one step per conjunct an action can disturb.

### Message queue

* `QueueInvariant`: `Spec => [](TypeOK /\ ListInOrder /\ EventMatchesQueue /\
  NodesSeparate)`; `QueueTyped` and `QueueEvent` are its parts about the types and the event. The conjunction is
  inductive, its parts are not: a push keeps the links in order only because the new node
  is not in the list (`NodesSeparate`), and a fetch resets the event correctly only
  because `size` is the length of the list (`ListInOrder`).
* `QueueLeaksNothing`: `Spec => []NoFaultNoLeak`, from the same invariant.
* `QueueImplementsFifo`: `Spec => ImplementsFifo`. `fifo` is the data of the nodes in
  `order`, `ready` the event. Preparing a node, failures of the event and the steps of
  `destroy` before the last are stutters; that a push appends to `fifo` although the
  node's `next` may be stale is what `ListInOrder` is needed for.

### Ports and decoder

* `PortEvents`: `Spec => []EventsInStep`, for every client behaviour, all liberties and any
  stream. `EventsInStep` is not inductive: `push_buffer` sets the event even when the list
  refuses the buffer, which only a queue of capacity zero does, and `pop_buffer_at` needs a
  place of the queue. `EventInv` adds the types of the queues, a nonzero capacity that is
  not exceeded (`PortsGood`), what `FillThisBuffer` is about to push (`ClientGood`) and the
  index the output thread will pop (`OutputGood`). The lemmas about `port.c` are in
  `PortProofs`; the encoder's proofs use them too.
* `DecoderTyped` and `TransitionsPending`, under all liberties. `PlanInv` is `EventInv`,
  the types (what is left of a plan are steps of one kind: of a command that changes
  state or disables a port, of one that enables one, of decoding, of a failure), that a
  client has a command exactly while it sends it, and that the output thread has a frame
  until it has delivered it. `TransitionPending` is then inductive: a step other than the
  last of a plan leaves its end where it is (`DoneKeepsEnd`), and the last one makes the
  state equal to the transition or the component invalid. The proof found an overlap in
  `StatePlan`, whose `CASE` had two arms for a transition to the state the component is in;
  the arms are now disjoint, as in the code's order of tests.
* `OutputHasCodec` (`CodecOutlivesOutput`) and `JoinsEnd` (`JoinWillEnd`), under
  `PlainClient`: no command before the last has completed (no `pipeline`), no Pause, Flush
  only in Executing. The other liberties are free. Neither property is inductive: when the
  codec is destroyed, or a thread joined, was decided when the command was sent and when its
  plan was made. `ThreadInv` adds that one command is under way at a time (`Alone`), that
  the state is still the one it was sent in and that `releaseBuffers` is set if its plan will
  join (`Asked`), how the steps of a plan follow each other and what is promised to
  those that are left (`Planned`: a join comes first, starting the thread and
  destroying the codec are followed by the new state, a change of state is last), and how
  thread, codec and state belong together (`Output`).
* The buffers: `OneOwns` (`OneOwner`), `NoneIsLost` (`NoneLost`), `CodecWritesOwn`
  (`CodecWritesQueued`), `IdleReturns` (`IdleHoldsNothing`), `NoAssertion` (`NoAssertFails`),
  `ReturnsNothingInUse` (`ReturnAlone`), under `PlayingClient`: `PlainClient`, no liberties,
  buffers handed over in Executing only, Flush of all ports only, and as many out buffers
  as the codec wants. These are the clients of decoder_play, with any number of buffers and
  any length of stream; section 3 (Observations) says which property fails without each of
  these hypotheses. The exception is Flush(in) alone, with which TLC finds all six to hold in
  decoder_play: it is left out because nothing withdraws `releaseBuffers` after it, so the
  component decodes no more. Codec errors, timeouts of the waits for buffers, failing
  creation of the codec and reconfigurations stay possible at any point. All six follow
  from one invariant, `BufferInv`, on top of `ThreadInv`:
  * the accounts (`InKept`, `OutKept`): the allocated buffers of a port are those of the
    client, the queued ones and the one on its way, each once. The output thread calls the
    client back before it pops the buffer, so the place it has delivered (`Given`) does not
    count as queued although the buffer is in the queue, perhaps twice;
  * what the output thread and the codec have (`Placed`, `CodecKept`): the index found
    without the lock still names the frame, because others only append; a buffer is in one
    role for the codec, and what it may write or has yet to show is queued;
  * why the output thread has nothing to deliver when the buffers are returned: before the
    codec runs, and while a reconfiguration is pending, it has no buffers, and it is given
    none since `outputBufList` is full as long as `checkExtraBuffers` is set (`Phases`);
    the buffer with the EOS flag is the last of its stream (`Ending`); nothing is queued
    outside Executing (`Working`); and in what is left of a plan the return of out buffers
    comes after the join and the abort, or answers a reconfiguration, and the state is left
    only after both returns (`Ordered`, `Answers`).

  `ReturnAlone` is the property that `hasFrame` is meant for. The proof does not use
  `hasFrame`: under these hypotheses the order of the steps alone excludes the conflict, and
  where the order does not (Pause to Idle, new headers) `hasFrame` does not either.

### Encoder

All without `refill`; section 3 (Observations) says what is lost with it.

* `BuffersKept` (`BuffersOwned`), for any legal commands and the other liberties. Start and end of a
  stream call the client back before they pop the buffer, and the client may hand it over
  again at once: it is then queued twice. So `BufInv` speaks of the queue without its head
  while such a callback is being made (`Lo`), and says that this part and the client's
  buffers are all the allocated ones, each once (`PortInv`). `Picked`: the frame being
  encoded stays queued, since the client only appends. `OneCommand`: one command, whose
  plan has one end. `Rests`: a plan that ends in Idle or Loaded returns what is still
  queued before it ends. `BufferInvariant` and `EncoderTyped` state the invariant itself.
* `FramesStay` (`FramesKept`), for one stream per component (no `again`) and any groups of
  up to `MaxGop` pictures. The give-back loop knows frame numbers only; that `MaxGop`
  behind the picture wanted next is far enough rests on `FrameInv`, which holds while the
  stream is whole and has not ended: the queued buffers hold different frames of the
  stream (`Numbered`); a frame that is not encoded is queued, and so is every frame but the
  first that is not `MaxGop` behind the end of the codec's group (`NothingLost`); the
  pictures up to that end are encoded but for the one wanted next and those left in the
  group, which are less than `MaxGop` from it (`Groups`); what the component thread is
  about to do with a frame (`Doing`); and that a stream with frames sees no plan but those
  of pause and resume (`Uninterrupted`). The first frame is the exception: it is given back
  as soon as it is encoded, and it is found without a number, as the head of the queue.
* `EncoderEvents` (`EventsInStep`), also for groups that leave two below `MaxGop`
  (`ShortGroups`; section 3 says what happens otherwise). `pop_buffer_by_frame_id` resets
  the event when one buffer is queued, even if it is not the one looked for. By `FrameInv`
  two frames that the loop has not come to are always queued when it looks for one
  (`TwoQueued`). `StepInv` adds that after the end of the stream the component thread only
  executes commands and returns buffers (`Finished`).

### HEVC library

* `OutputIsWoken` (`WakeupNotLost`), for all liberties, any number of buffers, slots and
  cores. `WakeupNotLost` is not inductive: `out_count_sem` is also posted for a flush marker,
  the end of the stream and an abort, and a `sem_wait` that finds a marker returns without a
  picture although there may be one. `WakeInv` counts the pending marker with the pictures;
  says that the picture the output thread looks at without the lock is still in the fifo, since
  only this thread takes pictures out; and keeps one post for the marker and one for the abort
  while the output thread has not ended, so that the semaphore `HevcDecAbortAfter` does not
  reset is not behind when decoding starts again. TLC checked `WakeInv` on the instance of the
  run hevc.

### Wrapper layer and driver

All under `OneInstance` (each process has one instance) and without `zombie`. Processes may
be killed at any point.

* `CoresRunForOwner` (`RunsForOwner`), `WaitEndsWhenDone` (`ReadyWhenDone`), `DwlTyped`.
  A core goes from hand to hand: from the thread that reserved it to the hardware, by the
  interrupt to the listener, by the semaphore of the core back to the thread, and to the
  driver. `CoreInv` says that no two have it at once and that whoever has it belongs to the
  file that owns it: `FileInv(f)` for each file (what its decoding thread and its listener
  are at, what they have, that a dead process's threads start nothing, that the semaphore
  was posted only for a picture that has ended), `CoresFit` for the hardware (a core nobody
  owns is idle, an interrupt waits only for an owned one). The driver compares the owner
  before it takes the lock, so a second release by the same file would free a core twice;
  that there is none is part of `FileInv`. With `zombie` an interrupt waits for a core
  without an owner.
* `SemaphoreExact` (`SemExact`), also without `leak`: `SemInv` adds that a killed process
  is not in `ReserveDecoder`. The sum needs `CoreInv`, because a core that was released twice
  would count twice.
* `ListenerPullsItsCore` (`RegsOfCore`), also without `late`: `RegsInv` adds that the cores of
  multi-core instances do not time out (`Punctual`) and that the listener of one never
  waits a second time for the same picture (`RegsFit`).

### Only model-checked

All liveness (fairness and `ENABLED` are out of the prover's reach), with it all of the base
component. Of the HEVC library all but the output semaphore: what its buffers are counted
and marked for depends on the pictures its output loop picks. The loop is a fold, and what a
fold returns can only be shown by induction over data, which the installed provers cannot do.
(`OutputIsWoken` needs nothing of it: `Output` takes from the loop only the fields of the
frame buffer list that `OutputPicture` writes.)

## 5. Not modelled

* Decoder and encoder components: tunnels and buffer supply, marks and time stamps carried
  from input to output buffers, the post-processor port, the image domain, parameters
  and configuration, VP9's reallocation of single buffers, a second output thread next to a
  forgotten one, FreeHandle of a component that was not stopped, `malloc` failures in ports.
  Encoder: stabilisation, buffers with part of a frame, look-ahead, a client that hands
  buffers over while its command is pending (handing them over from the callbacks that
  return a whole queue is modelled, as the liberty `refill`, but excluded from the run); the codecs of older hardware, which encode in
  order and never set the next frame.
* HEVC library: `no_reordering`, bumping by the HRD, a maximal latency, raster and
  post-processor buffers, buffers added while decoding, a DPB that changes size without new
  buffers, slices that refer to dropped pictures, the non-blocking wait for a buffer; parsing
  and register values.
* Driver and wrapper: VCMD, polling, MMU and memory allocation, the older `ldriver`.
* Not at all: the OMX core (a table), the other formats, the rest of the encoder library
  (rate control, registers), the libraries' operating system ports, Bellagio, the Android
  glue. Most of the repository's lines are these: numeric code, tables of registers and
  vendored systems with no protocol of their own.

## 6. Plan

1. Done: queue, base component, port, decoder with client buffers, their first theorems.
2. Done: the encoder with its order of pictures; the HEVC library's buffers, output and
   threads; the wrapper layer and the kernel driver.
3. Done: theorems about the queue and its refinement, the decoder's types, transitions,
   threads and buffers, the encoder's buffers, frames and events, the library's output
   semaphore, the driver's cores and semaphore.
4. After that: FreeHandle of a decoder that was not stopped (`decoder_deinit`), marks, the
   OMX core's table, tunnels.
