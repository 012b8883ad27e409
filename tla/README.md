# A TLA+ model of PortMidi

PortMidi is a C library through which an application sends and receives MIDI on Linux (ALSA,
sndio), Windows (WinMM), macOS (Core MIDI) and Haiku; PortTime beside it calls back at regular
intervals. This directory holds TLA+ modules of its core, TLC configurations that check them on
small instances, and proofs for TLAPS. Line numbers are those of `src/`.

## 1. Inventory

| Component | State | Operations | Talks to |
|---|---|---|---|
| Queue (`pm_common/pmutil.c`) | `head`, `tail`, `overflow`, words of `buffer`, `peek`, `peek_flag`, `peek_overflow` | `Pm_Enqueue`, `Pm_SetOverflow`, `Pm_Dequeue`, `Pm_QueuePeek`, `Pm_QueueEmpty`, `Pm_QueueFull` | one writer thread (backend), one reader thread (application), shared memory without locks |
| Input (`pm_common/portmidi.c` 1129-1477) | `sysex_in_progress`, `message`, `message_count`, `short_message_count`, `running_status`, `filters`, `channel_mask` | `pm_read_short`, `pm_read_bytes`, `Pm_SetFilter`, `Pm_SetChannelMask`, `Pm_Read`, `Pm_Poll` | called by backend callbacks, calls `Pm_Enqueue` |
| Output (`portmidi.c` 640-875) | `sysex_in_progress`, `fill_base`, `fill_offset_ptr`, `fill_length` | `Pm_Write`, `Pm_WriteShort`, `Pm_WriteSysEx`, `Pm_Abort` | calls the functions of the backend's dictionary |
| Registry and streams (`portmidi.c` 41-47, 205-569, 879-1190) | `pm_descriptors` with its length and capacity, default ids, `pm_initialized`, one `PmInternal` per stream | `pm_add_device`, `pm_undo_add_device`, `Pm_Initialize`, `Pm_Terminate`, `Pm_CreateVirtual...`, `Pm_DeleteVirtualDevice`, `Pm_Open...`, `Pm_Close` | backends add devices; opens and closes go through the dictionary |
| ALSA (`pm_linux/pmlinuxalsa.c`) | one sequencer client with a port per id, `queue`, `queue_used`, `alsa_info` per stream | open, close, write, `alsa_poll`, `handle_event`, virtual ports | the ALSA sequencer |
| WinMM (`pm_win/pmwinmm.c`) | pool of `MIDIHDR` buffers, `next_buffer`, `hdr`, `last_time`, `buffer_signal`, `is_removed`; input buffers | open, close, write, `get_free_output_buffer`, input and output callbacks | the driver, from threads of its own |
| Core MIDI (`pm_mac/pmmacosxcm.c`) | packet list, `sysex_buffer`, endpoints, `opened` as a signal | open, close, write, read callbacks, virtual endpoints | the MIDI thread of Core MIDI |
| sndio (`pm_sndio/pmsndio.c`) | handle and mode of a port, its input thread and the state of its parser | open, close, write, `set_mode`, `input_thread` | its own thread |
| Haiku (`pm_haiku/pmhaiku.cpp`) | Midi Kit endpoints, the synthesizer | as above | Midi Kit threads |
| PortTime (`porttime/`, five systems) | `time_started_flag`, `pt_callback_proc_id`, and what names the source of ticks: `pt_thread_pid`, `timerRunLoop`, `timer_id`, `timerRunner` and `timerLooper` | `Pt_Start`, `Pt_Stop`, the thread or timer | the application's callback |
| midithru (`pm_test/midithru.c`) | `in_queue`, `out_queue`, `active`, `process_midi_exit_flag`, two flags for sysex in progress | `initialize`, `process_midi`, main loop, `finalize` | PortTime (callback), two PmQueues, one input and one output stream |
| Other test programs, Java binding, null backend | none of their own | | |

What is hard, and what makes each component correct:

* **Queue**: two threads, no locks, no barriers. No message may be torn, lost without a report,
  repeated or reordered; the overflow report must come exactly where messages are missing; the
  writer, which is blocked until the report is taken, must get going again.
* **Input**: real-time bytes anywhere, sysex messages that are never finished, an overflow or a
  change of filters between any two bytes. What the reader finds must be whole short messages
  and uninterrupted sysex messages from their beginning. sndio cuts messages itself, with a
  parser that must not let one message leak into the next.
* **Output**: bytes wait in up to three buffers of different sizes; calls of the system fail
  half-way through a sysex message. What is written must arrive complete and in order, or the
  call must say that it did not.
* **WinMM output**: a pool of buffers goes round between application and driver, with an event
  and a timeout. A buffer may not be filled while the driver has it; no wakeup may be lost; the
  delta times must add up to the times of the messages.
* **Registry and streams**: long sequences of legal calls, ids that are reused, opens that fail
  after their second or third step. Devices, streams, ports, connections, handles and the shared
  timing queue must go on fitting together, each backend in its own way.
* **Closing an input** against a callback or thread that is delivering to it: five backends,
  five ways to make sure that nobody uses the stream any more, one of them with a timeout.
* **PortTime**: a stop against a tick. No callback after `Pt_Stop`, no thread left for ever.
* **midithru**: what an application has to do with all this: merge two sources of sysex without
  mixing them or blocking either, and finish while the callback is running.

`PROJECT.json` lists the hazards line by line under `hazards`.

## 2. Modules

| Module | What it is |
|---|---|
| `LossyStream` | Abstract specification of the queue: a FIFO that may lose messages, but leaves a gap where it does. |
| `PmQueue` | `pmutil.c`, one step per access to shared memory, stores that become visible late and in any order. |
| `PmQueueStream` | The refinement mapping from `PmQueue` to `LossyStream`, the stream and liveness properties, and the reader that polls. |
| `PmInput` | Filters and byte parser, with the kinds of backend as environment. |
| `PmInputHeard` | `PmInput` beside a listener that follows the rules in the comments of `portmidi.c`. |
| `PmSndio` | The byte parser of `input_thread` beside a reference that counts bytes as MIDI does. |
| `PmInputThreads` | Opening and closing an input against the thread that delivers to it, on five backends. |
| `PmOutput` | `Pm_Write` and `Pm_WriteSysEx` over six sets of output functions: Core MIDI, ALSA, WinMM, Haiku's devices, Haiku's synthesizer, sndio. |
| `PmWinOut` | The buffers, the event and the stream times of a WinMM output. |
| `PmDevices` | Registry, API and streams above five backends. |
| `PtTime` | `Pt_Start`, `Pt_Stop` and the source of ticks on five systems. |
| `MidiThru` | `midithru.c` on top of `PtTime`, which it extends; its two queues are bounded FIFOs that block after an overflow. |
| `PmQueueProofs` (with `PmQueueStream`), `PmInputProofs`, `PmSndioProofs`, `PmWinOutProofs`, `PmDevicesProofs`, `PmInputThreadsProofs`, `MidiThruProofs`, `PmOutputProofs` | TLAPS proofs, section 4. |
| `MC...` | Bounds for TLC and, where a constant is a set of sequences, its value. |

### PmQueue

The code's words are kept, their content is not: a word holds 0 or the number of the message it
belongs to. This is what the zero-encoding of `Pm_Enqueue` is for (no word of an encoded message
is zero), so the encoding itself is left out. Every load is a step: `QueueFullScan` reads one
word of the slot at tail, `ScanData` one word of the slot at head from the back, `CopyWord` one
word of the `memcpy`, `CheckOverflow` and `CheckEmpty` the two operands of `&&` in line 126. A
store to the buffer is issued in one step (`EnqueueStore`, `ClearSlot`) and each of its words
becomes visible to the other side in a step of its own (`WriteLands`, `ZeroLands`), in any
order; the side that issued it sees it at once. This contains the order of the stores in the
loop 202-212, where a word is written after later ones, and stores that the processor or the
compiler reorders, which the comment at 118-124 says the queue tolerates. The one ordering that
this comment assumes (the mark in `overflow` does not overtake a whole buffer of stores) is
`OldestLanded`. Loads are not reordered.

### PmInput and PmSndio

One step is one byte of `pm_read_bytes` or one call of `pm_read_short`; all that the parser
keeps between bytes is in its variables, so the division into calls is irrelevant. `message` is
kept as its sequence of bytes (the C code packs them into an integer and counts them in
`message_count`). Data bytes are numbered as they arrive, modulo 128, so that a byte in a wrong
place shows.
`Pm_Enqueue` answers what it likes, which `PmQueue` can do. A Core MIDI backend hands over any
bytes at all ("raw"), an EOX outside sysex messages included; ALSA, WinMM, sndio and Haiku hand
short messages to `pm_read_short` and sysex bytes to `pm_read_bytes` ("parsed"), also the rest of a
sysex message after a short message that has interrupted it. `running_status` and
`short_message_count` are read by the code but not initialised (`pm_create_internal`, 879-942), so
they start with any of the values in `InitialStatus` and `InitialCount`. The history variables are
`source` (the bytes of the sysex message as they came), `picked` (what a reader of the queue has
put together by the rules of `portmidi.h:805-830`), `leaked` (where the log has sysex data that
should have been filtered) and `stray_eox`.

`PmSndio` is where sndio's "parsed" messages come from. `message |= byte << shift` is kept as the
set of bytes that were ORed into each of the four positions, so that a byte that meets another
one shows; `sysex_data` may be written one byte past its end (160), where anything may be read
back. Data bytes are numbered 1 to 127 here. The reference keeps the messages received in whole
that the backend can deliver in `due`.

### PmOutput and PmWinOut

`Pm_Write` is split at its calls of the backend. A backend function maps the state of the driver
to the set of its outcomes; a failing call of the system is one of them. `part` is where a
sysex message is put together (the `sysex_buffer` of Core MIDI, the event parser of ALSA,
`info->hdr` of WinMM), `list` what is handed to the system later (packet list, ALSA's output
buffer), `wire` what has been sent. Short messages of WinMM bypass both. The ALSA event parser
and output buffer are library code, modelled from how they are used. Data bytes are numbered from
256 upward as they are written, which keeps them apart from each other and from the status bytes;
0 is an unused byte of an event.

`PmWinOut` leaves the content of the buffers to `PmOutput` and asks who has a buffer and how much
is in it: a short message of a stream takes `EventSize` (12 in the code), a byte of sysex one, the
header before the first of these `EventSize`. The application's thread makes the calls that
`Pm_Write` makes, in any order a sequence of calls of `Pm_Write` can produce; the scan of
`get_free_output_buffer` looks at one flag per step (`Scan`), the wait for the event (`Block`,
`Wake`, `TimeOut`) is separate from it. The other thread is the system's: `Unprepare` and
`SetEvent` are the two steps of `winmm_streamout_callback`, `Removed` is the device being
unplugged. `playing` is what the driver has. A time is asked for as an integer, which may be
before the start of the stream; `Asked` is what `when + delta + latency` makes of it in unsigned
long, and the delta times in the buffers are differences modulo `Wrap`. `Open` may fail and leaves
behind what the code does not free (`leaked`); after `Close` the memory is gone and the model
stops.

### PmDevices

One step is one call by the application, and one more is the event by which ALSA says that a
device is gone. `portmidi.h:152-153` forbids concurrent calls. `api` is the backend of the
build. Each function of the system that can fail may fail, which runs through the `goto` chains
of `alsa_out_open` and `alsa_in_open`, through `set_mode` of sndio, which may lose the port for
both directions, and through the closes that leave a connection behind. `sys.ports` are ALSA
ports and the endpoints of virtual devices, `sys.links` connections and handles.

The application opens no deleted device and passes only virtual devices to
`Pm_DeleteVirtualDevice`, two guards of the model. The code checks neither (945-961, 1111-1112),
although the comment at 227-228 relies on the second.

What the code leaves behind for good is recorded rather than hidden: `sys.leaked` (an ALSA queue
whose tempo could not be set) and `orphans` (endpoints of Core MIDI after `Pm_Terminate` or a
failed delete, an endpoint of Haiku whose name was refused).

### PmInputThreads

The same `Pm_OpenInput` and `Pm_Close`, now one step per statement that another thread can
notice, with a thread that delivers:

* `virtual`: a virtual input of Core MIDI. `Pm_Close` sends itself a packet (`SendClose`), which
  waits in `port` behind others, and naps until the callback has cleared `opened`
  (`WaitForClose`), for 50 ms at most: then `forced` is set, and what is still in `port` may meet
  the next stream. The callback tests `opened` in one step and takes the stream in the next. Other
  programs send data, or eight bytes 0xFF, which the callback takes for such a packet (`foreign`).
  `stray` says that a request that is not the stream's own could reach it.
* `device` (a Core MIDI source) and `haiku`: a connection, which may fail to end (`failed`).
* `winmm`: a pool of sysex buffers that the driver returns one by one, when filled and at a reset.
* `sndio`: a thread per open stream, that looks at the mode of a handle which the output of the
  same port shares; `set_mode` closes and opens that handle. The thread may not come into being,
  and an error in `poll` ends it (`stopped`); the stream stays open both times.

A disconnection (Core MIDI, Haiku) and a reset (WinMM) are assumed to return when no callback is
running. The repository does not say so; the code depends on it, because it frees the stream next.

### PtTime and MidiThru

A source of ticks is what one `Pt_Start` has set going; its life is `begin`, `test`, `wait`,
`fire`, `call`, `gone`. `handle` is what the statics of the system name. `wrong` becomes the name
of what C or the system leaves undefined (a join of a thread that is not there, a message to a
NULL looper, a call through NULL), after which nothing more happens. `plain` says that the
application has called `Pt_Stop` once after each `Pt_Start` that had a callback and succeeded.

`MidiThru` runs the actions of `PtTime` as they are: the callback of its source is `process_midi`,
split at each message it handles. Time is counted in ticks, and only as far as the program
looks at it: the age of a message, the time left until its echo, the time since the last input.
The sender is its environment: a `prompt` one finishes its sysex messages in time, any other may
rest or drop them. Its messages wait in `midi_in`, which holds `InputSize` of them and then refuses
more until its reader has been told of the overflow. That never happens: `process_midi` calls
`Pm_Read` only when `Pm_Poll` says that there is a message, so that its branch for
`pmBufferOverflow` (172-173) is not reached and `midi_in` stays blocked. (The violation
`queue_polled` is the same hazard in the library.)

## 3. Runs

| Run | Kind | Checks |
|---|---|---|
| `queue` | passes | `TypeOK`, `NoTornMessage`, `GapIffLoss`, `FullOnlyIfFull`, `ImplementsStream`, `OverflowIsAcknowledged`, `AcceptedIsDelivered` |
| `input` | passes | `TypeOK`, `SysexIsContiguous`, `SysexIsComplete`, `ShortIsWhole` |
| `sndio` | passes | `TypeOK`, `DeliveredIsSent` |
| `input_threads` | passes | `TypeOK`, `CallbackFindsStream`, `ServedWhileOpen` |
| `output` | passes | `TypeOK`, `WrittenIsSent`, `OrderIsKeptElsewhere`, `SuccessMeansSent`, `CallReturns` |
| `winmm` | passes | `TypeOK`, `FilledIsOurs`, `NoWakeupIsLost`, `StreamTimeIsRight`, `CallReturns` |
| `devices` | passes | `TypeOK`, `OneStreamPerOpenDevice`, `NamesAreUnique`, `QueueIsCounted`, `PortsAreNotLeaked`, `IdsAreStable` |
| `timer` | passes | `TimerTypeOK`, `StoppedIsQuiet`, `NothingIsMissing`, `StopTakesEffect` |
| `thru` | passes | `TypeOK`, `NoCallAfterClose`, `SysexIsNotInterrupted`, `ThruIsLive` |
| `queue_polled` | violation | `OverflowIsAcknowledged` for a reader gated by `Pm_Poll` |
| `input_running` | violation | `ShortIsDelivered` with raw bytes: running status is never set |
| `output_realtime` | violation | `RealTimeIsOneByte`: a missing `continue` |

The violations are disagreements between the code and its own documentation; `findings` in
`PROJECT.json` quotes both sides.

**Bounds.**

* `queue`: two slots of three words (two of a message and the extra one) and four messages. Two
  slots are the least for which head, tail and their wrap-around differ; four messages fill the
  queue, run over, and use a slot a second time; three words give a first, a middle and a last
  one to scan. A `PmEvent` has three with the extra word as well.
* `input`: seven inputs, one refused `Pm_Enqueue`, one change of filters: to a channel, a message
  class and a real-time message, or to `PM_FILT_ACTIVE|PM_FILT_SYSEX`. A sysex message needs
  five bytes to spill into a second group of four; two more let it be cut, overflow, or be
  followed by the beginning of another message. One byte per case that the code distinguishes.
  `running_status` starts as 0 or a status, `short_message_count` as 0 or 2, a length that a
  message can have. (Above 4 the code would shift bytes out of the message: not modelled.)
* `sndio`: eight bytes, `sysex_data` of three, one reopening. A message of three bytes, the two
  data bytes of another under running status, and a third short message fit; so does a sysex
  message that overruns the buffer, followed by a whole short one. One status byte for each class
  of the parser.
* `input_threads`: four streams one after the other, three packets, three buffers, three failures,
  timeouts or packets of other programs that look like a close request, three switches of the
  output. Two streams are needed for a late packet or a thread that was left behind to meet the
  wrong one, the others for what comes after that.
* `output`: three calls, one failure, buffers that hold five to seven bytes instead of 128 to
  1024. The lengths of the sysex messages lie on both sides of every limit of these buffers,
  including a message that ends exactly with the WinMM buffer and one that fills it three times.
* `winmm`: two buffers and one to expand the pool; an event takes 3 bytes, a buffer has 6 (a
  message and room for another, or a header and two bytes of sysex) or, of the expansion, 8; ten
  calls with latency 0 and six of a stream, two failures (which include a timeout that gets no
  memory, and the removal of the device). The calls fill all buffers and need one more, and a short
  message meets a buffer that sysex bytes have almost filled. `Wrap` is 8; the times -1, 1, 3 and 8
  go back, come before the start of the stream, and exceed the range.
* `devices`: two names, three kinds of hardware (nothing, one port of both directions, one
  output), which changes between the two initialisations, three creations of virtual devices, two
  streams, two failures, an array that grows by two. Three creations allow create, delete, reuse
  and a conflict with either direction of a hardware device; two streams let one fail beside an
  open one, and share a queue or a port.
* `timer`: three sources. The second is the one that a source left running can meet, the third
  follows a failed start.
* `thru`: two messages from the sender, prompt or not, sysex messages of up to three events, queues
  and an input of two messages, an echo after one tick, a timeout after two; Linux and Haiku, where
  `Pt_Stop` does and does not wait. Two messages let the second, short or sysex, meet the echo of
  the first at each of its events; one sysex message of three events overflows a queue, or the
  input in the middle of the message.

**Deadlock** is checked in `queue`, where a reader can always call again. The other models stop
when their inputs are used up or the application has finished (in `queue_polled` the reader has
nothing to do when it is told that the queue is empty), so their configurations switch the check
off. What could block there is covered by `CallReturns`, `StopTakesEffect` and `ThruIsLive`.

**Fairness.** Nothing obliges an application or a device to do anything, except:

* `queue`: the reader calls `Pm_Dequeue` again and again (strong fairness, since it may call
  `Pm_QueuePeek` in between), a call that has begun goes on, and stores reach memory.
* `output`: a call that has begun goes on (weak fairness of its steps; the model has no wait
  inside a call).
* `winmm`: a call goes on, and the driver plays the buffers it has and calls back (weak fairness
  of each). Not that an unplugged device does: then the buffers are lost.
* `timer`: every source goes on (the thread runs, the tick comes, the callback returns), and
  `Pt_Stop` returns when the thread that it joins has ended.
* `thru`: the callback and the timer go on, main empties `in_queue` while it runs; a `prompt`
  sender finishes a sysex message it has begun. It may start no other.

No other run needs fairness.

**Properties that are conditional**, and on what:

* `ShortIsWhole`: `running_status` happened to be 0 when the stream was opened. Otherwise data
  bytes before the first status byte become messages with a status nobody sent. And a status byte
  does stand among the data bytes of a message when the device has sent an EOX outside sysex.
* `SysexIsComplete`, `SysexIsContiguous`: `PM_FILT_SYSEX` is not switched inside a sysex message.
  `SysexIsComplete` follows a reader who takes real-time bytes out wherever they stand.
  `SysexIsContiguous`: the fields that the code does not set do not make up messages (`Lucky`: with
  raw bytes `running_status` started as 0 or the status of a channel message, with parsed messages
  `short_message_count` started below 2); and not the groups that a real-time byte completes while
  sysex messages are filtered (`leaked`, `pm_flush_sysex` at 1341-1342).
* `DeliveredIsSent`: for the messages that the backend can deliver at all (`Deliverable`: no Tune
  Request, no sysex message that does not fit), and up to the bytes of a message under running
  status, which come garbled (184-189): it says that they garble no other message.
* `OrderIsKeptElsewhere`, `SuccessMeansSent`: not WinMM, where the bytes of a sysex message that
  is cut off (709) stay in `info->hdr` and go out after the next short message;
  `WrittenIsSent`, `SuccessMeansSent`: no real-time message inside sysex, see `output_realtime`.
* `TypeOK` of `PmWinOut`: no buffer is filled beyond its length but one with mixed content, which
  may be by up to `EventSize - 2`, see below.
* `StreamTimeIsRight`: not after a failed flush or a short message inside sysex (`garbled`), when
  the time that was in the buffer is lost; that `last_time` is the latest time asked for, as long
  as none was before the start of the stream or beyond the range (`wrapped`). `CallReturns` of
  `PmWinOut`: unless all buffers are lost to failed calls or a removed device (`Starved`). A call
  then looks again every second, for ever.
* `CallbackFindsStream`: no close of a virtual input has timed out and no call failed that leaves
  a connection or a thread behind. `ServedWhileOpen` says what does hold of an open stream: it is
  marked as open as long as no stray close request can reach it (`stray`), and such a request comes
  only from a close that timed out or from another program; its sndio port is open for input as
  long as the port is not opened or closed for output (the input thread sees mode 0 in `set_mode`
  and ends), and its thread runs if besides it has been created and `poll` has not failed.
* `QueueIsCounted`: no stream was open when `Pm_Terminate` was called. The code neither closes
  such streams nor resets `queue_used`.
* `PortsAreNotLeaked`: but for `orphans`; the second half only as long as no call has failed:
  `alsa_out_open` deletes the port of a virtual device when it fails (240-246).
* `StoppedIsQuiet`: on Linux and with Mach threads, where `Pt_Stop` joins. On Haiku and Windows a
  tick may be on its way. `StopTakesEffect`: not for the run loop of `ptmacosx_cf.c`.
  `NothingIsMissing`: on Linux always; with Mach threads and on Haiku for `plain` applications;
  with the run loop and on Windows not at all.
* `SysexIsNotInterrupted`: from the first event of a sysex message to the second, which is all of a
  message of two; nothing else is asked of the sender or the queues. A message that rests for longer
  than the timeout is given up on purpose (`Released`). `ThruIsLive`: neither a queue nor `midi_in`
  has overflowed, and the sender is prompt; and nothing is ignored but events of messages of more
  than two.

**What the models show beyond the runs.** Each condition above excludes behaviour of the
code that the model contains. What else the code does, against its documentation or beyond it (these
are readings of the traces, not runs of their own):

* A real-time byte inside a sysex message is packed into the group of four (1340-1342, as the
  comment at 1333-1336 has it), while `portmidi.h:823-830` and 852-858 and the comment at 1374-1380
  promise it an event of its own, delivered first.
* With the filters `PM_FILT_ACTIVE | PM_FILT_SYSEX`, which `portmidi.h:674-676` recommends, a
  real-time byte that completes a group of four of a sysex message sends the group to the reader,
  since `pm_flush_sysex` does not look at the filters (1341-1342): `SysexIsContiguous` without
  `leaked`. It is the same with any real-time message that is not filtered.
* An EOX outside sysex messages is added to a short message: 90 F7 01 becomes a note (1444-1474),
  while by the comment at 1394-1396 no data byte counts after F0 to F7.
* A short message that interrupts a sysex message from a backend that parses short messages leaves
  the bytes in the accumulator (1346). Data bytes that follow, which the comment at 1410-1418
  describes, are added to them, and are enqueued as a short message when their number happens to be
  the `short_message_count` that malloc left. A short message that is filtered does not end the
  sysex message at all.

* A short message that cuts off a sysex message is dropped by `pm_read_short` (1346), although
  the comment at 1308-1309 says that all short messages pass: `ShortIsDelivered` with
  `Backends = {"parsed"}`.
* The default ids outlive `Pm_Terminate` (563), while `portmidi.h:285` has them refer to devices;
  the array of descriptors moves when it grows (257), while `portmidi.h:375-376` says that the
  pointer of `Pm_GetDeviceInfo` stays valid.
* A virtual input of Haiku is created as a producer (`pmhaiku.cpp:380`), while `portmidi.h:553-555`
  says that it appears to others as an output, which on Haiku is a consumer. `PmDevices` has an
  endpoint either way.
* A second `Pt_Start` on Linux answers `ptNoError`, and its callback is never called
  (`ptlinux.c:84`).
* A short message that is written with latency into a buffer which bytes of a sysex message have
  filled up to two bytes is stored past the end of the buffer: `add_to_buffer` (`pmwinmm.c:658-671`)
  tests the room for the next message, `winmm_write_byte` (1021) for the next byte. A real-time
  message inside sysex does it, and a short message after a sysex message that was not ended (709).
* A WinMM timestamp before the start of the stream becomes one of almost 2^32 (896-905); since time
  must not go back, all messages after it are put there, too.
* A packet of eight bytes 0xFF from another program closes a virtual input (`pmmacosxcm.c:340-347`)
  that the application has open; its `Pm_Close` then answers `pmBadPtr`.
* An sndio stream whose thread could not be created (`pmsndio.c:242`) or has met an error in `poll`
  (128-132) is open and hears nothing; nobody is told. Closing the first joins a thread that never
  was.
* On Windows `Pt_Stop` sets `time_callback` to NULL while a tick may be about to call through it
  (state `fire`).
* In midithru the flag for sysex goes down at the first event that begins with data, not at the
  last (204). Of a sysex message of more than two events the third and those after it are discarded
  (184; but for one that begins with EOX), and messages of the application come in between,
  while 46-48 say that these are blocked until the sysex message completes.
* After an overflow midithru's input is blocked for good, see section 2. An echo that is released
  by the timeout when the input has abandoned a sysex message (232) may raise
  `app_sysex_in_progress` for good, after which the program hears nothing any more: `ThruIsLive`
  for a sender that is not `prompt`.

Every property is paired with a mutant of the model: an operator named in the comment `mutant
of ...` that, put in the place of the one that follows it, makes the property fail.

## 4. Proofs

Eight modules hold theorems. Each component has one inductive invariant `IInv`, with a lemma per
action or part (the stream and its refinement have `StreamInv` and the timer has `TimerInv`,
below), and the proofs assume nothing but the assumptions on the constants in the module they are
about.

**`PmQueueProofs`**, for every `NumMsgs`, `MsgWords` and `MaxOffered`: `TypeCorrect`
(`[]TypeOK`), and `NoTorn` (`[]NoTornMessage`), a message that leaves the buffer is one message
that was written, whole, although nothing orders the accesses of the two threads.
`NoTornMessage` is not inductive. `IInv` is `TypeOK` with

* `MemoryInv`: a word holds 0 or the message last issued to its slot; a write that is on its way
  goes to a word that is 0, a clearing that is on its way to one that is not;
* `WriterInv`: the words that `Pm_QueueFull` has looked at are free, and stay so: only the writer
  can fill them;
* `ReaderInv`: the words that `Pm_Dequeue` has looked at are filled, stay so (only the reader
  clears them), and hold the message issued to the slot; so do the words copied so far;
* `PeekInv`: what `Pm_QueuePeek` has put aside is whole.

The step is proved for writer, reader and memory apart, one case per action. The interesting one
is `EnqueueStore`, which changes `issued`: the slot at tail is free in all words, so it cannot be
the slot that a reader in `scan` or `copy` has seen a word of.

**The stream**, in the second half of `PmQueueProofs`: `FullIsTrue` (`FullOnlyIfFull`),
`Refinement` (`Spec => ImplementsStream`) and `NothingIsLostSilently` (`[]GapIffLoss`). Its
`StreamInv` is what `IInv` does not say, because a torn message does not depend on it:

* `Uniform`: counting the stores on their way, a slot is filled in all its words or in none;
* `InOrder`: the slots in use are the `Used` ones from head on, cyclically, so the writer is full
  exactly when the slot at tail is taken;
* `Marked`: the overflow mark is that of the slot at tail, and the writer, while it stands, does
  nothing but refuse, so that no message comes in behind the gap;
* `Reading`: what a call in progress has seen of `peek_flag`, `peek_overflow`, `overflow` and the
  slot at head still holds, since only the reader undoes it.

With it every step maps to one step of the stream under `Unread` (the overflow that
`Pm_QueuePeek` holds, the message it holds, the slots in order, the mark at the end): `EnqueueStore`
accepts, `MarkOverflow` and a refused call drop, `ClearSlot` delivers or moves the message from
its slot to `peek`, `Acknowledge` delivers the gap, keeps it for the next call, or folds it into
one that a peek already holds.

`NothingIsLostSilently` is about the stream under that mapping. Its `HistoryInv` speaks of
`History`, the messages delivered and queued between a message 0 and the next one to be offered:
both properties of neighbours in it, and `NotAhead`, that no entry but the last exceeds `offered`.
A step of the stream moves an entry from one part of the history to the other, inserts one before
the last, raises the last, or takes out one of two gaps; the lemmas say what that does to
neighbours.

**`PmWinOutProofs`**, for any number and lengths of buffers, any size of an event and any times:
`TypeCorrect`, `NeverShared` (`[]FilledIsOurs`), `NoSleepOverBuffer` (`[]NoWakeupIsLost`) and
`TimesAddUp` (`[]StreamTimeIsRight`). The parts of `IInv`:

* `Ownership`: what the driver has is prepared and in its list once, what is being filled is not,
  nor are buffers the pool has not allocated. `FilledIsOurs` rests on the flag alone: the scan
  takes a buffer that is not prepared, so it cannot be in the list.
* `Wakeup`: as long as the event is not set and no callback is between its two steps, every
  buffer that the scan has looked at is still prepared. This needs the positions: those looked at
  are the last `scanned` ones behind `next_buffer`, cyclically. When the scan is through, these
  are all.
* `Filling`: what the buffer holds fits the call that is being served. A buffer that has only short
  messages in it and is not about to be flushed has room for one more; any other that is not, only
  for two bytes. That is what bounds the overrun of a mixed buffer in `TypeOK`.
* `StreamTime`: the sum, and that nothing is pending without a buffer. `Max` in `When` is what
  keeps the difference out of the modulus, also for times that have wrapped before.

**`PmInputThreadsProofs`**, for any number of streams, packets, buffers and failures:
`TypeCorrect`, `StreamIsFound` (`[]CallbackFindsStream`) and `OpenIsServed` (`[]ServedWhileOpen`).
The parts of `IInv`: `Shape` (what belongs to one backend only), `Present` (the stream exists
while anything may refer to it), `Connection` (who calls back does so for the stream that is open,
and the buffers of Windows add up), `Patience` (as long as no close was forced and no other
program has sent a close request, there is at most one in the port and its close still waits: so
none is left for the next stream; in any case a stream for which `stray` is not set has none
coming and is marked as open), `Handle` (an sndio port that has not been switched stays open for
input, and the thread of its stream runs unless it is `stopped`), and, as long as no close was
forced and no call has failed, `Served` (whoever delivers does so to this stream, and has stopped
when it is freed).

**`PmInputProofs`**, for input of any length, any number of overflows and changes of filters, to
any filters:
`TypeCorrect`, `SysexStaysTogether` (`[]SysexIsContiguous`), `NothingIsTakenTwice`
(`[]SysexIsComplete`) and `ShortMessagesAreWhole` (`[]ShortIsWhole`). The log only grows, so what
matters is what is put into it next, and that is in the accumulator:

* `InSysex`: no EOX waits in the accumulator of a sysex message, and its first byte is no status
  of a short message. So no group of sysex bytes can be taken for a channel message.
* `Open`: while a sysex message is taken in and not filtered, the accumulator begins with F0, or
  the last event is a full group of the same message and the data bytes of both together follow
  each other. This is what an overflow, a cut and a new message must re-establish or end.
* `InShort`: outside sysex, what a raw backend has accumulated is a short message whose length is
  in `short_message_count`, with data bytes or a stray EOX behind its status. What is left there
  from a parsed backend is the rest of a sysex message that was interrupted, which cannot be taken
  for a channel message, unless it is garbage from `running_status`.
* `SysexIsComplete` and `ShortIsWhole` are inductive together with these.

The turns of the loop of `pm_read_bytes` and the calls of `pm_read_short` are first reduced to
ten effects (`Nothing`, `Enqueued`, `Interrupted`, `Started`, ...), and each part is shown for each
effect. `leaked` excepts from `SysexIsContiguous` what a step puts into the log with the filter on,
so that the filters need no further condition.

**`PmSndioProofs`**, for any sequence of bytes and any length of `sysex_data`: `TypeCorrect` and
`MessagesAreDelivered` (`[]DeliveredIsSent`). The parser and the reference do not know of each
other, so `IInv` says, for each state of the parser, what the device is sending:

* `Nothing` (`st` is 0): nothing, or the rest of a sysex message that did not fit and is given up.
* `InSysex`: `sysex_data` is the sysex message so far.
* `InVoice`, `InSong`: a short message, of the length that `len` says and with `idx` bytes so far;
  as long as it has a status byte of its own these, and nothing else, are in `pm_ev.message`.
  Between two voice messages `st` is the running status.
* `InNoLength`: a status byte whose length in the table is 0; parser and message wait for ever.
* `InTune`: the message is over, which the parser does not notice, and nothing else begins.

The `Receive...` lemmas say what a byte of each kind does to the reference, and a lemma per action
of the parser puts both together: neither side completes a message, or both do, and the same one.

**`PmDevicesProofs`**, for any backends, names, hardware and number of calls, streams and
failures: `TypeCorrect`, `OpenDevicesHaveOneStream` (`[]OneStreamPerOpenDevice`),
`NamesDoNotConflict` (`[]NamesAreUnique`), `QueueIsFreedWithItsLastUser` (`[]QueueIsCounted`),
`NothingIsLeftBehind` (`[]PortsAreNotLeaked`) and the action property `IdsKeepTheirMeaning`
(`IdsAreStable`). The parts of `IInv`:

* `Pairs`: a device that is open points to its stream and the stream to it, each way with the
  same direction, and no such device is deleted. `OneStreamPerOpenDevice` says less, and would
  not survive the reuse of an id.
* `Claims`: a deleted device keeps its name for the next of its direction, so the names of the
  deleted count as well; without that two virtual devices could get one name later.
* `Queue`: the count is never less than the streams that use the queue, and equal to their number
  while none has been abandoned by `Pm_Terminate`; with the state of the queue that goes with it.
* `Held`: the two inclusions of `PortsAreNotLeaked`, and what a backend never takes.

What the open and close functions of a backend do, with all the ways they fail, is a set of
outcomes; a lemma per function (`AlsaInOpenFacts`, `AlsaOutOpenFacts`, `CloseFunctionFacts`, ...)
says what holds of every member, and the lemmas about the calls use only that. A scan adds any
number of devices in one step. It is followed by an induction over a set of natural numbers
(`InductionOnNat`, from the well-foundedness of `<`), since a predicate cannot be passed to the
induction theorem of the library; `LeastElement` gives `Min` its meaning the same way.

**The timer**, in the first part of `MidiThruProofs`, for any number of starts:
`TimerTypeCorrect`, `StopIsQuiet` (`[]StoppedIsQuiet`) and `NothingMissing`
(`[]NothingIsMissing`), of `TimerSpec`. The parts of `TimerInv`: `OnlyHandleLives` (where
`Pt_Stop` joins, a thread that has not ended is the one that `pt_thread_pid` names) and
`HandleIsThere` (the other way round: a handle that `Pt_Stop` will use names a thread with the
current id, which does not leave its loop by itself).

**`MidiThruProofs`**, for any length of the queues, the delays and the input: `TypeCorrect`,
`CallbackIsDone` (`[]NoCallAfterClose`) and `SourcesTakeTurns` (`[]SysexIsNotInterrupted`). `Ending`
relates where main and the callback are: main puts the exit flag down while the callback cannot
raise it, and when it is up the callback does nothing more. `Owners` relates the output to the
flags: between the first and the second event of a sysex message the flag of its source is up, the
two are never up together, and while that of the application is, the callback reads no input. It
asks nothing of the sender or of the queues: a second event that never comes leaves the flag up,
and the release after the timeout is the only step that gives the output to the other source.

The composition is proved as well. `ThruRunsTimer` says that midithru drives the timer as `PtTime`
allows (`Spec => TimerInit /\ [][TimerNext]_timer /\ []TimerInv`). What that needs from midithru is
`StopsOnce`: main stops the timer at most once for the start in `initialize`, so the application
remains `plain`. With it everything proved of the timer holds in midithru, in particular
`ThruStopIsQuiet`.

**`PmOutputProofs`**, for any sizes of the buffers, any number of calls, of events in a call and
of failures, on all six sets of output functions: `TypeCorrect`, `OrderKept`
(`[]OrderIsKeptElsewhere`), `EverythingIsSent` (`[]WrittenIsSent`) and `SuccessIsTrue`
(`[]SuccessMeansSent`). The properties compare whole sequences of bytes when a call has returned;
the invariant says what holds of them in the middle of a call. `Remaining` is what the call still
has to handle, `Stream` what it has handled and not given up. The parts of `IInv`, in three layers:

* `Base`: types; `Capacity`, how much is in the buffers of each backend; `Place`, where the call
  is; and `Ordered`: but for WinMM, the data bytes on their way, followed by those to come, are in
  increasing order. The relation `Keeps(a, b)` (b can take the place of a in any such sequence)
  carries this through the backend functions, a lemma for each. `OrderKept` needs nothing more.
* `Reading`: `Base` with `Content` (what is left consists of events as an application writes them,
  and `bits` is at a byte that `Pm_Write` can have reached in the first of them) and
  `NotEmbedded` (no real-time message is inside sysex, unless the history variable says so).
* `IInv`: `Reading` with `Complete` and `Behind`. `Flow`, which is `Stream` followed by what will
  be sent of `Remaining`, is all that was written as long as no call has failed (`Complete`), and
  in any case ends with what the last call wrote (`Behind`), whatever the failed calls before it
  have left in the buffers.

For the last layer every step of a call is shown to be `Onward` (`Flow` stays what it was, or
ALSA's parser puts the rest of a message that was cut off in front of what comes) or `Stopped`
(the call ends with an error). The ALSA parser is why `Behind` has a third part: what it keeps of
a message that was cut off goes away, or goes out, no later than at the next F0. `SentTo`, what
reaches the device of a sequence of events, is a recursive function; `UpFacts` (it is defined) and
`SentCat` (what is sent of `a \o b` is what is sent of `a`, then of `b`) are proved by
`InductionOnNat`, like the scan in `PmDevicesProofs`.

Only model-checked:

* what is about liveness (`OverflowIsAcknowledged`, `AcceptedIsDelivered`, both `CallReturns`,
  `StopTakesEffect`, `ThruIsLive`): it rests on fairness and ENABLED, which are beyond the provers.

Every other property of the passing runs is stated by a theorem.

## 5. Not modelled

* The common FIFO of all ALSA inputs (`alsa_poll`) and what it does to events of a closed device
  whose id is taken over (557-558): its order and its purge are the sequencer's.
* Timestamps of input, `synchronize` (the drift between the application's clock and the stream's),
  the rate limits of Core MIDI packets (`LIMIT_RATE`). The order of bytes, which is what the
  properties are about, does not depend on them.
* What a driver does with memory that `winmm_out_close` has freed (1089): the repository does not
  say whether `midiStreamClose` waits for callbacks, so `Close` ends `PmWinOut`.
* In `alsa_in_open` of a virtual input, the failure of `snd_seq_get_port_info` (401-406), which goes
  to `free_ainfo` without an error code, so that the stream is open with an `api_info` that was
  freed. The call fails only for a port that is not there, and a virtual input that has not been
  deleted has its port: opening and closing an input leave the port of a virtual device alone (466).
* Lack of memory: the error paths of `pm_alloc` release what they have allocated; in
  `pm_add_device` 267-269 they leave a device without a name, which only a model of memory would
  show. (`TimeOut` in `PmWinOut` is the exception.)
* Names: `Pm_FindDevice`, the names of Core MIDI endpoints, the texts of errors.
* The null backend registers nothing. The Java binding wraps the C functions one to one. The other
  test programs are interactive. Build files.

## 6. Plan

Done: the queue with its refinement; input, with both kinds of backend and the parser of sndio;
output on all backends, the buffers of WinMM; registry and streams above all backends; closing
inputs against their threads; PortTime; midithru. Proofs of all safety properties of these.

Next, to model:

1. `PmAlsaEvents`: the FIFO of `alsa_poll` and `handle_event`, composed with `PmDevices`: events
   for a closed device and a reused id.
2. `PmStream`: `PmInput` composed with `LossyStream` in the place of the queue, and `Pm_Read`, to
   show that a reader who starts again after `pmBufferOverflow` never begins inside sysex.
3. Output with timestamps: `pm_write`'s synchronisation with a clock that drifts.

Next, to prove: the properties of these modules as they are written; of what is there, that the
`Pm_Enqueue` of `PmInput`, which answers what it likes, is one that `LossyStream` allows.
