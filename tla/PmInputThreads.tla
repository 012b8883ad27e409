---------------------------- MODULE PmInputThreads ----------------------------
(***************************************************************************)
(* Opening and closing an input stream while another thread delivers MIDI  *)
(* to it: Pm_OpenInput and Pm_Close of src/pm_common/portmidi.c with the   *)
(* open and close functions and the callbacks of the backends              *)
(*   "virtual"  a Core MIDI virtual input: packets wait in a port, and a   *)
(*              close sends itself a packet and waits for the callback;    *)
(*   "device"   a Core MIDI source, connected and disconnected;            *)
(*   "haiku"    a Haiku producer, connected to a consumer of our own;      *)
(*   "winmm"    a Windows input with its pool of sysex buffers;            *)
(*   "sndio"    a thread that reads a handle shared with the output stream *)
(*              of the same port.                                          *)
(* What is delivered is in PmInput and PmSndio; here a callback only uses  *)
(* the stream.  The application is one thread.                             *)
(***************************************************************************)
EXTENDS Integers, Sequences, FiniteSets

CONSTANTS Backends,
          MaxOpens,      \* bound: calls of Pm_OpenInput
          MaxPackets,    \* bound: packets waiting in the port of a virtual input
          NumBuffers,    \* sysex buffers of a Windows input
          MaxTroubles,   \* bound: failures and timeouts
          MaxSwitches    \* bound: calls of Pm_OpenOutput and Pm_Close on the output

ASSUME PmInputThreadsAssumption ==
  {MaxOpens, MaxPackets, NumBuffers, MaxTroubles, MaxSwitches} \subseteq Nat

Streams == 1..MaxOpens

VARIABLES
  backend,
  pc, task,       \* the application: where it is, and in which function of sndio
  stream, opens,  \* its input stream and how many it has opened
  live, info,     \* streams not freed; streams whose api_info is set
  opened,         \* pub.opened of the device
  internal,       \* pm_internal of the device
  using,          \* the stream that a callback works on, as a set
  port, checked,  \* virtual: packets; the one for which the callback found the device open
  source,         \* device, winmm: the stream that the system calls back for
  buffers, held, lost,   \* winmm: with the driver; in the callback; never given back
  mode, target,   \* sndio: what the handle is open for, and is being opened for
  thread,         \* sndio: the input thread of each stream
  switches, troubles,
  forced, failed,    \* history: a close timed out; a system call failed that leaves its mark
  foreign,           \* history: another program has sent a packet like that of a close
  stray,             \* history of the open: such a packet, or a late one, could reach it
  switched, stopped  \* history of the open: its port was opened or closed for output; its
                     \* input thread was not created, or met an error

app    == <<pc, task, stream, opens, live, info, internal>>
mac    == <<port, checked, source>>
win    == <<buffers, held, lost>>
sndio  == <<mode, target, thread, switches>>
marks  == <<forced, failed, foreign, stray, switched, stopped>>
past   == <<troubles, marks>>
vars   == <<backend, app, opened, using, mac, win, sndio, past>>

Trouble == troubles < MaxTroubles /\ troubles' = troubles + 1

IsCloseRequest(packet) == packet = "close"
CloseIsComing == checked = "close" \/ \E i \in 1..Len(port) : IsCloseRequest(port[i])

-----------------------------------------------------------------------------
(* Pm_OpenInput and Pm_Close around the backend. *)

\* A device that is open is refused.
pm_create_internal ==
  /\ pc = "closed" /\ ~opened /\ opens < MaxOpens
  /\ opens' = opens + 1 /\ stream' = opens + 1
  /\ live' = live \union {opens + 1}
  /\ internal' = opens + 1
  /\ pc' = "opening"
  /\ stray' = CloseIsComing /\ switched' = FALSE /\ stopped' = FALSE
  /\ UNCHANGED <<backend, task, info, opened, using, mac, win, sndio, troubles, forced, failed,
                 foreign>>

OpenDone ==
  /\ pc = "connected"
  /\ pc' = "open" /\ opened' = TRUE
  /\ UNCHANGED <<backend, task, stream, opens, live, info, internal, using, mac, win, sndio, past>>

OpenFailed ==
  /\ pc = "failed"
  /\ pc' = "closed" /\ internal' = 0
  /\ live' = live \ {stream} /\ info' = info \ {stream}
  /\ UNCHANGED <<backend, task, stream, opens, opened, using, mac, win, sndio, past>>

\* Pm_Close of a stream whose device is not open answers pmBadPtr and frees nothing.
Pm_Close ==
  /\ pc = "open"
  /\ pc' = IF opened THEN "closing" ELSE "closed"
  /\ UNCHANGED <<backend, task, stream, opens, live, info, internal, opened, using, mac, win,
                 sndio, past>>

\* The backend has forgotten the stream; then Pm_Close does, and frees it.
ReleaseInfo ==
  /\ pc = "quiet"
  /\ pc' = "released" /\ info' = info \ {stream}
  /\ UNCHANGED <<backend, task, stream, opens, live, internal, opened, using, mac, win, sndio,
                 past>>

ClearDevice ==
  /\ pc = "released"
  /\ pc' = "cleared" /\ internal' = 0 /\ opened' = FALSE
  /\ UNCHANGED <<backend, task, stream, opens, live, info, using, mac, win, sndio, past>>

FreeStream ==
  /\ pc = "cleared"
  /\ pc' = "closed" /\ live' = live \ {stream}
  /\ UNCHANGED <<backend, task, stream, opens, info, internal, opened, using, mac, win, sndio,
                 past>>

Common == \/ pm_create_internal \/ OpenDone \/ OpenFailed \/ Pm_Close
          \/ ReleaseInfo \/ ClearDevice \/ FreeStream

-----------------------------------------------------------------------------
(* Core MIDI, and Haiku, whose callback comes from a connection too. *)

Connected == backend \in {"device", "haiku"}

Connect(s) == pc' = "connected" /\ info' = info \union {stream} /\ source' = s
NotConnected == Trouble /\ pc' = "failed" /\ UNCHANGED <<info, source, marks>>

midi_in_open ==
  /\ pc = "opening"
  /\ \/ /\ backend = "virtual"
        /\ Connect(source) /\ UNCHANGED past
     \/ /\ backend = "device"
        /\ Connect(stream) /\ UNCHANGED past
     \/ /\ backend = "device"          \* MIDIPortConnectSource fails
        /\ NotConnected
  /\ UNCHANGED <<backend, task, stream, opens, live, internal, opened, using, port, checked, win,
                 sndio>>

\* Haiku: the producer is not found, or does not connect to the new consumer.
in_open ==
  /\ backend = "haiku" /\ pc = "opening"
  /\ \/ Connect(stream) /\ UNCHANGED past
     \/ NotConnected
  /\ UNCHANGED <<backend, task, stream, opens, live, internal, opened, using, port, checked, win,
                 sndio>>

\* The disconnection is taken to return when no callback is running.
Disconnect == using = {} /\ source' = 0 /\ UNCHANGED past
StaysConnected ==
  Trouble /\ failed' = TRUE /\ UNCHANGED <<source, forced, foreign, stray, switched, stopped>>
StreamIsQuiet ==
  /\ pc' = "quiet"
  /\ UNCHANGED <<backend, task, stream, opens, live, info, internal, opened, using, port, checked,
                 win, sndio>>

\* Error -50, the source has gone, counts as success.
DisconnectSource ==
  /\ backend = "device" /\ pc = "closing"
  /\ Disconnect \/ StaysConnected
  /\ StreamIsQuiet

\* Haiku: also when Disconnect fails the consumer is released, which ends its thread (the same
\* outcome); a producer that is not found any more leaves the consumer as it is.
in_close ==
  /\ backend = "haiku" /\ pc = "closing"
  /\ Disconnect \/ StaysConnected
  /\ StreamIsQuiet

\* The close of a virtual input: the packet, unless MIDISend fails; the wait; and after
\* 100 naps of 0.5 ms the end of patience.
SendClose ==
  /\ backend = "virtual" /\ pc = "closing"
  /\ \/ port' = Append(port, "close") /\ UNCHANGED past
     \/ Trouble /\ UNCHANGED <<port, marks>>
  /\ pc' = "waiting"
  /\ UNCHANGED <<backend, task, stream, opens, live, info, internal, opened, using, checked,
                 source, win, sndio>>

NotAsked == TRUE                 \* mutant of Acknowledged
Acknowledged == ~opened

WaitForClose ==
  /\ pc = "waiting"
  /\ \/ Acknowledged /\ UNCHANGED past
     \/ opened /\ Trouble
        /\ forced' = TRUE /\ UNCHANGED <<failed, foreign, stray, switched, stopped>>
  /\ pc' = "quiet" /\ opened' = FALSE
  /\ UNCHANGED <<backend, task, stream, opens, live, info, internal, using, mac, win, sndio>>

\* Another program sends to the virtual input: data, or a packet of eight bytes 0xFF, which
\* cannot be told from the one that a close sends.
Arrive ==
  /\ backend = "virtual" /\ Len(port) < MaxPackets
  /\ \/ port' = Append(port, "data") /\ UNCHANGED past
     \/ port' = Append(port, "close") /\ Trouble
        /\ foreign' = TRUE /\ stray' = TRUE /\ UNCHANGED <<forced, failed, switched, stopped>>
  /\ UNCHANGED <<backend, app, opened, using, checked, source, win, sndio>>

\* The callback tests opened; after that it clears it, or takes the stream from the table.
virtual_read_callback ==
  /\ port # <<>> /\ checked = "none" /\ using = {}
  /\ port' = Tail(port)
  /\ checked' = IF opened THEN Head(port) ELSE "none"
  /\ UNCHANGED <<backend, app, opened, using, source, win, sndio, past>>

ClearOpened ==
  /\ IsCloseRequest(checked)
  /\ checked' = "none" /\ opened' = FALSE
  /\ UNCHANGED <<backend, app, using, port, source, win, sndio, past>>

TakeInternal ==
  /\ checked = "data"
  /\ checked' = "none" /\ using' = {internal}
  /\ UNCHANGED <<backend, app, opened, port, source, win, sndio, past>>

device_read_callback ==
  /\ Connected /\ source # 0 /\ using = {}
  /\ using' = {source}
  /\ UNCHANGED <<backend, app, opened, mac, win, sndio, past>>

CallbackDone ==
  /\ using # {} /\ held = "none"
  /\ using' = {}
  /\ UNCHANGED <<backend, app, opened, mac, win, sndio, past>>

CoreMidi == \/ midi_in_open \/ DisconnectSource \/ SendClose \/ WaitForClose \/ Arrive
            \/ virtual_read_callback \/ ClearOpened \/ TakeInternal \/ device_read_callback
Haiku == in_open \/ in_close

-----------------------------------------------------------------------------
(* WinMM. *)

OneMore == NumBuffers + 1        \* mutant of InputBuffers
InputBuffers == NumBuffers

\* midiInOpen fails; or a buffer cannot be allocated, and midiInClose, which does nothing
\* while buffers are queued, leaves those before it with the driver; or all is well.  A
\* midiInStart that fails is undone by a reset and leaves nothing.  A port that could not be
\* closed is still in use.
winmm_in_open ==
  /\ backend = "winmm" /\ pc = "opening"
  /\ \/ /\ source = 0 /\ Connect(stream)
        /\ buffers' = InputBuffers /\ lost' = 0
        /\ UNCHANGED past
     \/ /\ IF source = 0 THEN Trouble ELSE UNCHANGED troubles
        /\ pc' = "failed"
        /\ UNCHANGED <<info, source, buffers, lost, marks>>
  /\ UNCHANGED <<backend, task, stream, opens, live, internal, opened, using, port, checked, held,
                 sndio>>

\* MIM_DATA uses the stream only; MIM_LONGDATA has a buffer with it; MIM_LONGERROR is not
\* handled, and its buffer not given back.
winmm_in_callback ==
  /\ backend = "winmm" /\ source # 0 /\ using = {} /\ pc # "resetting"
  /\ \/ using' = {source} /\ UNCHANGED <<win, past>>
     \/ /\ buffers > 0 /\ buffers' = buffers - 1
        /\ held' = "filled" /\ using' = {source} /\ UNCHANGED <<lost, past>>
     \/ /\ buffers > 0 /\ buffers' = buffers - 1
        /\ Trouble /\ lost' = lost + 1
        /\ UNCHANGED <<held, using, marks>>
  /\ UNCHANGED <<backend, app, opened, mac, sndio>>

KeptAside == FALSE               \* mutant of GivenBack
GivenBack == held = "filled"

\* A filled buffer goes back to the driver, an empty one, returned by a reset, is freed.
LongDataDone ==
  /\ held # "none"
  /\ buffers' = IF GivenBack THEN buffers + 1 ELSE buffers
  /\ held' = "none" /\ using' = {}
  /\ UNCHANGED <<backend, app, opened, mac, lost, sndio, past>>

\* midiInStop and midiInReset, which returns every buffer through the callback; if one of
\* them fails the port is closed with buffers queued, and that fails too.  The callback is
\* taken to be over when midiInReset begins to return buffers and when midiInClose is called.
winmm_in_close ==
  /\ backend = "winmm" /\ pc = "closing"
  /\ \/ using = {} /\ pc' = "resetting" /\ UNCHANGED past
     \/ Trouble /\ pc' = "quiet" /\ failed' = TRUE
        /\ UNCHANGED <<forced, foreign, stray, switched, stopped>>
  /\ UNCHANGED <<backend, task, stream, opens, live, info, internal, opened, using, mac, win,
                 sndio>>

midiInReset ==
  /\ pc = "resetting" /\ using = {}
  /\ \/ /\ buffers > 0
        /\ buffers' = buffers - 1 /\ held' = "empty" /\ using' = {source}
        /\ UNCHANGED <<pc, source>>
     \/ /\ buffers = 0
        /\ pc' = "quiet" /\ source' = 0
        /\ UNCHANGED <<buffers, held, using>>
  /\ UNCHANGED <<backend, task, stream, opens, live, info, internal, opened, port, checked, lost,
                 sndio, past>>

WinMM == \/ winmm_in_open \/ winmm_in_callback \/ LongDataDone \/ winmm_in_close \/ midiInReset

-----------------------------------------------------------------------------
(* sndio.  set_mode closes the handle and opens it again for what is left; in between  *)
(* mode is 0.                                                                          *)

Call(function, m) ==
  /\ task' = function /\ target' = m
  /\ mode' = {} /\ pc' = "set_mode"

\* Nothing is closed and opened if the port is not open for what is to be closed.
sndio_in_open ==
  /\ backend = "sndio" /\ pc = "opening"
  /\ Call("in_open", mode \union {"in"})
  /\ UNCHANGED <<backend, stream, opens, live, info, internal, opened, using, mac, win, thread,
                 switches, past>>

sndio_in_close ==
  /\ backend = "sndio" /\ pc = "closing"
  /\ IF "in" \in mode THEN Call("in_close", mode \ {"in"})
                      ELSE pc' = "quiet" /\ UNCHANGED <<task, target, mode>>
  /\ UNCHANGED <<backend, stream, opens, live, info, internal, opened, using, mac, win, thread,
                 switches, past>>

\* sndio_out_open or sndio_out_close, between other calls of the application.
SwitchOutput ==
  /\ backend = "sndio" /\ pc \in {"closed", "open"} /\ switches < MaxSwitches
  /\ IF "out" \in mode THEN Call("out_close", mode \ {"out"})
                       ELSE Call("out_open", mode \union {"out"})
  /\ switches' = switches + 1 /\ switched' = TRUE
  /\ UNCHANGED <<backend, stream, opens, live, info, internal, opened, using, mac, win, thread,
                 troubles, forced, failed, foreign, stray, stopped>>

Returns == CASE task = "in_open"  -> "new_thread"
             [] task = "in_close" -> "joining"
             [] OTHER             -> IF opened THEN "open" ELSE "closed"

set_mode ==
  /\ pc = "set_mode"
  /\ \/ /\ mode' = target /\ pc' = Returns
        /\ UNCHANGED past
     \/ /\ target # {} /\ Trouble              \* mio_open fails
        /\ failed' = (failed \/ (opened /\ task # "in_close"))
        /\ pc' = IF task = "in_open" THEN "failed" ELSE Returns
        /\ UNCHANGED <<mode, forced, foreign, stray, switched, stopped>>
  /\ UNCHANGED <<backend, task, stream, opens, live, info, internal, opened, using, mac, win,
                 target, thread, switches>>

\* Its result is not looked at: the stream is open also without a thread.
pthread_create ==
  /\ pc = "new_thread"
  /\ pc' = "connected" /\ info' = info \union {stream}
  /\ \/ thread' = [thread EXCEPT ![stream] = "test"] /\ UNCHANGED past
     \/ /\ Trouble /\ stopped' = TRUE
        /\ UNCHANGED <<thread, forced, failed, foreign, stray, switched>>
  /\ UNCHANGED <<backend, task, stream, opens, live, internal, opened, using, mac, win, mode,
                 target, switches>>

\* Without a thread the call is undefined; it is taken to return.
Joined == thread[stream] \in {"none", "ended"}

pthread_join ==
  /\ pc = "joining" /\ Joined
  /\ pc' = "quiet"
  /\ UNCHANGED <<backend, task, stream, opens, live, info, internal, opened, using, mac, win,
                 sndio, past>>

\* The loop of the thread: test mode, poll and read, use the stream.  What a handle answers
\* that set_mode has closed meanwhile is undefined: data or none, as with an open one.
\* A poll that fails ends the loop, and mode still has "in".
input_thread(s) ==
  /\ \/ /\ thread[s] = "test"
        /\ thread' = [thread EXCEPT ![s] = IF "in" \in mode THEN "poll" ELSE "ended"]
        /\ UNCHANGED past
     \/ /\ thread[s] = "poll"
        /\ \E next \in {"test", "parse"} : thread' = [thread EXCEPT ![s] = next]
        /\ UNCHANGED past
     \/ /\ thread[s] = "poll" /\ Trouble
        /\ thread' = [thread EXCEPT ![s] = "ended"]
        /\ stopped' = TRUE /\ UNCHANGED <<forced, failed, foreign, stray, switched>>
     \/ /\ thread[s] = "parse"
        /\ thread' = [thread EXCEPT ![s] = "test"]
        /\ UNCHANGED past
  /\ UNCHANGED <<backend, app, opened, using, mac, win, mode, target, switches>>

Sndio == \/ sndio_in_open \/ sndio_in_close \/ SwitchOutput \/ set_mode
         \/ pthread_create \/ pthread_join \/ \E s \in Streams : input_thread(s)

-----------------------------------------------------------------------------
Init ==
  /\ backend \in Backends
  /\ pc = "closed" /\ task = "none" /\ stream = 0 /\ opens = 0
  /\ live = {} /\ info = {} /\ opened = FALSE /\ internal = 0 /\ using = {}
  /\ port = <<>> /\ checked = "none" /\ source = 0
  /\ buffers = 0 /\ held = "none" /\ lost = 0
  /\ mode = {} /\ target = {} /\ thread = [s \in Streams |-> "none"] /\ switches = 0
  /\ troubles = 0 /\ forced = FALSE /\ failed = FALSE /\ foreign = FALSE
  /\ stray = FALSE /\ switched = FALSE /\ stopped = FALSE

Next == Common \/ CoreMidi \/ Haiku \/ CallbackDone \/ WinMM \/ Sndio
Spec == Init /\ [][Next]_vars

-----------------------------------------------------------------------------
PhaseTypes ==
  /\ backend \in Backends
  /\ pc \in {"closed", "opening", "failed", "connected", "open", "closing", "waiting",
             "resetting", "set_mode", "new_thread", "joining", "quiet", "released", "cleared"}
  /\ task \in {"none", "in_open", "in_close", "out_open", "out_close"}
  /\ held \in {"none", "filled", "empty"}

StreamTypes ==
  /\ stream \in 0..MaxOpens /\ opens \in 0..MaxOpens /\ internal \in 0..MaxOpens
  /\ source \in 0..MaxOpens
  /\ live \subseteq Streams /\ info \subseteq live
  /\ using = {} \/ \E s \in 0..MaxOpens : using = {s}

DataTypes ==
  /\ port \in Seq({"data", "close"}) /\ checked \in {"none", "data", "close"}
  /\ buffers \in 0..NumBuffers /\ lost \in 0..NumBuffers
  /\ mode \subseteq {"in", "out"} /\ target \subseteq {"in", "out"}
  /\ thread \in [Streams -> {"none", "test", "poll", "parse", "ended"}]

TypeOK == PhaseTypes /\ StreamTypes /\ DataTypes

\* A callback or input thread never works on a stream that Pm_Close has freed, on its freed
\* api_info, or on no stream at all (pmmacosxcm.c:434, 463); unless a virtual input was closed by
\* force, or a system call failed that leaves the thread or the connection behind.
CallbackFindsStream ==
  ~forced /\ ~failed =>
     \A s \in using \union {t \in Streams : thread[t] = "parse"} : s \in live /\ s \in info

\* While the application has an input stream open the device points to it, and somebody
\* delivers: the connection; all the buffers but those of MIM_LONGERROR.  What else can be said
\* is less than Pm_OpenInput promises, for some things go wrong after it without any error:
\* - a virtual input stays marked as open until a stray close request reaches it, one of an earlier
\*   close that timed out or one of another program (there is no other way to get one);
\* - an sndio port stays open for input until it is opened or closed for output too, and its thread
\*   runs unless that happens, or it was not created or met an error in poll.
ServedWhileOpen ==
  pc = "open" =>
     /\ internal = stream /\ stream \in live
     /\ ~stray => opened
     /\ stray => forced \/ foreign
     /\ backend \in {"device", "haiku", "winmm"} => source = stream
     /\ backend = "winmm" => buffers + (IF held = "none" THEN 0 ELSE 1) + lost = NumBuffers
     /\ (backend = "sndio" /\ ~switched) => "in" \in mode
     /\ (backend = "sndio" /\ ~switched /\ ~stopped) => thread[stream] \notin {"none", "ended"}
=============================================================================
