------------------------------ MODULE PmDevices ------------------------------
(***************************************************************************)
(* The life of the library, its devices and its streams: the registry and  *)
(* the API of src/pm_common/portmidi.c with a backend below it, which      *)
(* scans the system for devices and holds on to                            *)
(*   "alsa"      one sequencer port for every virtual device and every     *)
(*               open hardware device, all numbered by the device id, and  *)
(*               one timing queue that streams share by a counter;         *)
(*   "coremidi"  an endpoint for every virtual device and a connection for *)
(*               every open hardware input;                                *)
(*   "haiku"     an endpoint for every virtual device and a connection for *)
(*               every open device;                                        *)
(*   "winmm"     a handle for every open device;                           *)
(*   "sndio"     a handle for every port, open for one direction or both.  *)
(*                                                                         *)
(* One step is one call of the API: the library is meant for one thread    *)
(* (what the callbacks do meanwhile is in PmInputThreads and PmWinOut).    *)
(* A call of the system fails or succeeds as it likes, where it can.  The  *)
(* application deletes virtual devices only and opens no deleted device,   *)
(* which the code does not look at.                                        *)
(* Device ids count from 1 here, 0 is pmNoDevice.  Memory is never short,  *)
(* and opening the sequencer or the Core MIDI client succeeds.             *)
(***************************************************************************)
EXTENDS Integers, Sequences, FiniteSets, SequencesExt, FiniteSetsExt

CONSTANTS Apis,          \* backends
          Names,         \* names of ports, and of the virtual devices the application makes
          Hardware,      \* what the system may look like: ports, [name, in, out]
          Chunk,         \* descriptors by which the array grows (32 in the code)
          Streams,       \* stream handles, 1..n in the order in which they are opened
          MaxInits,      \* bound: calls of Pm_Initialize
          MaxCreates,    \* bound: virtual devices created
          MaxFailures    \* bound: failing sequencer calls

pmNoDevice == 0
None == 0

ASSUME DevicesAssumption ==
  /\ Apis \subseteq {"alsa", "coremidi", "haiku", "winmm", "sndio"}
  /\ Hardware \subseteq Seq([name : Names, in : BOOLEAN, out : BOOLEAN])
  /\ Chunk \in Nat \ {0}
  /\ {Streams, MaxInits, MaxCreates, MaxFailures} \subseteq Nat

VARIABLES
  api,                \* the backend of this build
  initialized,
  descriptors,        \* pm_descriptors[1..pm_descriptor_len]
  pm_descriptor_max,
  default_id,         \* default_id[TRUE] for input, default_id[FALSE] for output
  streams,            \* the PmInternals, with their api_info
  sys,                \* what we hold: ports, links (devices that have a port or an
                      \* endpoint, a connection or a handle), client (of Core MIDI),
                      \* queue, queue_used, leaked (a queue of ALSA)
  result,             \* of the last call
  \* history
  inits, creates, failures,
  orphans             \* what has left endpoints behind that nothing can delete any more

count == <<inits, creates, failures>>
vars == <<api, initialized, descriptors, pm_descriptor_max, default_id, streams, sys, result,
          count, orphans>>

-----------------------------------------------------------------------------
(* The ALSA sequencer and its backend: sets of possible outcomes.          *)

Done(a)   == [sys |-> a, ok |-> TRUE]
Failed(a) == [sys |-> a, ok |-> FALSE]
MayFail(a) == {Done(a), Failed(a)}
Then(outcomes, Op(_)) == UNION {IF o.ok THEN Op(o.sys) ELSE {o} : o \in outcomes}
CleanUp(outcomes, Op(_)) == {IF o.ok THEN o ELSE Failed(Op(o.sys)) : o \in outcomes}

\* A port number can be taken once.
snd_seq_create_port(a, id) ==
  {Failed(a)} \union (IF id \in a.ports THEN {} ELSE {Done([a EXCEPT !.ports = @ \union {id}])})
snd_seq_delete_port(a, id) == [a EXCEPT !.ports = @ \ {id}]

\* The queue is allocated for the first user; when setting its tempo fails it is forgotten.
alsa_use_queue(a) ==
  IF a.queue_used > 0 THEN {Done([a EXCEPT !.queue_used = @ + 1])}
  ELSE {Failed(a), Failed([a EXCEPT !.leaked = TRUE]),
        Done([a EXCEPT !.queue = "live", !.queue_used = 1])}
KeepQueue(a) == [a EXCEPT !.queue_used = @ - 1]   \* mutant of alsa_unuse_queue
alsa_unuse_queue(a) ==
  [a EXCEPT !.queue_used = @ - 1, !.queue = IF a.queue_used = 1 THEN "none" ELSE @]

\* Every failure after the first deletes the port, that of a virtual device too.
alsa_out_open(a, id, virtual, latency) ==
  Then(IF virtual THEN {Done(a)} ELSE snd_seq_create_port(a, id),
       LAMBDA b : CleanUp(
         Then(MayFail(b),                                         \* snd_midi_event_new
              LAMBDA c : Then(IF latency THEN alsa_use_queue(c) ELSE {Done(c)},
                LAMBDA d : IF virtual THEN {Done(d)}
                           ELSE {Done(d), Failed(IF latency THEN alsa_unuse_queue(d) ELSE d)})),
         LAMBDA e : snd_seq_delete_port(e, id)))

\* Left out: when snd_seq_get_port_info fails (401-406) err is still 0, so that a virtual input
\* would be opened all the same, the queue in use and its api_info freed.  It fails for a port
\* that is not there only, and nothing but deleting the device takes the port of a virtual input.
alsa_in_open(a, id, virtual) ==
  Then(alsa_use_queue(a),
       LAMBDA b : IF virtual THEN {Done(b)}
                  ELSE CleanUp(
                    Then(snd_seq_create_port(b, id),
                         LAMBDA c : {Done(c), Failed(snd_seq_delete_port(c, id))}),
                    alsa_unuse_queue))

NeverDeleted(a, s) == a                         \* mutant of ClosePort
ClosePort(a, s) == IF s.is_virtual \/ s.port_closed THEN a ELSE snd_seq_delete_port(a, s.device_id)
alsa_in_close(a, s)  == alsa_unuse_queue(ClosePort(a, s))
alsa_out_close(a, s) == IF s.latency THEN alsa_unuse_queue(ClosePort(a, s)) ELSE ClosePort(a, s)

-----------------------------------------------------------------------------
(* The other backends.                                                     *)

Linked(a, id)   == [a EXCEPT !.links = @ \union {id}]
Unlinked(a, id) == [a EXCEPT !.links = @ \ {id}]
Link(a, id)     == {Done(Linked(a, id)), Failed(a)}
\* What could not be disconnected or closed is kept by the system.
Unlink(a, id)   == {Done(Unlinked(a, id)), Failed(a)}

\* Core MIDI connects a port of ours to a source; a virtual input gets its packets through
\* its endpoint, and outputs send to an endpoint without a connection.
NeedsConnection(device) == device.input /\ ~device.is_virtual
coremidi_open(a, id, device)  == IF NeedsConnection(device) THEN Link(a, id) ELSE {Done(a)}
coremidi_close(a, id, device) == IF NeedsConnection(device) THEN Unlink(a, id) ELSE {Done(a)}

\* The synthesizer of Haiku is an object of ours.
IsSynth(device) == device.name = "Soft Synth"
haiku_open(a, id, device)  == IF IsSynth(device) THEN {Done(Linked(a, id))} ELSE Link(a, id)
haiku_close(a, id, device) == IF IsSynth(device) THEN {Done(Unlinked(a, id))} ELSE Unlink(a, id)

\* A handle that could not be closed keeps the device in use.
winmm_open(a, id) == IF id \in a.links THEN {Failed(a)} ELSE Link(a, id)

\* The devices of a sndio port are its input, of odd id, and its output.  The handle is
\* closed and opened again for what is left, which can fail.
Partner(id) == IF id % 2 = 1 THEN id + 1 ELSE id - 1
NotReopened(a, id) == [a EXCEPT !.links = @ \ {id, Partner(id)}]
sndio_open(a, id) == {Done(Linked(a, id)), Failed(NotReopened(a, id))}
sndio_close(a, id) ==
  IF id \in a.links /\ Partner(id) \in a.links
    THEN {Done(Unlinked(a, id)), Failed(NotReopened(a, id))}
    ELSE {Done(Unlinked(a, id))}

open_function(id, device, latency) ==
  CASE api = "alsa" /\ device.input  -> alsa_in_open(sys, id, device.is_virtual)
    [] api = "alsa" /\ ~device.input -> alsa_out_open(sys, id, device.is_virtual, latency)
    [] api = "coremidi"              -> coremidi_open(sys, id, device)
    [] api = "haiku"                 -> haiku_open(sys, id, device)
    [] api = "winmm"                 -> winmm_open(sys, id)
    [] api = "sndio"                 -> sndio_open(sys, id)

close_function(id, device, stream) ==
  CASE api = "alsa" /\ stream.is_input  -> {Done(alsa_in_close(sys, stream))}
    [] api = "alsa" /\ ~stream.is_input -> {Done(alsa_out_close(sys, stream))}
    [] api = "coremidi"                 -> coremidi_close(sys, id, device)
    [] api = "haiku"                    -> haiku_close(sys, id, device)
    [] api = "winmm"                    -> Unlink(sys, id)
    [] api = "sndio"                    -> sndio_close(sys, id)

\* An endpoint for a virtual device.  Core MIDI needs its client for that.
alsa_create_virtual(id) == snd_seq_create_port(sys, id)
midi_create_virtual(id) ==
  {Failed(sys)} \union (IF sys.client THEN {Done([sys EXCEPT !.ports = @ \union {id}])} ELSE {})

create_endpoint(id) == IF api = "alsa" THEN alsa_create_virtual(id) ELSE midi_create_virtual(id)

\* ALSA fails when there is no such port, Core MIDI and Haiku when the system likes, after which
\* that endpoint is out of reach.  (Haiku frees its object all the same.)
alsa_delete_virtual(id) == {[sys |-> snd_seq_delete_port(sys, id), ok |-> id \in sys.ports]}
midi_delete_virtual(id) ==
  LET without == [sys EXCEPT !.ports = @ \ {id}] IN MayFail(without)

delete_endpoint(id) == IF api = "alsa" THEN alsa_delete_virtual(id) ELSE midi_delete_virtual(id)

-----------------------------------------------------------------------------
(* The registry.                                                           *)

Ids(devices) == 1..Len(devices)

\* pm_add_device of a virtual device searches for its name: the first device that it may
\* take over, a deleted one of the same direction, or that it conflicts with ends the
\* search.  A virtual input appears to others as an output and vice versa.
Reusable(device, is_input) == device.deleted /\ is_input = device.input
SameInput(device, is_input) == is_input = device.input          \* mutant of Conflict
Conflict(device, is_input) == is_input = (device.is_virtual = device.input)

Found(devices, name, is_input) ==
  {i \in Ids(devices) : /\ devices[i].name = name
                        /\ \/ Reusable(devices[i], is_input)
                           \/ Conflict(devices[i], is_input)}

NewDevice(name, is_input) ==
  [name |-> name, input |-> is_input, is_virtual |-> FALSE, deleted |-> FALSE,
   opened |-> FALSE, pm_internal |-> None]

\* The outcome: the id, pmNoDevice for pmNameConflict, and the devices.
AddVirtual(devices, name, is_input) ==
  LET found == Found(devices, name, is_input)
      id    == IF found = {} THEN Len(devices) + 1 ELSE Min(found)
  IN  IF found = {}
        THEN [id |-> id, devices |-> Append(devices, NewDevice(name, is_input))]
      ELSE IF Reusable(devices[id], is_input)
        THEN [id |-> id, devices |-> [devices EXCEPT ![id] = NewDevice(name, is_input)]]
      ELSE [id |-> pmNoDevice, devices |-> devices]

AlwaysLast(devices, id) == Front(devices)       \* mutant of pm_undo_add_device
pm_undo_add_device(devices, id) ==
  IF id = Len(devices) THEN Front(devices)
  ELSE [devices EXCEPT ![id].deleted = TRUE, ![id].pm_internal = None]

\* What the backends find, in the order in which they add it: ALSA port by port, Core MIDI
\* the sources and then the destinations, Haiku its synthesizer and then the endpoints,
\* WinMM the mapper (there is none for input), the inputs and the outputs, and sndio both
\* directions of a fixed list of ports, of which one is modelled.
In(port)  == IF port.in THEN <<NewDevice(port.name, TRUE)>> ELSE <<>>
Out(port) == IF port.out THEN <<NewDevice(port.name, FALSE)>> ELSE <<>>
Ins(found)  == FlattenSeq([i \in DOMAIN found |-> In(found[i])])
Outs(found) == FlattenSeq([i \in DOMAIN found |-> Out(found[i])])
EachPort(found) == FlattenSeq([i \in DOMAIN found |-> Out(found[i]) \o In(found[i])])
Mapper == NewDevice("Mapper", FALSE)
SoftSynth == NewDevice("Soft Synth", FALSE)

pm_linuxalsa_init(found) == EachPort(found)
pm_macosxcm_init(found)  == Ins(found) \o Outs(found)
haiku_init(found)        == <<SoftSynth>> \o EachPort(found)
pm_winmm_init(found)     == <<Mapper>> \o Ins(found) \o Outs(found)
sndio_init               == <<NewDevice("default", TRUE), NewDevice("default", FALSE)>>

pm_init(found) ==
  CASE api = "alsa"     -> pm_linuxalsa_init(found)
    [] api = "coremidi" -> pm_macosxcm_init(found)
    [] api = "haiku"    -> haiku_init(found)
    [] api = "winmm"    -> pm_winmm_init(found)
    [] api = "sndio"    -> sndio_init

\* The array grows by Chunk descriptors (and moves) when there is no room for n.
OneLate(n) == IF n > pm_descriptor_max + 1 THEN Chunk * ((n + Chunk - 1) \div Chunk)
                                           ELSE pm_descriptor_max    \* mutant of Capacity
Capacity(n) == IF n > pm_descriptor_max THEN Chunk * ((n + Chunk - 1) \div Chunk)
                                        ELSE pm_descriptor_max

\* The defaults are the first devices added while there is none.
FirstOf(devices, is_input) ==
  LET found == {i \in Ids(devices) : devices[i].input = is_input}
  IN  IF found = {} THEN pmNoDevice ELSE Min(found)
DefaultAfter(id, is_input) ==
  IF default_id[is_input] = pmNoDevice THEN [default_id EXCEPT ![is_input] = id] ELSE default_id

-----------------------------------------------------------------------------
(* The API.                                                                *)

\* A call of the backend, whose failures are bounded.
Backend(o) == /\ sys' = o.sys
              /\ ~o.ok => failures < MaxFailures
              /\ failures' = IF o.ok THEN failures ELSE failures + 1

Pm_Initialize ==
  /\ ~initialized /\ inits < MaxInits
  /\ initialized' = TRUE
  /\ inits' = inits + 1
  /\ \E found \in Hardware :
       LET devices == pm_init(found) IN
       /\ descriptors' = devices
       /\ pm_descriptor_max' = Capacity(Len(devices))
       /\ default_id' = [d \in BOOLEAN |-> IF default_id[d] = pmNoDevice \/ api = "sndio"
                                             THEN FirstOf(devices, d) ELSE default_id[d]]
       /\ sys' = [sys EXCEPT !.client = @ \/ (api = "coremidi" /\ found # <<>>)]
  /\ result' = "pmNoError"
  /\ UNCHANGED <<api, streams, creates, failures, orphans>>

IsOpen(s) == streams[s].status = "open"

\* Closing the sequencer takes its ports and queues along; queue_used keeps its value.
pm_linuxalsa_term(a) ==
  [a EXCEPT !.ports = {}, !.leaked = FALSE, !.queue = IF @ = "none" THEN "none" ELSE "stale"]
\* Disposing of the two ports of Core MIDI ends the connections; the endpoints of virtual
\* devices stay with the client, out of reach.
pm_macosxcm_term(a) == [a EXCEPT !.ports = {}, !.links = {}]
\* Haiku closes what is open and deletes the virtual devices; WinMM and sndio close too.
haiku_term(a) == [a EXCEPT !.ports = {}, !.links = {}]
CloseAll(a)   == [a EXCEPT !.links = {}]

pm_term == CASE api = "alsa"     -> pm_linuxalsa_term(sys)
             [] api = "coremidi" -> pm_macosxcm_term(sys)
             [] api = "haiku"    -> haiku_term(sys)
             [] OTHER            -> CloseAll(sys)

\* The streams that are open are abandoned (and leaked); the default ids stay.
Pm_Terminate ==
  /\ initialized
  /\ initialized' = FALSE
  /\ descriptors' = <<>> /\ pm_descriptor_max' = 0
  /\ streams' = [s \in DOMAIN streams |->
                   IF IsOpen(s) THEN [streams[s] EXCEPT !.status = "abandoned"] ELSE streams[s]]
  /\ sys' = pm_term
  /\ orphans' = IF api = "coremidi" /\ sys.ports # {} THEN orphans \union {"Pm_Terminate"}
                                                      ELSE orphans
  /\ result' = "pmNoError"
  /\ UNCHANGED <<api, default_id, count>>

\* Pm_CreateVirtualInput and Pm_CreateVirtualOutput.  (That the call initializes the library
\* when that is still to be done is Pm_Initialize followed by this.)
Create == initialized /\ creates < MaxCreates /\ creates' = creates + 1

Refuse(error) == /\ result' = error
                 /\ UNCHANGED <<descriptors, pm_descriptor_max, default_id, sys, failures>>

Add(id) == pm_descriptor_max' = Capacity(id)

\* ALSA and Core MIDI add the device and take it back when it gets no endpoint.
CreateVirtual ==
  /\ Create /\ api \in {"alsa", "coremidi"}
  /\ \E name \in Names, is_input \in BOOLEAN :
     LET added == AddVirtual(descriptors, name, is_input)
         id    == added.id
     IN  IF id = pmNoDevice THEN Refuse("pmNameConflict")
         ELSE /\ Add(id)
              /\ default_id' = DefaultAfter(id, is_input)
              /\ \E o \in create_endpoint(id) :
                   /\ Backend(o)
                   /\ result' = IF o.ok THEN "pmNoError" ELSE "pmHostError"
                   /\ descriptors' = IF o.ok THEN [added.devices EXCEPT ![id].is_virtual = TRUE]
                                     ELSE pm_undo_add_device(added.devices, id)
  /\ UNCHANGED <<api, initialized, streams, inits, orphans>>

\* Haiku registers the endpoint and then adds the device: a name conflict leaves the endpoint.
create_virtual ==
  /\ Create /\ api = "haiku"
  /\ \/ /\ failures < MaxFailures /\ failures' = failures + 1
        /\ result' = "pmHostError"
        /\ UNCHANGED <<descriptors, pm_descriptor_max, default_id, sys, orphans>>
     \/ \E name \in Names, is_input \in BOOLEAN :
        LET added == AddVirtual(descriptors, name, is_input)
            id    == added.id
        IN  IF id = pmNoDevice
              THEN Refuse("pmNameConflict") /\ orphans' = orphans \union {"pmNameConflict"}
            ELSE /\ Add(id)
                 /\ default_id' = DefaultAfter(id, is_input)
                 /\ sys' = [sys EXCEPT !.ports = @ \union {id}] /\ UNCHANGED failures
                 /\ descriptors' = [added.devices EXCEPT ![id].is_virtual = TRUE]
                 /\ result' = "pmNoError" /\ UNCHANGED orphans
  /\ UNCHANGED <<api, initialized, streams, inits>>

\* WinMM and sndio have registered no interface.
NoInterface ==
  /\ Create /\ api \in {"winmm", "sndio"}
  /\ Refuse("pmNotImplemented")
  /\ UNCHANGED <<api, initialized, streams, inits, orphans>>

Pm_DeleteVirtualDevice ==
  /\ \E id \in Ids(descriptors) :
     /\ descriptors[id].is_virtual
     /\ IF descriptors[id].opened \/ descriptors[id].deleted
         THEN result' = "pmInvalidDeviceId" /\ UNCHANGED <<descriptors, sys, failures, orphans>>
         ELSE /\ \E o \in delete_endpoint(id) :
                   /\ Backend(o)
                   /\ orphans' = IF api = "coremidi" /\ ~o.ok THEN orphans \union {"delete"}
                                                              ELSE orphans
                   /\ result' = IF o.ok THEN "pmNoError" ELSE "pmHostError"
              /\ descriptors' = [descriptors EXCEPT ![id].deleted = TRUE, ![id].pm_internal = None]
  /\ UNCHANGED <<api, initialized, pm_descriptor_max, default_id, streams, inits, creates>>

NewStream(id, latency) ==
  [device_id |-> id, is_input |-> descriptors[id].input, is_virtual |-> descriptors[id].is_virtual,
   latency |-> latency, port_closed |-> FALSE, status |-> "open"]

\* An open device is refused.
EvenIfOpen(id) == ~descriptors[id].deleted      \* mutant of CanOpen
CanOpen(id) == ~descriptors[id].opened

Opened(id, stream) ==
  /\ streams' = Append(streams, stream)
  /\ descriptors' = [descriptors EXCEPT ![id].opened = TRUE, ![id].pm_internal = Len(streams) + 1]
  /\ result' = "pmNoError"
Refused(error) == result' = error /\ UNCHANGED <<streams, descriptors>>

Open(is_input, latency) ==
  /\ Len(streams) < Streams
  /\ \E id \in Ids(descriptors) :
     /\ ~descriptors[id].deleted
     /\ LET device == descriptors[id] IN
        IF device.input # is_input \/ ~CanOpen(id)
          THEN Refused("pmInvalidDeviceId") /\ UNCHANGED <<sys, failures>>
          ELSE \E o \in open_function(id, device, latency) :
                 /\ Backend(o)
                 /\ IF o.ok
                      THEN Opened(id, NewStream(id, latency))
                      ELSE Refused("pmHostError")
  /\ UNCHANGED <<api, initialized, pm_descriptor_max, default_id, inits, creates, orphans>>

Pm_OpenInput  == Open(TRUE, FALSE)
Pm_OpenOutput == \E latency \in BOOLEAN : (latency => api = "alsa") /\ Open(FALSE, latency)

\* Whatever the backend answers, the device is closed.
Pm_Close ==
  /\ \E s \in DOMAIN streams :
     LET stream == streams[s]
         id     == stream.device_id
     IN  /\ IsOpen(s)
         /\ IF id \notin Ids(descriptors) \/ ~descriptors[id].opened
              THEN result' = "pmBadPtr" /\ UNCHANGED <<streams, descriptors, sys, failures>>
              ELSE \E o \in close_function(id, descriptors[id], stream) :
                   /\ Backend(o)
                   /\ descriptors' = [descriptors EXCEPT ![id].opened = FALSE,
                                                         ![id].pm_internal = None]
                   /\ LET ok == o.ok \/ api = "sndio" IN
                      /\ streams' = [streams EXCEPT ![s].status = IF ok THEN "closed" ELSE "stuck"]
                      /\ result' = IF ok THEN "pmNoError" ELSE "pmHostError"
  /\ UNCHANGED <<api, initialized, pm_descriptor_max, default_id, inits, creates, orphans>>

\* alsa_poll finds SND_SEQ_EVENT_PORT_UNSUBSCRIBED: the device of an input stream is gone.
PortUnsubscribed ==
  /\ api = "alsa"
  /\ \E s \in DOMAIN streams :
       /\ IsOpen(s) /\ streams[s].is_input /\ ~streams[s].port_closed
       /\ streams' = [streams EXCEPT ![s].port_closed = TRUE]
  /\ failures < MaxFailures
  /\ failures' = failures + 1
  /\ UNCHANGED <<api, initialized, descriptors, pm_descriptor_max, default_id, sys, result, inits,
                 creates, orphans>>

Init ==
  /\ api \in Apis
  /\ initialized = FALSE
  /\ descriptors = <<>> /\ pm_descriptor_max = 0
  /\ default_id = [d \in BOOLEAN |-> pmNoDevice]
  /\ streams = <<>>
  /\ sys = [ports |-> {}, links |-> {}, client |-> FALSE, leaked |-> FALSE,
            queue |-> "none", queue_used |-> 0]
  /\ result = "pmNoError"
  /\ inits = 0 /\ creates = 0 /\ failures = 0 /\ orphans = {}

Next == \/ Pm_Initialize \/ Pm_Terminate
        \/ CreateVirtual \/ create_virtual \/ NoInterface \/ Pm_DeleteVirtualDevice
        \/ Pm_OpenInput \/ Pm_OpenOutput \/ Pm_Close
        \/ PortUnsubscribed

Spec == Init /\ [][Next]_vars

-----------------------------------------------------------------------------
DeviceNames == Names \union {"Mapper", "Soft Synth", "default"}
Device == [name : DeviceNames, input : BOOLEAN, is_virtual : BOOLEAN, deleted : BOOLEAN,
           opened : BOOLEAN, pm_internal : Nat]

TypeOK ==
  /\ initialized \in BOOLEAN
  /\ \A i \in Ids(descriptors) : descriptors[i] \in Device
  /\ Len(descriptors) <= pm_descriptor_max
  /\ default_id \in [BOOLEAN -> Nat]
  /\ sys.queue_used \in Nat /\ sys.queue \in {"none", "live", "stale"}
  /\ ~initialized => descriptors = <<>>

\* Whatever is opened, closed, deleted and created again, by calls that succeed or fail:
\* a device is open exactly when one open stream is its, of its direction, and the
\* device points to that stream.
OneStreamPerOpenDevice ==
  /\ \A s \in DOMAIN streams : IsOpen(s) =>
       /\ streams[s].device_id \in Ids(descriptors)
       /\ LET device == descriptors[streams[s].device_id] IN
          device.opened /\ device.pm_internal = s /\ device.input = streams[s].is_input
  /\ \A i \in Ids(descriptors) : descriptors[i].opened =>
       descriptors[i].pm_internal \in DOMAIN streams /\ IsOpen(descriptors[i].pm_internal)

\* While the library runs, an id that has been given out keeps meaning the same device, by
\* name and direction, and no device leaves the array but a deleted one (portmidi.h:600-603).
IdsAreStable ==
  [][initialized /\ initialized' =>
       \A i \in Ids(descriptors) :
          IF i \in Ids(descriptors')
            THEN /\ descriptors'[i].name = descriptors[i].name
                 /\ descriptors'[i].input = descriptors[i].input
            ELSE descriptors[i].deleted]_vars

\* Two devices of one name that others see in the same direction do not exist side by side
\* when one of them is virtual (portmidi.c:234-242).
SeenAsOutput(device) == device.is_virtual = device.input
NamesAreUnique ==
  \A i, j \in Ids(descriptors) :
     (/\ i # j /\ ~descriptors[i].deleted /\ ~descriptors[j].deleted
      /\ descriptors[i].is_virtual
      /\ descriptors[i].name = descriptors[j].name) =>
        SeenAsOutput(descriptors[i]) # SeenAsOutput(descriptors[j])

Users == {s \in DOMAIN streams : IsOpen(s) /\ (streams[s].is_input \/ streams[s].latency)}
NoneAbandoned == \A s \in DOMAIN streams : streams[s].status # "abandoned"

\* The queue is there as long as a stream needs it and is freed with the last, through all
\* paths that fail half-way; provided that no stream is open when the library terminates.
QueueIsCounted ==
  (api = "alsa" /\ initialized /\ NoneAbandoned) =>
     /\ sys.queue_used = Cardinality(Users)
     /\ sys.queue = IF Users = {} THEN "none" ELSE "live"

\* Nothing is left behind on any path that fails: a port or an endpoint of ours belongs to a
\* virtual device or to a stream, a connection or a handle to a stream; unless the subscription
\* was lost, or it could not be closed, and but for the endpoints in orphans.  As long as no call
\* has failed whoever needs one has one.
Lost == {streams[s].device_id : s \in {t \in DOMAIN streams :
                                         streams[t].port_closed \/ streams[t].status = "stuck"}}
NeedsPort(device) == ~device.deleted /\ (device.is_virtual \/ (api = "alsa" /\ device.opened))
NeedsLink(device) == /\ device.opened /\ api # "alsa"
                     /\ api = "coremidi" => NeedsConnection(device)
Entitled(Needs(_)) == {i \in Ids(descriptors) : Needs(descriptors[i])}
PortsAreNotLeaked ==
  /\ sys.ports \subseteq Entitled(NeedsPort) \union Lost
  /\ sys.links \subseteq Entitled(NeedsLink) \union Lost
  /\ failures = 0 => /\ Entitled(NeedsPort) \subseteq sys.ports
                     /\ Entitled(NeedsLink) \subseteq sys.links
=============================================================================
