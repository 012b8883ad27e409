-------------------------- MODULE PmDevicesProofs --------------------------
(***************************************************************************)
(* The registry, the streams and what is held of the system, for every     *)
(* set of backends, names and hardware and every number of streams, calls  *)
(* and failures.                                                           *)
(***************************************************************************)
EXTENDS PmDevices, SequenceTheorems, FiniteSetTheorems, WellFoundedInduction, TLAPS

\* The shape of a stream and of what is held.
Stream == [device_id : Nat, is_input : BOOLEAN, is_virtual : BOOLEAN, latency : BOOLEAN,
           port_closed : BOOLEAN, status : {"open", "closed", "stuck", "abandoned"}]
Sys == [ports : SUBSET Nat, links : SUBSET Nat, client : BOOLEAN, leaked : BOOLEAN,
        queue : {"none", "live", "stale"}, queue_used : Nat]
Types ==
  /\ api \in {"alsa", "coremidi", "haiku", "winmm", "sndio"} /\ initialized \in BOOLEAN
  /\ descriptors \in Seq(Device) /\ pm_descriptor_max \in Nat
  /\ Len(descriptors) <= pm_descriptor_max
  /\ default_id \in [BOOLEAN -> Nat]
  /\ streams \in Seq(Stream) /\ sys \in Sys /\ failures \in Nat
  /\ ~initialized => descriptors = << >>

\* The registry and the streams.
StreamHasDevice(s) ==
  IsOpen(s) =>
    LET device == descriptors[streams[s].device_id] IN
    /\ streams[s].device_id \in Ids(descriptors)
    /\ device.opened /\ device.pm_internal = s
    /\ device.input = streams[s].is_input /\ device.is_virtual = streams[s].is_virtual
DeviceHasStream(i) ==
  descriptors[i].opened =>
    /\ descriptors[i].pm_internal \in DOMAIN streams /\ IsOpen(descriptors[i].pm_internal)
    /\ streams[descriptors[i].pm_internal].device_id = i
    /\ ~descriptors[i].deleted
Pairs ==
  /\ \A s \in DOMAIN streams : StreamHasDevice(s)
  /\ \A i \in Ids(descriptors) : DeviceHasStream(i)

\* A deleted device keeps its name for the next of that direction, also one that has been
\* taken back before it was virtual.
Claimed(device) == device.is_virtual \/ device.deleted
Side(device) == IF Claimed(device) THEN device.input ELSE ~device.input
Claims ==
  \A i, j \in Ids(descriptors) :
     i # j /\ Claimed(descriptors[i]) /\ descriptors[i].name = descriptors[j].name =>
        Side(descriptors[i]) # Side(descriptors[j])

\* Streams that have been abandoned keep their use of the queue.
Queue ==
  api = "alsa" =>
     /\ sys.queue_used >= Cardinality(Users)
     /\ NoneAbandoned => /\ sys.queue_used = Cardinality(Users)
                         /\ sys.queue = IF Users = {} THEN "none" ELSE "live"

\* PortsAreNotLeaked, and what a backend never takes.
PortUsers == {i \in Ids(descriptors) : NeedsPort(descriptors[i])}
LinkUsers == {i \in Ids(descriptors) : NeedsLink(descriptors[i])}
Held ==
  /\ sys.ports \subseteq PortUsers \union Lost
  /\ sys.links \subseteq LinkUsers \union Lost
  /\ failures = 0 => PortUsers \subseteq sys.ports /\ LinkUsers \subseteq sys.links
  /\ api = "alsa" => sys.links = {}
  /\ api \in {"winmm", "sndio"} => sys.ports = {}

IInv == Types /\ Pairs /\ Claims /\ Queue /\ Held

-----------------------------------------------------------------------------
(* Induction over the natural numbers, stated for a set instead of a       *)
(* predicate: the library has it that < is well-founded.                   *)

LessThan == {pair \in Nat \X Nat : pair[1] < pair[2]}

\* No chain descends forever.
LEMMA LessThanIsWellFounded == IsWellFoundedOn(LessThan, Nat)
<1>1. LessThan = OpToRel(<, Nat)
  BY DEF LessThan, OpToRel
<1> QED
  BY <1>1, NatLessThanWellFounded

\* A set of natural numbers has a least element, so that Min means something.
LEMMA LeastElement ==
  ASSUME NEW T \in SUBSET Nat, T # {}
  PROVE  Min(T) \in T /\ \A k \in T : Min(T) <= k
<1>1. PICK x \in T : \A y \in T : ~(<<y, x>> \in LessThan)
  BY LessThanIsWellFounded, WFMin
<1>2. ASSUME NEW k \in T PROVE x <= k
  <2>1. k \in Nat /\ x \in Nat /\ ~(k < x)
    BY <1>1 DEF LessThan
  <2> QED
    BY <2>1
<1> QED
  BY <1>2 DEF Min

\* Induction.
LEMMA InductionOnNat ==
  ASSUME NEW T \in SUBSET Nat, 0 \in T, \A n \in T : n + 1 \in T
  PROVE  \A n \in Nat : n \in T
<1> DEFINE Rest == Nat \ T
<1>1. ASSUME Rest # {} PROVE FALSE
  <2>1. PICK m \in Rest : \A k \in Rest : m <= k
    BY <1>1, LeastElement
  <2>2. m \in Nat /\ m # 0
    OBVIOUS
  <2>3. m - 1 \in Nat /\ (m - 1) + 1 = m
    BY <2>2
  <2>4. m - 1 \in T
    BY <2>1, <2>3
  <2> QED
    BY <2>3, <2>4
<1> QED
  BY <1>1

-----------------------------------------------------------------------------
(* Sequences.                                                              *)

\* A function on 1..n is a sequence of its values.
LEMMA SeqOfFunction ==
  ASSUME NEW S, NEW n \in Nat, NEW f \in [1..n -> S]
  PROVE  f \in Seq(S) /\ Len(f) = n
<1>1. f \in Seq(S)
  BY SeqDef
<1>2. DOMAIN f = 1..n /\ DOMAIN f = 1..Len(f) /\ Len(f) \in Nat
  BY <1>1, LenProperties
<1> QED
  BY <1>1, <1>2

\* One sequence of several; it exists because it can be built from the front.
LEMMA FlattenSeqType ==
  ASSUME NEW S, NEW seqs \in Seq(Seq(S))
  PROVE  FlattenSeq(seqs) \in Seq(S)
<1> DEFINE L == Len(seqs)
           Parts(f, n) == \A i \in 1..n : f[i] = IF i = 1 THEN seqs[i] ELSE f[i-1] \o seqs[i]
<1>1. L \in Nat /\ \A i \in 1..L : seqs[i] \in Seq(S)
  BY LenProperties, ElementOfSeq
<1>2. \E f \in [1..L -> Seq(S)] : Parts(f, L)
  <2> DEFINE T == {n \in Nat : n <= L => \E f \in [1..n -> Seq(S)] : Parts(f, n)}
  <2>1. 0 \in T
    <3>1. [i \in 1..0 |-> seqs] \in [1..0 -> Seq(S)] /\ Parts([i \in 1..0 |-> seqs], 0)
      OBVIOUS
    <3> QED
      BY <3>1
  <2>2. ASSUME NEW n \in T, n + 1 <= L PROVE \E f \in [1..n+1 -> Seq(S)] : Parts(f, n + 1)
    <3>1. n \in Nat /\ n <= L /\ n + 1 \in 1..L
      BY <1>1, <2>2
    <3>2. PICK f \in [1..n -> Seq(S)] : Parts(f, n)
      BY <3>1
    <3> DEFINE last == IF n = 0 THEN seqs[1] ELSE f[n] \o seqs[n + 1]
               g == [i \in 1..n+1 |-> IF i = n + 1 THEN last ELSE f[i]]
    <3>3. last \in Seq(S)
      <4>1. CASE n = 0
        BY <1>1, <3>1, <4>1
      <4>2. CASE n # 0
        <5>1. f[n] \in Seq(S) /\ seqs[n + 1] \in Seq(S)
          BY <1>1, <3>1, <4>2
        <5> QED
          BY <4>2, <5>1, ConcatProperties
      <4> QED
        BY <4>1, <4>2
    <3> HIDE DEF last
    <3>4. g \in [1..n+1 -> Seq(S)]
      BY <3>1, <3>3
    <3>5. ASSUME NEW i \in 1..n+1
          PROVE  g[i] = IF i = 1 THEN seqs[i] ELSE g[i-1] \o seqs[i]
      <4>1. CASE i = n + 1
        <5>1. CASE n = 0
          BY <4>1, <5>1 DEF last
        <5>2. CASE n # 0
          <6>1. g[i - 1] = f[n] /\ i # 1 /\ i = n + 1 /\ g[i] = last
            BY <3>1, <4>1, <5>2
          <6> QED
            BY <5>2, <6>1 DEF last
        <5> QED
          BY <5>1, <5>2
      <4>2. CASE i # n + 1
        <5>1. i \in 1..n /\ g[i] = f[i] /\ (i # 1 => g[i - 1] = f[i - 1])
          BY <3>1, <4>2
        <5> QED
          BY <3>2, <5>1
      <4> QED
        BY <4>1, <4>2
    <3> QED
      BY <3>4, <3>5
  <2> HIDE DEF Parts
  <2>3. ASSUME NEW n \in T PROVE n + 1 \in T
    <3>1. n + 1 \in Nat
      OBVIOUS
    <3>2. n + 1 <= L => \E f \in [1..n+1 -> Seq(S)] : Parts(f, n + 1)
      BY <2>2
    <3> QED
      BY <3>1, <3>2
  <2>4. L \in T
    BY <1>1, <2>1, <2>3, InductionOnNat
  <2> QED
    BY <1>1, <2>4
<1> DEFINE flatten == CHOOSE f : f = [i \in 1..L |-> IF i = 1 THEN seqs[i] ELSE f[i-1] \o seqs[i]]
<1>3. flatten = [i \in 1..L |-> IF i = 1 THEN seqs[i] ELSE flatten[i-1] \o seqs[i]]
  <2>1. PICK f \in [1..L -> Seq(S)] : Parts(f, L)
    BY <1>2
  <2>2. f = [i \in 1..L |-> IF i = 1 THEN seqs[i] ELSE f[i-1] \o seqs[i]]
    BY <2>1
  <2> QED
    BY <2>2
<1>4. FlattenSeq(seqs) = IF L = 0 THEN seqs ELSE flatten[L]
  BY DEF FlattenSeq
<1> HIDE DEF flatten
<1>5. ASSUME L # 0 PROVE flatten[L] \in Seq(S)
  <2> DEFINE T == {n \in Nat : n \in 1..L => flatten[n] \in Seq(S)}
  <2>1. 0 \in T
    OBVIOUS
  <2>2. ASSUME NEW n \in T PROVE n + 1 \in T
    <3>1. CASE n + 1 \in 1..L
      <4>1. flatten[n + 1] = IF n + 1 = 1 THEN seqs[n + 1] ELSE flatten[n] \o seqs[n + 1]
        <5>1. (n + 1) - 1 = n
          OBVIOUS
        <5> QED
          BY <1>3, <3>1, <5>1
      <4>2. seqs[n + 1] \in Seq(S) /\ (n + 1 # 1 => flatten[n] \in Seq(S))
        BY <1>1, <3>1
      <4>3. n + 1 # 1 => flatten[n] \o seqs[n + 1] \in Seq(S)
        BY <4>2, ConcatProperties
      <4>4. flatten[n + 1] \in Seq(S)
        <5>1. CASE n + 1 = 1
          BY <4>1, <4>2, <5>1
        <5>2. CASE n + 1 # 1
          BY <4>1, <4>3, <5>2
        <5> QED
          BY <5>1, <5>2
      <4> QED
        BY <4>4
    <3> QED
      BY <3>1
  <2>3. L \in T
    BY <1>1, <2>1, <2>2, InductionOnNat
  <2> QED
    BY <1>1, <1>5, <2>3
<1>6. L = 0 => seqs = << >>
  BY EmptySeq
<1> QED
  BY <1>4, <1>5, <1>6, EmptySeq

-----------------------------------------------------------------------------
(* Devices of the system.                                                  *)

\* A device that nobody has opened, that is not virtual and not deleted.
Fresh == {device \in Device : ~device.opened /\ ~device.is_virtual /\ ~device.deleted}

\* NewDevice makes one.
LEMMA NewIsFresh ==
  ASSUME NEW name \in DeviceNames, NEW is_input \in BOOLEAN
  PROVE  /\ NewDevice(name, is_input) \in Fresh
         /\ NewDevice(name, is_input) \in Device
         /\ NewDevice(name, is_input).name = name /\ NewDevice(name, is_input).input = is_input
         /\ NewDevice(name, is_input).opened = FALSE
         /\ NewDevice(name, is_input).is_virtual = FALSE
         /\ NewDevice(name, is_input).deleted = FALSE
<1>1. NewDevice(name, is_input) \in Device
  BY DEF NewDevice, Device, None
<1>2. /\ NewDevice(name, is_input).name = name /\ NewDevice(name, is_input).input = is_input
      /\ NewDevice(name, is_input).opened = FALSE
      /\ NewDevice(name, is_input).is_virtual = FALSE
      /\ NewDevice(name, is_input).deleted = FALSE
  BY DEF NewDevice
<1> QED
  BY <1>1, <1>2 DEF Fresh

\* The devices that a backend finds are fresh.
LEMMA InitDevices ==
  ASSUME NEW found \in Hardware, Types
  PROVE  pm_init(found) \in Seq(Fresh)
<1> DEFINE Port == [name : Names, in : BOOLEAN, out : BOOLEAN]
<1>1. found \in Seq(Port) /\ Len(found) \in Nat /\ DOMAIN found = 1..Len(found)
  BY DevicesAssumption, LenProperties
<1>2. \A port \in Port : In(port) \in Seq(Fresh) /\ Out(port) \in Seq(Fresh)
  <2> SUFFICES ASSUME NEW port \in Port PROVE In(port) \in Seq(Fresh) /\ Out(port) \in Seq(Fresh)
    OBVIOUS
  <2>1. port.name \in DeviceNames
    BY DEF DeviceNames
  <2>2. NewDevice(port.name, TRUE) \in Fresh /\ NewDevice(port.name, FALSE) \in Fresh
    BY <2>1, NewIsFresh
  <2>3. \A device \in Fresh : <<device>> \in Seq(Fresh)
    OBVIOUS
  <2>4. /\ <<NewDevice(port.name, TRUE)>> \in Seq(Fresh)
        /\ <<NewDevice(port.name, FALSE)>> \in Seq(Fresh)
    BY <2>2, <2>3
  <2>5. << >> \in Seq(Fresh)
    BY EmptySeq
  <2>6. In(port) \in Seq(Fresh)
    BY <2>4, <2>5 DEF In
  <2>7. Out(port) \in Seq(Fresh)
    BY <2>4, <2>5 DEF Out
  <2> QED
    BY <2>6, <2>7
<1>3. \A i \in 1..Len(found) : found[i] \in Port
  BY <1>1, ElementOfSeq
<1> HIDE DEF Port
<1>4. Ins(found) \in Seq(Fresh)
  <2> DEFINE parts == [i \in 1..Len(found) |-> In(found[i])]
  <2>1. parts \in [1..Len(found) -> Seq(Fresh)]
    BY <1>2, <1>3
  <2>2. parts \in Seq(Seq(Fresh))
    BY <1>1, <2>1, SeqOfFunction
  <2>3. Ins(found) = FlattenSeq(parts)
    BY <1>1 DEF Ins
  <2> QED
    BY <2>2, <2>3, FlattenSeqType
<1>5. Outs(found) \in Seq(Fresh)
  <2> DEFINE parts == [i \in 1..Len(found) |-> Out(found[i])]
  <2>1. parts \in [1..Len(found) -> Seq(Fresh)]
    BY <1>2, <1>3
  <2>2. parts \in Seq(Seq(Fresh))
    BY <1>1, <2>1, SeqOfFunction
  <2>3. Outs(found) = FlattenSeq(parts)
    BY <1>1 DEF Outs
  <2> QED
    BY <2>2, <2>3, FlattenSeqType
<1>6. EachPort(found) \in Seq(Fresh)
  <2> DEFINE parts == [i \in 1..Len(found) |-> Out(found[i]) \o In(found[i])]
  <2>1. \A i \in 1..Len(found) : Out(found[i]) \o In(found[i]) \in Seq(Fresh)
    BY <1>2, <1>3, ConcatProperties
  <2>2. parts \in [1..Len(found) -> Seq(Fresh)]
    BY <2>1
  <2>3. parts \in Seq(Seq(Fresh))
    BY <1>1, <2>2, SeqOfFunction
  <2>4. EachPort(found) = FlattenSeq(parts)
    BY <1>1 DEF EachPort
  <2> QED
    BY <2>3, <2>4, FlattenSeqType
<1>7. /\ <<SoftSynth>> \in Seq(Fresh) /\ <<Mapper>> \in Seq(Fresh)
      /\ sndio_init \in Seq(Fresh)
  <2>1. /\ SoftSynth \in Fresh /\ Mapper \in Fresh
        /\ NewDevice("default", TRUE) \in Fresh /\ NewDevice("default", FALSE) \in Fresh
    <3>1. "Soft Synth" \in DeviceNames /\ "Mapper" \in DeviceNames /\ "default" \in DeviceNames
      BY DEF DeviceNames
    <3>2. \A name \in DeviceNames :
             NewDevice(name, TRUE) \in Fresh /\ NewDevice(name, FALSE) \in Fresh
      BY NewIsFresh
    <3> QED
      BY <3>1, <3>2 DEF SoftSynth, Mapper
  <2>2. \A device, other \in Fresh : <<device>> \in Seq(Fresh) /\ <<device, other>> \in Seq(Fresh)
    OBVIOUS
  <2> QED
    BY <2>1, <2>2 DEF sndio_init
<1>8. CASE api = "alsa"
  BY <1>6, <1>8 DEF pm_init, pm_linuxalsa_init
<1>9. CASE api = "coremidi"
  BY <1>4, <1>5, <1>9, ConcatProperties DEF pm_init, pm_macosxcm_init
<1>10. CASE api = "haiku"
  BY <1>6, <1>7, <1>10, ConcatProperties DEF pm_init, haiku_init
<1>11. CASE api = "winmm"
  <2>1. <<Mapper>> \o Ins(found) \in Seq(Fresh)
    BY <1>4, <1>7, ConcatProperties
  <2> QED
    BY <1>5, <1>11, <2>1, ConcatProperties DEF pm_init, pm_winmm_init
<1>12. CASE api = "sndio"
  BY <1>7, <1>12 DEF pm_init
<1> QED
  BY <1>8, <1>9, <1>10, <1>11, <1>12 DEF Types

\* The array has room for what it holds.
LEMMA CapacityFacts ==
  ASSUME NEW n \in Nat, Types
  PROVE  Capacity(n) \in Nat /\ n <= Capacity(n) /\ pm_descriptor_max <= Capacity(n)
<1> DEFINE x == n + Chunk - 1
           q == x \div Chunk
<1>1. Chunk \in Nat \ {0} /\ x \in Nat /\ pm_descriptor_max \in Nat
  BY DevicesAssumption DEF Types
<1>2. q \in Nat /\ x = Chunk * q + (x % Chunk) /\ x % Chunk \in 0..Chunk - 1
  BY <1>1
<1>3. Chunk * q \in Nat /\ n <= Chunk * q
  <2>1. Chunk * q \in Nat
    BY <1>1, <1>2
  <2> DEFINE p == Chunk * q
  <2> HIDE DEF p
  <2> QED
    BY <1>1, <1>2, <2>1 DEF p
<1> QED
  BY <1>1, <1>3 DEF Capacity

\* A default is a device or pmNoDevice.
LEMMA DefaultFacts ==
  ASSUME NEW devices \in Seq(Device), NEW is_input \in BOOLEAN
  PROVE  FirstOf(devices, is_input) \in Nat
<1> DEFINE found == {i \in Ids(devices) : devices[i].input = is_input}
<1>1. found \in SUBSET Nat
  BY LenProperties DEF Ids
<1>2. found # {} => Min(found) \in Nat
  BY <1>1, LeastElement
<1> QED
  BY <1>2 DEF FirstOf, pmNoDevice

-----------------------------------------------------------------------------
(* What a call does to the registry: it puts a device where there is none  *)
(* or one that is not open, takes the last one away, or marks one as       *)
(* open or closed.                                                         *)

Puts(id, device) ==
  /\ descriptors' \in Seq(Device)
  /\ Ids(descriptors') = Ids(descriptors) \union {id} /\ descriptors'[id] = device
  /\ \A i \in Ids(descriptors) : i # id => descriptors'[i] = descriptors[i]
Drops(id) ==
  /\ descriptors' \in Seq(Device)
  /\ Ids(descriptors') = Ids(descriptors) \ {id}
  /\ \A i \in Ids(descriptors') : descriptors'[i] = descriptors[i]
Marks(id, opened, pm_internal) ==
  /\ descriptors' \in Seq(Device)
  /\ Ids(descriptors') = Ids(descriptors) /\ id \in Ids(descriptors)
  /\ descriptors'[id] = [descriptors[id] EXCEPT !.opened = opened, !.pm_internal = pm_internal]
  /\ \A i \in Ids(descriptors) : i # id => descriptors'[i] = descriptors[i]

\* The place is free for the device, whose name is not taken.
Free(id, device) ==
  IF id \in Ids(descriptors)
    THEN /\ Claimed(descriptors[id]) /\ ~descriptors[id].opened
         /\ device.name = descriptors[id].name /\ device.input = descriptors[id].input
    ELSE Found(descriptors, device.name, device.input) = {}

\* What pm_add_device returns when there is no conflict.
LEMMA AddFacts ==
  ASSUME Types, NEW name \in Names, NEW is_input \in BOOLEAN,
         AddVirtual(descriptors, name, is_input).id # pmNoDevice
  PROVE  LET added == AddVirtual(descriptors, name, is_input)
             id    == added.id
         IN  /\ id \in Nat \ {0} /\ added.devices \in Seq(Device)
             /\ Ids(added.devices) = Ids(descriptors) \union {id}
             /\ added.devices[id] = NewDevice(name, is_input)
             /\ \A i \in Ids(descriptors) : i # id => added.devices[i] = descriptors[i]
             /\ IF id \in Ids(descriptors)
                  THEN /\ descriptors[id].deleted
                       /\ name = descriptors[id].name /\ is_input = descriptors[id].input
                  ELSE Found(descriptors, name, is_input) = {}
<1> DEFINE found == Found(descriptors, name, is_input)
           added == AddVirtual(descriptors, name, is_input)
           id    == added.id
           new   == NewDevice(name, is_input)
<1>1. /\ descriptors \in Seq(Device) /\ Len(descriptors) \in Nat
      /\ DOMAIN descriptors = 1..Len(descriptors)
  BY LenProperties DEF Types
<1>2. new \in Device
  BY NewIsFresh DEF DeviceNames
<1>3. found \in SUBSET Nat /\ found \subseteq Ids(descriptors)
  BY <1>1 DEF Found, Ids
<1> HIDE DEF new
<1>4. CASE found = {}
  <2>1. id = Len(descriptors) + 1 /\ added.devices = Append(descriptors, new)
    BY <1>4 DEF AddVirtual, new
  <2>2. /\ added.devices \in Seq(Device) /\ Len(added.devices) = Len(descriptors) + 1
        /\ \A i \in 1..Len(descriptors) : added.devices[i] = descriptors[i]
        /\ added.devices[Len(descriptors) + 1] = new
    BY <1>1, <1>2, <2>1, AppendProperties
  <2> HIDE DEF added, found
  <2>3. Ids(added.devices) = Ids(descriptors) \union {id} /\ id \notin Ids(descriptors)
    BY <1>1, <2>1, <2>2 DEF Ids
  <2> QED
    BY <1>1, <1>4, <2>1, <2>2, <2>3 DEF Ids, added, found, new
<1>5. CASE found # {}
  <2>1. Min(found) \in found
    BY <1>3, <1>5, LeastElement
  <2>2. Reusable(descriptors[Min(found)], is_input)
    BY <1>5 DEF AddVirtual, pmNoDevice
  <2>3. id = Min(found) /\ added.devices = [descriptors EXCEPT ![id] = new]
    BY <1>5, <2>2 DEF AddVirtual, new
  <2>4. id \in Ids(descriptors) /\ descriptors[id].name = name
    BY <2>1, <2>3 DEF Found
  <2> HIDE DEF added, found
  <2>5. /\ added.devices \in Seq(Device) /\ Len(added.devices) = Len(descriptors)
        /\ \A i \in 1..Len(descriptors) :
              added.devices[i] = IF i = id THEN new ELSE descriptors[i]
    BY <1>1, <1>2, <2>3, <2>4, ExceptSeq DEF Ids
  <2>6. Ids(added.devices) = Ids(descriptors) /\ id \in Nat \ {0}
    BY <1>1, <2>4, <2>5 DEF Ids
  <2> QED
    BY <2>2, <2>3, <2>4, <2>5, <2>6 DEF Ids, Reusable, added, found, new
<1> QED
  BY <1>4, <1>5

\* Setting a descriptor.
LEMMA PutFacts ==
  ASSUME NEW devices \in Seq(Device), NEW id \in Ids(devices), NEW device \in Device,
         Ids(devices) = Ids(descriptors) \union {id},
         \A i \in Ids(descriptors) : i # id => devices[i] = descriptors[i],
         descriptors' = [devices EXCEPT ![id] = device]
  PROVE  Puts(id, device)
<1> DEFINE after == descriptors'
<1>1. id \in 1..Len(devices)
  BY DEF Ids
<1>2. after = [devices EXCEPT ![id] = device]
  OBVIOUS
<1> HIDE DEF after
<1>3. /\ after \in Seq(Device) /\ Len(after) = Len(devices)
      /\ \A i \in 1..Len(devices) : after[i] = IF i = id THEN device ELSE devices[i]
  BY <1>1, <1>2, ExceptSeq
<1>4. /\ after \in Seq(Device) /\ Ids(after) = Ids(devices) /\ after[id] = device
      /\ \A i \in Ids(devices) : i # id => after[i] = devices[i]
  BY <1>1, <1>3 DEF Ids
<1> QED
  BY <1>4 DEF Puts, after

\* A virtual device that gets its endpoint, and one that does not.
LEMMA RegisterFacts ==
  ASSUME Types, NEW name \in Names, NEW is_input \in BOOLEAN,
         NEW id, id = AddVirtual(descriptors, name, is_input).id, id # pmNoDevice
  PROVE  LET added == AddVirtual(descriptors, name, is_input)
             new   == NewDevice(name, is_input)
         IN  /\ descriptors' = [added.devices EXCEPT ![id].is_virtual = TRUE] =>
                  Puts(id, [new EXCEPT !.is_virtual = TRUE])
             /\ descriptors' = pm_undo_add_device(added.devices, id) =>
                  Drops(id) \/ Puts(id, [new EXCEPT !.deleted = TRUE, !.pm_internal = None])
<1> DEFINE devices == AddVirtual(descriptors, name, is_input).devices
           new == NewDevice(name, is_input)
<1>1. /\ id \in Nat \ {0} /\ devices \in Seq(Device)
      /\ Ids(devices) = Ids(descriptors) \union {id} /\ devices[id] = new
      /\ \A i \in Ids(descriptors) : i # id => devices[i] = descriptors[i]
  BY AddFacts
<1>2. /\ new \in Device /\ [new EXCEPT !.is_virtual = TRUE] \in Device
      /\ [new EXCEPT !.deleted = TRUE, !.pm_internal = None] \in Device
  <2>1. name \in DeviceNames
    BY DEF DeviceNames
  <2>2. new \in Device
    BY <2>1 DEF NewDevice, Device, None
  <2> HIDE DEF new
  <2>3. [new EXCEPT !.is_virtual = TRUE] \in Device
    BY <2>2 DEF Device
  <2>4. [new EXCEPT !.deleted = TRUE, !.pm_internal = None] \in Device
    BY <2>2 DEF Device, None
  <2> QED
    BY <2>2, <2>3, <2>4
<1>3. Len(devices) \in Nat /\ DOMAIN devices = 1..Len(devices) /\ id \in 1..Len(devices)
  BY <1>1, LenProperties DEF Ids
<1> HIDE DEF devices, new
<1>4. ASSUME descriptors' = [devices EXCEPT ![id].is_virtual = TRUE]
      PROVE  Puts(id, [new EXCEPT !.is_virtual = TRUE])
  <2> DEFINE device == [new EXCEPT !.is_virtual = TRUE]
  <2>1. descriptors' = [devices EXCEPT ![id] = device]
    BY <1>1, <1>4
  <2>2. id \in Ids(devices) /\ device \in Device
    BY <1>1, <1>2
  <2> QED
    BY <1>1, <2>1, <2>2, PutFacts
<1>5. ASSUME descriptors' = pm_undo_add_device(devices, id)
      PROVE  Drops(id) \/ Puts(id, [new EXCEPT !.deleted = TRUE, !.pm_internal = None])
  <2>1. CASE id = Len(devices)
    <3>1. descriptors' = SubSeq(devices, 1, Len(devices) - 1)
      BY <1>5, <2>1 DEF pm_undo_add_device, Front
    <3>2. \A i \in 1..Len(devices) - 1 : devices[i] \in Device
      BY <1>1, <1>3, ElementOfSeq
    <3>3. /\ descriptors' \in Seq(Device) /\ Len(descriptors') = Len(devices) - 1
          /\ \A i \in 1..Len(devices) - 1 : descriptors'[i] = devices[i]
      <4>1. /\ SubSeq(devices, 1, Len(devices) - 1) \in Seq(Device)
            /\ Len(SubSeq(devices, 1, Len(devices) - 1))
                 = IF 1 <= Len(devices) - 1 THEN (Len(devices) - 1) - 1 + 1 ELSE 0
            /\ \A i \in 1..(Len(devices) - 1) - 1 + 1 :
                  SubSeq(devices, 1, Len(devices) - 1)[i] = devices[1 + i - 1]
        BY <1>3, <3>2, SubSeqProperties
      <4> QED
        BY <1>3, <3>1, <4>1
    <3>4. Ids(descriptors') = Ids(devices) \ {id} /\ id \notin Ids(descriptors')
      BY <1>3, <2>1, <3>3 DEF Ids
    <3>5. Ids(descriptors') = Ids(descriptors) \ {id}
      BY <1>1, <3>4
    <3>6. \A i \in Ids(descriptors') : descriptors'[i] = descriptors[i]
      BY <1>1, <1>3, <3>3, <3>5 DEF Ids
    <3> QED
      BY <3>3, <3>5, <3>6 DEF Drops
  <2>2. CASE id # Len(devices)
    <3> DEFINE device == [new EXCEPT !.deleted = TRUE, !.pm_internal = None]
    <3>1. descriptors' = [devices EXCEPT ![id] = device]
      BY <1>1, <1>5, <2>2 DEF pm_undo_add_device
    <3>2. id \in Ids(devices) /\ device \in Device
      BY <1>1, <1>2
    <3> QED
      BY <1>1, <3>1, <3>2, PutFacts
  <2> QED
    BY <2>1, <2>2
<1> QED
  BY <1>4, <1>5 DEF devices, new

\* No id changes its meaning, as in IdsAreStable.
Stable ==
  \A i \in Ids(descriptors) :
     IF i \in Ids(descriptors')
       THEN /\ descriptors'[i].name = descriptors[i].name
            /\ descriptors'[i].input = descriptors[i].input
       ELSE descriptors[i].deleted

\* A device that is put in a free place.
LEMMA PutsKeeps ==
  ASSUME Types, Pairs, Claims, UNCHANGED streams, NEW id, NEW device \in Device,
         Puts(id, device), Free(id, device), ~device.opened, Claimed(device)
  PROVE  Pairs' /\ Claims' /\ Stable
<1>1. /\ Ids(descriptors') = Ids(descriptors) \union {id} /\ descriptors'[id] = device
      /\ \A i \in Ids(descriptors) : i # id => descriptors'[i] = descriptors[i]
  BY DEF Puts
<1>2. id \in Ids(descriptors) => ~descriptors[id].opened
  BY DEF Free
<1>3. \A s : IsOpen(s)' <=> IsOpen(s)
  BY DEF IsOpen
<1>4. Pairs'
  <2>1. ASSUME NEW s \in DOMAIN streams' PROVE StreamHasDevice(s)'
    <3>1. StreamHasDevice(s)
      BY <2>1 DEF Pairs
    <3>2. IsOpen(s) => streams[s].device_id # id
      BY <1>2, <3>1 DEF StreamHasDevice
    <3> QED
      BY <1>1, <1>3, <3>1, <3>2 DEF StreamHasDevice
  <2>2. ASSUME NEW i \in Ids(descriptors') PROVE DeviceHasStream(i)'
    <3>1. CASE i = id
      BY <1>1, <3>1 DEF DeviceHasStream
    <3>2. CASE i # id
      <4>1. i \in Ids(descriptors) /\ descriptors'[i] = descriptors[i]
        BY <1>1, <3>2
      <4>2. DeviceHasStream(i)
        BY <4>1 DEF Pairs
      <4> QED
        BY <4>1, <4>2 DEF DeviceHasStream, IsOpen
    <3> QED
      BY <3>1, <3>2
  <2> QED
    BY <2>1, <2>2 DEF Pairs
<1>5. \A j \in Ids(descriptors) :
         j # id /\ descriptors[j].name = device.name => Side(descriptors[j]) # device.input
  <2> SUFFICES ASSUME NEW j \in Ids(descriptors), j # id, descriptors[j].name = device.name
               PROVE  Side(descriptors[j]) # device.input
    OBVIOUS
  <2>1. CASE id \in Ids(descriptors)
    <3>1. Side(descriptors[id]) = device.input /\ Claimed(descriptors[id])
      BY <2>1 DEF Free, Side
    <3>2. descriptors[id].name = descriptors[j].name
      BY <2>1 DEF Free
    <3> QED
      BY <2>1, <3>1, <3>2 DEF Claims
  <2>2. CASE id \notin Ids(descriptors)
    <3>1. j \notin Found(descriptors, device.name, device.input)
      BY <2>2 DEF Free
    <3>2. ~Reusable(descriptors[j], device.input) /\ ~Conflict(descriptors[j], device.input)
      BY <3>1 DEF Found
    <3>3. descriptors[j] \in Device
      BY ElementOfSeq DEF Types, Ids
    <3>4. /\ descriptors[j].input \in BOOLEAN /\ descriptors[j].is_virtual \in BOOLEAN
          /\ device.input \in BOOLEAN /\ descriptors[j].deleted \in BOOLEAN
      BY <3>3 DEF Device
    <3> QED
      BY <3>2, <3>4, Zenon DEF Reusable, Conflict, Side, Claimed
  <2> QED
    BY <2>1, <2>2
<1>6. Side(device) = device.input
  BY DEF Side
<1>7. Claims'
  <2> SUFFICES ASSUME NEW i \in Ids(descriptors'), NEW j \in Ids(descriptors'), i # j,
                      Claimed(descriptors'[i]), descriptors'[i].name = descriptors'[j].name
               PROVE  Side(descriptors'[i]) # Side(descriptors'[j])
    BY DEF Claims
  <2>1. CASE i = id
    BY <1>1, <1>5, <1>6, <2>1
  <2>2. CASE j = id
    BY <1>1, <1>5, <1>6, <2>2
  <2>3. CASE i # id /\ j # id
    BY <1>1, <2>3 DEF Claims
  <2> QED
    BY <2>1, <2>2, <2>3
<1>8. Stable
  BY <1>1 DEF Stable, Free
<1> QED
  BY <1>4, <1>7, <1>8

\* A device that is taken away.
LEMMA DropsKeeps ==
  ASSUME Pairs, Claims, UNCHANGED streams, NEW id, Drops(id),
         id \in Ids(descriptors) => descriptors[id].deleted
  PROVE  Pairs' /\ Claims' /\ Stable
<1>1. /\ Ids(descriptors') = Ids(descriptors) \ {id}
      /\ \A i \in Ids(descriptors') : descriptors'[i] = descriptors[i]
  BY DEF Drops
<1>2. id \in Ids(descriptors) => ~descriptors[id].opened
  BY DEF Pairs, DeviceHasStream
<1>3. \A s : IsOpen(s)' <=> IsOpen(s)
  BY DEF IsOpen
<1>4. Pairs'
  <2>1. ASSUME NEW s \in DOMAIN streams' PROVE StreamHasDevice(s)'
    <3>1. StreamHasDevice(s)
      BY <2>1 DEF Pairs
    <3>2. IsOpen(s) => streams[s].device_id # id
      BY <1>2, <3>1 DEF StreamHasDevice
    <3> QED
      BY <1>1, <1>3, <3>1, <3>2 DEF StreamHasDevice
  <2>2. ASSUME NEW i \in Ids(descriptors') PROVE DeviceHasStream(i)'
    <3>1. i \in Ids(descriptors) /\ descriptors'[i] = descriptors[i]
      BY <1>1
    <3>2. DeviceHasStream(i)
      BY <3>1 DEF Pairs
    <3> QED
      BY <3>1, <3>2 DEF DeviceHasStream, IsOpen
  <2> QED
    BY <2>1, <2>2 DEF Pairs
<1>5. Claims'
  BY <1>1 DEF Claims
<1>6. Stable
  BY <1>1 DEF Stable
<1> QED
  BY <1>4, <1>5, <1>6

\* A device that is opened or closed keeps its name.
LEMMA MarksKeeps ==
  ASSUME Types, Claims, NEW id, NEW opened, NEW pm_internal, Marks(id, opened, pm_internal)
  PROVE  /\ Claims' /\ Stable
         /\ \A i \in Ids(descriptors) :
               /\ descriptors'[i].name = descriptors[i].name
               /\ descriptors'[i].input = descriptors[i].input
               /\ descriptors'[i].is_virtual = descriptors[i].is_virtual
               /\ descriptors'[i].deleted = descriptors[i].deleted
<1>1. \A i \in Ids(descriptors) : descriptors[i] \in Device
  BY ElementOfSeq DEF Types, Ids
<1>2. \A i \in Ids(descriptors) :
         /\ descriptors'[i].name = descriptors[i].name
         /\ descriptors'[i].input = descriptors[i].input
         /\ descriptors'[i].is_virtual = descriptors[i].is_virtual
         /\ descriptors'[i].deleted = descriptors[i].deleted
  <2>1. /\ descriptors'[id].name = descriptors[id].name
        /\ descriptors'[id].input = descriptors[id].input
        /\ descriptors'[id].is_virtual = descriptors[id].is_virtual
        /\ descriptors'[id].deleted = descriptors[id].deleted
    BY <1>1 DEF Marks, Device
  <2> QED
    BY <2>1, Zenon DEF Marks
<1>3. Ids(descriptors') = Ids(descriptors)
  BY DEF Marks
<1>4. Claims'
  BY <1>2, <1>3 DEF Claims, Claimed, Side
<1>5. Stable
  BY <1>2, <1>3 DEF Stable
<1> QED
  BY <1>2, <1>4, <1>5

-----------------------------------------------------------------------------
(* What a call of the backend does to what is held.                        *)

\* The queue gets a user, and loses one.
Used(a, b) ==
  /\ b.queue_used = a.queue_used + 1
  /\ b.queue = IF a.queue_used = 0 THEN "live" ELSE a.queue
Unused(a, b) ==
  /\ b.queue_used = a.queue_used - 1
  /\ b.queue = IF a.queue_used = 1 THEN "none" ELSE a.queue
\* It has as many as before; when that is none it may be freed once more.
SameUse(a, b) ==
  /\ b.queue_used = a.queue_used
  /\ b.queue = a.queue \/ (a.queue_used = 0 /\ b.queue = "none")

\* The outcome of opening a device.
OpenEffect(a, o, id, port, link, use) ==
  /\ o.sys \in Sys /\ o.ok \in BOOLEAN
  /\ o.ok => /\ o.sys.ports = a.ports \union (IF port THEN {id} ELSE {})
             /\ o.sys.links = a.links \union (IF link THEN {id} ELSE {})
             /\ IF use THEN Used(a, o.sys) ELSE SameUse(a, o.sys)
  /\ ~o.ok => /\ o.sys.ports \subseteq a.ports /\ o.sys.links \subseteq a.links
              /\ SameUse(a, o.sys)

\* Done and Failed.
LEMMA OutcomeFacts ==
  \A a : /\ Done(a).sys = a /\ Done(a).ok = TRUE
         /\ Failed(a).sys = a /\ Failed(a).ok = FALSE
BY DEF Done, Failed

\* A user of the queue more, or a failure.
LEMMA UseQueueFacts ==
  ASSUME NEW a \in Sys, NEW o \in alsa_use_queue(a)
  PROVE  /\ o.sys \in Sys /\ o.ok \in BOOLEAN
         /\ o.sys.ports = a.ports /\ o.sys.links = a.links
         /\ o.ok => Used(a, o.sys)
         /\ ~o.ok => SameUse(a, o.sys)
<1>1. CASE a.queue_used > 0
  <2>1. o = Done([a EXCEPT !.queue_used = @ + 1])
    BY <1>1 DEF alsa_use_queue
  <2> QED
    BY <1>1, <2>1 DEF Done, Sys, Used
<1>2. CASE ~(a.queue_used > 0)
  <2>1. a.queue_used = 0
    BY <1>2 DEF Sys
  <2>2. CASE o = Failed(a)
    BY <2>2 DEF Failed, Sys, SameUse
  <2>3. CASE o = Failed([a EXCEPT !.leaked = TRUE])
    BY <2>3 DEF Failed, Sys, SameUse
  <2>4. CASE o = Done([a EXCEPT !.queue = "live", !.queue_used = 1])
    <3> DEFINE b == [a EXCEPT !.queue = "live", !.queue_used = 1]
    <3>1. b = [a EXCEPT !.queue = "live", !.queue_used = 1] /\ o = Done(b)
      BY <2>4
    <3>2. /\ b \in Sys /\ b.ports = a.ports /\ b.links = a.links
          /\ b.queue_used = 1 /\ b.queue = "live"
      <4>1. b \in Sys
        BY DEF Sys
      <4>2. b.ports = a.ports /\ b.links = a.links
        BY DEF Sys
      <4>3. b.queue_used = 1 /\ b.queue = "live"
        BY DEF Sys
      <4> QED
        BY <4>1, <4>2, <4>3
    <3> HIDE DEF b
    <3>3. o.sys = b /\ o.ok = TRUE
      BY <3>1, OutcomeFacts
    <3>4. Used(a, b)
      BY <2>1, <3>2 DEF Used
    <3> QED
      BY <3>2, <3>3, <3>4
  <2> QED
    BY <1>2, <2>2, <2>3, <2>4 DEF alsa_use_queue
<1> QED
  BY <1>1, <1>2

\* A user less.
LEMMA UnuseQueueFacts ==
  ASSUME NEW a \in Sys, a.queue_used > 0
  PROVE  LET b == alsa_unuse_queue(a) IN
         /\ b \in Sys /\ b.ports = a.ports /\ b.links = a.links /\ Unused(a, b)
<1> DEFINE used == a.queue_used - 1
           queue == IF a.queue_used = 1 THEN "none" ELSE a.queue
           b == [a EXCEPT !.queue_used = used, !.queue = queue]
<1>1. used \in Nat /\ queue \in {"none", "live", "stale"}
  BY DEF Sys
<1>2. alsa_unuse_queue(a) = b
  BY DEF alsa_unuse_queue
<1> HIDE DEF used, queue
<1>3. b \in Sys
  BY <1>1 DEF Sys
<1>4. b.ports = a.ports /\ b.links = a.links
  BY DEF Sys
<1>5. b.queue_used = used /\ b.queue = queue
  BY DEF Sys
<1> HIDE DEF b
<1> QED
  BY <1>2, <1>3, <1>4, <1>5 DEF Unused, used, queue

\* What takes the queue into use and gives it back has changed nothing.
LEMMA GivenBack ==
  ASSUME NEW a \in Sys, NEW b \in Sys, Used(a, b)
  PROVE  LET c == alsa_unuse_queue(b) IN
         /\ c \in Sys /\ c.ports = b.ports /\ c.links = b.links /\ SameUse(a, c)
<1> DEFINE c == alsa_unuse_queue(b)
<1>1. a.queue_used \in Nat /\ b.queue_used = a.queue_used + 1
  BY DEF Sys, Used
<1>2. b.queue_used > 0
  BY <1>1
<1>3. c \in Sys /\ c.ports = b.ports /\ c.links = b.links /\ Unused(b, c)
  BY <1>2, UnuseQueueFacts
<1> HIDE DEF c
<1>4. SameUse(a, c)
  BY <1>1, <1>3 DEF Used, Unused, SameUse
<1> QED
  BY <1>3, <1>4 DEF c

\* A port more, or a failure.
LEMMA CreatePortFacts ==
  ASSUME NEW a \in Sys, NEW id \in Nat, NEW o \in snd_seq_create_port(a, id)
  PROVE  /\ o.sys \in Sys /\ o.ok \in BOOLEAN /\ o.sys.links = a.links
         /\ o.sys.queue = a.queue /\ o.sys.queue_used = a.queue_used
         /\ IF o.ok THEN o.sys.ports = a.ports \union {id} /\ id \notin a.ports ELSE o.sys = a
<1>1. CASE o = Failed(a)
  BY <1>1 DEF Failed
<1>2. CASE id \notin a.ports /\ o = Done([a EXCEPT !.ports = @ \union {id}])
  BY <1>2 DEF Done, Sys
<1> QED
  BY <1>1, <1>2 DEF snd_seq_create_port

\* A port less.
LEMMA DeletePortFacts ==
  ASSUME NEW a \in Sys, NEW id
  PROVE  LET b == snd_seq_delete_port(a, id) IN
         /\ b \in Sys /\ b.ports = a.ports \ {id} /\ b.links = a.links
         /\ b.queue = a.queue /\ b.queue_used = a.queue_used
BY DEF snd_seq_delete_port, Sys

\* An ALSA input: the queue, then the port; what fails gives back what it has got.
LEMMA AlsaInOpenFacts ==
  ASSUME NEW a \in Sys, NEW id \in Nat, NEW virtual \in BOOLEAN,
         NEW o \in alsa_in_open(a, id, virtual)
  PROVE  OpenEffect(a, o, id, ~virtual, FALSE, TRUE)
<1> DEFINE Port(b) == Then(snd_seq_create_port(b, id),
                           LAMBDA c : {Done(c), Failed(snd_seq_delete_port(c, id))})
<1>1. PICK p \in alsa_use_queue(a) :
        IF p.ok
          THEN o \in (IF virtual THEN {Done(p.sys)} ELSE CleanUp(Port(p.sys), alsa_unuse_queue))
          ELSE o = p
  BY DEF alsa_in_open, Then
<1>2. /\ p.sys \in Sys /\ p.ok \in BOOLEAN
      /\ p.sys.ports = a.ports /\ p.sys.links = a.links
      /\ p.ok => Used(a, p.sys)
      /\ ~p.ok => SameUse(a, p.sys)
  BY UseQueueFacts
<1>3. CASE ~p.ok
  BY <1>1, <1>2, <1>3 DEF OpenEffect
<1>4. CASE p.ok /\ virtual
  <2>1. o = Done(p.sys)
    BY <1>1, <1>4
  <2>2. o.sys = p.sys /\ o.ok = TRUE
    BY <2>1, OutcomeFacts
  <2> QED
    BY <1>2, <1>4, <2>2 DEF OpenEffect
<1>5. CASE p.ok /\ ~virtual
  <2>1. PICK q \in Port(p.sys) : o = IF q.ok THEN q ELSE Failed(alsa_unuse_queue(q.sys))
    BY <1>1, <1>5 DEF CleanUp
  <2>2. PICK r \in snd_seq_create_port(p.sys, id) :
          IF r.ok THEN q \in {Done(r.sys), Failed(snd_seq_delete_port(r.sys, id))} ELSE q = r
    BY <2>1 DEF Then
  <2> HIDE DEF Port
  <2>3. /\ r.sys \in Sys /\ r.ok \in BOOLEAN /\ r.sys.links = a.links
        /\ r.sys.queue = p.sys.queue /\ r.sys.queue_used = p.sys.queue_used
        /\ IF r.ok THEN r.sys.ports = a.ports \union {id} /\ id \notin a.ports ELSE r.sys = p.sys
    <3>1. r.ok \in BOOLEAN
      BY <1>2, <2>2, CreatePortFacts
    <3>2. /\ r.sys \in Sys /\ r.sys.links = p.sys.links
          /\ r.sys.queue = p.sys.queue /\ r.sys.queue_used = p.sys.queue_used
      BY <1>2, <2>2, CreatePortFacts
    <3>3. IF r.ok THEN r.sys.ports = p.sys.ports \union {id} /\ id \notin p.sys.ports
                  ELSE r.sys = p.sys
      BY <1>2, <2>2, CreatePortFacts
    <3> QED
      BY <1>2, <3>1, <3>2, <3>3
  <2>4. CASE r.ok /\ q = Done(r.sys)
    BY <1>2, <1>5, <2>1, <2>3, <2>4 DEF OpenEffect, Done, Used
  <2>5. CASE ~(r.ok /\ q = Done(r.sys))
    <3>1. /\ ~q.ok /\ q.sys \in Sys /\ q.sys.ports = a.ports /\ q.sys.links = a.links
          /\ q.sys.queue = p.sys.queue /\ q.sys.queue_used = p.sys.queue_used
      <4>1. CASE ~r.ok
        BY <1>2, <2>2, <2>3, <4>1
      <4>2. CASE r.ok
        <5> DEFINE b == snd_seq_delete_port(r.sys, id)
        <5>1. q = Failed(b)
          BY <2>2, <2>5, <4>2
        <5>2. /\ b \in Sys /\ b.ports = r.sys.ports \ {id} /\ b.links = r.sys.links
              /\ b.queue = r.sys.queue /\ b.queue_used = r.sys.queue_used
          BY <2>3, DeletePortFacts
        <5> HIDE DEF b
        <5>3. q.sys = b /\ q.ok = FALSE
          BY <5>1, OutcomeFacts
        <5> QED
          BY <2>3, <4>2, <5>2, <5>3
      <4> QED
        BY <4>1, <4>2
    <3>2. Used(a, q.sys)
      BY <1>2, <1>5, <3>1 DEF Used
    <3> DEFINE b == alsa_unuse_queue(q.sys)
    <3>3. b \in Sys /\ b.ports = q.sys.ports /\ b.links = q.sys.links /\ SameUse(a, b)
      BY <3>1, <3>2, GivenBack
    <3>4. o.sys = b /\ o.ok = FALSE
      BY <2>1, <3>1, OutcomeFacts
    <3> HIDE DEF b
    <3> QED
      BY <3>1, <3>3, <3>4 DEF OpenEffect
  <2> QED
    BY <2>4, <2>5
<1> QED
  BY <1>3, <1>4, <1>5

\* An ALSA output: the port, the parser, then the queue; what fails gives back what it has got,
\* and the port of a virtual device with it.
LEMMA AlsaOutOpenFacts ==
  ASSUME NEW a \in Sys, NEW id \in Nat, NEW virtual \in BOOLEAN, NEW latency \in BOOLEAN,
         NEW o \in alsa_out_open(a, id, virtual, latency)
  PROVE  OpenEffect(a, o, id, ~virtual, FALSE, latency)
<1> DEFINE LastStep(d) == IF virtual THEN {Done(d)}
                          ELSE {Done(d), Failed(IF latency THEN alsa_unuse_queue(d) ELSE d)}
           Queues(c) == IF latency THEN alsa_use_queue(c) ELSE {Done(c)}
           Middle(c) == Then(Queues(c), LastStep)
           Rest(b) == Then(MayFail(b), Middle)
           Ports == IF virtual THEN {Done(a)} ELSE snd_seq_create_port(a, id)
<1>1. PICK p \in Ports :
        IF p.ok THEN o \in CleanUp(Rest(p.sys), LAMBDA e : snd_seq_delete_port(e, id)) ELSE o = p
  BY DEF alsa_out_open, Then
<1>2. ASSUME p.ok
      PROVE  \E q \in Rest(p.sys) : o = IF q.ok THEN q ELSE Failed(snd_seq_delete_port(q.sys, id))
  BY <1>1, <1>2 DEF CleanUp
<1>3. ASSUME NEW b, NEW q \in Rest(b)
      PROVE  \E r \in MayFail(b) : IF r.ok THEN q \in Middle(r.sys) ELSE q = r
  BY <1>3 DEF Then
<1>4. ASSUME NEW c, NEW q \in Middle(c)
      PROVE  \E r \in Queues(c) : IF r.ok THEN q \in LastStep(r.sys) ELSE q = r
  BY <1>4 DEF Then
<1>5. ASSUME NEW d, NEW q \in LastStep(d)
      PROVE  q = Done(d) \/ q = Failed(IF latency THEN alsa_unuse_queue(d) ELSE d)
  BY <1>5
<1>6. ASSUME NEW c, NEW q \in Queues(c)
      PROVE  IF latency THEN q \in alsa_use_queue(c) ELSE q = Done(c)
  BY <1>6
<1>7. /\ p.sys \in Sys /\ p.ok \in BOOLEAN /\ p.sys.links = a.links
      /\ p.sys.queue = a.queue /\ p.sys.queue_used = a.queue_used
      /\ p.ok => p.sys.ports \ {id} \subseteq a.ports
      /\ p.ok => p.sys.ports = a.ports \union (IF ~virtual THEN {id} ELSE {})
      /\ ~p.ok => p.sys = a
  <2> HIDE DEF Rest, Middle, LastStep, Queues
  <2>1. CASE virtual
    BY <1>1, <2>1, OutcomeFacts
  <2>2. CASE ~virtual
    <3>1. p \in snd_seq_create_port(a, id)
      BY <1>1, <2>2
    <3>2. /\ p.sys \in Sys /\ p.ok \in BOOLEAN /\ p.sys.links = a.links
          /\ p.sys.queue = a.queue /\ p.sys.queue_used = a.queue_used
          /\ IF p.ok THEN p.sys.ports = a.ports \union {id} /\ id \notin a.ports ELSE p.sys = a
      BY <3>1, CreatePortFacts
    <3> QED
      BY <2>2, <3>2
  <2> QED
    BY <2>1, <2>2
<1> HIDE DEF Rest, Middle, LastStep, Queues, Ports
<1>8. ASSUME NEW b \in Sys, NEW q \in Rest(b)
      PROVE  /\ q.sys \in Sys /\ q.ok \in BOOLEAN
             /\ q.sys.ports = b.ports /\ q.sys.links = b.links
             /\ q.ok => IF latency THEN Used(b, q.sys) ELSE SameUse(b, q.sys)
             /\ ~q.ok => SameUse(b, q.sys)
  <2>1. SameUse(b, b)
    BY DEF SameUse
  <2>2. PICK r \in MayFail(b) : IF r.ok THEN q \in Middle(r.sys) ELSE q = r
    BY <1>3, <1>8
  <2>3. r.sys = b /\ r.ok \in BOOLEAN
    BY <2>2, OutcomeFacts DEF MayFail
  <2>4. CASE ~r.ok
    BY <1>8, <2>1, <2>2, <2>3, <2>4
  <2>5. CASE r.ok
    <3>1. PICK t \in Queues(b) : IF t.ok THEN q \in LastStep(t.sys) ELSE q = t
      BY <1>4, <2>2, <2>3, <2>5
    <3>2. /\ t.sys \in Sys /\ t.ok \in BOOLEAN
          /\ t.sys.ports = b.ports /\ t.sys.links = b.links
          /\ t.ok => IF latency THEN Used(b, t.sys) ELSE t.sys = b
          /\ ~t.ok => SameUse(b, t.sys)
      <4>1. CASE latency
        <5>1. t \in alsa_use_queue(b)
          BY <1>6, <3>1, <4>1
        <5> QED
          BY <4>1, <5>1, UseQueueFacts
      <4>2. CASE ~latency
        <5>1. t = Done(b)
          BY <1>6, <3>1, <4>2
        <5> QED
          BY <4>2, <5>1, OutcomeFacts
      <4> QED
        BY <4>1, <4>2
    <3>3. CASE ~t.ok
      BY <3>1, <3>2, <3>3
    <3>4. CASE t.ok /\ q = Done(t.sys)
      <4>1. q.sys = t.sys /\ q.ok = TRUE
        BY <3>4, OutcomeFacts
      <4> QED
        BY <2>1, <3>2, <3>4, <4>1
    <3>5. CASE t.ok /\ latency /\ q = Failed(alsa_unuse_queue(t.sys))
      <4>1. q.sys = alsa_unuse_queue(t.sys) /\ q.ok = FALSE
        BY <3>5, OutcomeFacts
      <4>2. Used(b, t.sys)
        BY <3>2, <3>5
      <4> QED
        BY <3>2, <4>1, <4>2, GivenBack
    <3>6. CASE t.ok /\ ~latency /\ q = Failed(t.sys)
      <4>1. q.sys = b /\ q.ok = FALSE
        BY <3>2, <3>6, OutcomeFacts
      <4> QED
        BY <1>8, <2>1, <4>1
    <3>7. t.ok => q = Done(t.sys) \/ q = Failed(IF latency THEN alsa_unuse_queue(t.sys) ELSE t.sys)
      BY <1>5, <3>1
    <3> QED
      BY <3>3, <3>4, <3>5, <3>6, <3>7
  <2> QED
    BY <2>3, <2>4, <2>5
<1>9. CASE ~p.ok
  BY <1>1, <1>7, <1>9 DEF OpenEffect, SameUse
<1>10. CASE p.ok
  <2>1. PICK q \in Rest(p.sys) :
          o = IF q.ok THEN q ELSE Failed(snd_seq_delete_port(q.sys, id))
    BY <1>2, <1>10
  <2>2. /\ q.sys \in Sys /\ q.ok \in BOOLEAN
        /\ q.sys.ports = p.sys.ports /\ q.sys.links = a.links
        /\ q.ok => IF latency THEN Used(p.sys, q.sys) ELSE SameUse(p.sys, q.sys)
        /\ ~q.ok => SameUse(p.sys, q.sys)
    BY <1>7, <1>8, <2>1
  <2>3. /\ q.ok => IF latency THEN Used(a, q.sys) ELSE SameUse(a, q.sys)
        /\ ~q.ok => SameUse(a, q.sys)
    BY <1>7, <2>2 DEF Used, SameUse
  <2>4. CASE q.ok
    <3>1. o = q
      BY <2>1, <2>4
    <3>2. q.sys.ports = a.ports \union (IF ~virtual THEN {id} ELSE {})
      BY <1>7, <1>10, <2>2
    <3> QED
      BY <2>2, <2>3, <2>4, <3>1, <3>2 DEF OpenEffect
  <2>5. CASE ~q.ok
    <3> DEFINE d == snd_seq_delete_port(q.sys, id)
    <3>1. o.sys = d /\ o.ok = FALSE
      BY <2>1, <2>5, OutcomeFacts
    <3>2. /\ d \in Sys /\ d.ports = q.sys.ports \ {id} /\ d.links = q.sys.links
          /\ d.queue = q.sys.queue /\ d.queue_used = q.sys.queue_used
      BY <2>2, DeletePortFacts
    <3> HIDE DEF d
    <3>3. SameUse(a, d)
      BY <2>3, <2>5, <3>2 DEF SameUse
    <3>4. d.ports \subseteq a.ports /\ d.links \subseteq a.links
      BY <1>7, <1>10, <2>2, <3>2
    <3> QED
      BY <3>1, <3>2, <3>3, <3>4 DEF OpenEffect
  <2> QED
    BY <2>2, <2>4, <2>5
<1> QED
  BY <1>7, <1>9, <1>10

\* What opening and closing a device takes and gives back.
WantsPort(device) == api = "alsa" /\ ~device.is_virtual
WantsLink(device) == api # "alsa" /\ (api = "coremidi" => NeedsConnection(device))

\* A link more, or a failure.
LEMMA LinkFacts ==
  ASSUME NEW a \in Sys, NEW id \in Nat
  PROVE  /\ Linked(a, id) \in Sys /\ Linked(a, id).links = a.links \union {id}
         /\ Linked(a, id).ports = a.ports
         /\ Linked(a, id).queue = a.queue /\ Linked(a, id).queue_used = a.queue_used
BY DEF Linked, Sys

\* A link less.
LEMMA UnlinkFacts ==
  ASSUME NEW a \in Sys, NEW id
  PROVE  /\ Unlinked(a, id) \in Sys /\ Unlinked(a, id).links = a.links \ {id}
         /\ Unlinked(a, id).ports = a.ports
         /\ Unlinked(a, id).queue = a.queue /\ Unlinked(a, id).queue_used = a.queue_used
BY DEF Unlinked, Sys

\* The handle of a sndio port is gone, for both of its devices.
LEMMA NotReopenedFacts ==
  ASSUME NEW a \in Sys, NEW id
  PROVE  /\ NotReopened(a, id) \in Sys
         /\ NotReopened(a, id).links \subseteq a.links /\ id \notin NotReopened(a, id).links
         /\ NotReopened(a, id).ports = a.ports
         /\ NotReopened(a, id).queue = a.queue /\ NotReopened(a, id).queue_used = a.queue_used
<1> DEFINE links == a.links \ {id, Partner(id)}
<1>1. NotReopened(a, id) = [a EXCEPT !.links = links]
  BY DEF NotReopened
<1>2. links \subseteq a.links /\ id \notin links /\ a.links \subseteq Nat
  BY DEF Sys
<1> HIDE DEF links
<1> QED
  BY <1>1, <1>2 DEF Sys

\* Opening a device takes what it needs and nothing when it fails, with every backend.
LEMMA OpenFunctionFacts ==
  ASSUME Types, NEW id \in Ids(descriptors), NEW latency \in BOOLEAN,
         NEW o \in open_function(id, descriptors[id], latency)
  PROVE  OpenEffect(sys, o, id, WantsPort(descriptors[id]), WantsLink(descriptors[id]),
                    api = "alsa" /\ (descriptors[id].input \/ latency))
<1> DEFINE device == descriptors[id]
<1>1. /\ device \in Device /\ id \in Nat /\ sys \in Sys
      /\ api \in {"alsa", "coremidi", "haiku", "winmm", "sndio"}
  BY ElementOfSeq, LenProperties DEF Types, Ids
<1>2. device.input \in BOOLEAN /\ device.is_virtual \in BOOLEAN
  BY <1>1 DEF Device
<1>3. o \in open_function(id, device, latency)
  OBVIOUS
<1> HIDE DEF device
<1>4. CASE api = "alsa" /\ device.input
  <2>1. o \in alsa_in_open(sys, id, device.is_virtual)
    BY <1>3, <1>4 DEF open_function
  <2>2. OpenEffect(sys, o, id, ~device.is_virtual, FALSE, TRUE)
    BY <1>1, <1>2, <2>1, AlsaInOpenFacts
  <2> QED
    BY <1>4, <2>2 DEF OpenEffect, WantsPort, WantsLink, device
<1>5. CASE api = "alsa" /\ ~device.input
  <2>1. o \in alsa_out_open(sys, id, device.is_virtual, latency)
    BY <1>3, <1>5 DEF open_function
  <2>2. OpenEffect(sys, o, id, ~device.is_virtual, FALSE, latency)
    BY <1>1, <1>2, <2>1, AlsaOutOpenFacts
  <2> QED
    BY <1>5, <2>2 DEF OpenEffect, WantsPort, WantsLink, device
<1>6. ASSUME api # "alsa", WantsLink(device), o = Done(Linked(sys, id))
      PROVE  OpenEffect(sys, o, id, WantsPort(device), WantsLink(device), FALSE)
  <2> DEFINE b == Linked(sys, id)
  <2>1. /\ b \in Sys /\ b.links = sys.links \union {id} /\ b.ports = sys.ports
        /\ b.queue = sys.queue /\ b.queue_used = sys.queue_used
    BY <1>1, LinkFacts
  <2>2. o.sys = b /\ o.ok = TRUE
    BY <1>6, OutcomeFacts
  <2> HIDE DEF b
  <2> QED
    BY <1>6, <2>1, <2>2 DEF OpenEffect, WantsPort, SameUse
<1>7. ASSUME api # "alsa", ~WantsLink(device), o = Done(sys)
      PROVE  OpenEffect(sys, o, id, WantsPort(device), WantsLink(device), FALSE)
  BY <1>1, <1>7, OutcomeFacts DEF OpenEffect, WantsPort, SameUse
<1>8. ASSUME api # "alsa", o \in {Failed(sys), Failed(NotReopened(sys, id))}
      PROVE  OpenEffect(sys, o, id, WantsPort(device), WantsLink(device), FALSE)
  <2> DEFINE b == NotReopened(sys, id)
  <2>1. /\ b \in Sys /\ b.links \subseteq sys.links /\ b.ports = sys.ports
        /\ b.queue = sys.queue /\ b.queue_used = sys.queue_used
    BY <1>1, NotReopenedFacts
  <2>2. o.sys \in {sys, b} /\ o.ok = FALSE
    BY <1>8, OutcomeFacts
  <2> HIDE DEF b
  <2> QED
    BY <1>1, <2>1, <2>2 DEF OpenEffect, SameUse
<1>9. CASE api # "alsa"
  <2>1. \/ WantsLink(device) /\ o = Done(Linked(sys, id))
        \/ ~WantsLink(device) /\ o = Done(sys)
        \/ o \in {Failed(sys), Failed(NotReopened(sys, id))}
    <3>1. CASE api = "coremidi"
      BY <1>3, <3>1 DEF open_function, coremidi_open, Link, WantsLink
    <3>2. CASE api = "haiku"
      BY <1>3, <3>2 DEF open_function, haiku_open, Link, WantsLink
    <3>3. CASE api = "winmm"
      BY <1>3, <3>3 DEF open_function, winmm_open, Link, WantsLink
    <3>4. CASE api = "sndio"
      BY <1>3, <3>4 DEF open_function, sndio_open, WantsLink
    <3> QED
      BY <1>1, <1>9, <3>1, <3>2, <3>3, <3>4
  <2>2. OpenEffect(sys, o, id, WantsPort(device), WantsLink(device), FALSE)
    BY <1>6, <1>7, <1>8, <1>9, <2>1
  <2> QED
    BY <1>9, <2>2 DEF OpenEffect, device
<1> QED
  BY <1>2, <1>4, <1>5, <1>9

\* The outcome of closing a device.
CloseEffect(a, o, id, port, link, use) ==
  /\ o.sys \in Sys /\ o.ok \in BOOLEAN
  /\ o.sys.ports = a.ports \ (IF port THEN {id} ELSE {})
  /\ o.ok => o.sys.links = a.links \ (IF link THEN {id} ELSE {})
  /\ ~o.ok => o.sys.links \subseteq a.links /\ (api = "sndio" => id \notin o.sys.links)
  /\ ~o.ok => api # "alsa"
  /\ IF use THEN Unused(a, o.sys)
            ELSE o.sys.queue = a.queue /\ o.sys.queue_used = a.queue_used

\* Closing a device gives back what it has taken, or says that it could not.
LEMMA CloseFunctionFacts ==
  ASSUME Types, NEW id, NEW device, NEW stream \in Stream, stream.device_id = id,
         api = "alsa" /\ (stream.is_input \/ stream.latency) => sys.queue_used > 0,
         NEW o \in close_function(id, device, stream)
  PROVE  CloseEffect(sys, o, id,
                     api = "alsa" /\ ~stream.is_virtual /\ ~stream.port_closed, WantsLink(device),
                     api = "alsa" /\ (stream.is_input \/ stream.latency))
<1>1. sys \in Sys /\ api \in {"alsa", "coremidi", "haiku", "winmm", "sndio"}
  BY DEF Types
<1>2. /\ stream.is_input \in BOOLEAN /\ stream.latency \in BOOLEAN
      /\ stream.is_virtual \in BOOLEAN /\ stream.port_closed \in BOOLEAN
  BY DEF Stream
<1>3. CASE api = "alsa"
  <2> DEFINE a == ClosePort(sys, stream)
             use == stream.is_input \/ stream.latency
  <2>1. /\ a \in Sys /\ a.links = sys.links
        /\ a.ports = sys.ports \ (IF ~stream.is_virtual /\ ~stream.port_closed THEN {id} ELSE {})
        /\ a.queue = sys.queue /\ a.queue_used = sys.queue_used
    <3>1. CASE stream.is_virtual \/ stream.port_closed
      BY <1>1, <3>1 DEF ClosePort
    <3>2. CASE ~(stream.is_virtual \/ stream.port_closed)
      <4>1. a = snd_seq_delete_port(sys, id)
        BY <3>2 DEF ClosePort
      <4> HIDE DEF a
      <4>2. /\ a \in Sys /\ a.links = sys.links /\ a.ports = sys.ports \ {id}
            /\ a.queue = sys.queue /\ a.queue_used = sys.queue_used
        BY <1>1, <4>1, DeletePortFacts
      <4> QED
        BY <3>2, <4>2
    <3> QED
      BY <3>1, <3>2
  <2>2. o = Done(IF use THEN alsa_unuse_queue(a) ELSE a)
    <3>1. CASE stream.is_input
      BY <1>3, <3>1 DEF close_function, alsa_in_close
    <3>2. CASE ~stream.is_input
      BY <1>3, <3>2 DEF close_function, alsa_out_close
    <3> QED
      BY <3>1, <3>2
  <2> HIDE DEF a
  <2>3. CASE use
    <3> DEFINE b == alsa_unuse_queue(a)
    <3>1. a.queue_used > 0
      BY <1>3, <2>1, <2>3
    <3>2. b \in Sys /\ b.ports = a.ports /\ b.links = a.links /\ Unused(a, b)
      BY <2>1, <3>1, UnuseQueueFacts
    <3>3. o.sys = b /\ o.ok = TRUE
      BY <2>2, <2>3, OutcomeFacts
    <3> HIDE DEF b
    <3>4. Unused(sys, b)
      BY <2>1, <3>2 DEF Unused
    <3> QED
      BY <1>3, <2>1, <2>3, <3>2, <3>3, <3>4 DEF CloseEffect, WantsLink
  <2>4. CASE ~use
    <3>1. o.sys = a /\ o.ok = TRUE
      BY <2>2, <2>4, OutcomeFacts
    <3> QED
      BY <1>3, <2>1, <2>4, <3>1 DEF CloseEffect, WantsLink
  <2> QED
    BY <2>3, <2>4
<1>4. CASE api # "alsa"
  <2>1. \/ WantsLink(device) /\ o = Done(Unlinked(sys, id))
        \/ ~WantsLink(device) /\ o = Done(sys)
        \/ api # "sndio" /\ o = Failed(sys)
        \/ o = Failed(NotReopened(sys, id))
    <3>1. CASE api = "coremidi"
      BY <1>4, <3>1 DEF close_function, coremidi_close, Unlink, WantsLink
    <3>2. CASE api = "haiku"
      BY <1>4, <3>2 DEF close_function, haiku_close, Unlink, WantsLink
    <3>3. CASE api = "winmm"
      BY <1>4, <3>3 DEF close_function, Unlink, WantsLink
    <3>4. CASE api = "sndio"
      BY <1>4, <3>4 DEF close_function, sndio_close, WantsLink
    <3> QED
      BY <1>1, <1>4, <3>1, <3>2, <3>3, <3>4
  <2>2. CASE WantsLink(device) /\ o = Done(Unlinked(sys, id))
    <3> DEFINE b == Unlinked(sys, id)
    <3>1. /\ b \in Sys /\ b.links = sys.links \ {id} /\ b.ports = sys.ports
          /\ b.queue = sys.queue /\ b.queue_used = sys.queue_used
      BY <1>1, UnlinkFacts
    <3>2. o.sys = b /\ o.ok = TRUE
      BY <2>2, OutcomeFacts
    <3> HIDE DEF b
    <3> QED
      BY <1>4, <2>2, <3>1, <3>2 DEF CloseEffect
  <2>3. CASE ~WantsLink(device) /\ o = Done(sys)
    BY <1>1, <1>4, <2>3, OutcomeFacts DEF CloseEffect
  <2>4. CASE api # "sndio" /\ o = Failed(sys)
    BY <1>1, <1>4, <2>4, OutcomeFacts DEF CloseEffect
  <2>5. CASE o = Failed(NotReopened(sys, id))
    <3> DEFINE b == NotReopened(sys, id)
    <3>1. /\ b \in Sys /\ b.links \subseteq sys.links /\ id \notin b.links
          /\ b.ports = sys.ports /\ b.queue = sys.queue /\ b.queue_used = sys.queue_used
      BY <1>1, NotReopenedFacts
    <3>2. o.sys = b /\ o.ok = FALSE
      BY <2>5, OutcomeFacts
    <3> HIDE DEF b
    <3> QED
      BY <1>4, <3>1, <3>2 DEF CloseEffect
  <2> QED
    BY <2>1, <2>2, <2>3, <2>4, <2>5
<1> QED
  BY <1>3, <1>4

\* An endpoint is created or not, and is gone whatever the backend says of deleting it.
LEMMA EndpointFacts ==
  ASSUME Types, NEW id \in Nat
  PROVE  /\ \A o \in create_endpoint(id) :
               /\ o.sys \in Sys /\ o.ok \in BOOLEAN /\ o.sys.links = sys.links
               /\ o.sys.ports = IF o.ok THEN sys.ports \union {id} ELSE sys.ports
               /\ o.sys.queue = sys.queue /\ o.sys.queue_used = sys.queue_used
         /\ \A o \in delete_endpoint(id) :
               /\ o.sys \in Sys /\ o.ok \in BOOLEAN /\ o.sys.links = sys.links
               /\ o.sys.ports = sys.ports \ {id}
               /\ o.sys.queue = sys.queue /\ o.sys.queue_used = sys.queue_used
<1>1. sys \in Sys
  BY DEF Types
<1>2. ASSUME NEW o \in create_endpoint(id)
      PROVE  /\ o.sys \in Sys /\ o.ok \in BOOLEAN /\ o.sys.links = sys.links
             /\ o.sys.ports = IF o.ok THEN sys.ports \union {id} ELSE sys.ports
             /\ o.sys.queue = sys.queue /\ o.sys.queue_used = sys.queue_used
  <2>1. CASE o = Failed(sys)
    BY <1>1, <2>1, OutcomeFacts
  <2>2. CASE o = Done([sys EXCEPT !.ports = @ \union {id}])
    <3> DEFINE b == [sys EXCEPT !.ports = @ \union {id}]
    <3>1. /\ b \in Sys /\ b.links = sys.links /\ b.ports = sys.ports \union {id}
          /\ b.queue = sys.queue /\ b.queue_used = sys.queue_used
      BY <1>1 DEF Sys
    <3>2. o.sys = b /\ o.ok = TRUE
      BY <2>2, OutcomeFacts
    <3> HIDE DEF b
    <3> QED
      BY <3>1, <3>2
  <2> QED
    BY <1>2, <2>1, <2>2
       DEF create_endpoint, alsa_create_virtual, midi_create_virtual, snd_seq_create_port
<1>3. ASSUME NEW o \in delete_endpoint(id)
      PROVE  /\ o.sys \in Sys /\ o.ok \in BOOLEAN /\ o.sys.links = sys.links
             /\ o.sys.ports = sys.ports \ {id}
             /\ o.sys.queue = sys.queue /\ o.sys.queue_used = sys.queue_used
  <2> DEFINE b == [sys EXCEPT !.ports = @ \ {id}]
  <2>1. /\ b \in Sys /\ b.links = sys.links /\ b.ports = sys.ports \ {id}
        /\ b.queue = sys.queue /\ b.queue_used = sys.queue_used
    BY <1>1 DEF Sys
  <2>2. o.sys = b /\ o.ok \in BOOLEAN
    <3>1. CASE api = "alsa"
      <4>1. o = [sys |-> b, ok |-> id \in sys.ports]
        BY <1>3, <3>1 DEF delete_endpoint, alsa_delete_virtual, snd_seq_delete_port
      <4> HIDE DEF b
      <4>2. (id \in sys.ports) \in BOOLEAN
        OBVIOUS
      <4> QED
        BY <4>1, <4>2
    <3>2. CASE api # "alsa"
      <4>1. o \in MayFail(b)
        BY <1>3, <3>2 DEF delete_endpoint, midi_delete_virtual
      <4> QED
        BY <4>1, OutcomeFacts DEF MayFail
    <3> QED
      BY <3>1, <3>2
  <2> HIDE DEF b
  <2> QED
    BY <2>1, <2>2
<1> QED
  BY <1>2, <1>3

-----------------------------------------------------------------------------
(* The invariant, action by action.                                        *)

\* At the start.
LEMMA InitEstablishes == Init => IInv
<1> SUFFICES ASSUME Init PROVE IInv
  OBVIOUS
<1>1. Ids(descriptors) = {} /\ DOMAIN streams = {} /\ Users = {}
  BY DEF Init, Ids, Users
<1>2. Types
  <2>1. api \in {"alsa", "coremidi", "haiku", "winmm", "sndio"}
    BY DevicesAssumption DEF Init
  <2>2. << >> \in Seq(Device) /\ << >> \in Seq(Stream) /\ Len(<< >>) = 0
    BY EmptySeq
  <2>3. sys \in Sys
    BY DEF Init, Sys
  <2> QED
    <3>1. descriptors = << >> /\ streams = << >> /\ pm_descriptor_max = 0 /\ failures = 0
      BY DEF Init
    <3>2. default_id \in [BOOLEAN -> Nat] /\ initialized \in BOOLEAN
      BY DEF Init, pmNoDevice
    <3>3. /\ descriptors \in Seq(Device) /\ streams \in Seq(Stream)
          /\ Len(descriptors) <= pm_descriptor_max
      BY <2>2, <3>1
    <3>4. pm_descriptor_max \in Nat /\ failures \in Nat
      BY <3>1
    <3> QED
      BY <2>1, <2>3, <3>1, <3>2, <3>3, <3>4 DEF Types
<1>3. Pairs /\ Claims
  BY <1>1 DEF Pairs, Claims
<1>4. Queue
  BY <1>1, FS_EmptySet DEF Queue, Init
<1>5. Held
  BY <1>1 DEF Held, Init, PortUsers, LinkUsers
<1> QED
  BY <1>2, <1>3, <1>4, <1>5 DEF IInv

\* There is room for the devices in the array.
LEMMA RoomFacts ==
  ASSUME Types, NEW id \in Nat, descriptors' \in Seq(Device),
         Ids(descriptors') \subseteq Ids(descriptors) \union {id},
         NEW room \in Nat, pm_descriptor_max <= room, id <= room
  PROVE  Len(descriptors') <= room
<1> DEFINE n == Len(descriptors')
           m == Len(descriptors)
<1>1. n \in Nat /\ m \in Nat /\ m <= pm_descriptor_max /\ pm_descriptor_max \in Nat
  BY LenProperties DEF Types
<1>2. n # 0 => n \in 1..m \union {id}
  BY <1>1 DEF Ids
<1> HIDE DEF n, m
<1>3. n <= room
  BY <1>1, <1>2
<1> QED
  BY <1>3 DEF n

\* The use of the queue depends on the streams only.
LEMMA QueueKeeps ==
  ASSUME Queue, UNCHANGED <<api, streams>>,
         sys'.queue = sys.queue, sys'.queue_used = sys.queue_used
  PROVE  Queue'
<1>1. Users' = Users /\ (NoneAbandoned' <=> NoneAbandoned)
  BY DEF Users, NoneAbandoned, IsOpen
<1> QED
  BY <1>1 DEF Queue

\* Devices that are not open need no connection.
LEMMA PutsNeeds ==
  ASSUME UNCHANGED <<api, streams>>, NEW id, NEW device, Puts(id, device), ~device.opened,
         id \in Ids(descriptors) => ~descriptors[id].opened
  PROVE  /\ LinkUsers' = LinkUsers /\ Lost' = Lost
         /\ PortUsers' = (PortUsers \ {id}) \union (IF NeedsPort(device) THEN {id} ELSE {})
<1>1. /\ Ids(descriptors') = Ids(descriptors) \union {id} /\ descriptors'[id] = device
      /\ \A i \in Ids(descriptors) : i # id => descriptors'[i] = descriptors[i]
  BY DEF Puts
<1>2. LinkUsers' = LinkUsers
  BY <1>1 DEF LinkUsers, NeedsLink
<1>3. PortUsers' = (PortUsers \ {id}) \union (IF NeedsPort(device) THEN {id} ELSE {})
  BY <1>1 DEF PortUsers, NeedsPort
<1>4. Lost' = Lost
  BY DEF Lost
<1> QED
  BY <1>2, <1>3, <1>4

\* And what is not there needs nothing.
LEMMA DropsNeeds ==
  ASSUME UNCHANGED <<api, streams>>, NEW id, Drops(id),
         id \in Ids(descriptors) => ~descriptors[id].opened
  PROVE  /\ LinkUsers' = LinkUsers /\ Lost' = Lost
         /\ PortUsers' = PortUsers \ {id}
<1>1. /\ Ids(descriptors') = Ids(descriptors) \ {id}
      /\ \A i \in Ids(descriptors') : descriptors'[i] = descriptors[i]
  BY DEF Drops
<1>2. LinkUsers' = LinkUsers
  BY <1>1 DEF LinkUsers, NeedsLink
<1>3. PortUsers' = PortUsers \ {id}
  BY <1>1 DEF PortUsers, NeedsPort
<1>4. Lost' = Lost
  BY DEF Lost
<1> QED
  BY <1>2, <1>3, <1>4

\* Pm_Initialize finds a registry without devices and no open stream.
LEMMA InitializeKeeps == IInv /\ Pm_Initialize => IInv'
<1> SUFFICES ASSUME IInv, Pm_Initialize PROVE IInv'
  OBVIOUS
<1>1. Types /\ Pairs /\ Claims /\ Queue /\ Held
  BY DEF IInv
<1>2. /\ ~initialized /\ initialized' = TRUE
      /\ UNCHANGED <<api, streams, failures>>
  BY DEF Pm_Initialize
<1>3. PICK found \in Hardware :
        LET devices == pm_init(found) IN
        /\ descriptors' = devices
        /\ pm_descriptor_max' = Capacity(Len(devices))
        /\ default_id' = [d \in BOOLEAN |-> IF default_id[d] = pmNoDevice \/ api = "sndio"
                                              THEN FirstOf(devices, d) ELSE default_id[d]]
        /\ sys' = [sys EXCEPT !.client = @ \/ (api = "coremidi" /\ found # << >>)]
  BY DEF Pm_Initialize
<1>4. descriptors' \in Seq(Fresh)
  BY <1>1, <1>3, InitDevices
<1>5. \A i \in Ids(descriptors') : descriptors'[i] \in Fresh
  BY <1>4, ElementOfSeq DEF Ids
<1>6. descriptors' \in Seq(Device) /\ Len(descriptors') \in Nat
  <2>1. Fresh \subseteq Device
    BY DEF Fresh
  <2> QED
    BY <1>4, <2>1, LenProperties, SeqMonotonic
<1>7. Ids(descriptors) = {}
  BY <1>1, <1>2 DEF Types, Ids
<1>8. \A s \in DOMAIN streams : ~IsOpen(s)
  BY <1>1, <1>7 DEF Pairs, StreamHasDevice
<1>9. /\ sys' \in Sys /\ sys'.ports = sys.ports /\ sys'.links = sys.links
      /\ sys'.queue = sys.queue /\ sys'.queue_used = sys.queue_used
  <2> DEFINE client == sys.client \/ (api = "coremidi" /\ found # << >>)
  <2>1. client \in BOOLEAN /\ sys' = [sys EXCEPT !.client = client] /\ sys \in Sys
    BY <1>1, <1>3 DEF Types
  <2> HIDE DEF client
  <2> QED
    BY <2>1 DEF Sys
<1>10. Types'
  <2>1. pm_descriptor_max' \in Nat /\ Len(descriptors') <= pm_descriptor_max'
    BY <1>1, <1>3, <1>6, CapacityFacts
  <2>2. default_id' \in [BOOLEAN -> Nat]
    <3>1. \A d \in BOOLEAN : FirstOf(descriptors', d) \in Nat /\ default_id[d] \in Nat
      BY <1>1, <1>6, DefaultFacts DEF Types
    <3> QED
      BY <1>3, <3>1
  <2> QED
    BY <1>1, <1>2, <1>6, <1>9, <2>1, <2>2 DEF Types
<1>11. Pairs'
  <2>1. \A s \in DOMAIN streams' : StreamHasDevice(s)'
    BY <1>2, <1>8 DEF StreamHasDevice, IsOpen
  <2>2. \A i \in Ids(descriptors') : DeviceHasStream(i)'
    BY <1>5 DEF DeviceHasStream, Fresh
  <2> QED
    BY <2>1, <2>2 DEF Pairs
<1>12. Claims'
  BY <1>5 DEF Claims, Claimed, Fresh
<1>13. Queue'
  BY <1>1, <1>2, <1>9, QueueKeeps
<1>14. Held'
  <2>1. PortUsers = {} /\ LinkUsers = {} /\ PortUsers' = {} /\ LinkUsers' = {}
    BY <1>5, <1>7 DEF PortUsers, LinkUsers, NeedsPort, NeedsLink, Fresh
  <2>2. Lost' = Lost
    BY <1>2 DEF Lost
  <2> QED
    BY <1>1, <1>2, <1>9, <2>1, <2>2 DEF Held
<1> QED
  BY <1>10, <1>11, <1>12, <1>13, <1>14 DEF IInv

\* Pm_Terminate leaves no device and no open stream, and nothing is held any more.
LEMMA TerminateKeeps == IInv /\ Pm_Terminate => IInv'
<1> SUFFICES ASSUME IInv, Pm_Terminate PROVE IInv'
  OBVIOUS
<1>1. Types /\ Pairs /\ Claims /\ Queue /\ Held
  BY DEF IInv
<1>2. /\ initialized' = FALSE /\ descriptors' = << >> /\ pm_descriptor_max' = 0
      /\ sys' = pm_term /\ UNCHANGED <<api, default_id, failures>>
  BY DEF Pm_Terminate, count
<1>3. streams' = [s \in DOMAIN streams |->
                    IF IsOpen(s) THEN [streams[s] EXCEPT !.status = "abandoned"] ELSE streams[s]]
  BY DEF Pm_Terminate
<1>4. /\ sys' \in Sys /\ sys'.ports = {} /\ sys'.links = {}
      /\ sys'.queue_used = sys.queue_used
      /\ sys.queue = "none" => sys'.queue = "none"
  <2>1. sys \in Sys /\ (api = "alsa" => sys.links = {})
        /\ (api \in {"winmm", "sndio"} => sys.ports = {})
        /\ api \in {"alsa", "coremidi", "haiku", "winmm", "sndio"}
    BY <1>1 DEF Types, Held
  <2>2. CASE api = "alsa"
    <3> DEFINE queue == IF sys.queue = "none" THEN "none" ELSE "stale"
    <3>1. sys' = [sys EXCEPT !.ports = {}, !.leaked = FALSE, !.queue = queue]
      BY <1>2, <2>2 DEF pm_term, pm_linuxalsa_term
    <3>2. queue \in {"none", "live", "stale"} /\ (sys.queue = "none" => queue = "none")
      OBVIOUS
    <3> HIDE DEF queue
    <3>3. sys' \in Sys
      BY <2>1, <3>1, <3>2 DEF Sys
    <3>4. sys'.ports = {} /\ sys'.queue = queue
      BY <2>1, <3>1 DEF Sys
    <3>5. sys'.links = sys.links /\ sys'.queue_used = sys.queue_used
      BY <2>1, <3>1 DEF Sys
    <3> QED
      BY <2>1, <2>2, <3>2, <3>3, <3>4, <3>5
  <2>3. CASE api \in {"coremidi", "haiku"}
    <3>1. sys' = [sys EXCEPT !.ports = {}, !.links = {}]
      BY <1>2, <2>3 DEF pm_term, pm_macosxcm_term, haiku_term
    <3> QED
      BY <2>1, <3>1 DEF Sys
  <2>4. CASE api \in {"winmm", "sndio"}
    <3>1. sys' = [sys EXCEPT !.links = {}]
      BY <1>2, <2>4 DEF pm_term, CloseAll
    <3> QED
      BY <2>1, <2>4, <3>1 DEF Sys
  <2> QED
    BY <2>1, <2>2, <2>3, <2>4
<1>5. /\ streams' \in Seq(Stream) /\ DOMAIN streams' = DOMAIN streams
      /\ \A s \in DOMAIN streams : ~IsOpen(s)'
  <2>1. streams \in Seq(Stream) /\ Len(streams) \in Nat /\ DOMAIN streams = 1..Len(streams)
    BY <1>1, LenProperties DEF Types
  <2>2. \A s \in DOMAIN streams : streams[s] \in Stream
    BY <2>1, ElementOfSeq
  <2>3. \A s \in DOMAIN streams : streams'[s] \in Stream /\ streams'[s].status # "open"
    <3> SUFFICES ASSUME NEW s \in DOMAIN streams
                 PROVE  streams'[s] \in Stream /\ streams'[s].status # "open"
      OBVIOUS
    <3>1. CASE IsOpen(s)
      <4>1. streams'[s] = [streams[s] EXCEPT !.status = "abandoned"] /\ streams[s] \in Stream
        BY <1>3, <2>2, <3>1
      <4> QED
        BY <4>1 DEF Stream
    <3>2. CASE ~IsOpen(s)
      BY <1>3, <2>2, <3>2 DEF IsOpen
    <3> QED
      BY <3>1, <3>2
  <2>4. streams' \in [1..Len(streams) -> Stream]
    BY <1>3, <2>1, <2>3
  <2> QED
    BY <2>1, <2>3, <2>4, SeqOfFunction DEF IsOpen
<1>6. Ids(descriptors') = {}
  BY <1>2 DEF Ids
<1>7. Types'
  <2>1. << >> \in Seq(Device) /\ Len(<< >>) = 0
    BY EmptySeq
  <2> QED
    <3>1. /\ descriptors' \in Seq(Device) /\ Len(descriptors') <= pm_descriptor_max'
          /\ pm_descriptor_max' \in Nat /\ initialized' \in BOOLEAN
      <4>1. descriptors' \in Seq(Device) /\ initialized' \in BOOLEAN
        BY <1>2, <2>1
      <4>2. Len(descriptors') = 0 /\ pm_descriptor_max' = 0
        BY <1>2, <2>1
      <4>3. Len(descriptors') <= pm_descriptor_max' /\ pm_descriptor_max' \in Nat
        BY <4>2
      <4> QED
        BY <4>1, <4>3
    <3>2. api' = api /\ default_id' = default_id /\ failures' = failures
      BY <1>2
    <3> QED
      BY <1>1, <1>2, <1>4, <1>5, <3>1, <3>2 DEF Types
<1>8. Pairs' /\ Claims'
  BY <1>5, <1>6 DEF Pairs, Claims, StreamHasDevice
<1>9. Queue'
  <2>1. Users' = {}
    BY <1>5 DEF Users
  <2>2. Cardinality(Users') = 0
    BY <2>1, FS_EmptySet
  <2>3. sys'.queue_used \in Nat
    BY <1>4 DEF Sys
  <2>4. ASSUME NoneAbandoned' PROVE NoneAbandoned /\ Users = {}
    <3>1. ASSUME NEW s \in DOMAIN streams
          PROVE  ~IsOpen(s) /\ streams[s].status # "abandoned"
      <4>1. streams'[s].status # "abandoned"
        BY <1>5, <2>4 DEF NoneAbandoned
      <4>2. IsOpen(s) => streams'[s].status = "abandoned"
        <5>1. ASSUME IsOpen(s) PROVE streams'[s].status = "abandoned"
          <6>1. streams'[s] = [streams[s] EXCEPT !.status = "abandoned"] /\ streams[s] \in Stream
            BY <1>1, <1>3, <5>1, ElementOfSeq, LenProperties DEF Types
          <6> QED
            BY <6>1 DEF Stream
        <5> QED
          BY <5>1
      <4> QED
        BY <1>3, <4>1, <4>2
    <3> QED
      BY <3>1 DEF NoneAbandoned, Users
  <2> QED
    <3>1. ASSUME api = "alsa", NoneAbandoned'
          PROVE  sys'.queue_used = 0 /\ sys'.queue = "none"
      <4>1. sys.queue_used = Cardinality(Users) /\ sys.queue = "none" /\ Users = {}
        BY <1>1, <2>4, <3>1 DEF Queue
      <4> QED
        BY <1>4, <4>1, FS_EmptySet
    <3>2. api' = "alsa" => sys'.queue_used >= Cardinality(Users')
      BY <2>2, <2>3
    <3> QED
      BY <1>2, <2>1, <2>2, <3>1, <3>2 DEF Queue
<1>10. Held'
  BY <1>2, <1>4, <1>6 DEF Held, PortUsers, LinkUsers
<1> QED
  BY <1>7, <1>8, <1>9, <1>10 DEF IInv

\* A call that changes nothing but what it returns.
LEMMA NothingKeeps ==
  ASSUME IInv, failures' \in Nat, failures' = 0 => failures = 0,
         UNCHANGED <<api, initialized, descriptors, pm_descriptor_max, default_id, streams, sys>>
  PROVE  IInv' /\ Stable
<1>1. Types /\ Pairs /\ Claims /\ Queue /\ Held
  BY DEF IInv
<1>2. Types'
  BY <1>1 DEF Types
<1>3. Pairs'
  BY <1>1 DEF Pairs, StreamHasDevice, DeviceHasStream, IsOpen
<1>4. Claims' /\ Stable
  BY <1>1 DEF Claims, Stable
<1>5. Queue'
  BY <1>1, QueueKeeps
<1>6. Held'
  <2>1. PortUsers' = PortUsers /\ LinkUsers' = LinkUsers /\ Lost' = Lost
    BY DEF PortUsers, LinkUsers, NeedsPort, NeedsLink, Lost
  <2> QED
    BY <1>1, <2>1 DEF Held
<1> QED
  BY <1>2, <1>3, <1>4, <1>5, <1>6 DEF IInv

\* What a call that registers or removes a virtual device leaves alone, and the room for it.
Registers(id) ==
  /\ initialized /\ UNCHANGED <<api, initialized, streams>>
  /\ pm_descriptor_max' \in Nat /\ pm_descriptor_max <= pm_descriptor_max'
  /\ id <= pm_descriptor_max' /\ default_id' \in [BOOLEAN -> Nat]
  /\ sys' \in Sys /\ sys'.links = sys.links
  /\ sys'.queue = sys.queue /\ sys'.queue_used = sys.queue_used
  /\ \A i : i # id => (i \in sys'.ports <=> i \in sys.ports)
  /\ api \in {"winmm", "sndio"} => sys'.ports = {}
  /\ failures' \in Nat /\ (failures' = 0 => failures = 0)

\* A device is put in a free place, with a port of its own or without.
LEMMA RegisterKeeps ==
  ASSUME IInv, NEW id \in Nat, NEW device \in Device, Registers(id),
         Puts(id, device), Free(id, device), ~device.opened, Claimed(device),
         id \in sys'.ports => NeedsPort(device) \/ id \in Lost,
         failures' = 0 /\ NeedsPort(device) => id \in sys'.ports
  PROVE  IInv' /\ Stable
<1>1. Types /\ Pairs /\ Claims /\ Queue /\ Held
  BY DEF IInv
<1>2. UNCHANGED <<api, streams>> /\ initialized' = initialized
  BY DEF Registers
<1>3. Pairs' /\ Claims' /\ Stable
  BY <1>1, <1>2, PutsKeeps
<1>4. Types'
  <2>1. descriptors' \in Seq(Device) /\ Ids(descriptors') \subseteq Ids(descriptors) \union {id}
    BY DEF Puts
  <2>2. Len(descriptors') <= pm_descriptor_max'
    BY <1>1, <2>1, RoomFacts DEF Registers
  <2> QED
    BY <1>1, <1>2, <2>1, <2>2 DEF Types, Registers
<1>5. Queue'
  BY <1>1, QueueKeeps DEF Registers
<1>6. Held'
  <2>1. /\ LinkUsers' = LinkUsers /\ Lost' = Lost
        /\ PortUsers' = (PortUsers \ {id}) \union (IF NeedsPort(device) THEN {id} ELSE {})
    BY <1>2, PutsNeeds DEF Free
  <2>2. sys'.ports \subseteq PortUsers' \union Lost
    BY <1>1, <2>1 DEF Held, Registers
  <2>3. failures' = 0 => PortUsers' \subseteq sys'.ports
    BY <1>1, <2>1 DEF Held, Registers
  <2> QED
    BY <1>1, <1>2, <2>1, <2>2, <2>3 DEF Held, Registers
<1> QED
  BY <1>3, <1>4, <1>5, <1>6 DEF IInv

\* The last device, which has been added for nothing or was deleted before, is taken away.
LEMMA RemoveKeeps ==
  ASSUME IInv, NEW id \in Nat, Registers(id), Drops(id),
         id \in Ids(descriptors) => descriptors[id].deleted,
         id \in sys'.ports => id \in Lost
  PROVE  IInv' /\ Stable
<1>1. Types /\ Pairs /\ Claims /\ Queue /\ Held
  BY DEF IInv
<1>2. UNCHANGED <<api, streams>> /\ initialized' = initialized
  BY DEF Registers
<1>3. Pairs' /\ Claims' /\ Stable
  BY <1>1, <1>2, DropsKeeps
<1>4. Types'
  <2>1. descriptors' \in Seq(Device) /\ Ids(descriptors') \subseteq Ids(descriptors) \union {id}
    BY DEF Drops
  <2>2. Len(descriptors') <= pm_descriptor_max'
    BY <1>1, <2>1, RoomFacts DEF Registers
  <2> QED
    BY <1>1, <1>2, <2>1, <2>2 DEF Types, Registers
<1>5. Queue'
  BY <1>1, QueueKeeps DEF Registers
<1>6. Held'
  <2>1. id \in Ids(descriptors) => ~descriptors[id].opened
    BY <1>1 DEF Pairs, DeviceHasStream
  <2>2. LinkUsers' = LinkUsers /\ Lost' = Lost /\ PortUsers' = PortUsers \ {id}
    BY <1>2, <2>1, DropsNeeds
  <2>3. sys'.ports \subseteq PortUsers' \union Lost
    BY <1>1, <2>2 DEF Held, Registers
  <2>4. failures' = 0 => PortUsers' \subseteq sys'.ports
    BY <1>1, <2>2 DEF Held, Registers
  <2> QED
    BY <1>1, <1>2, <2>2, <2>3, <2>4 DEF Held, Registers
<1> QED
  BY <1>3, <1>4, <1>5, <1>6 DEF IInv

\* The place that pm_add_device finds is free, and nobody has a port for it.
LEMMA PlaceIsFree ==
  ASSUME IInv, NEW name \in Names, NEW is_input \in BOOLEAN,
         NEW id, id = AddVirtual(descriptors, name, is_input).id, id # pmNoDevice
  PROVE  /\ id \in Nat
         /\ id \in Ids(descriptors) => descriptors[id].deleted
         /\ \A device : device.name = name /\ device.input = is_input => Free(id, device)
         /\ id \in sys.ports => id \in Lost
<1>1. Types /\ Pairs /\ Held
  BY DEF IInv
<1>2. /\ id \in Nat
      /\ IF id \in Ids(descriptors)
           THEN /\ descriptors[id].deleted
                /\ name = descriptors[id].name /\ is_input = descriptors[id].input
           ELSE Found(descriptors, name, is_input) = {}
  BY <1>1, AddFacts
<1>3. id \in Ids(descriptors) => descriptors[id].deleted /\ ~descriptors[id].opened
  BY <1>1, <1>2 DEF Pairs, DeviceHasStream
<1>4. \A device : device.name = name /\ device.input = is_input => Free(id, device)
  BY <1>2, <1>3 DEF Free, Claimed
<1>5. id \notin PortUsers
  BY <1>3 DEF PortUsers, NeedsPort
<1> QED
  BY <1>1, <1>2, <1>3, <1>4, <1>5 DEF Held

\* A new device that is virtual, and one that has been taken back.
LEMMA NewFacts ==
  ASSUME NEW name \in Names, NEW is_input \in BOOLEAN
  PROVE  LET new     == NewDevice(name, is_input)
             virtual == [new EXCEPT !.is_virtual = TRUE]
             deleted == [new EXCEPT !.deleted = TRUE, !.pm_internal = None]
         IN  /\ virtual \in Device /\ deleted \in Device
             /\ virtual.name = name /\ virtual.input = is_input
             /\ deleted.name = name /\ deleted.input = is_input
             /\ ~virtual.opened /\ ~deleted.opened /\ Claimed(virtual) /\ Claimed(deleted)
             /\ NeedsPort(virtual) /\ ~NeedsPort(deleted)
<1> DEFINE new     == NewDevice(name, is_input)
           virtual == [new EXCEPT !.is_virtual = TRUE]
           deleted == [new EXCEPT !.deleted = TRUE, !.pm_internal = None]
<1>1. /\ new \in Device /\ new.name = name /\ new.input = is_input /\ new.opened = FALSE
      /\ new.deleted = FALSE
  <2>1. name \in DeviceNames
    BY DEF DeviceNames
  <2> QED
    BY <2>1, NewIsFresh
<1> HIDE DEF new
<1>2. /\ virtual \in Device /\ virtual.name = name /\ virtual.input = is_input
      /\ virtual.opened = FALSE /\ virtual.is_virtual = TRUE /\ virtual.deleted = FALSE
  BY <1>1 DEF Device
<1>3. deleted \in Device
  BY <1>1 DEF Device, None
<1>4. deleted.name = name /\ deleted.input = is_input /\ deleted.opened = FALSE
  BY <1>1 DEF Device
<1>5. deleted.deleted = TRUE
  BY <1>1 DEF Device
<1> HIDE DEF virtual, deleted
<1> QED
  BY <1>2, <1>3, <1>4, <1>5 DEF Claimed, NeedsPort, new, virtual, deleted

\* What every call that adds a device leaves alone.
LEMMA RegistersFacts ==
  ASSUME IInv, initialized, UNCHANGED <<api, initialized, streams>>,
         NEW id \in Nat, NEW is_input \in BOOLEAN, Add(id),
         default_id' = DefaultAfter(id, is_input),
         sys' \in Sys, sys'.links = sys.links,
         sys'.queue = sys.queue, sys'.queue_used = sys.queue_used,
         sys'.ports \in {sys.ports, sys.ports \union {id}}, api \notin {"winmm", "sndio"},
         failures' \in Nat, failures' = 0 => failures = 0
  PROVE  Registers(id)
<1>1. Types
  BY DEF IInv
<1>2. /\ pm_descriptor_max' \in Nat /\ pm_descriptor_max <= pm_descriptor_max'
      /\ id <= pm_descriptor_max'
  BY <1>1, CapacityFacts DEF Add
<1>3. default_id' \in [BOOLEAN -> Nat]
  BY <1>1 DEF DefaultAfter, Types
<1> QED
  BY <1>2, <1>3 DEF Registers

\* A call of the backend, whose failures are counted.
LEMMA BackendFacts ==
  ASSUME Types, NEW o, o.ok \in BOOLEAN, Backend(o)
  PROVE  /\ sys' = o.sys /\ failures' \in Nat /\ (failures' = 0 => failures = 0 /\ o.ok)
         /\ ~o.ok => failures' # 0
BY DEF Types, Backend

\* A virtual device of ALSA or Core MIDI.
LEMMA CreateKeeps == IInv /\ CreateVirtual => IInv' /\ Stable
<1> SUFFICES ASSUME IInv, CreateVirtual PROVE IInv' /\ Stable
  OBVIOUS
<1>1. Types /\ failures \in Nat
  BY DEF IInv, Types
<1>2. initialized /\ UNCHANGED <<api, initialized, streams>> /\ api \notin {"winmm", "sndio"}
  BY DEF CreateVirtual, Create
<1>3. PICK name \in Names, is_input \in BOOLEAN :
        LET added == AddVirtual(descriptors, name, is_input)
            id    == added.id
        IN  IF id = pmNoDevice THEN Refuse("pmNameConflict")
            ELSE /\ Add(id)
                 /\ default_id' = DefaultAfter(id, is_input)
                 /\ \E o \in create_endpoint(id) :
                      /\ Backend(o)
                      /\ descriptors' = IF o.ok THEN [added.devices EXCEPT ![id].is_virtual = TRUE]
                                        ELSE pm_undo_add_device(added.devices, id)
  BY DEF CreateVirtual
<1> DEFINE added == AddVirtual(descriptors, name, is_input)
           id == added.id
<1>4. CASE id = pmNoDevice
  BY <1>1, <1>2, <1>3, <1>4, NothingKeeps DEF Refuse
<1>5. CASE id # pmNoDevice
  <2> DEFINE new == NewDevice(name, is_input)
             virtual == [new EXCEPT !.is_virtual = TRUE]
             deleted == [new EXCEPT !.deleted = TRUE, !.pm_internal = None]
  <2>1. /\ id \in Nat
        /\ id \in Ids(descriptors) => descriptors[id].deleted
        /\ \A device : device.name = name /\ device.input = is_input => Free(id, device)
        /\ id \in sys.ports => id \in Lost
    BY <1>5, PlaceIsFree
  <2>2. PICK o \in create_endpoint(id) :
          /\ Backend(o)
          /\ descriptors' = IF o.ok THEN [added.devices EXCEPT ![id].is_virtual = TRUE]
                            ELSE pm_undo_add_device(added.devices, id)
    BY <1>3, <1>5
  <2>3. /\ o.sys \in Sys /\ o.ok \in BOOLEAN /\ o.sys.links = sys.links
        /\ o.sys.ports = IF o.ok THEN sys.ports \union {id} ELSE sys.ports
        /\ o.sys.queue = sys.queue /\ o.sys.queue_used = sys.queue_used
    BY <1>1, <2>1, EndpointFacts
  <2>4. sys' = o.sys /\ failures' \in Nat /\ (failures' = 0 => failures = 0 /\ o.ok)
    BY <1>1, <2>2, <2>3, BackendFacts
  <2>5. IF o.ok THEN Puts(id, virtual) ELSE Drops(id) \/ Puts(id, deleted)
    BY <1>1, <1>5, <2>2, RegisterFacts
  <2>6. /\ virtual \in Device /\ deleted \in Device
        /\ virtual.name = name /\ virtual.input = is_input
        /\ deleted.name = name /\ deleted.input = is_input
        /\ ~virtual.opened /\ ~deleted.opened /\ Claimed(virtual) /\ Claimed(deleted)
        /\ NeedsPort(virtual) /\ ~NeedsPort(deleted)
    BY NewFacts
  <2>7. Add(id) /\ default_id' = DefaultAfter(id, is_input)
    BY <1>3, <1>5
  <2> HIDE DEF id, added, virtual, deleted, new
  <2>8. Registers(id)
    <3>1. /\ sys' \in Sys /\ sys'.links = sys.links
          /\ sys'.ports \in {sys.ports, sys.ports \union {id}}
          /\ sys'.queue = sys.queue /\ sys'.queue_used = sys.queue_used
      BY <2>3, <2>4
    <3> QED
      BY <1>2, <2>1, <2>4, <2>7, <3>1, RegistersFacts
  <2>9. CASE o.ok
    <3>1. id \in sys'.ports
      BY <2>3, <2>4, <2>9
    <3> QED
      BY <2>1, <2>5, <2>6, <2>8, <2>9, <3>1, RegisterKeeps
  <2>10. CASE ~o.ok /\ Drops(id)
    <3>1. id \in sys'.ports => id \in Lost
      BY <2>1, <2>3, <2>4, <2>10
    <3> QED
      BY <2>1, <2>8, <2>10, <3>1, RemoveKeeps
  <2>11. CASE ~o.ok /\ Puts(id, deleted)
    <3>1. id \in sys'.ports => id \in Lost
      BY <2>1, <2>3, <2>4, <2>11
    <3> QED
      BY <2>1, <2>6, <2>8, <2>11, <3>1, RegisterKeeps
  <2> QED
    BY <2>5, <2>9, <2>10, <2>11
<1> QED
  BY <1>4, <1>5

\* A virtual device of Haiku.
LEMMA CreateHaikuKeeps == IInv /\ create_virtual => IInv' /\ Stable
<1> SUFFICES ASSUME IInv, create_virtual PROVE IInv' /\ Stable
  OBVIOUS
<1>1. Types /\ failures \in Nat /\ sys \in Sys
  BY DEF IInv, Types
<1>2. initialized /\ UNCHANGED <<api, initialized, streams>> /\ api = "haiku"
  BY DEF create_virtual, Create
<1>3. CASE /\ failures' = failures + 1
           /\ UNCHANGED <<descriptors, pm_descriptor_max, default_id, sys, orphans>>
  BY <1>1, <1>2, <1>3, NothingKeeps
<1>4. CASE \E name \in Names, is_input \in BOOLEAN :
             LET added == AddVirtual(descriptors, name, is_input)
                 id    == added.id
             IN  IF id = pmNoDevice THEN Refuse("pmNameConflict")
                 ELSE /\ Add(id)
                      /\ default_id' = DefaultAfter(id, is_input)
                      /\ sys' = [sys EXCEPT !.ports = @ \union {id}] /\ UNCHANGED failures
                      /\ descriptors' = [added.devices EXCEPT ![id].is_virtual = TRUE]
  <2>1. PICK name \in Names, is_input \in BOOLEAN :
          LET added == AddVirtual(descriptors, name, is_input)
              id    == added.id
          IN  IF id = pmNoDevice THEN Refuse("pmNameConflict")
              ELSE /\ Add(id)
                   /\ default_id' = DefaultAfter(id, is_input)
                   /\ sys' = [sys EXCEPT !.ports = @ \union {id}] /\ UNCHANGED failures
                   /\ descriptors' = [added.devices EXCEPT ![id].is_virtual = TRUE]
    BY <1>4
  <2> DEFINE added == AddVirtual(descriptors, name, is_input)
             id == added.id
             new == NewDevice(name, is_input)
             virtual == [new EXCEPT !.is_virtual = TRUE]
  <2>2. CASE id = pmNoDevice
    BY <1>1, <1>2, <2>1, <2>2, NothingKeeps DEF Refuse
  <2>3. CASE id # pmNoDevice
    <3>1. /\ id \in Nat
          /\ \A device : device.name = name /\ device.input = is_input => Free(id, device)
      BY <2>3, PlaceIsFree
    <3>2. Puts(id, virtual)
      BY <1>1, <2>1, <2>3, RegisterFacts
    <3>3. /\ virtual \in Device /\ virtual.name = name /\ virtual.input = is_input
          /\ ~virtual.opened /\ Claimed(virtual) /\ NeedsPort(virtual)
      BY NewFacts
    <3>4. /\ Add(id) /\ default_id' = DefaultAfter(id, is_input)
          /\ sys' = [sys EXCEPT !.ports = @ \union {id}] /\ UNCHANGED failures
      BY <2>1, <2>3
    <3> HIDE DEF id, added, virtual, new
    <3>5. /\ sys' \in Sys /\ sys'.links = sys.links /\ sys'.ports = sys.ports \union {id}
          /\ sys'.queue = sys.queue /\ sys'.queue_used = sys.queue_used
      BY <1>1, <3>1, <3>4 DEF Sys
    <3>6. Registers(id)
      BY <1>1, <1>2, <3>1, <3>4, <3>5, RegistersFacts
    <3>7. id \in sys'.ports
      BY <3>5
    <3> QED
      BY <3>1, <3>2, <3>3, <3>6, <3>7, RegisterKeeps
  <2> QED
    BY <2>2, <2>3
<1> QED
  BY <1>3, <1>4 DEF create_virtual

\* WinMM and sndio refuse.
LEMMA NoInterfaceKeeps == IInv /\ NoInterface => IInv' /\ Stable
<1> SUFFICES ASSUME IInv, NoInterface PROVE IInv' /\ Stable
  OBVIOUS
<1>1. failures \in Nat
  BY DEF IInv, Types
<1> QED
  BY <1>1, NothingKeeps DEF NoInterface, Refuse

\* A virtual device keeps its place when it is deleted, and its name for the next of its kind.
LEMMA DeleteKeeps == IInv /\ Pm_DeleteVirtualDevice => IInv' /\ Stable
<1> SUFFICES ASSUME IInv, Pm_DeleteVirtualDevice PROVE IInv' /\ Stable
  OBVIOUS
<1>1. Types /\ Held /\ failures \in Nat
  BY DEF IInv, Types
<1>2. UNCHANGED <<api, initialized, pm_descriptor_max, default_id, streams>>
  BY DEF Pm_DeleteVirtualDevice
<1>3. PICK id \in Ids(descriptors) :
        /\ descriptors[id].is_virtual
        /\ IF descriptors[id].opened \/ descriptors[id].deleted
            THEN UNCHANGED <<descriptors, sys, failures, orphans>>
            ELSE /\ \E o \in delete_endpoint(id) : Backend(o)
                 /\ descriptors' = [descriptors EXCEPT ![id].deleted = TRUE,
                                                       ![id].pm_internal = None]
  BY DEF Pm_DeleteVirtualDevice
<1>4. CASE descriptors[id].opened \/ descriptors[id].deleted
  BY <1>1, <1>2, <1>3, <1>4, NothingKeeps
<1>5. CASE ~(descriptors[id].opened \/ descriptors[id].deleted)
  <2> DEFINE old == descriptors[id]
             device == [old EXCEPT !.deleted = TRUE, !.pm_internal = None]
  <2>1. /\ id \in Nat /\ id <= pm_descriptor_max /\ pm_descriptor_max \in Nat
        /\ descriptors \in Seq(Device) /\ old \in Device
    BY <1>1, ElementOfSeq, LenProperties DEF Types, Ids
  <2>2. PICK o \in delete_endpoint(id) : Backend(o)
    BY <1>3, <1>5
  <2>3. /\ o.sys \in Sys /\ o.ok \in BOOLEAN /\ o.sys.links = sys.links
        /\ o.sys.ports = sys.ports \ {id}
        /\ o.sys.queue = sys.queue /\ o.sys.queue_used = sys.queue_used
    BY <1>1, <2>1, EndpointFacts
  <2>4. sys' = o.sys /\ failures' \in Nat /\ (failures' = 0 => failures = 0)
    BY <1>1, <2>2, <2>3, BackendFacts
  <2>5. initialized
    BY <1>1, <1>3 DEF Types, Ids
  <2>6. descriptors' = [descriptors EXCEPT ![id] = device]
    BY <1>3, <1>5
  <2>7. old.is_virtual /\ ~old.opened
    BY <1>3, <1>5
  <2> HIDE DEF old
  <2>8. /\ device \in Device
    BY <2>1 DEF Device, None
  <2>9. device.name = old.name /\ device.input = old.input /\ device.opened = old.opened
    BY <2>1 DEF Device
  <2>10. device.deleted = TRUE
    BY <2>1 DEF Device
  <2> HIDE DEF device
  <2>11. Puts(id, device)
    <3>1. Ids(descriptors) = Ids(descriptors) \union {id}
      OBVIOUS
    <3> QED
      BY <2>1, <2>6, <2>8, <3>1, PutFacts
  <2>12. Free(id, device) /\ ~device.opened /\ Claimed(device) /\ ~NeedsPort(device)
    BY <2>7, <2>9, <2>10 DEF Free, Claimed, NeedsPort, old
  <2>13. Registers(id) /\ id \notin sys'.ports
    <3>1. default_id \in [BOOLEAN -> Nat]
      BY <1>1 DEF Types
    <3> QED
      BY <1>1, <1>2, <2>1, <2>3, <2>4, <2>5, <3>1 DEF Registers, Held
  <2> QED
    BY <2>1, <2>8, <2>11, <2>12, <2>13, RegisterKeeps
<1> QED
  BY <1>4, <1>5

\* A descriptor that is marked as open or closed.
LEMMA MarkFacts ==
  ASSUME Types, NEW id \in Ids(descriptors), NEW opened \in BOOLEAN, NEW pm_internal \in Nat,
         descriptors' = [descriptors EXCEPT ![id].opened = opened, ![id].pm_internal = pm_internal]
  PROVE  /\ Marks(id, opened, pm_internal) /\ Len(descriptors') = Len(descriptors)
         /\ descriptors'[id].opened = opened /\ descriptors'[id].pm_internal = pm_internal
<1> DEFINE old == descriptors[id]
           device == [old EXCEPT !.opened = opened, !.pm_internal = pm_internal]
<1>1. /\ id \in 1..Len(descriptors) /\ descriptors \in Seq(Device) /\ old \in Device
  BY ElementOfSeq DEF Types, Ids
<1>2. descriptors' = [descriptors EXCEPT ![id] = device]
  OBVIOUS
<1> HIDE DEF old
<1>3. device \in Device
  BY <1>1 DEF Device
<1>4. device.opened = opened
  BY <1>1 DEF Device
<1>5. device.pm_internal = pm_internal
  BY <1>1 DEF Device
<1>6. device = [descriptors[id] EXCEPT !.opened = opened, !.pm_internal = pm_internal]
  BY DEF old
<1> HIDE DEF device
<1>7. /\ descriptors' \in Seq(Device) /\ Len(descriptors') = Len(descriptors)
      /\ \A i \in 1..Len(descriptors) :
            descriptors'[i] = IF i = id THEN device ELSE descriptors[i]
  <2> DEFINE after == descriptors'
  <2>1. after = [descriptors EXCEPT ![id] = device]
    BY <1>2
  <2> HIDE DEF after
  <2>2. /\ after \in Seq(Device) /\ Len(after) = Len(descriptors)
        /\ \A i \in 1..Len(descriptors) : after[i] = IF i = id THEN device ELSE descriptors[i]
    BY <1>1, <1>3, <2>1, ExceptSeq
  <2> QED
    BY <2>2 DEF after
<1>8. descriptors'[id] = device /\ Ids(descriptors') = Ids(descriptors)
  BY <1>1, <1>7 DEF Ids
<1>9. Marks(id, opened, pm_internal)
  BY <1>6, <1>7, <1>8 DEF Marks, Ids
<1> QED
  BY <1>4, <1>5, <1>7, <1>8, <1>9

\* The users of the queue can be counted.
LEMMA UsersAreFinite ==
  ASSUME Types
  PROVE  IsFiniteSet(Users) /\ Cardinality(Users) \in Nat /\ (Cardinality(Users) = 0 <=> Users = {})
<1>1. DOMAIN streams = 1..Len(streams) /\ Len(streams) \in Nat
  BY LenProperties DEF Types
<1>2. IsFiniteSet(1..Len(streams))
  BY <1>1, FS_Interval
<1>3. Users \subseteq 1..Len(streams)
  BY <1>1 DEF Users
<1>4. IsFiniteSet(Users)
  BY <1>2, <1>3, FS_Subset
<1> QED
  BY <1>4, FS_CardinalityType, FS_EmptySet

\* A device is opened.
LEMMA OpenSucceeds ==
  ASSUME IInv, NEW id \in Ids(descriptors), NEW latency \in BOOLEAN,
         ~descriptors[id].deleted, ~descriptors[id].opened,
         UNCHANGED <<api, initialized, pm_descriptor_max, default_id, failures>>,
         NEW o, o.ok, sys' = o.sys,
         OpenEffect(sys, o, id, WantsPort(descriptors[id]), WantsLink(descriptors[id]),
                    api = "alsa" /\ (descriptors[id].input \/ latency)),
         Opened(id, NewStream(id, latency))
  PROVE  IInv' /\ Stable
<1> DEFINE stream == NewStream(id, latency)
           n == Len(streams) + 1
           use == descriptors[id].input \/ latency
<1>1. Types /\ Pairs /\ Claims /\ Queue /\ Held
  BY DEF IInv
<1>2. /\ descriptors[id] \in Device /\ id \in Nat
      /\ streams \in Seq(Stream) /\ Len(streams) \in Nat /\ DOMAIN streams = 1..Len(streams)
  BY <1>1, ElementOfSeq, LenProperties DEF Types, Ids
<1>3. /\ stream \in Stream /\ stream.device_id = id /\ stream.is_input = descriptors[id].input
      /\ stream.is_virtual = descriptors[id].is_virtual /\ stream.latency = latency
      /\ stream.port_closed = FALSE /\ stream.status = "open"
  BY <1>2 DEF NewStream, Stream, Device
<1> HIDE DEF stream
<1>4. streams' = Append(streams, stream)
  BY DEF Opened, stream
<1>5. /\ streams' \in Seq(Stream) /\ Len(streams') = n /\ DOMAIN streams' = 1..n
      /\ \A s \in DOMAIN streams : streams'[s] = streams[s]
      /\ streams'[n] = stream
  <2> DEFINE after == streams'
  <2>1. after = Append(streams, stream)
    BY <1>4
  <2> HIDE DEF after
  <2>2. /\ after \in Seq(Stream) /\ Len(after) = n
        /\ \A s \in 1..Len(streams) : after[s] = streams[s]
        /\ after[n] = stream
    BY <1>2, <1>3, <2>1, AppendProperties
  <2>3. DOMAIN after = 1..n
    BY <2>2, LenProperties
  <2> QED
    BY <1>2, <2>2, <2>3 DEF after
<1>6. /\ Marks(id, TRUE, n) /\ Len(descriptors') = Len(descriptors)
      /\ descriptors'[id].opened = TRUE /\ descriptors'[id].pm_internal = n
  <2>1. n \in Nat /\ descriptors' = [descriptors EXCEPT ![id].opened = TRUE, ![id].pm_internal = n]
    BY <1>2 DEF Opened
  <2> HIDE DEF n
  <2> QED
    BY <1>1, <2>1, MarkFacts
<1>7. /\ Claims' /\ Stable
      /\ \A i \in Ids(descriptors) :
            /\ descriptors'[i].name = descriptors[i].name
            /\ descriptors'[i].input = descriptors[i].input
            /\ descriptors'[i].is_virtual = descriptors[i].is_virtual
            /\ descriptors'[i].deleted = descriptors[i].deleted
  <2> HIDE DEF n
  <2> QED
    BY <1>1, <1>6, MarksKeeps
<1>8. /\ Ids(descriptors') = Ids(descriptors) /\ descriptors' \in Seq(Device)
      /\ \A i \in Ids(descriptors) : i # id => descriptors'[i] = descriptors[i]
  BY <1>6 DEF Marks
<1>9. n \notin DOMAIN streams /\ DOMAIN streams' = DOMAIN streams \union {n} /\ n \in Nat
  BY <1>2, <1>5
<1> HIDE DEF n
<1>10. Types'
  <2>1. sys' \in Sys
    BY DEF OpenEffect
  <2>2. initialized
    BY <1>1 DEF Types, Ids
  <2>3. Len(descriptors') <= pm_descriptor_max'
    BY <1>1, <1>6 DEF Types
  <2> QED
    BY <1>1, <1>5, <1>8, <2>1, <2>2, <2>3 DEF Types
<1>11. streams'[n].status = "open" /\ \A s \in DOMAIN streams : (IsOpen(s)' <=> IsOpen(s))
  BY <1>3, <1>5 DEF IsOpen
<1>12. Pairs'
  <2>1. ASSUME NEW s \in DOMAIN streams' PROVE StreamHasDevice(s)'
    <3>1. CASE s = n
      BY <1>3, <1>5, <1>6, <1>7, <1>8, <3>1 DEF StreamHasDevice
    <3>2. CASE s # n
      <4>1. s \in DOMAIN streams /\ streams'[s] = streams[s] /\ StreamHasDevice(s)
        BY <1>1, <1>5, <1>9, <3>2 DEF Pairs
      <4>2. IsOpen(s) => streams[s].device_id # id
        BY <4>1 DEF StreamHasDevice
      <4> QED
        BY <1>8, <1>11, <4>1, <4>2 DEF StreamHasDevice
    <3> QED
      BY <3>1, <3>2
  <2>2. ASSUME NEW i \in Ids(descriptors') PROVE DeviceHasStream(i)'
    <3>1. CASE i = id
      <4>1. /\ descriptors'[i].pm_internal = n /\ n \in DOMAIN streams'
            /\ streams'[n].device_id = i
        BY <1>3, <1>5, <1>6, <1>9, <3>1
      <4>2. ~descriptors'[i].deleted
        BY <1>7, <3>1
      <4> QED
        BY <1>11, <4>1, <4>2 DEF DeviceHasStream, IsOpen
    <3>2. CASE i # id
      <4>1. i \in Ids(descriptors) /\ descriptors'[i] = descriptors[i]
        BY <1>8, <3>2
      <4>2. DeviceHasStream(i)
        BY <1>1, <4>1 DEF Pairs
      <4> QED
        BY <1>5, <1>9, <1>11, <4>1, <4>2 DEF DeviceHasStream
    <3> QED
      BY <3>1, <3>2
  <2> QED
    BY <2>1, <2>2 DEF Pairs
<1>13. Queue'
  <2> SUFFICES ASSUME api = "alsa"
               PROVE  /\ sys'.queue_used >= Cardinality(Users')
                      /\ NoneAbandoned' => /\ sys'.queue_used = Cardinality(Users')
                                           /\ sys'.queue = IF Users' = {} THEN "none" ELSE "live"
    BY DEF Queue
  <2>1. /\ sys.queue_used >= Cardinality(Users) /\ sys.queue_used \in Nat
        /\ NoneAbandoned => /\ sys.queue_used = Cardinality(Users)
                            /\ sys.queue = IF Users = {} THEN "none" ELSE "live"
    BY <1>1 DEF Queue, Types, Sys
  <2>2. Users' = Users \union (IF use THEN {n} ELSE {})
    <3>1. /\ streams'[n].is_input = descriptors[id].input
          /\ streams'[n].latency = latency
      BY <1>3, <1>5
    <3>2. \A s : s \in Users' <=> s \in Users \/ (use /\ s = n)
      BY <1>5, <1>9, <1>11, <3>1 DEF Users, IsOpen
    <3> QED
      BY <3>2
  <2>3. NoneAbandoned' <=> NoneAbandoned
    BY <1>3, <1>5, <1>9 DEF NoneAbandoned
  <2>4. /\ IsFiniteSet(Users) /\ Cardinality(Users) \in Nat
        /\ (Cardinality(Users) = 0 <=> Users = {})
    BY <1>1, UsersAreFinite
  <2>5. n \notin Users
    BY <1>9 DEF Users
  <2>6. CASE use
    <3>1. Cardinality(Users') = Cardinality(Users) + 1 /\ Users' # {}
      BY <2>2, <2>4, <2>5, <2>6, FS_AddElement
    <3>2. /\ sys'.queue_used = sys.queue_used + 1
          /\ sys'.queue = IF sys.queue_used = 0 THEN "live" ELSE sys.queue
      BY <2>6 DEF OpenEffect, Used
    <3> QED
      BY <2>1, <2>3, <2>4, <3>1, <3>2
  <2>7. CASE ~use
    <3>1. Users' = Users
      BY <2>2, <2>7
    <3>2. /\ sys'.queue_used = sys.queue_used
          /\ sys'.queue = sys.queue \/ (sys.queue_used = 0 /\ sys'.queue = "none")
      BY <2>7 DEF OpenEffect, SameUse
    <3> QED
      BY <2>1, <2>3, <2>4, <3>1, <3>2
  <2> QED
    BY <2>6, <2>7
<1>14. Held'
  <2> DEFINE device == descriptors[id]
  <2>1. /\ sys'.ports = sys.ports \union (IF WantsPort(device) THEN {id} ELSE {})
        /\ sys'.links = sys.links \union (IF WantsLink(device) THEN {id} ELSE {})
    BY DEF OpenEffect
  <2>2. Lost' = Lost
    <3>1. \A s \in DOMAIN streams' :
             (streams'[s].port_closed \/ streams'[s].status = "stuck") <=>
                s \in DOMAIN streams /\ (streams[s].port_closed \/ streams[s].status = "stuck")
      BY <1>3, <1>5, <1>9
    <3> QED
      BY <1>5, <1>9, <3>1 DEF Lost
  <2>3. PortUsers' = PortUsers \union (IF WantsPort(device) THEN {id} ELSE {})
    <3>1. \A i \in Ids(descriptors) :
             i # id => (NeedsPort(descriptors[i])' <=> NeedsPort(descriptors[i]))
      BY <1>8 DEF NeedsPort
    <3>2. NeedsPort(descriptors[id])' <=> device.is_virtual \/ api = "alsa"
      BY <1>6, <1>7 DEF NeedsPort
    <3>3. NeedsPort(descriptors[id]) <=> device.is_virtual
      BY DEF NeedsPort
    <3> QED
      BY <1>8, <3>1, <3>2, <3>3 DEF PortUsers, WantsPort
  <2>4. LinkUsers' = LinkUsers \union (IF WantsLink(device) THEN {id} ELSE {})
    <3>1. \A i \in Ids(descriptors) :
             i # id => (NeedsLink(descriptors[i])' <=> NeedsLink(descriptors[i]))
      BY <1>8 DEF NeedsLink
    <3>2. NeedsLink(descriptors[id])' <=> WantsLink(device)
      BY <1>6, <1>7 DEF NeedsLink, WantsLink, NeedsConnection
    <3>3. ~NeedsLink(descriptors[id])
      BY DEF NeedsLink
    <3> QED
      BY <1>8, <3>1, <3>2, <3>3 DEF LinkUsers
  <2> HIDE DEF device
  <2>5. sys'.ports \subseteq PortUsers' \union Lost' /\ sys'.links \subseteq LinkUsers' \union Lost'
    BY <1>1, <2>1, <2>2, <2>3, <2>4 DEF Held
  <2>6. failures' = 0 => PortUsers' \subseteq sys'.ports /\ LinkUsers' \subseteq sys'.links
    BY <1>1, <2>1, <2>3, <2>4 DEF Held
  <2>7. api = "alsa" => sys'.links = {}
    BY <1>1, <2>1 DEF Held, WantsLink
  <2>8. api \in {"winmm", "sndio"} => sys'.ports = {}
    BY <1>1, <2>1 DEF Held, WantsPort
  <2> QED
    BY <2>5, <2>6, <2>7, <2>8 DEF Held
<1> QED
  BY <1>7, <1>10, <1>12, <1>13, <1>14 DEF IInv

\* Opening a device, by a call that succeeds, fails or is refused.
LEMMA OpenKeeps ==
  ASSUME IInv, NEW is_input \in BOOLEAN, NEW latency \in BOOLEAN, Open(is_input, latency)
  PROVE  IInv' /\ Stable
<1>1. Types /\ failures \in Nat
  BY DEF IInv, Types
<1>2. UNCHANGED <<api, initialized, pm_descriptor_max, default_id>>
  BY DEF Open
<1>3. PICK id \in Ids(descriptors) :
        /\ ~descriptors[id].deleted
        /\ LET device == descriptors[id] IN
           IF device.input # is_input \/ ~CanOpen(id)
             THEN Refused("pmInvalidDeviceId") /\ UNCHANGED <<sys, failures>>
             ELSE \E o \in open_function(id, device, latency) :
                    /\ Backend(o)
                    /\ IF o.ok
                         THEN Opened(id, NewStream(id, latency))
                         ELSE Refused("pmHostError")
  BY DEF Open
<1>4. CASE descriptors[id].input # is_input \/ ~CanOpen(id)
  BY <1>1, <1>2, <1>3, <1>4, NothingKeeps DEF Refused
<1>5. CASE ~(descriptors[id].input # is_input \/ ~CanOpen(id))
  <2>1. PICK o \in open_function(id, descriptors[id], latency) :
          /\ Backend(o)
          /\ IF o.ok
               THEN Opened(id, NewStream(id, latency))
               ELSE Refused("pmHostError")
    BY <1>3, <1>5
  <2>2. OpenEffect(sys, o, id, WantsPort(descriptors[id]), WantsLink(descriptors[id]),
                   api = "alsa" /\ (descriptors[id].input \/ latency))
    BY <1>1, OpenFunctionFacts
  <2>3. o.ok \in BOOLEAN
    BY <2>2 DEF OpenEffect
  <2>4. CASE o.ok
    <3>1. sys' = o.sys /\ UNCHANGED failures
      BY <2>1, <2>4 DEF Backend
    <3>2. ~descriptors[id].deleted /\ ~descriptors[id].opened
      BY <1>3, <1>5 DEF CanOpen
    <3>3. Opened(id, NewStream(id, latency))
      BY <2>1, <2>4
    <3> QED
      BY <1>2, <2>2, <2>4, <3>1, <3>2, <3>3, OpenSucceeds
  <2>5. CASE ~o.ok
    <3>1. /\ sys' = o.sys /\ failures' \in Nat /\ failures' # 0
          /\ UNCHANGED <<streams, descriptors>>
      BY <1>1, <2>1, <2>3, <2>5, BackendFacts DEF Refused
    <3>2. /\ sys' \in Sys /\ sys'.ports \subseteq sys.ports /\ sys'.links \subseteq sys.links
          /\ SameUse(sys, sys')
      BY <2>2, <2>5, <3>1 DEF OpenEffect
    <3>3. Pairs /\ Claims /\ Queue /\ Held
      BY DEF IInv
    <3>4. Types'
      BY <1>1, <1>2, <3>1, <3>2 DEF Types
    <3>5. Pairs' /\ Claims' /\ Stable
      BY <3>1, <3>3 DEF Pairs, Claims, Stable, StreamHasDevice, DeviceHasStream, IsOpen
    <3>6. Queue'
      <4>1. Users' = Users /\ (NoneAbandoned' <=> NoneAbandoned)
        BY <3>1 DEF Users, NoneAbandoned, IsOpen
      <4>2. Cardinality(Users) = 0 <=> Users = {}
        BY <1>1, UsersAreFinite
      <4> QED
        BY <1>2, <3>2, <3>3, <4>1, <4>2 DEF Queue, SameUse
    <3>7. Held'
      <4>1. PortUsers' = PortUsers /\ LinkUsers' = LinkUsers /\ Lost' = Lost
        BY <1>2, <3>1 DEF PortUsers, LinkUsers, NeedsPort, NeedsLink, Lost
      <4> QED
        BY <1>2, <3>1, <3>2, <3>3, <4>1 DEF Held
    <3> QED
      BY <3>4, <3>5, <3>6, <3>7 DEF IInv
  <2> QED
    BY <2>3, <2>4, <2>5
<1> QED
  BY <1>4, <1>5

\* A stream that changes its status or is told that its port is closed.
LEMMA StreamFacts ==
  ASSUME Types, NEW s \in DOMAIN streams, NEW stream \in Stream,
         streams' = [streams EXCEPT ![s] = stream]
  PROVE  /\ streams' \in Seq(Stream) /\ DOMAIN streams' = DOMAIN streams
         /\ streams'[s] = stream /\ \A t \in DOMAIN streams : t # s => streams'[t] = streams[t]
<1>1. streams \in Seq(Stream) /\ DOMAIN streams = 1..Len(streams) /\ Len(streams) \in Nat
  BY LenProperties DEF Types
<1> DEFINE after == streams'
<1>2. after = [streams EXCEPT ![s] = stream] /\ s \in 1..Len(streams)
  BY <1>1
<1> HIDE DEF after
<1>3. /\ after \in Seq(Stream) /\ Len(after) = Len(streams)
      /\ \A t \in 1..Len(streams) : after[t] = IF t = s THEN stream ELSE streams[t]
  BY <1>1, <1>2, ExceptSeq
<1>4. DOMAIN after = DOMAIN streams
  BY <1>1, <1>3, LenProperties
<1> QED
  BY <1>1, <1>3, <1>4 DEF after

\* Pm_Close: the stream has its device, which is closed whatever the backend answers.
LEMMA CloseKeeps == IInv /\ Pm_Close => IInv' /\ Stable
<1> SUFFICES ASSUME IInv, Pm_Close PROVE IInv' /\ Stable
  OBVIOUS
<1>1. Types /\ Pairs /\ Claims /\ Queue /\ Held
  BY DEF IInv
<1>2. UNCHANGED <<api, initialized, pm_descriptor_max, default_id>>
  BY DEF Pm_Close
<1>3. PICK s \in DOMAIN streams :
        LET stream == streams[s]
            id     == stream.device_id
        IN  /\ IsOpen(s)
            /\ IF id \notin Ids(descriptors) \/ ~descriptors[id].opened
                 THEN result' = "pmBadPtr" /\ UNCHANGED <<streams, descriptors, sys, failures>>
                 ELSE \E o \in close_function(id, descriptors[id], stream) :
                      /\ Backend(o)
                      /\ descriptors' = [descriptors EXCEPT ![id].opened = FALSE,
                                                            ![id].pm_internal = None]
                      /\ LET ok == o.ok \/ api = "sndio" IN
                         streams' = [streams EXCEPT ![s].status = IF ok THEN "closed" ELSE "stuck"]
  BY DEF Pm_Close
<1> DEFINE stream == streams[s]
           id == stream.device_id
           device == descriptors[id]
           use == stream.is_input \/ stream.latency
<1>4. /\ id \in Ids(descriptors) /\ device.opened /\ device.pm_internal = s
      /\ device.input = stream.is_input /\ device.is_virtual = stream.is_virtual
  BY <1>1, <1>3 DEF Pairs, StreamHasDevice
<1>5. PICK o \in close_function(id, device, stream) :
        /\ Backend(o)
        /\ descriptors' = [descriptors EXCEPT ![id].opened = FALSE, ![id].pm_internal = None]
        /\ LET ok == o.ok \/ api = "sndio" IN
           streams' = [streams EXCEPT ![s].status = IF ok THEN "closed" ELSE "stuck"]
  BY <1>3, <1>4
<1>6. stream \in Stream /\ id \in Nat /\ device \in Device
  BY <1>1, <1>4, ElementOfSeq, LenProperties DEF Types, Ids
<1>7. /\ IsFiniteSet(Users) /\ Cardinality(Users) \in Nat
      /\ (Cardinality(Users) = 0 <=> Users = {})
      /\ s \in Users <=> use
  BY <1>1, <1>3, UsersAreFinite DEF Users
<1>8. api = "alsa" /\ use => sys.queue_used > 0
  BY <1>1, <1>7 DEF Queue, Types, Sys
<1>9. CloseEffect(sys, o, id,
                  api = "alsa" /\ ~stream.is_virtual /\ ~stream.port_closed, WantsLink(device),
                  api = "alsa" /\ use)
  BY <1>1, <1>6, <1>8, CloseFunctionFacts
<1>10. /\ sys' = o.sys /\ o.ok \in BOOLEAN /\ failures' \in Nat
       /\ (failures' = 0 => failures = 0 /\ o.ok)
  BY <1>1, <1>5, <1>9, BackendFacts DEF CloseEffect
<1> DEFINE status == IF o.ok \/ api = "sndio" THEN "closed" ELSE "stuck"
           closed == [stream EXCEPT !.status = status]
<1>11. /\ closed \in Stream /\ closed.device_id = id /\ closed.port_closed = stream.port_closed
       /\ closed.status = status
  BY <1>6 DEF Stream
<1>12. streams' = [streams EXCEPT ![s] = closed]
  BY <1>5
<1> HIDE DEF closed
<1>13. /\ streams' \in Seq(Stream) /\ DOMAIN streams' = DOMAIN streams
       /\ streams'[s] = closed /\ \A t \in DOMAIN streams : t # s => streams'[t] = streams[t]
  BY <1>1, <1>11, <1>12, StreamFacts
<1>14. /\ Marks(id, FALSE, None) /\ Len(descriptors') = Len(descriptors)
       /\ descriptors'[id].opened = FALSE
  BY <1>1, <1>4, <1>5, MarkFacts DEF None
<1>15. /\ Claims' /\ Stable
       /\ \A i \in Ids(descriptors) :
             /\ descriptors'[i].name = descriptors[i].name
             /\ descriptors'[i].input = descriptors[i].input
             /\ descriptors'[i].is_virtual = descriptors[i].is_virtual
             /\ descriptors'[i].deleted = descriptors[i].deleted
  BY <1>1, <1>14, MarksKeeps
<1>16. /\ Ids(descriptors') = Ids(descriptors) /\ descriptors' \in Seq(Device)
       /\ \A i \in Ids(descriptors) : i # id => descriptors'[i] = descriptors[i]
  BY <1>14 DEF Marks
<1>17. status # "open" /\ status # "abandoned"
  OBVIOUS
<1>18. /\ ~(streams'[s].status = "open")
       /\ \A t \in DOMAIN streams : t # s => (IsOpen(t)' <=> IsOpen(t))
  BY <1>11, <1>13, <1>17 DEF IsOpen
<1>19. ~device.deleted
  BY <1>1, <1>4 DEF Pairs, DeviceHasStream
<1> HIDE DEF stream, id, device, use, status
<1>20. Types'
  <2>1. sys' \in Sys
    BY <1>9, <1>10 DEF CloseEffect
  <2>2. initialized
    BY <1>1, <1>4 DEF Types, Ids
  <2>3. Len(descriptors') <= pm_descriptor_max'
    BY <1>1, <1>2, <1>14 DEF Types
  <2> QED
    BY <1>1, <1>2, <1>10, <1>13, <1>16, <2>1, <2>2, <2>3 DEF Types
<1>21. Pairs'
  <2>1. ASSUME NEW t \in DOMAIN streams' PROVE StreamHasDevice(t)'
    <3>1. CASE t = s
      BY <1>18, <3>1 DEF StreamHasDevice, IsOpen
    <3>2. CASE t # s
      <4>1. t \in DOMAIN streams /\ streams'[t] = streams[t] /\ StreamHasDevice(t)
        BY <1>1, <1>13, <3>2 DEF Pairs
      <4>2. IsOpen(t) => streams[t].device_id # id
        BY <1>4, <3>2, <4>1 DEF StreamHasDevice, device
      <4> QED
        BY <1>13, <1>16, <1>18, <3>2, <4>1, <4>2 DEF StreamHasDevice
    <3> QED
      BY <3>1, <3>2
  <2>2. ASSUME NEW i \in Ids(descriptors') PROVE DeviceHasStream(i)'
    <3>1. CASE i = id
      BY <1>14, <3>1 DEF DeviceHasStream
    <3>2. CASE i # id
      <4>1. i \in Ids(descriptors) /\ descriptors'[i] = descriptors[i]
        BY <1>16, <3>2
      <4>2. DeviceHasStream(i)
        BY <1>1, <4>1 DEF Pairs
      <4>3. descriptors[i].opened => descriptors[i].pm_internal # s
        BY <3>2, <4>2 DEF DeviceHasStream, id, stream
      <4> QED
        BY <1>13, <1>18, <4>1, <4>2, <4>3 DEF DeviceHasStream
    <3> QED
      BY <3>1, <3>2
  <2> QED
    BY <2>1, <2>2 DEF Pairs
<1>22. Queue'
  <2> SUFFICES ASSUME api = "alsa"
               PROVE  /\ sys'.queue_used >= Cardinality(Users')
                      /\ NoneAbandoned' => /\ sys'.queue_used = Cardinality(Users')
                                           /\ sys'.queue = IF Users' = {} THEN "none" ELSE "live"
    BY <1>2 DEF Queue
  <2>1. /\ sys.queue_used >= Cardinality(Users) /\ sys.queue_used \in Nat
        /\ NoneAbandoned => /\ sys.queue_used = Cardinality(Users)
                            /\ sys.queue = IF Users = {} THEN "none" ELSE "live"
    BY <1>1 DEF Queue, Types, Sys
  <2>2. Users' = Users \ {s}
    <3>1. \A t : t \in Users' <=> t \in Users /\ t # s
      BY <1>13, <1>18 DEF Users, IsOpen
    <3> QED
      BY <3>1
  <2>3. NoneAbandoned' <=> NoneAbandoned
    <3>1. streams'[s].status # "abandoned" /\ streams[s].status # "abandoned"
      BY <1>3, <1>11, <1>13, <1>17 DEF IsOpen
    <3>2. \A t \in DOMAIN streams : t # s => streams'[t].status = streams[t].status
      BY <1>13
    <3> QED
      BY <1>13, <3>1, <3>2 DEF NoneAbandoned
  <2>4. CASE use
    <3>1. /\ IsFiniteSet(Users') /\ Cardinality(Users') = Cardinality(Users) - 1
          /\ Cardinality(Users') \in Nat /\ (Cardinality(Users') = 0 <=> Users' = {})
      <4>1. IsFiniteSet(Users \ {s}) /\ Cardinality(Users \ {s}) = Cardinality(Users) - 1
        BY <1>7, <2>4, FS_RemoveElement
      <4> QED
        BY <2>2, <4>1, FS_CardinalityType, FS_EmptySet
    <3>2. /\ sys'.queue_used = sys.queue_used - 1
          /\ sys'.queue = IF sys.queue_used = 1 THEN "none" ELSE sys.queue
      BY <1>9, <1>10, <2>4 DEF CloseEffect, Unused
    <3> QED
      BY <1>7, <2>1, <2>3, <2>4, <3>1, <3>2
  <2>5. CASE ~use
    <3>1. Users' = Users
      BY <1>7, <2>2, <2>5
    <3>2. sys'.queue_used = sys.queue_used /\ sys'.queue = sys.queue
      BY <1>9, <1>10, <2>5 DEF CloseEffect
    <3> QED
      BY <2>1, <2>3, <3>1, <3>2
  <2> QED
    BY <2>4, <2>5
<1>23. Held'
  <2> DEFINE port == api = "alsa" /\ ~stream.is_virtual /\ ~stream.port_closed
  <2>1. /\ sys'.ports = sys.ports \ (IF port THEN {id} ELSE {})
        /\ o.ok => sys'.links = sys.links \ (IF WantsLink(device) THEN {id} ELSE {})
        /\ ~o.ok => sys'.links \subseteq sys.links /\ (api = "sndio" => id \notin sys'.links)
        /\ ~o.ok => api # "alsa"
    BY <1>9, <1>10 DEF CloseEffect
  <2>2. /\ Lost \subseteq Lost'
        /\ stream.port_closed \/ status = "stuck" => id \in Lost'
    <3>1. streams'[s].device_id = id
      BY <1>11, <1>13
    <3>2. \A t \in DOMAIN streams : streams'[t].device_id = streams[t].device_id
      BY <1>13, <3>1 DEF id, stream
    <3>3. \A t \in DOMAIN streams :
             streams[t].port_closed \/ streams[t].status = "stuck" =>
                streams'[t].port_closed \/ streams'[t].status = "stuck"
      <4>1. streams[s].status # "stuck" /\ (streams[s].port_closed <=> streams'[s].port_closed)
        BY <1>3, <1>11, <1>13 DEF IsOpen, stream
      <4> QED
        BY <1>13, <4>1
    <3>4. Lost \subseteq Lost'
      BY <1>13, <3>2, <3>3 DEF Lost
    <3>5. stream.port_closed \/ status = "stuck" => id \in Lost'
      BY <1>11, <1>13, <3>1 DEF Lost
    <3> QED
      BY <3>4, <3>5
  <2>3. PortUsers' = PortUsers \ (IF api = "alsa" /\ ~stream.is_virtual THEN {id} ELSE {})
    <3>1. \A i \in Ids(descriptors) :
             i # id => (NeedsPort(descriptors[i])' <=> NeedsPort(descriptors[i]))
      BY <1>2, <1>16 DEF NeedsPort
    <3>2. NeedsPort(descriptors'[id]) <=> stream.is_virtual
      BY <1>4, <1>14, <1>15, <1>19 DEF NeedsPort, device
    <3>3. NeedsPort(descriptors[id]) <=> stream.is_virtual \/ api = "alsa"
      BY <1>4, <1>19 DEF NeedsPort, device
    <3> QED
      BY <1>2, <1>4, <1>16, <3>1, <3>2, <3>3 DEF PortUsers, NeedsPort
  <2>4. LinkUsers' = LinkUsers \ {id} /\ (id \in LinkUsers => WantsLink(device))
    <3>1. \A i \in Ids(descriptors) :
             i # id => (NeedsLink(descriptors[i])' <=> NeedsLink(descriptors[i]))
      BY <1>2, <1>16 DEF NeedsLink
    <3>2. ~descriptors'[id].opened
      BY <1>14
    <3>3. NeedsLink(descriptors[id]) => WantsLink(device)
      BY DEF NeedsLink, WantsLink, device
    <3>4. LinkUsers' = LinkUsers \ {id}
      <4>1. \A i : i \in LinkUsers' <=> i \in LinkUsers /\ i # id
        BY <1>16, <3>1, <3>2 DEF LinkUsers, NeedsLink
      <4> QED
        BY <4>1
    <3> QED
      BY <3>3, <3>4 DEF LinkUsers
  <2>5. sys'.ports \subseteq PortUsers' \union Lost'
    BY <1>1, <2>1, <2>2, <2>3 DEF Held
  <2>6. sys'.links \subseteq LinkUsers' \union Lost'
    <3>1. sys'.links \subseteq sys.links
      BY <2>1
    <3>2. id \in sys'.links => id \in Lost'
      <4>1. CASE o.ok \/ api = "sndio"
        BY <1>1, <2>1, <2>2, <2>4, <3>1, <4>1 DEF Held
      <4>2. CASE ~(o.ok \/ api = "sndio")
        BY <2>2, <4>2 DEF status
      <4> QED
        BY <4>1, <4>2
    <3> QED
      BY <1>1, <2>2, <2>4, <3>1, <3>2 DEF Held
  <2>7. failures' = 0 => PortUsers' \subseteq sys'.ports /\ LinkUsers' \subseteq sys'.links
    BY <1>1, <1>10, <2>1, <2>3, <2>4 DEF Held
  <2>8. api = "alsa" => sys'.links = {}
    BY <1>1, <2>1 DEF Held
  <2>9. api \in {"winmm", "sndio"} => sys'.ports = {}
    BY <1>1, <2>1 DEF Held
  <2> QED
    BY <1>2, <2>5, <2>6, <2>7, <2>8, <2>9 DEF Held
<1> QED
  BY <1>15, <1>20, <1>21, <1>22, <1>23 DEF IInv

\* A subscription that is lost: the port is excused, and nothing else changes.
LEMMA UnsubscribedKeeps == IInv /\ PortUnsubscribed => IInv' /\ Stable
<1> SUFFICES ASSUME IInv, PortUnsubscribed PROVE IInv' /\ Stable
  OBVIOUS
<1>1. Types /\ Pairs /\ Claims /\ Queue /\ Held
  BY DEF IInv
<1>2. /\ UNCHANGED <<api, initialized, descriptors, pm_descriptor_max, default_id, sys>>
      /\ failures' \in Nat /\ failures' # 0
  BY <1>1 DEF PortUnsubscribed, Types
<1>3. PICK s \in DOMAIN streams : streams' = [streams EXCEPT ![s].port_closed = TRUE]
  BY DEF PortUnsubscribed
<1> DEFINE old == streams[s]
           stream == [old EXCEPT !.port_closed = TRUE]
<1>4. old \in Stream
  BY <1>1, ElementOfSeq, LenProperties DEF Types
<1>5. streams' = [streams EXCEPT ![s] = stream]
  BY <1>3
<1> HIDE DEF old
<1>6. /\ stream \in Stream /\ stream.device_id = old.device_id /\ stream.is_input = old.is_input
      /\ stream.is_virtual = old.is_virtual /\ stream.latency = old.latency
      /\ stream.status = old.status /\ stream.port_closed = TRUE
  BY <1>4 DEF Stream
<1> HIDE DEF stream
<1>7. /\ streams' \in Seq(Stream) /\ DOMAIN streams' = DOMAIN streams
      /\ streams'[s] = stream /\ \A t \in DOMAIN streams : t # s => streams'[t] = streams[t]
  BY <1>1, <1>5, <1>6, StreamFacts
<1>8. \A t \in DOMAIN streams :
         /\ streams'[t].device_id = streams[t].device_id
         /\ streams'[t].is_input = streams[t].is_input
         /\ streams'[t].is_virtual = streams[t].is_virtual
         /\ streams'[t].latency = streams[t].latency
         /\ streams'[t].status = streams[t].status
         /\ streams[t].port_closed => streams'[t].port_closed
  BY <1>6, <1>7 DEF old
<1>9. Types'
  BY <1>1, <1>2, <1>7 DEF Types
<1>10. Pairs'
  <2>1. \A t \in DOMAIN streams : IsOpen(t)' <=> IsOpen(t)
    BY <1>8 DEF IsOpen
  <2>2. ASSUME NEW t \in DOMAIN streams' PROVE StreamHasDevice(t)'
    <3>1. t \in DOMAIN streams /\ StreamHasDevice(t)
      BY <1>1, <1>7 DEF Pairs
    <3> QED
      BY <1>2, <1>8, <2>1, <3>1 DEF StreamHasDevice
  <2>3. ASSUME NEW i \in Ids(descriptors') PROVE DeviceHasStream(i)'
    <3>1. i \in Ids(descriptors) /\ DeviceHasStream(i)
      BY <1>1, <1>2 DEF Pairs
    <3> QED
      BY <1>2, <1>7, <1>8, <2>1, <3>1 DEF DeviceHasStream
  <2> QED
    BY <2>2, <2>3 DEF Pairs
<1>11. Claims' /\ Stable
  BY <1>1, <1>2 DEF Claims, Stable
<1>12. Queue'
  <2>1. Users' = Users /\ (NoneAbandoned' <=> NoneAbandoned)
    BY <1>7, <1>8 DEF Users, NoneAbandoned, IsOpen
  <2> QED
    BY <1>1, <1>2, <2>1 DEF Queue
<1>13. Held'
  <2>1. PortUsers' = PortUsers /\ LinkUsers' = LinkUsers
    BY <1>2 DEF PortUsers, LinkUsers, NeedsPort, NeedsLink
  <2>2. Lost \subseteq Lost'
    BY <1>7, <1>8 DEF Lost
  <2> QED
    BY <1>1, <1>2, <2>1, <2>2 DEF Held
<1> QED
  BY <1>9, <1>10, <1>11, <1>12, <1>13 DEF IInv

\* Every step keeps the invariant, and while the library runs no id changes its meaning.
LEMMA NextKeeps == IInv /\ [Next]_vars => IInv' /\ (initialized /\ initialized' => Stable)
<1> SUFFICES ASSUME IInv, [Next]_vars PROVE IInv' /\ (initialized /\ initialized' => Stable)
  OBVIOUS
<1>1. CASE Pm_Initialize
  BY <1>1, InitializeKeeps DEF Pm_Initialize
<1>2. CASE Pm_Terminate
  BY <1>2, TerminateKeeps DEF Pm_Terminate
<1>3. CASE CreateVirtual
  BY <1>3, CreateKeeps
<1>4. CASE create_virtual
  BY <1>4, CreateHaikuKeeps
<1>5. CASE NoInterface
  BY <1>5, NoInterfaceKeeps
<1>6. CASE Pm_DeleteVirtualDevice
  BY <1>6, DeleteKeeps
<1>7. CASE Pm_OpenInput
  BY <1>7, OpenKeeps DEF Pm_OpenInput
<1>8. CASE Pm_OpenOutput
  <2>1. PICK latency \in BOOLEAN : Open(FALSE, latency)
    BY <1>8 DEF Pm_OpenOutput
  <2> QED
    BY <2>1, OpenKeeps
<1>9. CASE Pm_Close
  BY <1>9, CloseKeeps
<1>10. CASE PortUnsubscribed
  BY <1>10, UnsubscribedKeeps
<1>11. CASE UNCHANGED vars
  <2>1. failures \in Nat
    BY DEF IInv, Types
  <2> QED
    BY <1>11, <2>1, NothingKeeps DEF vars, count
<1> QED
  BY <1>1, <1>2, <1>3, <1>4, <1>5, <1>6, <1>7, <1>8, <1>9, <1>10, <1>11 DEF Next

\* The invariant holds of every behaviour.
LEMMA Invariant == Spec => []IInv
<1>1. IInv /\ [Next]_vars => IInv'
  BY NextKeeps
<1> QED
  BY <1>1, InitEstablishes, PTL DEF Spec

-----------------------------------------------------------------------------
(* The theorems.                                                           *)

\* The descriptors are descriptors and fit into their array, however often it grows; the
\* default ids and the count of the queue stay natural numbers.
THEOREM TypeCorrect == Spec => []TypeOK
<1>1. IInv => TypeOK
  <2> SUFFICES ASSUME IInv PROVE TypeOK
    OBVIOUS
  <2>1. Types
    BY DEF IInv
  <2>2. \A i \in Ids(descriptors) : descriptors[i] \in Device
    BY <2>1, ElementOfSeq DEF Types, Ids
  <2>3. sys.queue_used \in Nat /\ sys.queue \in {"none", "live", "stale"}
    BY <2>1 DEF Types, Sys
  <2> QED
    BY <2>1, <2>2, <2>3 DEF TypeOK, Types
<1> QED
  BY <1>1, Invariant, PTL

\* A device is open exactly when one open stream is its, and it points to that stream.
THEOREM OpenDevicesHaveOneStream == Spec => []OneStreamPerOpenDevice
<1>1. IInv => OneStreamPerOpenDevice
  BY DEF IInv, Pairs, StreamHasDevice, DeviceHasStream, OneStreamPerOpenDevice
<1> QED
  BY <1>1, Invariant, PTL

\* No virtual device shares its name with another device that others see in the same direction.
THEOREM NamesDoNotConflict == Spec => []NamesAreUnique
<1>1. IInv => NamesAreUnique
  <2> SUFFICES ASSUME IInv, NEW i \in Ids(descriptors), NEW j \in Ids(descriptors), i # j,
                      ~descriptors[i].deleted, ~descriptors[j].deleted,
                      descriptors[i].is_virtual, descriptors[i].name = descriptors[j].name
               PROVE  SeenAsOutput(descriptors[i]) # SeenAsOutput(descriptors[j])
    BY DEF NamesAreUnique
  <2>1. descriptors[i] \in Device /\ descriptors[j] \in Device
    BY ElementOfSeq DEF IInv, Types, Ids
  <2>2. Side(descriptors[i]) # Side(descriptors[j])
    BY DEF IInv, Claims, Claimed
  <2>3. /\ descriptors[i].input \in BOOLEAN /\ descriptors[j].input \in BOOLEAN
        /\ descriptors[i].is_virtual \in BOOLEAN /\ descriptors[j].is_virtual \in BOOLEAN
    BY <2>1 DEF Device
  <2> QED
    BY <2>2, <2>3, Zenon DEF Side, Claimed, SeenAsOutput
<1> QED
  BY <1>1, Invariant, PTL

\* The queue of ALSA is there as long as a stream needs it and is freed with the last one,
\* through all paths that fail half-way.
THEOREM QueueIsFreedWithItsLastUser == Spec => []QueueIsCounted
<1>1. IInv => QueueIsCounted
  BY DEF IInv, Queue, QueueIsCounted
<1> QED
  BY <1>1, Invariant, PTL

\* Nothing of the system is left behind on any path that fails, and whoever needs a port or a
\* connection has it as long as none has failed.
THEOREM NothingIsLeftBehind == Spec => []PortsAreNotLeaked
<1>1. IInv => PortsAreNotLeaked
  BY DEF IInv, Held, PortsAreNotLeaked, Entitled, PortUsers, LinkUsers
<1> QED
  BY <1>1, Invariant, PTL

\* While the library runs an id keeps meaning the same device.
THEOREM IdsKeepTheirMeaning == Spec => IdsAreStable
<1>1. IInv /\ [Next]_vars =>
        [initialized /\ initialized' =>
           \A i \in Ids(descriptors) :
              IF i \in Ids(descriptors')
                THEN /\ descriptors'[i].name = descriptors[i].name
                     /\ descriptors'[i].input = descriptors[i].input
                ELSE descriptors[i].deleted]_vars
  BY NextKeeps DEF Stable
<1> QED
  BY <1>1, Invariant, PTL DEF Spec, IdsAreStable
=============================================================================
