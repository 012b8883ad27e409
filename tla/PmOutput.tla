------------------------------ MODULE PmOutput ------------------------------
(***************************************************************************)
(* The output side of src/pm_common/portmidi.c: Pm_Write, Pm_WriteShort    *)
(* (one event) and Pm_WriteSysEx, on top of the output functions of the    *)
(* Core MIDI ("mac"), ALSA ("alsa"), WinMM ("winmm", latency 0), Haiku     *)
(* ("haiku", "synth" for its soft synth) and sndio ("sndio") backends.     *)
(* Between the application and the device bytes wait in two places: part,  *)
(* where a sysex message is put together (sysex_buffer, the parser of      *)
(* ALSA, info->hdr of WinMM, sysexBuffer of Haiku), and list (the packet   *)
(* list of Core MIDI, the output buffer of ALSA).                          *)
(*                                                                         *)
(* A step of Pm_Write handles one event up to the next call of a backend   *)
(* function, with that call.  Time is left out: timestamps, synchronize    *)
(* and the waiting for a free buffer.  Data bytes are numbered as they are *)
(* written (256, 257, ...), which keeps them apart from each other and     *)
(* from the status bytes; 0 is an unused byte of an event.                 *)
(***************************************************************************)
EXTENDS Integers, Sequences, FiniteSets, SequencesExt, FiniteSetsExt

CONSTANTS Backends,      \* those of the comment above
          Buffers,       \* what the application passes to Pm_Write: its events' bytes
          SysexLengths,  \* lengths of the messages it passes to Pm_WriteSysEx
          BUFLEN,        \* events in the buffer of Pm_WriteSysEx
          fill_length,   \* WinMM: bytes of a buffer that are filled without write_byte
          SysexBuffer,   \* Core MIDI, ALSA: capacity of part
          PacketBuffer,  \* Core MIDI: capacity of list
          MaxCalls,      \* bound: calls by the application
          MaxFailures    \* bound: backend calls that fail

Note  == 144
Sysex == 240
Eox   == 247
Clock == 248
Datum == 1     \* in Buffers: a data byte, numbered when it is written
Unused == 0

\* What the application writes: short messages, and events of sysex bytes, full but for the
\* one that ends the message.
ShortEvents == {<<Note, Datum, Datum, Unused>>, <<Clock, Unused, Unused, Unused>>}
SysexEvents ==
  {event \in [1..4 -> {Sysex, Datum, Eox, Unused}] :
     /\ event[1] # Unused
     /\ \A k \in 2..4 : event[k] # Sysex /\ (event[k] = Unused <=> event[k - 1] \in {Eox, Unused})}
Events == ShortEvents \union SysexEvents

ASSUME OutputAssumption ==
  /\ Backends \subseteq {"mac", "alsa", "winmm", "haiku", "synth", "sndio"}
  /\ \A buffer \in Buffers :
        /\ buffer \in Seq({Note, Clock, Sysex, Eox, Datum, Unused}) /\ Len(buffer) % 4 = 0
        /\ \A k \in DOMAIN buffer : k % 4 = 1 => SubSeq(buffer, k, k + 3) \in Events
  /\ SysexLengths \subseteq Nat \ {0, 1}
  /\ BUFLEN \in Nat \ {0} /\ fill_length \in Nat /\ fill_length >= 4
  /\ SysexBuffer \in Nat \ {0}
  /\ PacketBuffer \in Nat /\ PacketBuffer >= SysexBuffer /\ PacketBuffer >= 3
  /\ MaxCalls \in Nat /\ MaxFailures \in Nat

IsStatus(byte)   == byte \in 128..255
IsRealTime(byte) == byte \in 248..255
pm_midi_length(status) == IF status = Note THEN 3 ELSE 1

VARIABLES
  sysex_in_progress,
  pc,            \* where the application's call is
  rest,          \* bytes of the events of Pm_Write still to be handled
  bits,          \* next byte of the first of them
  msg, buffer_size,   \* Pm_WriteSysEx: the bytes still to come; events in its buffer
  result,        \* what the last call returned
  driver,        \* part, list, fill_base, and wire: what the device has been sent
  backend, is_removed,
  \* history
  calls, failures, data,
  intended,      \* the bytes of all events written
  before,        \* intended and sysex_in_progress when the last call was made
  embedded,      \* a real-time message was written inside a sysex message
  errors         \* how many calls returned an error

api  == <<sysex_in_progress, pc, rest, bits, msg, buffer_size, result>>
past == <<calls, data, intended, before, embedded>>
vars == <<api, driver, backend, is_removed, failures, past, errors>>

-----------------------------------------------------------------------------
(* The backend functions.  Each returns the set of its possible outcomes.  *)

Done(d)   == [driver |-> d, ok |-> TRUE]
Failed(d) == [driver |-> d, ok |-> FALSE]
Then(outcomes, Op(_)) == UNION {IF o.ok THEN Op(o.driver) ELSE {o} : o \in outcomes}

Short(event) == SubSeq(event, 1, pm_midi_length(event[1]))

Kept(list) == list                                  \* mutant of AfterSend
AfterSend(list) == <<>>

\* Core MIDI.
midi_write_flush(d) ==
  IF d.list = <<>> THEN {Done(d)}
  ELSE {Done([d EXCEPT !.list = AfterSend(@), !.wire = @ \o d.list]),
        Failed([d EXCEPT !.list = <<>>])}

send_packet(d, bytes) ==
  Then(IF Len(d.list) + Len(bytes) > PacketBuffer THEN midi_write_flush(d) ELSE {Done(d)},
       LAMBDA e : {Done([e EXCEPT !.list = @ \o bytes])})

midi_write_short(d, event) == send_packet(d, Short(event))
midi_begin_sysex(d)  == {Done([d EXCEPT !.part = <<>>])}
midi_end_sysex(d)    == {[o EXCEPT !.driver.part = <<>>] : o \in send_packet(d, d.part)}
midi_write_byte(d, byte) ==
  Then(IF Len(d.part) >= SysexBuffer THEN midi_end_sysex(d) ELSE {Done(d)},
       LAMBDA e : {Done([e EXCEPT !.part = Append(@, byte)])})
midi_write_realtime(d, event) == Then(midi_end_sysex(d), LAMBDA e : midi_write_short(e, event))

\* ALSA.  snd_midi_event_encode_byte holds the bytes of a sysex message until EOX or until
\* its buffer is full; a status byte discards what it holds, a real-time byte does not.
OutputEvent(d, bytes) == {Done([d EXCEPT !.list = @ \o bytes]), Failed(d)}
alsa_write_byte(d, byte) ==
  LET bytes == Append(d.part, byte) IN
  IF byte = Eox \/ Len(bytes) = SysexBuffer
    THEN OutputEvent([d EXCEPT !.part = <<>>], bytes)
    ELSE {Done([d EXCEPT !.part = IF byte = Sysex THEN <<byte>> ELSE bytes])}
alsa_write_short(d, event) ==
  OutputEvent(IF IsRealTime(event[1]) THEN d ELSE [d EXCEPT !.part = <<>>], Short(event))
alsa_sysex(d) == {Done(d)}
NotDrained(d) == {Done(d)}                          \* mutant of alsa_write_flush
alsa_write_flush(d) == {Done([d EXCEPT !.list = <<>>, !.wire = @ \o d.list])}
                         \union (IF d.list = <<>> THEN {} ELSE {Failed(d)})

\* WinMM with latency 0: short messages go out at once, sysex bytes by the buffer.
winmm_write_flush(d) ==
  IF d.part = <<>> THEN {Done(d)}
  ELSE LET e == [d EXCEPT !.part = <<>>, !.fill_base = FALSE]
       IN  {Done([e EXCEPT !.wire = @ \o d.part]), Failed(e)}
Overrun(bytes) == Len(bytes) > fill_length + 2      \* mutant of IsFull
IsFull(bytes) == Len(bytes) >= fill_length + 1
winmm_write_short(d, event) == {Done([d EXCEPT !.wire = @ \o Short(event)]), Failed(d)}
winmm_write_byte(d, byte) ==
  LET e == [d EXCEPT !.part = Append(@, byte), !.fill_base = TRUE] IN
  IF IsFull(e.part) THEN winmm_write_flush(e) ELSE {Done(e)}

\* Haiku: short messages go out at once, the bytes of a sysex message when it has ended.
spray(d, bytes)           == {Done([d EXCEPT !.wire = @ \o bytes])}
haiku_begin_sysex(d)      == {Done([d EXCEPT !.part = <<>>])}
haiku_end_sysex(d)        == spray([d EXCEPT !.part = <<>>], d.part)
haiku_write_byte(d, byte) == {Done([d EXCEPT !.part = Append(@, byte)])}

\* The Haiku soft synth has no case for system messages in write_short.
write_short_synth(d, event) == IF event[1] < 240 THEN spray(d, Short(event)) ELSE {Done(d)}

\* sndio: everything goes out at once; mio_write may stop in the middle.
do_write(d, bytes) == spray(d, bytes)
  \union {Failed([d EXCEPT !.wire = @ \o SubSeq(bytes, 1, n)]) : n \in 0..Len(bytes) - 1}

none(d) == {Done(d)}
IsHaiku == backend \in {"haiku", "synth"}

begin_sysex == CASE backend = "mac" -> midi_begin_sysex(driver)
                 [] backend = "alsa" -> alsa_sysex(driver)
                 [] backend = "winmm" -> winmm_write_flush(driver)
                 [] IsHaiku -> haiku_begin_sysex(driver)
                 [] backend = "sndio" -> none(driver)
end_sysex == CASE backend = "mac" -> midi_end_sysex(driver)
               [] backend = "alsa" -> alsa_sysex(driver)
               [] backend = "winmm" -> winmm_write_flush(driver)
               [] IsHaiku -> haiku_end_sysex(driver)
               [] backend = "sndio" -> none(driver)
write_byte(byte) == CASE backend = "mac" -> midi_write_byte(driver, byte)
                      [] backend = "alsa" -> alsa_write_byte(driver, byte)
                      [] backend = "winmm" -> winmm_write_byte(driver, byte)
                      [] IsHaiku -> haiku_write_byte(driver, byte)
                      [] backend = "sndio" -> do_write(driver, <<byte>>)
write_short(event) == CASE backend = "mac" -> midi_write_short(driver, event)
                        [] backend = "alsa" -> alsa_write_short(driver, event)
                        [] backend = "winmm" -> winmm_write_short(driver, event)
                        [] backend = "haiku" -> spray(driver, Short(event))
                        [] backend = "synth" -> write_short_synth(driver, event)
                        [] backend = "sndio" -> do_write(driver, Short(event))
write_realtime(event) == CASE backend = "mac" -> midi_write_realtime(driver, event)
                           [] IsHaiku -> spray(driver, Short(event))
                           [] OTHER -> write_short(event)
write_flush == CASE backend = "mac" -> midi_write_flush(driver)
                 [] backend = "alsa" -> alsa_write_flush(driver)
                 [] backend = "winmm" -> winmm_write_flush(driver)
                 [] OTHER -> none(driver)

-----------------------------------------------------------------------------
\* A call of a backend function: its outcome, and what Pm_Write does next.
Call(outcomes, Success, Failure) ==
  \E o \in outcomes :
    /\ driver' = o.driver
    /\ IF o.ok THEN Success /\ UNCHANGED failures
               ELSE Failure /\ failures < MaxFailures /\ failures' = failures + 1
    /\ UNCHANGED <<buffer_size, backend, is_removed, past>>

NoCall == UNCHANGED <<driver, buffer_size, backend, is_removed, failures, past>>

\* Pm_Write returns: to the application, or to Pm_WriteSysEx, which goes on if it can.
Return(error) ==
  /\ rest' = <<>> /\ bits' = 0
  /\ result' = error
  /\ IF error = "pmNoError" /\ msg # <<>>
       THEN /\ pc' = IF driver'.fill_base THEN "fill" ELSE "chunk"
            /\ UNCHANGED <<msg, errors>>
       ELSE /\ pc' = "idle" /\ msg' = <<>>
            /\ errors' = IF error = "pmNoError" THEN errors ELSE errors + 1

Goto(label, events, byte) ==
  /\ pc' = label /\ rest' = events /\ bits' = byte
  /\ UNCHANGED <<msg, result, errors>>

Event == SubSeq(rest, 1, 4)
OtherEvents == SubSeq(rest, 5, Len(rest))
NextEvent == Goto("event", OtherEvents, 0)
AtEvent == pc = "event" /\ rest # <<>>

(* Pm_Write, event by event.                                               *)

NestedSysex ==
  /\ AtEvent /\ Event[1] = Sysex
  /\ sysex_in_progress
  /\ sysex_in_progress' = FALSE
  /\ NoCall
  /\ Return("pmBadData")

SysexStart ==
  /\ AtEvent /\ Event[1] = Sysex
  /\ ~sysex_in_progress
  /\ sysex_in_progress' = TRUE
  /\ Call(begin_sysex, Goto("first", rest, 0), Return("pmHostError"))

\* The status byte of a sysex message.
FirstByte ==
  /\ pc = "first"
  /\ Call(write_byte(Sysex), Goto("bytes", rest, 1), Return("pmHostError"))
  /\ UNCHANGED sysex_in_progress

IsShort(event) == IsStatus(event[1]) /\ event[1] \notin {Sysex, Eox}

\* There is no continue here: the event goes on to be written as sysex bytes.
RealTimeInSysex ==
  /\ AtEvent /\ sysex_in_progress /\ IsRealTime(Event[1])
  /\ Call(write_realtime(Event), Goto("bytes", rest, 0), Return("pmHostError"))
  /\ UNCHANGED sysex_in_progress

SysexCut ==
  /\ AtEvent /\ sysex_in_progress /\ IsShort(Event) /\ ~IsRealTime(Event[1])
  /\ sysex_in_progress' = FALSE
  /\ Call(end_sysex, Return("pmBadData"), Return("pmBadData"))

ShortEvent ==
  /\ AtEvent /\ ~sysex_in_progress /\ IsShort(Event)
  /\ Call(write_short(Event), NextEvent, Return("pmHostError"))
  /\ UNCHANGED sysex_in_progress

StrayData ==
  /\ AtEvent /\ ~sysex_in_progress /\ (~IsStatus(Event[1]) \/ Event[1] = Eox)
  /\ NoCall
  /\ Return("pmBadData")
  /\ UNCHANGED sysex_in_progress

AllData(event) == \A i \in 1..4 : ~IsStatus(event[i])
HasRoom == driver.fill_base /\ Len(driver.part) + 4 <= fill_length

FastCopy ==
  /\ AtEvent /\ sysex_in_progress
  /\ AllData(Event) /\ HasRoom
  /\ driver' = [driver EXCEPT !.part = @ \o Event]
  /\ NextEvent
  /\ UNCHANGED <<sysex_in_progress, buffer_size, backend, is_removed, failures, past>>

SlowCopy ==
  /\ AtEvent /\ sysex_in_progress
  /\ ~IsStatus(Event[1]) \/ Event[1] = Eox
  /\ ~(AllData(Event) /\ HasRoom)
  /\ Goto("bytes", rest, 0)
  /\ NoCall
  /\ UNCHANGED sysex_in_progress

WriteByte ==
  /\ pc = "bytes"
  /\ LET byte == Event[bits + 1] IN
     Call(write_byte(byte),
          IF byte = Eox THEN Goto("end", OtherEvents, 0)
          ELSE IF bits = 3 THEN NextEvent ELSE Goto("bytes", rest, bits + 1),
          Return("pmHostError"))
  /\ UNCHANGED sysex_in_progress

pm_end_sysex ==
  /\ pc = "end"
  /\ sysex_in_progress' = FALSE
  /\ Call(end_sysex, Goto("event", rest, 0), Return("pmHostError"))

WriteFlush ==
  /\ pc = "event" /\ rest = <<>>
  /\ UNCHANGED sysex_in_progress
  /\ IF sysex_in_progress THEN NoCall /\ Return("pmNoError")
     ELSE Call(write_flush, Return("pmNoError"), Return("pmHostError"))

Pm_Write_step == \/ NestedSysex \/ SysexStart \/ FirstByte \/ RealTimeInSysex \/ SysexCut
                 \/ ShortEvent \/ StrayData \/ FastCopy \/ SlowCopy \/ WriteByte
                 \/ pm_end_sysex \/ WriteFlush

-----------------------------------------------------------------------------
(* The calls by the application.                                           *)

Numbered(bytes) ==
  [i \in DOMAIN bytes |->
     IF bytes[i] = Datum THEN 255 + data + Cardinality({j \in 1..i : bytes[j] = Datum})
                         ELSE bytes[i]]

Record(bytes) ==
  /\ calls < MaxCalls
  /\ calls' = calls + 1
  /\ data' = data + Cardinality({i \in DOMAIN bytes : bytes[i] = Datum})
  /\ before' = [sent |-> Len(intended), sysex |-> sysex_in_progress]
  /\ intended' = intended \o Numbered(bytes)
  /\ embedded' = (embedded \/ (Clock \in ToSet(bytes)
                                  /\ (sysex_in_progress \/ Sysex \in ToSet(bytes))))

Pm_Write ==
  /\ pc = "idle"
  /\ \E buffer \in Buffers :
        /\ Record(buffer)
        /\ IF is_removed THEN Return("pmDeviceRemoved")
                         ELSE Goto("event", Numbered(buffer), 0)
  /\ UNCHANGED <<sysex_in_progress, buffer_size, driver, backend, is_removed, failures>>

SysexMessage(n) == <<Sysex>> \o [i \in 1..n - 2 |-> Datum] \o <<Eox>>

\* The buffer holds one event the first time, to get hold of a buffer of the backend.
Pm_WriteSysEx ==
  /\ pc = "idle"
  /\ \E n \in SysexLengths : Record(SysexMessage(n)) /\ msg' = Numbered(SysexMessage(n))
  /\ buffer_size' = 1
  /\ pc' = "chunk"
  /\ UNCHANGED <<sysex_in_progress, rest, bits, result, errors, driver, backend, is_removed,
                 failures>>

Padded(bytes) == bytes \o [i \in 1..(-Len(bytes)) % 4 |-> Unused]

OneLess == 4 * buffer_size - 1            \* mutant of ChunkBytes
ChunkBytes == 4 * buffer_size

\* The next buffer full of bytes, or the rest of the message, goes to Pm_Write.
WriteChunk ==
  /\ pc = "chunk"
  /\ LET n == Min({ChunkBytes, Len(msg)}) IN
     IF is_removed
       THEN Return("pmDeviceRemoved") /\ UNCHANGED buffer_size
       ELSE /\ pc' = "event" /\ rest' = Padded(SubSeq(msg, 1, n)) /\ bits' = 0
            /\ msg' = SubSeq(msg, n + 1, Len(msg))
            /\ buffer_size' = BUFLEN
            /\ UNCHANGED <<result, errors>>
  /\ UNCHANGED <<sysex_in_progress, driver, backend, is_removed, failures, past>>

FillAgain == "fill"                       \* mutant of AfterFill: the loop of 828-833
AfterFill == "chunk"

\* The rest of the backend's buffer is filled directly.
Fill ==
  /\ pc = "fill"
  /\ LET room == fill_length - Len(driver.part)
         n    == Max({0, Min({room, Len(msg)})})
     IN  /\ driver' = [driver EXCEPT !.part = @ \o SubSeq(msg, 1, n)]
         /\ msg' = SubSeq(msg, n + 1, Len(msg))
         /\ IF n = Len(msg) THEN pc' = "filled" /\ UNCHANGED buffer_size
                            ELSE pc' = AfterFill /\ buffer_size' = 1
  /\ UNCHANGED <<sysex_in_progress, rest, bits, result, errors, backend, is_removed, failures,
                 past>>

FilledToEnd ==
  /\ pc = "filled"
  /\ sysex_in_progress' = FALSE
  /\ Call(end_sysex, Return("pmNoError"), Return("pmHostError"))

\* The callback of WinMM reports that the device is gone.
DeviceRemoved ==
  /\ backend = "winmm" /\ ~is_removed
  /\ failures < MaxFailures
  /\ is_removed' = TRUE
  /\ failures' = failures + 1
  /\ UNCHANGED <<api, driver, backend, past, errors>>

-----------------------------------------------------------------------------
Init ==
  /\ sysex_in_progress = FALSE
  /\ pc = "idle" /\ rest = <<>> /\ bits = 0 /\ msg = <<>> /\ buffer_size = 1
  /\ result = "pmNoError"
  /\ driver = [part |-> <<>>, list |-> <<>>, wire |-> <<>>, fill_base |-> FALSE]
  /\ backend \in Backends /\ is_removed = FALSE
  /\ calls = 0 /\ failures = 0 /\ data = 0 /\ errors = 0
  /\ intended = <<>> /\ before = [sent |-> 0, sysex |-> FALSE] /\ embedded = FALSE

InCall == Pm_Write_step \/ WriteChunk \/ Fill \/ FilledToEnd
Next == Pm_Write \/ Pm_WriteSysEx \/ InCall \/ DeviceRemoved

\* A call that has started goes on; nothing obliges the application to make one.
Spec == Init /\ [][Next]_vars /\ WF_vars(InCall)

-----------------------------------------------------------------------------
\* Buffers stay within their capacity; those of WinMM have two bytes more than fill_length,
\* of which winmm_end_sysex needs one for a zero after the message.
TypeOK ==
  /\ sysex_in_progress \in BOOLEAN
  /\ pc \in {"idle", "event", "first", "bytes", "end", "chunk", "fill", "filled"}
  /\ Len(rest) % 4 = 0 /\ bits \in 0..3
  /\ result \in {"pmNoError", "pmBadData", "pmHostError", "pmDeviceRemoved"}
  /\ backend = "winmm" => Len(driver.part) <= fill_length + 1
  /\ backend \in {"mac", "alsa"} => Len(driver.part) <= SysexBuffer
  /\ backend = "sndio" => driver.part = <<>>
  /\ backend = "mac" => Len(driver.list) <= PacketBuffer
  /\ driver.fill_base => backend = "winmm"

\* What the device should be sent of these bytes: those of an event that are used.  The soft
\* synth gets no real-time messages outside sysex.
Passes(byte, to) == byte # Unused /\ ~(to = "synth" /\ IsRealTime(byte))

SentTo(to, bytes) ==
  LET sent[i \in 0..Len(bytes)] ==
        IF i = 0 THEN <<>>
        ELSE IF Passes(bytes[i], to) THEN Append(sent[i - 1], bytes[i]) ELSE sent[i - 1]
  IN  sent[Len(bytes)]
Sent(bytes) == SentTo(backend, bytes)

\* As long as every call succeeds, the device gets exactly the bytes that were written, in
\* their order, whatever buffers they pass through; those of a sysex message that is not
\* finished may still be on their way.
WrittenIsSent ==
  (pc = "idle" /\ errors = 0 /\ ~embedded) =>
     /\ driver.wire \o driver.list \o driver.part = Sent(intended)
     /\ sysex_in_progress \/ driver.wire = Sent(intended)

IsData(byte) == byte > 255

Increasing(bytes) ==
  \A i, j \in DOMAIN bytes : (i < j /\ IsData(bytes[i]) /\ IsData(bytes[j])) => bytes[i] < bytes[j]

\* Data reaches the device in the order in which it was written and at most once, even
\* when calls fail and the application goes on (portmidi.h:804-805).
OrderIsKept == Increasing(driver.wire)

\* The same except for WinMM, which sends what is left of a sysex message that another one
\* has cut off after the short message that was written next.
OrderIsKeptElsewhere == backend # "winmm" => OrderIsKept

LastCall == SubSeq(intended, before.sent + 1, Len(intended))

\* Whatever went wrong before: a call that starts outside a sysex message, ends outside
\* one and returns pmNoError has sent all of its bytes, and nothing after them.
SuccessMeansSent ==
  (/\ pc = "idle" /\ result = "pmNoError" /\ calls > 0
   /\ ~before.sysex /\ ~sysex_in_progress
   /\ ~embedded /\ backend # "winmm") =>
     IsSuffix(Sent(LastCall), driver.wire) /\ driver.list = <<>>

\* Every call returns, in particular the two loops of Pm_WriteSysEx come to an end.
CallReturns == pc # "idle" ~> pc = "idle"

\* A real-time message is one byte, also inside a sysex message (portmidi.h:943-948).
RealTimeIsOneByte ==
  (pc = "idle" /\ errors = 0) =>
    ToSet(driver.wire \o driver.list \o driver.part) \subseteq ToSet(Sent(intended))
=============================================================================
