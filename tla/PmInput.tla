------------------------------- MODULE PmInput -------------------------------
(***************************************************************************)
(* The input side of src/pm_common/portmidi.c: the filters and the byte    *)
(* parser between a backend, which receives MIDI, and the queue that the   *)
(* application reads.  A "raw" backend (Core MIDI) hands all bytes to      *)
(* pm_read_bytes; a "parsed" one (ALSA, WinMM, sndio, Haiku) hands short   *)
(* messages to pm_read_short and only sysex bytes to pm_read_bytes.        *)
(*                                                                         *)
(* One step is one call of pm_read_short or one turn of the loop of        *)
(* pm_read_bytes: all the parser knows between bytes is in its variables,  *)
(* so that the splitting of the input into calls does not matter.  The     *)
(* queue is abstracted to what Pm_Enqueue answers, which PmQueue shows can *)
(* be pmBufferOverflow at any time and success again at any later one.     *)
(*                                                                         *)
(* The device may send anything: sysex data also after a message that has  *)
(* interrupted the sysex message, and EOX where no sysex message is.       *)
(***************************************************************************)
EXTENDS Integers, Sequences

CONSTANTS Backends,         \* a subset of {"raw", "parsed"}
          FilterChoices,    \* the filter sets the application uses
          InitialStatus,    \* values running_status can have after malloc
          InitialCount,     \* values short_message_count can have after malloc (not above 4,
                            \* where the code would shift bytes out of the message)
          MaxInput,         \* bound: bytes and short messages received
          MaxOverflows,     \* bound: calls of Pm_Enqueue that find no room
          MaxSetFilter      \* bound: calls of Pm_SetFilter and Pm_SetChannelMask

Bytes == 0..255

ASSUME InputAssumption ==
  /\ Backends \subseteq {"raw", "parsed"}
  /\ InitialStatus \subseteq Bytes /\ InitialCount \subseteq Int
  /\ \A n \in InitialCount : n <= 4
  /\ MaxInput \in Nat /\ MaxOverflows \in Nat /\ MaxSetFilter \in Nat

\* Status bytes, one per case the code distinguishes; data bytes are numbered as they
\* come in (1, 2, 3, ... 127, 0, 1, ...), so that one in a wrong place shows.
Note    == 144   \* three bytes
Program == 192   \* two bytes
Sysex   == 240
Tune    == 246   \* system common, one byte
Eox     == 247
Clock   == 248   \* real-time
Active  == 254   \* real-time, filtered by default
Statuses == {Note, Program, Sysex, Tune, Eox, Clock, Active}

IsStatus(byte)   == byte >= 128
IsRealTime(byte) == byte >= 248
IsChannel(byte)  == IsStatus(byte) /\ byte < 240
After(datum)     == (datum + 1) % 128

pm_midi_length(byte) == CASE byte = Note -> 3 [] byte = Program -> 2 [] OTHER -> 1

Gap == <<>>   \* an event that Pm_Enqueue refused

VARIABLES
  filters,             \* PM_FILT_... and "CHANNEL" for a channel mask that blocks all
  sysex_in_progress,
  message,             \* midi->message as its bytes; Len(message) is midi->message_count
  short_message_count,
  running_status,
  \* history
  log,                 \* what went into the queue: events (their bytes) and gaps
  in,                  \* the last input
  received, overflows, changes,
  backend,
  device_sysex,        \* the device is between a sysex start and the EOX or status after it
  data,                \* the last data byte that pm_read_bytes was called with
  stray_eox,           \* the device has sent EOX where no sysex message was
  source,              \* sysex bytes as they arrived, without the real-time ones among them
  picked,              \* sysex bytes that a reader of the queue has put together from its events
  leaked               \* places in log of sysex data enqueued in spite of PM_FILT_SYSEX

parser == <<filters, sysex_in_progress, message, short_message_count, running_status>>
history == <<received, overflows, changes, backend, device_sysex, data, stray_eox, source, leaked>>
vars == <<parser, log, in, picked, history>>

-----------------------------------------------------------------------------
FilterOf(status) == CASE status = Note    -> "NOTE"
                      [] status = Program -> "PROGRAM"
                      [] status = Tune    -> "TUNE"
                      [] status = Clock   -> "CLOCK"
                      [] status = Active  -> "ACTIVE"
                      [] OTHER            -> "NONE"

pm_status_filtered(status)   == IsChannel(status) /\ FilterOf(status) \in filters
pm_realtime_filtered(status) == FilterOf(status) \in filters
pm_channel_filtered(status)  == status < 240 /\ "CHANNEL" \in filters

\* A real-time message is tested against its own filter; so that the filters of system
\* common messages (MTC, SONG_POSITION, SONG_SELECT, TUNE) are never looked at.
Passes(status) == /\ ~pm_status_filtered(status)
                  /\ IsRealTime(status) => ~pm_realtime_filtered(status)
                  /\ ~pm_channel_filtered(status)

\* The bytes of an event, at most four, without the real-time messages among them.
Kept(event, i) == IF i \in 1..Len(event) /\ ~IsRealTime(event[i]) THEN <<event[i]>> ELSE <<>>
DataOf(event)  == Kept(event, 1) \o Kept(event, 2) \o Kept(event, 3) \o Kept(event, 4)

\* How a reader puts a sysex message together (portmidi.h:815-822): it begins anew with F0, and
\* is given up at an overflow and at the status byte of another message.
PickUp(event) ==
  picked' = IF event = Gap THEN <<>>
            ELSE IF event[1] = Sysex THEN DataOf(event)
            ELSE IF ~IsStatus(event[1]) \/ event[1] = Eox \/ IsRealTime(event[1])
              THEN picked \o DataOf(event)
            ELSE <<>>

\* Pm_Enqueue of one event.
Enqueue(event, accepted) ==
  /\ log' = Append(log, IF accepted THEN event ELSE Gap)
  /\ PickUp(IF accepted THEN event ELSE Gap)
  /\ ~accepted => overflows < MaxOverflows
  /\ overflows' = IF accepted THEN overflows ELSE overflows + 1

NoEnqueue == UNCHANGED <<log, picked, overflows>>

\* message_count goes on counting when a message is complete.
Add(byte) == Append(message, byte)

GroupOfFive(bytes) == Len(bytes) = 5                    \* mutant of GroupFull
GroupFull(bytes)   == Len(bytes) = 4

NotCancelled(accepted, in_progress) == in_progress      \* mutant of InProgress
InProgress(accepted, in_progress)   == accepted /\ in_progress

NotRestarted(byte) == Add(byte)                         \* mutant of Restarted
Restarted(byte)    == <<byte>>

Longer(bytes)   == Len(bytes) >= short_message_count    \* mutant of Complete
Complete(bytes) == Len(bytes) = short_message_count

\* An event made of the accumulated bytes is offered to the queue and the buffer emptied.
FlushSysex(bytes, accepted, in_progress) ==
  /\ Enqueue(bytes, accepted)
  /\ sysex_in_progress' = InProgress(accepted, in_progress)
  /\ message' = <<>>

(***************************************************************************)
(* pm_read_short.  While a sysex message is in progress a real-time byte   *)
(* joins the sysex bytes, and any other status byte ends the sysex without *)
(* being enqueued itself.                                                  *)
(***************************************************************************)
pm_read_short(bytes) ==
  LET status == bytes[1] IN
  \/ /\ ~Passes(status)
     /\ NoEnqueue
     /\ UNCHANGED <<sysex_in_progress, message>>
  \/ /\ Passes(status)
     /\ sysex_in_progress /\ IsRealTime(status)
     /\ IF GroupFull(Add(status))
          THEN \E accepted \in BOOLEAN : FlushSysex(Add(status), accepted, TRUE)
          ELSE message' = Add(status) /\ NoEnqueue /\ UNCHANGED sysex_in_progress
  \/ /\ Passes(status)
     /\ sysex_in_progress /\ IsStatus(status) /\ ~IsRealTime(status)
     /\ sysex_in_progress' = FALSE
     /\ NoEnqueue
     /\ UNCHANGED message
  \/ /\ Passes(status)
     /\ ~(sysex_in_progress /\ IsStatus(status))
     /\ \E accepted \in BOOLEAN :
           /\ Enqueue(bytes, accepted)
           /\ sysex_in_progress' = InProgress(accepted, sysex_in_progress)
     /\ UNCHANGED message

-----------------------------------------------------------------------------
(* pm_read_bytes, one byte.                                                *)

RealTimeByte(byte) ==
  /\ IsRealTime(byte)
  /\ pm_read_short(<<byte>>)
  /\ UNCHANGED <<short_message_count, running_status>>

SysexStart(byte) ==
  /\ byte = Sysex
  /\ message' = Restarted(byte)
  /\ sysex_in_progress' = TRUE
  /\ NoEnqueue
  /\ UNCHANGED <<short_message_count, running_status>>

\* Any other status byte cancels a sysex message; a message of one byte is complete.
ShortStatus(byte) ==
  /\ IsStatus(byte) /\ byte \notin {Sysex, Eox} /\ ~IsRealTime(byte)
  /\ short_message_count' = pm_midi_length(byte)
  /\ sysex_in_progress' = FALSE
  /\ IF pm_midi_length(byte) > 1
       THEN message' = Restarted(byte) /\ NoEnqueue
       ELSE /\ message' = <<>>
            /\ IF Passes(byte) THEN \E accepted \in BOOLEAN : Enqueue(<<byte>>, accepted)
                               ELSE NoEnqueue
  /\ UNCHANGED running_status

\* A data byte or EOX of a sysex message: four bytes make an event, EOX makes the last.
SysexByte(byte) ==
  /\ sysex_in_progress
  /\ ~IsStatus(byte) \/ byte = Eox
  /\ LET bytes == Add(byte) IN
     IF GroupFull(bytes) \/ byte = Eox
       THEN IF "SYSEX" \in filters
              THEN /\ sysex_in_progress' = (byte # Eox)
                   /\ message' = <<>>
                   /\ NoEnqueue
              ELSE \E accepted \in BOOLEAN : FlushSysex(bytes, accepted, byte # Eox)
       ELSE message' = bytes /\ NoEnqueue /\ UNCHANGED sysex_in_progress
  /\ UNCHANGED <<short_message_count, running_status>>

\* A data byte outside sysex (EOX falls through to here as well).
ShortByte(byte) ==
  /\ ~sysex_in_progress
  /\ ~IsStatus(byte) \/ byte = Eox
  /\ IF message = <<>> /\ running_status = 0
       THEN NoEnqueue /\ UNCHANGED <<sysex_in_progress, message>>   \* dropped
       ELSE LET kept  == IF message = <<>> THEN <<running_status>> ELSE message
                bytes == Append(kept, byte)
            IN  /\ message' = bytes
                /\ IF Complete(bytes) /\ Passes(bytes[1])
                     THEN \E accepted \in BOOLEAN :
                            Enqueue(bytes, accepted) /\ sysex_in_progress' = FALSE
                     ELSE NoEnqueue /\ UNCHANGED sysex_in_progress
  /\ UNCHANGED <<short_message_count, running_status>>

pm_read_bytes(byte) ==
  RealTimeByte(byte) \/ SysexStart(byte) \/ ShortStatus(byte) \/ SysexByte(byte) \/ ShortByte(byte)

-----------------------------------------------------------------------------
\* The bytes of a sysex message that is in progress, and the events that a real-time byte
\* completes although sysex messages are filtered (pm_flush_sysex does not look).
Track(byte) ==
  /\ source' = IF byte = Sysex THEN <<Sysex>>
               ELSE IF sysex_in_progress /\ (~IsStatus(byte) \/ byte = Eox)
               THEN Append(source, byte) ELSE source
  /\ leaked' = IF IsRealTime(byte) /\ sysex_in_progress /\ "SYSEX" \in filters
                 THEN leaked \union (Len(log) + 1)..Len(log') ELSE leaked

\* What pm_read_bytes is called with: anything that a device can send, or the bytes of sysex
\* messages.  A backend that parses short messages itself reports what follows a sysex start up
\* to EOX as sysex bytes, also after a short message that came in between.
BytesToRead ==
  IF backend = "raw" THEN Statuses \union {After(data)}
                     ELSE {Sysex} \union (IF device_sysex THEN {After(data), Eox} ELSE {})

ReceiveByte ==
  /\ received < MaxInput
  /\ received' = received + 1
  /\ \E byte \in BytesToRead :
        /\ in' = <<byte>>
        /\ data' = IF IsStatus(byte) THEN data ELSE byte
        /\ device_sysex' = (\/ byte = Sysex
                            \/ device_sysex /\ (~IsStatus(byte) \/ IsRealTime(byte)))
        /\ stray_eox' = (stray_eox \/ (byte = Eox /\ ~device_sysex))
        /\ pm_read_bytes(byte)
        /\ Track(byte)
  /\ UNCHANGED <<filters, changes, backend>>

ShortMessage(status) ==
  [i \in 1..pm_midi_length(status) |-> IF i = 1 THEN status ELSE (data + i - 1) % 128]

\* A whole message from a backend that parses short messages itself.
ReceiveShort ==
  /\ backend = "parsed"
  /\ received < MaxInput
  /\ received' = received + 1
  /\ \E status \in Statuses \ {Sysex, Eox} :
        /\ in' = ShortMessage(status)
        /\ pm_read_short(ShortMessage(status))
        /\ Track(status)
  /\ UNCHANGED <<filters, short_message_count, running_status, changes, backend, device_sysex,
                 data, stray_eox>>

\* Pm_SetFilter and Pm_SetChannelMask, at any time; but PM_FILT_SYSEX is switched only
\* between sysex messages.
Pm_SetFilter ==
  /\ changes < MaxSetFilter
  /\ \E f \in FilterChoices \ {filters} :
        /\ sysex_in_progress => ("SYSEX" \in f <=> "SYSEX" \in filters)
        /\ filters' = f
  /\ changes' = changes + 1
  /\ UNCHANGED <<sysex_in_progress, message, short_message_count, running_status, log, in,
                 picked, received, overflows, backend, device_sysex, data, stray_eox, source,
                 leaked>>

\* pm_create_internal: two fields of the new PmInternal keep what malloc left there.
Init ==
  /\ filters = {"ACTIVE"}
  /\ sysex_in_progress = FALSE
  /\ message = <<>>
  /\ short_message_count \in InitialCount
  /\ running_status \in InitialStatus
  /\ log = <<>> /\ in = <<>> /\ source = <<>> /\ picked = <<>> /\ leaked = {}
  /\ backend \in Backends /\ device_sysex = FALSE /\ stray_eox = FALSE
  /\ received = 0 /\ overflows = 0 /\ changes = 0 /\ data = 0

Next == ReceiveByte \/ ReceiveShort \/ Pm_SetFilter
Spec == Init /\ [][Next]_vars

-----------------------------------------------------------------------------
TypeOK ==
  /\ filters \in {{"ACTIVE"}} \union FilterChoices
  /\ sysex_in_progress \in BOOLEAN
  /\ message \in Seq(Bytes)
  /\ sysex_in_progress => Len(message) <= 3
  /\ short_message_count \in InitialCount \union 1..3
  /\ running_status \in InitialStatus
  /\ log \in Seq(Seq(Bytes))
  /\ received \in 0..MaxInput /\ overflows \in 0..MaxOverflows /\ changes \in 0..MaxSetFilter

\* An event continues a sysex message, rather than being a short message, when it begins with
\* data, with EOX, or with a real-time byte that has others behind it.
Continues(event) == /\ event # Gap
                    /\ \/ ~IsStatus(event[1]) \/ event[1] = Eox
                       \/ IsRealTime(event[1]) /\ Len(event) > 1
OpenSysex(event) == /\ event # Gap /\ Len(event) = 4
                    /\ event[1] = Sysex \/ Continues(event)
                    /\ \A i \in 1..4 : event[i] # Eox

\* No data byte is missing, repeated or out of order, whatever status bytes come between.
Consecutive(bytes) ==
  \A i, k \in 1..Len(bytes) :
     (/\ i < k /\ ~IsStatus(bytes[i]) /\ ~IsStatus(bytes[k])
      /\ \A j \in i + 1..k - 1 : IsStatus(bytes[j])) => bytes[k] = After(bytes[i])

\* Two fields have what malloc left there.  running_status is never set (portmidi.c:1462): it is
\* 0 by luck, or a status that running status can have, or anything else, and then data are made
\* up into messages that nobody has sent.  A parsed backend never sets short_message_count, and
\* if that is 2 to 4, sysex data that come after an interruption are joined to what the
\* accumulator still has of the message and enqueued as a short message of that length.
LuckyStatus == running_status = 0 \/ IsChannel(running_status)
Lucky == IF backend = "raw" THEN LuckyStatus ELSE short_message_count < 2

\* The reader never finds sysex data out of place: an event that continues a sysex message
\* continues the event before it, with at most whole real-time messages in between.  After an
\* overflow, or when a message has cut the sysex off, the rest of it is not enqueued
\* (portmidi.c:1399-1418).  Not so what a real-time byte completes while sysex messages are
\* filtered and that real-time message is not: it is enqueued all the same (1342).
SysexIsContiguous ==
  Lucky => \A i \in 1..Len(log) \ leaked :
     Continues(log[i]) =>
        \E k \in 1..i - 1 : /\ OpenSysex(log[k]) /\ Consecutive(log[k] \o log[i])
                            /\ \A j \in k + 1..i - 1 : /\ Len(log[j]) = 1
                                                       /\ IsRealTime(log[j][1])

\* What has come of a sysex message that is in progress is what the reader has put together from
\* the queue and what the accumulator holds: no byte is lost, doubled or out of order, wherever
\* real-time messages come in between and however they are delivered.
SysexIsComplete ==
  (sysex_in_progress /\ "SYSEX" \notin filters) =>
     IF message # <<>> /\ message[1] = Sysex THEN source = DataOf(message)
                                             ELSE source = picked \o DataOf(message)

\* A short message in the queue is as long as its status says, and what follows its status are
\* the data bytes that came after it, whatever real-time messages came in between; provided that
\* running_status was 0 by luck when the stream was opened.  An EOX outside sysex messages, which
\* should end the message (portmidi.c:1394-1396), is taken as one of its data bytes.
ShortIsWhole ==
  running_status = 0 => \A i \in 1..Len(log) :
     (log[i] # Gap /\ IsChannel(log[i][1])) =>
        /\ Len(log[i]) = pm_midi_length(log[i][1])
        /\ \A k \in 2..Len(log[i]) : ~IsStatus(log[i][k]) \/ (log[i][k] = Eox /\ stray_eox)
        /\ Consecutive(log[i])
=============================================================================
