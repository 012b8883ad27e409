------------------------------ MODULE PmWinOut ------------------------------
(***************************************************************************)
(* The buffers of an output stream on Windows (src/pm_win/pmwinmm.c): the  *)
(* pool of headers, get_free_output_buffer, which looks through it and     *)
(* waits for the callback of the system to give a buffer back, and the     *)
(* times that are written into the buffers when latency is not 0.          *)
(* PmOutput has the bytes; here a buffer is so many bytes long, and a      *)
(* short message of a stream takes EventSize of them, a sysex byte one.    *)
(*                                                                         *)
(* The application's thread makes the calls that Pm_Write makes, a flush   *)
(* and a scan of one buffer being a step each.  The other thread is the    *)
(* system's: it finishes the buffers it was given in order, and calls      *)
(* winmm_streamout_callback for each.                                      *)
(***************************************************************************)
EXTENDS Integers, Sequences, FiniteSets, SequencesExt, FiniteSetsExt

CONSTANTS NumBuffers,   \* NUM_SIMPLE_SYSEX_BUFFERS, or MIN_STREAM_BUFFERS and more
          Expansion,    \* NUM_EXPANSION_BUFFERS
          EventSize,    \* 3 * sizeof(long): delta time, stream and message
          BufferLength, ExpansionLength,   \* dwBufferLength of the two kinds of buffers
          Wrap,         \* 2^32: times are unsigned long
          Times,        \* bound: the times asked for, timestamp + info->delta + latency, as they
                        \* are meant; 0 is the start of the stream
          MaxCalls,     \* bound: calls of the backend, for each latency
          MaxFailures   \* bound: calls of the system that fail

ASSUME PmWinOutAssumption ==
  /\ NumBuffers \in Nat \ {0} /\ Expansion \in Nat
  /\ EventSize \in Nat /\ EventSize >= 2
  /\ BufferLength \in Nat /\ BufferLength >= EventSize + 2
  /\ ExpansionLength \in Nat /\ ExpansionLength >= EventSize + 2
  /\ Wrap \in Nat \ {0} /\ Times \subseteq Int
  /\ MaxCalls \in [{0, 1} -> Nat] /\ MaxFailures \in Nat

VARIABLES
  stream,        \* "closed", "open" or "freed"
  latency,       \* 0, or 1 for any other
  pc,            \* "idle", "scan", "wait", "fill", "flush" or "aborted"
  call,          \* the call that is being served: its kind, and the time asked for
  sysex,         \* the application is inside a sysex message
  \* winmm_info_node
  num_buffers, next_buffer,
  prepared,      \* MHDR_PREPARED of each buffer
  buffer_signal, \* the event is set
  hdr, size,     \* the buffer that is being filled, 0 if none; dwBytesRecorded
  last_time,
  scanned,       \* i of get_free_output_buffer
  \* the system
  playing,       \* the buffers it has, in order
  done,          \* the callback: <<>>, or the step it is at and the buffer
  is_removed,
  calls, failures,
  \* history
  leaked,        \* what opens that failed have not given back
  pending,       \* sum of the delta times in hdr
  streamed,      \* and in all the buffers that the device was given
  holds,         \* what is in hdr: "none", "short", "byte" or "mixed"
  garbled,       \* delta times have been lost, or mixed with the bytes of a sysex message
  due,           \* the latest of the times asked for
  wrapped        \* one of them was not in the range of the device

pool    == <<num_buffers, next_buffer, scanned>>
written == <<holds, last_time, pending, streamed, garbled, due, wrapped>>
device  == <<playing, done, is_removed>>
life    == <<stream, leaked>>
vars    == <<life, latency, pc, call, sysex, pool, prepared, buffer_signal, hdr, size, written,
             device, calls, failures>>

MaxBuffers == NumBuffers + Expansion
Buffer == 1..MaxBuffers
Length(buffer) == IF buffer <= NumBuffers THEN BufferLength ELSE ExpansionLength
Idle == [kind |-> "none", when |-> 0]

-----------------------------------------------------------------------------
(* The calls of Pm_Write.                                                  *)

Begin(kind, when, label) ==
  /\ stream = "open" /\ pc = "idle" /\ calls < MaxCalls[latency]
  /\ calls' = calls + 1
  /\ call' = [kind |-> kind, when |-> when]
  /\ pc' = label

GetBuffer == IF hdr = 0 THEN "scan" ELSE "fill"

\* winmm_write_short.  With latency 0 the message is sent at once, whatever is in hdr.
WriteShort ==
  /\ \E when \in Times :
        IF latency = 0 THEN Begin("none", 0, "idle") ELSE Begin("short", when, GetBuffer)
  /\ scanned' = 0
  /\ UNCHANGED <<life, latency, sysex, num_buffers, next_buffer, prepared, buffer_signal, hdr, size,
                 written, device, failures>>

\* winmm_begin_sysex is winmm_write_flush.
BeginSysex ==
  /\ ~sysex /\ Begin("none", 0, "flush")
  /\ sysex' = TRUE
  /\ UNCHANGED <<life, latency, pool, prepared, buffer_signal, hdr, size, written, device,
                 failures>>

\* winmm_write_byte.  Only the first byte of a buffer of a stream has a time.
WriteByte ==
  /\ sysex
  /\ \E when \in (IF latency # 0 /\ hdr = 0 THEN Times ELSE {0}) : Begin("byte", when, GetBuffer)
  /\ scanned' = 0
  /\ UNCHANGED <<life, latency, sysex, num_buffers, next_buffer, prepared, buffer_signal, hdr, size,
                 written, device, failures>>

\* Pm_Write when a sysex message begins before the last one has ended: no call is made, and what
\* is in hdr stays there.
Unterminated ==
  /\ stream = "open" /\ pc = "idle" /\ sysex
  /\ sysex' = FALSE
  /\ UNCHANGED <<life, latency, pc, call, pool, prepared, buffer_signal, hdr, size, written,
                 device, calls, failures>>

\* winmm_end_sysex, or winmm_write_flush at the end of Pm_Write.
EndOrFlush ==
  /\ Begin("none", 0, "flush")
  /\ sysex' = FALSE
  /\ UNCHANGED <<life, latency, pool, prepared, buffer_signal, hdr, size, written, device,
                 failures>>

-----------------------------------------------------------------------------
(* get_free_output_buffer.                                                 *)

OneFurther == IF next_buffer > num_buffers THEN 1 ELSE next_buffer + 1   \* mutant of Following
Following == IF next_buffer >= num_buffers THEN 1 ELSE next_buffer + 1

Whatever(buffer) == TRUE                              \* mutant of IsFree
IsFree(buffer) == ~prepared[buffer]

Scan ==
  /\ pc = "scan" /\ scanned < num_buffers
  /\ next_buffer' = Following
  /\ scanned' = scanned + 1
  /\ IF IsFree(Following) THEN pc' = "fill" /\ hdr' = Following /\ size' = 0
                          ELSE UNCHANGED <<pc, hdr, size>>
  /\ UNCHANGED <<life, latency, call, sysex, num_buffers, prepared, buffer_signal, written, device,
                 calls, failures>>

Forget == FALSE                                       \* mutant of StillSet
StillSet == buffer_signal

\* Every buffer was in use when it was looked at.
Block ==
  /\ pc = "scan" /\ scanned = num_buffers
  /\ pc' = "wait"
  /\ buffer_signal' = StillSet
  /\ UNCHANGED <<life, latency, call, sysex, pool, prepared, hdr, size, written, device, calls,
                 failures>>

\* The event resets itself.
Wake ==
  /\ pc = "wait" /\ buffer_signal
  /\ buffer_signal' = FALSE
  /\ pc' = "scan" /\ scanned' = 0
  /\ UNCHANGED <<life, latency, call, sysex, num_buffers, next_buffer, prepared, hdr, size, written,
                 device, calls, failures>>

NoBuffer == 0                                         \* mutant of Spare
Spare == MaxBuffers - num_buffers

\* After a second without the event the pool gets another buffer, if it may and there is memory.
TimeOut ==
  /\ pc = "wait" /\ ~buffer_signal
  /\ \/ /\ Spare > 0
        /\ num_buffers' = num_buffers + 1
        /\ hdr' = num_buffers + 1 /\ size' = 0
        /\ pc' = "fill"
        /\ UNCHANGED <<scanned, failures>>
     \/ /\ Spare = 0
        /\ pc' = "scan" /\ scanned' = 0
        /\ UNCHANGED <<num_buffers, hdr, size, failures>>
     \/ /\ Spare > 0 /\ failures < MaxFailures
        /\ failures' = failures + 1
        /\ pc' = "scan" /\ scanned' = 0
        /\ UNCHANGED <<num_buffers, hdr, size>>
  /\ UNCHANGED <<life, latency, call, sysex, next_buffer, prepared, buffer_signal, written, device,
                 calls>>

-----------------------------------------------------------------------------
Asked == call.when % Wrap
Backwards == Asked                                    \* mutant of When
When == Max({Asked, last_time})

\* A time goes into the buffer with each short message, but only with the first byte of a
\* buffer, which comes after a header of its own.
TakesTime == latency # 0 /\ (call.kind = "short" \/ size = 0)

\* Sizes: the room is tested afterwards, for another message or for another byte and the pad
\* byte.  A short message that finds sysex bytes in hdr, where there is room for less, may
\* be written past the end.
Full(s) == IF call.kind = "short" THEN s + EventSize > Length(hdr) ELSE s >= Length(hdr) - 1
Added == (IF TakesTime THEN EventSize ELSE 0) + (IF call.kind = "short" THEN 0 ELSE 1)

Fill ==
  /\ pc = "fill"
  /\ size' = size + Added
  /\ IF TakesTime THEN /\ last_time' = When
                       /\ pending' = pending + ((When - last_time) % Wrap)
                       /\ due' = Max({call.when, due})
                       /\ wrapped' = (wrapped \/ call.when \notin 0..(Wrap - 1))
                  ELSE UNCHANGED <<last_time, pending, due, wrapped>>
  /\ holds' = IF size = 0 \/ holds = call.kind THEN call.kind ELSE "mixed"
  /\ garbled' = (garbled \/ holds' = "mixed")
  /\ pc' = IF Full(size') THEN "flush" ELSE "idle"
  /\ call' = IF Full(size') THEN call ELSE Idle
  /\ UNCHANGED <<life, latency, sysex, pool, prepared, buffer_signal, hdr, streamed, device, calls,
                 failures>>

Flushed ==
  /\ pc = "flush"
  /\ pc' = "idle" /\ call' = Idle
  /\ hdr' = 0 /\ size' = 0 /\ holds' = "none" /\ pending' = 0
  /\ UNCHANGED <<life, latency, sysex, pool, buffer_signal, last_time, due, wrapped, done,
                 is_removed, calls>>

\* winmm_write_flush.
Send ==
  /\ Flushed
  /\ IF hdr = 0
       THEN UNCHANGED <<prepared, playing, streamed>>
       ELSE /\ ~is_removed
            /\ prepared' = [prepared EXCEPT ![hdr] = TRUE]
            /\ playing' = Append(playing, hdr)
            /\ streamed' = streamed + pending
  /\ UNCHANGED <<garbled, failures>>

\* A header that cannot be prepared is free; one that cannot be sent stays prepared, and no
\* callback will come for it.
FlushFails ==
  /\ Flushed
  /\ hdr # 0
  /\ is_removed \/ failures < MaxFailures
  /\ failures' = IF is_removed THEN failures ELSE failures + 1
  /\ \/ UNCHANGED prepared
     \/ ~is_removed /\ prepared' = [prepared EXCEPT ![hdr] = TRUE]
  /\ garbled' = TRUE
  /\ UNCHANGED <<playing, streamed>>

-----------------------------------------------------------------------------
(* The system's thread: winmm_streamout_callback.                          *)

Others == UNCHANGED <<life, latency, pc, call, sysex, pool, hdr, size, written, calls, failures>>

\* MOM_DONE for the buffer that has been played: unprepared first, then signalled.
Unprepare ==
  /\ stream = "open" /\ done = <<>> /\ playing # <<>> /\ ~is_removed
  /\ prepared' = [prepared EXCEPT ![Head(playing)] = FALSE]
  /\ playing' = Tail(playing)
  /\ done' = <<Head(playing)>>
  /\ UNCHANGED <<buffer_signal, is_removed>> /\ Others

SetEvent ==
  /\ stream = "open" /\ done # <<>>
  /\ buffer_signal' = TRUE
  /\ done' = <<>>
  /\ UNCHANGED <<prepared, playing, is_removed>> /\ Others

\* MOM_CLOSE: the device is gone with the buffers it has.  The event is set all the same.
Removed ==
  /\ stream = "open" /\ done = <<>> /\ ~is_removed /\ failures < MaxFailures
  /\ is_removed' = TRUE
  /\ buffer_signal' = TRUE
  /\ failures' = failures + 1
  /\ UNCHANGED <<life, latency, pc, call, sysex, pool, hdr, size, written, prepared, playing, done,
                 calls>>

-----------------------------------------------------------------------------
(* Opening and closing.                                                    *)

StreamOnly == UNCHANGED <<latency, pc, call, sysex, pool, prepared, buffer_signal, hdr, size,
                          written, device, calls>>

\* An open that fails forgets info before winmm_out_delete could free what it holds: the event,
\* and the buffers if they have been allocated.  Of these, allocate_buffers frees its own.
Open ==
  /\ stream = "closed"
  /\ \/ stream' = "open" /\ UNCHANGED <<leaked, failures>>
     \/ /\ failures < MaxFailures
        /\ failures' = failures + 1
        /\ \/ leaked' = leaked \union {"info", "buffer_signal"}
           \/ latency # 0 /\ leaked' = leaked \union {"info", "buffer_signal", "buffers"}
        /\ UNCHANGED stream
  /\ StreamOnly

\* The memory is freed whatever the system answers.  If it still has buffers, or is in the
\* callback, what it does with the freed memory is undefined; nothing of it is modelled.
Close ==
  /\ stream = "open" /\ pc \in {"idle", "aborted"}
  /\ stream' = "freed"
  /\ UNCHANGED <<leaked, failures>> /\ StreamOnly

\* winmm_out_abort.  A stream is stopped and comes back with its buffers; it is not restarted,
\* so that nothing but Pm_Close may follow.
Abort ==
  /\ stream = "open" /\ pc = "idle"
  /\ pc' = "aborted"
  /\ UNCHANGED <<life, latency, call, sysex, pool, prepared, buffer_signal, hdr, size, written,
                 device, calls, failures>>

-----------------------------------------------------------------------------
\* winmm_info_create and allocate_buffers.
Init ==
  /\ stream = "closed" /\ leaked = {}
  /\ latency \in {0, 1}
  /\ pc = "idle" /\ call = Idle /\ sysex = FALSE
  /\ num_buffers = NumBuffers /\ next_buffer = 1 /\ scanned = 0
  /\ prepared = [b \in Buffer |-> FALSE]
  /\ buffer_signal = FALSE
  /\ hdr = 0 /\ size = 0 /\ last_time = 0
  /\ playing = <<>> /\ done = <<>> /\ is_removed = FALSE
  /\ calls = 0 /\ failures = 0
  /\ pending = 0 /\ streamed = 0 /\ holds = "none" /\ garbled = FALSE
  /\ due = 0 /\ wrapped = FALSE

InCall == Scan \/ Block \/ Wake \/ TimeOut \/ Fill \/ Send \/ FlushFails
Callback == Unprepare \/ SetEvent
Next == \/ Open \/ Close \/ Abort
        \/ WriteShort \/ BeginSysex \/ WriteByte \/ Unterminated \/ EndOrFlush
        \/ InCall \/ Callback \/ Removed

\* A call that has been made goes on, and the device plays what it is given.
Spec == Init /\ [][Next]_vars /\ WF_vars(InCall) /\ WF_vars(Callback)

-----------------------------------------------------------------------------
FlagTypes ==
  /\ stream \in {"closed", "open", "freed"} /\ leaked \subseteq {"info", "buffer_signal", "buffers"}
  /\ pc \in {"idle", "scan", "wait", "fill", "flush", "aborted"}
  /\ sysex \in BOOLEAN /\ is_removed \in BOOLEAN /\ buffer_signal \in BOOLEAN
  /\ garbled \in BOOLEAN /\ wrapped \in BOOLEAN
NumberTypes ==
  /\ latency \in {0, 1} /\ calls \in Nat /\ failures \in 0..MaxFailures
  /\ num_buffers \in NumBuffers..MaxBuffers
  /\ next_buffer \in 1..num_buffers /\ hdr \in 0..num_buffers /\ scanned \in 0..num_buffers
  /\ pc = "fill" => hdr # 0
SizeTypes ==
  /\ size \in Nat /\ holds \in {"none", "short", "byte", "mixed"}
  /\ size = 0 <=> holds = "none"
  /\ hdr = 0 => size = 0
  /\ pc = "fill" => call.kind \in {"short", "byte"}
  /\ hdr # 0 => size <= Length(hdr) + (IF holds = "mixed" THEN EventSize - 2 ELSE 0)
  /\ hdr # 0 /\ pc # "flush" => size <= Length(hdr) - 2
TimeTypes ==
  /\ call \in [kind : {"none", "short", "byte"}, when : Times \union {0}]
  /\ last_time \in 0..(Wrap - 1) /\ pending \in Nat /\ streamed \in Nat /\ due \in Nat
DeviceTypes ==
  /\ prepared \in [Buffer -> BOOLEAN]
  /\ playing \in Seq(Buffer) /\ done \in Seq(Buffer)

TypeOK == FlagTypes /\ NumberTypes /\ SizeTypes /\ TimeTypes /\ DeviceTypes

Held == ToSet(playing) \union ToSet(done)

\* A buffer is filled only while the device does not have it, and it is sent once.
FilledIsOurs ==
  /\ hdr # 0 => hdr \notin ToSet(playing)
  /\ IsInjective(playing)

\* A thread that waits for a buffer when there is one has been or will be signalled: no
\* wakeup is lost between the scan of the flags and the wait (pmwinmm.c:307-315, 1071-1092).
NoWakeupIsLost ==
  (pc = "wait" /\ ~buffer_signal /\ done = <<>>) => \A b \in 1..num_buffers : prepared[b]

\* The device plays each message at its time: the delta times it was given, and those still in
\* the buffer, add up to last_time, so that none was negative and wrapped; and last_time is the
\* latest time asked for, unless one was before the start of the stream or later than 2^32 - 1:
\* when + delta + latency wraps, and after a time that is too early all others are moved to the end
\* of the range.  A flush that fails, and short messages among the bytes of a sysex message,
\* break both for all that follows.
StreamTimeIsRight ==
  latency # 0 /\ ~garbled => (streamed + pending = last_time /\ (~wrapped => last_time = due))

\* All buffers are prepared and no callback will come: they were lost by calls of the system
\* that failed, or went with the device.
Starved == (\A b \in Buffer : prepared[b]) /\ (playing = <<>> \/ is_removed) /\ done = <<>>

\* Every call returns, in particular no call waits for a buffer forever, unless all have been
\* lost, the expansion buffers included (pmwinmm.c:315-357).
CallReturns == pc \in {"scan", "wait", "fill", "flush"} ~> (pc = "idle" \/ Starved)
=============================================================================
