---------------------------- MODULE PmInputHeard ----------------------------
(***************************************************************************)
(* PmInput next to a listener that follows the rules which the comments of *)
(* portmidi.c give for short messages (1308-1309, 1392-1397): every one of *)
(* them is enqueued, and a status byte below F0 stays in force (running    *)
(* status) until a status byte from F0 to F7 comes.                        *)
(***************************************************************************)
EXTENDS PmInput

VARIABLES running,   \* the status in force and the data bytes that came since: <<>> if none
          due        \* the channel messages that the device has sent

heard == <<running, due>>

HeardInit == Init /\ running = <<>> /\ due = <<>>

HearStatus(byte) ==
  /\ IsStatus(byte) /\ ~IsRealTime(byte)
  /\ running' = IF IsChannel(byte) THEN <<byte>> ELSE <<>>
  /\ UNCHANGED due

HearData(byte) ==
  /\ ~IsStatus(byte) /\ running # <<>>
  /\ IF Len(running) + 1 = pm_midi_length(running[1])
       THEN running' = <<running[1]>> /\ due' = Append(due, Append(running, byte))
       ELSE running' = Append(running, byte) /\ UNCHANGED due

HearMessage(bytes) ==
  /\ IsChannel(bytes[1])
  /\ due' = Append(due, bytes)
  /\ UNCHANGED running

NotHeard(bytes) == IF Len(bytes) > 1 THEN ~IsChannel(bytes[1])
                   ELSE IsRealTime(bytes[1]) \/ (~IsStatus(bytes[1]) /\ running = <<>>)

Hear(bytes) == \/ Len(bytes) = 1 /\ (HearStatus(bytes[1]) \/ HearData(bytes[1]))
               \/ Len(bytes) > 1 /\ HearMessage(bytes)
               \/ NotHeard(bytes) /\ UNCHANGED heard

\* The device sends EOX at the end of sysex messages only.
HeardNext == /\ ReceiveByte \/ ReceiveShort
             /\ in' = <<Eox>> => sysex_in_progress
             /\ Hear(in')

HeardSpec == HeardInit /\ [][HeardNext]_<<vars, heard>>

\* As long as the queue has room, the channel messages in the queue are those the device
\* has sent: none is dropped, changed or made up.
ShortIsDelivered ==
  overflows = 0 =>
     SelectSeq(log, LAMBDA event : IsChannel(event[1])) = due
=============================================================================
