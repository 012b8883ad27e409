------------------------------- MODULE PmSndio -------------------------------
(***************************************************************************)
(* The byte parser of the sndio backend: the body of input_thread in       *)
(* src/pm_sndio/pmsndio.c, which cuts what mio_read returns into messages  *)
(* and calls pm_read_short or pm_read_bytes (PmInput) for each.  One step  *)
(* is one byte; how the bytes fall into reads does not matter, because all *)
(* that the parser keeps between two bytes is in its variables.            *)
(*                                                                         *)
(* Beside it runs a reference: the message that is being received as the   *)
(* MIDI standard counts its bytes, running status included.  The device    *)
(* sends any bytes at all, as a device does whose cable is pulled.         *)
(***************************************************************************)
EXTENDS Integers, Sequences, SequencesExt

CONSTANTS SYSEX_MAXLEN,   \* length of sysex_data
          MaxBytes,       \* bound: bytes read
          MaxReopen       \* bound: times the stream is closed and opened again

ASSUME SysexAssumption ==
  SYSEX_MAXLEN \in Nat \ {0} /\ MaxBytes \in Nat /\ MaxReopen \in Nat

\* One status byte for each case of the parser; data bytes are numbered 1, 2, ... 127, 1, ...
\* as they come.
Note      == 144   \* voice, three bytes
Program   == 192   \* voice, two bytes
Sysex     == 240
Song      == 243   \* system common, two bytes
Undefined == 244   \* system common, length 0 in the table
Tune      == 246   \* system common, one byte
Eox       == 247
Clock     == 248   \* real-time
Statuses  == {Note, Program, Sysex, Song, Undefined, Tune, Eox, Clock}

IsStatus(c)  == c >= 128
IsVoice(c)   == c \in 128..239
IsCommon(c)  == c \in (240..247) \ {Sysex, Eox}

\* voice_len and common_len
LengthOf(c) == CASE c = Note -> 3 [] c \in {Program, Song} -> 2
                 [] c = Undefined -> 0 [] OTHER -> 1

After(datum) == (datum % 127) + 1
Bytes == 0..255
Noise == 0   \* whatever is found where a byte was written past the end of sysex_data

VARIABLES
  st, idx, len,      \* locals of input_thread; idx stops at 4, beyond which it does not matter
  message,           \* pm_ev.message: for each of its four bytes, the set ORed into it
  sysex_data,        \* what was stored in sysex_data: its length is idx while st is Sysex
  delivered,         \* calls of pm_read_short and pm_read_bytes: sequences of sets of bytes
  \* the reference
  status,            \* running status, 0 if there is none
  current, running,  \* bytes of the message being received; it began under running status
  due,               \* messages received in whole that can be delivered: [bytes, running]
  bytes, data, reopened

parser    == <<st, idx, len, message, sysex_data, delivered>>
reference == <<status, current, running, due>>
vars      == <<parser, reference, bytes, data, reopened>>

-----------------------------------------------------------------------------
NoCells      == [k \in 0..3 |-> {}]
Cells(m, n)  == [k \in 1..n |-> m[k - 1]]
Exactly(seq) == [k \in 1..Len(seq) |-> {seq[k]}]

\* message |= c << (8 * k).  From k = 4 on the shift is undefined; the outcome is never seen,
\* as such a message is never delivered.
Or(m, k, c) == IF k <= 3 THEN [m EXCEPT ![k] = @ \union {c}] ELSE m
Next4(k)    == IF k < 4 THEN k + 1 ELSE 4

TooLate(k)    == k > SYSEX_MAXLEN   \* mutant of BufferFull
BufferFull(k) == k = SYSEX_MAXLEN

\* The status that data bytes after a complete message belong to.
Unchanged(s)   == s                        \* mutant of StatusAfter
StatusAfter(s) == IF IsVoice(s) THEN s ELSE 0

RealTime(c) ==
  /\ c >= 248
  /\ delivered' = Append(delivered, Exactly(<<c>>))
  /\ UNCHANGED <<st, idx, len, message, sysex_data>>

\* EOX is stored without a look at the space that is left: with sysex_data full it goes one
\* byte past its end, where anything may be read back.
EndOfSysex(c) ==
  /\ c = Eox
  /\ IF st = Sysex
       THEN \E last \in IF BufferFull(Len(sysex_data)) THEN {Eox, Noise} ELSE {Eox} :
              /\ sysex_data' = Append(sysex_data, last)
              /\ delivered' = Append(delivered, Exactly(sysex_data'))
       ELSE UNCHANGED <<sysex_data, delivered>>
  /\ st' = 0 /\ idx' = 0
  /\ UNCHANGED <<len, message>>

StartOfSysex(c) ==
  /\ c = Sysex
  /\ st' = c /\ idx' = 1 /\ sysex_data' = <<c>>
  /\ UNCHANGED <<len, message, delivered>>

\* A message is delivered when a data byte completes it, so that one of a single byte
\* (Tune) never is.
ShortStatus(c) ==
  /\ IsVoice(c) \/ IsCommon(c)
  /\ message' = [NoCells EXCEPT ![0] = {c}]
  /\ len' = LengthOf(c) /\ st' = c /\ idx' = 1
  /\ UNCHANGED <<sysex_data, delivered>>

SysexData(c) ==
  /\ ~IsStatus(c) /\ st = Sysex
  /\ IF BufferFull(Len(sysex_data))
       THEN st' = 0 /\ idx' = 0 /\ UNCHANGED sysex_data
       ELSE /\ sysex_data' = Append(sysex_data, c)
            /\ idx' = Next4(idx)
            /\ UNCHANGED st
  /\ UNCHANGED <<len, message, delivered>>

\* With idx 0 the byte comes under running status.  The code meant to go past the status
\* byte of the message before; it ORs the data onto it, and onto the old data as well.
ShortData(c) ==
  /\ ~IsStatus(c) /\ st \notin {0, Sysex}
  /\ LET first == idx = 0
         at    == IF first THEN 1 ELSE idx
         m     == Or(IF first THEN Or(message, 0, c) ELSE message, at, c)
     IN  /\ message' = m
         /\ IF Next4(at) = len
              THEN /\ delivered' = Append(delivered, Cells(m, len))
                   /\ st' = StatusAfter(st)
                   /\ idx' = 0
              ELSE /\ idx' = Next4(at)
                   /\ UNCHANGED <<st, delivered>>
  /\ UNCHANGED <<len, sysex_data>>

StrayData(c) == ~IsStatus(c) /\ st = 0 /\ UNCHANGED parser

Parse(c) == \/ RealTime(c) \/ EndOfSysex(c) \/ StartOfSysex(c) \/ ShortStatus(c)
            \/ SysexData(c) \/ ShortData(c) \/ StrayData(c)

-----------------------------------------------------------------------------
(* The reference. *)

Whole(m) == /\ m # <<>>
            /\ IF m[1] = Sysex THEN Last(m) = Eox ELSE Len(m) = LengthOf(m[1])

\* What the backend can deliver: no message of one byte outside real time, and no sysex
\* message that is more than a byte too long for sysex_data.
Deliverable(m) == IF m.bytes[1] = Sysex THEN Len(m.bytes) <= SYSEX_MAXLEN + 1
                                        ELSE m.bytes[1] # Tune

Received(m) == due' = IF Deliverable(m) THEN Append(due, m) ELSE due

Receive(c) ==
  IF c >= 248
    THEN /\ Received([bytes |-> <<c>>, running |-> FALSE])
         /\ UNCHANGED <<status, current, running>>
    ELSE LET begins == IsStatus(c) /\ c # Eox
             again  == ~IsStatus(c) /\ current = <<>> /\ status # 0
             inside == current # <<>> /\ (~IsStatus(c) \/ (c = Eox /\ current[1] = Sysex))
             m == CASE begins -> <<c>> [] again -> <<status, c>>
                    [] inside -> Append(current, c) [] OTHER -> <<>>
             r == again \/ (inside /\ running)
         IN  /\ status' = IF IsVoice(c) THEN c ELSE IF IsStatus(c) THEN 0 ELSE status
             /\ IF Whole(m)
                  THEN Received([bytes |-> m, running |-> r])
                       /\ current' = <<>> /\ running' = FALSE
                  ELSE current' = m /\ running' = r /\ UNCHANGED due

ReadByte ==
  /\ bytes < MaxBytes
  /\ \E c \in Statuses \union {After(data)} :
        /\ Parse(c) /\ Receive(c)
        /\ data' = IF IsStatus(c) THEN data ELSE c
  /\ bytes' = bytes + 1
  /\ UNCHANGED reopened

\* sndio_in_close and sndio_in_open: a new thread with new locals, while the device goes on
\* with the message it is sending.
Fresh == st = 0 /\ idx = 0 /\ len = 0 /\ sysex_data = <<>> /\ message = NoCells

Reopen ==
  /\ reopened < MaxReopen
  /\ st' = 0 /\ idx' = 0 /\ len' = 0 /\ sysex_data' = <<>> /\ message' = NoCells
  /\ status' = 0 /\ current' = <<>> /\ running' = FALSE
  /\ reopened' = reopened + 1
  /\ UNCHANGED <<delivered, due, bytes, data>>

Init ==
  /\ Fresh
  /\ delivered = <<>> /\ due = <<>>
  /\ status = 0 /\ current = <<>> /\ running = FALSE
  /\ bytes = 0 /\ data = 0 /\ reopened = 0

Next == ReadByte \/ Reopen
Spec == Init /\ [][Next]_vars

-----------------------------------------------------------------------------
\* Types; and the data of a sysex message stays inside sysex_data: only its EOX can be
\* stored at index SYSEX_MAXLEN (pmsndio.c:160), one past the end.
TypeOK ==
  /\ st \in ({0} \union Statuses) \ {Eox, Clock}
  /\ idx \in 0..4 /\ len \in 0..3
  /\ message \in [0..3 -> SUBSET Bytes]
  /\ sysex_data \in Seq(Bytes)
  /\ Len(sysex_data) <= SYSEX_MAXLEN + 1
  /\ Len(sysex_data) > SYSEX_MAXLEN => st # Sysex
  /\ status \in {0, Note, Program} /\ current \in Seq(Bytes) /\ running \in BOOLEAN
  /\ data \in 0..127 /\ bytes \in 0..MaxBytes /\ reopened \in 0..MaxReopen

\* What the backend gets wrong of that.
Garbled(m) == m.running \/ (m.bytes[1] = Sysex /\ Len(m.bytes) > SYSEX_MAXLEN)

\* Every deliverable message is delivered, once, when its last byte comes, whatever is cut
\* off, out of place or real-time around it; and as it was sent, unless it came under running
\* status or did not fit.  So what is garbled there never reaches another message.
DeliveredIsSent ==
  /\ Len(delivered) = Len(due)
  /\ \A i \in 1..Len(due) : Garbled(due[i]) \/ delivered[i] = Exactly(due[i].bytes)
=============================================================================
