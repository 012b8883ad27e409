--------------------------- MODULE PmWinOutProofs ---------------------------
(***************************************************************************)
(* PmWinOut for any number and size of buffers and any range of times: who *)
(* has a buffer, that no wakeup is lost, and the times in the stream.      *)
(***************************************************************************)
EXTENDS PmWinOut, SequenceTheorems, TLAPS

(***************************************************************************)
(* The inductive invariant.                                                *)
(*   Ownership   A buffer that the device has is prepared, and is in its   *)
(*               list once; one that is being filled is not prepared, nor  *)
(*               is one that has not been allocated yet.                   *)
(*   Wakeup      As long as nothing has come back, every buffer that       *)
(*               get_free_output_buffer has looked at is still prepared;   *)
(*               when it waits it has looked at all.                       *)
(*   Filling     What the buffer holds fits the call that is being served; *)
(*               where there are only short messages there is room for one *)
(*               more.                                                     *)
(*   StreamTime  The sum of the delta times.                               *)
(***************************************************************************)
Ownership ==
  /\ \A i \in DOMAIN playing : prepared[playing[i]]
  /\ IsInjective(playing)
  /\ hdr # 0 => ~prepared[hdr]
  /\ \A b \in Buffer : b > num_buffers => ~prepared[b]

\* The buffers that the scan has looked at are the last ones before next_buffer, cyclically.
Behind(b) == IF b <= next_buffer THEN next_buffer - b ELSE next_buffer + num_buffers - b
Looked(b) == Behind(b) < scanned
NothingBack == ~buffer_signal /\ done = <<>>

Wakeup ==
  /\ (pc \in {"scan", "wait"} /\ NothingBack) => \A b \in 1..num_buffers : Looked(b) => prepared[b]
  /\ pc = "wait" => scanned = num_buffers

Filling ==
  /\ pc \in {"scan", "wait", "fill"} => call.kind \in {"short", "byte"}
  /\ pc \in {"scan", "wait"} => hdr = 0
  /\ call.kind = "short" => latency # 0
  /\ (hdr # 0 /\ holds = "short" /\ pc # "flush") => size + EventSize <= Length(hdr)

StreamTime ==
  /\ hdr = 0 => pending = 0
  /\ StreamTimeIsRight

IInv == TypeOK /\ Ownership /\ Wakeup /\ Filling /\ StreamTime

-----------------------------------------------------------------------------
\* One step for each part of TypeOK, with one case per action: the flags,
LEMMA FlagStep == ASSUME TypeOK, Next PROVE FlagTypes'
<1>1. CASE Open
  BY <1>1 DEF Open, StreamOnly, life, pool, written, device, TypeOK, FlagTypes
<1>2. CASE Close
  BY <1>2 DEF Close, StreamOnly, life, pool, written, device, TypeOK, FlagTypes
<1>3. CASE Abort
  BY <1>3 DEF Abort, life, pool, written, device, TypeOK, FlagTypes
<1>4. CASE WriteShort
  BY <1>4 DEF WriteShort, Begin, GetBuffer, life, pool, written, device, TypeOK, FlagTypes
<1>5. CASE BeginSysex
  BY <1>5 DEF BeginSysex, Begin, life, pool, written, device, TypeOK, FlagTypes
<1>6. CASE WriteByte
  BY <1>6 DEF WriteByte, Begin, GetBuffer, life, pool, written, device, TypeOK, FlagTypes
<1>7. CASE EndOrFlush
  BY <1>7 DEF EndOrFlush, Begin, life, pool, written, device, TypeOK, FlagTypes
<1>8. CASE Scan
  BY <1>8 DEF Scan, Following, IsFree, life, pool, written, device, TypeOK, FlagTypes
<1>9. CASE Block
  BY <1>9 DEF Block, StillSet, life, pool, written, device, TypeOK, FlagTypes
<1>10. CASE Wake
  BY <1>10 DEF Wake, life, pool, written, device, TypeOK, FlagTypes
<1>11. CASE TimeOut
  BY <1>11 DEF TimeOut, Spare, life, pool, written, device, TypeOK, FlagTypes
<1>12. CASE Fill
  BY <1>12 DEF Fill, TakesTime, life, pool, written, device, TypeOK, FlagTypes
<1>13. CASE Send
  BY <1>13 DEF Send, Flushed, life, pool, written, device, TypeOK, FlagTypes
<1>14. CASE FlushFails
  BY <1>14 DEF FlushFails, Flushed, life, pool, written, device, TypeOK, FlagTypes
<1>15. CASE Unprepare
  BY <1>15 DEF Unprepare, Others, life, pool, written, device, TypeOK, FlagTypes
<1>16. CASE SetEvent
  BY <1>16 DEF SetEvent, Others, life, pool, written, device, TypeOK, FlagTypes
<1>17. CASE Removed
  BY <1>17 DEF Removed, life, pool, written, device, TypeOK, FlagTypes
<1>18. CASE Unterminated
  BY <1>18 DEF Unterminated, life, pool, written, device, TypeOK, FlagTypes
<1> QED
  BY <1>1, <1>2, <1>3, <1>4, <1>5, <1>6, <1>7, <1>8, <1>9, <1>10, <1>11, <1>12, <1>13, <1>14,
     <1>15, <1>16, <1>17, <1>18 DEF Next, InCall, Callback

\* the positions in the pool and the counters,
LEMMA NumberStep == ASSUME TypeOK, Next PROVE NumberTypes'
<1>1. CASE Open
  BY <1>1, PmWinOutAssumption DEF Open, StreamOnly, life, pool, written, device, TypeOK,
     NumberTypes, MaxBuffers
<1>2. CASE Close
  BY <1>2, PmWinOutAssumption DEF Close, StreamOnly, life, pool, written, device, TypeOK,
     NumberTypes, MaxBuffers
<1>3. CASE Abort
  BY <1>3, PmWinOutAssumption DEF Abort, life, pool, written, device, TypeOK, NumberTypes,
     MaxBuffers
<1>4. CASE WriteShort
  BY <1>4, PmWinOutAssumption DEF WriteShort, Begin, GetBuffer, life, pool, written, device,
     TypeOK, NumberTypes, MaxBuffers
<1>5. CASE BeginSysex
  BY <1>5, PmWinOutAssumption DEF BeginSysex, Begin, life, pool, written, device, TypeOK,
     NumberTypes, MaxBuffers
<1>6. CASE WriteByte
  BY <1>6, PmWinOutAssumption DEF WriteByte, Begin, GetBuffer, life, pool, written, device,
     TypeOK, NumberTypes, MaxBuffers
<1>7. CASE EndOrFlush
  BY <1>7, PmWinOutAssumption DEF EndOrFlush, Begin, life, pool, written, device, TypeOK,
     NumberTypes, MaxBuffers
<1>8. CASE Scan
  BY <1>8, PmWinOutAssumption DEF Scan, Following, IsFree, life, pool, written, device, TypeOK,
     NumberTypes, MaxBuffers
<1>9. CASE Block
  BY <1>9, PmWinOutAssumption DEF Block, StillSet, life, pool, written, device, TypeOK,
     NumberTypes, MaxBuffers
<1>10. CASE Wake
  BY <1>10, PmWinOutAssumption DEF Wake, life, pool, written, device, TypeOK, NumberTypes,
     MaxBuffers
<1>11. CASE TimeOut
  BY <1>11, PmWinOutAssumption DEF TimeOut, Spare, life, pool, written, device, TypeOK,
     NumberTypes, MaxBuffers
<1>12. CASE Fill
  BY <1>12, PmWinOutAssumption DEF Fill, TakesTime, life, pool, written, device,
     TypeOK, NumberTypes, MaxBuffers
<1>13. CASE Send
  BY <1>13, PmWinOutAssumption DEF Send, Flushed, life, pool, written, device, TypeOK,
     NumberTypes, MaxBuffers
<1>14. CASE FlushFails
  BY <1>14, PmWinOutAssumption DEF FlushFails, Flushed, life, pool, written, device, TypeOK,
     NumberTypes, MaxBuffers
<1>15. CASE Unprepare
  BY <1>15, PmWinOutAssumption DEF Unprepare, Others, life, pool, written, device, TypeOK,
     NumberTypes, MaxBuffers
<1>16. CASE SetEvent
  BY <1>16, PmWinOutAssumption DEF SetEvent, Others, life, pool, written, device, TypeOK,
     NumberTypes, MaxBuffers
<1>17. CASE Removed
  BY <1>17, PmWinOutAssumption DEF Removed, life, pool, written, device, TypeOK, NumberTypes,
     MaxBuffers
<1>18. CASE Unterminated
  BY <1>18, PmWinOutAssumption DEF Unterminated, life, pool, written, device, TypeOK,
     NumberTypes, MaxBuffers
<1> QED
  BY <1>1, <1>2, <1>3, <1>4, <1>5, <1>6, <1>7, <1>8, <1>9, <1>10, <1>11, <1>12, <1>13, <1>14,
     <1>15, <1>16, <1>17, <1>18 DEF Next, InCall, Callback

LEMMA LengthFacts ==
  ASSUME NEW b \in Nat
  PROVE  Length(b) \in Nat /\ Length(b) >= EventSize + 2
BY PmWinOutAssumption DEF Length

\* Fill by the kind of the call and by what the buffer holds already.
LEMMA FillSizes ==
  ASSUME TypeOK, Filling, Fill
  PROVE  SizeTypes' /\ Filling'
<1> USE PmWinOutAssumption DEF TypeOK, NumberTypes, SizeTypes, Filling
<1>1. /\ hdr # 0 /\ hdr \in Nat /\ hdr' = hdr /\ latency' = latency
      /\ pc' \in {"flush", "idle"} /\ call' \in {call, Idle}
      /\ pc' = IF Full(size') THEN "flush" ELSE "idle"
      /\ call.kind \in {"short", "byte"} /\ size' = size + Added
      /\ holds' = IF size = 0 \/ holds = call.kind THEN call.kind ELSE "mixed"
  BY DEF Fill, pool, MaxBuffers
<1>2. /\ Length(hdr) \in Nat /\ Length(hdr) >= EventSize + 2 /\ Length(hdr') = Length(hdr)
      /\ EventSize \in Nat /\ EventSize >= 2
  BY <1>1, LengthFacts
<1>3. size <= Length(hdr) - 2 /\ size \in Nat
  BY <1>1, <1>2 DEF Fill
<1>4. CASE call.kind = "short"
  <2>1. Added = EventSize /\ (Full(size') <=> size' + EventSize > Length(hdr))
    BY <1>1, <1>4 DEF Added, TakesTime, Full
  <2>2. holds' = "mixed" \/ (holds' = "short" /\ (size = 0 \/ holds = "short"))
    BY <1>1, <1>4
  <2>3. holds' = "short" => size' <= Length(hdr)
    BY <1>1, <1>2, <1>3, <2>1, <2>2 DEF Fill
  <2>4. size' \in Nat /\ size' # 0 /\ size' <= Length(hdr) - 2 + EventSize
    BY <1>1, <1>2, <1>3, <2>1
  <2>5. pc' # "flush" => size' + EventSize <= Length(hdr)
    BY <1>1, <1>2, <2>1, <2>4
  <2> QED  BY <1>1, <1>2, <2>2, <2>3, <2>4, <2>5 DEF Idle
<1>5. CASE call.kind = "byte"
  <2>1. (Full(size') <=> size' >= Length(hdr) - 1) /\ Added \in {1, EventSize + 1}
        /\ (size # 0 => Added = 1)
    BY <1>1, <1>5, <1>2 DEF Added, TakesTime, Full
  <2>2. size' \in Nat /\ size' # 0 /\ size' <= Length(hdr) - 1
    BY <1>1, <1>2, <1>3, <2>1
  <2>3. pc' # "flush" => size' <= Length(hdr) - 2
    BY <1>1, <1>2, <2>1, <2>2
  <2>4. holds' \in {"byte", "mixed"}
    BY <1>1, <1>5
  <2> QED  BY <1>1, <1>2, <1>5, <2>2, <2>3, <2>4 DEF Idle
<1> QED  BY <1>1, <1>4, <1>5

\* the fill of the buffer,
LEMMA SizeStep == ASSUME TypeOK, Filling, Next PROVE SizeTypes'
<1>1. CASE Open
  BY <1>1, PmWinOutAssumption DEF Open, StreamOnly, life, pool, written, device, TypeOK, Filling,
                                  NumberTypes, SizeTypes, Length
<1>2. CASE Close
  BY <1>2, PmWinOutAssumption DEF Close, StreamOnly, life, pool, written, device, TypeOK, Filling,
                                  NumberTypes, SizeTypes, Length
<1>3. CASE Abort
  BY <1>3, PmWinOutAssumption DEF Abort, life, pool, written, device, TypeOK, Filling, NumberTypes,
                                  SizeTypes, Length
<1>4. CASE WriteShort
  BY <1>4, PmWinOutAssumption DEF WriteShort, Begin, GetBuffer, life, pool, written, device,
     TypeOK, Filling, NumberTypes, SizeTypes, Length
<1>5. CASE BeginSysex
  BY <1>5, PmWinOutAssumption DEF BeginSysex, Begin, life, pool, written, device, TypeOK, Filling,
                                  NumberTypes, SizeTypes, Length
<1>6. CASE WriteByte
  BY <1>6, PmWinOutAssumption DEF WriteByte, Begin, GetBuffer, life, pool, written, device,
     TypeOK, Filling, NumberTypes, SizeTypes, Length
<1>7. CASE EndOrFlush
  BY <1>7, PmWinOutAssumption DEF EndOrFlush, Begin, life, pool, written, device, TypeOK, Filling,
                                  NumberTypes, SizeTypes, Length
<1>8. CASE Scan
  BY <1>8, PmWinOutAssumption DEF Scan, Following, IsFree, life, pool, written, device, TypeOK,
     Filling, NumberTypes, SizeTypes, Length
<1>9. CASE Block
  BY <1>9, PmWinOutAssumption DEF Block, StillSet, life, pool, written, device, TypeOK, Filling,
                                  NumberTypes, SizeTypes, Length
<1>10. CASE Wake
  BY <1>10, PmWinOutAssumption DEF Wake, life, pool, written, device, TypeOK, Filling, NumberTypes,
                                   SizeTypes, Length
<1>11. CASE TimeOut
  BY <1>11, PmWinOutAssumption DEF TimeOut, Spare, life, pool, written, device, TypeOK, Filling,
                                   NumberTypes, SizeTypes, Length
<1>12. CASE Fill
  BY <1>12, FillSizes
<1>13. CASE Send
  BY <1>13, PmWinOutAssumption DEF Send, Flushed, life, pool, written, device, TypeOK, Filling,
                                   NumberTypes, SizeTypes, Length
<1>14. CASE FlushFails
  BY <1>14, PmWinOutAssumption DEF FlushFails, Flushed, life, pool, written, device, TypeOK,
     Filling, NumberTypes, SizeTypes, Length
<1>15. CASE Unprepare
  BY <1>15, PmWinOutAssumption DEF Unprepare, Others, life, pool, written, device, TypeOK, Filling,
                                   NumberTypes, SizeTypes, Length
<1>16. CASE SetEvent
  BY <1>16, PmWinOutAssumption DEF SetEvent, Others, life, pool, written, device, TypeOK, Filling,
                                   NumberTypes, SizeTypes, Length
<1>17. CASE Removed
  BY <1>17, PmWinOutAssumption DEF Removed, life, pool, written, device, TypeOK, Filling,
                                   NumberTypes, SizeTypes, Length
<1>18. CASE Unterminated
  BY <1>18, PmWinOutAssumption DEF Unterminated, life, pool, written, device, TypeOK, Filling,
                                   NumberTypes, SizeTypes, Length
<1> QED
  BY <1>1, <1>2, <1>3, <1>4, <1>5, <1>6, <1>7, <1>8, <1>9, <1>10, <1>11, <1>12, <1>13, <1>14,
     <1>15, <1>16, <1>17, <1>18 DEF Next, InCall, Callback

\* and its relation to the call,
LEMMA FillingStep == ASSUME TypeOK, Filling, Next PROVE Filling'
<1>1. CASE Open
  BY <1>1, PmWinOutAssumption DEF Open, StreamOnly, life, pool, written, device, TypeOK, Filling,
                                  NumberTypes, SizeTypes, Length, Idle
<1>2. CASE Close
  BY <1>2, PmWinOutAssumption DEF Close, StreamOnly, life, pool, written, device, TypeOK, Filling,
                                  NumberTypes, SizeTypes, Length, Idle
<1>3. CASE Abort
  BY <1>3, PmWinOutAssumption DEF Abort, life, pool, written, device, TypeOK, Filling, NumberTypes,
                                  SizeTypes, Length, Idle
<1>4. CASE WriteShort
  BY <1>4, PmWinOutAssumption DEF WriteShort, Begin, GetBuffer, life, pool, written, device,
     TypeOK, Filling, NumberTypes, SizeTypes, Length, Idle
<1>5. CASE BeginSysex
  BY <1>5, PmWinOutAssumption DEF BeginSysex, Begin, life, pool, written, device, TypeOK, Filling,
                                  NumberTypes, SizeTypes, Length, Idle
<1>6. CASE WriteByte
  BY <1>6, PmWinOutAssumption DEF WriteByte, Begin, GetBuffer, life, pool, written, device,
     TypeOK, Filling, NumberTypes, SizeTypes, Length, Idle
<1>7. CASE EndOrFlush
  BY <1>7, PmWinOutAssumption DEF EndOrFlush, Begin, life, pool, written, device, TypeOK, Filling,
                                  NumberTypes, SizeTypes, Length, Idle
<1>8. CASE Scan
  BY <1>8, PmWinOutAssumption DEF Scan, Following, IsFree, life, pool, written, device, TypeOK,
     Filling, NumberTypes, SizeTypes, Length, Idle
<1>9. CASE Block
  BY <1>9, PmWinOutAssumption DEF Block, StillSet, life, pool, written, device, TypeOK, Filling,
                                  NumberTypes, SizeTypes, Length, Idle
<1>10. CASE Wake
  BY <1>10, PmWinOutAssumption DEF Wake, life, pool, written, device, TypeOK, Filling, NumberTypes,
                                   SizeTypes, Length, Idle
<1>11. CASE TimeOut
  BY <1>11, PmWinOutAssumption DEF TimeOut, Spare, life, pool, written, device, TypeOK, Filling,
                                   NumberTypes, SizeTypes, Length, Idle
<1>12. CASE Fill
  BY <1>12, FillSizes
<1>13. CASE Send
  BY <1>13, PmWinOutAssumption DEF Send, Flushed, life, pool, written, device, TypeOK, Filling,
                                   NumberTypes, SizeTypes, Length, Idle
<1>14. CASE FlushFails
  BY <1>14, PmWinOutAssumption DEF FlushFails, Flushed, life, pool, written, device, TypeOK,
     Filling, NumberTypes, SizeTypes, Length, Idle
<1>15. CASE Unprepare
  BY <1>15, PmWinOutAssumption DEF Unprepare, Others, life, pool, written, device, TypeOK, Filling,
                                   NumberTypes, SizeTypes, Length, Idle
<1>16. CASE SetEvent
  BY <1>16, PmWinOutAssumption DEF SetEvent, Others, life, pool, written, device, TypeOK, Filling,
                                   NumberTypes, SizeTypes, Length, Idle
<1>17. CASE Removed
  BY <1>17, PmWinOutAssumption DEF Removed, life, pool, written, device, TypeOK, Filling,
                                   NumberTypes, SizeTypes, Length, Idle
<1>18. CASE Unterminated
  BY <1>18, PmWinOutAssumption DEF Unterminated, life, pool, written, device, TypeOK, Filling,
                                   NumberTypes, SizeTypes, Length, Idle
<1> QED
  BY <1>1, <1>2, <1>3, <1>4, <1>5, <1>6, <1>7, <1>8, <1>9, <1>10, <1>11, <1>12, <1>13, <1>14,
     <1>15, <1>16, <1>17, <1>18 DEF Next, InCall, Callback

\* The time of a message that goes into a buffer, and the delta time, which does not wrap.
LEMMA MaxOfTwo ==
  ASSUME NEW a \in Int, NEW b \in Int
  PROVE  /\ Max({a, b}) \in {a, b}
         /\ Max({a, b}) >= a /\ Max({a, b}) >= b
<1>1. PICK m \in {a, b} : \A y \in {a, b} : m >= y
  OBVIOUS
<1> QED
  BY <1>1 DEF Max

LEMMA WhenFacts ==
  ASSUME TimeTypes
  PROVE  /\ When \in 0..(Wrap - 1)
         /\ When - last_time \in Nat
         /\ (When - last_time) % Wrap = When - last_time
         /\ Max({call.when, due}) \in Nat
         /\ (call.when \in 0..(Wrap - 1) /\ last_time = due) => When = Max({call.when, due})
<1>1. call.when \in Int /\ last_time \in 0..(Wrap - 1) /\ due \in Nat /\ Wrap \in Nat \ {0}
  <2>1. call.when \in Times \union {0}
    BY DEF TimeTypes
  <2>2. Times \subseteq Int /\ Wrap \in Nat \ {0}
    BY PmWinOutAssumption
  <2>3. \A t \in Times : t \in Int
    BY <2>2
  <2>4. call.when \in Int
    <3>1. CASE call.when = 0
      BY <3>1
    <3>2. CASE call.when \in Times
      BY <2>3, <3>2
    <3> QED
      BY <2>1, <3>1, <3>2
  <2> QED
    BY <2>2, <2>4 DEF TimeTypes
<1>2. Asked \in 0..(Wrap - 1) /\ (call.when \in 0..(Wrap - 1) => Asked = call.when)
  BY <1>1 DEF Asked
<1>3. When \in {Asked, last_time} /\ When >= last_time
  BY <1>1, <1>2, MaxOfTwo DEF When
<1>4. When \in 0..(Wrap - 1) /\ When - last_time \in Nat
  BY <1>1, <1>2, <1>3
<1>5. (When - last_time) % Wrap = When - last_time
  BY <1>1, <1>4
<1>6. Max({call.when, due}) \in {call.when, due} /\ Max({call.when, due}) >= due
  <2>1. due \in Int /\ call.when \in Int
    BY <1>1
  <2> QED
    BY <2>1, MaxOfTwo
<1>7. (call.when \in 0..(Wrap - 1) /\ last_time = due) => When = Max({call.when, due})
  BY <1>2 DEF When
<1> QED
  BY <1>1, <1>4, <1>5, <1>6, <1>7

\* the times,
LEMMA TimeTypeStep == ASSUME TypeOK, Next PROVE TimeTypes'
<1>1. CASE Open
  BY <1>1, PmWinOutAssumption DEF Open, StreamOnly, life, pool, written, device, TypeOK,
     TimeTypes, Idle
<1>2. CASE Close
  BY <1>2, PmWinOutAssumption DEF Close, StreamOnly, life, pool, written, device, TypeOK,
     TimeTypes, Idle
<1>3. CASE Abort
  BY <1>3, PmWinOutAssumption DEF Abort, life, pool, written, device, TypeOK, TimeTypes, Idle
<1>4. CASE WriteShort
  BY <1>4, PmWinOutAssumption DEF WriteShort, Begin, GetBuffer, life, pool, written, device,
     TypeOK, TimeTypes, Idle
<1>5. CASE BeginSysex
  BY <1>5, PmWinOutAssumption DEF BeginSysex, Begin, life, pool, written, device, TypeOK,
     TimeTypes, Idle
<1>6. CASE WriteByte
  BY <1>6, PmWinOutAssumption DEF WriteByte, Begin, GetBuffer, life, pool, written, device,
     TypeOK, TimeTypes, Idle
<1>7. CASE EndOrFlush
  BY <1>7, PmWinOutAssumption DEF EndOrFlush, Begin, life, pool, written, device, TypeOK,
     TimeTypes, Idle
<1>8. CASE Scan
  BY <1>8, PmWinOutAssumption DEF Scan, Following, IsFree, life, pool, written, device, TypeOK,
     TimeTypes, Idle
<1>9. CASE Block
  BY <1>9, PmWinOutAssumption DEF Block, StillSet, life, pool, written, device, TypeOK,
     TimeTypes, Idle
<1>10. CASE Wake
  BY <1>10, PmWinOutAssumption DEF Wake, life, pool, written, device, TypeOK, TimeTypes, Idle
<1>11. CASE TimeOut
  BY <1>11, PmWinOutAssumption DEF TimeOut, Spare, life, pool, written, device, TypeOK,
     TimeTypes, Idle
<1>12. CASE Fill
  <2>1. last_time' \in 0..(Wrap - 1) /\ pending' \in Nat /\ due' \in Nat
    BY <1>12, WhenFacts DEF Fill, TypeOK, TimeTypes
  <2>2. /\ call' \in [kind : {"none", "short", "byte"}, when : Times \union {0}]
        /\ streamed' \in Nat
    BY <1>12, PmWinOutAssumption DEF Fill, TypeOK, TimeTypes, Idle
  <2> QED
    BY <2>1, <2>2 DEF TimeTypes
<1>13. CASE Send
  BY <1>13, PmWinOutAssumption DEF Send, Flushed, life, pool, written, device, TypeOK,
     TimeTypes, Idle
<1>14. CASE FlushFails
  BY <1>14, PmWinOutAssumption DEF FlushFails, Flushed, life, pool, written, device, TypeOK,
     TimeTypes, Idle
<1>15. CASE Unprepare
  BY <1>15, PmWinOutAssumption DEF Unprepare, Others, life, pool, written, device, TypeOK,
     TimeTypes, Idle
<1>16. CASE SetEvent
  BY <1>16, PmWinOutAssumption DEF SetEvent, Others, life, pool, written, device, TypeOK,
     TimeTypes, Idle
<1>17. CASE Removed
  BY <1>17, PmWinOutAssumption DEF Removed, life, pool, written, device, TypeOK, TimeTypes, Idle
<1>18. CASE Unterminated
  BY <1>18, PmWinOutAssumption DEF Unterminated, life, pool, written, device, TypeOK,
     TimeTypes, Idle
<1> QED
  BY <1>1, <1>2, <1>3, <1>4, <1>5, <1>6, <1>7, <1>8, <1>9, <1>10, <1>11, <1>12, <1>13, <1>14,
     <1>15, <1>16, <1>17, <1>18 DEF Next, InCall, Callback

\* and what the device has.
LEMMA DeviceStep == ASSUME TypeOK, Next PROVE DeviceTypes'
<1>1. CASE Open
  BY <1>1, PmWinOutAssumption DEF Open, StreamOnly, life, pool, written, device, TypeOK,
     NumberTypes, DeviceTypes, Buffer, MaxBuffers
<1>2. CASE Close
  BY <1>2, PmWinOutAssumption DEF Close, StreamOnly, life, pool, written, device, TypeOK,
     NumberTypes, DeviceTypes, Buffer, MaxBuffers
<1>3. CASE Abort
  BY <1>3, PmWinOutAssumption DEF Abort, life, pool, written, device, TypeOK, NumberTypes,
     DeviceTypes, Buffer, MaxBuffers
<1>4. CASE WriteShort
  BY <1>4, PmWinOutAssumption DEF WriteShort, Begin, GetBuffer, life, pool, written, device,
     TypeOK, NumberTypes, DeviceTypes, Buffer, MaxBuffers
<1>5. CASE BeginSysex
  BY <1>5, PmWinOutAssumption DEF BeginSysex, Begin, life, pool, written, device, TypeOK,
     NumberTypes, DeviceTypes, Buffer, MaxBuffers
<1>6. CASE WriteByte
  BY <1>6, PmWinOutAssumption DEF WriteByte, Begin, GetBuffer, life, pool, written, device,
     TypeOK, NumberTypes, DeviceTypes, Buffer, MaxBuffers
<1>7. CASE EndOrFlush
  BY <1>7, PmWinOutAssumption DEF EndOrFlush, Begin, life, pool, written, device, TypeOK,
     NumberTypes, DeviceTypes, Buffer, MaxBuffers
<1>8. CASE Scan
  BY <1>8, PmWinOutAssumption DEF Scan, Following, IsFree, life, pool, written, device, TypeOK,
     NumberTypes, DeviceTypes, Buffer, MaxBuffers
<1>9. CASE Block
  BY <1>9, PmWinOutAssumption DEF Block, StillSet, life, pool, written, device, TypeOK,
     NumberTypes, DeviceTypes, Buffer, MaxBuffers
<1>10. CASE Wake
  BY <1>10, PmWinOutAssumption DEF Wake, life, pool, written, device, TypeOK, NumberTypes,
     DeviceTypes, Buffer, MaxBuffers
<1>11. CASE TimeOut
  BY <1>11, PmWinOutAssumption DEF TimeOut, Spare, life, pool, written, device, TypeOK,
     NumberTypes, DeviceTypes, Buffer, MaxBuffers
<1>12. CASE Fill
  BY <1>12, PmWinOutAssumption DEF Fill, TakesTime, life, pool, written, device,
     TypeOK, NumberTypes, DeviceTypes, Buffer, MaxBuffers
<1>13. CASE Send
  <2>1. hdr # 0 => hdr \in Buffer
    BY PmWinOutAssumption DEF TypeOK, NumberTypes, Buffer, MaxBuffers
  <2>2. CASE hdr = 0
    BY <1>13, <2>2 DEF Send, Flushed, TypeOK, DeviceTypes
  <2>3. CASE hdr # 0
    <3>1. /\ prepared' = [prepared EXCEPT ![hdr] = TRUE]
          /\ playing' = Append(playing, hdr) /\ done' = done
      BY <1>13, <2>3 DEF Send, Flushed
    <3> QED
      BY <2>1, <2>3, <3>1 DEF TypeOK, DeviceTypes
  <2> QED
    BY <2>2, <2>3
<1>14. CASE FlushFails
  BY <1>14, PmWinOutAssumption DEF FlushFails, Flushed, life, pool, written, device, TypeOK,
     NumberTypes, DeviceTypes, Buffer, MaxBuffers
<1>15. CASE Unprepare
  <2>1. Head(playing) \in Buffer /\ Tail(playing) \in Seq(Buffer)
    BY <1>15, HeadTailProperties DEF Unprepare, TypeOK, DeviceTypes
  <2> QED
    BY <1>15, <2>1 DEF Unprepare, TypeOK, DeviceTypes
<1>16. CASE SetEvent
  BY <1>16, PmWinOutAssumption DEF SetEvent, Others, life, pool, written, device, TypeOK,
     NumberTypes, DeviceTypes, Buffer, MaxBuffers
<1>17. CASE Removed
  BY <1>17, PmWinOutAssumption DEF Removed, life, pool, written, device, TypeOK, NumberTypes,
     DeviceTypes, Buffer, MaxBuffers
<1>18. CASE Unterminated
  BY <1>18, PmWinOutAssumption DEF Unterminated, life, pool, written, device, TypeOK,
     NumberTypes, DeviceTypes, Buffer, MaxBuffers
<1> QED
  BY <1>1, <1>2, <1>3, <1>4, <1>5, <1>6, <1>7, <1>8, <1>9, <1>10, <1>11, <1>12, <1>13, <1>14,
     <1>15, <1>16, <1>17, <1>18 DEF Next, InCall, Callback

\* Only Send gives a buffer away and only Unprepare takes one back, the first in the list.
LEMMA OwnershipStep == ASSUME IInv, Next PROVE Ownership'
<1> USE DEF IInv, TypeOK
<1>0. hdr # 0 => hdr \in Buffer
  BY PmWinOutAssumption DEF NumberTypes, Buffer, MaxBuffers
<1>1. CASE Open
  BY <1>1, PmWinOutAssumption DEF Open, StreamOnly, life, pool, written, device, IInv, TypeOK,
     NumberTypes, DeviceTypes, Ownership, Buffer, IsInjective
<1>2. CASE Close
  BY <1>2, PmWinOutAssumption DEF Close, StreamOnly, life, pool, written, device, IInv, TypeOK,
     NumberTypes, DeviceTypes, Ownership, Buffer, IsInjective
<1>3. CASE Abort
  BY <1>3, PmWinOutAssumption DEF Abort, life, pool, written, device, IInv, TypeOK,
     NumberTypes, DeviceTypes, Ownership, Buffer, IsInjective
<1>4. CASE WriteShort
  BY <1>4, PmWinOutAssumption DEF WriteShort, Begin, GetBuffer, life, pool, written, device,
     IInv, TypeOK, NumberTypes, DeviceTypes, Ownership, Buffer, IsInjective
<1>5. CASE BeginSysex
  BY <1>5, PmWinOutAssumption DEF BeginSysex, Begin, life, pool, written, device, IInv, TypeOK,
     NumberTypes, DeviceTypes, Ownership, Buffer, IsInjective
<1>6. CASE WriteByte
  BY <1>6, PmWinOutAssumption DEF WriteByte, Begin, GetBuffer, life, pool, written, device,
     IInv, TypeOK, NumberTypes, DeviceTypes, Ownership, Buffer, IsInjective
<1>7. CASE EndOrFlush
  BY <1>7, PmWinOutAssumption DEF EndOrFlush, Begin, life, pool, written, device, IInv, TypeOK,
     NumberTypes, DeviceTypes, Ownership, Buffer, IsInjective
<1>8. CASE Scan
  BY <1>8, PmWinOutAssumption DEF Scan, Following, IsFree, life, pool, written, device, IInv,
     TypeOK, NumberTypes, DeviceTypes, Ownership, Buffer, IsInjective
<1>9. CASE Block
  BY <1>9, PmWinOutAssumption DEF Block, StillSet, life, pool, written, device, IInv, TypeOK,
     NumberTypes, DeviceTypes, Ownership, Buffer, IsInjective
<1>10. CASE Wake
  BY <1>10, PmWinOutAssumption DEF Wake, life, pool, written, device, IInv, TypeOK,
     NumberTypes, DeviceTypes, Ownership, Buffer, IsInjective
<1>11. CASE TimeOut
  <2>1. UNCHANGED <<playing, prepared>>
    BY <1>11 DEF TimeOut, device
  <2>2. \/ hdr' = hdr /\ num_buffers' = num_buffers
        \/ hdr' = num_buffers + 1 /\ num_buffers' = num_buffers + 1 /\ num_buffers + 1 \in Buffer
    BY <1>11, PmWinOutAssumption DEF TimeOut, Spare, NumberTypes, MaxBuffers, Buffer
  <2> QED
    BY <2>1, <2>2, PmWinOutAssumption DEF NumberTypes, Ownership, Buffer, IsInjective, MaxBuffers
<1>12. CASE Fill
  BY <1>12, PmWinOutAssumption DEF Fill, TakesTime, life, pool, written, device, IInv,
     TypeOK, NumberTypes, DeviceTypes, Ownership, Buffer, IsInjective
<1>13. CASE Send
  <2>1. CASE hdr = 0
    BY <1>13, <2>1 DEF Send, Flushed, pool, Ownership
  <2>2. CASE hdr # 0
    <3>1. prepared' = [prepared EXCEPT ![hdr] = TRUE] /\ playing' = Append(playing, hdr) /\ hdr' = 0
      BY <1>13, <2>2 DEF Send, Flushed
    <3>2. \A i \in DOMAIN playing : playing[i] \in Buffer /\ playing[i] # hdr
      BY <2>2 DEF Ownership, DeviceTypes
    <3>3. (\A i \in DOMAIN playing : prepared[playing[i]])' /\ IsInjective(playing)'
      BY <1>0, <2>2, <3>1, <3>2 DEF Ownership, DeviceTypes, IsInjective
    <3>4. num_buffers' = num_buffers /\ hdr <= num_buffers
      BY <1>13 DEF Send, Flushed, pool, NumberTypes
    <3>5. (\A b \in Buffer : b > num_buffers => ~prepared[b])'
      BY <1>0, <2>2, <3>1, <3>4 DEF Ownership, DeviceTypes, NumberTypes, Buffer
    <3> QED
      BY <3>1, <3>3, <3>5 DEF Ownership
  <2> QED
    BY <2>1, <2>2
<1>14. CASE FlushFails
  <2>1. /\ prepared' = prepared \/ prepared' = [prepared EXCEPT ![hdr] = TRUE]
        /\ playing' = playing /\ hdr' = 0 /\ num_buffers' = num_buffers
        /\ hdr # 0 /\ hdr <= num_buffers
    BY <1>14 DEF FlushFails, Flushed, pool, NumberTypes
  <2>2. CASE prepared' = prepared
    BY <2>1, <2>2 DEF Ownership, IsInjective
  <2>3. CASE prepared' = [prepared EXCEPT ![hdr] = TRUE]
    <3>1. \A i \in DOMAIN playing : playing[i] \in Buffer
      BY DEF DeviceTypes
    <3>2. (\A i \in DOMAIN playing : prepared[playing[i]])' /\ IsInjective(playing)'
      BY <2>1, <2>3, <3>1 DEF Ownership, DeviceTypes, IsInjective
    <3>3. (\A b \in Buffer : b > num_buffers => ~prepared[b])'
      BY <1>0, <2>1, <2>3 DEF Ownership, DeviceTypes, NumberTypes, Buffer
    <3> QED
      BY <2>1, <3>2, <3>3 DEF Ownership
  <2> QED
    BY <2>1, <2>2, <2>3
<1>15. CASE Unprepare
  <2>1. /\ playing # <<>> /\ playing' = Tail(playing)
        /\ prepared' = [prepared EXCEPT ![Head(playing)] = FALSE]
        /\ UNCHANGED <<hdr, num_buffers>>
    BY <1>15 DEF Unprepare, Others, pool
  <2>2. playing \in Seq(Buffer) /\ prepared \in [Buffer -> BOOLEAN]
    BY DEF DeviceTypes
  <2>3. \A i \in DOMAIN playing' : /\ i + 1 \in DOMAIN playing /\ i \in Nat \ {0}
                                   /\ playing'[i] = playing[i + 1]
    BY <2>1, <2>2
  <2>4. 1 \in DOMAIN playing /\ Head(playing) = playing[1]
    BY <2>1, <2>2
  <2>5. IsInjective(playing)'
    BY <2>3 DEF Ownership, IsInjective
  <2>6. \A i \in DOMAIN playing' : playing'[i] \in Buffer /\ playing'[i] # Head(playing)
    BY <2>2, <2>3, <2>4 DEF Ownership, IsInjective
  <2>7. (\A i \in DOMAIN playing : prepared[playing[i]])'
    BY <2>1, <2>2, <2>3, <2>6 DEF Ownership
  <2>8. (hdr # 0 => ~prepared[hdr])' /\ (\A b \in Buffer : b > num_buffers => ~prepared[b])'
    BY <1>0, <2>1, <2>2 DEF Ownership
  <2> QED
    BY <2>5, <2>7, <2>8 DEF Ownership
<1>16. CASE SetEvent
  BY <1>16, PmWinOutAssumption DEF SetEvent, Others, life, pool, written, device, IInv, TypeOK,
     NumberTypes, DeviceTypes, Ownership, Buffer, IsInjective
<1>17. CASE Removed
  BY <1>17, PmWinOutAssumption DEF Removed, life, pool, written, device, IInv, TypeOK,
     NumberTypes, DeviceTypes, Ownership, Buffer, IsInjective
<1>18. CASE Unterminated
  BY <1>18, PmWinOutAssumption DEF Unterminated, life, pool, written, device, IInv, TypeOK,
     NumberTypes, DeviceTypes, Ownership, Buffer, IsInjective
<1> QED
  BY <1>1, <1>2, <1>3, <1>4, <1>5, <1>6, <1>7, <1>8, <1>9, <1>10, <1>11, <1>12, <1>13, <1>14,
     <1>15, <1>16, <1>17, <1>18 DEF Next, InCall, Callback

\* A buffer comes back through done and the event, and only Wake, which starts the scan again,
\* resets the event.
LEMMA WakeupStep == ASSUME IInv, Next PROVE Wakeup'
<1>1. CASE Open
  BY <1>1, PmWinOutAssumption DEF Open, StreamOnly, life, pool, written, device, IInv, TypeOK,
     NumberTypes, DeviceTypes, Ownership, Wakeup, NothingBack, Looked, Behind, Buffer
<1>2. CASE Close
  BY <1>2, PmWinOutAssumption DEF Close, StreamOnly, life, pool, written, device, IInv, TypeOK,
     NumberTypes, DeviceTypes, Ownership, Wakeup, NothingBack, Looked, Behind, Buffer
<1>3. CASE Abort
  BY <1>3, PmWinOutAssumption DEF Abort, life, pool, written, device, IInv, TypeOK,
     NumberTypes, DeviceTypes, Ownership, Wakeup, NothingBack, Looked, Behind, Buffer
<1>4. CASE WriteShort
  BY <1>4, PmWinOutAssumption DEF WriteShort, Begin, GetBuffer, life, pool, written, device,
     IInv, TypeOK, NumberTypes, DeviceTypes, Ownership, Wakeup, NothingBack, Looked, Behind,
     Buffer
<1>5. CASE BeginSysex
  BY <1>5, PmWinOutAssumption DEF BeginSysex, Begin, life, pool, written, device, IInv, TypeOK,
     NumberTypes, DeviceTypes, Ownership, Wakeup, NothingBack, Looked, Behind, Buffer
<1>6. CASE WriteByte
  BY <1>6, PmWinOutAssumption DEF WriteByte, Begin, GetBuffer, life, pool, written, device,
     IInv, TypeOK, NumberTypes, DeviceTypes, Ownership, Wakeup, NothingBack, Looked, Behind,
     Buffer
<1>7. CASE EndOrFlush
  BY <1>7, PmWinOutAssumption DEF EndOrFlush, Begin, life, pool, written, device, IInv, TypeOK,
     NumberTypes, DeviceTypes, Ownership, Wakeup, NothingBack, Looked, Behind, Buffer
<1>8. CASE Scan
  BY <1>8, PmWinOutAssumption DEF Scan, Following, IsFree, life, pool, written, device, IInv,
     TypeOK, NumberTypes, DeviceTypes, Ownership, Wakeup, NothingBack, Looked, Behind, Buffer
<1>9. CASE Block
  BY <1>9, PmWinOutAssumption DEF Block, StillSet, life, pool, written, device, IInv, TypeOK,
     NumberTypes, DeviceTypes, Ownership, Wakeup, NothingBack, Looked, Behind, Buffer
<1>10. CASE Wake
  BY <1>10, PmWinOutAssumption DEF Wake, life, pool, written, device, IInv, TypeOK,
     NumberTypes, DeviceTypes, Ownership, Wakeup, NothingBack, Looked, Behind, Buffer
<1>11. CASE TimeOut
  BY <1>11, PmWinOutAssumption DEF TimeOut, Spare, life, pool, written, device, IInv, TypeOK,
     NumberTypes, DeviceTypes, Ownership, Wakeup, NothingBack, Looked, Behind, Buffer
<1>12. CASE Fill
  BY <1>12, PmWinOutAssumption DEF Fill, TakesTime, life, pool, written, device, IInv,
     TypeOK, NumberTypes, DeviceTypes, Ownership, Wakeup, NothingBack, Looked, Behind, Buffer
<1>13. CASE Send
  BY <1>13, PmWinOutAssumption DEF Send, Flushed, life, pool, written, device, IInv, TypeOK,
     NumberTypes, DeviceTypes, Ownership, Wakeup, NothingBack, Looked, Behind, Buffer
<1>14. CASE FlushFails
  BY <1>14, PmWinOutAssumption DEF FlushFails, Flushed, life, pool, written, device, IInv,
     TypeOK, NumberTypes, DeviceTypes, Ownership, Wakeup, NothingBack, Looked, Behind, Buffer
<1>15. CASE Unprepare
  BY <1>15, PmWinOutAssumption DEF Unprepare, Others, life, pool, written, device, IInv,
     TypeOK, NumberTypes, DeviceTypes, Ownership, Wakeup, NothingBack, Looked, Behind, Buffer
<1>16. CASE SetEvent
  BY <1>16, PmWinOutAssumption DEF SetEvent, Others, life, pool, written, device, IInv, TypeOK,
     NumberTypes, DeviceTypes, Ownership, Wakeup, NothingBack, Looked, Behind, Buffer
<1>17. CASE Removed
  BY <1>17, PmWinOutAssumption DEF Removed, life, pool, written, device, IInv, TypeOK,
     NumberTypes, DeviceTypes, Ownership, Wakeup, NothingBack, Looked, Behind, Buffer
<1>18. CASE Unterminated
  BY <1>18, PmWinOutAssumption DEF Unterminated, life, pool, written, device, IInv, TypeOK,
     NumberTypes, DeviceTypes, Ownership, Wakeup, NothingBack, Looked, Behind, Buffer
<1> QED
  BY <1>1, <1>2, <1>3, <1>4, <1>5, <1>6, <1>7, <1>8, <1>9, <1>10, <1>11, <1>12, <1>13, <1>14,
     <1>15, <1>16, <1>17, <1>18 DEF Next, InCall, Callback

\* If l is the sum and both move by the same amount, it still is.
LEMMA SumFollows ==
  ASSUME NEW s \in Nat, NEW p \in Nat, NEW q \in Nat, NEW l \in Nat, NEW m \in Nat,
         m = l + (q - p), s + p = l
  PROVE  s + q = m
OBVIOUS

\* Fill adds to both sides, Send moves pending to streamed.
LEMMA StreamTimeStep == ASSUME IInv, Next PROVE StreamTime'
<1> USE DEF IInv, TypeOK
<1>1. CASE Open
  BY <1>1, PmWinOutAssumption DEF Open, StreamOnly, life, pool, written, device, IInv, TypeOK,
     NumberTypes, TimeTypes, StreamTime, StreamTimeIsRight
<1>2. CASE Close
  BY <1>2, PmWinOutAssumption DEF Close, StreamOnly, life, pool, written, device, IInv, TypeOK,
     NumberTypes, TimeTypes, StreamTime, StreamTimeIsRight
<1>3. CASE Abort
  BY <1>3, PmWinOutAssumption DEF Abort, life, pool, written, device, IInv, TypeOK,
     NumberTypes, TimeTypes, StreamTime, StreamTimeIsRight
<1>4. CASE WriteShort
  BY <1>4, PmWinOutAssumption DEF WriteShort, Begin, GetBuffer, life, pool, written, device,
     IInv, TypeOK, NumberTypes, TimeTypes, StreamTime, StreamTimeIsRight
<1>5. CASE BeginSysex
  BY <1>5, PmWinOutAssumption DEF BeginSysex, Begin, life, pool, written, device, IInv, TypeOK,
     NumberTypes, TimeTypes, StreamTime, StreamTimeIsRight
<1>6. CASE WriteByte
  BY <1>6, PmWinOutAssumption DEF WriteByte, Begin, GetBuffer, life, pool, written, device,
     IInv, TypeOK, NumberTypes, TimeTypes, StreamTime, StreamTimeIsRight
<1>7. CASE EndOrFlush
  BY <1>7, PmWinOutAssumption DEF EndOrFlush, Begin, life, pool, written, device, IInv, TypeOK,
     NumberTypes, TimeTypes, StreamTime, StreamTimeIsRight
<1>8. CASE Scan
  BY <1>8, PmWinOutAssumption DEF Scan, Following, IsFree, life, pool, written, device, IInv,
     TypeOK, NumberTypes, TimeTypes, StreamTime, StreamTimeIsRight
<1>9. CASE Block
  BY <1>9, PmWinOutAssumption DEF Block, StillSet, life, pool, written, device, IInv, TypeOK,
     NumberTypes, TimeTypes, StreamTime, StreamTimeIsRight
<1>10. CASE Wake
  BY <1>10, PmWinOutAssumption DEF Wake, life, pool, written, device, IInv, TypeOK,
     NumberTypes, TimeTypes, StreamTime, StreamTimeIsRight
<1>11. CASE TimeOut
  BY <1>11, PmWinOutAssumption DEF TimeOut, Spare, life, pool, written, device, IInv, TypeOK,
     NumberTypes, TimeTypes, StreamTime, StreamTimeIsRight
<1>12. CASE Fill
  <2>1. last_time' = last_time + (pending' - pending)
    BY <1>12, WhenFacts DEF Fill, TimeTypes
  <2>2. hdr' = hdr /\ hdr # 0 /\ latency' = latency /\ (garbled => garbled') /\ streamed' = streamed
    BY <1>12 DEF Fill, device, pool, NumberTypes
  <2>3. last_time' \in Nat /\ pending' \in Nat
    BY <1>12, TimeTypeStep, PmWinOutAssumption DEF TimeTypes
  <2>4. (~wrapped' /\ last_time = due) => last_time' = due'
    <3>1. CASE TakesTime
      <4>1. /\ wrapped' = (wrapped \/ call.when \notin 0..(Wrap - 1))
            /\ last_time' = When /\ due' = Max({call.when, due})
        BY <1>12, <3>1 DEF Fill
      <4> QED
        BY <4>1, WhenFacts
    <3>2. CASE ~TakesTime
      BY <1>12, <3>2 DEF Fill
    <3> QED
      BY <3>1, <3>2
  <2>5. ~wrapped' => ~wrapped
    BY <1>12 DEF Fill, FlagTypes
  <2> SUFFICES ASSUME latency # 0, ~garbled'
               PROVE  streamed + pending' = last_time' /\ (~wrapped' => last_time' = due')
    BY <2>2 DEF StreamTime, StreamTimeIsRight
  <2>6. streamed + pending = last_time /\ (~wrapped => last_time = due)
    BY <2>2 DEF StreamTime, StreamTimeIsRight
  <2>7. streamed + pending' = last_time'
    <3>1. streamed \in Nat /\ pending \in Nat /\ last_time \in Nat
      BY PmWinOutAssumption DEF TimeTypes
    <3> QED
      BY <2>1, <2>3, <2>6, <3>1, SumFollows
  <2> QED
    BY <2>4, <2>5, <2>6, <2>7
<1>13. CASE Send
  <2>1. /\ hdr' = 0 /\ pending' = 0
        /\ UNCHANGED <<last_time, latency, garbled, due, wrapped>>
    BY <1>13 DEF Send, Flushed
  <2>2. streamed' = streamed + pending
    BY <1>13 DEF Send, StreamTime, TimeTypes
  <2> QED
    BY <2>1, <2>2 DEF StreamTime, StreamTimeIsRight, TimeTypes
<1>14. CASE FlushFails
  BY <1>14, PmWinOutAssumption DEF FlushFails, Flushed, life, pool, written, device, IInv,
     TypeOK, NumberTypes, TimeTypes, StreamTime, StreamTimeIsRight
<1>15. CASE Unprepare
  BY <1>15, PmWinOutAssumption DEF Unprepare, Others, life, pool, written, device, IInv,
     TypeOK, NumberTypes, TimeTypes, StreamTime, StreamTimeIsRight
<1>16. CASE SetEvent
  BY <1>16, PmWinOutAssumption DEF SetEvent, Others, life, pool, written, device, IInv, TypeOK,
     NumberTypes, TimeTypes, StreamTime, StreamTimeIsRight
<1>17. CASE Removed
  BY <1>17, PmWinOutAssumption DEF Removed, life, pool, written, device, IInv, TypeOK,
     NumberTypes, TimeTypes, StreamTime, StreamTimeIsRight
<1>18. CASE Unterminated
  BY <1>18, PmWinOutAssumption DEF Unterminated, life, pool, written, device, IInv, TypeOK,
     NumberTypes, TimeTypes, StreamTime, StreamTimeIsRight
<1> QED
  BY <1>1, <1>2, <1>3, <1>4, <1>5, <1>6, <1>7, <1>8, <1>9, <1>10, <1>11, <1>12, <1>13, <1>14,
     <1>15, <1>16, <1>17, <1>18 DEF Next, InCall, Callback

LEMMA InitIInv == Init => IInv
<1> SUFFICES ASSUME Init PROVE IInv
  OBVIOUS
<1> USE PmWinOutAssumption DEF Init
<1>1. FlagTypes
  BY DEF FlagTypes
<1>2. NumberTypes /\ SizeTypes /\ TimeTypes
  BY DEF NumberTypes, SizeTypes, TimeTypes, MaxBuffers, Idle
<1>3. DeviceTypes
  BY DEF DeviceTypes
<1>4. Ownership
  BY DEF Ownership, IsInjective
<1>5. Wakeup /\ Filling /\ StreamTime
  BY DEF Wakeup, Filling, Idle, StreamTime, StreamTimeIsRight
<1> QED
  BY <1>1, <1>2, <1>3, <1>4, <1>5 DEF IInv, TypeOK

LEMMA InductiveIInv == IInv /\ [Next]_vars => IInv'
<1>1. ASSUME IInv, Next PROVE IInv'
  BY <1>1, FlagStep, NumberStep, SizeStep, TimeTypeStep, DeviceStep, OwnershipStep, WakeupStep,
     FillingStep, StreamTimeStep DEF IInv, TypeOK
<1>2. ASSUME IInv, UNCHANGED vars PROVE IInv'
  <2> USE <1>2 DEF IInv, vars, life, pool, written, device
  <2>1. FlagTypes'
    BY DEF TypeOK, FlagTypes
  <2>2. (NumberTypes /\ SizeTypes /\ TimeTypes /\ DeviceTypes)'
    BY DEF TypeOK, NumberTypes, SizeTypes, Length, TimeTypes, DeviceTypes
  <2>3. (Ownership /\ Wakeup /\ Filling /\ StreamTime)'
    BY DEF Ownership, Wakeup, NothingBack, Looked, Behind, Filling, Length, StreamTime,
       StreamTimeIsRight
  <2> QED
    BY <2>1, <2>2, <2>3 DEF TypeOK
<1> QED
  BY <1>1, <1>2

LEMMA Inductive == Spec => []IInv
BY InitIInv, InductiveIInv, PTL DEF Spec

-----------------------------------------------------------------------------
\* Every variable keeps its type: the indices into the pool stay in it, and a buffer with short
\* messages or sysex bytes only is not filled past its end (pmwinmm.c:301-364, 658-671, 1020-1025),
\* for any number and size of buffers.  One that gets short messages among sysex bytes can be, by
\* less than such a message.
THEOREM TypeCorrect == Spec => []TypeOK
<1>1. IInv => TypeOK
  BY DEF IInv
<1> QED
  BY <1>1, Inductive, PTL

\* A buffer that midiStreamOut or midiOutLongMsg has been given is neither filled nor given
\* again before it has come back (pmwinmm.c:847-973).
THEOREM NeverShared == Spec => []FilledIsOurs
<1>1. IInv => FilledIsOurs
  <2> SUFFICES ASSUME IInv PROVE FilledIsOurs
    OBVIOUS
  <2>1. hdr # 0 => \A i \in DOMAIN playing : playing[i] # hdr
    BY DEF IInv, Ownership
  <2> QED
    BY <2>1 DEF IInv, Ownership, FilledIsOurs, ToSet
<1> QED
  BY <1>1, Inductive, PTL

\* The event is set after the flag of the buffer has been cleared and reset only by a wait,
\* after which the whole pool is looked through again; so get_free_output_buffer never sleeps
\* over a buffer that has come back (pmwinmm.c:307-315, 1071-1092).
THEOREM NoSleepOverBuffer == Spec => []NoWakeupIsLost
<1>1. IInv => NoWakeupIsLost
  <2> SUFFICES ASSUME IInv, pc = "wait", ~buffer_signal, done = <<>>, NEW b \in 1..num_buffers
               PROVE  prepared[b]
    BY DEF NoWakeupIsLost
  <2>1. Looked(b)
    BY PmWinOutAssumption
       DEF IInv, Wakeup, TypeOK, NumberTypes, Looked, Behind
  <2> QED
    BY <2>1 DEF IInv, Wakeup, NothingBack
<1> QED
  BY <1>1, Inductive, PTL

\* Delta times add up to last_time, whatever times are asked for: none is negative, and so none
\* wraps around.  And last_time is the latest time asked for unless one of them itself has wrapped
\* around, being before the start of the stream or beyond 2^32 (pmwinmm.c:880-916, 976-1026).
THEOREM TimesAddUp == Spec => []StreamTimeIsRight
<1>1. IInv => StreamTimeIsRight
  BY DEF IInv, StreamTime
<1> QED
  BY <1>1, Inductive, PTL
=============================================================================
