---------------------------- MODULE PmInputProofs ----------------------------
(***************************************************************************)
(* What the reader of an input finds in the queue, for every sequence of   *)
(* bytes, overflows and changes of filters.                                *)
(***************************************************************************)
EXTENDS PmInput, TLAPS

(***************************************************************************)
(* The inductive invariant.  The properties speak of the log; what is put  *)
(* into it next comes from the accumulator, so that most of the invariant  *)
(* is about message, and about what message and the last event are         *)
(* together.                                                               *)
(*   InSysex  What the accumulator of a sysex message can hold.            *)
(*   Open     As long as a sysex message is taken in, the accumulator has  *)
(*            its first bytes, or it continues the last event.             *)
(*   InShort  Outside sysex a raw backend's accumulator holds a short      *)
(*            message, and short_message_count is its length; a parsed     *)
(*            one's has the rest of a sysex message that was interrupted.  *)
(***************************************************************************)

\* The last data byte in a sequence, if there is one, is datum.
EndsWith(bytes, datum) ==
  \A i \in 1..Len(bytes) :
     (~IsStatus(bytes[i]) /\ \A j \in i + 1..Len(bytes) : IsStatus(bytes[j])) => bytes[i] = datum

Types == /\ TypeOK
         /\ data \in 0..127 /\ device_sysex \in BOOLEAN /\ backend \in Backends
         /\ stray_eox \in BOOLEAN /\ source \in Seq(Bytes) /\ picked \in Seq(Bytes)

InSysex ==
  sysex_in_progress =>
     /\ \A i \in 1..Len(message) : message[i] # Eox
     /\ message # <<>> => message[1] = Sysex \/ ~IsStatus(message[1]) \/ IsRealTime(message[1])

Continued(bytes, events, datum) ==
  LET last == events[Len(events)] IN
  /\ Consecutive(bytes) /\ EndsWith(bytes, datum)
  /\ ~(bytes # <<>> /\ bytes[1] = Sysex) =>
        /\ events # <<>> /\ OpenSysex(last)
        /\ Consecutive(last \o bytes) /\ EndsWith(last \o bytes, datum)

Open == (sysex_in_progress /\ "SYSEX" \notin filters) => Continued(message, log, data)

\* After the status byte come data bytes, or EOX that the device has sent outside sysex.
DataFollows(bytes, eox) ==
  \A k \in 2..Len(bytes) : ~IsStatus(bytes[k]) \/ (bytes[k] = Eox /\ eox)

InShort ==
  (~sysex_in_progress /\ message # <<>>) =>
     /\ (LuckyStatus /\ backend = "raw") => IsChannel(message[1])
     /\ (running_status = 0 /\ backend = "parsed") => ~IsChannel(message[1])
     /\ (running_status = 0 /\ backend = "raw") =>
           /\ message[1] \in {Note, Program} /\ ~device_sysex
           /\ short_message_count = pm_midi_length(message[1])
           /\ Len(message) < short_message_count =>
                 /\ Consecutive(message) /\ EndsWith(message, data)
                 /\ DataFollows(message, stray_eox)

-----------------------------------------------------------------------------
(* Sequences of data and status bytes.                                     *)

LEMMA ByteFacts ==
  /\ Statuses \subseteq Bytes
  /\ \A d \in Nat : After(d) \in 0..127 /\ After(d) \in Bytes /\ ~IsStatus(After(d))
  /\ \A b \in Statuses : IsStatus(b) /\ pm_midi_length(b) \in 1..3
BY DEF Statuses, Note, Program, Sysex, Tune, Eox, Clock, Active, Bytes, After, IsStatus,
       pm_midi_length

\* The kinds of bytes exclude each other.
LEMMA ByteKinds ==
  /\ \A e \in Seq(Bytes) : e # <<>> => e[1] \in Bytes
  /\ \A b \in Bytes : IsChannel(b) => IsStatus(b) /\ ~IsRealTime(b) /\ b \notin {Sysex, Eox}
  /\ \A b \in Bytes : IsRealTime(b) => IsStatus(b) /\ b \notin {Sysex, Eox}
  /\ IsStatus(Sysex) /\ IsStatus(Eox) /\ Sysex # Eox
<1>1. \A e \in Seq(Bytes) : e # <<>> => e[1] \in Bytes
  OBVIOUS
<1>2. \A b \in Bytes : IsChannel(b) => IsStatus(b) /\ ~IsRealTime(b) /\ b \notin {Sysex, Eox}
  BY DEF Bytes, IsChannel, IsStatus, IsRealTime, Sysex, Eox
<1>3. \A b \in Bytes : IsRealTime(b) => IsStatus(b) /\ b \notin {Sysex, Eox}
  BY DEF Bytes, IsStatus, IsRealTime, Sysex, Eox
<1> QED
  BY <1>1, <1>2, <1>3 DEF IsStatus, Sysex, Eox

\* What Append makes of a sequence.
LEMMA AppendFacts ==
  ASSUME NEW S, NEW s \in Seq(S), NEW e \in S
  PROVE  LET t == Append(s, e) IN
         /\ t \in Seq(S) /\ Len(t) = Len(s) + 1 /\ Len(s) \in Nat /\ t # <<>>
         /\ \A i \in 1..Len(s) : t[i] = s[i]
         /\ t[Len(s) + 1] = e /\ t[Len(t)] = e
         /\ s # <<>> => t[1] = s[1]
<1> DEFINE t == Append(s, e)
<1>1. /\ t \in Seq(S) /\ Len(t) = Len(s) + 1 /\ Len(s) \in Nat
      /\ \A i \in 1..Len(s) : t[i] = s[i]
  OBVIOUS
<1>2. t[Len(s) + 1] = e
  OBVIOUS
<1>3. t # <<>>
  <2>1. Len(t) # 0 /\ Len(<<>>) = 0
    <3>1. \A n \in Nat : n + 1 # 0
      OBVIOUS
    <3> HIDE DEF t
    <3> QED
      BY <1>1, <3>1
  <2> HIDE DEF t
  <2> QED
    BY <2>1
<1>4. s # <<>> => 1 \in 1..Len(s)
  OBVIOUS
<1>5. t[Len(t)] = e
  BY <1>1, <1>2
<1> HIDE DEF t
<1>6. s # <<>> => t[1] = s[1]
  BY <1>1, <1>4
<1> QED
  BY <1>1, <1>2, <1>3, <1>5, <1>6 DEF t

\* The next data byte goes on where the sequence ends.
LEMMA AppendDatum ==
  ASSUME NEW s \in Seq(Bytes), NEW d \in 0..127, Consecutive(s), EndsWith(s, d)
  PROVE  /\ Consecutive(Append(s, After(d)))
         /\ EndsWith(Append(s, After(d)), After(d))
<1> DEFINE e == After(d)
           t == Append(s, e)
<1>1. /\ e \in Bytes /\ ~IsStatus(e) /\ t \in Seq(Bytes) /\ Len(t) = Len(s) + 1
      /\ t[Len(s) + 1] = e /\ \A i \in 1..Len(s) : t[i] = s[i]
  BY ByteFacts
<1>2. Consecutive(t)
  <2> SUFFICES ASSUME NEW i \in 1..Len(t), NEW k \in 1..Len(t), i < k,
                      ~IsStatus(t[i]), ~IsStatus(t[k]), \A j \in i + 1..k - 1 : IsStatus(t[j])
               PROVE  t[k] = After(t[i])
    BY DEF Consecutive
  <2> HIDE DEF t
  <2>1. i \in 1..Len(s) /\ t[i] = s[i]
    BY <1>1
  <2>2. CASE k \in 1..Len(s)
    <3>1. t[k] = s[k] /\ \A j \in i + 1..k - 1 : IsStatus(s[j])
      BY <1>1, <2>2
    <3> QED
      BY <2>1, <2>2, <3>1 DEF Consecutive
  <2>3. CASE k = Len(s) + 1
    <3>1. \A j \in i + 1..Len(s) : IsStatus(s[j])
      BY <1>1, <2>3
    <3>2. s[i] = d
      BY <2>1, <3>1 DEF EndsWith
    <3> QED
      BY <1>1, <2>1, <2>3, <3>2
  <2> QED
    BY <1>1, <2>2, <2>3
<1>3. EndsWith(t, e)
  <2> SUFFICES ASSUME NEW i \in 1..Len(t), \A j \in i + 1..Len(t) : IsStatus(t[j]), t[i] # e
               PROVE  FALSE
    BY DEF EndsWith
  <2> HIDE DEF t, e
  <2>1. i \in 1..Len(s)
    BY <1>1
  <2> QED
    BY <1>1, <2>1
<1> QED
  BY <1>2, <1>3

\* A status byte changes nothing about the data bytes.
LEMMA AppendStatus ==
  ASSUME NEW s \in Seq(Bytes), NEW b \in Bytes, IsStatus(b)
  PROVE  /\ Consecutive(s) => Consecutive(Append(s, b))
         /\ \A d : EndsWith(s, d) => EndsWith(Append(s, b), d)
<1> DEFINE t == Append(s, b)
<1>1. /\ t \in Seq(Bytes) /\ Len(t) = Len(s) + 1
      /\ t[Len(s) + 1] = b /\ \A i \in 1..Len(s) : t[i] = s[i]
  OBVIOUS
<1> HIDE DEF t
<1>2. ASSUME Consecutive(s) PROVE Consecutive(t)
  <2> SUFFICES ASSUME NEW i \in 1..Len(t), NEW k \in 1..Len(t), i < k,
                      ~IsStatus(t[i]), ~IsStatus(t[k]), \A j \in i + 1..k - 1 : IsStatus(t[j])
               PROVE  t[k] = After(t[i])
    BY DEF Consecutive
  <2>1. i \in 1..Len(s) /\ k \in 1..Len(s)
    BY <1>1
  <2>2. t[i] = s[i] /\ t[k] = s[k] /\ \A j \in i + 1..k - 1 : IsStatus(s[j])
    BY <1>1, <2>1
  <2> QED
    BY <1>2, <2>1, <2>2 DEF Consecutive
<1>3. ASSUME NEW d, EndsWith(s, d) PROVE EndsWith(t, d)
  <2> SUFFICES ASSUME NEW i \in 1..Len(t), ~IsStatus(t[i]),
                      \A j \in i + 1..Len(t) : IsStatus(t[j])
               PROVE  t[i] = d
    BY DEF EndsWith
  <2>1. i \in 1..Len(s) /\ t[i] = s[i]
    BY <1>1
  <2>2. \A j \in i + 1..Len(s) : IsStatus(s[j])
    BY <1>1
  <2> QED
    BY <1>3, <2>1, <2>2 DEF EndsWith
<1> QED
  BY <1>2, <1>3 DEF t

\* One data byte, or one status byte, is consecutive.
LEMMA OneByte ==
  ASSUME NEW b \in Bytes
  PROVE  /\ Consecutive(<<b>>)
         /\ IsStatus(b) => \A d : EndsWith(<<b>>, d)
BY DEF Consecutive, EndsWith, Bytes

\* What has been said of two sequences together holds of the second.
LEMMA SecondPart ==
  ASSUME NEW s \in Seq(Bytes), NEW t \in Seq(Bytes)
  PROVE  /\ Consecutive(s \o t) => Consecutive(t)
         /\ \A d : EndsWith(s \o t, d) => EndsWith(t, d)
<1> DEFINE u == s \o t
           n == Len(s)
<1>1. /\ u \in Seq(Bytes) /\ Len(u) = n + Len(t) /\ n \in Nat /\ Len(t) \in Nat
      /\ \A i \in 1..Len(t) : n + i \in 1..Len(u) /\ u[n + i] = t[i]
  OBVIOUS
<1> HIDE DEF u, n
<1>2. ASSUME Consecutive(u) PROVE Consecutive(t)
  <2> SUFFICES ASSUME NEW i \in 1..Len(t), NEW k \in 1..Len(t), i < k,
                      ~IsStatus(t[i]), ~IsStatus(t[k]), \A j \in i + 1..k - 1 : IsStatus(t[j])
               PROVE  t[k] = After(t[i])
    BY DEF Consecutive
  <2> DEFINE p == n + i
             q == n + k
  <2>1. \A j \in p + 1..q - 1 : IsStatus(u[j])
    <3> TAKE j \in p + 1..q - 1
    <3>1. j - n \in i + 1..k - 1 /\ j - n \in 1..Len(t) /\ n + (j - n) = j
      BY <1>1
    <3> QED
      BY <1>1, <3>1
  <2>2. /\ p \in 1..Len(u) /\ q \in 1..Len(u) /\ p < q
        /\ u[p] = t[i] /\ u[q] = t[k]
    BY <1>1
  <2> HIDE DEF p, q
  <2> QED
    BY <1>2, <2>1, <2>2 DEF Consecutive
<1>3. ASSUME NEW d, EndsWith(u, d) PROVE EndsWith(t, d)
  <2> SUFFICES ASSUME NEW i \in 1..Len(t), ~IsStatus(t[i]),
                      \A j \in i + 1..Len(t) : IsStatus(t[j])
               PROVE  t[i] = d
    BY DEF EndsWith
  <2>1. \A j \in n + i + 1..Len(u) : IsStatus(u[j])
    <3> TAKE j \in n + i + 1..Len(u)
    <3>1. j - n \in i + 1..Len(t) /\ j - n \in 1..Len(t) /\ n + (j - n) = j
      BY <1>1
    <3> QED
      BY <1>1, <3>1
  <2> QED
    BY <1>1, <1>3, <2>1 DEF EndsWith
<1> QED
  BY <1>2, <1>3 DEF u

\* What a byte does to a sequence that is in order, alone or after another one.
LEMMA NextByte ==
  ASSUME NEW s \in Seq(Bytes), NEW t \in Seq(Bytes), NEW d \in 0..127, NEW b \in Bytes,
         Consecutive(s \o t), IsStatus(b) \/ (b = After(d) /\ EndsWith(s \o t, d))
  PROVE  /\ Consecutive(s \o Append(t, b))
         /\ EndsWith(s \o t, d) => EndsWith(s \o Append(t, b), IF IsStatus(b) THEN d ELSE b)
<1>1. s \o Append(t, b) = Append(s \o t, b) /\ s \o t \in Seq(Bytes)
  OBVIOUS
<1>2. CASE IsStatus(b)
  BY <1>1, <1>2, AppendStatus
<1>3. CASE ~IsStatus(b)
  BY <1>1, <1>3, AppendDatum
<1> QED
  BY <1>2, <1>3

\* The same of a sequence alone.
LEMMA NextByteAlone ==
  ASSUME NEW t \in Seq(Bytes), NEW d \in 0..127, NEW b \in Bytes,
         Consecutive(t), IsStatus(b) \/ (b = After(d) /\ EndsWith(t, d))
  PROVE  /\ Consecutive(Append(t, b))
         /\ EndsWith(t, d) => EndsWith(Append(t, b), IF IsStatus(b) THEN d ELSE b)
<1>1. CASE IsStatus(b)
  BY <1>1, AppendStatus
<1>2. CASE ~IsStatus(b)
  BY <1>2, AppendDatum
<1> QED
  BY <1>1, <1>2

\* DataOf goes along with the bytes of an event, and leaves real-time bytes out.
LEMMA DataOfFacts ==
  /\ \A s \in Seq(Bytes) : DataOf(s) \in Seq(Bytes)
  /\ DataOf(<<>>) = <<>> /\ DataOf(<<Sysex>>) = <<Sysex>>
<1>1. \A s \in Seq(Bytes), i \in 1..4 : Kept(s, i) \in Seq(Bytes)
  BY DEF Kept
<1>2. \A s \in Seq(Bytes) : DataOf(s) \in Seq(Bytes)
  BY <1>1 DEF DataOf
<1>3. DataOf(<<>>) = <<>>
  <2>1. \A i \in 1..4 : Kept(<<>>, i) = <<>>
    BY DEF Kept
  <2>2. <<>> \o <<>> = <<>>
    OBVIOUS
  <2> QED
    BY <2>1, <2>2 DEF DataOf
<1>4. DataOf(<<Sysex>>) = <<Sysex>>
  <2>1. /\ Kept(<<Sysex>>, 1) = <<Sysex>> /\ Kept(<<Sysex>>, 2) = <<>>
        /\ Kept(<<Sysex>>, 3) = <<>> /\ Kept(<<Sysex>>, 4) = <<>>
    BY DEF Kept, IsRealTime, Sysex
  <2>2. <<Sysex>> \o <<>> = <<Sysex>>
    OBVIOUS
  <2> QED
    BY <2>1, <2>2 DEF DataOf
<1> QED
  BY <1>2, <1>3, <1>4

LEMMA DataOfByte ==
  ASSUME NEW s \in Seq(Bytes), Len(s) <= 3, NEW b \in Bytes
  PROVE  DataOf(Append(s, b)) = IF IsRealTime(b) THEN DataOf(s) ELSE Append(DataOf(s), b)
<1> DEFINE t == Append(s, b)
           k == Len(s) + 1
           one == IF IsRealTime(b) THEN <<>> ELSE <<b>>
<1>1. /\ t \in Seq(Bytes) /\ Len(t) = k /\ Len(s) \in 0..3 /\ t[k] = b
      /\ \A i \in 1..Len(s) : t[i] = s[i]
  <2>1. /\ t \in Seq(Bytes) /\ Len(t) = k /\ Len(s) \in Nat /\ t[k] = b
        /\ \A i \in 1..Len(s) : t[i] = s[i]
    BY AppendFacts
  <2>2. \A n \in Nat : n <= 3 => n \in 0..3
    OBVIOUS
  <2> HIDE DEF t, k
  <2> QED
    BY <2>1, <2>2
<1> HIDE DEF t
<1>2. /\ 1 < k => Kept(t, 1) = Kept(s, 1)
      /\ 2 < k => Kept(t, 2) = Kept(s, 2)
      /\ 3 < k => Kept(t, 3) = Kept(s, 3)
  BY <1>1 DEF Kept
<1>3. Kept(t, k) = one
  BY <1>1 DEF Kept
<1>4. /\ k = 1 => /\ Kept(s, 1) = <<>> /\ Kept(s, 2) = <<>>
                  /\ Kept(s, 3) = <<>> /\ Kept(s, 4) = <<>>
                  /\ Kept(t, 2) = <<>> /\ Kept(t, 3) = <<>> /\ Kept(t, 4) = <<>>
      /\ k = 2 => /\ Kept(s, 2) = <<>> /\ Kept(s, 3) = <<>> /\ Kept(s, 4) = <<>>
                  /\ Kept(t, 3) = <<>> /\ Kept(t, 4) = <<>>
      /\ k = 3 => /\ Kept(s, 3) = <<>> /\ Kept(s, 4) = <<>> /\ Kept(t, 4) = <<>>
      /\ k = 4 => Kept(s, 4) = <<>>
  BY <1>1 DEF Kept
<1>5. \A i \in 1..4 : Kept(s, i) \in Seq(Bytes)
  BY DEF Kept
<1>6. one \in Seq(Bytes) /\ \A u \in Seq(Bytes) : u \o <<>> = u
  OBVIOUS
<1> HIDE DEF one, k
<1>7. DataOf(t) = DataOf(s) \o one
  <2>1. CASE k = 1
    <3>1. /\ Kept(t, 1) = one /\ Kept(t, 2) = <<>> /\ Kept(t, 3) = <<>> /\ Kept(t, 4) = <<>>
          /\ Kept(s, 1) = <<>> /\ Kept(s, 2) = <<>> /\ Kept(s, 3) = <<>> /\ Kept(s, 4) = <<>>
      BY <1>3, <1>4, <2>1
    <3>2. <<>> \o one = one /\ one \o <<>> = one /\ <<>> \o <<>> = <<>>
      BY <1>6
    <3> QED
      BY <3>1, <3>2 DEF DataOf
  <2>2. CASE k = 2
    <3>1. /\ Kept(t, 1) = Kept(s, 1) /\ Kept(t, 2) = one /\ Kept(t, 3) = <<>>
          /\ Kept(t, 4) = <<>>
          /\ Kept(s, 2) = <<>> /\ Kept(s, 3) = <<>> /\ Kept(s, 4) = <<>>
      BY <1>2, <1>3, <1>4, <2>2
    <3>2. Kept(s, 1) \in Seq(Bytes) /\ Kept(s, 1) \o one \in Seq(Bytes)
      BY <1>5, <1>6
    <3> QED
      BY <1>6, <3>1, <3>2 DEF DataOf
  <2>3. CASE k = 3
    <3>1. /\ Kept(t, 1) = Kept(s, 1) /\ Kept(t, 2) = Kept(s, 2) /\ Kept(t, 3) = one
          /\ Kept(t, 4) = <<>> /\ Kept(s, 3) = <<>> /\ Kept(s, 4) = <<>>
      BY <1>2, <1>3, <1>4, <2>3
    <3>2. /\ Kept(s, 1) \o Kept(s, 2) \in Seq(Bytes)
          /\ (Kept(s, 1) \o Kept(s, 2)) \o one \in Seq(Bytes)
      BY <1>5, <1>6
    <3> QED
      BY <1>6, <3>1, <3>2 DEF DataOf
  <2>4. CASE k = 4
    <3>1. /\ Kept(t, 1) = Kept(s, 1) /\ Kept(t, 2) = Kept(s, 2) /\ Kept(t, 3) = Kept(s, 3)
          /\ Kept(t, 4) = one /\ Kept(s, 4) = <<>>
      BY <1>2, <1>3, <1>4, <2>4
    <3>2. Kept(s, 1) \o Kept(s, 2) \o Kept(s, 3) \in Seq(Bytes)
      BY <1>5
    <3> QED
      BY <1>6, <3>1, <3>2 DEF DataOf
  <2> QED
    BY <1>1, <2>1, <2>2, <2>3, <2>4 DEF k
<1>8. DataOf(s) \in Seq(Bytes)
  BY DataOfFacts
<1> QED
  BY <1>6, <1>7, <1>8 DEF one, t

-----------------------------------------------------------------------------
(* What one step of the parser does.                                       *)

\* A byte that can come next.
Byte(b) == /\ b \in Bytes
           /\ IsStatus(b) => b \in Statuses
           /\ ~IsStatus(b) => b = After(data)

NextData(b) == data' = IF IsStatus(b) THEN data ELSE b

\* The accumulator stays as it is, and no data byte has been taken from the middle of it.
Passed == /\ UNCHANGED <<message, short_message_count>>
          /\ device_sysex' => device_sysex
          /\ sysex_in_progress \/ message # <<>> => data' = data

\* A short message as it goes to the queue, or the gap in its place.
Alone(e) == e = Gap \/ /\ e \in Seq(Bytes) /\ e # <<>> /\ Consecutive(e)
                       /\ IsStatus(e[1]) /\ e[1] # Eox
                       /\ \A k \in 2..Len(e) : ~IsStatus(e[k])
                       /\ Len(e) = pm_midi_length(e[1])
                       /\ IsRealTime(e[1]) => Len(e) = 1

Nothing == /\ Passed /\ UNCHANGED <<sysex_in_progress, log>>
           /\ sysex_in_progress => UNCHANGED <<source, picked>>

Enqueued == /\ Passed /\ ~sysex_in_progress /\ sysex_in_progress' = FALSE
            /\ \E e : Alone(e) /\ log' = Append(log, e)

Interrupted == /\ sysex_in_progress /\ sysex_in_progress' = FALSE /\ backend = "parsed"
               /\ UNCHANGED <<message, short_message_count, log>>

Started == /\ sysex_in_progress' = TRUE /\ message' = <<Sysex>> /\ source' = <<Sysex>>
           /\ UNCHANGED <<short_message_count, log>>

Begun == /\ sysex_in_progress' = FALSE /\ backend = "raw" /\ UNCHANGED <<log, data>>
         /\ ~device_sysex'
         /\ \E b \in {Note, Program} :
               message' = <<b>> /\ short_message_count' = pm_midi_length(b)

OneByteMessage == /\ sysex_in_progress' = FALSE /\ message' = <<>> /\ backend = "raw"
                  /\ log' = log \/ \E e : Alone(e) /\ log' = Append(log, e)

\* The byte joins the others of a sysex message; or completes a group, or the message.
Taken(b) == source' = IF IsRealTime(b) THEN source ELSE Append(source, b)

Joined(b) == /\ sysex_in_progress /\ sysex_in_progress' = TRUE /\ b # Eox
             /\ IsStatus(b) => IsRealTime(b)
             /\ message' = Append(message, b) /\ Taken(b) /\ NextData(b)
             /\ Len(message) < 3
             /\ UNCHANGED <<short_message_count, log, picked>>

Grouped(b) ==
  /\ sysex_in_progress
  /\ "SYSEX" \in filters => Len(log) + 1 \in leaked'
  /\ IsStatus(b) => IsRealTime(b) \/ b = Eox
  /\ message' = <<>> /\ Taken(b) /\ NextData(b)
  /\ b # Eox => Len(message) = 3
  /\ \E accepted \in BOOLEAN :
        /\ log' = Append(log, IF accepted THEN Append(message, b) ELSE Gap)
        /\ PickUp(IF accepted THEN Append(message, b) ELSE Gap)
        /\ sysex_in_progress' = (accepted /\ b # Eox)
  /\ UNCHANGED short_message_count

Discarded(b) == /\ sysex_in_progress /\ "SYSEX" \in filters
                /\ message' = <<>> /\ sysex_in_progress' = (b # Eox)
                /\ UNCHANGED <<log, short_message_count>>

\* The byte joins the others of a short message, which may be complete then.
Shortened(b) ==
  LET bytes == Append(IF message = <<>> THEN <<running_status>> ELSE message, b) IN
  /\ ~sysex_in_progress /\ sysex_in_progress' = FALSE
  /\ message # <<>> \/ running_status # 0
  /\ IsStatus(b) => b = Eox
  /\ (b = Eox /\ ~device_sysex) => stray_eox'
  /\ device_sysex' => device_sysex
  /\ message' = bytes
  /\ NextData(b)
  /\ \/ log' = log
     \/ Len(bytes) = short_message_count /\ log' \in {Append(log, Gap), Append(log, bytes)}
  /\ UNCHANGED short_message_count

ByteStep(b) == \/ Nothing \/ Enqueued \/ Started \/ Begun \/ OneByteMessage
               \/ Joined(b) \/ Grouped(b) \/ Discarded(b) \/ Shortened(b)

Fixed == /\ UNCHANGED <<filters, running_status, backend>>
         /\ leaked \subseteq leaked'
         /\ stray_eox => stray_eox'

LEMMA AloneFacts ==
  /\ Alone(Gap)
  /\ \A b \in Statuses \ {Note, Program, Eox} : Alone(<<b>>)
<1>1. ASSUME NEW b \in Statuses \ {Note, Program, Eox} PROVE Alone(<<b>>)
  <2>1. b \in Bytes /\ IsStatus(b) /\ pm_midi_length(b) = 1
    BY ByteFacts DEF pm_midi_length
  <2>2. /\ <<b>> \in Seq(Bytes) /\ <<b>> # <<>> /\ <<b>>[1] = b /\ Len(<<b>>) = 1
        /\ 2..1 = {}
    BY <2>1
  <2> QED
    BY <2>1, <2>2, OneByte DEF Alone
<1> QED
  BY <1>1 DEF Alone

\* A byte makes a group of four when three are there.
LEMMA GroupNeedsThree ==
  ASSUME NEW b \in Bytes, message \in Seq(Bytes), GroupFull(Add(b))
  PROVE  Len(message) = 3
<1>1. Len(Append(message, b)) = Len(message) + 1 /\ Len(message) \in Nat
  OBVIOUS
<1>2. Len(Append(message, b)) = 4
  BY DEF GroupFull, Add
<1>3. \A n \in Nat : n + 1 = 4 => n = 3
  OBVIOUS
<1> QED
  BY <1>1, <1>2, <1>3

\* An event that is appended to the log has the next place in it.
LEMMA LogGrows ==
  ASSUME Types, NEW e, log' = Append(log, e)
  PROVE  Len(log) + 1 \in (Len(log) + 1)..Len(log')
<1>1. log \in Seq(Seq(Bytes)) /\ Len(log) \in Nat
  BY DEF Types, TypeOK
<1>2. Len(log') = Len(log) + 1
  BY <1>1
<1> QED
  BY <1>1, <1>2

\* The bytes that the backend hands to pm_read_bytes, and what becomes of them.
LEMMA ByteIn ==
  ASSUME Types, NEW b \in BytesToRead
  PROVE  /\ Byte(b)
         /\ IsStatus(b) => b \in Statuses
         /\ IsStatus(b) /\ b \notin {Sysex, Eox} => backend = "raw"
<1>1. data \in 0..127 /\ backend \in {"raw", "parsed"} /\ device_sysex \in BOOLEAN
  BY InputAssumption DEF Types
<1> QED
  BY <1>1, ByteFacts DEF BytesToRead, Byte, Statuses

\* Each turn of the loop of pm_read_bytes has one of these effects.
LEMMA ReadBytesStep ==
  ASSUME Types, ReceiveByte
  PROVE  Fixed /\ \E b : Byte(b) /\ ByteStep(b)
<1>1. PICK b \in BytesToRead :
         /\ NextData(b)
         /\ device_sysex' = (b = Sysex \/ (device_sysex /\ (~IsStatus(b) \/ IsRealTime(b))))
         /\ stray_eox' = (stray_eox \/ (b = Eox /\ ~device_sysex))
         /\ pm_read_bytes(b) /\ Track(b)
  BY DEF ReceiveByte, NextData
<1>2. /\ Byte(b) /\ (IsStatus(b) => b \in Statuses) /\ b \in Bytes
      /\ IsStatus(b) /\ b \notin {Sysex, Eox} => backend = "raw"
  BY <1>1, ByteIn DEF Byte
<1>3. /\ message \in Seq(Bytes) /\ Len(message) \in Nat
      /\ sysex_in_progress => Len(message) <= 3
      /\ backend \in {"raw", "parsed"} /\ device_sysex \in BOOLEAN /\ data \in 0..127
      /\ sysex_in_progress \in BOOLEAN
  BY InputAssumption DEF Types, TypeOK
<1>4. Fixed /\ backend' = backend
  <2>1. UNCHANGED <<filters, running_status, backend>>
    BY <1>1 DEF ReceiveByte, pm_read_bytes, RealTimeByte, SysexStart, ShortStatus,
                SysexByte, ShortByte
  <2>2. leaked \subseteq leaked' /\ (stray_eox => stray_eox')
    BY <1>1 DEF Track
  <2> QED
    BY <2>1, <2>2 DEF Fixed
<1>5. b # Sysex => (device_sysex' => device_sysex)
  BY <1>1
<1>6. Len(Append(message, b)) = Len(message) + 1
  BY <1>2, <1>3
<1>7. CASE RealTimeByte(b)
  <2>1. /\ pm_read_short(<<b>>) /\ IsRealTime(b) /\ IsStatus(b) /\ <<b>>[1] = b
        /\ b \notin {Sysex, Eox} /\ b \in Statuses \ {Note, Program, Eox}
        /\ UNCHANGED <<short_message_count, running_status>>
    BY <1>2, <1>7 DEF RealTimeByte, IsRealTime, IsStatus, Sysex, Eox, Note, Program, Bytes
  <2>2. data' = data /\ source' = source
    BY <1>1, <2>1 DEF NextData, Track
  <2>3. CASE ~Passes(b) /\ NoEnqueue /\ UNCHANGED <<sysex_in_progress, message>>
    BY <1>2, <1>4, <1>5, <2>1, <2>2, <2>3 DEF ByteStep, Nothing, Passed, NoEnqueue
  <2>4. CASE /\ Passes(b) /\ sysex_in_progress
             /\ IF GroupFull(Add(b))
                  THEN \E accepted \in BOOLEAN : FlushSysex(Add(b), accepted, TRUE)
                  ELSE message' = Add(b) /\ NoEnqueue /\ UNCHANGED sysex_in_progress
    <3>1. Taken(b)
      BY <2>1, <2>2 DEF Taken
    <3>2. CASE GroupFull(Add(b))
      <4>1. PICK accepted \in BOOLEAN : FlushSysex(Add(b), accepted, TRUE)
        BY <2>4, <3>2
      <4>2. /\ log' = Append(log, IF accepted THEN Append(message, b) ELSE Gap)
            /\ PickUp(IF accepted THEN Append(message, b) ELSE Gap)
            /\ sysex_in_progress' = (accepted /\ b # Eox) /\ message' = <<>>
        BY <2>1, <4>1 DEF FlushSysex, Enqueue, InProgress, Add
      <4>3. Len(message) = 3
        BY <1>3, <3>2, GroupNeedsThree, <1>2
      <4>5. "SYSEX" \in filters => Len(log) + 1 \in leaked'
        BY <1>1, <2>1, <2>4, <4>2, LogGrows DEF Track
      <4>4. Grouped(b)
        BY <1>1, <2>1, <2>4, <3>1, <4>2, <4>3, <4>5 DEF Grouped
      <4> QED
        BY <1>2, <1>4, <4>4 DEF ByteStep
    <3>3. CASE ~GroupFull(Add(b))
      <4>1. Joined(b)
        BY <1>1, <1>6, <1>3, <2>1, <2>4, <3>1, <3>3 DEF Joined, GroupFull, Add, NoEnqueue
      <4> QED
        BY <1>2, <1>4, <4>1 DEF ByteStep
    <3> QED
      BY <3>2, <3>3
  <2>5. CASE /\ ~sysex_in_progress /\ UNCHANGED message
             /\ \E accepted \in BOOLEAN :
                   /\ Enqueue(<<b>>, accepted)
                   /\ sysex_in_progress' = InProgress(accepted, sysex_in_progress)
    <3>1. ~sysex_in_progress' /\ \E e : Alone(e) /\ log' = Append(log, e)
      BY <2>1, <2>5, AloneFacts DEF Enqueue, InProgress
    <3> QED
      BY <1>2, <1>4, <1>5, <2>1, <2>2, <2>5, <3>1 DEF ByteStep, Enqueued, Passed
  <2> QED
    BY <2>1, <2>3, <2>4, <2>5 DEF pm_read_short
<1>8. CASE SysexStart(b)
  <2>1. Started
    BY <1>1, <1>8 DEF Started, SysexStart, Restarted, NoEnqueue, Track
  <2> QED
    BY <1>2, <1>4, <2>1 DEF ByteStep
<1>9. CASE ShortStatus(b)
  <2>1. /\ IsStatus(b) /\ b \in {Note, Program, Tune} /\ backend = "raw" /\ data' = data
        /\ b \in {Note, Program} <=> pm_midi_length(b) > 1
        /\ b = Tune => b \in Statuses \ {Note, Program, Eox}
    BY <1>1, <1>2, <1>9
    DEF ShortStatus, Statuses, IsRealTime, Note, Program, Sysex, Tune, Eox, Clock, Active,
        pm_midi_length, NextData
  <2>4. ~device_sysex'
    <3>1. b # Sysex /\ IsStatus(b) /\ ~IsRealTime(b)
      BY <1>9 DEF ShortStatus
    <3> QED
      BY <1>1, <3>1
  <2>2. CASE pm_midi_length(b) > 1
    <3>1. Begun
      BY <1>9, <2>1, <2>2, <2>4 DEF Begun, ShortStatus, Restarted, NoEnqueue
    <3> QED
      BY <1>2, <1>4, <3>1 DEF ByteStep
  <2>3. CASE ~(pm_midi_length(b) > 1)
    <3>1. OneByteMessage
      BY <1>9, <2>1, <2>3, AloneFacts DEF OneByteMessage, ShortStatus, NoEnqueue, Enqueue
    <3> QED
      BY <1>2, <1>4, <3>1 DEF ByteStep
  <2> QED
    BY <2>2, <2>3
<1>10. CASE SysexByte(b)
  <2>1. /\ sysex_in_progress /\ (~IsStatus(b) \/ b = Eox) /\ b # Sysex
        /\ UNCHANGED <<short_message_count, running_status>>
    BY <1>1, <1>10 DEF SysexByte, Sysex, Eox, IsStatus
  <2>2. Taken(b) /\ ~IsRealTime(b)
    <3>1. ~IsRealTime(b)
      BY <1>2, <2>1 DEF IsRealTime, IsStatus, Eox, Bytes
    <3> QED
      BY <1>1, <2>1, <3>1 DEF Track, Taken
  <2>3. CASE (GroupFull(Add(b)) \/ b = Eox) /\ "SYSEX" \in filters
    <3>1. Discarded(b)
      BY <1>10, <2>1, <2>3 DEF SysexByte, Discarded, NoEnqueue
    <3> QED
      BY <1>2, <1>4, <3>1 DEF ByteStep
  <2>4. CASE (GroupFull(Add(b)) \/ b = Eox) /\ "SYSEX" \notin filters
    <3>1. PICK accepted \in BOOLEAN : FlushSysex(Add(b), accepted, b # Eox)
      BY <1>10, <2>4 DEF SysexByte
    <3>2. b # Eox => Len(message) = 3
      BY <1>2, <1>3, <2>4, GroupNeedsThree
    <3>3. /\ log' = Append(log, IF accepted THEN Append(message, b) ELSE Gap)
          /\ PickUp(IF accepted THEN Append(message, b) ELSE Gap)
          /\ sysex_in_progress' = (accepted /\ b # Eox) /\ message' = <<>>
      BY <3>1 DEF FlushSysex, Enqueue, InProgress, Add
    <3>4. Grouped(b)
      BY <1>1, <2>1, <2>2, <2>4, <3>2, <3>3 DEF Grouped
    <3> QED
      BY <1>2, <1>4, <3>4 DEF ByteStep
  <2>5. CASE ~(GroupFull(Add(b)) \/ b = Eox)
    <3>1. message' = Append(message, b) /\ NoEnqueue /\ UNCHANGED sysex_in_progress
      BY <1>10, <2>5 DEF SysexByte, Add
    <3>2. Len(message) < 3
      BY <1>3, <1>6, <2>1, <2>5 DEF GroupFull, Add
    <3>3. Joined(b)
      BY <1>1, <2>1, <2>2, <2>5, <3>1, <3>2 DEF Joined, NoEnqueue
    <3> QED
      BY <1>2, <1>4, <3>3 DEF ByteStep
  <2> QED
    BY <2>3, <2>4, <2>5
<1>11. CASE ShortByte(b)
  <2>1. /\ ~sysex_in_progress /\ (~IsStatus(b) \/ b = Eox) /\ b # Sysex
        /\ UNCHANGED <<short_message_count, running_status>>
        /\ device_sysex' => device_sysex
        /\ (b = Eox /\ ~device_sysex) => stray_eox'
    <3>1. /\ ~sysex_in_progress /\ (~IsStatus(b) \/ b = Eox) /\ b # Sysex
          /\ UNCHANGED <<short_message_count, running_status>>
      BY <1>11 DEF ShortByte, Sysex, Eox, IsStatus
    <3> QED
      BY <1>1, <1>5, <3>1
  <2>2. CASE message = <<>> /\ running_status = 0
    <3>1. NoEnqueue /\ UNCHANGED <<sysex_in_progress, message>>
      BY <1>11, <2>2 DEF ShortByte
    <3> QED
      BY <1>2, <1>4, <2>1, <2>2, <3>1 DEF ByteStep, Nothing, Passed, NoEnqueue
  <2>3. CASE ~(message = <<>> /\ running_status = 0)
    <3> DEFINE bytes == Append(IF message = <<>> THEN <<running_status>> ELSE message, b)
    <3>1. /\ message' = bytes
          /\ IF Complete(bytes) /\ Passes(bytes[1])
               THEN \E accepted \in BOOLEAN :
                      Enqueue(bytes, accepted) /\ sysex_in_progress' = FALSE
               ELSE NoEnqueue /\ UNCHANGED sysex_in_progress
      BY <1>11, <2>3 DEF ShortByte
    <3>3. /\ ~sysex_in_progress'
          /\ \/ log' = log
             \/ Len(bytes) = short_message_count /\ log' \in {Append(log, Gap), Append(log, bytes)}
      <4> HIDE DEF bytes
      <4> QED
        BY <2>1, <3>1 DEF Enqueue, NoEnqueue, Complete
    <3>4. Shortened(b)
      BY <1>1, <2>1, <2>3, <3>1, <3>3 DEF Shortened
    <3> QED
      BY <1>2, <1>4, <3>4 DEF ByteStep
  <2> QED
    BY <2>2, <2>3
<1> QED
  BY <1>1, <1>7, <1>8, <1>9, <1>10, <1>11 DEF pm_read_bytes

\* A whole message from a parsed backend: it is delivered, joins the sysex message, or ends it.
LEMMA ShortMessageFacts ==
  ASSUME Types, NEW status \in Statuses \ {Sysex, Eox}
  PROVE  /\ Alone(ShortMessage(status)) /\ ShortMessage(status) \in Seq(Bytes)
         /\ ShortMessage(status)[1] = status
         /\ IsRealTime(status) => ShortMessage(status) = <<status>>
<1> DEFINE n == pm_midi_length(status)
           e == ShortMessage(status)
<1>1. /\ data \in 0..127 /\ n \in 1..3 /\ status \in Bytes /\ IsStatus(status)
      /\ IsRealTime(status) => n = 1
  BY ByteFacts DEF Types, pm_midi_length, IsRealTime, Note, Program
<1>2. e = [i \in 1..n |-> IF i = 1 THEN status ELSE (data + i - 1) % 128]
  BY DEF ShortMessage
<1>3. \A i \in 1..n : i # 1 => e[i] \in 0..127 /\ e[i] = (data + i - 1) % 128
  BY <1>1, <1>2
<1>4. e[1] = status /\ \A i \in 1..n : e[i] \in Bytes
  BY <1>1, <1>2, <1>3 DEF Bytes
<1> HIDE DEF e, n
<1>5. e \in Seq(Bytes) /\ Len(e) = n /\ e # <<>>
  <2>1. e \in [1..n -> Bytes]
    BY <1>2, <1>4
  <2> QED
    BY <2>1, <1>1
<1>6. Consecutive(e)
  <2> SUFFICES ASSUME NEW i \in 1..n, NEW k \in 1..n, i < k, ~IsStatus(e[i]),
                      \A j \in i + 1..k - 1 : IsStatus(e[j])
               PROVE  e[k] = After(e[i])
    BY <1>5 DEF Consecutive
  <2>1. i # 1 /\ k # 1
    BY <1>1, <1>4
  <2>2. i = 2 /\ k = 3
    BY <1>1, <2>1
  <2>3. e[i] = (data + 1) % 128 /\ e[k] = (data + 2) % 128
    BY <1>3, <2>2, <1>1
  <2>4. (data + 2) % 128 = (((data + 1) % 128) + 1) % 128
    BY <1>1
  <2> QED
    BY <2>3, <2>4 DEF After
<1>7. Alone(e)
  <2>1. e[1] # Eox /\ \A k \in 2..n : ~IsStatus(e[k])
    BY <1>1, <1>3, <1>4 DEF IsStatus
  <2> QED
    BY <1>1, <1>4, <1>5, <1>6, <2>1 DEF Alone, n
<1>8. IsRealTime(status) => e = <<status>>
  BY <1>1, <1>4, <1>5
<1> QED
  BY <1>4, <1>5, <1>7, <1>8 DEF e, n

LEMMA ReadShortStep ==
  ASSUME Types, ReceiveShort
  PROVE  Fixed /\ \E b : Byte(b) /\ (Nothing \/ Enqueued \/ Interrupted \/ Joined(b) \/ Grouped(b))
<1>1. PICK b \in Statuses \ {Sysex, Eox} :
         pm_read_short(ShortMessage(b)) /\ Track(b)
  BY DEF ReceiveShort
<1> DEFINE e == ShortMessage(b)
<1>2. Alone(e) /\ e[1] = b
  BY ShortMessageFacts
<1>3. /\ Byte(b) /\ b \in Bytes /\ b # Eox /\ b # Sysex /\ IsStatus(b)
      /\ IsRealTime(b) => e = <<b>>
  BY <1>1, ByteFacts, ShortMessageFacts DEF Byte
<1>4. /\ Fixed /\ backend = "parsed" /\ backend' = backend
      /\ UNCHANGED <<short_message_count, running_status, data, device_sysex>>
      /\ source' = source /\ NextData(b)
  BY <1>1, <1>3 DEF ReceiveShort, Fixed, Track, NextData
<1>5. Taken(b) \/ ~IsRealTime(b)
  BY <1>4 DEF Taken
<1>6. sysex_in_progress \in BOOLEAN /\ message \in Seq(Bytes) /\ Len(message) \in Nat
      /\ (sysex_in_progress => Len(message) <= 3)
  BY DEF Types, TypeOK
<1> HIDE DEF e
<1>7. CASE ~Passes(b) /\ NoEnqueue /\ UNCHANGED <<sysex_in_progress, message>>
  BY <1>3, <1>4, <1>7 DEF Nothing, Passed, NoEnqueue
<1>8. CASE /\ Passes(b) /\ sysex_in_progress /\ IsRealTime(b)
           /\ IF GroupFull(Add(b))
                THEN \E accepted \in BOOLEAN : FlushSysex(Add(b), accepted, TRUE)
                ELSE message' = Add(b) /\ NoEnqueue /\ UNCHANGED sysex_in_progress
  <2>1. Taken(b)
    BY <1>5, <1>8
  <2>2. CASE GroupFull(Add(b))
    <3>1. PICK accepted \in BOOLEAN : FlushSysex(Add(b), accepted, TRUE)
      BY <1>8, <2>2
    <3>2. /\ log' = Append(log, IF accepted THEN Append(message, b) ELSE Gap)
          /\ PickUp(IF accepted THEN Append(message, b) ELSE Gap)
          /\ sysex_in_progress' = (accepted /\ b # Eox) /\ message' = <<>>
      BY <1>3, <3>1 DEF FlushSysex, Enqueue, InProgress, Add
    <3>3. Len(message) = 3
      BY <1>3, <1>6, <2>2, GroupNeedsThree
    <3>5. "SYSEX" \in filters => Len(log) + 1 \in leaked'
      BY <1>1, <1>8, <3>2, LogGrows DEF Track
    <3>4. Grouped(b)
      BY <1>3, <1>4, <1>8, <2>1, <3>2, <3>3, <3>5 DEF Grouped
    <3> QED
      BY <1>3, <1>4, <3>4
  <2>3. CASE ~GroupFull(Add(b))
    <3>1. message' = Append(message, b) /\ NoEnqueue /\ UNCHANGED sysex_in_progress
      BY <1>8, <2>3 DEF Add
    <3>2. Len(message) < 3
      <4>1. Len(Append(message, b)) = Len(message) + 1 /\ Len(Append(message, b)) # 4
        BY <1>3, <1>6, <2>3 DEF GroupFull, Add
      <4>2. \A n \in Nat : n <= 3 /\ n + 1 # 4 => n < 3
        OBVIOUS
      <4> QED
        BY <1>6, <1>8, <4>1, <4>2
    <3>3. Joined(b)
      BY <1>3, <1>4, <1>8, <2>1, <3>1, <3>2 DEF Joined, NoEnqueue
    <3> QED
      BY <1>3, <1>4, <3>3
  <2> QED
    BY <2>2, <2>3
<1>9. CASE /\ Passes(b) /\ ~IsRealTime(b) /\ sysex_in_progress
           /\ sysex_in_progress' = FALSE /\ NoEnqueue /\ UNCHANGED message
  BY <1>3, <1>4, <1>9 DEF Interrupted, NoEnqueue
<1>10. CASE /\ ~sysex_in_progress /\ UNCHANGED message
            /\ \E accepted \in BOOLEAN :
                  /\ Enqueue(e, accepted)
                  /\ sysex_in_progress' = InProgress(accepted, sysex_in_progress)
  <2>1. ~sysex_in_progress' /\ \E f : Alone(f) /\ log' = Append(log, f)
    BY <1>2, <1>10, AloneFacts DEF Enqueue, InProgress
  <2> QED
    BY <1>3, <1>4, <1>10, <2>1 DEF Enqueued, Passed
<1> QED
  BY <1>1, <1>2, <1>3, <1>7, <1>8, <1>9, <1>10 DEF pm_read_short, e

-----------------------------------------------------------------------------
(* The invariant.                                                          *)

Accumulator == Types /\ InSysex /\ InShort

LEMMA InitAccumulator == Init => Accumulator /\ Open
<1> SUFFICES ASSUME Init PROVE Accumulator /\ Open
  OBVIOUS
<1>1. /\ message = <<>> /\ log = <<>> /\ source = <<>> /\ picked = <<>> /\ ~sysex_in_progress
      /\ sysex_in_progress \in BOOLEAN /\ data = 0 /\ device_sysex = FALSE
      /\ stray_eox = FALSE
  BY DEF Init
<1>2. TypeOK
  <2>1. /\ filters = {"ACTIVE"} /\ short_message_count \in InitialCount
        /\ running_status \in InitialStatus /\ received = 0 /\ overflows = 0 /\ changes = 0
    BY DEF Init
  <2>2. /\ received \in 0..MaxInput /\ overflows \in 0..MaxOverflows
        /\ changes \in 0..MaxSetFilter
    BY <2>1, InputAssumption
  <2>3. message \in Seq(Bytes) /\ log \in Seq(Seq(Bytes))
    BY <1>1
  <2> QED
    BY <1>1, <2>1, <2>2, <2>3 DEF TypeOK
<1>3. Types
  <2>1. source \in Seq(Bytes) /\ picked \in Seq(Bytes) /\ data \in 0..127
    BY <1>1
  <2> QED
    BY <1>1, <1>2, <2>1 DEF Types, Init
<1> QED
  BY <1>1, <1>3 DEF Accumulator, InSysex, InShort, Open

\* What the parser does keeps the types of its own variables.
LEMMA ParserTypes ==
  ASSUME Types, Fixed, NEW b, Byte(b), ByteStep(b) \/ Interrupted
  PROVE  /\ message' \in Seq(Bytes) /\ log' \in Seq(Seq(Bytes))
         /\ sysex_in_progress' \in BOOLEAN
         /\ sysex_in_progress' => Len(message') <= 3
<1>1. /\ message \in Seq(Bytes) /\ log \in Seq(Seq(Bytes)) /\ Len(message) \in Nat
      /\ sysex_in_progress \in BOOLEAN /\ (sysex_in_progress => Len(message) <= 3)
      /\ running_status \in Bytes /\ b \in Bytes /\ <<>> \in Seq(Bytes)
  BY InputAssumption DEF Types, TypeOK, Byte
<1>2. \A e : Alone(e) => e \in Seq(Bytes)
  BY <1>1 DEF Alone, Gap
<1>3. CASE Nothing
  BY <1>1, <1>3 DEF Nothing, Passed
<1>4. CASE Interrupted
  BY <1>1, <1>4 DEF Interrupted
<1>5. CASE Enqueued
  <2>1. message' = message /\ sysex_in_progress' = FALSE
    BY <1>5 DEF Enqueued, Passed
  <2>2. log' \in Seq(Seq(Bytes))
    BY <1>1, <1>2, <1>5 DEF Enqueued
  <2> QED
    BY <1>1, <2>1, <2>2
<1>6. CASE Started
  <2>1. <<Sysex>> \in Seq(Bytes) /\ Len(<<Sysex>>) = 1
    BY DEF Sysex, Bytes
  <2> QED
    BY <1>1, <1>6, <2>1 DEF Started
<1>7. CASE Begun
  <2>1. \A c \in {Note, Program} : <<c>> \in Seq(Bytes)
    BY DEF Note, Program, Bytes
  <2> QED
    BY <1>1, <1>7, <2>1 DEF Begun
<1>8. CASE OneByteMessage
  <2>1. message' = <<>> /\ sysex_in_progress' = FALSE
    BY <1>8 DEF OneByteMessage
  <2>2. CASE log' = log
    BY <1>1, <2>1, <2>2
  <2>3. CASE \E e : Alone(e) /\ log' = Append(log, e)
    <3>1. PICK e : Alone(e) /\ log' = Append(log, e)
      BY <2>3
    <3>2. log' \in Seq(Seq(Bytes))
      BY <1>1, <1>2, <3>1
    <3> QED
      BY <2>1, <3>2, <1>1
  <2> QED
    BY <1>8, <2>2, <2>3 DEF OneByteMessage
<1>9. CASE Joined(b)
  <2>1. Len(Append(message, b)) = Len(message) + 1 /\ Append(message, b) \in Seq(Bytes)
    BY <1>1
  <2>2. \A n \in Nat : n < 3 => n + 1 <= 3
    OBVIOUS
  <2>3. Len(Append(message, b)) <= 3
    BY <1>1, <1>9, <2>1, <2>2 DEF Joined
  <2> QED
    BY <1>1, <1>9, <2>1, <2>3 DEF Joined
<1>10. CASE Grouped(b)
  <2>1. \A a \in BOOLEAN : Append(log, IF a THEN Append(message, b) ELSE Gap) \in Seq(Seq(Bytes))
    BY <1>1 DEF Gap
  <2>2. Len(<<>>) <= 3
    OBVIOUS
  <2> QED
    BY <1>1, <1>10, <2>1, <2>2 DEF Grouped
<1>11. CASE Discarded(b)
  <2>1. Len(<<>>) <= 3
    OBVIOUS
  <2> QED
    BY <1>1, <1>11, <2>1 DEF Discarded
<1>12. CASE Shortened(b)
  <2> DEFINE bytes == Append(IF message = <<>> THEN <<running_status>> ELSE message, b)
  <2>1. bytes \in Seq(Bytes) /\ Append(log, bytes) \in Seq(Seq(Bytes))
        /\ Append(log, Gap) \in Seq(Seq(Bytes))
    BY <1>1 DEF Gap
  <2>2. /\ message' = bytes /\ log' \in {log, Append(log, Gap), Append(log, bytes)}
        /\ sysex_in_progress' = FALSE
    BY <1>12 DEF Shortened
  <2> HIDE DEF bytes
  <2> QED
    BY <1>1, <2>1, <2>2
<1> QED
  BY <1>3, <1>4, <1>5, <1>6, <1>7, <1>8, <1>9, <1>10, <1>11, <1>12 DEF ByteStep

\* One call of the handlers, or one turn of their loop.
Step(b) == Fixed /\ Byte(b) /\ (ByteStep(b) \/ Interrupted)

LEMMA ReceiveStep ==
  ASSUME Types, ReceiveByte \/ ReceiveShort
  PROVE  \E b : Step(b)
BY ReadBytesStep, ReadShortStep DEF Step, ByteStep

LEMMA PickUpType ==
  ASSUME picked \in Seq(Bytes), NEW e \in Seq(Bytes), PickUp(e)
  PROVE  picked' \in Seq(Bytes)
<1>1. DataOf(e) \in Seq(Bytes) /\ picked \o DataOf(e) \in Seq(Bytes) /\ <<>> \in Seq(Bytes)
  <2>1. DataOf(e) \in Seq(Bytes)
    BY DataOfFacts
  <2> QED
    BY <2>1
<1> QED
  BY <1>1 DEF PickUp

LEMMA TypesKept ==
  ASSUME Types, [Next]_vars
  PROVE  Types'
<1>1. /\ overflows \in 0..MaxOverflows /\ received \in 0..MaxInput /\ changes \in 0..MaxSetFilter
      /\ filters \in {{"ACTIVE"}} \union FilterChoices /\ running_status \in InitialStatus
      /\ short_message_count \in InitialCount \union 1..3 /\ source \in Seq(Bytes)
      /\ data \in 0..127 /\ device_sysex \in BOOLEAN /\ backend \in Backends
      /\ picked \in Seq(Bytes) /\ stray_eox \in BOOLEAN
      /\ message \in Seq(Bytes) /\ running_status \in Bytes
      /\ MaxInput \in Nat /\ MaxOverflows \in Nat /\ MaxSetFilter \in Nat
  BY InputAssumption DEF Types, TypeOK
<1> DEFINE Queue == overflows' \in 0..MaxOverflows /\ picked' \in Seq(Bytes)
<1>2. \A e \in Seq(Bytes), a \in BOOLEAN : Enqueue(e, a) => Queue
  <2> TAKE e \in Seq(Bytes), a \in BOOLEAN
  <2> SUFFICES ASSUME Enqueue(e, a) PROVE Queue
    OBVIOUS
  <2>1. overflows' \in 0..MaxOverflows
    BY <1>1 DEF Enqueue
  <2>2. (IF a THEN e ELSE Gap) \in Seq(Bytes)
    BY DEF Gap
  <2>3. picked' \in Seq(Bytes)
    BY <1>1, <2>2, PickUpType DEF Enqueue
  <2> QED
    BY <2>1, <2>3
<1>7. NoEnqueue => Queue
  BY <1>1 DEF NoEnqueue
<1>8. \A b \in Bytes : Add(b) \in Seq(Bytes)
  BY <1>1 DEF Add
<1> HIDE DEF Queue
<1>3. \A e \in Seq(Bytes) : e[1] \in Bytes /\ pm_read_short(e) => Queue
  BY <1>2, <1>7, <1>8 DEF pm_read_short, FlushSysex
<1>4. ASSUME ReceiveByte \/ ReceiveShort PROVE Types'
  <2>1. PICK b : Step(b)
    BY <1>4, ReceiveStep
  <2>2. /\ message' \in Seq(Bytes) /\ log' \in Seq(Seq(Bytes)) /\ sysex_in_progress' \in BOOLEAN
        /\ sysex_in_progress' => Len(message') <= 3
    BY <2>1, ParserTypes DEF Step
  <2>3. /\ filters' = filters /\ running_status' = running_status /\ backend' = backend
    BY <2>1 DEF Step, Fixed
  <2>4. received' \in 0..MaxInput /\ changes' \in 0..MaxSetFilter
    <3>1. received < MaxInput /\ received' = received + 1 /\ changes' = changes
      BY <1>4 DEF ReceiveByte, ReceiveShort
    <3> QED
      BY <1>1, <3>1
  <2>5. CASE ReceiveByte
    <3>1. PICK c \in BytesToRead :
             /\ data' = (IF IsStatus(c) THEN data ELSE c)
             /\ device_sysex' \in BOOLEAN /\ stray_eox' \in BOOLEAN
             /\ pm_read_bytes(c) /\ Track(c)
      BY <2>5 DEF ReceiveByte
    <3>2. c \in Bytes /\ (~IsStatus(c) => c \in 0..127) /\ (IsStatus(c) => c \in Statuses)
      BY ByteIn DEF Byte, IsStatus, Bytes
    <3>3. device_sysex' \in BOOLEAN /\ data' \in 0..127 /\ source' \in Seq(Bytes)
      <4>1. <<Sysex>> \in Seq(Bytes) /\ Append(source, c) \in Seq(Bytes)
        BY <1>1, <3>2 DEF Sysex, Bytes
      <4> QED
        BY <1>1, <3>1, <3>2, <4>1 DEF Track
    <3>4. Queue
      <4>5. <<c>> \in Seq(Bytes) /\ <<c>>[1] \in Bytes
        BY <3>2
      <4>1. CASE RealTimeByte(c)
        BY <1>3, <4>1, <4>5 DEF RealTimeByte
      <4>2. CASE SysexStart(c) \/ ShortStatus(c)
        BY <1>2, <1>7, <4>2, <4>5 DEF SysexStart, ShortStatus
      <4>3. CASE SysexByte(c)
        BY <1>2, <1>7, <1>8, <3>2, <4>3 DEF SysexByte, FlushSysex
      <4>4. CASE ShortByte(c)
        <5> DEFINE bytes == Append(IF message = <<>> THEN <<running_status>> ELSE message, c)
        <5>1. bytes \in Seq(Bytes)
          BY <1>1, <3>2
        <5>2. NoEnqueue \/ \E accepted \in BOOLEAN : Enqueue(bytes, accepted)
          BY <4>4 DEF ShortByte
        <5> HIDE DEF bytes
        <5> QED
          BY <1>2, <1>7, <5>1, <5>2
      <4> QED
        BY <3>1, <4>1, <4>2, <4>3, <4>4 DEF pm_read_bytes
    <3>5. short_message_count' \in InitialCount \union 1..3
      <4>1. CASE ShortStatus(c)
        BY <3>2, <4>1, ByteFacts DEF ShortStatus
      <4>2. CASE ~ShortStatus(c)
        BY <1>1, <3>1, <4>2 DEF pm_read_bytes, RealTimeByte, SysexStart, SysexByte, ShortByte
      <4> QED
        BY <4>1, <4>2
    <3> QED
      BY <1>1, <2>2, <2>3, <2>4, <3>1, <3>3, <3>4, <3>5 DEF Types, TypeOK, Queue
  <2>6. CASE ReceiveShort
    <3>1. PICK c \in Statuses \ {Sysex, Eox} :
             /\ pm_read_short(ShortMessage(c)) /\ Track(c)
             /\ UNCHANGED <<short_message_count, data, device_sysex, stray_eox>>
      BY <2>6 DEF ReceiveShort
    <3>2. device_sysex' \in BOOLEAN /\ data' \in 0..127 /\ source' \in Seq(Bytes)
      <4>1. <<Sysex>> \in Seq(Bytes) /\ Append(source, c) \in Seq(Bytes)
        BY <1>1, ByteFacts DEF Sysex, Bytes
      <4> QED
        BY <1>1, <3>1, <4>1 DEF Track
    <3>3. Queue
      <4>1. ShortMessage(c) \in Seq(Bytes) /\ ShortMessage(c)[1] \in Bytes
        BY ShortMessageFacts, ByteFacts
      <4> QED
        BY <1>3, <3>1, <4>1
    <3> QED
      BY <1>1, <2>2, <2>3, <2>4, <3>1, <3>2, <3>3 DEF Types, TypeOK, Queue
  <2> QED
    BY <1>4, <2>5, <2>6
<1>5. CASE Pm_SetFilter
  <2>1. filters' \in {{"ACTIVE"}} \union FilterChoices /\ changes' \in 0..MaxSetFilter
    BY <1>1, <1>5 DEF Pm_SetFilter
  <2> QED
    BY <1>5, <2>1 DEF Pm_SetFilter, Types, TypeOK
<1>6. CASE UNCHANGED vars
  BY <1>6 DEF vars, parser, history, Types, TypeOK
<1> QED
  BY <1>4, <1>5, <1>6 DEF Next

LEMMA InSysexKept ==
  ASSUME Types, InSysex, NEW b, Step(b)
  PROVE  InSysex'
<1>1. /\ message \in Seq(Bytes) /\ b \in Bytes /\ data \in 0..127
      /\ IsStatus(b) \/ b = After(data)
  BY DEF Types, TypeOK, Step, Byte
<1>2. CASE Nothing
  BY <1>2 DEF Nothing, Passed, InSysex
<1>3. CASE Enqueued \/ Interrupted \/ Begun \/ OneByteMessage \/ Shortened(b)
  BY <1>3 DEF Enqueued, Interrupted, Begun, OneByteMessage, Shortened, InSysex
<1>4. CASE Started
  BY <1>4 DEF Started, InSysex, Sysex, Eox
<1>5. CASE Joined(b)
  <2> DEFINE t == Append(message, b)
  <2>1. /\ Len(t) = Len(message) + 1 /\ Len(message) \in Nat /\ t # <<>>
        /\ \A i \in 1..Len(message) : t[i] = message[i]
        /\ t[Len(message) + 1] = b
    BY <1>1
  <2>2. b # Eox /\ message' = t /\ sysex_in_progress
    BY <1>5 DEF Joined
  <2>3. \A i \in 1..Len(message) : message[i] # Eox
    BY <2>2 DEF InSysex
  <2> HIDE DEF t
  <2>4. \A i \in 1..Len(t) : t[i] # Eox
    BY <2>1, <2>2, <2>3
  <2>5. t[1] = Sysex \/ ~IsStatus(t[1]) \/ IsRealTime(t[1])
    <3>1. CASE message = <<>>
      <4>1. t[1] = b
        BY <2>1, <3>1
      <4>2. b = Sysex \/ ~IsStatus(b) \/ IsRealTime(b)
        BY <1>1, <1>5, ByteFacts DEF Joined
      <4> QED
        BY <4>1, <4>2
    <3>2. CASE message # <<>>
      <4>1. t[1] = message[1]
        BY <1>1, <2>1, <3>2
      <4> QED
        BY <2>2, <3>2, <4>1 DEF InSysex
    <3> QED
      BY <3>1, <3>2
  <2> QED
    BY <2>2, <2>4, <2>5 DEF InSysex
<1>6. CASE Grouped(b) \/ Discarded(b)
  <2>1. message' = <<>>
    BY <1>6 DEF Grouped, Discarded
  <2> QED
    BY <2>1 DEF InSysex
<1> QED
  BY <1>2, <1>3, <1>4, <1>5, <1>6 DEF Step, ByteStep

\* A byte that joins a short message goes on where the message ends, unless that is complete.
LEMMA ShortenedFacts ==
  ASSUME Types, InShort, NEW b, Step(b), Shortened(b)
  PROVE  LET bytes == Append(IF message = <<>> THEN <<running_status>> ELSE message, b) IN
         /\ bytes \in Seq(Bytes) /\ bytes # <<>> /\ Len(bytes) >= 2
         /\ LuckyStatus /\ backend = "raw" => IsChannel(bytes[1])
         /\ running_status = 0 /\ backend = "parsed" => ~IsChannel(bytes[1])
         /\ running_status = 0 /\ backend = "raw" =>
               /\ bytes[1] \in {Note, Program} /\ ~device_sysex'
               /\ short_message_count = pm_midi_length(bytes[1])
               /\ Len(bytes) <= short_message_count =>
                     Consecutive(bytes) /\ EndsWith(bytes, data') /\ DataFollows(bytes, stray_eox')
<1> DEFINE kept  == IF message = <<>> THEN <<running_status>> ELSE message
           bytes == Append(kept, b)
<1>1. /\ message \in Seq(Bytes) /\ b \in Bytes /\ data \in 0..127 /\ Len(message) \in Nat
      /\ IsStatus(b) \/ b = After(data)
      /\ backend \in {"raw", "parsed"} /\ running_status \in Bytes
  BY InputAssumption DEF Types, TypeOK, Step, Byte
<1>2. kept \in Seq(Bytes) /\ kept # <<>> /\ Len(kept) >= 1
  BY <1>1
<1>3. /\ bytes \in Seq(Bytes) /\ Len(bytes) = Len(kept) + 1 /\ bytes # <<>>
      /\ bytes[1] = kept[1] /\ bytes[Len(kept) + 1] = b
      /\ \A i \in 1..Len(kept) : bytes[i] = kept[i]
  <2> HIDE DEF kept
  <2> QED
    BY <1>1, <1>2, AppendFacts
<1>4. /\ ~sysex_in_progress
      /\ message # <<>> \/ running_status # 0
      /\ data' = IF IsStatus(b) THEN data ELSE b
      /\ IsStatus(b) => b = Eox
      /\ (b = Eox /\ ~device_sysex) => stray_eox'
      /\ device_sysex' => device_sysex
      /\ stray_eox => stray_eox'
  BY DEF Shortened, NextData, Step, Fixed
<1>5. LuckyStatus /\ backend = "raw" => IsChannel(bytes[1])
  <2>1. CASE message = <<>>
    BY <1>3, <1>4, <2>1 DEF LuckyStatus
  <2>2. CASE message # <<>>
    BY <1>3, <1>4, <2>2 DEF InShort
  <2> QED
    BY <2>1, <2>2
<1>6. ASSUME running_status = 0 PROVE kept = message /\ message # <<>>
  BY <1>1, <1>4, <1>6 DEF InShort
<1>8. running_status = 0 /\ backend = "parsed" => ~IsChannel(bytes[1])
  BY <1>3, <1>4, <1>6 DEF InShort
<1>9. Len(bytes) >= 2
  <2> HIDE DEF kept, bytes
  <2>1. Len(kept) \in Nat
    BY <1>2
  <2> QED
    BY <1>2, <1>3, <2>1
<1> HIDE DEF kept, bytes
<1>7. ASSUME running_status = 0, backend = "raw"
      PROVE  /\ bytes[1] \in {Note, Program} /\ ~device_sysex'
             /\ short_message_count = pm_midi_length(bytes[1])
             /\ Len(bytes) <= short_message_count =>
                   Consecutive(bytes) /\ EndsWith(bytes, data') /\ DataFollows(bytes, stray_eox')
  <2>1. /\ message[1] \in {Note, Program} /\ ~device_sysex
        /\ short_message_count = pm_midi_length(message[1])
        /\ Len(message) < short_message_count =>
              Consecutive(message) /\ EndsWith(message, data) /\ DataFollows(message, stray_eox)
    BY <1>4, <1>6, <1>7 DEF InShort
  <2>2. short_message_count \in Nat
    BY <2>1 DEF pm_midi_length
  <2>3. ASSUME Len(bytes) <= short_message_count
        PROVE  Consecutive(bytes) /\ EndsWith(bytes, data') /\ DataFollows(bytes, stray_eox')
    <3>1. Len(message) < short_message_count
      BY <1>1, <1>3, <1>6, <1>7, <2>2, <2>3
    <3>2. bytes = Append(message, b)
      BY <1>6, <1>7 DEF bytes
    <3>3. Consecutive(bytes) /\ EndsWith(bytes, data')
      BY <1>1, <1>4, <2>1, <3>1, <3>2, NextByteAlone
    <3>4. DataFollows(bytes, stray_eox')
      <4>1. kept = message
        BY <1>6, <1>7
      <4>2. \A k \in 2..Len(message) : ~IsStatus(bytes[k]) \/ (bytes[k] = Eox /\ stray_eox')
        BY <1>1, <1>3, <1>4, <2>1, <3>1, <4>1 DEF DataFollows
      <4>3. ~IsStatus(b) \/ (b = Eox /\ stray_eox')
        BY <1>4, <2>1
      <4>4. \A k \in 2..Len(bytes) : ~IsStatus(bytes[k]) \/ (bytes[k] = Eox /\ stray_eox')
        BY <1>1, <1>3, <4>1, <4>2, <4>3
      <4> QED
        BY <4>4 DEF DataFollows
    <3> QED
      BY <3>3, <3>4
  <2> QED
    BY <1>3, <1>4, <1>6, <1>7, <2>1, <2>3
<1> QED
  BY <1>3, <1>5, <1>7, <1>8, <1>9 DEF bytes, kept

LEMMA InShortKept ==
  ASSUME Types, InSysex, InShort, NEW b, Step(b)
  PROVE  InShort'
<1>1. /\ message \in Seq(Bytes) /\ b \in Bytes /\ data \in 0..127 /\ Len(message) \in Nat
      /\ backend \in {"raw", "parsed"} /\ running_status \in Bytes
  BY InputAssumption DEF Types, TypeOK, Step, Byte
<1>2. /\ UNCHANGED <<running_status, backend>> /\ LuckyStatus' = LuckyStatus
      /\ stray_eox => stray_eox'
  BY DEF Step, Fixed, LuckyStatus
<1>3. CASE message' = <<>> \/ sysex_in_progress'
  BY <1>3 DEF InShort
<1>4. CASE (Nothing \/ Enqueued) /\ ~sysex_in_progress /\ message # <<>>
  <2>1. /\ message' = message /\ short_message_count' = short_message_count /\ data' = data
        /\ device_sysex' => device_sysex
    BY <1>4 DEF Nothing, Enqueued, Passed
  <2>2. DataFollows(message, stray_eox) => DataFollows(message', stray_eox')
    BY <1>2, <2>1 DEF DataFollows
  <2> QED
    BY <1>2, <1>4, <2>1, <2>2 DEF InShort
<1>5. CASE Interrupted /\ message # <<>>
  <2>1. /\ message' = message /\ backend' = "parsed" /\ sysex_in_progress
    BY <1>2, <1>5 DEF Interrupted
  <2>2. message[1] = Sysex \/ ~IsStatus(message[1]) \/ IsRealTime(message[1])
    BY <1>5, <2>1 DEF InSysex
  <2>3. ~IsChannel(message[1])
    BY <1>1, <1>5, <2>2, ByteKinds
  <2> QED
    BY <2>1, <2>3 DEF InShort
<1>6. CASE Begun
  <2>1. PICK c \in {Note, Program} :
           message' = <<c>> /\ short_message_count' = pm_midi_length(c)
    BY <1>6 DEF Begun
  <2>2. c \in Bytes /\ IsChannel(c) /\ IsStatus(c)
    BY DEF Note, Program, IsChannel, IsStatus, Bytes
  <2>3. message'[1] = c /\ backend' = "raw" /\ ~device_sysex'
    BY <1>2, <1>6, <2>1 DEF Begun
  <2>4. Consecutive(message)' /\ EndsWith(message, data)' /\ DataFollows(message', stray_eox')
    <3>1. Consecutive(message') /\ EndsWith(message', data')
      BY <2>1, <2>2, OneByte
    <3>2. 2..Len(message') = {}
      BY <2>1
    <3> QED
      BY <3>1, <3>2 DEF Consecutive, EndsWith, DataFollows
  <2> QED
    BY <2>1, <2>2, <2>3, <2>4 DEF InShort
<1>7. CASE Shortened(b)
  <2> DEFINE bytes == Append(IF message = <<>> THEN <<running_status>> ELSE message, b)
  <2>1. message' = bytes /\ short_message_count' = short_message_count
    BY <1>7 DEF Shortened
  <2>2. /\ bytes \in Seq(Bytes)
        /\ LuckyStatus /\ backend = "raw" => IsChannel(bytes[1])
        /\ running_status = 0 /\ backend = "parsed" => ~IsChannel(bytes[1])
        /\ running_status = 0 /\ backend = "raw" =>
              /\ bytes[1] \in {Note, Program} /\ ~device_sysex'
              /\ short_message_count = pm_midi_length(bytes[1])
              /\ Len(bytes) <= short_message_count =>
                    /\ Consecutive(bytes) /\ EndsWith(bytes, data')
                    /\ DataFollows(bytes, stray_eox')
    BY <1>7, ShortenedFacts
  <2>3. /\ short_message_count = pm_midi_length(bytes[1]) => short_message_count \in Nat
        /\ Len(bytes) \in Nat
    BY <2>2 DEF pm_midi_length
  <2> HIDE DEF bytes
  <2>4. running_status = 0 /\ backend = "raw" =>
              /\ bytes[1] \in {Note, Program} /\ ~device_sysex'
              /\ short_message_count' = pm_midi_length(bytes[1])
              /\ Len(bytes) < short_message_count' =>
                    /\ Consecutive(bytes) /\ EndsWith(bytes, data')
                    /\ DataFollows(bytes, stray_eox')
    BY <2>1, <2>2, <2>3
  <2> QED
    BY <1>2, <2>1, <2>2, <2>4 DEF InShort, Consecutive, EndsWith
<1>8. CASE ~(message' = <<>> \/ sysex_in_progress')
  <2>1. (message = <<>> \/ sysex_in_progress) => ~Nothing /\ ~Enqueued
    BY <1>8 DEF Nothing, Enqueued, Passed
  <2>2. message = <<>> => ~Interrupted
    BY <1>8 DEF Interrupted
  <2>3. ~Started /\ ~OneByteMessage /\ ~Joined(b) /\ ~Grouped(b) /\ ~Discarded(b)
    BY <1>8 DEF Started, OneByteMessage, Joined, Grouped, Discarded
  <2> QED
    BY <1>4, <1>5, <1>6, <1>7, <1>8, <2>1, <2>2, <2>3 DEF Step, ByteStep
<1> QED
  BY <1>3, <1>8

\* What the parser puts together continues the last event, or starts with the first byte of the
\* sysex message.
LEMMA OpenKept ==
  ASSUME Types, InSysex, Open, NEW b, Step(b)
  PROVE  Open'
<1>1. /\ message \in Seq(Bytes) /\ b \in Bytes /\ data \in 0..127 /\ Len(message) \in Nat
      /\ IsStatus(b) \/ b = After(data)
      /\ log \in Seq(Seq(Bytes)) /\ filters' = filters
  BY DEF Types, TypeOK, Step, Fixed, Byte
<1> DEFINE last == log[Len(log)]
           t    == Append(message, b)
           d    == IF IsStatus(b) THEN data ELSE b
<1>2. /\ log # <<>> => last \in Seq(Bytes)
      /\ t \in Seq(Bytes) /\ Len(t) = Len(message) + 1 /\ t # <<>>
      /\ message # <<>> => t[1] = message[1]
      /\ t[Len(message) + 1] = b
  <2>1. log # <<>> => last \in Seq(Bytes)
    BY <1>1
  <2>2. /\ t \in Seq(Bytes) /\ Len(t) = Len(message) + 1 /\ t # <<>>
        /\ t[Len(message) + 1] = b
    BY <1>1, AppendFacts
  <2>3. message # <<>> => t[1] = message[1]
    BY <1>1
  <2> QED
    BY <2>1, <2>2, <2>3
<1>3. CASE ~sysex_in_progress' \/ "SYSEX" \in filters
  BY <1>1, <1>3 DEF Open
<1>4. CASE Nothing /\ sysex_in_progress /\ "SYSEX" \notin filters
  <2>1. /\ message' = message /\ log' = log
        /\ data' = data
    BY <1>4 DEF Nothing, Passed
  <2>2. Continued(message, log, data)
    BY <1>4 DEF Open
  <2> QED
    BY <2>1, <2>2 DEF Open
<1>5. CASE Started
  <2>1. /\ Consecutive(<<Sysex>>) /\ EndsWith(<<Sysex>>, data')
        /\ <<Sysex>> # <<>> /\ <<Sysex>>[1] = Sysex
    BY OneByte DEF Sysex, Bytes, IsStatus
  <2>2. Continued(<<Sysex>>, log', data')
    BY <2>1 DEF Continued
  <2> QED
    BY <1>5, <2>2 DEF Started, Open
<1>6. ASSUME Continued(message, log, data)
      PROVE  Continued(t, log, d)
  <2>1. Consecutive(message) /\ EndsWith(message, data)
    BY <1>6 DEF Continued
  <2>2. Consecutive(t) /\ EndsWith(t, d)
    BY <1>1, <2>1, NextByteAlone
  <2>3. CASE message # <<>> /\ message[1] = Sysex
    BY <1>2, <2>2, <2>3 DEF Continued
  <2>4. CASE ~(message # <<>> /\ message[1] = Sysex)
    <3>1. /\ log # <<>> /\ OpenSysex(last) /\ Consecutive(last \o message)
          /\ EndsWith(last \o message, data)
      BY <1>6, <2>4 DEF Continued
    <3>2. Consecutive(last \o t) /\ EndsWith(last \o t, d)
      BY <1>1, <1>2, <3>1, NextByte
    <3> QED
      BY <2>2, <3>1, <3>2 DEF Continued
  <2> QED
    BY <2>3, <2>4
<1>7. CASE Joined(b) /\ "SYSEX" \notin filters
  <2>1. message' = t /\ log' = log /\ data' = d /\ sysex_in_progress
    BY <1>7 DEF Joined, NextData
  <2>2. Continued(t, log, d)
    BY <1>6, <1>7, <2>1 DEF Open
  <2> QED
    BY <2>1, <2>2 DEF Open
<1>8. CASE Grouped(b) /\ sysex_in_progress' /\ "SYSEX" \notin filters
  <2>1. /\ message' = <<>> /\ data' = d /\ sysex_in_progress
        /\ b # Eox /\ Len(message) = 3 /\ log' = Append(log, t)
    BY <1>8 DEF Grouped, NextData
  <2>2. Continued(t, log, d) /\ Continued(message, log, data)
    BY <1>6, <1>8, <2>1 DEF Open
  <2>3. log' # <<>> /\ log'[Len(log')] = t
    BY <1>1, <1>2, <2>1, AppendFacts
  <2>4. t \o <<>> = t
    BY <1>2
  <2>5. OpenSysex(t)
    <3>1. Len(t) = 4 /\ t # Gap
      BY <1>2, <2>1 DEF Gap
    <3>2. \A i \in 1..4 : t[i] # Eox
      <4>1. \A i \in 1..3 : t[i] = message[i] /\ message[i] # Eox
        BY <1>1, <2>1 DEF InSysex
      <4>2. t[4] = b
        <5>1. Len(message) + 1 = 4
          BY <2>1
        <5> QED
          BY <1>2, <5>1
      <4>3. \A i \in 1..4 : i \in 1..3 \/ i = 4
        OBVIOUS
      <4> HIDE DEF t
      <4> QED
        BY <2>1, <4>1, <4>2, <4>3
    <3>3. message # <<>>
      BY <1>1, <2>1
    <3>4. t[1] = Sysex \/ Continues(t)
      BY <1>2, <2>1, <3>1, <3>3 DEF InSysex, Continues
    <3> QED
      BY <3>1, <3>2, <3>4 DEF OpenSysex
  <2>6. /\ Consecutive(<<>>) /\ EndsWith(<<>>, d)
    BY DEF Consecutive, EndsWith
  <2>7. Consecutive(t) /\ EndsWith(t, d)
    BY <2>2 DEF Continued
  <2>8. Continued(<<>>, log', d)
    BY <2>1, <2>3, <2>4, <2>5, <2>6, <2>7 DEF Continued
  <2> QED
    BY <2>1, <2>8 DEF Open
<1> QED
  BY <1>1, <1>3, <1>4, <1>5, <1>7, <1>8
  DEF Step, ByteStep, Enqueued, Interrupted, Begun, OneByteMessage, Shortened, Discarded, Nothing

-----------------------------------------------------------------------------
(* What goes into the queue.                                               *)

\* An event that continues a sysex message continues the last event.
InPlace(e) == Lucky /\ Continues(e) =>
                 /\ log # <<>> /\ OpenSysex(log[Len(log)])
                 /\ Consecutive(log[Len(log)] \o e)

\* A channel message is whole.
WholeShort(e, eox) == running_status = 0 /\ e # Gap /\ IsChannel(e[1]) =>
                         /\ Len(e) = pm_midi_length(e[1]) /\ Consecutive(e)
                         /\ DataFollows(e, eox)

\* A short message needs nothing before it.
LEMMA AloneIsInPlace ==
  ASSUME NEW e, Alone(e), NEW eox
  PROVE  InPlace(e) /\ WholeShort(e, eox) /\ e \in Seq(Bytes)
<1>1. CASE e = Gap
  <2>1. <<>> \in Seq(Bytes)
    OBVIOUS
  <2> QED
    BY <1>1, <2>1 DEF InPlace, WholeShort, Continues, Gap
<1>2. CASE e # Gap
  <2>1. /\ e \in Seq(Bytes) /\ Consecutive(e) /\ IsStatus(e[1]) /\ e[1] # Eox
        /\ Len(e) = pm_midi_length(e[1]) /\ (IsRealTime(e[1]) => Len(e) = 1)
        /\ \A k \in 2..Len(e) : ~IsStatus(e[k])
    BY <1>2 DEF Alone
  <2>2. ~Continues(e)
    BY <2>1 DEF Continues
  <2> QED
    BY <2>1, <2>2 DEF InPlace, WholeShort, DataFollows
<1> QED
  BY <1>1, <1>2

LEMMA EventsAreInPlace ==
  ASSUME Types, InSysex, InShort, Open, NEW b, Step(b)
  PROVE  \/ log' = log
         \/ \E e \in Seq(Bytes) : /\ log' = Append(log, e)
                                  /\ WholeShort(e, stray_eox')
                                  /\ Len(log) + 1 \notin leaked' => InPlace(e)
<1>1. /\ message \in Seq(Bytes) /\ b \in Bytes /\ data \in 0..127
      /\ Byte(b) /\ (IsStatus(b) \/ b = After(data))
      /\ log \in Seq(Seq(Bytes)) /\ <<>> \in Seq(Bytes)
      /\ backend \in {"raw", "parsed"}
  BY InputAssumption DEF Types, TypeOK, Step, Byte
<1>2. WholeShort(Gap, stray_eox') /\ InPlace(Gap) /\ Gap \in Seq(Bytes)
  BY <1>1 DEF WholeShort, InPlace, Continues, Gap
<1>3. CASE Enqueued \/ OneByteMessage
  <2>1. log' = log \/ \E e : Alone(e) /\ log' = Append(log, e)
    BY <1>3 DEF Enqueued, OneByteMessage
  <2> QED
    BY <2>1, AloneIsInPlace
<1>4. CASE Grouped(b)
  <2> DEFINE t == Append(message, b)
             last == log[Len(log)]
  <2>1. sysex_in_progress /\ log' \in {Append(log, Gap), Append(log, t)}
    BY <1>4 DEF Grouped
  <2>2. /\ t \in Seq(Bytes) /\ t # <<>>
        /\ message # <<>> => t[1] = message[1]
        /\ message = <<>> => t[1] = b
    BY <1>1, AppendFacts
  <2>3. ~IsChannel(t[1])
    <3>1. CASE message # <<>>
      <4>1. message[1] = Sysex \/ ~IsStatus(message[1]) \/ IsRealTime(message[1])
        BY <2>1, <3>1 DEF InSysex
      <4> HIDE DEF t
      <4> QED
        BY <1>1, <2>2, <3>1, <4>1, ByteKinds
    <3>2. CASE message = <<>>
      <4>1. b = Eox
        <5>1. Len(message) # 3
          BY <3>2
        <5> QED
          BY <1>4, <5>1 DEF Grouped
      <4> QED
        BY <2>2, <3>2, <4>1 DEF IsChannel, Eox
    <3> QED
      BY <3>1, <3>2
  <2>4. ASSUME Len(log) + 1 \notin leaked', Continues(t)
        PROVE  log # <<>> /\ OpenSysex(last) /\ Consecutive(last \o t)
    <3>1. "SYSEX" \notin filters
      BY <1>4, <2>4 DEF Grouped
    <3>2. Continued(message, log, data)
      BY <2>1, <3>1 DEF Open
    <3>3. ~(message # <<>> /\ message[1] = Sysex)
      BY <2>2, <2>4 DEF Continues, IsStatus, IsRealTime, Sysex, Eox
    <3>4. /\ log # <<>> /\ OpenSysex(last) /\ Consecutive(last \o message)
          /\ EndsWith(last \o message, data)
      BY <3>2, <3>3 DEF Continued
    <3>5. last \in Seq(Bytes)
      BY <1>1, <3>4
    <3> QED
      BY <1>1, <3>4, <3>5, NextByte
  <2> HIDE DEF t
  <2>5. WholeShort(t, stray_eox') /\ (Len(log) + 1 \notin leaked' => InPlace(t))
    BY <2>3, <2>4 DEF WholeShort, InPlace
  <2> QED
    BY <1>2, <2>1, <2>2, <2>5
<1>5. CASE Shortened(b)
  <2> DEFINE bytes == Append(IF message = <<>> THEN <<running_status>> ELSE message, b)
  <2>1. /\ bytes \in Seq(Bytes) /\ bytes # <<>> /\ Len(bytes) >= 2
        /\ LuckyStatus /\ backend = "raw" => IsChannel(bytes[1])
        /\ running_status = 0 /\ backend = "parsed" => ~IsChannel(bytes[1])
        /\ running_status = 0 /\ backend = "raw" =>
              /\ short_message_count = pm_midi_length(bytes[1])
              /\ Len(bytes) <= short_message_count =>
                    Consecutive(bytes) /\ DataFollows(bytes, stray_eox')
    BY <1>1, <1>5, ShortenedFacts
  <2>2. \/ log' = log \/ log' = Append(log, Gap)
        \/ Len(bytes) = short_message_count /\ log' = Append(log, bytes)
    BY <1>5 DEF Shortened
  <2> HIDE DEF bytes
  <2>6. Len(bytes) \in Nat
    BY <2>1
  <2>3. Len(bytes) = short_message_count => InPlace(bytes)
    <3>1. Len(bytes) = short_message_count => ~(short_message_count < 2)
      BY <2>1, <2>6
    <3>2. LuckyStatus /\ backend = "raw" => ~Continues(bytes)
      BY <2>1, ByteKinds DEF Continues
    <3> QED
      BY <1>1, <3>1, <3>2 DEF InPlace, Lucky
  <2>4. Len(bytes) = short_message_count => WholeShort(bytes, stray_eox')
    <3>1. Len(bytes) = short_message_count => Len(bytes) <= short_message_count
      BY <2>6
    <3> QED
      BY <1>1, <2>1, <3>1 DEF WholeShort
  <2> QED
    BY <1>2, <2>1, <2>2, <2>3, <2>4
<1> QED
  BY <1>3, <1>4, <1>5
  DEF Step, ByteStep, Nothing, Interrupted, Started, Begun, Joined, Discarded

\* Luck does not change: only a raw backend sets short_message_count.
LEMMA LuckStays ==
  ASSUME NEW b, Step(b)
  PROVE  Lucky' = Lucky
<1>1. UNCHANGED <<running_status, backend>> /\ LuckyStatus' = LuckyStatus
  BY DEF Step, Fixed, LuckyStatus
<1>2. backend # "raw" => short_message_count' = short_message_count
  BY DEF Step, ByteStep, Nothing, Enqueued, Passed, Interrupted, Started, Begun, OneByteMessage,
         Joined, Grouped, Discarded, Shortened
<1> QED
  BY <1>1, <1>2 DEF Lucky

\* The log only grows, by events that are in their place.
LEMMA ContiguousKept ==
  ASSUME log \in Seq(Seq(Bytes)), SysexIsContiguous, Lucky' = Lucky, leaked \subseteq leaked',
         \/ log' = log
         \/ \E e \in Seq(Bytes) : /\ log' = Append(log, e)
                                  /\ Len(log) + 1 \notin leaked' => InPlace(e)
  PROVE  SysexIsContiguous'
<1>1. CASE log' = log
  BY <1>1 DEF SysexIsContiguous
<1>2. CASE \E e \in Seq(Bytes) : /\ log' = Append(log, e)
                                 /\ Len(log) + 1 \notin leaked' => InPlace(e)
  <2>1. PICK e \in Seq(Bytes) : /\ log' = Append(log, e)
                                /\ Len(log) + 1 \notin leaked' => InPlace(e)
    BY <1>2
  <2> DEFINE new == Append(log, e)
             n == Len(log)
  <2>2. /\ new \in Seq(Seq(Bytes)) /\ Len(new) = n + 1 /\ n \in Nat
        /\ \A i \in 1..n : new[i] = log[i]
        /\ new[n + 1] = e
        /\ log # <<>> => n > 0
    BY AppendFacts
  <2> DEFINE Behind(ev, i) ==
               \E k \in 1..i - 1 : /\ OpenSysex(ev[k]) /\ Consecutive(ev[k] \o ev[i])
                                   /\ \A j \in k + 1..i - 1 : /\ Len(ev[j]) = 1
                                                              /\ IsRealTime(ev[j][1])
  <2> HIDE DEF new
  <2> SUFFICES ASSUME Lucky', NEW i \in 1..Len(log') \ leaked', Continues(log'[i])
               PROVE  Behind(log', i)
    BY DEF SysexIsContiguous
  <2>5. /\ log' = new /\ Lucky /\ i \in 1..Len(new) /\ i \notin leaked' /\ Continues(new[i])
    BY <2>1 DEF new
  <2>6. SUFFICES Behind(new, i)
    BY <2>5
  <2>3. CASE i \in 1..n
    <3>1. new[i] = log[i] /\ i \notin leaked
      BY <2>2, <2>3
    <3>2. Behind(log, i)
      BY <2>3, <2>5, <3>1 DEF SysexIsContiguous
    <3>3. \A k \in 1..i - 1 : new[k] = log[k]
      BY <2>2, <2>3
    <3>4. PICK k \in 1..i - 1 : /\ OpenSysex(log[k]) /\ Consecutive(log[k] \o log[i])
                                /\ \A j \in k + 1..i - 1 : Len(log[j]) = 1 /\ IsRealTime(log[j][1])
      BY <3>2
    <3>5. \A j \in k + 1..i - 1 : j \in 1..i - 1
      BY <2>3, <3>4
    <3> QED
      BY <3>1, <3>3, <3>4, <3>5
  <2>4. CASE i = n + 1
    <3>3. Continues(e) /\ InPlace(e)
      BY <2>1, <2>2, <2>4, <2>5
    <3>1. log # <<>> /\ OpenSysex(log[n]) /\ Consecutive(log[n] \o e)
      BY <2>5, <3>3 DEF InPlace
    <3>2. n \in 1..i - 1 /\ new[n] = log[n] /\ new[i] = e /\ (n + 1)..(i - 1) = {}
      BY <2>2, <2>4, <3>1
    <3> QED
      BY <3>1, <3>2
  <2>7. i \in 1..n \/ i = n + 1
    BY <2>2, <2>5
  <2> HIDE DEF Behind
  <2> QED
    BY <2>3, <2>4, <2>7
<1> QED
  BY <1>1, <1>2

LEMMA WholeKept ==
  ASSUME log \in Seq(Seq(Bytes)), ShortIsWhole, running_status' = running_status,
         stray_eox => stray_eox',
         \/ log' = log
         \/ \E e \in Seq(Bytes) : log' = Append(log, e) /\ WholeShort(e, stray_eox')
  PROVE  ShortIsWhole'
<1>1. CASE log' = log
  BY <1>1 DEF ShortIsWhole
<1>2. CASE \E e \in Seq(Bytes) : log' = Append(log, e) /\ WholeShort(e, stray_eox')
  <2>1. PICK e \in Seq(Bytes) : log' = Append(log, e) /\ WholeShort(e, stray_eox')
    BY <1>2
  <2> DEFINE new == Append(log, e)
             n == Len(log)
  <2>2. /\ Len(new) = n + 1 /\ n \in Nat
        /\ \A i \in 1..n : new[i] = log[i]
        /\ new[n + 1] = e
    BY AppendFacts
  <2> HIDE DEF new
  <2> SUFFICES ASSUME running_status = 0, NEW i \in 1..Len(new), new[i] # Gap,
                      IsChannel(new[i][1])
               PROVE  /\ Len(new[i]) = pm_midi_length(new[i][1]) /\ Consecutive(new[i])
                      /\ DataFollows(new[i], stray_eox')
    BY <2>1 DEF ShortIsWhole, DataFollows, new
  <2>3. CASE i \in 1..n
    BY <2>2, <2>3 DEF ShortIsWhole, DataFollows
  <2>4. CASE i = n + 1
    BY <2>1, <2>2, <2>4 DEF WholeShort
  <2> QED
    BY <2>2, <2>3, <2>4
<1> QED
  BY <1>1, <1>2

-----------------------------------------------------------------------------
(* The bytes of a sysex message are with the reader and in the accumulator.*)

\* Each step takes the byte in once: into the accumulator, or with it into the log.
LEMMA CompleteKept ==
  ASSUME Types, InSysex, SysexIsComplete, NEW b, Step(b)
  PROVE  SysexIsComplete'
<1>1. /\ message \in Seq(Bytes) /\ source \in Seq(Bytes) /\ picked \in Seq(Bytes)
      /\ b \in Bytes /\ filters' = filters /\ Len(message) \in Nat
      /\ sysex_in_progress => Len(message) <= 3
  BY DEF Types, TypeOK, Step, Byte, Fixed
<1> DEFINE t == Append(message, b)
           u == DataOf(message)
<1>2. /\ t \in Seq(Bytes) /\ t # <<>> /\ u \in Seq(Bytes)
      /\ message # <<>> => t[1] = message[1]
      /\ message = <<>> => t[1] = b
  <2>1. u \in Seq(Bytes)
    BY <1>1, DataOfFacts
  <2>2. t \in Seq(Bytes) /\ t # <<>> /\ (message # <<>> => t[1] = message[1])
    BY <1>1, AppendFacts
  <2>3. message = <<>> => t[1] = b
    OBVIOUS
  <2> QED
    BY <2>1, <2>2, <2>3
<1> HIDE DEF t, u
<1>3. CASE ~sysex_in_progress' \/ "SYSEX" \in filters
  BY <1>1, <1>3 DEF SysexIsComplete
<1>4. CASE Nothing /\ sysex_in_progress /\ "SYSEX" \notin filters
  <2>1. message' = message /\ source' = source /\ picked' = picked
    BY <1>4 DEF Nothing, Passed
  <2> QED
    BY <1>4, <2>1 DEF SysexIsComplete
<1>5. CASE Started
  <2>1. <<Sysex>> # <<>> /\ <<Sysex>>[1] = Sysex
    OBVIOUS
  <2>2. message' = <<Sysex>> /\ source' = <<Sysex>>
    BY <1>5 DEF Started
  <2>3. source' = DataOf(message')
    BY <2>2, DataOfFacts
  <2> QED
    BY <2>1, <2>2, <2>3 DEF SysexIsComplete
<1>6. CASE (Joined(b) \/ Grouped(b)) /\ sysex_in_progress' /\ "SYSEX" \notin filters
  <2>1. /\ sysex_in_progress /\ Taken(b) /\ b # Eox /\ (IsStatus(b) => IsRealTime(b))
    BY <1>6 DEF Joined, Grouped
  <2>2. b # Sysex
    BY <1>1, <2>1, ByteKinds
  <2>3. DataOf(t) = IF IsRealTime(b) THEN u ELSE Append(u, b)
    BY <1>1, <2>1, DataOfByte DEF t, u
  <2>4. source = IF message # <<>> /\ message[1] = Sysex THEN u ELSE picked \o u
    BY <1>6, <2>1 DEF SysexIsComplete, u
  <2>5. t[1] = Sysex <=> message # <<>> /\ message[1] = Sysex
    BY <1>2, <2>2
  <2>6. picked \o Append(u, b) = Append(picked \o u, b)
    BY <1>1, <1>2
  <2>7. source' = IF t[1] = Sysex THEN DataOf(t) ELSE picked \o DataOf(t)
    BY <2>1, <2>3, <2>4, <2>5, <2>6 DEF Taken
  <2>8. CASE Joined(b)
    <3>1. message' = t /\ picked' = picked
      BY <2>8 DEF Joined, t
    <3> QED
      BY <1>2, <2>7, <3>1 DEF SysexIsComplete
  <2>9. CASE Grouped(b)
    <3>1. message' = <<>> /\ PickUp(t) /\ Len(message) = 3
      BY <1>6, <2>1, <2>9 DEF Grouped, t
    <3>2. t[1] = Sysex \/ ~IsStatus(t[1]) \/ IsRealTime(t[1])
      <4>1. message # <<>>
        <5>1. Len(<<>>) = 0
          OBVIOUS
        <5> QED
          BY <3>1, <5>1
      <4> QED
        BY <1>2, <2>1, <4>1 DEF InSysex
    <3>3. picked' = source'
      BY <1>2, <2>7, <3>1, <3>2 DEF PickUp, Gap
    <3>4. source' \in Seq(Bytes)
      BY <1>1, <2>1 DEF Taken
    <3>5. picked' \o DataOf(<<>>) = picked'
      BY <3>3, <3>4, DataOfFacts
    <3> QED
      BY <3>1, <3>3, <3>5 DEF SysexIsComplete
  <2> QED
    BY <1>6, <2>8, <2>9
<1> QED
  BY <1>1, <1>3, <1>4, <1>5, <1>6
  DEF Step, ByteStep, Enqueued, Interrupted, Begun, OneByteMessage, Shortened, Discarded, Nothing

-----------------------------------------------------------------------------
IInv == Types /\ InSysex /\ InShort /\ Open /\ SysexIsComplete /\ ShortIsWhole

\* A change of filters leaves the parser alone, and the filter for sysex as it is while a sysex
\* message is in progress.
LEMMA FilterKeeps ==
  ASSUME IInv, Pm_SetFilter \/ UNCHANGED vars
  PROVE  /\ InSysex' /\ InShort' /\ Open' /\ SysexIsComplete' /\ ShortIsWhole'
         /\ SysexIsContiguous => SysexIsContiguous'
<1>1. /\ UNCHANGED <<sysex_in_progress, message, short_message_count, running_status, log,
                     data, source, backend, device_sysex, stray_eox, picked, leaked>>
      /\ sysex_in_progress => ("SYSEX" \in filters' <=> "SYSEX" \in filters)
  BY DEF Pm_SetFilter, vars, parser, history
<1>2. LuckyStatus' = LuckyStatus /\ Lucky' = Lucky
  BY <1>1 DEF Lucky, LuckyStatus
<1>3. InSysex'
  BY <1>1 DEF IInv, InSysex
<1>4. InShort'
  BY <1>1, <1>2 DEF IInv, InShort
<1>5. Open'
  BY <1>1 DEF IInv, Open
<1>6. SysexIsComplete'
  BY <1>1 DEF IInv, SysexIsComplete
<1>7. ShortIsWhole' /\ (SysexIsContiguous => SysexIsContiguous')
  BY <1>1, <1>2 DEF IInv, ShortIsWhole, SysexIsContiguous
<1> QED
  BY <1>3, <1>4, <1>5, <1>6, <1>7

LEMMA NextKeeps == IInv /\ [Next]_vars => IInv'
<1> SUFFICES ASSUME IInv, [Next]_vars PROVE IInv'
  OBVIOUS
<1>1. Types'
  BY TypesKept DEF IInv
<1>2. CASE ReceiveByte \/ ReceiveShort
  <2>1. PICK b : Step(b)
    BY <1>2, ReceiveStep DEF IInv
  <2>2. InSysex' /\ InShort' /\ Open' /\ SysexIsComplete'
    BY <2>1, InSysexKept, InShortKept, OpenKept, CompleteKept DEF IInv
  <2>3. ShortIsWhole'
    <3>1. \/ log' = log
          \/ \E e \in Seq(Bytes) : log' = Append(log, e) /\ WholeShort(e, stray_eox')
      BY <2>1, EventsAreInPlace DEF IInv
    <3>2. /\ log \in Seq(Seq(Bytes)) /\ running_status' = running_status
          /\ stray_eox => stray_eox'
      BY <2>1 DEF IInv, Types, TypeOK, Step, Fixed
    <3> QED
      BY <3>1, <3>2, WholeKept DEF IInv
  <2> QED
    BY <1>1, <2>2, <2>3 DEF IInv
<1>3. CASE Pm_SetFilter \/ UNCHANGED vars
  BY <1>1, <1>3, FilterKeeps DEF IInv
<1> QED
  BY <1>2, <1>3 DEF Next

LEMMA InitIInv == Init => IInv /\ SysexIsContiguous
<1> SUFFICES ASSUME Init PROVE IInv /\ SysexIsContiguous
  OBVIOUS
<1>1. log = <<>> /\ ~sysex_in_progress
  BY DEF Init
<1>2. Len(log) = 0 /\ 1..0 = {}
  BY <1>1
<1>3. ShortIsWhole /\ SysexIsContiguous
  BY <1>2 DEF ShortIsWhole, SysexIsContiguous
<1>4. SysexIsComplete
  BY <1>1 DEF SysexIsComplete
<1> QED
  BY <1>3, <1>4, InitAccumulator DEF IInv, Accumulator

LEMMA Invariant == Spec => []IInv
<1>1. Init => IInv
  BY InitIInv
<1> QED
  BY <1>1, NextKeeps, PTL DEF Spec

\* The variables of the parser keep their types; in particular an accumulator that takes in a sysex
\* message is emptied before it holds four bytes.
THEOREM TypeCorrect == Spec => []TypeOK
<1>1. IInv => TypeOK
  BY DEF IInv, Types
<1> QED
  BY <1>1, Invariant, PTL

\* Whatever has come of a sysex message in progress is in what the reader has put together from the
\* queue or in the accumulator, once and in order (pm_read_bytes and pm_flush_sysex).
THEOREM NothingIsTakenTwice == Spec => []SysexIsComplete
<1>1. IInv => SysexIsComplete
  BY DEF IInv
<1> QED
  BY <1>1, Invariant, PTL

\* A channel message in the queue is as long as its status says, with the data bytes (or stray EOX)
\* that came after the status (pm_read_bytes), if running_status was 0 when the stream was opened.
THEOREM ShortMessagesAreWhole == Spec => []ShortIsWhole
<1>1. IInv => ShortIsWhole
  BY DEF IInv
<1> QED
  BY <1>1, Invariant, PTL

\* Sysex data in the queue follow the beginning of their message without a break
\* (portmidi.c:1399-1418), whatever overflows, real-time messages, filters and interruptions there
\* are; but for fresh memory that is not Lucky and what slips past the filter for sysex messages.
THEOREM SysexStaysTogether == Spec => []SysexIsContiguous
<1>1. IInv /\ SysexIsContiguous /\ [Next]_vars => SysexIsContiguous'
  <2> SUFFICES ASSUME IInv, SysexIsContiguous, [Next]_vars PROVE SysexIsContiguous'
    OBVIOUS
  <2>1. CASE ReceiveByte \/ ReceiveShort
    <3>1. PICK b : Step(b)
      BY <2>1, ReceiveStep DEF IInv
    <3>2. \/ log' = log
          \/ \E e \in Seq(Bytes) : /\ log' = Append(log, e)
                                   /\ Len(log) + 1 \notin leaked' => InPlace(e)
      BY <3>1, EventsAreInPlace DEF IInv
    <3>3. log \in Seq(Seq(Bytes)) /\ Lucky' = Lucky /\ leaked \subseteq leaked'
      BY <3>1, LuckStays DEF IInv, Types, TypeOK, Step, Fixed
    <3> QED
      BY <3>2, <3>3, ContiguousKept
  <2>2. CASE Pm_SetFilter \/ UNCHANGED vars
    BY <2>2, FilterKeeps
  <2> QED
    BY <2>1, <2>2 DEF Next
<1>2. Init => SysexIsContiguous
  BY InitIInv
<1> QED
  BY <1>1, <1>2, Invariant, PTL DEF Spec
=============================================================================
