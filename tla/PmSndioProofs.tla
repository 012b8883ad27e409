--------------------------- MODULE PmSndioProofs ---------------------------
(***************************************************************************)
(* The byte parser of the sndio backend, for any sequence of bytes and any *)
(* length of sysex_data.                                                   *)
(***************************************************************************)
EXTENDS PmSndio, TLAPS

(***************************************************************************)
(* The inductive invariant: for each state of the parser, what the device  *)
(* is sending.                                                             *)
(*   Nothing     Outside a message; a sysex message that did not fit may   *)
(*               still go on.                                              *)
(*   InSysex     sysex_data is the sysex message so far.                   *)
(*   InVoice,    A short message; between two the running status is kept.  *)
(*   InSong      As long as the message has a status byte of its own, its  *)
(*               bytes so far are in pm_ev.message, and nothing else.      *)
(*   InNoLength  A status byte that the table gives no length: the parser  *)
(*               waits for ever, and so does the message.                  *)
(*   InTune      The message is over, which the parser does not notice.    *)
(***************************************************************************)
Message == [bytes : Seq(Bytes), running : BOOLEAN]

States == ({0} \union Statuses) \ {Eox, Clock}

ParserTypes ==
  /\ st \in States /\ idx \in 0..4 /\ len \in 0..3
  /\ message \in [0..3 -> SUBSET Bytes]

SysexTypes ==
  /\ sysex_data \in Seq(Bytes)
  /\ Len(sysex_data) <= SYSEX_MAXLEN + 1
  /\ Len(sysex_data) > SYSEX_MAXLEN => st # Sysex

ReferenceTypes ==
  status \in {0, Note, Program} /\ current \in Seq(Bytes) /\ running \in BOOLEAN

Types == ParserTypes /\ SysexTypes /\ ReferenceTypes

Histories == due \in Seq(Message) /\ delivered \in Seq(Seq(SUBSET Bytes)) /\ DeliveredIsSent

Counters == data \in 0..127 /\ bytes \in 0..MaxBytes /\ reopened \in 0..MaxReopen

Nothing ==
  st = 0 => /\ status = 0 /\ ~running
            /\ current # <<>> => current[1] = Sysex /\ Len(current) > SYSEX_MAXLEN

InSysex ==
  st = Sysex => /\ status = 0 /\ ~running
                /\ current = sysex_data /\ current # <<>> /\ current[1] = Sysex

SoFar ==
  /\ Len(current) = idx /\ idx \in 1..len - 1 /\ len = LengthOf(st) /\ current[1] = st
  /\ ~running => \A k \in 0..3 : message[k] = IF k < idx THEN {current[k + 1]} ELSE {}

InVoice ==
  IsVoice(st) => /\ status = st
                 /\ IF idx = 0 THEN len = LengthOf(st) /\ current = <<>> /\ ~running ELSE SoFar

InSong == st = Song => status = 0 /\ ~running /\ SoFar

InNoLength ==
  st = Undefined => /\ status = 0 /\ len = 0 /\ idx > 0
                    /\ current # <<>> /\ current[1] = Undefined

InTune == st = Tune => status = 0 /\ ~running /\ len = 1 /\ idx > 0 /\ current = <<>>

State == Nothing /\ InSysex /\ InVoice /\ InSong /\ InNoLength /\ InTune

Parsing == Types /\ State /\ Histories

IInv == Parsing /\ Counters

-----------------------------------------------------------------------------
(* Bytes and sequences of them.                                            *)

\* A data byte is below 128.
LEMMA DataFacts ==
  /\ \A b \in 1..127 : b \in Bytes /\ ~IsStatus(b) /\ b \notin Statuses
  /\ \A d \in 0..127 : After(d) \in 1..127
<1>1. \A b \in 1..127 : b \in Bytes /\ ~IsStatus(b) /\ b \notin Statuses
  BY DEF Bytes, IsStatus, Statuses, Note, Program, Sysex, Song, Undefined, Tune, Eox, Clock
<1>2. \A d \in 0..127 : After(d) \in 1..127
  <2> SUFFICES ASSUME NEW d \in 0..127 PROVE (d % 127) + 1 \in 1..127
    BY DEF After
  <2>1. d % 127 \in 0..126
    OBVIOUS
  <2> QED
    BY <2>1
<1> QED
  BY <1>1, <1>2

\* A status byte is one of eight.
LEMMA StatusFacts ==
  /\ Statuses \subseteq Bytes /\ Noise \in Bytes
  /\ \A c \in Statuses : IsStatus(c) /\ (c >= 248 <=> c = Clock)
BY DEF Bytes, Noise, IsStatus, Statuses, Note, Program, Sysex, Song, Undefined, Tune, Eox, Clock

\* What messages each of them begins.
LEMMA KindFacts ==
  \A c \in Statuses : /\ IsVoice(c) <=> c \in {Note, Program}
                      /\ IsCommon(c) <=> c \in {Song, Undefined, Tune}
BY DEF IsVoice, IsCommon, Statuses, Note, Program, Sysex, Song, Undefined, Tune, Eox, Clock

\* How long the messages are that begin with each status byte.
LEMMA LengthFacts ==
  /\ LengthOf(Note) = 3 /\ LengthOf(Program) = 2 /\ LengthOf(Song) = 2
  /\ LengthOf(Undefined) = 0 /\ LengthOf(Tune) = 1 /\ LengthOf(0) = 1
BY DEF LengthOf, Note, Program, Song, Undefined, Tune

\* What Append makes of a sequence.
LEMMA AppendFacts ==
  ASSUME NEW S, NEW s \in Seq(S), NEW e \in S
  PROVE  LET t == Append(s, e) IN
         /\ t \in Seq(S) /\ Len(t) = Len(s) + 1 /\ Len(s) \in Nat /\ t # <<>>
         /\ \A i \in 1..Len(s) : t[i] = s[i]
         /\ t[Len(s) + 1] = e /\ Last(t) = e
         /\ s # <<>> => t[1] = s[1] /\ Len(s) > 0
<1> DEFINE t == Append(s, e)
<1>1. /\ t \in Seq(S) /\ Len(t) = Len(s) + 1 /\ Len(s) \in Nat
      /\ \A i \in 1..Len(s) : t[i] = s[i]
  OBVIOUS
<1>2. t[Len(s) + 1] = e
  OBVIOUS
<1>3. t # <<>>
  <2>1. Len(t) # 0 /\ Len(<<>>) = 0
    <3>1. \A n \in Nat : n + 1 # 0
      OBVIOUS
    <3> HIDE DEF t
    <3> QED
      BY <1>1, <3>1
  <2> HIDE DEF t
  <2> QED
    BY <2>1
<1>4. s # <<>> => 1 \in 1..Len(s) /\ Len(s) > 0
  OBVIOUS
<1>5. Last(t) = e
  BY <1>1, <1>2 DEF Last
<1> HIDE DEF t
<1>6. s # <<>> => t[1] = s[1]
  BY <1>1, <1>4
<1> QED
  BY <1>1, <1>2, <1>3, <1>4, <1>5, <1>6 DEF t

\* The sequences of one and of two bytes.
LEMMA Literals ==
  ASSUME NEW b \in Bytes, NEW c \in Bytes
  PROVE  /\ <<b>> \in Seq(Bytes) /\ Len(<<b>>) = 1 /\ <<b>>[1] = b /\ <<b>> # <<>>
         /\ Last(<<b>>) = b
         /\ <<b, c>> \in Seq(Bytes) /\ Len(<<b, c>>) = 2 /\ <<b, c>> # <<>>
         /\ <<b, c>>[1] = b /\ <<b, c>>[2] = c
BY DEF Last

LEMMA NoBytes == <<>> \in Seq(Bytes)
OBVIOUS

\* Exactly has one set for each byte.
LEMMA ExactlyFacts ==
  ASSUME NEW s \in Seq(Bytes)
  PROVE  /\ Exactly(s) \in Seq(SUBSET Bytes) /\ Len(Exactly(s)) = Len(s)
         /\ \A i \in 1..Len(s) : Exactly(s)[i] = {s[i]}
<1>1. Exactly(s) \in [1..Len(s) -> SUBSET Bytes] /\ Len(s) \in Nat
  BY DEF Exactly
<1>2. \A i \in 1..Len(s) : Exactly(s)[i] = {s[i]}
  BY DEF Exactly
<1> HIDE DEF Exactly
<1>3. Exactly(s) \in Seq(SUBSET Bytes) /\ Len(Exactly(s)) = Len(s)
  BY <1>1
<1> QED
  BY <1>2, <1>3

\* A message that is delivered when it is due, as it should be or garbled.
LEMMA DeliverOne ==
  ASSUME Histories,
         NEW x \in Seq(SUBSET Bytes), NEW m \in Message,
         delivered' = Append(delivered, x), due' = Append(due, m),
         Garbled(m) \/ x = Exactly(m.bytes)
  PROVE  Histories'
<1>1. /\ due \in Seq(Message) /\ delivered \in Seq(Seq(SUBSET Bytes))
      /\ Len(delivered) = Len(due)
  BY DEF Histories, DeliveredIsSent
<1>2. /\ due' \in Seq(Message) /\ Len(due') = Len(due) + 1 /\ due'[Len(due) + 1] = m
      /\ \A i \in 1..Len(due) : due'[i] = due[i]
  BY <1>1, AppendFacts
<1>3. /\ delivered' \in Seq(Seq(SUBSET Bytes)) /\ Len(delivered') = Len(due) + 1
      /\ delivered'[Len(due) + 1] = x
      /\ \A i \in 1..Len(due) : delivered'[i] = delivered[i]
  BY <1>1, AppendFacts
<1>4. ASSUME NEW i \in 1..Len(due')
      PROVE  Garbled(due'[i]) \/ delivered'[i] = Exactly(due'[i].bytes)
  <2>1. i \in 1..Len(due) \/ i = Len(due) + 1
    BY <1>1, <1>2
  <2> QED
    BY <1>2, <1>3, <2>1 DEF Histories, DeliveredIsSent
<1> QED
  BY <1>2, <1>3, <1>4 DEF Histories, DeliveredIsSent

-----------------------------------------------------------------------------
(* What the device is sending after each byte.                             *)

\* A real-time message is complete, and leaves the message around it alone.
LEMMA ReceiveRealTime ==
  ASSUME Receive(Clock)
  PROVE  /\ due' = Append(due, [bytes |-> <<Clock>>, running |-> FALSE])
         /\ UNCHANGED <<status, current, running>>
<1>1. Clock >= 248 /\ <<Clock>>[1] # Sysex /\ <<Clock>>[1] # Tune
  BY DEF Clock, Sysex, Tune
<1> QED
  BY <1>1 DEF Receive, Received, Deliverable

\* A status byte other than EOX begins a message, which a tune request ends as well.
LEMMA ReceiveStatus ==
  ASSUME NEW c \in Statuses \ {Eox, Clock}, Receive(c)
  PROVE  /\ due' = due /\ running' = FALSE
         /\ status' = IF c \in {Note, Program} THEN c ELSE 0
         /\ current' = IF c = Tune THEN <<>> ELSE <<c>>
<1>1. /\ ~(c >= 248) /\ IsStatus(c) /\ (IsVoice(c) <=> c \in {Note, Program}) /\ c \in Bytes
  BY StatusFacts, KindFacts
<1> DEFINE m == <<c>>
<1>2. m # <<>> /\ m[1] = c /\ Last(m) = c /\ Len(m) = 1
  BY <1>1, Literals
<1>3. Whole(m) <=> c = Tune
  BY <1>2 DEF Whole, LengthOf, Statuses, Note, Program, Sysex, Song, Undefined, Tune, Eox, Clock
<1>4. \A r : ~Deliverable([bytes |-> m, running |-> r]) \/ c # Tune
  BY <1>2 DEF Deliverable, Sysex, Tune
<1>5. /\ status' = IF IsVoice(c) THEN c ELSE 0
      /\ IF Whole(m) THEN /\ Received([bytes |-> m, running |-> FALSE])
                          /\ current' = <<>> /\ running' = FALSE
                     ELSE current' = m /\ running' = FALSE /\ due' = due
  BY <1>1 DEF Receive
<1> HIDE DEF m
<1>6. due' = due
  BY <1>3, <1>4, <1>5 DEF Received
<1> QED
  BY <1>1, <1>3, <1>5, <1>6 DEF m

\* EOX ends the message, a sysex message as it should be.
LEMMA ReceiveEox ==
  ASSUME current \in Seq(Bytes), running \in BOOLEAN, Receive(Eox)
  PROVE  /\ status' = 0 /\ current' = <<>> /\ running' = FALSE
         /\ IF current # <<>> /\ current[1] = Sysex
              THEN Received([bytes |-> Append(current, Eox), running |-> running])
              ELSE due' = due
<1>1. ~(Eox >= 248) /\ IsStatus(Eox) /\ ~IsVoice(Eox) /\ Eox \in Bytes
  BY StatusFacts, KindFacts DEF Eox, Statuses, IsVoice, IsStatus, Clock
<1> DEFINE inside == current # <<>> /\ current[1] = Sysex
           m == IF inside THEN Append(current, Eox) ELSE <<>>
<1>2. /\ status' = 0
      /\ IF Whole(m) THEN /\ Received([bytes |-> m, running |-> inside /\ running])
                          /\ current' = <<>> /\ running' = FALSE
                     ELSE current' = m /\ running' = (inside /\ running) /\ due' = due
  BY <1>1 DEF Receive
<1>3. CASE inside
  <2>1. m = Append(current, Eox)
    BY <1>3
  <2>2. m # <<>> /\ m[1] = Sysex /\ Last(m) = Eox
    BY <1>1, <1>3, <2>1, AppendFacts
  <2> HIDE DEF m
  <2>3. Whole(m)
    BY <2>2 DEF Whole
  <2>4. (inside /\ running) = running
    BY <1>3
  <2> QED
    BY <1>2, <1>3, <2>1, <2>3, <2>4
<1>4. CASE ~inside
  <2>1. ~Whole(m) /\ m = <<>>
    BY <1>4 DEF Whole
  <2> QED
    BY <1>2, <1>4, <2>1
<1> QED
  BY <1>3, <1>4

\* A data byte goes to the message that is being received, or to one under running status.
LEMMA ReceiveData ==
  ASSUME NEW c \in 1..127, Receive(c)
  PROVE  LET m == IF current # <<>> THEN Append(current, c)
                  ELSE IF status # 0 THEN <<status, c>> ELSE <<>>
             r == (current = <<>> /\ status # 0) \/ (current # <<>> /\ running)
         IN  /\ status' = status
             /\ IF Whole(m) THEN /\ Received([bytes |-> m, running |-> r])
                                 /\ current' = <<>> /\ running' = FALSE
                            ELSE current' = m /\ running' = r /\ due' = due
<1>1. ~(c >= 248) /\ ~IsStatus(c) /\ ~IsVoice(c) /\ c # Eox
  BY DEF IsStatus, IsVoice, Eox
<1> QED
  BY <1>1 DEF Receive

-----------------------------------------------------------------------------
(* The codes that tell the states of the parser apart.                     *)

\* No two of them are the same.
LEMMA Distinct ==
  /\ 0 \notin {Note, Program, Song, Undefined, Tune, Sysex, Eox, Clock}
  /\ Note \notin {Program, Song, Undefined, Tune, Sysex, Eox, Clock}
  /\ Program \notin {Song, Undefined, Tune, Sysex, Eox, Clock}
  /\ Song \notin {Undefined, Tune, Sysex, Eox, Clock}
  /\ Undefined \notin {Tune, Sysex, Eox, Clock}
  /\ Tune \notin {Sysex, Eox, Clock}
  /\ Sysex # Eox /\ Sysex # Clock /\ Eox # Clock
BY DEF Note, Program, Sysex, Song, Undefined, Tune, Eox, Clock

\* The states of the parser: none, or a status byte that is not EOX and not real-time.
LEMMA StatesFacts ==
  /\ States = {0, Note, Program, Song, Undefined, Tune, Sysex}
  /\ \A s \in States : IsVoice(s) <=> s \in {Note, Program}
BY DEF States, Statuses, Note, Program, Sysex, Song, Undefined, Tune, Eox, Clock, IsVoice

\* What the parser and the reference keep between two messages.
Apart == <<st, idx, len, message, sysex_data, status, current, running>>

\* As long as they stay, so does what is known of them.
LEMMA StateStays ==
  ASSUME Types, State, UNCHANGED Apart
  PROVE  Types' /\ State'
<1>1. Types'
  BY DEF Types, ParserTypes, SysexTypes, ReferenceTypes, Apart
<1>2. State'
  BY DEF State, Nothing, InSysex, InVoice, InSong, InNoLength, InTune, SoFar, Apart
<1> QED
  BY <1>1, <1>2

\* The histories stay as they are between two messages.
LEMMA HistoriesStay == Histories /\ UNCHANGED <<due, delivered>> => Histories'
BY DEF Histories, DeliveredIsSent

\* A state is one of six.
LEMMA OneState ==
  ASSUME \/ st' = 0 /\ Nothing'
         \/ st' = Sysex /\ InSysex'
         \/ st' \in {Note, Program} /\ InVoice'
         \/ st' = Song /\ InSong'
         \/ st' = Undefined /\ InNoLength'
         \/ st' = Tune /\ InTune'
  PROVE  State'
<1>1. /\ st' # 0 => Nothing'
      /\ st' # Sysex => InSysex'
      /\ st' # Song => InSong'
      /\ st' # Undefined => InNoLength'
      /\ st' # Tune => InTune'
  BY DEF Nothing, InSysex, InSong, InNoLength, InTune
<1>2. st' \in {0, Sysex, Song, Undefined, Tune} => InVoice'
  BY Distinct, StatesFacts DEF InVoice
<1> QED
  BY <1>1, <1>2, Distinct DEF State

-----------------------------------------------------------------------------
(* The steps of the parser.                                                *)

LEMMA RealTimeStep ==
  ASSUME Parsing, RealTime(Clock), Receive(Clock)
  PROVE  Parsing'
<1>1. UNCHANGED Apart
  BY ReceiveRealTime DEF RealTime, Apart
<1> DEFINE m == [bytes |-> <<Clock>>, running |-> FALSE]
<1>2. Clock \in Bytes
  BY StatusFacts DEF Statuses
<1>3. m \in Message /\ m.bytes = <<Clock>> /\ Exactly(<<Clock>>) \in Seq(SUBSET Bytes)
  BY <1>2, Literals, ExactlyFacts DEF Message
<1>4. delivered' = Append(delivered, Exactly(<<Clock>>)) /\ due' = Append(due, m)
  BY ReceiveRealTime DEF RealTime
<1> HIDE DEF m
<1>5. Histories'
  BY <1>3, <1>4, DeliverOne DEF Parsing
<1> QED
  BY <1>1, <1>5, StateStays DEF Parsing

\* EOX completes what is in sysex_data, with a byte too many if it is full.
LEMMA EndOfSysexStep ==
  ASSUME Parsing, EndOfSysex(Eox), Receive(Eox)
  PROVE  Parsing'
<1>1. /\ st' = 0 /\ idx' = 0 /\ len' = len /\ message' = message
      /\ status' = 0 /\ current' = <<>> /\ running' = FALSE
  BY ReceiveEox DEF EndOfSysex, Parsing, Types, ParserTypes, SysexTypes, ReferenceTypes
<1>2. State'
  BY <1>1, OneState DEF Nothing
<1>3. current \in Seq(Bytes) /\ sysex_data \in Seq(Bytes) /\ Eox \in Bytes /\ Noise \in Bytes
  BY StatusFacts DEF Statuses, Parsing, Types, ParserTypes, SysexTypes, ReferenceTypes
<1>4. CASE st = Sysex
  <2>1. /\ current = sysex_data /\ current # <<>> /\ current[1] = Sysex /\ running = FALSE
        /\ Len(current) <= SYSEX_MAXLEN /\ Len(current) \in Nat
    BY <1>3, <1>4, SysexAssumption DEF Parsing, State, InSysex, Types, SysexTypes
  <2>2. PICK last \in {Eox, Noise} :
          /\ sysex_data' = Append(sysex_data, last)
          /\ delivered' = Append(delivered, Exactly(sysex_data'))
          /\ ~BufferFull(Len(sysex_data)) => last = Eox
    BY <1>4 DEF EndOfSysex
  <2> DEFINE m == [bytes |-> Append(current, Eox), running |-> FALSE]
  <2>3. /\ Append(current, Eox) \in Seq(Bytes) /\ Len(Append(current, Eox)) = Len(current) + 1
        /\ Append(current, Eox)[1] = Sysex
    BY <1>3, <2>1, AppendFacts
  <2>4. m \in Message /\ m.bytes = Append(current, Eox)
    BY <2>3 DEF Message
  <2>5. Received(m)
    BY <1>3, <2>1, ReceiveEox DEF Parsing, Types, ParserTypes, SysexTypes, ReferenceTypes
  <2> HIDE DEF m
  <2>6. due' = Append(due, m)
    BY <2>1, <2>3, <2>4, <2>5, SysexAssumption DEF Received, Deliverable
  <2>7. /\ sysex_data' \in Seq(Bytes) /\ Len(sysex_data') = Len(current) + 1
        /\ Exactly(sysex_data') \in Seq(SUBSET Bytes)
    <3>1. last \in Bytes
      BY <1>3
    <3>2. sysex_data' \in Seq(Bytes) /\ Len(sysex_data') = Len(current) + 1
      BY <1>3, <2>1, <2>2, <3>1, AppendFacts
    <3> QED
      BY <3>2, ExactlyFacts
  <2>8. Garbled(m) \/ Exactly(sysex_data') = Exactly(m.bytes)
    <3>1. CASE last = Eox
      BY <2>1, <2>2, <2>4, <3>1
    <3>2. CASE last # Eox
      <4>1. Len(current) = SYSEX_MAXLEN
        BY <2>1, <2>2, <3>2 DEF BufferFull
      <4> QED
        BY <2>1, <2>3, <2>4, <4>1, SysexAssumption DEF Garbled
    <3> QED
      BY <3>1, <3>2
  <2>9. Histories'
    BY <2>2, <2>4, <2>6, <2>7, <2>8, DeliverOne DEF Parsing
  <2>10. Types'
    <3>1. ParserTypes'
      BY <1>1, StatesFacts DEF Parsing, Types, ParserTypes
    <3>2. ReferenceTypes'
      BY <1>1, NoBytes DEF ReferenceTypes
    <3>3. SysexTypes'
      <4>1. st' # Sysex
        BY <1>1, Distinct
      <4> QED
        BY <2>1, <2>7, <4>1, SysexAssumption DEF SysexTypes
    <3> QED
      BY <3>1, <3>2, <3>3 DEF Types
  <2> QED
    BY <1>2, <2>9, <2>10 DEF Parsing
<1>5. CASE st # Sysex
  <2>1. UNCHANGED <<sysex_data, delivered>>
    BY <1>5 DEF EndOfSysex
  <2>2. current # <<>> /\ current[1] = Sysex => Len(current) > SYSEX_MAXLEN
    BY <1>5, Distinct, StatesFacts DEF Parsing, Types, ParserTypes, State, Nothing,
                                      InVoice, InSong, InNoLength, InTune, SoFar
  <2>3. due' = due
    <3>1. CASE current # <<>> /\ current[1] = Sysex
      <4> DEFINE m == [bytes |-> Append(current, Eox), running |-> running]
      <4>1. /\ Len(m.bytes) = Len(current) + 1 /\ Len(current) \in Nat /\ m.bytes[1] = Sysex
        BY <1>3, <3>1, AppendFacts
      <4>2. Received(m)
        BY <1>3, <3>1, ReceiveEox DEF Parsing, Types, ParserTypes, SysexTypes, ReferenceTypes
      <4> HIDE DEF m
      <4>3. ~Deliverable(m)
        BY <2>2, <3>1, <4>1, SysexAssumption DEF Deliverable
      <4> QED
        BY <4>2, <4>3 DEF Received
    <3>2. CASE ~(current # <<>> /\ current[1] = Sysex)
      BY <1>3, <3>2, ReceiveEox DEF Parsing, Types, ParserTypes, SysexTypes, ReferenceTypes
    <3> QED
      BY <3>1, <3>2
  <2>4. Histories'
    BY <2>1, <2>3, HistoriesStay DEF Parsing
  <2>5. Types'
    <3>1. ParserTypes'
      BY <1>1, StatesFacts DEF Parsing, Types, ParserTypes
    <3>2. ReferenceTypes'
      BY <1>1, NoBytes DEF ReferenceTypes
    <3>3. SysexTypes'
      BY <1>1, <2>1, Distinct, StatesFacts DEF Parsing, Types, SysexTypes
    <3> QED
      BY <3>1, <3>2, <3>3 DEF Types
  <2> QED
    BY <1>2, <2>4, <2>5 DEF Parsing
<1> QED
  BY <1>4, <1>5

LEMMA StartOfSysexStep ==
  ASSUME Parsing, StartOfSysex(Sysex), Receive(Sysex)
  PROVE  Parsing'
<1>1. /\ st' = Sysex /\ idx' = 1 /\ sysex_data' = <<Sysex>>
      /\ UNCHANGED <<len, message, delivered>>
  BY DEF StartOfSysex
<1>2. due' = due /\ running' = FALSE /\ status' = 0 /\ current' = <<Sysex>>
  <2>1. Sysex \in Statuses \ {Eox, Clock} /\ Sysex \notin {Note, Program, Tune}
    BY Distinct DEF Statuses
  <2> QED
    BY <2>1, ReceiveStatus
<1>3. Sysex \in Bytes /\ <<Sysex>> \in Seq(Bytes) /\ Len(<<Sysex>>) = 1
      /\ <<Sysex>> # <<>> /\ <<Sysex>>[1] = Sysex
  BY StatusFacts, Literals DEF Statuses
<1>4. Types'
  <2>1. ParserTypes'
    BY <1>1, <1>2, <1>3, Distinct, StatesFacts DEF Parsing, Types, ParserTypes
  <2>2. ReferenceTypes'
    BY <1>2, <1>3 DEF ReferenceTypes
  <2>3. SysexTypes'
    BY <1>1, <1>3, SysexAssumption DEF SysexTypes
  <2> QED
    BY <2>1, <2>2, <2>3 DEF Types
<1>5. State'
  BY <1>1, <1>2, <1>3, OneState DEF InSysex
<1> QED
  BY <1>1, <1>2, <1>4, <1>5, HistoriesStay DEF Parsing

LEMMA ShortStatusStep ==
  ASSUME NEW c \in Statuses, Parsing, ShortStatus(c), Receive(c)
  PROVE  Parsing'
<1>1. c \in {Note, Program, Song, Undefined, Tune} /\ c \in Statuses \ {Eox, Clock, Sysex}
  BY KindFacts, Distinct DEF ShortStatus, Statuses
<1>2. /\ message' = [NoCells EXCEPT ![0] = {c}]
      /\ len' = LengthOf(c) /\ st' = c /\ idx' = 1
      /\ UNCHANGED <<sysex_data, delivered>>
  BY DEF ShortStatus
<1>3. /\ due' = due /\ running' = FALSE
      /\ status' = IF c \in {Note, Program} THEN c ELSE 0
      /\ current' = IF c = Tune THEN <<>> ELSE <<c>>
  BY <1>1, ReceiveStatus
<1>4. /\ c \in Bytes /\ <<c>> \in Seq(Bytes) /\ Len(<<c>>) = 1 /\ <<c>> # <<>> /\ <<c>>[1] = c
  BY StatusFacts, Literals
<1>5. /\ message' \in [0..3 -> SUBSET Bytes]
      /\ \A k \in 0..3 : message'[k] = IF k < 1 THEN {c} ELSE {}
  BY <1>2, <1>4 DEF NoCells
<1>6. Types'
  <2>1. len' \in 0..3
    BY <1>1, <1>2, LengthFacts
  <2>2. current' \in Seq(Bytes)
    BY <1>3, <1>4, NoBytes
  <2>3. ParserTypes'
    BY <1>1, <1>2, <1>5, <2>1, StatesFacts DEF ParserTypes
  <2>4. ReferenceTypes'
    BY <1>3, <2>2 DEF ReferenceTypes
  <2>5. SysexTypes'
    BY <1>1, <1>2 DEF Parsing, Types, SysexTypes
  <2> QED
    BY <2>3, <2>4, <2>5 DEF Types
<1>7. State'
  <2>1. c # Tune => \A k \in 0..3 : message'[k] = IF k < idx' THEN {current'[k + 1]} ELSE {}
    BY <1>2, <1>3, <1>4, <1>5
  <2>2. c \in {Note, Program, Song} => SoFar'
    BY <1>1, <1>2, <1>3, <1>4, <2>1, LengthFacts, Distinct, StatesFacts DEF SoFar
  <2>3. CASE c \in {Note, Program}
    BY <1>2, <1>3, <2>2, <2>3, OneState DEF InVoice
  <2>4. CASE c = Song
    BY <1>2, <1>3, <2>2, <2>4, Distinct, OneState DEF InSong
  <2>5. CASE c = Undefined
    BY <1>2, <1>3, <1>4, <2>5, Distinct, LengthFacts, OneState DEF InNoLength
  <2>6. CASE c = Tune
    BY <1>2, <1>3, <2>6, Distinct, LengthFacts, OneState DEF InTune
  <2> QED
    BY <1>1, <2>3, <2>4, <2>5, <2>6
<1> QED
  BY <1>2, <1>3, <1>6, <1>7, HistoriesStay DEF Parsing

\* A data byte of a sysex message goes into sysex_data, or ends the state when that is full.
LEMMA SysexDataStep ==
  ASSUME NEW c \in 1..127, Parsing, SysexData(c), Receive(c)
  PROVE  Parsing'
<1>1. /\ st = Sysex /\ UNCHANGED <<len, message, delivered>>
      /\ IF BufferFull(Len(sysex_data))
           THEN st' = 0 /\ idx' = 0 /\ sysex_data' = sysex_data
           ELSE sysex_data' = Append(sysex_data, c) /\ idx' = Next4(idx) /\ st' = Sysex
  BY DEF SysexData
<1>2. /\ status = 0 /\ running = FALSE /\ current = sysex_data
      /\ current # <<>> /\ current[1] = Sysex
      /\ current \in Seq(Bytes) /\ Len(current) <= SYSEX_MAXLEN /\ Len(current) \in Nat
  BY <1>1, SysexAssumption DEF Parsing, State, InSysex, Types, SysexTypes
<1> DEFINE m == Append(current, c)
<1>3. /\ c \in Bytes /\ m \in Seq(Bytes) /\ Len(m) = Len(current) + 1 /\ m # <<>>
      /\ m[1] = Sysex /\ Last(m) = c
  <2>1. c \in Bytes
    BY DataFacts
  <2> QED
    BY <1>2, <2>1, AppendFacts
<1>4. ~Whole(m)
  <2>1. c # Eox
    BY DEF Eox
  <2> HIDE DEF m
  <2> QED
    BY <1>3, <2>1 DEF Whole
<1>5. status' = 0 /\ current' = m /\ running' = FALSE /\ due' = due
  BY <1>2, <1>4, ReceiveData
<1> HIDE DEF m
<1>6. Histories'
  BY <1>1, <1>5, HistoriesStay DEF Parsing
<1>7. ReferenceTypes'
  BY <1>3, <1>5 DEF ReferenceTypes
<1>8. CASE BufferFull(Len(sysex_data))
  <2>1. Len(current') > SYSEX_MAXLEN
    BY <1>2, <1>3, <1>5, <1>8, SysexAssumption DEF BufferFull
  <2>2. State'
    BY <1>1, <1>3, <1>5, <1>8, <2>1, OneState DEF Nothing
  <2>3. ParserTypes'
    BY <1>1, <1>8, StatesFacts DEF Parsing, Types, ParserTypes
  <2>4. SysexTypes'
    BY <1>1, <1>8, Distinct DEF Parsing, Types, SysexTypes
  <2> QED
    BY <1>6, <1>7, <2>2, <2>3, <2>4 DEF Parsing, Types
<1>9. CASE ~BufferFull(Len(sysex_data))
  <2>1. sysex_data' = m /\ st' = Sysex /\ idx' = Next4(idx)
    BY <1>1, <1>2, <1>9 DEF m
  <2>2. State'
    BY <1>3, <1>5, <2>1, OneState DEF InSysex
  <2>3. ParserTypes'
    BY <1>1, <2>1, StatesFacts DEF Parsing, Types, ParserTypes, Next4
  <2>4. SysexTypes'
    BY <1>2, <1>3, <1>9, <2>1, SysexAssumption DEF SysexTypes, BufferFull
  <2> QED
    BY <1>6, <1>7, <2>2, <2>3, <2>4 DEF Parsing, Types
<1> QED
  BY <1>8, <1>9

\* A data byte out of place is ignored, also one of a sysex message that did not fit.
LEMMA StrayDataStep ==
  ASSUME NEW c \in 1..127, Parsing, StrayData(c), Receive(c)
  PROVE  Parsing'
<1>1. st = 0 /\ UNCHANGED <<st, idx, len, message, sysex_data, delivered>>
  BY DEF StrayData, parser
<1>2. /\ status = 0 /\ running = FALSE /\ current \in Seq(Bytes)
      /\ current # <<>> => current[1] = Sysex /\ Len(current) > SYSEX_MAXLEN
  BY <1>1 DEF Parsing, State, Nothing, Types, ReferenceTypes
<1>3. /\ status' = 0 /\ running' = FALSE /\ due' = due /\ current' \in Seq(Bytes)
      /\ current' # <<>> => current'[1] = Sysex /\ Len(current') > SYSEX_MAXLEN
  <2>1. CASE current = <<>>
    <3>1. ~Whole(<<>>)
      BY DEF Whole
    <3> QED
      BY <1>2, <2>1, <3>1, NoBytes, ReceiveData
  <2>2. CASE current # <<>>
    <3> DEFINE m == Append(current, c)
    <3>1. /\ m \in Seq(Bytes) /\ Len(m) = Len(current) + 1 /\ Len(current) \in Nat /\ m # <<>>
          /\ m[1] = Sysex /\ Last(m) = c
      <4>1. c \in Bytes
        BY DataFacts
      <4> QED
        BY <1>2, <2>2, <4>1, AppendFacts
    <3>2. ~Whole(m)
      <4>1. c # Eox
        BY DEF Eox
      <4> HIDE DEF m
      <4> QED
        BY <3>1, <4>1 DEF Whole
    <3>3. status' = 0 /\ current' = m /\ running' = FALSE /\ due' = due
      BY <1>2, <2>2, <3>2, ReceiveData
    <3> HIDE DEF m
    <3> QED
      BY <1>2, <2>2, <3>1, <3>3, SysexAssumption
  <2> QED
    BY <2>1, <2>2
<1>4. State'
  BY <1>1, <1>3, OneState DEF Nothing
<1>5. Types'
  BY <1>1, <1>3 DEF Parsing, Types, ParserTypes, SysexTypes, ReferenceTypes
<1> QED
  BY <1>1, <1>3, <1>4, <1>5, HistoriesStay DEF Parsing

\* message |= c << (8 * k) keeps the type of message.
LEMMA OrFacts ==
  ASSUME NEW m \in [0..3 -> SUBSET Bytes], NEW k \in 0..4, NEW c \in Bytes
  PROVE  /\ Or(m, k, c) \in [0..3 -> SUBSET Bytes]
         /\ \A j \in 0..3 : Or(m, k, c)[j] = IF j = k THEN m[j] \union {c} ELSE m[j]
BY DEF Or

\* The bytes of a message that is delivered.
LEMMA CellsFacts ==
  ASSUME NEW m \in [0..3 -> SUBSET Bytes], NEW n \in 1..4
  PROVE  /\ Cells(m, n) \in Seq(SUBSET Bytes) /\ Len(Cells(m, n)) = n
         /\ \A j \in 1..n : Cells(m, n)[j] = m[j - 1]
<1>1. Cells(m, n) \in [1..n -> SUBSET Bytes] /\ n \in Nat
  BY DEF Cells
<1>2. \A j \in 1..n : Cells(m, n)[j] = m[j - 1]
  BY DEF Cells
<1> HIDE DEF Cells
<1> QED
  BY <1>1, <1>2

\* A message with a status byte of its own gets its next byte: it is delivered as it was sent
\* if that was its last one, and its bytes so far are in message if not.
LEMMA NextByte ==
  ASSUME NEW c \in 1..127, Parsing, ShortData(c), Receive(c),
         st \in {Note, Program, Song}, SoFar
  PROVE  /\ status' = status /\ len' = len /\ sysex_data' = sysex_data
         /\ message' \in [0..3 -> SUBSET Bytes]
         /\ Histories'
         /\ IF idx + 1 = len
              THEN st' = StatusAfter(st) /\ idx' = 0 /\ current' = <<>> /\ running' = FALSE
              ELSE st' = st /\ idx' = idx + 1 /\ current' \in Seq(Bytes) /\ running' = running
                   /\ SoFar'
<1>1. /\ len = LengthOf(st) /\ len \in {2, 3} /\ idx \in 1..len - 1 /\ idx \in {1, 2}
      /\ current \in Seq(Bytes) /\ Len(current) = idx /\ current[1] = st
      /\ message \in [0..3 -> SUBSET Bytes] /\ running \in BOOLEAN /\ c \in Bytes
  <2>1. len = LengthOf(st) /\ len \in {2, 3} /\ idx \in 1..len - 1
    BY LengthFacts DEF SoFar
  <2>2. idx \in {1, 2}
    BY <2>1
  <2> QED
    BY <2>1, <2>2, DataFacts DEF SoFar, Parsing, Types, ParserTypes, ReferenceTypes
<1> DEFINE m == Or(message, idx, c)
           n == Append(current, c)
           e == [bytes |-> n, running |-> running]
<1>2. /\ m \in [0..3 -> SUBSET Bytes]
      /\ \A j \in 0..3 : m[j] = IF j = idx THEN message[j] \union {c} ELSE message[j]
  <2>1. idx \in 0..4 /\ message \in [0..3 -> SUBSET Bytes] /\ c \in Bytes
    BY <1>1
  <2>2. /\ Or(message, idx, c) \in [0..3 -> SUBSET Bytes]
        /\ \A j \in 0..3 : Or(message, idx, c)[j] = IF j = idx THEN message[j] \union {c}
                                                           ELSE message[j]
    BY <2>1, OrFacts
  <2> QED
    BY <2>2
<1>3. /\ n \in Seq(Bytes) /\ Len(n) = idx + 1 /\ n # <<>> /\ n[1] = st /\ n[idx + 1] = c
      /\ current # <<>> /\ \A j \in 1..idx : n[j] = current[j]
  <2>1. current # <<>>
    BY <1>1
  <2> QED
    BY <1>1, <2>1, AppendFacts
<1>4. /\ message' = m /\ len' = len /\ sysex_data' = sysex_data
      /\ IF idx + 1 = len
           THEN delivered' = Append(delivered, Cells(m, len)) /\ st' = StatusAfter(st) /\ idx' = 0
           ELSE delivered' = delivered /\ st' = st /\ idx' = idx + 1
  <2>1. idx # 0 /\ Next4(idx) = idx + 1
    BY <1>1 DEF Next4
  <2> QED
    BY <2>1 DEF ShortData
<1> HIDE DEF m, n
<1>5. st # Sysex /\ st # Tune
  BY Distinct
<1>6. Whole(n) <=> idx + 1 = len
  BY <1>1, <1>3, <1>5 DEF Whole
<1>7. /\ status' = status
      /\ IF idx + 1 = len THEN Received(e) /\ current' = <<>> /\ running' = FALSE
                          ELSE current' = n /\ running' = running /\ due' = due
  <2>1. /\ status' = status
        /\ IF Whole(n) THEN Received(e) /\ current' = <<>> /\ running' = FALSE
                       ELSE current' = n /\ running' = running /\ due' = due
    <3>1. ((current = <<>> /\ status # 0) \/ (current # <<>> /\ running)) = running
      BY <1>1, <1>3
    <3> QED
      BY <1>3, <3>1, ReceiveData DEF n
  <2> QED
    BY <1>6, <2>1
<1>8. ~running => \A j \in 0..3 : m[j] = IF j < idx + 1 THEN {n[j + 1]} ELSE {}
  <2> SUFFICES ASSUME ~running, NEW j \in 0..3
               PROVE  m[j] = IF j < idx + 1 THEN {n[j + 1]} ELSE {}
    OBVIOUS
  <2>1. message[j] = IF j < idx THEN {current[j + 1]} ELSE {}
    BY DEF SoFar
  <2>2. CASE j < idx
    <3>1. j # idx /\ j + 1 \in 1..idx /\ j < idx + 1
      BY <1>1, <2>2
    <3>2. m[j] = message[j] /\ n[j + 1] = current[j + 1]
      BY <1>2, <1>3, <3>1
    <3> QED
      BY <2>1, <2>2, <3>1, <3>2
  <2>3. CASE j = idx
    <3>1. ~(j < idx) /\ j < idx + 1 /\ n[j + 1] = c
      BY <1>1, <1>3, <2>3
    <3>2. m[j] = message[j] \union {c} /\ message[j] = {}
      BY <1>2, <2>1, <2>3, <3>1
    <3> QED
      BY <3>1, <3>2
  <2>4. CASE j > idx
    BY <1>1, <1>2, <2>1, <2>4
  <2> QED
    BY <1>1, <2>2, <2>3, <2>4
<1>9. CASE idx + 1 = len
  <2>1. e \in Message /\ e.bytes = n /\ e.running = running
    BY <1>1, <1>3 DEF Message
  <2>2. Cells(m, len) \in Seq(SUBSET Bytes)
    <3>1. len \in 1..4
      BY <1>1
    <3> QED
      BY <1>2, <3>1, CellsFacts
  <2>3. ~running => Cells(m, len) = Exactly(n)
    <3> SUFFICES ASSUME ~running PROVE Cells(m, len) = Exactly(n)
      OBVIOUS
    <3>1. \A j \in 1..len : m[j - 1] = {n[j]}
      <4> SUFFICES ASSUME NEW j \in 1..len PROVE m[j - 1] = {n[j]}
        OBVIOUS
      <4>1. j - 1 \in 0..3 /\ j - 1 < idx + 1 /\ (j - 1) + 1 = j
        BY <1>1, <1>9
      <4> QED
        BY <1>8, <4>1
    <3> QED
      BY <1>3, <1>9, <3>1 DEF Cells, Exactly
  <2>4. due' = Append(due, e)
    <3>1. e.bytes[1] = st
      BY <1>3, <2>1
    <3> HIDE DEF e
    <3> QED
      BY <1>5, <1>7, <1>9, <3>1 DEF Received, Deliverable
  <2> HIDE DEF e
  <2>5. Garbled(e) \/ Cells(m, len) = Exactly(e.bytes)
    BY <2>1, <2>3 DEF Garbled
  <2>6. Histories'
    BY <1>4, <1>9, <2>1, <2>2, <2>4, <2>5, DeliverOne DEF Parsing
  <2> QED
    BY <1>2, <1>4, <1>7, <1>9, <2>6
<1>10. CASE idx + 1 # len
  <2>1. Histories'
    BY <1>4, <1>7, <1>10, HistoriesStay DEF Parsing
  <2>2. SoFar'
    <3>1. idx' = idx + 1 /\ len' = len /\ st' = st /\ current' = n /\ running' = running
          /\ message' = m
      BY <1>4, <1>7, <1>10
    <3>2. idx + 1 \in 1..len - 1
      BY <1>1, <1>10
    <3> QED
      BY <1>1, <1>3, <1>8, <3>1, <3>2 DEF SoFar
  <2> QED
    BY <1>2, <1>3, <1>4, <1>7, <1>10, <2>1, <2>2
<1> QED
  BY <1>9, <1>10

\* The first byte under running status: it goes onto the status byte of the message before.
LEMMA RunningByte ==
  ASSUME NEW c \in 1..127, Parsing, ShortData(c), Receive(c),
         st \in {Note, Program}, idx = 0
  PROVE  /\ status' = st /\ len' = len /\ sysex_data' = sysex_data
         /\ message' \in [0..3 -> SUBSET Bytes]
         /\ st' = st /\ Histories'
         /\ IF len = 2 THEN idx' = 0 /\ current' = <<>> /\ running' = FALSE
                       ELSE idx' = 2 /\ current' \in Seq(Bytes) /\ running' = TRUE /\ SoFar'
<1>1. /\ status = st /\ len = LengthOf(st) /\ current = <<>> /\ len \in {2, 3}
      /\ message \in [0..3 -> SUBSET Bytes] /\ c \in Bytes /\ st \in Bytes
  <2>1. IsVoice(st)
    BY StatesFacts, Distinct
  <2>2. status = st /\ len = LengthOf(st) /\ current = <<>>
    BY <2>1 DEF Parsing, State, InVoice
  <2> QED
    BY <2>2, LengthFacts, DataFacts, StatusFacts DEF Parsing, Types, ParserTypes, Statuses
<1> DEFINE m == Or(Or(message, 0, c), 1, c)
           n == <<st, c>>
           e == [bytes |-> n, running |-> TRUE]
<1>2. m \in [0..3 -> SUBSET Bytes]
  <2>1. Or(message, 0, c) \in [0..3 -> SUBSET Bytes]
    BY <1>1, OrFacts
  <2> QED
    BY <1>1, <2>1, OrFacts
<1>3. /\ n \in Seq(Bytes) /\ Len(n) = 2 /\ n # <<>> /\ n[1] = st
  BY <1>1, Literals
<1>4. /\ message' = m /\ len' = len /\ sysex_data' = sysex_data /\ st' = st
      /\ IF len = 2 THEN delivered' = Append(delivered, Cells(m, len)) /\ idx' = 0
                    ELSE delivered' = delivered /\ idx' = 2
  <2>1. Next4(1) = 2 /\ StatusAfter(st) = st
    BY Distinct, StatesFacts DEF Next4, StatusAfter
  <2> QED
    BY <2>1 DEF ShortData
<1> HIDE DEF m, n
<1>5. st # Sysex /\ st # Tune /\ st # 0
  BY Distinct
<1>6. Whole(n) <=> len = 2
  BY <1>1, <1>3, <1>5 DEF Whole
<1>7. /\ status' = status
      /\ IF len = 2 THEN Received(e) /\ current' = <<>> /\ running' = FALSE
                    ELSE current' = n /\ running' = TRUE /\ due' = due
  <2>1. /\ status' = status
        /\ IF Whole(n) THEN Received(e) /\ current' = <<>> /\ running' = FALSE
                       ELSE current' = n /\ running' = TRUE /\ due' = due
    BY <1>1, <1>5, ReceiveData DEF n
  <2> QED
    BY <1>6, <2>1
<1>8. CASE len = 2
  <2>1. e \in Message /\ e.bytes = n /\ e.running = TRUE
    BY <1>3 DEF Message
  <2>2. Cells(m, len) \in Seq(SUBSET Bytes)
    BY <1>2, <1>8, CellsFacts
  <2>3. due' = Append(due, e)
    <3>1. e.bytes[1] = st
      BY <1>3, <2>1
    <3> HIDE DEF e
    <3> QED
      BY <1>5, <1>7, <1>8, <3>1 DEF Received, Deliverable
  <2> HIDE DEF e
  <2>4. Garbled(e)
    BY <2>1 DEF Garbled
  <2>5. Histories'
    BY <1>4, <1>8, <2>1, <2>2, <2>3, <2>4, DeliverOne DEF Parsing
  <2> QED
    BY <1>1, <1>2, <1>4, <1>7, <1>8, <2>5
<1>9. CASE len = 3
  <2>1. Histories'
    BY <1>4, <1>7, <1>9, HistoriesStay DEF Parsing
  <2>2. SoFar'
    BY <1>1, <1>3, <1>4, <1>7, <1>9 DEF SoFar
  <2> QED
    BY <1>1, <1>2, <1>3, <1>4, <1>7, <1>9, <2>1, <2>2
<1> QED
  BY <1>1, <1>8, <1>9

\* A data byte outside sysex, whatever the status byte before it.
LEMMA ShortDataStep ==
  ASSUME NEW c \in 1..127, Parsing, ShortData(c), Receive(c)
  PROVE  Parsing'
<1>1. st \in {Note, Program, Song, Undefined, Tune}
  BY StatesFacts DEF ShortData, Parsing, Types, ParserTypes
<1>2. /\ sysex_data' = sysex_data /\ len' = len
      /\ st' \in {st, StatusAfter(st)} /\ idx' \in 0..4
  BY DEF ShortData, Next4, Parsing, Types, ParserTypes
<1>3. SysexTypes'
  <2>1. st' # Sysex
    BY <1>1, <1>2, Distinct DEF StatusAfter
  <2> QED
    BY <1>2, <2>1 DEF Parsing, Types, SysexTypes
<1>4. st' \in States
  BY <1>1, <1>2, StatesFacts DEF StatusAfter
<1>5. ASSUME message' \in [0..3 -> SUBSET Bytes] PROVE ParserTypes'
  BY <1>2, <1>4, <1>5 DEF Parsing, Types, ParserTypes
<1>6. CASE st \in {Note, Program, Song} /\ SoFar
  <2>1. /\ status' = status /\ message' \in [0..3 -> SUBSET Bytes] /\ Histories'
        /\ IF idx + 1 = len
             THEN st' = StatusAfter(st) /\ idx' = 0 /\ current' = <<>> /\ running' = FALSE
             ELSE st' = st /\ idx' = idx + 1 /\ current' \in Seq(Bytes) /\ running' = running
                  /\ SoFar'
    BY <1>6, NextByte
  <2>2. ReferenceTypes'
    BY <2>1, NoBytes DEF Parsing, Types, ReferenceTypes
  <2>3. idx + 1 # 0 /\ len = LengthOf(st)
    BY <1>6 DEF SoFar
  <2>4. CASE st = Song
    <3>1. status = 0 /\ ~running /\ StatusAfter(st) = 0
      BY <2>4, StatesFacts, Distinct DEF Parsing, State, InSong, StatusAfter
    <3>2. ASSUME idx + 1 = len PROVE State'
      BY <2>1, <3>1, <3>2, OneState DEF Nothing
    <3>3. ASSUME idx + 1 # len PROVE State'
      BY <2>1, <2>4, <3>1, <3>3, OneState DEF InSong
    <3> QED
      BY <1>3, <1>5, <2>1, <2>2, <3>2, <3>3 DEF Parsing, Types
  <2>5. CASE st \in {Note, Program}
    <3>1. status = st /\ StatusAfter(st) = st
      BY <2>5, StatesFacts, Distinct DEF Parsing, State, InVoice, StatusAfter
    <3>2. InVoice'
      <4>1. CASE idx + 1 = len
        BY <1>2, <2>1, <2>3, <3>1, <4>1 DEF InVoice
      <4>2. CASE idx + 1 # len
        BY <2>1, <2>3, <3>1, <4>2 DEF InVoice
      <4> QED
        BY <4>1, <4>2
    <3>3. st' \in {Note, Program}
      BY <2>1, <2>5, <3>1
    <3>4. State'
      BY <3>2, <3>3, OneState
    <3> QED
      BY <1>3, <1>5, <2>1, <2>2, <3>4 DEF Parsing, Types
  <2> QED
    BY <1>6, <2>4, <2>5
<1>7. CASE st \in {Note, Program} /\ idx = 0
  <2>1. /\ status' = st /\ st' = st /\ message' \in [0..3 -> SUBSET Bytes] /\ Histories'
        /\ IF len = 2 THEN idx' = 0 /\ current' = <<>> /\ running' = FALSE
                      ELSE idx' = 2 /\ current' \in Seq(Bytes) /\ running' = TRUE /\ SoFar'
    BY <1>7, RunningByte
  <2>2. ReferenceTypes'
    BY <1>7, <2>1, NoBytes DEF ReferenceTypes
  <2>3. len = LengthOf(st)
    BY <1>7, StatesFacts, Distinct DEF Parsing, State, InVoice
  <2>4. InVoice'
    BY <1>2, <2>1, <2>3 DEF InVoice
  <2>5. State'
    BY <1>7, <2>1, <2>4, OneState
  <2> QED
    BY <1>3, <1>5, <2>1, <2>2, <2>5 DEF Parsing, Types
<1>8. CASE st \in {Undefined, Tune}
  <2>1. /\ idx \in 1..4 /\ len \in {0, 1} /\ status = 0 /\ c \in Bytes
        /\ st = Undefined => current # <<>> /\ current[1] = Undefined /\ len = 0
        /\ st = Tune => current = <<>> /\ running = FALSE /\ len = 1
        /\ message \in [0..3 -> SUBSET Bytes] /\ current \in Seq(Bytes) /\ running \in BOOLEAN
    <3>1. /\ idx \in 0..4 /\ message \in [0..3 -> SUBSET Bytes] /\ current \in Seq(Bytes)
          /\ running \in BOOLEAN
      BY DEF Parsing, Types, ParserTypes, ReferenceTypes
    <3>2. st = Undefined => /\ status = 0 /\ len = 0 /\ idx > 0
                            /\ current # <<>> /\ current[1] = Undefined
      BY DEF Parsing, State, InNoLength
    <3>3. st = Tune => status = 0 /\ ~running /\ len = 1 /\ idx > 0 /\ current = <<>>
      BY DEF Parsing, State, InTune
    <3>4. c \in Bytes
      BY DataFacts
    <3> QED
      BY <1>8, <3>1, <3>2, <3>3, <3>4
  <2>2. /\ message' = Or(message, idx, c) /\ delivered' = delivered
        /\ st' = st /\ idx' \in 1..4
    <3>1. idx # 0 /\ Next4(idx) # len /\ Next4(idx) \in 1..4
      BY <2>1 DEF Next4
    <3> QED
      BY <3>1 DEF ShortData
  <2>3. message' \in [0..3 -> SUBSET Bytes]
    <3>1. idx \in 0..4
      BY <2>1
    <3> QED
      BY <2>1, <2>2, <3>1, OrFacts
  <2>4. CASE st = Tune
    <3>1. ~Whole(<<>>)
      BY DEF Whole
    <3>2. status' = 0 /\ current' = <<>> /\ running' = FALSE /\ due' = due
      BY <2>1, <2>4, <3>1, ReceiveData
    <3>3. State'
      BY <1>2, <2>1, <2>2, <2>4, <3>2, OneState DEF InTune
    <3>4. ReferenceTypes'
      BY <3>2, NoBytes DEF ReferenceTypes
    <3> QED
      BY <1>3, <1>5, <2>2, <2>3, <3>2, <3>3, <3>4, HistoriesStay DEF Parsing, Types
  <2>5. CASE st = Undefined
    <3> DEFINE m == Append(current, c)
    <3>1. /\ m \in Seq(Bytes) /\ m # <<>> /\ m[1] = Undefined
          /\ Len(m) = Len(current) + 1 /\ Len(current) \in Nat
      BY <2>1, <2>5, AppendFacts
    <3>2. ~Whole(m)
      <4>1. Undefined # Sysex /\ LengthOf(Undefined) = 0
        BY Distinct, LengthFacts
      <4> HIDE DEF m
      <4> QED
        BY <3>1, <4>1 DEF Whole
    <3>3. status' = 0 /\ current' = m /\ running' \in BOOLEAN /\ due' = due
      BY <2>1, <2>5, <3>2, ReceiveData
    <3> HIDE DEF m
    <3>4. State'
      BY <1>2, <2>1, <2>2, <2>5, <3>1, <3>3, OneState DEF InNoLength
    <3>5. ReferenceTypes'
      BY <3>1, <3>3 DEF ReferenceTypes
    <3> QED
      BY <1>3, <1>5, <2>2, <2>3, <3>3, <3>4, <3>5, HistoriesStay DEF Parsing, Types
  <2> QED
    BY <1>8, <2>4, <2>5
<1>9. st \in {Note, Program} => SoFar \/ idx = 0
  BY StatesFacts, Distinct DEF Parsing, State, InVoice
<1>10. st = Song => SoFar
  BY DEF Parsing, State, InSong
<1> QED
  BY <1>1, <1>6, <1>7, <1>8, <1>9, <1>10

-----------------------------------------------------------------------------
(* The theorems.                                                           *)

LEMMA InitIInv == Init => IInv
<1> SUFFICES ASSUME Init PROVE IInv
  OBVIOUS
<1>1. /\ st = 0 /\ idx = 0 /\ len = 0 /\ sysex_data = <<>> /\ message = NoCells
      /\ delivered = <<>> /\ due = <<>>
      /\ status = 0 /\ current = <<>> /\ running = FALSE
      /\ bytes = 0 /\ data = 0 /\ reopened = 0
  BY DEF Init, Fresh
<1>2. Types
  <2>1. ParserTypes
    BY <1>1, StatesFacts DEF ParserTypes, NoCells
  <2>2. SysexTypes
    <3>1. Len(<<>>) = 0
      OBVIOUS
    <3> QED
      BY <1>1, <3>1, NoBytes, SysexAssumption DEF SysexTypes
  <2>3. ReferenceTypes
    BY <1>1, NoBytes DEF ReferenceTypes
  <2> QED
    BY <2>1, <2>2, <2>3 DEF Types
<1>3. State
  BY <1>1, StatesFacts, Distinct
     DEF State, Nothing, InSysex, InVoice, InSong, InNoLength, InTune
<1>4. Histories
  <2>1. <<>> \in Seq(Message) /\ <<>> \in Seq(Seq(SUBSET Bytes)) /\ 1..Len(<<>>) = {}
    OBVIOUS
  <2> QED
    BY <1>1, <2>1 DEF Histories, DeliveredIsSent
<1>5. Counters
  BY <1>1, SysexAssumption DEF Counters
<1> QED
  BY <1>2, <1>3, <1>4, <1>5 DEF IInv, Parsing

LEMMA ReadByteIInv == IInv /\ ReadByte => IInv'
<1> SUFFICES ASSUME IInv, ReadByte PROVE IInv'
  OBVIOUS
<1>1. PICK c \in Statuses \union {After(data)} :
        /\ Parse(c) /\ Receive(c)
        /\ data' = IF IsStatus(c) THEN data ELSE c
  BY DEF ReadByte
<1>2. Counters'
  <2>1. data' \in 0..127
    BY <1>1, DataFacts, StatusFacts DEF IInv, Counters
  <2>2. bytes' \in 0..MaxBytes /\ reopened' \in 0..MaxReopen
    BY SysexAssumption DEF IInv, Counters, ReadByte
  <2> QED
    BY <2>1, <2>2 DEF Counters
<1>3. c \in Statuses \/ (c \in 1..127 /\ ~IsStatus(c))
  BY DataFacts DEF IInv, Counters
<1>4. CASE RealTime(c)
  <2>1. c = Clock
    <3>1. c >= 248
      BY <1>4 DEF RealTime
    <3>2. c \notin 1..127
      BY <3>1
    <3> QED
      BY <1>3, <3>1, <3>2, StatusFacts
  <2> QED
    BY <1>1, <1>2, <1>4, <2>1, RealTimeStep DEF IInv
<1>5. CASE EndOfSysex(c)
  BY <1>1, <1>2, <1>5, EndOfSysexStep DEF IInv, EndOfSysex
<1>6. CASE StartOfSysex(c)
  BY <1>1, <1>2, <1>6, StartOfSysexStep DEF IInv, StartOfSysex
<1>7. CASE ShortStatus(c)
  <2>1. c \in Statuses
    BY <1>3, <1>7 DEF ShortStatus, IsVoice, IsCommon
  <2> QED
    BY <1>1, <1>2, <1>7, <2>1, ShortStatusStep DEF IInv
<1>8. c \in 1..127 \/ IsStatus(c)
  BY <1>3, StatusFacts
<1>9. CASE SysexData(c)
  BY <1>1, <1>2, <1>8, <1>9, SysexDataStep DEF IInv, SysexData
<1>10. CASE ShortData(c)
  BY <1>1, <1>2, <1>8, <1>10, ShortDataStep DEF IInv, ShortData
<1>11. CASE StrayData(c)
  BY <1>1, <1>2, <1>8, <1>11, StrayDataStep DEF IInv, StrayData
<1> QED
  BY <1>1, <1>4, <1>5, <1>6, <1>7, <1>9, <1>10, <1>11 DEF Parse

\* A stream that is opened again begins as the first one did.
LEMMA ReopenIInv == IInv /\ Reopen => IInv'
<1> SUFFICES ASSUME IInv, Reopen PROVE IInv'
  OBVIOUS
<1>1. /\ st' = 0 /\ idx' = 0 /\ len' = 0 /\ sysex_data' = <<>> /\ message' = NoCells
      /\ status' = 0 /\ current' = <<>> /\ running' = FALSE
      /\ reopened < MaxReopen /\ reopened' = reopened + 1
      /\ UNCHANGED <<delivered, due, bytes, data>>
  BY DEF Reopen
<1>2. ParserTypes'
  BY <1>1, StatesFacts DEF ParserTypes, NoCells
<1>3. SysexTypes'
  <2>1. Len(<<>>) = 0
    OBVIOUS
  <2> QED
    BY <1>1, <2>1, NoBytes, SysexAssumption DEF SysexTypes
<1>4. ReferenceTypes'
  BY <1>1, NoBytes DEF ReferenceTypes
<1>5. State'
  BY <1>1, OneState DEF Nothing
<1>6. Histories'
  BY <1>1, HistoriesStay DEF IInv, Parsing
<1>7. Counters'
  BY <1>1, SysexAssumption DEF IInv, Counters
<1> QED
  BY <1>2, <1>3, <1>4, <1>5, <1>6, <1>7 DEF IInv, Parsing, Types

LEMMA Inductive == Spec => []IInv
<1>1. IInv /\ UNCHANGED vars => IInv'
  <2> SUFFICES ASSUME IInv, UNCHANGED vars PROVE IInv'
    OBVIOUS
  <2>1. UNCHANGED Apart /\ UNCHANGED <<due, delivered>> /\ UNCHANGED <<data, bytes, reopened>>
    BY DEF vars, parser, reference, Apart
  <2>2. Counters'
    BY <2>1 DEF IInv, Counters
  <2> QED
    BY <2>1, <2>2, StateStays, HistoriesStay DEF IInv, Parsing
<1>2. IInv /\ [Next]_vars => IInv'
  BY <1>1, ReadByteIInv, ReopenIInv DEF Next
<1> QED
  BY <1>2, InitIInv, PTL DEF Spec

\* The parser and its buffers keep their types: whatever the device sends, the data of a sysex
\* message stays inside sysex_data, and only its EOX can be stored one past the end
\* (pmsndio.c:158-160).
THEOREM TypeCorrect == Spec => []TypeOK
<1>1. IInv => TypeOK
  BY DEF IInv, Parsing, Counters, Types, ParserTypes, SysexTypes, ReferenceTypes, States, TypeOK
<1> QED
  BY <1>1, Inductive, PTL

\* Every message the backend can deliver is delivered once, when its last byte comes, and as it
\* was sent unless it came under running status or did not fit, for any length of sysex_data
\* and any bytes around it (pmsndio.c:139-207).
THEOREM MessagesAreDelivered == Spec => []DeliveredIsSent
<1>1. IInv => DeliveredIsSent
  BY DEF IInv, Parsing, Histories
<1> QED
  BY <1>1, Inductive, PTL
=============================================================================
