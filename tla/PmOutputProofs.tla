---------------------------- MODULE PmOutputProofs ----------------------------
(***************************************************************************)
(* Output, for any sizes of the buffers, any number of calls and failures: *)
(* types, the order of the bytes, and that nothing written is lost.        *)
(***************************************************************************)
EXTENDS PmOutput, SequenceTheorems, FiniteSetTheorems, WellFoundedInduction, TLAPS

(***************************************************************************)
(* The inductive invariant.                                                *)
(*   Capacity    How much is in the buffers of each backend.               *)
(*   Place       Where the call in progress is.                            *)
(*   Content     What it still has to handle is made of events as an       *)
(*               application writes them; where in the first it is.        *)
(*   NotEmbedded No real-time message is written inside sysex, unless the  *)
(*               history says so.                                          *)
(*   Ordered     The data bytes on their way and those still to come are   *)
(*               in the order in which they were written.                  *)
(*   Complete    Without errors, what is on its way and what is still to   *)
(*               come is all that was written.                             *)
(*   Behind      After errors, too: it ends with what the last call wrote. *)
(***************************************************************************)
Data == {n \in Nat : n > 255}
Byte == {Note, Clock, Sysex, Eox, Unused} \union Data
Driver == [part : Seq(Byte), list : Seq(Byte), wire : Seq(Byte), fill_base : BOOLEAN]

Labels  == {"idle", "event", "first", "bytes", "end", "chunk", "fill", "filled"}
Results == {"pmNoError", "pmBadData", "pmHostError", "pmDeviceRemoved"}

Types ==
  /\ sysex_in_progress \in BOOLEAN /\ pc \in Labels
  /\ rest \in Seq(Byte) /\ Len(rest) % 4 = 0 /\ bits \in 0..3 /\ msg \in Seq(Byte)
  /\ buffer_size \in Nat \ {0} /\ result \in Results
  /\ backend \in {"mac", "alsa", "winmm", "haiku", "synth", "sndio"} /\ is_removed \in BOOLEAN

PastTypes ==
  /\ calls \in Nat /\ data \in Nat /\ errors \in Nat /\ failures \in Nat
  /\ intended \in Seq(Byte) /\ embedded \in BOOLEAN
  /\ before \in [sent : Nat, sysex : BOOLEAN] /\ before.sent <= Len(intended)

Fits(d) ==
  /\ d \in Driver
  /\ backend = "mac" => Len(d.part) <= SysexBuffer /\ Len(d.list) <= PacketBuffer
  /\ backend = "alsa" => Len(d.part) < SysexBuffer
  /\ backend = "winmm" => Len(d.part) <= fill_length
  /\ backend = "sndio" => d.part = <<>>
  /\ backend \notin {"mac", "alsa"} => d.list = <<>>
  /\ d.fill_base => backend = "winmm" /\ Len(d.part) > 0

Capacity == Fits(driver)

WellFormed(a, b, c, d) ==
  \/ a = Note /\ b \in Data /\ c \in Data /\ d = Unused
  \/ a = Clock /\ b = Unused /\ c = Unused /\ d = Unused
  \/ /\ a \in {Sysex, Eox} \union Data
     /\ b \in {Eox, Unused} \union Data /\ (b = Unused <=> a = Eox)
     /\ c \in {Eox, Unused} \union Data /\ (c = Unused <=> b \in {Eox, Unused})
     /\ d \in {Eox, Unused} \union Data /\ (d = Unused <=> c \in {Eox, Unused})

EventsIn(bytes) ==
  \A k \in DOMAIN bytes :
    k % 4 = 1 => WellFormed(bytes[k], bytes[k + 1], bytes[k + 2], bytes[k + 3])

IsMessage(m) ==
  \A k \in DOMAIN m : /\ m[k] = Eox <=> k = Len(m)
                      /\ m[k] \in {Eox} \union Data \/ (k = 1 /\ m[k] = Sysex)

Place ==
  /\ pc \in {"idle", "chunk", "fill", "filled"} => rest = <<>>
  /\ pc \in {"idle", "filled"} => msg = <<>>
  /\ pc # "bytes" => bits = 0
  /\ pc \in {"first", "bytes"} => Len(rest) > 0
  /\ pc \in {"first", "bytes", "end", "fill", "filled"} => sysex_in_progress
  /\ pc = "first" => backend = "alsa" \/ driver.part = <<>>
  /\ pc \in {"fill", "filled"} => backend = "winmm"

Content ==
  /\ EventsIn(rest) /\ IsMessage(msg)
  /\ pc = "first" => rest[1] = Sysex
  /\ pc = "bytes" => /\ rest[1] # Note /\ (bits = 0 => rest[1] # Sysex)
                     /\ \A k \in 1..bits : rest[k] \notin {Eox, Unused} \/ rest[1] = Clock
  /\ pc = "end" /\ backend = "alsa" => driver.part = <<>>

Lacks(bytes, byte) == \A k \in DOMAIN bytes : bytes[k] # byte

NotEmbedded ==
  ~embedded => Lacks(rest, Clock) \/ (~sysex_in_progress /\ Lacks(rest, Sysex) /\ msg = <<>>)

RestOf(r, k, m) == SubSeq(r, k + 1, Len(r)) \o m
Remaining == RestOf(rest, bits, msg)
Out(d)    == d.wire \o d.list
Line(d)   == Out(d) \o d.part
Stream    == IF sysex_in_progress /\ pc # "first" THEN Line(driver) ELSE Out(driver)
Track     == IF backend = "alsa" THEN Line(driver) ELSE Stream

Numbers(bytes, n) == \A k \in DOMAIN bytes : IsData(bytes[k]) => bytes[k] <= n
Sorted(bytes, n)  == Increasing(bytes) /\ Numbers(bytes, n)

Ordered == backend # "winmm" => Sorted(Track \o Remaining, 255 + data)

Flow    == Stream \o Sent(Remaining)
Settled == ~sysex_in_progress \/ pc = "first" => driver.part = <<>>

Complete ==
  (errors = 0 /\ ~embedded) =>
    /\ Flow = Sent(intended)
    /\ Settled
    /\ (pc = "idle" /\ ~sysex_in_progress) => driver.list = <<>>

Ends(s, t) == \E u \in Seq(Byte) : t = u \o s

Untouched == Sent(Remaining) = Sent(LastCall)

InLastCall == ~embedded /\ ~before.sysex /\ backend # "winmm"

Behind ==
  InLastCall =>
    /\ pc # "idle" => Ends(Sent(LastCall), Flow)
    /\ (pc = "idle" /\ result = "pmNoError" /\ calls > 0 /\ ~sysex_in_progress) =>
          Ends(Sent(LastCall), driver.wire) /\ driver.list = <<>>
    /\ (pc # "idle" /\ backend = "alsa" /\ ~Settled) => Untouched \/ Lacks(Remaining, Sysex)

IInv == /\ Types /\ PastTypes /\ Capacity /\ Place /\ Content /\ NotEmbedded
        /\ Ordered /\ Complete /\ Behind

-----------------------------------------------------------------------------
(* Induction over the natural numbers, as a fact about sets.               *)

LessThan == {pair \in Nat \X Nat : pair[1] < pair[2]}

\* No chain descends forever; so a set of natural numbers has a least element.
LEMMA LeastElement ==
  ASSUME NEW T \in SUBSET Nat, T # {}
  PROVE  \E m \in T : \A k \in T : m <= k
<1>1. LessThan = OpToRel(<, Nat)
  BY DEF LessThan, OpToRel
<1>2. IsWellFoundedOn(LessThan, Nat)
  BY <1>1, NatLessThanWellFounded
<1>3. PICK m \in T : \A k \in T : ~(<<k, m>> \in LessThan)
  BY <1>2, WFMin
<1>4. ASSUME NEW k \in T PROVE m <= k
  <2>1. k \in Nat /\ m \in Nat /\ ~(k < m)
    BY <1>3 DEF LessThan
  <2> QED
    BY <2>1
<1> QED
  BY <1>4

\* Induction.
LEMMA InductionOnNat ==
  ASSUME NEW T \in SUBSET Nat, 0 \in T, \A n \in T : n + 1 \in T
  PROVE  \A n \in Nat : n \in T
<1> DEFINE Others == Nat \ T
<1>1. ASSUME Others # {} PROVE FALSE
  <2>1. PICK m \in Others : \A k \in Others : m <= k
    BY <1>1, LeastElement
  <2>2. m \in Nat /\ m # 0
    OBVIOUS
  <2>3. m - 1 \in Nat /\ (m - 1) + 1 = m
    BY <2>2
  <2>4. m - 1 \in T
    BY <2>1, <2>3
  <2> QED
    BY <2>3, <2>4
<1> QED
  BY <1>1

-----------------------------------------------------------------------------
(* Sequences of bytes.                                                     *)

\* Byte values, as numbers.
LEMMA ByteFacts ==
  /\ Byte \subseteq Nat /\ Data \subseteq Byte
  /\ Note \in Byte /\ Sysex \in Byte /\ Eox \in Byte /\ Clock \in Byte /\ Unused \in Byte
BY DEF Byte, Data, Note, Sysex, Eox, Clock, Unused

\* Concatenation is associative, and the empty sequence is its unit.
LEMMA Cat ==
  ASSUME NEW a \in Seq(Byte), NEW b \in Seq(Byte)
  PROVE  /\ a \o b \in Seq(Byte)
         /\ \A c \in Seq(Byte) : (a \o b) \o c = a \o (b \o c)
         /\ a \o <<>> = a /\ <<>> \o a = a
         /\ \A x \in Byte : Append(a, x) = a \o <<x>>
BY ConcatProperties, ConcatAssociative, ConcatEmptySeq, AppendIsConcat

\* Associativity by itself.
LEMMA CatCat ==
  ASSUME NEW a \in Seq(Byte), NEW b \in Seq(Byte), NEW c \in Seq(Byte)
  PROVE  (a \o b) \o c = a \o (b \o c)
BY Cat

\* The empty sequence, sequences of one byte, and what Append makes.
LEMMA SmallSeqs ==
  /\ <<>> \in Seq(Byte) /\ Len(<<>>) = 0 /\ DOMAIN <<>> = {}
  /\ \A x \in Byte : <<x>> \in Seq(Byte) /\ Len(<<x>>) = 1 /\ <<x>>[1] = x
  /\ \A a \in Seq(Byte), x \in Byte : Append(a, x) \in Seq(Byte) /\ Len(Append(a, x)) = Len(a) + 1
<1>1. <<>> \in Seq(Byte) /\ Len(<<>>) = 0
  BY EmptySeq
<1>2. DOMAIN <<>> = {}
  BY <1>1, LenProperties
<1>3. \A x \in Byte : <<x>> \in Seq(Byte) /\ Len(<<x>>) = 1 /\ <<x>>[1] = x
  OBVIOUS
<1>4. \A a \in Seq(Byte), x \in Byte : Append(a, x) \in Seq(Byte) /\ Len(Append(a, x)) = Len(a) + 1
  BY AppendProperties
<1> QED
  BY <1>1, <1>2, <1>3, <1>4

-----------------------------------------------------------------------------
(* Sent: a filter, defined by recursion along the sequence.                *)

Up(to, bytes) ==
  CHOOSE f : f = [i \in 0..Len(bytes) |->
    IF i = 0 THEN <<>>
    ELSE IF Passes(bytes[i], to) THEN Append(f[i - 1], bytes[i]) ELSE f[i - 1]]

\* The recursion has a solution, which can be built from the front.
LEMMA UpFacts ==
  ASSUME NEW to, NEW bytes \in Seq(Byte)
  PROVE  /\ SentTo(to, bytes) = Up(to, bytes)[Len(bytes)]
         /\ Up(to, bytes) \in [0..Len(bytes) -> Seq(Byte)]
         /\ Up(to, bytes)[0] = <<>>
         /\ \A i \in 1..Len(bytes) :
              Up(to, bytes)[i] = IF Passes(bytes[i], to) THEN Append(Up(to, bytes)[i - 1], bytes[i])
                                                         ELSE Up(to, bytes)[i - 1]
<1> DEFINE L == Len(bytes)
           Solves(f, n) ==
             /\ f[0] = <<>>
             /\ \A i \in 1..n : f[i] = IF Passes(bytes[i], to) THEN Append(f[i - 1], bytes[i])
                                                               ELSE f[i - 1]
<1>1. L \in Nat /\ \A i \in 1..L : bytes[i] \in Byte
  BY LenProperties, ElementOfSeq
<1>2. \E f \in [0..L -> Seq(Byte)] : Solves(f, L)
  <2> DEFINE T == {n \in Nat : n <= L => \E f \in [0..n -> Seq(Byte)] : Solves(f, n)}
  <2>1. 0 \in T
    <3>1. [i \in 0..0 |-> <<>>] \in [0..0 -> Seq(Byte)]
      BY SmallSeqs
    <3>2. Solves([i \in 0..0 |-> <<>>], 0)
      OBVIOUS
    <3> QED
      BY <3>1, <3>2
  <2>2. ASSUME NEW n \in T, n + 1 <= L PROVE \E f \in [0..n+1 -> Seq(Byte)] : Solves(f, n + 1)
    <3>1. n \in Nat /\ n <= L /\ n + 1 \in 1..L
      BY <1>1, <2>2
    <3>2. PICK f \in [0..n -> Seq(Byte)] : Solves(f, n)
      BY <3>1
    <3> DEFINE last == IF Passes(bytes[n + 1], to) THEN Append(f[n], bytes[n + 1]) ELSE f[n]
               g == [i \in 0..n+1 |-> IF i = n + 1 THEN last ELSE f[i]]
    <3>3. last \in Seq(Byte)
      <4>1. f[n] \in Seq(Byte) /\ bytes[n + 1] \in Byte
        BY <1>1, <3>1
      <4> QED
        BY <4>1, SmallSeqs
    <3>4. last = IF Passes(bytes[n + 1], to) THEN Append(f[n], bytes[n + 1]) ELSE f[n]
      OBVIOUS
    <3> HIDE DEF last
    <3>5. g \in [0..n+1 -> Seq(Byte)]
      BY <3>1, <3>3
    <3>6. g[0] = <<>>
      BY <3>1, <3>2
    <3>7. ASSUME NEW i \in 1..n+1
          PROVE  g[i] = IF Passes(bytes[i], to) THEN Append(g[i - 1], bytes[i]) ELSE g[i - 1]
      <4>1. CASE i = n + 1
        <5>1. g[i - 1] = f[n] /\ g[i] = last
          BY <3>1, <4>1
        <5> QED
          BY <3>4, <4>1, <5>1
      <4>2. CASE i # n + 1
        <5>1. i \in 1..n /\ g[i] = f[i] /\ g[i - 1] = f[i - 1]
          BY <3>1, <4>2
        <5> QED
          BY <3>2, <5>1
      <4> QED
        BY <4>1, <4>2
    <3> QED
      BY <3>5, <3>6, <3>7
  <2> HIDE DEF Solves
  <2>3. ASSUME NEW n \in T PROVE n + 1 \in T
    <3>1. n + 1 \in Nat
      OBVIOUS
    <3>2. n + 1 <= L => \E f \in [0..n+1 -> Seq(Byte)] : Solves(f, n + 1)
      BY <2>2
    <3> QED
      BY <3>1, <3>2
  <2>4. L \in T
    BY <1>1, <2>1, <2>3, InductionOnNat
  <2> QED
    BY <1>1, <2>4
<1> DEFINE Step(f) == [i \in 0..L |-> IF i = 0 THEN <<>>
                         ELSE IF Passes(bytes[i], to) THEN Append(f[i - 1], bytes[i]) ELSE f[i - 1]]
           up == CHOOSE f : f = Step(f)
<1>3. up = Step(up)
  <2>1. PICK f \in [0..L -> Seq(Byte)] : Solves(f, L)
    BY <1>2
  <2>2. ASSUME NEW i \in 0..L PROVE f[i] = Step(f)[i]
    <3>1. CASE i = 0
      BY <2>1, <3>1
    <3>2. CASE i # 0
      <4>1. i \in 1..L
        BY <1>1, <3>2
      <4> QED
        BY <2>1, <3>2, <4>1
    <3> QED
      BY <3>1, <3>2
  <2>3. f = Step(f)
    BY <2>2
  <2> HIDE DEF Step
  <2> QED
    BY <2>3
<1>4. up = Up(to, bytes)
  BY DEF Up
<1>5. SentTo(to, bytes) = Up(to, bytes)[Len(bytes)]
  BY DEF SentTo, Up
<1> HIDE DEF up
<1>6. up[0] = <<>>
  BY <1>1, <1>3
<1>7. \A i \in 1..L :
        up[i] = IF Passes(bytes[i], to) THEN Append(up[i - 1], bytes[i]) ELSE up[i - 1]
  <2>1. SUFFICES ASSUME NEW i \in 1..L
        PROVE  up[i] = IF Passes(bytes[i], to) THEN Append(up[i - 1], bytes[i]) ELSE up[i - 1]
    OBVIOUS
  <2>2. Step(up)[i] = IF Passes(bytes[i], to) THEN Append(up[i - 1], bytes[i]) ELSE up[i - 1]
    <3>1. i \in 0..L /\ i # 0
      BY <1>1
    <3> QED
      BY <3>1
  <2> QED
    BY <1>3, <2>2
<1>8. DOMAIN up = 0..L /\ up = [i \in 0..L |-> up[i]]
  BY <1>3
<1>9. \A i \in 0..L : up[i] \in Seq(Byte)
  <2> DEFINE T == {n \in Nat : n \in 0..L => up[n] \in Seq(Byte)}
  <2> HIDE DEF Step, Solves
  <2>1. 0 \in T
    BY <1>6, SmallSeqs
  <2>2. ASSUME NEW n \in T PROVE n + 1 \in T
    <3>1. CASE n + 1 \in 0..L
      <4>1. n + 1 \in 1..L /\ n \in 0..L /\ (n + 1) - 1 = n
        BY <1>1, <3>1
      <4>2. up[n] \in Seq(Byte) /\ bytes[n + 1] \in Byte
        BY <1>1, <4>1
      <4>3. up[n + 1] = IF Passes(bytes[n + 1], to) THEN Append(up[n], bytes[n + 1]) ELSE up[n]
        BY <1>7, <4>1
      <4>4. Append(up[n], bytes[n + 1]) \in Seq(Byte)
        BY <4>2, SmallSeqs
      <4>5. up[n + 1] \in Seq(Byte)
        BY <4>2, <4>3, <4>4, Zenon
      <4> QED
        BY <4>5
    <3>2. CASE n + 1 \notin 0..L
      BY <3>2
    <3> QED
      BY <3>1, <3>2
  <2>3. \A n \in Nat : n \in T
    BY <2>1, <2>2, InductionOnNat
  <2> QED
    BY <1>1, <2>3
<1> QED
  BY <1>4, <1>5, <1>6, <1>7, <1>8, <1>9

\* The filter of two sequences one after the other.
LEMMA SentCat ==
  ASSUME NEW to, NEW a \in Seq(Byte), NEW b \in Seq(Byte)
  PROVE  SentTo(to, a \o b) = SentTo(to, a) \o SentTo(to, b)
<1> DEFINE c == a \o b
<1>0. Len(a) \in Nat /\ Len(b) \in Nat /\ Len(c) = Len(a) + Len(b)
  BY ConcatProperties, LenProperties
<1>1. /\ Len(a) \in Nat /\ Len(b) \in Nat /\ c \in Seq(Byte)
      /\ \A i \in 1..Len(a) : c[i] = a[i]
      /\ \A i \in 1..Len(b) : c[Len(a) + i] = b[i] /\ b[i] \in Byte
  BY ConcatProperties, LenProperties, ElementOfSeq
<1> HIDE DEF c
<1>2. \A i \in 0..Len(a) : Up(to, c)[i] = Up(to, a)[i]
  <2> DEFINE T == {n \in Nat : n \in 0..Len(a) => Up(to, c)[n] = Up(to, a)[n]}
  <2>1. 0 \in T
    BY <1>1, UpFacts
  <2>2. ASSUME NEW n \in T PROVE n + 1 \in T
    <3>1. CASE n + 1 \in 0..Len(a)
      <4>1. n + 1 \in 1..Len(a) /\ n + 1 \in 1..Len(c) /\ n \in 0..Len(a) /\ (n + 1) - 1 = n
        BY <1>0, <3>1
      <4>2. Up(to, c)[n] = Up(to, a)[n] /\ c[n + 1] = a[n + 1]
        BY <1>1, <4>1
      <4>3. Up(to, c)[n + 1] = IF Passes(c[n + 1], to) THEN Append(Up(to, c)[n], c[n + 1])
                                                       ELSE Up(to, c)[n]
        BY <1>1, <4>1, UpFacts
      <4>4. Up(to, a)[n + 1] = IF Passes(a[n + 1], to) THEN Append(Up(to, a)[n], a[n + 1])
                                                       ELSE Up(to, a)[n]
        BY <1>1, <4>1, UpFacts
      <4> QED
        BY <4>2, <4>3, <4>4
    <3>2. CASE n + 1 \notin 0..Len(a)
      BY <3>2
    <3> QED
      BY <3>1, <3>2
  <2>3. \A n \in Nat : n \in T
    BY <2>1, <2>2, InductionOnNat
  <2> QED
    BY <1>1, <2>3
<1>3. \A i \in 0..Len(b) : Up(to, c)[Len(a) + i] = Up(to, a)[Len(a)] \o Up(to, b)[i]
  <2> DEFINE P(n) == Up(to, c)[Len(a) + n] = Up(to, a)[Len(a)] \o Up(to, b)[n]
             T == {n \in Nat : n \in 0..Len(b) => P(n)}
  <2>0. Up(to, a)[Len(a)] \in Seq(Byte)
    BY <1>1, UpFacts
  <2>1. 0 \in T
    <3>1. Len(a) + 0 = Len(a) /\ Len(a) \in 0..Len(a)
      BY <1>1
    <3>2. Up(to, c)[Len(a)] = Up(to, a)[Len(a)] /\ Up(to, b)[0] = <<>>
      BY <1>2, <3>1, UpFacts
    <3>3. Up(to, a)[Len(a)] \o <<>> = Up(to, a)[Len(a)]
      BY <2>0, ConcatEmptySeq
    <3>4. P(0)
      BY <3>1, <3>2, <3>3
    <3> HIDE DEF P
    <3> QED
      BY <3>4
  <2>2. ASSUME NEW n \in T PROVE n + 1 \in T
    <3> HIDE DEF P
    <3>1. CASE n + 1 \in 0..Len(b)
      <4>1. /\ n + 1 \in 1..Len(b) /\ n \in 0..Len(b) /\ (n + 1) - 1 = n
            /\ Len(a) + (n + 1) \in 1..Len(c) /\ (Len(a) + (n + 1)) - 1 = Len(a) + n
        BY <1>0, <3>1
      <4>2. /\ Up(to, c)[Len(a) + n] = Up(to, a)[Len(a)] \o Up(to, b)[n]
            /\ c[Len(a) + (n + 1)] = b[n + 1] /\ b[n + 1] \in Byte
        BY <1>1, <4>1 DEF P
      <4>3. Up(to, c)[Len(a) + (n + 1)] =
              IF Passes(b[n + 1], to) THEN Append(Up(to, c)[Len(a) + n], b[n + 1])
                                      ELSE Up(to, c)[Len(a) + n]
        <5>1. Up(to, c)[Len(a) + (n + 1)] =
                IF Passes(c[Len(a) + (n + 1)], to)
                  THEN Append(Up(to, c)[(Len(a) + (n + 1)) - 1], c[Len(a) + (n + 1)])
                  ELSE Up(to, c)[(Len(a) + (n + 1)) - 1]
          BY <1>1, <4>1, UpFacts
        <5> QED
          BY <4>1, <4>2, <5>1
      <4>4. Up(to, b)[n + 1] = IF Passes(b[n + 1], to) THEN Append(Up(to, b)[n], b[n + 1])
                                                       ELSE Up(to, b)[n]
        <5>1. Up(to, b)[n + 1] = IF Passes(b[n + 1], to)
                                   THEN Append(Up(to, b)[(n + 1) - 1], b[n + 1])
                                   ELSE Up(to, b)[(n + 1) - 1]
          BY <4>1, UpFacts
        <5> QED
          BY <4>1, <5>1
      <4>5. Up(to, b)[n] \in Seq(Byte)
        BY <4>1, UpFacts
      <4>6. Append(Up(to, a)[Len(a)] \o Up(to, b)[n], b[n + 1])
              = Up(to, a)[Len(a)] \o Append(Up(to, b)[n], b[n + 1])
        <5> DEFINE s == Up(to, a)[Len(a)]
                   t == Up(to, b)[n]
                   x == b[n + 1]
        <5>1. s \in Seq(Byte) /\ t \in Seq(Byte) /\ x \in Byte
          BY <2>0, <4>2, <4>5
        <5> HIDE DEF s, t, x
        <5>2. Append(s \o t, x) = (s \o t) \o <<x>> /\ Append(t, x) = t \o <<x>>
          BY <5>1, Cat
        <5>3. (s \o t) \o <<x>> = s \o (t \o <<x>>)
          BY <5>1, Cat, SmallSeqs
        <5>4. Append(s \o t, x) = s \o Append(t, x)
          BY <5>2, <5>3
        <5> QED
          BY <5>4 DEF s, t, x
      <4>7. Up(to, c)[Len(a) + (n + 1)] = Up(to, a)[Len(a)] \o Up(to, b)[n + 1]
        <5>1. CASE Passes(b[n + 1], to)
          BY <4>2, <4>3, <4>4, <4>6, <5>1, Zenon
        <5>2. CASE ~Passes(b[n + 1], to)
          BY <4>2, <4>3, <4>4, <5>2, Zenon
        <5> QED
          BY <5>1, <5>2
      <4>8. P(n + 1)
        BY <4>7 DEF P
      <4> QED
        BY <4>8
    <3>2. CASE n + 1 \notin 0..Len(b)
      BY <3>2
    <3> QED
      BY <3>1, <3>2
  <2>3. \A n \in Nat : n \in T
    BY <2>1, <2>2, InductionOnNat
  <2>4. \A n \in 0..Len(b) : P(n)
    <3> HIDE DEF P
    <3> QED
      BY <1>1, <2>3
  <2> QED
    BY <2>4
<1>4. Up(to, c)[Len(c)] = Up(to, a)[Len(a)] \o Up(to, b)[Len(b)]
  <2>1. Len(b) \in 0..Len(b)
    BY <1>0
  <2> QED
    BY <1>0, <1>3, <2>1, Zenon
<1>5. SentTo(to, c) = SentTo(to, a) \o SentTo(to, b)
  BY <1>1, <1>4, UpFacts
<1> QED
  BY <1>5 DEF c

\* What passes stays, what does not goes.
LEMMA SentFacts ==
  ASSUME NEW to, NEW a \in Seq(Byte)
  PROVE  /\ SentTo(to, a) \in Seq(Byte)
         /\ (\A k \in DOMAIN a : Passes(a[k], to)) => SentTo(to, a) = a
         /\ (\A k \in DOMAIN a : ~Passes(a[k], to)) => SentTo(to, a) = <<>>
<1>1. Len(a) \in Nat /\ DOMAIN a = 1..Len(a) /\ \A i \in 1..Len(a) : a[i] \in Byte
  BY LenProperties, ElementOfSeq
<1>2. SentTo(to, a) \in Seq(Byte)
  BY <1>1, UpFacts
<1>3. ASSUME \A k \in DOMAIN a : ~Passes(a[k], to) PROVE SentTo(to, a) = <<>>
  <2> DEFINE T == {n \in Nat : n \in 0..Len(a) => Up(to, a)[n] = <<>>}
  <2>1. 0 \in T
    BY UpFacts
  <2>2. ASSUME NEW n \in T PROVE n + 1 \in T
    <3>1. CASE n + 1 \in 0..Len(a)
      <4>1. n + 1 \in 1..Len(a) /\ n \in 0..Len(a) /\ (n + 1) - 1 = n
        BY <1>1, <3>1
      <4>2. Up(to, a)[n + 1] = Up(to, a)[n]
        BY <1>1, <1>3, <4>1, UpFacts
      <4> QED
        BY <4>1, <4>2
    <3>2. CASE n + 1 \notin 0..Len(a)
      BY <3>2
    <3> QED
      BY <3>1, <3>2
  <2>3. \A n \in Nat : n \in T
    BY <2>1, <2>2, InductionOnNat
  <2> QED
    BY <1>1, <2>3, UpFacts
<1>4. ASSUME \A k \in DOMAIN a : Passes(a[k], to) PROVE SentTo(to, a) = a
  <2> DEFINE T == {n \in Nat : n \in 0..Len(a) => Up(to, a)[n] = SubSeq(a, 1, n)}
  <2>1. 0 \in T
    <3>1. SubSeq(a, 1, 0) = <<>>
      BY SubSeqEmpty
    <3> QED
      BY <3>1, UpFacts
  <2>2. ASSUME NEW n \in T PROVE n + 1 \in T
    <3>1. CASE n + 1 \in 0..Len(a)
      <4>1. n + 1 \in 1..Len(a) /\ n \in 0..Len(a) /\ (n + 1) - 1 = n /\ 1 \in 1..Len(a)
            /\ n + 1 \in 1..Len(a)
        BY <1>1, <3>1
      <4>2. Up(to, a)[n + 1] = Append(Up(to, a)[n], a[n + 1])
        <5>1. Up(to, a)[n + 1] = IF Passes(a[n + 1], to)
                                   THEN Append(Up(to, a)[(n + 1) - 1], a[n + 1])
                                   ELSE Up(to, a)[(n + 1) - 1]
          BY <4>1, UpFacts
        <5>2. Passes(a[n + 1], to)
          BY <1>1, <1>4, <4>1
        <5> QED
          BY <4>1, <5>1, <5>2
      <4>3. Up(to, a)[n] = SubSeq(a, 1, n) /\ SubSeq(a, 1, n) \in Seq(Byte)
        BY <4>1, UpFacts
      <4>4. SubSeq(a, 1, n + 1) = SubSeq(a, 1, n) \o <<a[n + 1]>>
        BY <4>1, SubSeqRecursiveSecond
      <4>5. Append(SubSeq(a, 1, n), a[n + 1]) = SubSeq(a, 1, n) \o <<a[n + 1]>>
        BY <1>1, <4>1, <4>3, AppendIsConcat
      <4>6. Up(to, a)[n + 1] = SubSeq(a, 1, n + 1)
        BY <4>2, <4>3, <4>4, <4>5, Zenon
      <4> QED
        BY <4>6
    <3>2. CASE n + 1 \notin 0..Len(a)
      BY <3>2
    <3> QED
      BY <3>1, <3>2
  <2>3. \A n \in Nat : n \in T
    BY <2>1, <2>2, InductionOnNat
  <2>4. Up(to, a)[Len(a)] = SubSeq(a, 1, Len(a))
    BY <1>1, <2>3
  <2> QED
    BY <1>1, <2>4, UpFacts, SubSeqFull
<1> QED
  BY <1>2, <1>3, <1>4

-----------------------------------------------------------------------------
(* Order.                                                                  *)

Below(a, b) ==
  \A i \in DOMAIN a, j \in DOMAIN b : (IsData(a[i]) /\ IsData(b[j])) => a[i] < b[j]

NoData(bytes) == \A k \in DOMAIN bytes : ~IsData(bytes[k])

\* Where the bytes of a concatenation are.
LEMMA CatIndex ==
  ASSUME NEW a \in Seq(Byte), NEW b \in Seq(Byte)
  PROVE  /\ DOMAIN a = 1..Len(a) /\ DOMAIN b = 1..Len(b) /\ Len(a) \in Nat /\ Len(b) \in Nat
         /\ DOMAIN (a \o b) = 1..(Len(a) + Len(b))
         /\ \A i \in DOMAIN a : i \in DOMAIN (a \o b) /\ (a \o b)[i] = a[i] /\ a[i] \in Nat
         /\ \A j \in DOMAIN b : /\ Len(a) + j \in DOMAIN (a \o b) /\ (a \o b)[Len(a) + j] = b[j]
                                /\ b[j] \in Nat
         /\ \A k \in DOMAIN (a \o b) : k \in DOMAIN a \/ \E j \in DOMAIN b : k = Len(a) + j
<1>1. /\ DOMAIN a = 1..Len(a) /\ DOMAIN b = 1..Len(b) /\ Len(a) \in Nat /\ Len(b) \in Nat
      /\ DOMAIN (a \o b) = 1..(Len(a) + Len(b))
  BY ConcatProperties, LenProperties
<1>2. \A i \in 1..Len(a) : a[i] \in Nat
  BY ElementOfSeq, ByteFacts
<1>3. \A i \in 1..Len(b) : b[i] \in Nat
  BY ElementOfSeq, ByteFacts
<1>4. \A i \in DOMAIN a : i \in DOMAIN (a \o b) /\ (a \o b)[i] = a[i] /\ a[i] \in Nat
  BY <1>1, <1>2, ConcatProperties
<1>5. ASSUME NEW j \in DOMAIN b
      PROVE  Len(a) + j \in DOMAIN (a \o b) /\ (a \o b)[Len(a) + j] = b[j] /\ b[j] \in Nat
  <2>1. j \in 1..Len(b) /\ Len(a) + j \in 1..(Len(a) + Len(b)) /\ ~(Len(a) + j <= Len(a))
        /\ (Len(a) + j) - Len(a) = j
    BY <1>1
  <2>2. (a \o b)[Len(a) + j] = b[(Len(a) + j) - Len(a)]
    BY <2>1, ConcatProperties
  <2> QED
    BY <1>1, <1>3, <2>1, <2>2
<1>6. ASSUME NEW k \in DOMAIN (a \o b), k \notin DOMAIN a PROVE \E j \in DOMAIN b : k = Len(a) + j
  <2>1. k - Len(a) \in DOMAIN b /\ k = Len(a) + (k - Len(a))
    BY <1>1, <1>6
  <2> QED
    BY <2>1
<1> QED
  BY <1>1, <1>4, <1>5, <1>6

\* When a concatenation is sorted.
LEMMA SortedCat ==
  ASSUME NEW a \in Seq(Byte), NEW b \in Seq(Byte), NEW n \in Nat
  PROVE  Sorted(a \o b, n) <=> Sorted(a, n) /\ Sorted(b, n) /\ Below(a, b)
<1> DEFINE c == a \o b
<1>1. /\ DOMAIN a = 1..Len(a) /\ DOMAIN b = 1..Len(b) /\ Len(a) \in Nat /\ Len(b) \in Nat
      /\ \A i \in DOMAIN a : i \in DOMAIN c /\ c[i] = a[i] /\ a[i] \in Nat
      /\ \A j \in DOMAIN b : Len(a) + j \in DOMAIN c /\ c[Len(a) + j] = b[j] /\ b[j] \in Nat
      /\ \A k \in DOMAIN c : k \in DOMAIN a \/ \E j \in DOMAIN b : k = Len(a) + j
  BY CatIndex
<1>2. \A i \in DOMAIN a, j \in DOMAIN b : i < Len(a) + j /\ ~(Len(a) + j < i)
  BY <1>1
<1>3. \A i, j \in DOMAIN b : i \in Int /\ j \in Int /\ (i < j <=> Len(a) + i < Len(a) + j)
  BY <1>1
<1> HIDE DEF c
<1>4. ASSUME Sorted(c, n) PROVE Sorted(a, n) /\ Sorted(b, n) /\ Below(a, b)
  <2>1. Increasing(a) /\ Numbers(a, n)
    BY <1>1, <1>4 DEF Sorted, Increasing, Numbers
  <2>2. Increasing(b)
    BY <1>1, <1>3, <1>4 DEF Sorted, Increasing
  <2>3. Numbers(b, n)
    BY <1>1, <1>4 DEF Sorted, Numbers
  <2>4. Below(a, b)
    BY <1>1, <1>2, <1>4 DEF Sorted, Increasing, Below
  <2> QED
    BY <2>1, <2>2, <2>3, <2>4 DEF Sorted
<1>5. ASSUME Sorted(a, n) /\ Sorted(b, n) /\ Below(a, b) PROVE Sorted(c, n)
  <2>1. Numbers(c, n)
    BY <1>1, <1>5 DEF Sorted, Numbers
  <2>2. ASSUME NEW i \in DOMAIN c, NEW j \in DOMAIN c, i < j, IsData(c[i]), IsData(c[j])
        PROVE  c[i] < c[j]
    <3>1. CASE i \in DOMAIN a /\ j \in DOMAIN a
      BY <1>1, <1>5, <2>2, <3>1 DEF Sorted, Increasing
    <3>2. CASE i \in DOMAIN a /\ j \notin DOMAIN a
      BY <1>1, <1>5, <2>2, <3>2 DEF Below
    <3>3. CASE i \notin DOMAIN a
      <4>1. PICK k \in DOMAIN b : i = Len(a) + k
        BY <1>1, <3>3
      <4>2. j \notin DOMAIN a
        BY <1>2, <2>2, <4>1
      <4>3. PICK l \in DOMAIN b : j = Len(a) + l
        BY <1>1, <4>2
      <4>4. k < l /\ c[i] = b[k] /\ c[j] = b[l]
        BY <1>1, <1>3, <2>2, <4>1, <4>3
      <4> QED
        BY <1>5, <2>2, <4>4 DEF Sorted, Increasing
    <3> QED
      BY <3>1, <3>2, <3>3
  <2> QED
    BY <2>1, <2>2 DEF Sorted, Increasing
<1> QED
  BY <1>4, <1>5 DEF c

\* Below, piece by piece.
LEMMA BelowCat ==
  ASSUME NEW a \in Seq(Byte), NEW b \in Seq(Byte), NEW c \in Seq(Byte)
  PROVE  /\ Below(a \o b, c) <=> Below(a, c) /\ Below(b, c)
         /\ Below(c, a \o b) <=> Below(c, a) /\ Below(c, b)
<1> DEFINE d == a \o b
<1>1. /\ \A i \in DOMAIN a : i \in DOMAIN d /\ d[i] = a[i]
      /\ \A j \in DOMAIN b : Len(a) + j \in DOMAIN d /\ d[Len(a) + j] = b[j]
      /\ \A k \in DOMAIN d : k \in DOMAIN a \/ \E j \in DOMAIN b : k = Len(a) + j
  BY CatIndex
<1> HIDE DEF d
<1>2. Below(d, c) <=> Below(a, c) /\ Below(b, c)
  BY <1>1 DEF Below
<1>3. Below(c, d) <=> Below(c, a) /\ Below(c, b)
  BY <1>1 DEF Below
<1> QED
  BY <1>2, <1>3 DEF d

\* Bytes that are no data do not matter.
LEMMA NoDataFacts ==
  ASSUME NEW a, NEW c, NoData(c), NEW n
  PROVE  Sorted(c, n) /\ Below(a, c) /\ Below(c, a)
BY DEF NoData, Sorted, Increasing, Numbers, Below

\* Neither does an empty sequence.
LEMMA EmptyIsNoData == NoData(<<>>)
BY SmallSeqs DEF NoData

\* What is sorted stays sorted when a part of it is left out.
LEMMA SortedDrop ==
  ASSUME NEW a \in Seq(Byte), NEW b \in Seq(Byte), NEW c \in Seq(Byte), NEW n \in Nat,
         Sorted((a \o b) \o c, n)
  PROVE  Sorted(a \o b, n) /\ Sorted(a \o c, n) /\ Sorted(b \o c, n) /\ Sorted(a, n)
<1>1. a \o b \in Seq(Byte)
  BY Cat
<1>2. Sorted(a \o b, n) /\ Sorted(c, n) /\ Below(a \o b, c)
  BY <1>1, SortedCat
<1>3. Sorted(a, n) /\ Sorted(b, n) /\ Below(a, b) /\ Below(a, c) /\ Below(b, c)
  BY <1>2, SortedCat, BelowCat
<1> QED
  BY <1>2, <1>3, SortedCat

\* It stays sorted when something is put in that is no data.
LEMMA SortedAdd ==
  ASSUME NEW a \in Seq(Byte), NEW b \in Seq(Byte), NEW c \in Seq(Byte), NEW n \in Nat,
         Sorted(a \o c, n), NoData(b)
  PROVE  Sorted((a \o b) \o c, n)
<1>1. a \o b \in Seq(Byte)
  BY Cat
<1>2. Sorted(a, n) /\ Sorted(c, n) /\ Below(a, c)
  BY SortedCat
<1>3. Sorted(b, n) /\ Below(a, b) /\ Below(b, c)
  BY NoDataFacts
<1>4. Sorted(a \o b, n) /\ Below(a \o b, c)
  BY <1>2, <1>3, SortedCat, BelowCat
<1> QED
  BY <1>1, <1>2, <1>4, SortedCat

\* What may take the place of a: whatever follows, the data stays in order.
Keeps(a, b) ==
  \A c \in Seq(Byte), n \in Nat : Sorted(a \o c, n) => Sorted(b \o c, n)

\* The last part left out, or the one in the middle.
LEMMA KeepsDrop ==
  ASSUME NEW a \in Seq(Byte), NEW b \in Seq(Byte)
  PROVE  Keeps(a \o b, a) /\ \A c \in Seq(Byte) : Keeps((a \o b) \o c, a \o c)
<1>0. a \o b \in Seq(Byte)
  BY Cat
<1>1. ASSUME NEW c \in Seq(Byte), NEW n \in Nat, Sorted((a \o b) \o c, n)
      PROVE  Sorted(a \o c, n)
  BY <1>1, SortedDrop
<1>2. ASSUME NEW c \in Seq(Byte), NEW e \in Seq(Byte), NEW n \in Nat,
             Sorted(((a \o b) \o c) \o e, n)
      PROVE  Sorted((a \o c) \o e, n)
  <2>1. c \o e \in Seq(Byte)
    BY Cat
  <2>2. ((a \o b) \o c) \o e = (a \o b) \o (c \o e) /\ (a \o c) \o e = a \o (c \o e)
    BY <1>0, CatCat
  <2>3. Sorted((a \o b) \o (c \o e), n)
    BY <1>2, <2>2
  <2>4. Sorted(a \o (c \o e), n)
    BY <1>1, <2>1, <2>3
  <2> QED
    BY <2>2, <2>4
<1>3. Keeps(a \o b, a)
  BY <1>1 DEF Keeps
<1>4. ASSUME NEW c \in Seq(Byte) PROVE Keeps((a \o b) \o c, a \o c)
  BY <1>2 DEF Keeps
<1> QED
  BY <1>3, <1>4

\* Bytes that are no data, put at the end.
LEMMA KeepsAdd ==
  ASSUME NEW a \in Seq(Byte), NEW b \in Seq(Byte), NoData(b)
  PROVE  Keeps(a, a \o b)
BY SortedAdd DEF Keeps

\* One after the other.
LEMMA KeepsTrans ==
  ASSUME NEW a, NEW b, NEW c, Keeps(a, b), Keeps(b, c)
  PROVE  Keeps(a, c)
BY DEF Keeps

\* Nothing changed.
LEMMA KeepsSame == \A a : Keeps(a, a)
BY DEF Keeps

\* Followed by the same bytes.
LEMMA KeepsCat ==
  ASSUME NEW a \in Seq(Byte), NEW b \in Seq(Byte), NEW c \in Seq(Byte), Keeps(a, b)
  PROVE  Keeps(a \o c, b \o c)
<1>1. ASSUME NEW e \in Seq(Byte), NEW n \in Nat, Sorted((a \o c) \o e, n)
      PROVE  Sorted((b \o c) \o e, n)
  <2>1. c \o e \in Seq(Byte)
    BY Cat
  <2>2. (a \o c) \o e = a \o (c \o e) /\ (b \o c) \o e = b \o (c \o e)
    BY CatCat
  <2> QED
    BY <1>1, <2>1, <2>2 DEF Keeps
<1> QED
  BY <1>1 DEF Keeps

\* Cutting a sequence in two.
LEMMA Cut ==
  ASSUME NEW a \in Seq(Byte), NEW k \in 0..Len(a)
  PROVE  /\ SubSeq(a, 1, k) \in Seq(Byte) /\ SubSeq(a, k + 1, Len(a)) \in Seq(Byte)
         /\ Len(SubSeq(a, 1, k)) = k /\ Len(SubSeq(a, k + 1, Len(a))) = Len(a) - k
         /\ \A i \in 1..k : SubSeq(a, 1, k)[i] = a[i]
         /\ \A i \in 1..Len(a) - k : SubSeq(a, k + 1, Len(a))[i] = a[k + i]
         /\ SubSeq(a, 1, k) \o SubSeq(a, k + 1, Len(a)) = a
<1>1. Len(a) \in Nat /\ k \in Nat /\ k <= Len(a) /\ \A i \in 1..Len(a) : a[i] \in Byte
  BY LenProperties, ElementOfSeq
<1>2. (\A i \in 1..k : a[i] \in Byte) /\ (\A i \in k + 1..Len(a) : a[i] \in Byte)
  BY <1>1
<1>3. /\ SubSeq(a, 1, k) \in Seq(Byte) /\ Len(SubSeq(a, 1, k)) = IF 1 <= k THEN k - 1 + 1 ELSE 0
      /\ \A i \in 1..k - 1 + 1 : SubSeq(a, 1, k)[i] = a[1 + i - 1]
  BY <1>1, <1>2, SubSeqProperties
<1>4. /\ SubSeq(a, k + 1, Len(a)) \in Seq(Byte)
      /\ Len(SubSeq(a, k + 1, Len(a))) = IF k + 1 <= Len(a) THEN Len(a) - (k + 1) + 1 ELSE 0
      /\ \A i \in 1..Len(a) - (k + 1) + 1 : SubSeq(a, k + 1, Len(a))[i] = a[k + 1 + i - 1]
  <2>1. k + 1 \in Int /\ Len(a) \in Int
    BY <1>1
  <2> QED
    BY <1>2, <2>1, SubSeqProperties
<1>5. SubSeq(a, 1, k) \o SubSeq(a, k + 1, Len(a)) = SubSeq(a, 1, Len(a))
  <2>1. 1 \in 1..Len(a) + 1 /\ k \in 1 - 1..Len(a) /\ Len(a) \in k..Len(a)
    BY <1>1
  <2> QED
    BY <2>1, ConcatAdjacentSubSeq
<1>6. SubSeq(a, 1, Len(a)) = a
  BY SubSeqFull
<1>7. Len(SubSeq(a, 1, k)) = k /\ \A i \in 1..k : SubSeq(a, 1, k)[i] = a[i]
  BY <1>1, <1>3
<1>8. /\ Len(SubSeq(a, k + 1, Len(a))) = Len(a) - k
      /\ \A i \in 1..Len(a) - k : SubSeq(a, k + 1, Len(a))[i] = a[k + i]
  BY <1>1, <1>4
<1> QED
  BY <1>3, <1>4, <1>5, <1>6, <1>7, <1>8

-----------------------------------------------------------------------------
(* The backend functions: what they do to the line of bytes on their way.  *)

\* An outcome, taken apart.
LEMMA OutcomeFacts ==
  \A d : /\ Done(d).ok /\ Done(d).driver = d
         /\ ~Failed(d).ok /\ Failed(d).driver = d
BY DEF Done, Failed

\* The state of a driver, taken apart.
LEMMA DriverFacts ==
  ASSUME NEW d \in Driver
  PROVE  /\ d.part \in Seq(Byte) /\ d.list \in Seq(Byte) /\ d.wire \in Seq(Byte)
         /\ d.fill_base \in BOOLEAN
         /\ Out(d) \in Seq(Byte) /\ Line(d) \in Seq(Byte)
         /\ Len(d.part) \in Nat /\ Len(d.list) \in Nat
<1>1. /\ d.part \in Seq(Byte) /\ d.list \in Seq(Byte) /\ d.wire \in Seq(Byte)
      /\ d.fill_base \in BOOLEAN
  BY DEF Driver
<1>2. Out(d) \in Seq(Byte)
  BY <1>1, Cat DEF Out
<1>3. Line(d) \in Seq(Byte)
  BY <1>1, <1>2, Cat DEF Line
<1> QED
  BY <1>1, <1>2, <1>3, LenProperties

\* A part of it changed.
LEMMA ChangeFacts ==
  ASSUME NEW d \in Driver, NEW s \in Seq(Byte), NEW t \in Seq(Byte)
  PROVE  /\ LET e == [d EXCEPT !.part = s] IN
            /\ e \in Driver /\ e.part = s /\ e.list = d.list /\ e.wire = d.wire
            /\ e.fill_base = d.fill_base
         /\ LET e == [d EXCEPT !.list = s] IN
            /\ e \in Driver /\ e.part = d.part /\ e.list = s /\ e.wire = d.wire
            /\ e.fill_base = d.fill_base
         /\ LET e == [d EXCEPT !.wire = s] IN
            /\ e \in Driver /\ e.part = d.part /\ e.list = d.list /\ e.wire = s
            /\ e.fill_base = d.fill_base
         /\ LET e == [d EXCEPT !.list = s, !.wire = t] IN
            /\ e \in Driver /\ e.part = d.part /\ e.list = s /\ e.wire = t
            /\ e.fill_base = d.fill_base
BY DEF Driver

(* Core MIDI.                                                              *)

\* midi_write_flush puts the list on the wire, or loses it.
LEMMA MidiFlush ==
  ASSUME NEW d \in Driver, NEW o \in midi_write_flush(d)
  PROVE  /\ o.driver \in Driver /\ o.driver.part = d.part /\ o.driver.fill_base = d.fill_base
         /\ o.driver.list = <<>>
         /\ o.ok => o.driver.wire = d.wire \o d.list
         /\ ~o.ok => o.driver.wire = d.wire
<1>0. d.wire \o d.list \in Seq(Byte) /\ <<>> \in Seq(Byte) /\ d.wire \o <<>> = d.wire
  BY DriverFacts, Cat, SmallSeqs
<1>1. CASE d.list = <<>>
  <2>1. o = Done(d)
    BY <1>1 DEF midi_write_flush
  <2> QED
    BY <1>0, <1>1, <2>1, OutcomeFacts
<1>2. CASE d.list # <<>>
  <2> DEFINE sent == [d EXCEPT !.list = <<>>, !.wire = d.wire \o d.list]
             lost == [d EXCEPT !.list = <<>>]
  <2>1. o = Done(sent) \/ o = Failed(lost)
    BY <1>2 DEF midi_write_flush, AfterSend
  <2>2. /\ sent \in Driver /\ sent.part = d.part /\ sent.fill_base = d.fill_base
        /\ sent.list = <<>> /\ sent.wire = d.wire \o d.list
    BY <1>0 DEF Driver
  <2>3. /\ lost \in Driver /\ lost.part = d.part /\ lost.fill_base = d.fill_base
        /\ lost.list = <<>> /\ lost.wire = d.wire
    BY <1>0, ChangeFacts
  <2> HIDE DEF sent, lost
  <2> QED
    BY <2>1, <2>2, <2>3, OutcomeFacts
<1> QED
  BY <1>1, <1>2

\* send_packet adds to the list, which is sent first if there is no room.
LEMMA SendPacket ==
  ASSUME NEW d \in Driver, NEW bytes \in Seq(Byte), Len(bytes) <= PacketBuffer,
         NEW o \in send_packet(d, bytes)
  PROVE  /\ o.driver \in Driver /\ o.driver.part = d.part /\ o.driver.fill_base = d.fill_base
         /\ Len(o.driver.list) <= PacketBuffer
         /\ o.ok => Out(o.driver) = Out(d) \o bytes
         /\ ~o.ok => o.driver.wire = d.wire /\ o.driver.list = <<>>
<1> DEFINE F == IF Len(d.list) + Len(bytes) > PacketBuffer THEN midi_write_flush(d) ELSE {Done(d)}
           added(f) == [f.driver EXCEPT !.list = f.driver.list \o bytes]
<1>0. PacketBuffer \in Nat /\ <<>> \in Seq(Byte) /\ Len(<<>>) = 0 /\ Len(bytes) \in Nat
  BY OutputAssumption, SmallSeqs, LenProperties
<1>1. PICK f \in F : o \in (IF f.ok THEN {Done(added(f))} ELSE {f})
  BY DEF send_packet, Then
<1>2. /\ f.driver \in Driver /\ f.driver.part = d.part /\ f.driver.fill_base = d.fill_base
      /\ f.ok => Out(f.driver) = Out(d) /\ Len(f.driver.list) + Len(bytes) <= PacketBuffer
      /\ ~f.ok => f.driver.wire = d.wire /\ f.driver.list = <<>>
  <2>1. CASE Len(d.list) + Len(bytes) > PacketBuffer
    <3>1. f \in midi_write_flush(d)
      BY <2>1
    <3>2. /\ f.driver \in Driver /\ f.driver.part = d.part /\ f.driver.fill_base = d.fill_base
          /\ f.driver.list = <<>>
          /\ f.ok => f.driver.wire = d.wire \o d.list
          /\ ~f.ok => f.driver.wire = d.wire
      BY <3>1, MidiFlush
    <3>3. f.ok => Out(f.driver) = Out(d)
      <4>1. (d.wire \o d.list) \o <<>> = d.wire \o d.list
        BY DriverFacts, Cat
      <4> QED
        BY <3>2, <4>1 DEF Out
    <3> QED
      BY <1>0, <3>2, <3>3
  <2>2. CASE ~(Len(d.list) + Len(bytes) > PacketBuffer)
    <3>1. f = Done(d)
      BY <2>2
    <3>2. f.ok /\ f.driver = d
      BY <3>1, OutcomeFacts
    <3>3. Len(d.list) + Len(bytes) <= PacketBuffer
      BY <1>0, <2>2, DriverFacts
    <3> QED
      BY <3>2, <3>3
  <2> QED
    BY <2>1, <2>2
<1> HIDE DEF F
<1>3. CASE ~f.ok
  <2>1. o = f
    BY <1>1, <1>3
  <2> QED
    BY <1>0, <1>2, <1>3, <2>1
<1>4. CASE f.ok
  <2>1. o = Done(added(f)) /\ f.driver.list \o bytes \in Seq(Byte)
    BY <1>1, <1>2, <1>4, DriverFacts, Cat
  <2>2. /\ added(f) \in Driver /\ added(f).part = d.part /\ added(f).fill_base = d.fill_base
        /\ added(f).list = f.driver.list \o bytes /\ added(f).wire = f.driver.wire
    BY <1>2, <2>1, ChangeFacts
  <2> HIDE DEF added
  <2>3. o.ok /\ o.driver = added(f)
    BY <2>1, OutcomeFacts
  <2>4. Len(f.driver.list \o bytes) = Len(f.driver.list) + Len(bytes)
    BY <1>2, DriverFacts, ConcatProperties
  <2>5. Out(added(f)) = Out(d) \o bytes
    <3>0. f.driver.wire \in Seq(Byte) /\ f.driver.list \in Seq(Byte)
      BY <1>2, DriverFacts
    <3>1. (f.driver.wire \o f.driver.list) \o bytes = f.driver.wire \o (f.driver.list \o bytes)
      BY <1>0, <3>0, CatCat, Zenon
    <3> QED
      BY <1>2, <1>4, <2>2, <3>1 DEF Out
  <2> QED
    BY <1>2, <1>4, <2>2, <2>3, <2>4, <2>5
<1> QED
  BY <1>3, <1>4

\* midi_end_sysex sends the sysex buffer as a packet.
LEMMA MidiEndSysex ==
  ASSUME NEW d \in Driver, Len(d.part) <= SysexBuffer, NEW o \in midi_end_sysex(d)
  PROVE  /\ o.driver \in Driver /\ o.driver.part = <<>> /\ o.driver.fill_base = d.fill_base
         /\ Len(o.driver.list) <= PacketBuffer
         /\ o.ok => Out(o.driver) = Line(d)
         /\ ~o.ok => o.driver.wire = d.wire /\ o.driver.list = <<>>
<1>1. PICK p \in send_packet(d, d.part) : o = [p EXCEPT !.driver.part = <<>>]
  BY DEF midi_end_sysex
<1>2. Len(d.part) <= PacketBuffer /\ d.part \in Seq(Byte) /\ <<>> \in Seq(Byte)
  BY OutputAssumption, DriverFacts, SmallSeqs
<1>3. /\ p.driver \in Driver /\ p.driver.fill_base = d.fill_base
      /\ Len(p.driver.list) <= PacketBuffer
      /\ p.ok => Out(p.driver) = Out(d) \o d.part
      /\ ~p.ok => p.driver.wire = d.wire /\ p.driver.list = <<>>
  BY <1>2, SendPacket
<1>4. \E e : p = Done(e) \/ p = Failed(e)
  <2>1. \A e \in Driver : \A q \in midi_write_flush(e) : \E f : q = Done(f) \/ q = Failed(f)
    BY DEF midi_write_flush
  <2>2. PICK f \in (IF Len(d.list) + Len(d.part) > PacketBuffer THEN midi_write_flush(d)
                                                                 ELSE {Done(d)}) :
          p \in (IF f.ok THEN {Done([f.driver EXCEPT !.list = f.driver.list \o d.part])} ELSE {f})
    BY DEF send_packet, Then
  <2> QED
    BY <2>1, <2>2
<1>5. o.ok = p.ok /\ o.driver = [p.driver EXCEPT !.part = <<>>]
  BY <1>1, <1>4 DEF Done, Failed
<1>6. /\ o.driver \in Driver /\ o.driver.part = <<>> /\ o.driver.list = p.driver.list
      /\ o.driver.wire = p.driver.wire /\ o.driver.fill_base = p.driver.fill_base
  BY <1>2, <1>3, <1>5 DEF Driver
<1> QED
  BY <1>3, <1>5, <1>6 DEF Out, Line

\* The line of bytes, piece by piece.
LEMMA LineFacts ==
  ASSUME NEW d \in Driver
  PROVE  /\ d.part = <<>> => Line(d) = Out(d)
         /\ d.list = <<>> => Out(d) = d.wire
         /\ Keeps(Line(d), Out(d)) /\ Keeps(Out(d), d.wire) /\ Keeps(Line(d), d.wire)
<1>1. /\ d.part \in Seq(Byte) /\ d.list \in Seq(Byte) /\ d.wire \in Seq(Byte)
      /\ Out(d) \in Seq(Byte)
  BY DriverFacts
<1>2. Out(d) \o <<>> = Out(d) /\ d.wire \o <<>> = d.wire
  BY <1>1, Cat
<1>3. Keeps(Out(d) \o d.part, Out(d)) /\ Keeps(d.wire \o d.list, d.wire)
  BY <1>1, KeepsDrop
<1>4. Line(d) = Out(d) \o d.part /\ Out(d) = d.wire \o d.list
  BY DEF Line, Out
<1>5. Keeps(Line(d), Out(d)) /\ Keeps(Out(d), d.wire)
  BY <1>3, <1>4
<1> QED
  BY <1>2, <1>4, <1>5, KeepsTrans

\* midi_write_byte collects bytes, and sends them as a packet when there are enough.
LEMMA MidiWriteByte ==
  ASSUME NEW d \in Driver, Len(d.part) <= SysexBuffer, Len(d.list) <= PacketBuffer,
         NEW byte \in Byte, NEW o \in midi_write_byte(d, byte)
  PROVE  /\ o.driver \in Driver /\ o.driver.fill_base = d.fill_base
         /\ Len(o.driver.part) <= SysexBuffer /\ Len(o.driver.list) <= PacketBuffer
         /\ o.ok => Line(o.driver) = Line(d) \o <<byte>>
         /\ ~o.ok => o.driver.wire = d.wire /\ o.driver.list = <<>> /\ o.driver.part = <<>>
<1> DEFINE F == IF Len(d.part) >= SysexBuffer THEN midi_end_sysex(d) ELSE {Done(d)}
           added(f) == [f.driver EXCEPT !.part = Append(f.driver.part, byte)]
<1>0. SysexBuffer \in Nat \ {0} /\ PacketBuffer \in Nat /\ <<>> \in Seq(Byte) /\ Len(<<>>) = 0
  BY OutputAssumption, SmallSeqs
<1>1. PICK f \in F : o \in (IF f.ok THEN {Done(added(f))} ELSE {f})
  BY DEF midi_write_byte, Then
<1>2. /\ f.driver \in Driver /\ f.driver.fill_base = d.fill_base
      /\ Len(f.driver.list) <= PacketBuffer
      /\ f.ok => Line(f.driver) = Line(d) /\ Len(f.driver.part) < SysexBuffer
      /\ ~f.ok => f.driver.wire = d.wire /\ f.driver.list = <<>> /\ f.driver.part = <<>>
  <2>1. CASE Len(d.part) >= SysexBuffer
    <3>1. f \in midi_end_sysex(d)
      BY <2>1
    <3>2. /\ f.driver \in Driver /\ f.driver.part = <<>> /\ f.driver.fill_base = d.fill_base
          /\ Len(f.driver.list) <= PacketBuffer
          /\ f.ok => Out(f.driver) = Line(d)
          /\ ~f.ok => f.driver.wire = d.wire /\ f.driver.list = <<>>
      BY <3>1, MidiEndSysex
    <3>3. Line(f.driver) = Out(f.driver)
      BY <3>2, LineFacts
    <3> QED
      BY <1>0, <3>2, <3>3
  <2>2. CASE ~(Len(d.part) >= SysexBuffer)
    <3>1. f = Done(d)
      BY <2>2
    <3>2. f.ok /\ f.driver = d
      BY <3>1, OutcomeFacts
    <3>3. Len(d.part) < SysexBuffer
      BY <1>0, <2>2, DriverFacts
    <3> QED
      BY <3>2, <3>3
  <2> QED
    BY <2>1, <2>2
<1> HIDE DEF F
<1>3. CASE ~f.ok
  <2>1. o = f
    BY <1>1, <1>3
  <2> QED
    BY <1>0, <1>2, <1>3, <2>1
<1>4. CASE f.ok
  <2> DEFINE p == f.driver.part
  <2>0. p \in Seq(Byte) /\ Out(f.driver) \in Seq(Byte) /\ Len(p) \in Nat
    BY <1>2, DriverFacts
  <2>1. o = Done(added(f)) /\ Append(p, byte) \in Seq(Byte) /\ Len(Append(p, byte)) = Len(p) + 1
    BY <1>1, <1>4, <2>0, SmallSeqs
  <2>2. /\ added(f) \in Driver /\ added(f).part = Append(p, byte)
        /\ added(f).fill_base = d.fill_base
        /\ added(f).list = f.driver.list /\ added(f).wire = f.driver.wire
    BY <1>2, <2>1, ChangeFacts
  <2> HIDE DEF added
  <2>3. o.ok /\ o.driver = added(f)
    BY <2>1, OutcomeFacts
  <2>4. Line(added(f)) = Line(d) \o <<byte>>
    <3>1. Append(p, byte) = p \o <<byte>> /\ <<byte>> \in Seq(Byte)
      BY <2>0, Cat, SmallSeqs
    <3>2. (Out(f.driver) \o p) \o <<byte>> = Out(f.driver) \o (p \o <<byte>>)
      BY <2>0, <3>1, CatCat
    <3>3. Out(added(f)) = Out(f.driver) /\ Line(f.driver) = Out(f.driver) \o p
      BY <2>2 DEF Out, Line
    <3>4. Line(added(f)) = Out(f.driver) \o (p \o <<byte>>)
      BY <2>2, <3>1, <3>3 DEF Line
    <3> QED
      BY <1>2, <1>4, <3>2, <3>3, <3>4, Zenon
  <2>5. Len(p) + 1 <= SysexBuffer
    BY <1>0, <1>2, <1>4, <2>0
  <2> QED
    BY <1>2, <2>1, <2>2, <2>3, <2>4, <2>5
<1> QED
  BY <1>3, <1>4

\* Short: one or three bytes from the front of an event.
LEMMA ShortFacts ==
  ASSUME NEW event \in Seq(Byte), Len(event) = 4
  PROVE  /\ Short(event) \in Seq(Byte) /\ Len(Short(event)) <= 3 /\ event[1] \in Nat
         /\ \E others \in Seq(Byte) : event = Short(event) \o others
         /\ IsRealTime(event[1]) => NoData(Short(event))
<1> DEFINE n == pm_midi_length(event[1])
<1>1. n \in 0..Len(event) /\ n \in {1, 3} /\ (IsRealTime(event[1]) => n = 1)
  BY DEF pm_midi_length, IsRealTime, Note
<1>2. event[1] \in Nat
  <2>1. 1 \in 1..Len(event)
    OBVIOUS
  <2>2. event[1] \in Byte
    BY <2>1, ElementOfSeq
  <2> QED
    BY <2>2, ByteFacts
<1> HIDE DEF n
<1>3. /\ SubSeq(event, 1, n) \in Seq(Byte) /\ SubSeq(event, n + 1, Len(event)) \in Seq(Byte)
      /\ Len(SubSeq(event, 1, n)) = n /\ \A i \in 1..n : SubSeq(event, 1, n)[i] = event[i]
      /\ SubSeq(event, 1, n) \o SubSeq(event, n + 1, Len(event)) = event
  BY <1>1, Cut
<1>4. Short(event) = SubSeq(event, 1, n)
  BY DEF Short, n
<1>5. Len(Short(event)) <= 3
  BY <1>1, <1>3, <1>4
<1>6. \E others \in Seq(Byte) : event = Short(event) \o others
  BY <1>3, <1>4
<1>7. ASSUME IsRealTime(event[1]) PROVE NoData(Short(event))
  <2>1. n = 1 /\ ~IsData(event[1])
    BY <1>1, <1>2, <1>7 DEF IsRealTime, IsData
  <2>2. DOMAIN Short(event) = 1..1 /\ Short(event)[1] = event[1]
    BY <1>3, <1>4, <2>1, LenProperties
  <2> QED
    BY <2>1, <2>2 DEF NoData
<1> QED
  BY <1>2, <1>3, <1>4, <1>5, <1>6, <1>7

\* Bytes that are no data, put in before the last part.
LEMMA KeepsInsert ==
  ASSUME NEW a \in Seq(Byte), NEW b \in Seq(Byte), NEW c \in Seq(Byte), NoData(b)
  PROVE  Keeps(a \o c, (a \o b) \o c)
BY KeepsAdd, KeepsCat, Cat

-----------------------------------------------------------------------------
(* The functions of the backend that is in use.                            *)

Back == backend \in {"mac", "alsa", "winmm", "haiku", "synth", "sndio"}

\* A driver with another wire.
LEMMA WireFacts ==
  ASSUME NEW d \in Driver, NEW bytes \in Seq(Byte), d.list = <<>>
  PROVE  LET e == [d EXCEPT !.wire = d.wire \o bytes] IN
         /\ e \in Driver /\ e.part = d.part /\ e.list = <<>> /\ e.fill_base = d.fill_base
         /\ Out(e) = Out(d) \o bytes
<1> DEFINE e == [d EXCEPT !.wire = d.wire \o bytes]
<1>1. d.wire \in Seq(Byte) /\ d.wire \o bytes \in Seq(Byte)
  BY DriverFacts, Cat
<1>2. /\ e \in Driver /\ e.part = d.part /\ e.list = <<>> /\ e.fill_base = d.fill_base
      /\ e.wire = d.wire \o bytes
  BY <1>1 DEF Driver
<1> HIDE DEF e
<1>3. Out(e) = Out(d) \o bytes
  BY <1>2, LineFacts
<1> QED
  BY <1>2, <1>3 DEF e

\* do_write and spray: all of the bytes, or for sndio those at the front.
LEMMA DoWrite ==
  ASSUME NEW d \in Driver, NEW bytes \in Seq(Byte), d.list = <<>>,
         NEW o \in do_write(d, bytes)
  PROVE  /\ o.driver \in Driver /\ o.driver.part = d.part /\ o.driver.list = <<>>
         /\ o.driver.fill_base = d.fill_base
         /\ o.ok => Out(o.driver) = Out(d) \o bytes
         /\ Keeps(Out(d) \o bytes, Out(o.driver))
<1>1. Out(d) \in Seq(Byte)
  BY DriverFacts
<1>2. CASE o = Done([d EXCEPT !.wire = d.wire \o bytes])
  <2> DEFINE e == [d EXCEPT !.wire = d.wire \o bytes]
  <2>1. /\ e \in Driver /\ e.part = d.part /\ e.list = <<>> /\ e.fill_base = d.fill_base
        /\ Out(e) = Out(d) \o bytes
    BY WireFacts
  <2> HIDE DEF e
  <2>2. o.driver = e
    BY <1>2, OutcomeFacts DEF e
  <2> QED
    BY <2>1, <2>2, KeepsSame
<1>3. CASE \E n \in 0..Len(bytes) - 1 :
             o = Failed([d EXCEPT !.wire = d.wire \o SubSeq(bytes, 1, n)])
  <2>1. PICK n \in 0..Len(bytes) - 1 :
               o = Failed([d EXCEPT !.wire = d.wire \o SubSeq(bytes, 1, n)])
    BY <1>3
  <2>2. n \in 0..Len(bytes)
    BY LenProperties
  <2> DEFINE front == SubSeq(bytes, 1, n)
             back  == SubSeq(bytes, n + 1, Len(bytes))
             e     == [d EXCEPT !.wire = d.wire \o front]
  <2>3. front \in Seq(Byte) /\ back \in Seq(Byte) /\ front \o back = bytes
    BY <2>2, Cut
  <2>4. ~o.ok /\ o.driver = e
    BY <2>1, OutcomeFacts
  <2> HIDE DEF front, back
  <2>5. /\ e \in Driver /\ e.part = d.part /\ e.list = <<>> /\ e.fill_base = d.fill_base
        /\ Out(e) = Out(d) \o front
    BY <2>3, WireFacts
  <2> HIDE DEF e
  <2>6. (Out(d) \o front) \o back = Out(d) \o bytes
    BY <1>1, <2>3, CatCat
  <2>7. Keeps(Out(d) \o bytes, Out(e))
    <3>1. Out(d) \o front \in Seq(Byte)
      BY <1>1, <2>3, Cat
    <3>2. Keeps((Out(d) \o front) \o back, Out(d) \o front)
      BY <2>3, <3>1, KeepsDrop
    <3> QED
      BY <2>5, <2>6, <3>2
  <2> QED
    BY <2>4, <2>5, <2>7
<1> QED
  BY <1>2, <1>3 DEF do_write, spray

\* Nothing done.
LEMMA NoneFacts == \A d, o : o \in none(d) => o.ok /\ o.driver = d
BY OutcomeFacts DEF none

\* winmm_write_flush sends the buffer, or loses it.
LEMMA WinFlush ==
  ASSUME NEW d \in Driver, d.list = <<>>, d.fill_base => Len(d.part) > 0,
         NEW o \in winmm_write_flush(d)
  PROVE  /\ o.driver \in Driver /\ o.driver.part = <<>> /\ o.driver.list = <<>>
         /\ o.driver.fill_base = FALSE
         /\ o.ok => Line(o.driver) = Line(d)
<1>0. d.part \in Seq(Byte) /\ <<>> \in Seq(Byte) /\ Len(<<>>) = 0 /\ d.fill_base \in BOOLEAN
  BY DriverFacts, SmallSeqs
<1>1. CASE d.part = <<>>
  <2>1. o = Done(d)
    BY <1>1 DEF winmm_write_flush
  <2>2. d.fill_base = FALSE
    BY <1>0, <1>1
  <2> QED
    BY <1>1, <2>1, <2>2, OutcomeFacts
<1>2. CASE d.part # <<>>
  <2> DEFINE e == [d EXCEPT !.part = <<>>, !.fill_base = FALSE]
             f == [e EXCEPT !.wire = e.wire \o d.part]
  <2>1. o = Done(f) \/ o = Failed(e)
    BY <1>2 DEF winmm_write_flush
  <2>2. /\ e \in Driver /\ e.part = <<>> /\ e.list = <<>> /\ e.wire = d.wire
        /\ e.fill_base = FALSE
    BY <1>0 DEF Driver
  <2> HIDE DEF e
  <2>3. /\ f \in Driver /\ f.part = <<>> /\ f.list = <<>> /\ f.fill_base = FALSE
        /\ Out(f) = Out(e) \o d.part
    BY <1>0, <2>2, WireFacts
  <2> HIDE DEF f
  <2>4. Line(f) = Out(f) /\ Out(e) = Out(d)
    BY <2>2, <2>3, LineFacts DEF Out
  <2>5. Line(f) = Line(d)
    BY <2>3, <2>4 DEF Line
  <2> QED
    BY <2>1, <2>2, <2>3, <2>5, OutcomeFacts
<1> QED
  BY <1>1, <1>2

\* write_byte.
LEMMA WriteByteFacts ==
  ASSUME Back, Capacity, NEW byte \in Byte, NEW o \in write_byte(byte)
  PROVE  /\ Fits(o.driver)
         /\ backend # "winmm" => Keeps(Line(driver) \o <<byte>>, Line(o.driver))
         /\ o.ok => \/ Line(o.driver) = Line(driver) \o <<byte>>
                    \/ /\ backend = "alsa" /\ byte = Sysex
                       /\ Line(o.driver) = Out(driver) \o <<byte>>
         /\ (o.ok /\ backend = "alsa" /\ byte = Eox) => o.driver.part = <<>>
<1>0. /\ driver \in Driver /\ Fits(driver) /\ <<byte>> \in Seq(Byte) /\ <<>> \in Seq(Byte)
      /\ Len(<<>>) = 0 /\ SysexBuffer \in Nat \ {0} /\ fill_length \in Nat /\ fill_length >= 4
  BY SmallSeqs, OutputAssumption DEF Capacity, Fits
<1>1. /\ driver.part \in Seq(Byte) /\ driver.list \in Seq(Byte) /\ driver.wire \in Seq(Byte)
      /\ Out(driver) \in Seq(Byte) /\ Line(driver) \in Seq(Byte)
      /\ Append(driver.part, byte) \in Seq(Byte)
      /\ Append(driver.part, byte) = driver.part \o <<byte>>
      /\ Len(Append(driver.part, byte)) = Len(driver.part) + 1 /\ Len(driver.part) \in Nat
  BY <1>0, DriverFacts, SmallSeqs, Cat
<1>2. Out(driver) \o Append(driver.part, byte) = Line(driver) \o <<byte>>
  <2>1. (Out(driver) \o driver.part) \o <<byte>> = Out(driver) \o (driver.part \o <<byte>>)
    <3> DEFINE a == Out(driver)
               b == driver.part
    <3>1. a \in Seq(Byte) /\ b \in Seq(Byte)
      BY <1>1
    <3> HIDE DEF a, b
    <3>2. (a \o b) \o <<byte>> = a \o (b \o <<byte>>)
      BY <1>0, <3>1, CatCat
    <3> QED
      BY <3>2 DEF a, b
  <2> QED
    BY <1>1, <2>1, Zenon DEF Line
<1>3. CASE backend = "mac"
  <2>1. o \in midi_write_byte(driver, byte)
    BY <1>3 DEF write_byte, IsHaiku
  <2>2. Len(driver.part) <= SysexBuffer /\ Len(driver.list) <= PacketBuffer
    BY <1>0, <1>3 DEF Fits
  <2>3. /\ o.driver \in Driver /\ o.driver.fill_base = driver.fill_base
        /\ Len(o.driver.part) <= SysexBuffer /\ Len(o.driver.list) <= PacketBuffer
        /\ o.ok => Line(o.driver) = Line(driver) \o <<byte>>
        /\ ~o.ok => /\ o.driver.wire = driver.wire /\ o.driver.list = <<>>
                    /\ o.driver.part = <<>>
    BY <1>0, <2>1, <2>2, MidiWriteByte
  <2>4. ASSUME ~o.ok PROVE Keeps(Line(driver) \o <<byte>>, Line(o.driver))
    <3>1. Line(o.driver) = driver.wire
      BY <2>3, <2>4, LineFacts
    <3>2. Keeps(Line(driver) \o <<byte>>, Line(driver)) /\ Keeps(Line(driver), driver.wire)
      BY <1>0, <1>1, KeepsDrop, LineFacts
    <3> QED
      BY <3>1, <3>2, KeepsTrans
  <2>5. Fits(o.driver)
    BY <1>0, <1>3, <2>3 DEF Fits
  <2> QED
    BY <1>3, <2>3, <2>4, <2>5, KeepsSame
<1>4. CASE backend = "alsa"
  <2> DEFINE bytes == Append(driver.part, byte)
             held  == IF byte = Sysex THEN <<byte>> ELSE bytes
             e     == [driver EXCEPT !.part = <<>>]
             f     == [e EXCEPT !.list = e.list \o bytes]
             g     == [driver EXCEPT !.part = held]
  <2>0. bytes \in Seq(Byte) /\ held \in Seq(Byte) /\ Len(driver.part) < SysexBuffer
    BY <1>0, <1>1, <1>4 DEF Fits
  <2>1. o \in alsa_write_byte(driver, byte)
    BY <1>4 DEF write_byte, IsHaiku
  <2>2. IF byte = Eox \/ Len(bytes) = SysexBuffer THEN o = Done(f) \/ o = Failed(e)
                                                  ELSE o = Done(g)
    BY <2>1, Zenon DEF alsa_write_byte, OutputEvent
  <2>3. /\ e \in Driver /\ e.part = <<>> /\ e.list = driver.list /\ e.wire = driver.wire
        /\ e.fill_base = driver.fill_base
    BY <1>0, ChangeFacts
  <2>7. Len(held) < SysexBuffer \/ Len(bytes) = SysexBuffer
    <3>1. Len(<<byte>>) = 1
      OBVIOUS
    <3> QED
      BY <1>0, <1>1, <2>0, <3>1
  <2>10. held = bytes \/ (byte = Sysex /\ held = <<byte>>)
    OBVIOUS
  <2> HIDE DEF held
  <2>4. /\ g \in Driver /\ g.part = held /\ g.list = driver.list /\ g.wire = driver.wire
        /\ g.fill_base = driver.fill_base
    BY <1>0, <2>0, ChangeFacts
  <2>5. e.list \o bytes \in Seq(Byte) /\ e.list \o bytes = driver.list \o bytes
    BY <1>1, <2>0, <2>3, Cat
  <2>6. /\ f \in Driver /\ f.part = <<>> /\ f.list = driver.list \o bytes
        /\ f.wire = driver.wire /\ f.fill_base = driver.fill_base
    BY <2>3, <2>5, ChangeFacts
  <2> HIDE DEF e, f, g, bytes
  <2>8. \/ o.driver = f
        \/ o.driver = e /\ ~o.ok
        \/ o.driver = g /\ Len(held) < SysexBuffer
    <3>1. CASE byte = Eox \/ Len(bytes) = SysexBuffer
      BY <2>2, <3>1, OutcomeFacts
    <3>2. CASE ~(byte = Eox \/ Len(bytes) = SysexBuffer)
      BY <2>2, <2>7, <3>2, OutcomeFacts
    <3> QED
      BY <3>1, <3>2
  <2>9. Line(e) = Out(driver) /\ Line(f) = Line(driver) \o <<byte>> /\ Line(g) = Out(driver) \o held
    <3>1. Line(e) = Out(e) /\ Out(e) = Out(driver)
      BY <2>3, LineFacts DEF Out
    <3>2. Line(f) = Out(f)
      BY <2>6, LineFacts
    <3>3. Out(f) = Out(driver) \o bytes
      <4>1. (driver.wire \o driver.list) \o bytes = driver.wire \o (driver.list \o bytes)
        BY <1>1, <2>0, CatCat, Zenon
      <4> QED
        BY <2>6, <4>1 DEF Out
    <3>4. Out(driver) \o bytes = Line(driver) \o <<byte>>
      BY <1>2 DEF bytes
    <3>5. Line(g) = Out(driver) \o held
      BY <2>4 DEF Line, Out
    <3> QED
      BY <3>1, <3>2, <3>3, <3>4, <3>5
  <2>11. Out(driver) \o bytes = Line(driver) \o <<byte>>
    BY <1>2 DEF bytes
  <2>12. Fits(o.driver)
    <3>1. o.driver \in Driver /\ o.driver.fill_base = driver.fill_base
      BY <2>3, <2>4, <2>6, <2>8
    <3>2. Len(o.driver.part) < SysexBuffer
      BY <1>0, <2>3, <2>4, <2>6, <2>8
    <3> QED
      BY <1>0, <1>4, <3>1, <3>2 DEF Fits
  <2>13. Keeps(Line(driver) \o <<byte>>, Line(o.driver))
    <3>1. Keeps((Out(driver) \o driver.part) \o <<byte>>, Out(driver) \o <<byte>>)
      BY <1>0, <1>1, KeepsDrop
    <3>2. Keeps(Line(driver) \o <<byte>>, Out(driver) \o <<byte>>)
      BY <3>1 DEF Line
    <3>3. Keeps(Line(driver) \o <<byte>>, Line(driver)) /\ Keeps(Line(driver), Out(driver))
      BY <1>0, <1>1, KeepsDrop, LineFacts
    <3>4. Keeps(Line(driver) \o <<byte>>, Out(driver))
      BY <3>3, KeepsTrans
    <3>5. Keeps(Line(driver) \o <<byte>>, Line(driver) \o <<byte>>)
      BY KeepsSame
    <3> QED
      BY <2>8, <2>9, <2>10, <2>11, <3>2, <3>4, <3>5
  <2>14. byte = Eox => o.driver.part = <<>>
    BY <2>2, <2>3, <2>6, OutcomeFacts
  <2> QED
    BY <1>4, <2>8, <2>9, <2>10, <2>11, <2>12, <2>13, <2>14
<1>5. CASE backend = "winmm"
  <2> DEFINE e == [driver EXCEPT !.part = Append(driver.part, byte), !.fill_base = TRUE]
  <2>1. IF IsFull(e.part) THEN o \in winmm_write_flush(e) ELSE o \in {Done(e)}
    BY <1>5, OutcomeFacts DEF write_byte, winmm_write_byte, IsHaiku
  <2>2. /\ e \in Driver /\ e.part = Append(driver.part, byte) /\ e.list = driver.list
        /\ e.wire = driver.wire
    BY <1>0, <1>1 DEF Driver
  <2>3. driver.list = <<>> /\ Len(driver.part) <= fill_length /\ Len(e.part) > 0
    BY <1>0, <1>1, <1>5, <2>2 DEF Fits
  <2> HIDE DEF e
  <2>4. Line(e) = Line(driver) \o <<byte>>
    BY <1>2, <2>2 DEF Line, Out
  <2>5. /\ o.driver \in Driver /\ o.driver.list = <<>> /\ Len(o.driver.part) <= fill_length
        /\ o.driver.fill_base => Len(o.driver.part) > 0
        /\ o.ok => Line(o.driver) = Line(e)
    <3>1. CASE IsFull(e.part)
      <4>1. /\ o.driver \in Driver /\ o.driver.part = <<>> /\ o.driver.list = <<>>
            /\ o.driver.fill_base = FALSE
            /\ o.ok => Line(o.driver) = Line(e)
        BY <2>1, <2>2, <2>3, <3>1, WinFlush
      <4> QED
        BY <1>0, <4>1
    <3>2. CASE ~IsFull(e.part)
      <4>1. o.driver = e
        BY <2>1, <3>2, OutcomeFacts
      <4>2. Len(e.part) <= fill_length
        BY <1>0, <1>1, <2>2, <3>2 DEF IsFull
      <4> QED
        BY <2>2, <2>3, <4>1, <4>2
    <3> QED
      BY <3>1, <3>2
  <2> QED
    BY <1>5, <2>4, <2>5 DEF Fits
<1>6. CASE backend \in {"haiku", "synth"}
  <2> DEFINE e == [driver EXCEPT !.part = Append(driver.part, byte)]
  <2>1. o.driver = e
    BY <1>6, OutcomeFacts DEF write_byte, IsHaiku, haiku_write_byte
  <2>2. /\ e \in Driver /\ e.part = Append(driver.part, byte) /\ e.list = driver.list
        /\ e.wire = driver.wire /\ e.fill_base = driver.fill_base
    BY <1>0, <1>1, ChangeFacts
  <2> HIDE DEF e
  <2>3. Line(e) = Line(driver) \o <<byte>>
    BY <1>2, <2>2 DEF Line, Out
  <2>4. Fits(e)
    BY <1>0, <1>6, <2>2 DEF Fits
  <2> QED
    BY <1>6, <2>1, <2>3, <2>4, KeepsSame
<1>7. CASE backend = "sndio"
  <2>1. o \in do_write(driver, <<byte>>)
    BY <1>7 DEF write_byte, IsHaiku
  <2>2. driver.list = <<>> /\ driver.part = <<>>
    BY <1>0, <1>7 DEF Fits
  <2>3. /\ o.driver \in Driver /\ o.driver.part = driver.part /\ o.driver.list = <<>>
        /\ o.driver.fill_base = driver.fill_base
        /\ o.ok => Out(o.driver) = Out(driver) \o <<byte>>
        /\ Keeps(Out(driver) \o <<byte>>, Out(o.driver))
    BY <1>0, <2>1, <2>2, DoWrite
  <2>4. Line(o.driver) = Out(o.driver) /\ Line(driver) = Out(driver)
    BY <1>0, <2>2, <2>3, LineFacts
  <2>5. Fits(o.driver)
    BY <1>0, <1>7, <2>2, <2>3 DEF Fits
  <2> QED
    BY <1>7, <2>3, <2>4, <2>5
<1> QED
  BY <1>3, <1>4, <1>5, <1>6, <1>7 DEF Back

\* A driver that has been given bytes for its list.
LEMMA ListFacts ==
  ASSUME NEW d \in Driver, NEW bytes \in Seq(Byte), NEW o \in OutputEvent(d, bytes)
  PROVE  /\ o.driver \in Driver /\ o.driver.part = d.part /\ o.driver.fill_base = d.fill_base
         /\ o.ok => Out(o.driver) = Out(d) \o bytes
         /\ ~o.ok => o.driver = d
<1> DEFINE e == [d EXCEPT !.list = d.list \o bytes]
<1>1. d.list \in Seq(Byte) /\ d.wire \in Seq(Byte) /\ d.list \o bytes \in Seq(Byte)
  BY DriverFacts, Cat
<1>2. /\ e \in Driver /\ e.part = d.part /\ e.list = d.list \o bytes /\ e.wire = d.wire
      /\ e.fill_base = d.fill_base
  BY <1>1, ChangeFacts
<1>3. o = Done(e) \/ o = Failed(d)
  BY DEF OutputEvent
<1> HIDE DEF e
<1>4. Out(e) = Out(d) \o bytes
  <2>1. (d.wire \o d.list) \o bytes = d.wire \o (d.list \o bytes)
    BY <1>1, CatCat, Zenon
  <2> QED
    BY <1>2, <2>1 DEF Out
<1>5. CASE o = Done(e)
  BY <1>2, <1>4, <1>5, OutcomeFacts
<1>6. CASE o = Failed(d)
  BY <1>6, OutcomeFacts
<1> QED
  BY <1>3, <1>5, <1>6

\* write_short: what it does to Out, and for ALSA, which may discard what the parser holds.
LEMMA WriteShortFacts ==
  ASSUME Back, Capacity, NEW event \in Seq(Byte), Len(event) = 4, NEW o \in write_short(event)
  PROVE  /\ Fits(o.driver)
         /\ backend # "alsa" =>
              /\ o.driver.part = driver.part
              /\ backend # "winmm" => Keeps(Out(driver) \o Short(event), Out(o.driver))
              /\ o.ok => IF backend = "synth" /\ event[1] >= 240
                           THEN o.driver = driver
                           ELSE Out(o.driver) = Out(driver) \o Short(event)
         /\ backend = "alsa" =>
              /\ o.driver.part = <<>> \/ (IsRealTime(event[1]) /\ o.driver.part = driver.part)
              /\ Keeps(Line(driver) \o Short(event), Line(o.driver))
              /\ o.ok => Out(o.driver) = Out(driver) \o Short(event)
<1> DEFINE bytes == Short(event)
<1>0. /\ driver \in Driver /\ Fits(driver) /\ bytes \in Seq(Byte) /\ <<>> \in Seq(Byte)
      /\ Len(<<>>) = 0 /\ SysexBuffer \in Nat \ {0} /\ fill_length \in Nat
      /\ Len(bytes) <= PacketBuffer /\ event[1] \in Nat
      /\ (IsRealTime(event[1]) => NoData(bytes))
  <2>1. /\ bytes \in Seq(Byte) /\ Len(bytes) <= 3 /\ event[1] \in Nat
        /\ (IsRealTime(event[1]) => NoData(bytes))
    BY ShortFacts
  <2>2. Len(bytes) \in Nat /\ PacketBuffer \in Nat /\ PacketBuffer >= 3
    BY <2>1, LenProperties, OutputAssumption
  <2>3. Len(bytes) <= PacketBuffer
    BY <2>1, <2>2
  <2>4. driver \in Driver /\ Fits(driver)
    BY DEF Capacity, Fits
  <2>5. SysexBuffer \in Nat \ {0} /\ fill_length \in Nat
    BY OutputAssumption
  <2> QED
    BY <2>1, <2>3, <2>4, <2>5, SmallSeqs
<1> HIDE DEF bytes
<1>1. /\ driver.part \in Seq(Byte) /\ Out(driver) \in Seq(Byte) /\ Line(driver) \in Seq(Byte)
  BY <1>0, DriverFacts
<1>2. CASE backend = "mac"
  <2>1. o \in send_packet(driver, bytes)
    BY <1>2 DEF write_short, IsHaiku, midi_write_short, bytes
  <2>2. /\ o.driver \in Driver /\ o.driver.part = driver.part
        /\ o.driver.fill_base = driver.fill_base
        /\ Len(o.driver.list) <= PacketBuffer
        /\ o.ok => Out(o.driver) = Out(driver) \o bytes
        /\ ~o.ok => o.driver.wire = driver.wire /\ o.driver.list = <<>>
    BY <1>0, <2>1, SendPacket
  <2>3. Fits(o.driver)
    BY <1>0, <1>2, <2>2 DEF Fits
  <2>4. ASSUME ~o.ok PROVE Keeps(Out(driver) \o bytes, Out(o.driver))
    <3>1. Out(o.driver) = driver.wire
      BY <2>2, <2>4, LineFacts
    <3>2. Keeps(Out(driver) \o bytes, Out(driver)) /\ Keeps(Out(driver), driver.wire)
      BY <1>0, <1>1, KeepsDrop, LineFacts
    <3> QED
      BY <3>1, <3>2, KeepsTrans
  <2> QED
    BY <1>2, <2>2, <2>3, <2>4, KeepsSame DEF bytes
<1>3. CASE backend = "alsa"
  <2> DEFINE e == IF IsRealTime(event[1]) THEN driver ELSE [driver EXCEPT !.part = <<>>]
  <2>1. o \in OutputEvent(e, bytes)
    BY <1>3 DEF write_short, IsHaiku, alsa_write_short, bytes
  <2>2. /\ e \in Driver /\ e.list = driver.list /\ e.wire = driver.wire
        /\ e.fill_base = driver.fill_base
        /\ e.part = <<>> \/ (IsRealTime(event[1]) /\ e.part = driver.part)
    BY <1>0, ChangeFacts
  <2> HIDE DEF e
  <2>3. /\ o.driver \in Driver /\ o.driver.part = e.part /\ o.driver.fill_base = e.fill_base
        /\ o.ok => Out(o.driver) = Out(e) \o bytes
        /\ ~o.ok => o.driver = e
    BY <1>0, <2>1, <2>2, ListFacts
  <2>4. Out(e) = Out(driver)
    BY <2>2 DEF Out
  <2>5. Fits(o.driver)
    <3>1. Len(o.driver.part) < SysexBuffer
      BY <1>0, <1>3, <2>2, <2>3 DEF Fits
    <3> QED
      BY <1>0, <1>3, <2>2, <2>3, <3>1 DEF Fits
  <2>6. Keeps(Line(driver) \o bytes, Line(o.driver))
    <3>1. Keeps(Line(driver) \o bytes, Line(driver))
      BY <1>0, <1>1, KeepsDrop
    <3>2. CASE e.part = <<>>
      <4>1. Line(o.driver) = Out(o.driver)
        BY <2>3, <3>2, LineFacts
      <4>2. Out(o.driver) \in {Out(driver), Out(driver) \o bytes}
        BY <2>3, <2>4
      <4>3. Keeps((Out(driver) \o driver.part) \o bytes, Out(driver) \o bytes)
        BY <1>0, <1>1, KeepsDrop
      <4>4. Keeps(Line(driver) \o bytes, Out(driver) \o bytes)
        BY <4>3 DEF Line
      <4>5. Keeps(Line(driver) \o bytes, Out(driver))
        BY <1>0, <3>1, LineFacts, KeepsTrans
      <4> QED
        BY <4>1, <4>2, <4>4, <4>5
    <3>3. CASE IsRealTime(event[1]) /\ e.part = driver.part
      <4>1. Line(driver) = Out(driver) \o driver.part
        BY DEF Line
      <4>2. Line(o.driver) \in {Line(driver), (Out(driver) \o bytes) \o driver.part}
        BY <2>3, <2>4, <3>3 DEF Line
      <4>3. Keeps(Out(driver) \o driver.part, (Out(driver) \o bytes) \o driver.part)
        BY <1>0, <1>1, <3>3, KeepsInsert
      <4>4. Keeps(Line(driver) \o bytes, (Out(driver) \o bytes) \o driver.part)
        BY <3>1, <4>1, <4>3, KeepsTrans
      <4> QED
        BY <3>1, <4>2, <4>4
    <3> QED
      BY <2>2, <3>2, <3>3
  <2> QED
    BY <1>3, <2>2, <2>3, <2>4, <2>5, <2>6 DEF bytes
<1>4. CASE backend \in {"winmm", "haiku", "sndio"} \/ (backend = "synth" /\ event[1] < 240)
  <2>0. driver.list = <<>>
    BY <1>0, <1>4 DEF Fits
  <2>1. CASE backend # "winmm"
    <3>1. o \in do_write(driver, bytes)
      BY <1>4, <2>1 DEF write_short, write_short_synth, IsHaiku, do_write, bytes
    <3>2. /\ o.driver \in Driver /\ o.driver.part = driver.part /\ o.driver.list = <<>>
          /\ o.driver.fill_base = driver.fill_base
          /\ o.ok => Out(o.driver) = Out(driver) \o bytes
          /\ Keeps(Out(driver) \o bytes, Out(o.driver))
      BY <1>0, <2>0, <3>1, DoWrite
    <3>3. Fits(o.driver)
      BY <1>0, <1>4, <2>1, <3>2 DEF Fits
    <3>4. ~(backend = "synth" /\ event[1] >= 240)
      BY <1>0, <1>4
    <3> QED
      BY <1>4, <2>1, <3>2, <3>3, <3>4 DEF bytes
  <2>2. CASE backend = "winmm"
    <3> DEFINE e == [driver EXCEPT !.wire = driver.wire \o bytes]
    <3>1. o = Done(e) \/ o = Failed(driver)
      BY <2>2 DEF write_short, IsHaiku, winmm_write_short, bytes
    <3>2. /\ e \in Driver /\ e.part = driver.part /\ e.list = <<>>
          /\ e.fill_base = driver.fill_base
          /\ Out(e) = Out(driver) \o bytes
      BY <1>0, <2>0, WireFacts
    <3> HIDE DEF e
    <3>3. Fits(e)
      BY <1>0, <2>2, <3>2 DEF Fits
    <3>4. CASE o = Done(e)
      BY <2>2, <3>2, <3>3, <3>4, OutcomeFacts DEF bytes
    <3>5. CASE o = Failed(driver)
      BY <1>0, <2>2, <3>5, OutcomeFacts
    <3> QED
      BY <3>1, <3>4, <3>5
  <2> QED
    BY <2>1, <2>2
<1>5. CASE backend = "synth" /\ ~(event[1] < 240)
  <2>1. o = Done(driver)
    BY <1>5 DEF write_short, write_short_synth, IsHaiku
  <2>2. o.driver = driver /\ event[1] >= 240
    BY <1>0, <1>5, <2>1, OutcomeFacts
  <2>3. Keeps(Out(driver) \o bytes, Out(driver))
    BY <1>0, <1>1, KeepsDrop
  <2> QED
    BY <1>0, <1>5, <2>2, <2>3 DEF bytes
<1> QED
  BY <1>2, <1>3, <1>4, <1>5 DEF Back

\* write_realtime, inside a sysex message.
LEMMA WriteRealtimeFacts ==
  ASSUME Back, Capacity, NEW event \in Seq(Byte), Len(event) = 4, IsRealTime(event[1]),
         NEW o \in write_realtime(event)
  PROVE  /\ Fits(o.driver)
         /\ backend # "winmm" => Keeps(Line(driver), Line(o.driver))
<1> DEFINE bytes == Short(event)
<1>0. /\ driver \in Driver /\ Fits(driver) /\ bytes \in Seq(Byte) /\ Len(bytes) <= PacketBuffer
      /\ event[1] \in Nat /\ NoData(bytes)
  <2>1. /\ bytes \in Seq(Byte) /\ Len(bytes) <= 3 /\ event[1] \in Nat /\ NoData(bytes)
    BY ShortFacts
  <2>2. Len(bytes) \in Nat /\ PacketBuffer \in Nat /\ PacketBuffer >= 3
    BY <2>1, LenProperties, OutputAssumption
  <2>3. Len(bytes) <= PacketBuffer
    BY <2>1, <2>2
  <2>4. driver \in Driver /\ Fits(driver)
    BY DEF Capacity, Fits
  <2> QED
    BY <2>1, <2>3, <2>4
<1> HIDE DEF bytes
<1>1. /\ driver.part \in Seq(Byte) /\ Out(driver) \in Seq(Byte) /\ Line(driver) \in Seq(Byte)
  BY <1>0, DriverFacts
<1>2. CASE backend = "mac"
  <2> DEFINE F == midi_end_sysex(driver)
  <2>1. PICK f \in F : o \in (IF f.ok THEN midi_write_short(f.driver, event) ELSE {f})
    BY <1>2 DEF write_realtime, midi_write_realtime, Then, IsHaiku
  <2>2. Len(driver.part) <= SysexBuffer
    BY <1>0, <1>2 DEF Fits
  <2>3. /\ f.driver \in Driver /\ f.driver.part = <<>> /\ f.driver.fill_base = driver.fill_base
        /\ Len(f.driver.list) <= PacketBuffer
        /\ f.ok => Out(f.driver) = Line(driver)
        /\ ~f.ok => f.driver.wire = driver.wire /\ f.driver.list = <<>>
    BY <1>0, <2>1, <2>2, MidiEndSysex
  <2>4. /\ o.driver \in Driver /\ o.driver.part = <<>>
        /\ o.driver.fill_base = driver.fill_base
        /\ Len(o.driver.list) <= PacketBuffer
        /\ Keeps(Line(driver), Out(o.driver))
    <3>1. CASE ~f.ok
      <4>1. o = f
        BY <2>1, <3>1
      <4>2. Out(o.driver) = driver.wire
        BY <2>3, <3>1, <4>1, LineFacts
      <4>3. Keeps(Line(driver), driver.wire)
        BY <1>0, LineFacts
      <4> QED
        BY <2>3, <4>1, <4>2, <4>3
    <3>2. CASE f.ok
      <4>1. o \in send_packet(f.driver, bytes)
        BY <2>1, <3>2 DEF midi_write_short, bytes
      <4>2. /\ o.driver \in Driver /\ o.driver.part = f.driver.part
            /\ o.driver.fill_base = f.driver.fill_base
            /\ Len(o.driver.list) <= PacketBuffer
            /\ o.ok => Out(o.driver) = Out(f.driver) \o bytes
            /\ ~o.ok => o.driver.wire = f.driver.wire /\ o.driver.list = <<>>
        BY <1>0, <2>3, <4>1, SendPacket
      <4>3. Keeps(Line(driver), Line(driver) \o bytes)
        BY <1>0, <1>1, KeepsAdd
      <4>4. Keeps(Line(driver), f.driver.wire)
        BY <2>3, <3>2, LineFacts
      <4>5. ~o.ok => Out(o.driver) = f.driver.wire
        BY <4>2, LineFacts
      <4> QED
        BY <2>3, <3>2, <4>2, <4>3, <4>4, <4>5
    <3> QED
      BY <3>1, <3>2
  <2>5. Line(o.driver) = Out(o.driver)
    BY <2>4, LineFacts
  <2>6. Fits(o.driver)
    <3>1. Len(<<>>) = 0 /\ SysexBuffer \in Nat
      BY OutputAssumption, SmallSeqs
    <3> QED
      BY <1>0, <1>2, <2>4, <3>1 DEF Fits
  <2> QED
    BY <2>4, <2>5, <2>6
<1>3. CASE backend \in {"haiku", "synth"}
  <2>0. driver.list = <<>>
    BY <1>0, <1>3 DEF Fits
  <2>1. o \in do_write(driver, bytes)
    BY <1>3 DEF write_realtime, IsHaiku, do_write, bytes
  <2>2. o.ok
    BY <1>3, OutcomeFacts DEF write_realtime, IsHaiku, spray
  <2>3. /\ o.driver \in Driver /\ o.driver.part = driver.part /\ o.driver.list = <<>>
        /\ o.driver.fill_base = driver.fill_base
        /\ Out(o.driver) = Out(driver) \o bytes
    BY <1>0, <2>0, <2>1, <2>2, DoWrite
  <2>4. Fits(o.driver)
    BY <1>0, <1>3, <2>3 DEF Fits
  <2>5. Line(o.driver) = (Out(driver) \o bytes) \o driver.part
    BY <2>3 DEF Line
  <2>6. Keeps(Out(driver) \o driver.part, (Out(driver) \o bytes) \o driver.part)
    BY <1>0, <1>1, KeepsInsert
  <2>7. Line(driver) = Out(driver) \o driver.part
    BY DEF Line
  <2> QED
    BY <2>4, <2>5, <2>6, <2>7
<1>4. CASE backend \in {"alsa", "winmm", "sndio"}
  <2>1. o \in write_short(event)
    BY <1>4 DEF write_realtime, IsHaiku
  <2>2. /\ Fits(o.driver)
        /\ backend = "sndio" => o.driver.part = driver.part
                                /\ Keeps(Out(driver) \o bytes, Out(o.driver))
        /\ backend = "alsa" => Keeps(Line(driver) \o bytes, Line(o.driver))
    BY <2>1, WriteShortFacts DEF bytes
  <2>3. Keeps(Line(driver), Line(driver) \o bytes)
    BY <1>0, <1>1, KeepsAdd
  <2>4. backend = "sndio" => Line(driver) = Out(driver) /\ Line(o.driver) = Out(o.driver)
    <3>1. backend = "sndio" => driver.part = <<>> /\ o.driver \in Driver /\ o.driver.part = <<>>
      BY <1>0, <2>2 DEF Fits
    <3> QED
      BY <1>0, <3>1, LineFacts
  <2> QED
    BY <1>4, <2>2, <2>3, <2>4, KeepsTrans
<1> QED
  BY <1>2, <1>3, <1>4 DEF Back

\* begin_sysex empties the place where a sysex message is put together.
LEMMA BeginFacts ==
  ASSUME Back, Capacity, NEW o \in begin_sysex
  PROVE  /\ Fits(o.driver)
         /\ backend # "winmm" => o.ok /\ Out(o.driver) = Out(driver)
         /\ backend # "alsa" => o.driver.part = <<>>
         /\ backend = "alsa" => o.driver = driver
         /\ (backend = "winmm" /\ o.ok) => Line(o.driver) = Line(driver)
<1>0. /\ driver \in Driver /\ Fits(driver) /\ <<>> \in Seq(Byte) /\ Len(<<>>) = 0
      /\ SysexBuffer \in Nat /\ fill_length \in Nat
  BY SmallSeqs, OutputAssumption DEF Capacity, Fits
<1>1. CASE backend \in {"mac", "haiku", "synth"}
  <2> DEFINE e == [driver EXCEPT !.part = <<>>]
  <2>1. o = Done(e)
    BY <1>1 DEF begin_sysex, IsHaiku, midi_begin_sysex, haiku_begin_sysex
  <2>2. /\ e \in Driver /\ e.part = <<>> /\ e.list = driver.list /\ e.wire = driver.wire
        /\ e.fill_base = driver.fill_base
    BY <1>0, ChangeFacts
  <2> HIDE DEF e
  <2>3. o.ok /\ o.driver = e
    BY <2>1, OutcomeFacts
  <2>4. Fits(e)
    BY <1>0, <1>1, <2>2 DEF Fits
  <2> QED
    BY <1>1, <2>2, <2>3, <2>4 DEF Out
<1>2. CASE backend \in {"alsa", "sndio"}
  <2>1. o = Done(driver)
    BY <1>2 DEF begin_sysex, IsHaiku, alsa_sysex, none
  <2>2. backend = "sndio" => driver.part = <<>>
    BY <1>0 DEF Fits
  <2> QED
    BY <1>0, <1>2, <2>1, <2>2, OutcomeFacts
<1>3. CASE backend = "winmm"
  <2>1. o \in winmm_write_flush(driver) /\ driver.list = <<>>
    BY <1>0, <1>3 DEF begin_sysex, IsHaiku, Fits
  <2>2. /\ o.driver \in Driver /\ o.driver.part = <<>> /\ o.driver.list = <<>>
        /\ o.driver.fill_base = FALSE
        /\ o.ok => Line(o.driver) = Line(driver)
    BY <1>0, <1>3, <2>1, WinFlush DEF Fits
  <2> QED
    BY <1>0, <1>3, <2>2 DEF Fits
<1> QED
  BY <1>1, <1>2, <1>3 DEF Back

\* end_sysex sends what has been put together.
LEMMA EndFacts ==
  ASSUME Back, Capacity, NEW o \in end_sysex
  PROVE  /\ Fits(o.driver)
         /\ backend = "alsa" => o.ok /\ o.driver = driver
         /\ backend # "alsa" => o.driver.part = <<>>
         /\ o.ok => Line(o.driver) = Line(driver)
         /\ backend # "winmm" => Keeps(Line(driver), Line(o.driver))
<1>0. /\ driver \in Driver /\ Fits(driver) /\ <<>> \in Seq(Byte) /\ Len(<<>>) = 0
      /\ SysexBuffer \in Nat /\ fill_length \in Nat /\ driver.part \in Seq(Byte)
  BY SmallSeqs, OutputAssumption, DriverFacts DEF Capacity, Fits
<1>1. CASE backend = "mac"
  <2>1. o \in midi_end_sysex(driver) /\ Len(driver.part) <= SysexBuffer
    BY <1>0, <1>1 DEF end_sysex, IsHaiku, Fits
  <2>2. /\ o.driver \in Driver /\ o.driver.part = <<>>
        /\ o.driver.fill_base = driver.fill_base
        /\ Len(o.driver.list) <= PacketBuffer
        /\ o.ok => Out(o.driver) = Line(driver)
        /\ ~o.ok => o.driver.wire = driver.wire /\ o.driver.list = <<>>
    BY <1>0, <2>1, MidiEndSysex
  <2>3. Line(o.driver) = Out(o.driver)
    BY <2>2, LineFacts
  <2>4. ~o.ok => Line(o.driver) = driver.wire
    BY <2>2, <2>3, LineFacts
  <2>5. Fits(o.driver)
    BY <1>0, <1>1, <2>2 DEF Fits
  <2> QED
    BY <1>0, <1>1, <2>2, <2>3, <2>4, <2>5, KeepsSame, LineFacts
<1>2. CASE backend \in {"alsa", "sndio"}
  <2>1. o = Done(driver)
    BY <1>2 DEF end_sysex, IsHaiku, alsa_sysex, none
  <2>2. backend = "sndio" => driver.part = <<>>
    BY <1>0 DEF Fits
  <2> QED
    BY <1>0, <1>2, <2>1, <2>2, OutcomeFacts, KeepsSame
<1>3. CASE backend = "winmm"
  <2>1. o \in winmm_write_flush(driver) /\ driver.list = <<>>
    BY <1>0, <1>3 DEF end_sysex, IsHaiku, Fits
  <2>2. /\ o.driver \in Driver /\ o.driver.part = <<>> /\ o.driver.list = <<>>
        /\ o.driver.fill_base = FALSE
        /\ o.ok => Line(o.driver) = Line(driver)
    BY <1>0, <1>3, <2>1, WinFlush DEF Fits
  <2> QED
    BY <1>0, <1>3, <2>2 DEF Fits
<1>4. CASE backend \in {"haiku", "synth"}
  <2> DEFINE e == [driver EXCEPT !.part = <<>>]
             f == [e EXCEPT !.wire = e.wire \o driver.part]
  <2>1. o = Done(f)
    BY <1>4 DEF end_sysex, IsHaiku, haiku_end_sysex, spray
  <2>2. /\ e \in Driver /\ e.part = <<>> /\ e.list = driver.list /\ e.wire = driver.wire
        /\ e.fill_base = driver.fill_base /\ driver.list = <<>>
    BY <1>0, <1>4, ChangeFacts DEF Fits
  <2> HIDE DEF e
  <2>3. /\ f \in Driver /\ f.part = <<>> /\ f.list = <<>> /\ f.fill_base = driver.fill_base
        /\ Out(f) = Out(e) \o driver.part
    BY <1>0, <2>2, WireFacts
  <2> HIDE DEF f
  <2>4. Line(f) = Line(driver)
    <3>1. Line(f) = Out(f) /\ Out(e) = Out(driver)
      BY <2>2, <2>3, LineFacts DEF Out
    <3> QED
      BY <2>3, <3>1 DEF Line
  <2>5. Fits(f)
    BY <1>0, <1>4, <2>3 DEF Fits
  <2> QED
    BY <1>4, <2>1, <2>3, <2>4, <2>5, OutcomeFacts, KeepsSame
<1> QED
  BY <1>1, <1>2, <1>3, <1>4 DEF Back

\* write_flush sends the list, and for WinMM the buffer.
LEMMA FlushFacts ==
  ASSUME Back, Capacity, NEW o \in write_flush
  PROVE  /\ Fits(o.driver)
         /\ o.ok => Line(o.driver) = Line(driver) /\ o.driver.list = <<>>
         /\ backend # "winmm" =>
              /\ o.driver.part = driver.part
              /\ o.ok => Out(o.driver) = Out(driver)
              /\ backend # "alsa" => Keeps(Out(driver), Out(o.driver))
         /\ backend = "alsa" => Keeps(Line(driver), Line(o.driver))
         /\ ~o.driver.fill_base
         /\ backend = "winmm" => o.driver.part = <<>>
<1>0. /\ driver \in Driver /\ Fits(driver) /\ <<>> \in Seq(Byte) /\ Len(<<>>) = 0
      /\ PacketBuffer \in Nat /\ fill_length \in Nat
      /\ driver.wire \in Seq(Byte) /\ driver.list \in Seq(Byte)
  BY SmallSeqs, OutputAssumption, DriverFacts DEF Capacity, Fits
<1>5. backend # "winmm" /\ Fits(o.driver) => ~o.driver.fill_base
  BY DEF Fits
<1>1. CASE backend = "mac"
  <2>1. o \in midi_write_flush(driver)
    BY <1>1 DEF write_flush
  <2>2. /\ o.driver \in Driver /\ o.driver.part = driver.part
        /\ o.driver.fill_base = driver.fill_base
        /\ o.driver.list = <<>>
        /\ o.ok => o.driver.wire = driver.wire \o driver.list
        /\ ~o.ok => o.driver.wire = driver.wire
    BY <1>0, <2>1, MidiFlush
  <2>3. Out(o.driver) = o.driver.wire /\ Out(driver) = driver.wire \o driver.list
    BY <2>2, LineFacts DEF Out
  <2>4. Keeps(Out(driver), Out(o.driver))
    BY <1>0, <2>2, <2>3, KeepsSame, LineFacts
  <2>5. Fits(o.driver)
    BY <1>0, <1>1, <2>2 DEF Fits
  <2> QED
    BY <1>1, <1>5, <2>2, <2>3, <2>4, <2>5 DEF Line
<1>2. CASE backend = "alsa"
  <2> DEFINE e == [driver EXCEPT !.list = <<>>, !.wire = driver.wire \o driver.list]
  <2>1. o = Done(e) \/ o = Failed(driver)
    BY <1>2, Zenon DEF write_flush, alsa_write_flush
  <2>2. driver.wire \o driver.list \in Seq(Byte)
    BY <1>0, Cat
  <2>3. /\ e \in Driver /\ e.part = driver.part /\ e.list = <<>>
        /\ e.wire = driver.wire \o driver.list /\ e.fill_base = driver.fill_base
    BY <1>0, <2>2 DEF Driver
  <2> HIDE DEF e
  <2>4. Out(e) = Out(driver)
    BY <2>3, LineFacts DEF Out
  <2>5. Line(e) = Line(driver)
    BY <2>3, <2>4 DEF Line
  <2>6. Fits(e)
    BY <1>0, <1>2, <2>3 DEF Fits
  <2>7. CASE o = Done(e)
    BY <1>2, <1>5, <2>3, <2>4, <2>5, <2>6, <2>7, OutcomeFacts, KeepsSame
  <2>8. CASE o = Failed(driver)
    BY <1>0, <1>2, <1>5, <2>8, OutcomeFacts, KeepsSame
  <2> QED
    BY <2>1, <2>7, <2>8
<1>3. CASE backend = "winmm"
  <2>1. o \in winmm_write_flush(driver) /\ driver.list = <<>>
    BY <1>0, <1>3 DEF write_flush, Fits
  <2>2. /\ o.driver \in Driver /\ o.driver.part = <<>> /\ o.driver.list = <<>>
        /\ o.driver.fill_base = FALSE
        /\ o.ok => Line(o.driver) = Line(driver)
    BY <1>0, <1>3, <2>1, WinFlush DEF Fits
  <2> QED
    BY <1>0, <1>3, <2>2 DEF Fits
<1>4. CASE backend \in {"haiku", "synth", "sndio"}
  <2>1. o.ok /\ o.driver = driver
    BY <1>4, NoneFacts DEF write_flush
  <2>2. driver.list = <<>>
    BY <1>0, <1>4 DEF Fits
  <2> QED
    BY <1>0, <1>4, <1>5, <2>1, <2>2, KeepsSame
<1> QED
  BY <1>1, <1>2, <1>3, <1>4 DEF Back

-----------------------------------------------------------------------------
(* What a call still has to handle.                                        *)

\* What is left after k bytes, in two parts.
LEMMA RestFacts ==
  ASSUME NEW r \in Seq(Byte), NEW m \in Seq(Byte)
  PROVE  /\ \A k \in 0..Len(r) : RestOf(r, k, m) \in Seq(Byte)
         /\ RestOf(r, 0, m) = r \o m
         /\ RestOf(<<>>, 0, m) = m
<1>1. \A k \in 0..Len(r) : RestOf(r, k, m) \in Seq(Byte)
  BY Cut, Cat DEF RestOf
<1>2. RestOf(r, 0, m) = r \o m
  <2>1. 0 + 1 = 1 /\ SubSeq(r, 1, Len(r)) = r
    BY SubSeqFull
  <2> QED
    BY <2>1, Zenon DEF RestOf
<1>3. RestOf(<<>>, 0, m) = m
  <2>1. SubSeq(<<>>, 1, 0) = <<>> /\ Len(<<>>) = 0
    BY SubSeqEmpty, SmallSeqs
  <2> QED
    BY <2>1, Cat DEF RestOf
<1> QED
  BY <1>1, <1>2, <1>3

\* The next byte, and what comes after it.
LEMMA NextByte ==
  ASSUME NEW r \in Seq(Byte), NEW k \in Nat, k < Len(r)
  PROVE  /\ r[k + 1] \in Byte
         /\ SubSeq(r, k + 1, Len(r)) = <<r[k + 1]>> \o SubSeq(r, k + 2, Len(r))
         /\ SubSeq(r, k + 2, Len(r)) \in Seq(Byte)
<1>1. Len(r) \in Nat /\ k + 1 \in 1..Len(r) /\ k + 1 \in 0..Len(r)
  BY LenProperties
<1>2. r[k + 1] \in Byte
  BY <1>1, ElementOfSeq
<1>3. SubSeq(r, (k + 1) + 1, Len(r)) \in Seq(Byte)
  BY <1>1, Cut
<1>4. SubSeq(r, k + 1, Len(r)) = <<r[k + 1]>> \o SubSeq(r, (k + 1) + 1, Len(r))
  BY <1>1, SubSeqRecursiveFirst
<1>5. (k + 1) + 1 = k + 2
  OBVIOUS
<1> QED
  BY <1>2, <1>3, <1>4, <1>5

\* A step of one byte inside an event; the rest of the event can be left out.
LEMMA ByteStep ==
  ASSUME NEW r \in Seq(Byte), NEW m \in Seq(Byte), Len(r) >= 4, NEW k \in 0..3
  PROVE  /\ r[k + 1] \in Byte
         /\ RestOf(r, k, m) = <<r[k + 1]>> \o RestOf(r, k + 1, m)
         /\ RestOf(r, k + 1, m) \in Seq(Byte) /\ RestOf(r, 4, m) \in Seq(Byte)
         /\ \E x \in Seq(Byte) : RestOf(r, k + 1, m) = x \o RestOf(r, 4, m)
<1>1. Len(r) \in Nat /\ k \in Nat /\ k < Len(r) /\ k + 1 \in 0..Len(r) /\ 4 \in 0..Len(r)
  BY LenProperties
<1>2. /\ r[k + 1] \in Byte
      /\ SubSeq(r, k + 1, Len(r)) = <<r[k + 1]>> \o SubSeq(r, k + 2, Len(r))
      /\ SubSeq(r, k + 2, Len(r)) \in Seq(Byte)
  BY <1>1, NextByte
<1>3. RestOf(r, k, m) = <<r[k + 1]>> \o RestOf(r, k + 1, m)
  <2>1. <<r[k + 1]>> \in Seq(Byte) /\ (k + 1) + 1 = k + 2
    BY <1>2, SmallSeqs
  <2>2. (<<r[k + 1]>> \o SubSeq(r, k + 2, Len(r))) \o m
          = <<r[k + 1]>> \o (SubSeq(r, k + 2, Len(r)) \o m)
    BY <1>2, <2>1, CatCat
  <2> QED
    BY <1>2, <2>1, <2>2 DEF RestOf
<1>4. RestOf(r, k + 1, m) \in Seq(Byte) /\ RestOf(r, 4, m) \in Seq(Byte)
  BY <1>1, RestFacts
<1>5. \E x \in Seq(Byte) : RestOf(r, k + 1, m) = x \o RestOf(r, 4, m)
  <2> DEFINE x == SubSeq(r, k + 2, 4)
             y == SubSeq(r, 5, Len(r))
  <2>1. (k + 1) + 1 = k + 2 /\ 4 + 1 = 5 /\ k + 2 \in 1..Len(r) + 1 /\ 4 \in (k + 2) - 1..Len(r)
        /\ Len(r) \in 4..Len(r) /\ k + 2 \in Int
    BY <1>1
  <2>2. x \o SubSeq(r, 4 + 1, Len(r)) = SubSeq(r, k + 2, Len(r))
    BY <2>1, ConcatAdjacentSubSeq
  <2>3. y \in Seq(Byte)
    BY <1>1, <2>1, Cut
  <2>4. x \in Seq(Byte)
    <3>1. \A i \in 1..Len(r) : r[i] \in Byte
      BY ElementOfSeq
    <3>2. \A i \in k + 2..4 : r[i] \in Byte
      BY <1>1, <3>1
    <3> QED
      BY <2>1, <3>2, SubSeqProperties
  <2>5. x \o y = SubSeq(r, k + 2, Len(r))
    BY <2>1, <2>2
  <2> HIDE DEF x, y
  <2>6. RestOf(r, k + 1, m) = (x \o y) \o m
    BY <2>1, <2>5 DEF RestOf
  <2>7. RestOf(r, 4, m) = y \o m
    BY <2>1 DEF RestOf, y
  <2>8. (x \o y) \o m = x \o (y \o m)
    BY <2>3, <2>4, CatCat
  <2> QED
    BY <2>4, <2>6, <2>7, <2>8
<1> QED
  BY <1>2, <1>3, <1>4, <1>5

\* The first event of what is left, and the others.
LEMMA EventFacts ==
  ASSUME NEW r \in Seq(Byte), Len(r) > 0, Len(r) % 4 = 0
  PROVE  /\ Len(r) >= 4
         /\ SubSeq(r, 1, 4) \in Seq(Byte) /\ Len(SubSeq(r, 1, 4)) = 4
         /\ \A i \in 1..4 : SubSeq(r, 1, 4)[i] = r[i]
         /\ SubSeq(r, 5, Len(r)) \in Seq(Byte) /\ Len(SubSeq(r, 5, Len(r))) = Len(r) - 4
         /\ Len(SubSeq(r, 5, Len(r))) % 4 = 0
         /\ r = SubSeq(r, 1, 4) \o SubSeq(r, 5, Len(r))
         /\ \A i \in 1..Len(r) - 4 : SubSeq(r, 5, Len(r))[i] = r[4 + i]
<1>1. Len(r) \in Nat /\ Len(r) >= 4 /\ (Len(r) - 4) % 4 = 0
  BY LenProperties
<1>2. 4 \in 0..Len(r)
  BY <1>1
<1>3. /\ SubSeq(r, 1, 4) \in Seq(Byte) /\ SubSeq(r, 4 + 1, Len(r)) \in Seq(Byte)
      /\ Len(SubSeq(r, 1, 4)) = 4 /\ Len(SubSeq(r, 4 + 1, Len(r))) = Len(r) - 4
      /\ \A i \in 1..4 : SubSeq(r, 1, 4)[i] = r[i]
      /\ \A i \in 1..Len(r) - 4 : SubSeq(r, 4 + 1, Len(r))[i] = r[4 + i]
      /\ SubSeq(r, 1, 4) \o SubSeq(r, 4 + 1, Len(r)) = r
  BY <1>2, Cut
<1>4. 4 + 1 = 5
  OBVIOUS
<1> QED
  BY <1>1, <1>3, <1>4

-----------------------------------------------------------------------------
(* What the application writes.                                            *)

Raw == {Note, Clock, Sysex, Eox, Datum, Unused}

\* The data bytes among the first i.
Upto(bytes, i) == {j \in 1..i : bytes[j] = Datum}

\* How many there are grows by one with each of them.
LEMMA UptoFacts ==
  ASSUME NEW bytes \in Seq(Raw)
  PROVE  /\ \A i \in DOMAIN bytes : Cardinality(Upto(bytes, i)) \in Nat
         /\ \A i \in DOMAIN bytes : bytes[i] = Datum => Cardinality(Upto(bytes, i)) > 0
         /\ \A i, k \in DOMAIN bytes :
              (i < k /\ bytes[k] = Datum) =>
                Cardinality(Upto(bytes, i)) < Cardinality(Upto(bytes, k))
         /\ {j \in DOMAIN bytes : bytes[j] = Datum} = Upto(bytes, Len(bytes))
         /\ Cardinality(Upto(bytes, Len(bytes))) \in Nat
         /\ \A i \in DOMAIN bytes :
              Cardinality(Upto(bytes, i)) <= Cardinality(Upto(bytes, Len(bytes)))
<1>1. DOMAIN bytes = 1..Len(bytes) /\ Len(bytes) \in Nat
  BY LenProperties
<1>2. ASSUME NEW i \in Nat
      PROVE  IsFiniteSet(Upto(bytes, i)) /\ Cardinality(Upto(bytes, i)) \in Nat
  <2>1. IsFiniteSet(1..i) /\ Upto(bytes, i) \in SUBSET (1..i)
    BY FS_Interval DEF Upto
  <2> QED
    BY <2>1, FS_Subset, FS_CardinalityType
<1>3. ASSUME NEW i \in Nat, NEW k \in Nat, i <= k
      PROVE  Cardinality(Upto(bytes, i)) <= Cardinality(Upto(bytes, k))
  <2>1. Upto(bytes, i) \in SUBSET Upto(bytes, k)
    BY <1>3 DEF Upto
  <2> QED
    BY <1>2, <2>1, FS_Subset
<1>4. ASSUME NEW i \in Nat, NEW k \in Nat, i < k, bytes[k] = Datum
      PROVE  Cardinality(Upto(bytes, i)) < Cardinality(Upto(bytes, k))
  <2>1. Upto(bytes, i) \in SUBSET Upto(bytes, k)
    BY <1>4 DEF Upto
  <2>2. k \in Upto(bytes, k) /\ k \notin Upto(bytes, i)
    BY <1>4 DEF Upto
  <2>3. Cardinality(Upto(bytes, i)) <= Cardinality(Upto(bytes, k))
    BY <1>3, <1>4
  <2>4. Cardinality(Upto(bytes, i)) # Cardinality(Upto(bytes, k))
    BY <1>2, <2>1, <2>2, FS_Subset
  <2>5. Cardinality(Upto(bytes, i)) \in Nat /\ Cardinality(Upto(bytes, k)) \in Nat
    BY <1>2
  <2> QED
    BY <2>3, <2>4, <2>5
<1>5. \A i \in DOMAIN bytes : i \in Nat /\ 0 < i /\ i <= Len(bytes)
  BY <1>1
<1>6. \A i \in DOMAIN bytes : bytes[i] = Datum => Cardinality(Upto(bytes, i)) > 0
  <2>1. Cardinality(Upto(bytes, 0)) \in Nat
    BY <1>2
  <2>2. ASSUME NEW i \in DOMAIN bytes, bytes[i] = Datum PROVE Cardinality(Upto(bytes, i)) > 0
    <3>1. Cardinality(Upto(bytes, 0)) < Cardinality(Upto(bytes, i))
      BY <1>4, <1>5, <2>2
    <3>2. Cardinality(Upto(bytes, i)) \in Nat
      BY <1>2, <1>5
    <3> QED
      BY <2>1, <3>1, <3>2
  <2> QED
    BY <2>2
<1>7. {j \in DOMAIN bytes : bytes[j] = Datum} = Upto(bytes, Len(bytes))
  BY <1>1 DEF Upto
<1> QED
  BY <1>1, <1>2, <1>3, <1>4, <1>5, <1>6, <1>7

\* Numbers in a sequence of bytes without any.
Fresh(bytes, low, high) ==
  /\ Sorted(bytes, high)
  /\ \A k \in DOMAIN bytes : IsData(bytes[k]) => bytes[k] > low

\* Numbered gives new numbers, in order, to the data bytes, and leaves the others alone.
LEMMA NumberedFacts ==
  ASSUME data \in Nat, NEW bytes \in Seq(Raw)
  PROVE  /\ Numbered(bytes) \in Seq(Byte) /\ Len(Numbered(bytes)) = Len(bytes)
         /\ Cardinality({i \in DOMAIN bytes : bytes[i] = Datum}) \in Nat
         /\ Fresh(Numbered(bytes), 255 + data,
                  255 + (data + Cardinality({i \in DOMAIN bytes : bytes[i] = Datum})))
         /\ \A i \in DOMAIN bytes : /\ bytes[i] = Datum => Numbered(bytes)[i] \in Data
                                    /\ bytes[i] # Datum => Numbered(bytes)[i] = bytes[i]
<1> DEFINE C(i) == Cardinality(Upto(bytes, i))
           N    == Numbered(bytes)
<1>1. DOMAIN bytes = 1..Len(bytes) /\ Len(bytes) \in Nat /\ \A i \in DOMAIN bytes : bytes[i] \in Raw
  BY LenProperties, ElementOfSeq
<1>2. N = [i \in DOMAIN bytes |-> IF bytes[i] = Datum THEN 255 + data + C(i) ELSE bytes[i]]
  BY DEF Numbered, Upto
<1>3. /\ \A i \in DOMAIN bytes : C(i) \in Nat /\ (bytes[i] = Datum => C(i) > 0)
      /\ \A i, k \in DOMAIN bytes : (i < k /\ bytes[k] = Datum) => C(i) < C(k)
      /\ {j \in DOMAIN bytes : bytes[j] = Datum} = Upto(bytes, Len(bytes))
      /\ C(Len(bytes)) \in Nat
      /\ \A i \in DOMAIN bytes : C(i) <= C(Len(bytes))
  BY UptoFacts
<1> HIDE DEF C, N
<1>4. \A i \in DOMAIN bytes : /\ bytes[i] = Datum => N[i] = 255 + data + C(i)
                              /\ bytes[i] # Datum => N[i] = bytes[i]
  BY <1>2
<1>5. \A i \in DOMAIN bytes : bytes[i] = Datum => N[i] \in Data
  BY <1>3, <1>4 DEF Data
<1>6. \A i \in DOMAIN bytes : bytes[i] # Datum => N[i] \in Byte /\ ~IsData(N[i])
  BY <1>1, <1>4 DEF Raw, Byte, IsData, Note, Clock, Sysex, Eox, Datum, Unused
<1>7. \A i \in DOMAIN bytes : N[i] \in Byte
  BY <1>5, <1>6, ByteFacts
<1>8. N \in Seq(Byte) /\ Len(N) = Len(bytes) /\ DOMAIN N = DOMAIN bytes
  <2>1. N \in [1..Len(bytes) -> Byte]
    BY <1>1, <1>2, <1>7
  <2>2. N \in Seq(Byte)
    BY <1>1, <2>1, SeqDef
  <2>3. DOMAIN N = DOMAIN bytes
    BY <1>2
  <2> QED
    BY <1>1, <2>2, <2>3, LenProperties
<1>9. Increasing(N)
  <2>1. ASSUME NEW i \in DOMAIN bytes, NEW k \in DOMAIN bytes, i < k, IsData(N[i]), IsData(N[k])
        PROVE  N[i] < N[k]
    <3>1. bytes[i] = Datum /\ bytes[k] = Datum
      BY <1>6, <2>1
    <3>2. C(i) < C(k) /\ C(i) \in Nat /\ C(k) \in Nat
      BY <1>3, <2>1, <3>1
    <3>3. N[i] = 255 + data + C(i) /\ N[k] = 255 + data + C(k)
      BY <1>4, <3>1
    <3> QED
      BY <3>2, <3>3
  <2> QED
    BY <1>8, <2>1 DEF Increasing
<1>10. ASSUME NEW i \in DOMAIN N, IsData(N[i])
       PROVE  N[i] > 255 + data /\ N[i] <= 255 + (data + C(Len(bytes)))
  <2>1. bytes[i] = Datum /\ i \in DOMAIN bytes
    BY <1>6, <1>8, <1>10
  <2>2. C(i) \in Nat /\ C(i) > 0 /\ C(i) <= C(Len(bytes)) /\ C(Len(bytes)) \in Nat
    BY <1>3, <2>1
  <2>3. N[i] = 255 + data + C(i)
    BY <1>4, <2>1
  <2> QED
    BY <2>2, <2>3
<1>11. Fresh(N, 255 + data, 255 + (data + C(Len(bytes))))
  BY <1>9, <1>10 DEF Fresh, Sorted, Numbers
<1>12. Cardinality({i \in DOMAIN bytes : bytes[i] = Datum}) = C(Len(bytes))
  BY <1>3 DEF C
<1> QED
  BY <1>3, <1>4, <1>5, <1>8, <1>11, <1>12 DEF N

\* A message for Pm_WriteSysEx, before it is numbered.
LEMMA SysexMessageFacts ==
  ASSUME NEW n \in Nat \ {0, 1}
  PROVE  /\ SysexMessage(n) \in Seq(Raw) /\ Len(SysexMessage(n)) = n
         /\ SysexMessage(n)[1] = Sysex /\ SysexMessage(n)[n] = Eox
         /\ \A k \in 2..n - 1 : SysexMessage(n)[k] = Datum
<1> DEFINE m == [i \in 1..n - 2 |-> Datum]
<1>1. n - 2 \in Nat
  OBVIOUS
<1>2. m \in Seq(Raw) /\ Len(m) = n - 2 /\ \A i \in 1..n - 2 : m[i] = Datum
  <2>1. m \in [1..n - 2 -> Raw]
    BY DEF Raw
  <2>2. m \in Seq(Raw)
    BY <1>1, <2>1, SeqDef
  <2> QED
    BY <1>1, <2>2, LenProperties
<1>3. /\ <<Sysex>> \in Seq(Raw) /\ Len(<<Sysex>>) = 1 /\ <<Sysex>>[1] = Sysex
      /\ <<Eox>> \in Seq(Raw) /\ Len(<<Eox>>) = 1 /\ <<Eox>>[1] = Eox
  BY DEF Raw
<1> HIDE DEF m
<1> DEFINE s == <<Sysex>> \o m
<1>4. /\ s \in Seq(Raw) /\ Len(s) = n - 1 /\ s[1] = Sysex
      /\ \A k \in 2..n - 1 : s[k] = Datum
  <2>1. /\ s \in Seq(Raw) /\ Len(s) = 1 + (n - 2)
        /\ \A i \in 1..1 + (n - 2) : s[i] = IF i <= 1 THEN <<Sysex>>[i] ELSE m[i - 1]
    BY <1>2, <1>3, ConcatProperties
  <2>2. \A k \in 2..n - 1 : k \in 1..1 + (n - 2) /\ ~(k <= 1) /\ k - 1 \in 1..n - 2
    BY <1>1
  <2>3. 1 \in 1..1 + (n - 2) /\ 1 + (n - 2) = n - 1
    BY <1>1
  <2> QED
    BY <1>2, <1>3, <2>1, <2>2, <2>3
<1> HIDE DEF s
<1>5. /\ s \o <<Eox>> \in Seq(Raw) /\ Len(s \o <<Eox>>) = (n - 1) + 1
      /\ \A i \in 1..(n - 1) + 1 :
           (s \o <<Eox>>)[i] = IF i <= n - 1 THEN s[i] ELSE <<Eox>>[i - (n - 1)]
  BY <1>3, <1>4, ConcatProperties
<1>6. \A k \in 1..n - 1 : k \in 1..(n - 1) + 1 /\ k <= n - 1
  OBVIOUS
<1>7. n \in 1..(n - 1) + 1 /\ ~(n <= n - 1) /\ n - (n - 1) = 1 /\ (n - 1) + 1 = n /\ 1 \in 1..n - 1
      /\ \A k \in 2..n - 1 : k \in 1..n - 1
  OBVIOUS
<1>8. SysexMessage(n) = s \o <<Eox>>
  BY DEF SysexMessage, s, m
<1> QED
  BY <1>3, <1>4, <1>5, <1>6, <1>7, <1>8

-----------------------------------------------------------------------------
(* Types, capacity, place and order: each step keeps them.                 *)

Base == Types /\ PastTypes /\ Capacity /\ Place /\ Ordered

\* From one state to the next: what follows from the bytes that went one step further.
LEMMA KeepsStep ==
  ASSUME NEW t \in Seq(Byte), NEW b \in Seq(Byte), NEW r \in Seq(Byte), NEW u \in Seq(Byte),
         Keeps(t \o b, u)
  PROVE  Keeps(t \o (b \o r), u \o r) /\ Keeps(t \o (b \o r), u)
<1>1. t \o b \in Seq(Byte) /\ (t \o b) \o r = t \o (b \o r)
  BY Cat, CatCat
<1>2. Keeps((t \o b) \o r, u \o r)
  BY <1>1, KeepsCat
<1>3. Keeps(u \o r, u)
  BY KeepsDrop
<1>4. Keeps((t \o b) \o r, u)
  BY <1>2, <1>3, KeepsTrans
<1> QED
  BY <1>1, <1>2, <1>4

\* Where the bytes on their way are that count for the order.
LEMMA TrackFacts ==
  ASSUME Base
  PROVE  /\ driver \in Driver /\ Line(driver) \in Seq(Byte) /\ Out(driver) \in Seq(Byte)
         /\ Track \in Seq(Byte) /\ Remaining \in Seq(Byte)
         /\ sysex_in_progress => Track = Line(driver)
         /\ backend = "alsa" => Track = Line(driver)
         /\ (~sysex_in_progress /\ backend # "alsa") => Track = Out(driver)
         /\ bits = 0 => Remaining = rest \o msg /\ Remaining = RestOf(rest, 0, msg)
         /\ rest = <<>> => Remaining = msg
<1>1. driver \in Driver
  BY DEF Base, Capacity, Fits
<1>2. Line(driver) \in Seq(Byte) /\ Out(driver) \in Seq(Byte)
  BY <1>1, DriverFacts
<1>3. Track \in Seq(Byte)
  BY <1>2 DEF Track, Stream
<1>4. /\ rest \in Seq(Byte) /\ msg \in Seq(Byte) /\ bits \in 0..3
      /\ Len(rest) \in Nat /\ Len(rest) % 4 = 0
  BY LenProperties DEF Base, Types
<1>5. bits \in 0..Len(rest) /\ (rest = <<>> => bits = 0)
  <2>1. pc = "bytes" => Len(rest) > 0
    BY DEF Base, Place
  <2>2. pc # "bytes" => bits = 0
    BY DEF Base, Place
  <2>3. rest = <<>> => Len(rest) = 0
    BY SmallSeqs
  <2> QED
    BY <1>4, <2>1, <2>2, <2>3
<1>6. Remaining \in Seq(Byte)
  BY <1>4, <1>5, RestFacts DEF Remaining
<1>7. sysex_in_progress => Track = Line(driver)
  <2>1. CASE pc = "first" /\ backend # "alsa"
    <3>1. driver.part = <<>>
      BY <2>1 DEF Base, Place
    <3>2. Line(driver) = Out(driver)
      BY <1>1, <3>1, LineFacts
    <3> QED
      BY <3>2 DEF Track, Stream
  <2>2. CASE ~(pc = "first" /\ backend # "alsa")
    BY <2>2 DEF Track, Stream
  <2> QED
    BY <2>1, <2>2
<1>8. /\ backend = "alsa" => Track = Line(driver)
      /\ (~sysex_in_progress /\ backend # "alsa") => Track = Out(driver)
  BY DEF Track, Stream
<1>9. bits = 0 => Remaining = rest \o msg /\ Remaining = RestOf(rest, 0, msg)
  BY <1>4, RestFacts DEF Remaining
<1>10. rest = <<>> => Remaining = msg
  BY <1>4, <1>5, RestFacts DEF Remaining
<1> QED
  BY <1>1, <1>2, <1>3, <1>6, <1>7, <1>8, <1>9, <1>10

\* In the next state, too, they are no more than all those on their way.
LEMMA NextTrack ==
  ASSUME driver' \in Driver, NEW t, Keeps(t, Line(driver'))
  PROVE  Keeps(t, Track') /\ Track' \in Seq(Byte)
<1>1. Keeps(t, Out(driver'))
  BY LineFacts, KeepsTrans
<1>2. Track' \in {Line(driver'), Out(driver')}
  BY DEF Track, Stream
<1>3. Line(driver') \in Seq(Byte) /\ Out(driver') \in Seq(Byte)
  BY DriverFacts
<1> QED
  BY <1>1, <1>2, <1>3

\* A step inside a call, put together.
LEMMA StepBase ==
  ASSUME Base, Fits(driver'), UNCHANGED <<backend, is_removed, past>>,
         buffer_size' \in Nat \ {0}, failures' \in Nat, sysex_in_progress' \in BOOLEAN,
         pc' \in Labels, rest' \in Seq(Byte), Len(rest') % 4 = 0, bits' \in 0..3,
         msg' \in Seq(Byte), result' \in Results, errors' \in Nat, Place',
         backend # "winmm" => Keeps(Track \o Remaining, Track' \o Remaining')
  PROVE  Base'
<1>1. Types'
  BY DEF Base, Types
<1>2. PastTypes'
  BY DEF Base, PastTypes, past
<1>3. Capacity'
  BY DEF Capacity, Fits
<1>4. Ordered'
  <2>1. SUFFICES ASSUME backend # "winmm" PROVE Sorted((Track \o Remaining)', 255 + data')
    BY DEF Ordered
  <2>2. Track \o Remaining \in Seq(Byte) /\ <<>> \in Seq(Byte) /\ 255 + data \in Nat
    BY TrackFacts, Cat, SmallSeqs DEF Base, PastTypes
  <2>3. Track' \o Remaining' \in Seq(Byte)
    <3>1. driver' \in Driver
      BY DEF Fits
    <3>2. Track' \in Seq(Byte)
      BY <3>1, DriverFacts DEF Track, Stream
    <3>3. bits' \in 0..Len(rest')
      <4>1. pc' # "bytes" => bits' = 0
        BY DEF Place
      <4>2. pc' = "bytes" => Len(rest') > 0
        BY DEF Place
      <4>3. Len(rest') \in Nat
        BY LenProperties
      <4> QED
        BY <4>1, <4>2, <4>3
    <3>4. Remaining' \in Seq(Byte)
      BY <3>3, RestFacts DEF Remaining
    <3> QED
      BY <3>2, <3>4, Cat
  <2>4. Sorted((Track \o Remaining) \o <<>>, 255 + data)
    BY <2>1, <2>2, Cat DEF Base, Ordered
  <2>5. Sorted((Track' \o Remaining') \o <<>>, 255 + data)
    BY <2>1, <2>2, <2>4 DEF Keeps
  <2>6. (Track' \o Remaining') \o <<>> = Track' \o Remaining'
    BY <2>3, Cat
  <2>7. data' = data
    BY DEF past
  <2> QED
    BY <2>5, <2>6, <2>7
<1> QED
  BY <1>1, <1>2, <1>3, <1>4 DEF Base

\* The call goes on at another place.
LEMMA GotoBase ==
  ASSUME Base, Fits(driver'), UNCHANGED <<backend, is_removed, past, buffer_size>>,
         failures' \in Nat, sysex_in_progress' \in BOOLEAN,
         NEW label \in {"event", "first", "bytes", "end"},
         NEW events \in Seq(Byte), Len(events) % 4 = 0, NEW byte \in 0..3,
         Goto(label, events, byte),
         label # "bytes" => byte = 0,
         label \in {"first", "bytes"} => Len(events) > 0,
         label # "event" => sysex_in_progress',
         label = "first" => backend = "alsa" \/ driver'.part = <<>>,
         backend # "winmm" => Keeps(Track \o Remaining, Track' \o RestOf(events, byte, msg))
  PROVE  Base'
<1>1. /\ pc' = label /\ rest' = events /\ bits' = byte /\ msg' = msg /\ result' = result
      /\ errors' = errors /\ buffer_size' = buffer_size /\ backend' = backend
  BY DEF Goto
<1>2. /\ pc' \in Labels /\ rest' \in Seq(Byte) /\ Len(rest') % 4 = 0 /\ bits' \in 0..3
      /\ msg' \in Seq(Byte) /\ result' \in Results /\ errors' \in Nat /\ buffer_size' \in Nat \ {0}
  BY <1>1 DEF Base, Types, PastTypes, Labels
<1>3. Place'
  BY <1>1 DEF Place
<1>4. backend # "winmm" => Keeps(Track \o Remaining, Track' \o Remaining')
  BY <1>1 DEF Remaining
<1> QED
  BY <1>2, <1>3, <1>4, StepBase

\* Pm_Write returns.
LEMMA ReturnBase ==
  ASSUME Base, Fits(driver'), UNCHANGED <<backend, is_removed, past, buffer_size>>,
         failures' \in Nat, sysex_in_progress' \in BOOLEAN,
         NEW error \in Results, Return(error),
         (error = "pmNoError" /\ driver'.fill_base) => sysex_in_progress',
         backend # "winmm" =>
           /\ Keeps(Track \o Remaining, Track')
           /\ error = "pmNoError" => Keeps(Track \o Remaining, Track' \o msg)
  PROVE  Base'
<1>0. msg \in Seq(Byte) /\ errors \in Nat /\ buffer_size \in Nat \ {0} /\ backend' = backend
  BY DEF Base, Types, PastTypes
<1>1. rest' = <<>> /\ bits' = 0 /\ result' = error
  BY DEF Return
<1>2. \/ pc' = "fill" /\ driver'.fill_base /\ msg' = msg /\ errors' = errors /\ error = "pmNoError"
      \/ pc' = "chunk" /\ msg' = msg /\ errors' = errors /\ error = "pmNoError"
      \/ pc' = "idle" /\ msg' = <<>> /\ errors' \in Nat
  BY <1>0 DEF Return
<1>3. <<>> \in Seq(Byte) /\ Len(<<>>) % 4 = 0
  <2>1. <<>> \in Seq(Byte) /\ Len(<<>>) = 0
    BY SmallSeqs
  <2> QED
    BY <2>1
<1>4. /\ pc' \in Labels /\ rest' \in Seq(Byte) /\ Len(rest') % 4 = 0 /\ bits' \in 0..3
      /\ msg' \in Seq(Byte) /\ result' \in Results /\ errors' \in Nat /\ buffer_size' \in Nat \ {0}
  <2>1. rest' \in Seq(Byte) /\ Len(rest') % 4 = 0 /\ msg' \in Seq(Byte)
    BY <1>0, <1>1, <1>2, <1>3
  <2>2. bits' \in 0..3 /\ buffer_size' \in Nat \ {0} /\ errors' \in Nat
    BY <1>0, <1>1, <1>2
  <2>3. pc' \in Labels /\ result' \in Results
    BY <1>1, <1>2 DEF Labels
  <2> QED
    BY <2>1, <2>2, <2>3
<1>5. driver'.fill_base => backend = "winmm"
  BY DEF Fits
<1>6. Place'
  BY <1>0, <1>1, <1>2, <1>5 DEF Place
<1>7. ASSUME backend # "winmm" PROVE Keeps(Track \o Remaining, Track' \o Remaining')
  <2>1. Remaining' = msg'
    BY <1>1, <1>4, RestFacts DEF Remaining
  <2>2. CASE msg' = msg /\ error = "pmNoError"
    BY <1>7, <2>1, <2>2
  <2>3. CASE msg' = <<>>
    <3>1. Track' \in Seq(Byte)
      <4>1. driver' \in Driver
        BY DEF Fits
      <4> QED
        BY <4>1, DriverFacts DEF Track, Stream
    <3>2. Track' \o <<>> = Track'
      BY <3>1, Cat
    <3> QED
      BY <1>7, <2>1, <2>3, <3>2
  <2> QED
    BY <1>2, <2>2, <2>3
<1> QED
  BY <1>4, <1>6, <1>7, StepBase

(* Pm_Write, event by event.                                               *)

\* What can be said of the state when an event is about to be handled.
LEMMA AtEventFacts ==
  ASSUME Base, pc \in {"event", "first", "bytes"}, rest # <<>>
  PROVE  /\ rest \in Seq(Byte) /\ msg \in Seq(Byte) /\ Len(rest) >= 4 /\ Len(rest) % 4 = 0
         /\ Event \in Seq(Byte) /\ Len(Event) = 4 /\ \A i \in 1..4 : Event[i] = rest[i]
         /\ OtherEvents \in Seq(Byte) /\ Len(OtherEvents) % 4 = 0
         /\ rest = Event \o OtherEvents
         /\ RestOf(rest, 4, msg) = OtherEvents \o msg
         /\ RestOf(OtherEvents, 0, msg) = OtherEvents \o msg
         /\ OtherEvents \o msg \in Seq(Byte)
<1>1. rest \in Seq(Byte) /\ msg \in Seq(Byte) /\ Len(rest) % 4 = 0
  BY DEF Base, Types
<1>2. Len(rest) > 0
  <2>1. Len(rest) \in Nat /\ Len(rest) # 0
    BY <1>1, EmptySeq, LenProperties
  <2> QED
    BY <2>1
<1>3. /\ Len(rest) >= 4 /\ Event \in Seq(Byte) /\ Len(Event) = 4
      /\ \A i \in 1..4 : Event[i] = rest[i]
      /\ OtherEvents \in Seq(Byte) /\ Len(OtherEvents) % 4 = 0
      /\ rest = Event \o OtherEvents
  BY <1>1, <1>2, EventFacts DEF Event, OtherEvents
<1>4. RestOf(rest, 4, msg) = OtherEvents \o msg
  BY DEF RestOf, OtherEvents
<1>5. RestOf(OtherEvents, 0, msg) = OtherEvents \o msg /\ OtherEvents \o msg \in Seq(Byte)
  BY <1>1, <1>3, RestFacts, Cat
<1> QED
  BY <1>1, <1>3, <1>4, <1>5

\* A call of a backend function, taken apart.
LEMMA CallFacts ==
  ASSUME Base, NEW o, driver' = o.driver,
         UNCHANGED <<buffer_size, backend, is_removed, past>>, Fits(o.driver),
         (o.ok /\ UNCHANGED failures) \/ failures' = failures + 1
  PROVE  /\ Fits(driver') /\ failures' \in Nat
         /\ UNCHANGED <<backend, is_removed, past, buffer_size>>
         /\ Back /\ Capacity
<1>1. failures \in Nat
  BY DEF Base, PastTypes
<1>2. failures' \in Nat
  BY <1>1
<1> QED
  BY <1>2 DEF Base, Types, Back

\* Nothing done to the backend.
LEMMA NoCallFacts ==
  ASSUME Base, NoCall
  PROVE  /\ Fits(driver') /\ failures' \in Nat
         /\ UNCHANGED <<backend, is_removed, past, buffer_size>>
         /\ driver' = driver /\ driver' \in Driver
<1>1. failures \in Nat /\ Fits(driver)
  BY DEF Base, PastTypes, Capacity
<1> QED
  BY <1>1 DEF NoCall, Fits

\* A nested sysex message is refused.
LEMMA NestedSysexBase == ASSUME Base, NestedSysex PROVE Base'
<1>1. /\ sysex_in_progress /\ sysex_in_progress' = FALSE /\ NoCall /\ Return("pmBadData")
  BY DEF NestedSysex
<1>2. /\ Fits(driver') /\ failures' \in Nat
      /\ UNCHANGED <<backend, is_removed, past, buffer_size>>
      /\ driver' = driver /\ driver' \in Driver
  BY <1>1, NoCallFacts
<1>3. Keeps(Track \o Remaining, Track')
  <2>1. Track = Line(driver) /\ Track \in Seq(Byte) /\ Remaining \in Seq(Byte)
    BY <1>1, TrackFacts
  <2>2. Keeps(Track \o Remaining, Line(driver'))
    BY <1>2, <2>1, KeepsDrop
  <2> QED
    BY <1>2, <2>2, NextTrack
<1> QED
  BY <1>1, <1>2, <1>3, ReturnBase DEF Results

\* Data outside a sysex message is refused.
LEMMA StrayDataBase == ASSUME Base, StrayData PROVE Base'
<1>1. sysex_in_progress' = sysex_in_progress /\ NoCall /\ Return("pmBadData") /\ ~sysex_in_progress
  BY DEF StrayData
<1>2. /\ Fits(driver') /\ failures' \in Nat
      /\ UNCHANGED <<backend, is_removed, past, buffer_size>>
      /\ driver' = driver /\ driver' \in Driver
  BY <1>1, NoCallFacts
<1>3. Keeps(Track \o Remaining, Track')
  <2>1. Track \in Seq(Byte) /\ Remaining \in Seq(Byte)
    BY TrackFacts
  <2>2. Track' = Track
    BY <1>1, <1>2 DEF Track, Stream
  <2> QED
    BY <2>1, <2>2, KeepsDrop
<1>4. sysex_in_progress' \in BOOLEAN
  BY <1>1 DEF Base, Types
<1> QED
  BY <1>1, <1>2, <1>3, <1>4, ReturnBase DEF Results

\* A sysex message begins.
LEMMA SysexStartBase == ASSUME Base, SysexStart PROVE Base'
<1>1. /\ pc = "event" /\ rest # <<>> /\ ~sysex_in_progress /\ sysex_in_progress' = TRUE
  BY DEF SysexStart, AtEvent
<1>2. PICK o \in begin_sysex :
         /\ driver' = o.driver /\ UNCHANGED <<buffer_size, backend, is_removed, past>>
         /\ o.ok => Goto("first", rest, 0) /\ UNCHANGED failures
         /\ ~o.ok => Return("pmHostError") /\ failures' = failures + 1
  BY DEF SysexStart, Call
<1>3. Back /\ Capacity
  BY DEF Base, Types, Back
<1>4. /\ Fits(o.driver)
      /\ backend # "winmm" => o.ok /\ Out(o.driver) = Out(driver)
      /\ backend # "alsa" => o.driver.part = <<>>
      /\ backend = "alsa" => o.driver = driver
  BY <1>3, BeginFacts
<1>5. /\ Fits(driver') /\ failures' \in Nat
      /\ UNCHANGED <<backend, is_removed, past, buffer_size>>
  BY <1>2, <1>4, CallFacts
<1>6. CASE o.ok
  <2>1. /\ rest \in Seq(Byte) /\ Len(rest) % 4 = 0 /\ Len(rest) > 0 /\ bits = 0
    BY <1>1, AtEventFacts DEF Base, Place
  <2>2. ASSUME backend # "winmm" PROVE Keeps(Track \o Remaining, Track' \o RestOf(rest, 0, msg))
    <3>1. pc' = "first"
      BY <1>2, <1>6 DEF Goto
    <3>2. Track' = Track
      <4>1. CASE backend = "alsa"
        BY <1>2, <1>4, <4>1 DEF Track
      <4>2. CASE backend # "alsa"
        <5>1. Track = Out(driver)
          BY <1>1, <4>2, TrackFacts
        <5>2. Track' = Out(driver')
          BY <1>5, <3>1, <4>2 DEF Track, Stream
        <5> QED
          BY <1>2, <1>4, <2>2, <5>1, <5>2
      <4> QED
        BY <4>1, <4>2
    <3>3. Remaining = RestOf(rest, 0, msg)
      BY <2>1, TrackFacts
    <3> QED
      BY <3>2, <3>3, KeepsSame
  <2>3. backend = "alsa" \/ driver'.part = <<>>
    BY <1>2, <1>4
  <2> QED
    BY <1>1, <1>2, <1>5, <1>6, <2>1, <2>2, <2>3, GotoBase
<1>7. CASE ~o.ok
  BY <1>1, <1>2, <1>4, <1>5, <1>7, ReturnBase DEF Results
<1> QED
  BY <1>6, <1>7

\* The status byte of a sysex message.
LEMMA FirstByteBase == ASSUME Base, FirstByte PROVE Base'
<1>1. /\ pc = "first" /\ rest # <<>> /\ Len(rest) > 0 /\ bits = 0 /\ sysex_in_progress
      /\ sysex_in_progress' = sysex_in_progress
  <2>1. pc = "first" /\ Len(rest) > 0 /\ sysex_in_progress /\ bits = 0
        /\ sysex_in_progress' = sysex_in_progress
    BY DEF FirstByte, Base, Place
  <2>2. rest # <<>>
    BY <2>1, SmallSeqs
  <2> QED
    BY <2>1, <2>2
<1>2. PICK o \in write_byte(Sysex) :
         /\ driver' = o.driver /\ UNCHANGED <<buffer_size, backend, is_removed, past>>
         /\ o.ok => Goto("bytes", rest, 1) /\ UNCHANGED failures
         /\ ~o.ok => Return("pmHostError") /\ failures' = failures + 1
  BY DEF FirstByte, Call
<1>3. Back /\ Capacity /\ Sysex \in Byte
  BY ByteFacts DEF Base, Types, Back
<1>4. /\ Fits(o.driver)
      /\ backend # "winmm" => Keeps(Line(driver) \o <<Sysex>>, Line(o.driver))
  BY <1>3, WriteByteFacts
<1>5. /\ Fits(driver') /\ failures' \in Nat
      /\ UNCHANGED <<backend, is_removed, past, buffer_size>>
  BY <1>2, <1>4, CallFacts
<1>6. /\ Len(rest) >= 4 /\ Len(rest) % 4 = 0 /\ rest \in Seq(Byte) /\ msg \in Seq(Byte)
  BY <1>1, AtEventFacts
<1>7. ASSUME backend # "winmm"
      PROVE  /\ Keeps(Track \o Remaining, Track' \o RestOf(rest, 1, msg))
             /\ Keeps(Track \o Remaining, Track')
  <2>1. /\ driver \in Driver /\ Track = Line(driver) /\ Track \in Seq(Byte)
        /\ Remaining = RestOf(rest, 0, msg)
    BY <1>1, TrackFacts
  <2>2. /\ rest[1] \in Byte /\ RestOf(rest, 1, msg) \in Seq(Byte)
        /\ RestOf(rest, 0, msg) = <<rest[1]>> \o RestOf(rest, 1, msg)
    <3>1. 0 \in 0..3 /\ 0 + 1 = 1
      OBVIOUS
    <3>2. /\ rest[0 + 1] \in Byte /\ RestOf(rest, 0 + 1, msg) \in Seq(Byte)
          /\ RestOf(rest, 0, msg) = <<rest[0 + 1]>> \o RestOf(rest, 0 + 1, msg)
      BY <1>6, <3>1, ByteStep
    <3> QED
      BY <3>1, <3>2, Zenon
  <2>3. <<rest[1]>> \in Seq(Byte) /\ <<Sysex>> \in Seq(Byte)
    BY <1>3, <2>2, SmallSeqs
  <2>4. NoData(<<Sysex>>)
    BY DEF NoData, IsData, Sysex
  <2>5. Keeps(Track, Track \o <<Sysex>>) /\ Keeps(Track \o <<rest[1]>>, Track)
    BY <2>1, <2>3, <2>4, KeepsAdd, KeepsDrop
  <2>6. Keeps(Track \o <<rest[1]>>, Line(driver'))
    <3>1. Keeps(Track \o <<rest[1]>>, Track \o <<Sysex>>)
      BY <2>5, KeepsTrans
    <3>2. Keeps(Track \o <<Sysex>>, Line(driver'))
      BY <1>2, <1>4, <1>7, <2>1
    <3> QED
      BY <3>1, <3>2, KeepsTrans
  <2>7. Keeps(Track \o <<rest[1]>>, Track') /\ Track' \in Seq(Byte)
    <3>1. driver' \in Driver
      BY <1>5 DEF Fits
    <3> QED
      BY <2>6, <3>1, NextTrack
  <2> QED
    BY <2>1, <2>2, <2>3, <2>7, KeepsStep
<1>8. CASE o.ok
  BY <1>1, <1>2, <1>5, <1>6, <1>7, <1>8, GotoBase
<1>9. CASE ~o.ok
  BY <1>1, <1>2, <1>5, <1>7, <1>9, ReturnBase DEF Results
<1> QED
  BY <1>8, <1>9

\* A real-time message inside a sysex message.
LEMMA RealTimeInSysexBase == ASSUME Base, RealTimeInSysex PROVE Base'
<1>1. /\ pc = "event" /\ rest # <<>> /\ sysex_in_progress /\ IsRealTime(Event[1])
      /\ sysex_in_progress' = sysex_in_progress /\ bits = 0
  BY DEF RealTimeInSysex, AtEvent, Base, Place
<1>2. PICK o \in write_realtime(Event) :
         /\ driver' = o.driver /\ UNCHANGED <<buffer_size, backend, is_removed, past>>
         /\ o.ok => Goto("bytes", rest, 0) /\ UNCHANGED failures
         /\ ~o.ok => Return("pmHostError") /\ failures' = failures + 1
  BY DEF RealTimeInSysex, Call
<1>3. Back /\ Capacity
  BY DEF Base, Types, Back
<1>4. /\ Len(rest) >= 4 /\ Len(rest) % 4 = 0 /\ rest \in Seq(Byte) /\ msg \in Seq(Byte)
      /\ Event \in Seq(Byte) /\ Len(Event) = 4 /\ Len(rest) > 0
  BY <1>1, AtEventFacts
<1>5. /\ Fits(o.driver)
      /\ backend # "winmm" => Keeps(Line(driver), Line(o.driver))
  BY <1>1, <1>2, <1>3, <1>4, WriteRealtimeFacts
<1>6. /\ Fits(driver') /\ failures' \in Nat
      /\ UNCHANGED <<backend, is_removed, past, buffer_size>>
  BY <1>2, <1>5, CallFacts
<1>7. ASSUME backend # "winmm"
      PROVE  /\ Keeps(Track \o Remaining, Track' \o RestOf(rest, 0, msg))
             /\ Keeps(Track \o Remaining, Track')
  <2>1. /\ driver \in Driver /\ Track = Line(driver) /\ Track \in Seq(Byte)
        /\ Remaining \in Seq(Byte) /\ Remaining = RestOf(rest, 0, msg)
    BY <1>1, TrackFacts
  <2>2. Keeps(Track, Track') /\ Track' \in Seq(Byte)
    <3>1. driver' \in Driver
      BY <1>6 DEF Fits
    <3> QED
      BY <1>2, <1>5, <1>7, <2>1, <3>1, NextTrack
  <2>3. Keeps(Track \o Remaining, Track' \o Remaining)
    BY <2>1, <2>2, KeepsCat
  <2>4. Keeps(Track \o Remaining, Track')
    BY <2>1, <2>2, KeepsDrop, KeepsTrans
  <2> QED
    BY <2>1, <2>3, <2>4
<1>8. CASE o.ok
  BY <1>1, <1>2, <1>4, <1>6, <1>7, <1>8, GotoBase
<1>9. CASE ~o.ok
  BY <1>1, <1>2, <1>6, <1>7, <1>9, ReturnBase DEF Results
<1> QED
  BY <1>8, <1>9

\* Any other message cuts the sysex message off.
LEMMA SysexCutBase == ASSUME Base, SysexCut PROVE Base'
<1>1. sysex_in_progress /\ sysex_in_progress' = FALSE
  BY DEF SysexCut
<1>2. PICK o \in end_sysex :
         /\ driver' = o.driver /\ UNCHANGED <<buffer_size, backend, is_removed, past>>
         /\ Return("pmBadData")
         /\ (o.ok /\ UNCHANGED failures) \/ failures' = failures + 1
  BY DEF SysexCut, Call
<1>3. Back /\ Capacity
  BY DEF Base, Types, Back
<1>4. /\ Fits(o.driver)
      /\ backend # "winmm" => Keeps(Line(driver), Line(o.driver))
  BY <1>2, <1>3, EndFacts
<1>5. /\ Fits(driver') /\ failures' \in Nat
      /\ UNCHANGED <<backend, is_removed, past, buffer_size>>
  BY <1>2, <1>4, CallFacts
<1>6. ASSUME backend # "winmm" PROVE Keeps(Track \o Remaining, Track')
  <2>1. Track = Line(driver) /\ Track \in Seq(Byte) /\ Remaining \in Seq(Byte)
    BY <1>1, TrackFacts
  <2>2. Keeps(Track, Track')
    <3>1. driver' \in Driver
      BY <1>5 DEF Fits
    <3> QED
      BY <1>2, <1>4, <1>6, <2>1, <3>1, NextTrack
  <2> QED
    BY <2>1, <2>2, KeepsDrop, KeepsTrans
<1> QED
  BY <1>1, <1>2, <1>5, <1>6, ReturnBase DEF Results

\* A short message.
LEMMA ShortEventBase == ASSUME Base, ShortEvent PROVE Base'
<1>1. /\ pc = "event" /\ rest # <<>> /\ ~sysex_in_progress
      /\ sysex_in_progress' = sysex_in_progress /\ sysex_in_progress' \in BOOLEAN /\ bits = 0
  BY DEF ShortEvent, AtEvent, Base, Place, Types
<1>2. PICK o \in write_short(Event) :
         /\ driver' = o.driver /\ UNCHANGED <<buffer_size, backend, is_removed, past>>
         /\ o.ok => Goto("event", OtherEvents, 0) /\ UNCHANGED failures
         /\ ~o.ok => Return("pmHostError") /\ failures' = failures + 1
  BY DEF ShortEvent, Call, NextEvent
<1>3. Back /\ Capacity
  BY DEF Base, Types, Back
<1>4. /\ rest \in Seq(Byte) /\ msg \in Seq(Byte)
      /\ Event \in Seq(Byte) /\ Len(Event) = 4 /\ OtherEvents \in Seq(Byte)
      /\ Len(OtherEvents) % 4 = 0 /\ rest = Event \o OtherEvents
      /\ RestOf(OtherEvents, 0, msg) = OtherEvents \o msg /\ OtherEvents \o msg \in Seq(Byte)
  BY <1>1, AtEventFacts
<1>5. /\ Fits(o.driver)
      /\ backend \notin {"alsa", "winmm"} => Keeps(Out(driver) \o Short(Event), Out(o.driver))
      /\ backend = "alsa" => Keeps(Line(driver) \o Short(Event), Line(o.driver))
  BY <1>2, <1>3, <1>4, WriteShortFacts
<1>6. /\ Fits(driver') /\ failures' \in Nat
      /\ UNCHANGED <<backend, is_removed, past, buffer_size>>
  BY <1>2, <1>5, CallFacts
<1>7. ASSUME backend # "winmm"
      PROVE  /\ Keeps(Track \o Remaining, Track' \o RestOf(OtherEvents, 0, msg))
             /\ Keeps(Track \o Remaining, Track')
  <2>1. /\ driver \in Driver /\ Track \in Seq(Byte) /\ Remaining = rest \o msg
        /\ Track = IF backend = "alsa" THEN Line(driver) ELSE Out(driver)
    BY <1>1, TrackFacts
  <2>2. Track' = IF backend = "alsa" THEN Line(driver') ELSE Out(driver')
    BY <1>1, <1>6 DEF Track, Stream
  <2>3. Keeps(Track \o Short(Event), Track')
    BY <1>2, <1>5, <1>7, <2>1, <2>2
  <2>4. Track' \in Seq(Byte)
    <3>1. driver' \in Driver
      BY <1>6 DEF Fits
    <3> QED
      BY <2>2, <3>1, DriverFacts
  <2>5. PICK x \in Seq(Byte) : Event = Short(Event) \o x
    BY <1>4, ShortFacts
  <2>6. Short(Event) \in Seq(Byte)
    BY <1>4, ShortFacts
  <2> DEFINE s == Short(Event)
             y == OtherEvents \o msg
  <2>7. Remaining = (s \o x) \o y
    <3>1. (Event \o OtherEvents) \o msg = Event \o y
      BY <1>4, CatCat
    <3> QED
      BY <1>4, <2>1, <2>5, <3>1
  <2> HIDE DEF s, y
  <2>8. s \in Seq(Byte) /\ x \in Seq(Byte) /\ y \in Seq(Byte) /\ s \o x \in Seq(Byte)
        /\ Track \o s \in Seq(Byte)
    BY <1>4, <2>1, <2>6, Cat DEF s, y
  <2>9. Keeps(Track \o (s \o x), Track')
    <3>1. Track \o (s \o x) = (Track \o s) \o x
      BY <2>1, <2>8, CatCat
    <3>2. Keeps((Track \o s) \o x, Track \o s)
      BY <2>8, KeepsDrop
    <3>3. Keeps(Track \o s, Track')
      BY <2>3 DEF s
    <3> QED
      BY <3>1, <3>2, <3>3, KeepsTrans
  <2>10. Keeps(Track \o Remaining, Track' \o y) /\ Keeps(Track \o Remaining, Track')
    BY <2>1, <2>4, <2>7, <2>8, <2>9, KeepsStep
  <2> QED
    BY <1>4, <2>10 DEF y
<1>8. CASE o.ok
  BY <1>1, <1>2, <1>4, <1>6, <1>7, <1>8, GotoBase
<1>9. CASE ~o.ok
  BY <1>1, <1>2, <1>6, <1>7, <1>9, ReturnBase DEF Results
<1> QED
  BY <1>8, <1>9

\* An event of data is copied into a buffer of WinMM.
LEMMA FastCopyBase == ASSUME Base, FastCopy PROVE Base'
<1>1. /\ pc = "event" /\ rest # <<>> /\ sysex_in_progress /\ sysex_in_progress' = sysex_in_progress
      /\ driver.fill_base /\ Len(driver.part) + 4 <= fill_length
      /\ driver' = [driver EXCEPT !.part = driver.part \o Event]
      /\ Goto("event", OtherEvents, 0)
      /\ UNCHANGED <<buffer_size, backend, is_removed, failures, past>>
  BY DEF FastCopy, AtEvent, HasRoom, NextEvent
<1>2. /\ Event \in Seq(Byte) /\ Len(Event) = 4 /\ OtherEvents \in Seq(Byte)
      /\ Len(OtherEvents) % 4 = 0
  BY <1>1, AtEventFacts
<1>3. driver \in Driver /\ Fits(driver) /\ backend = "winmm" /\ driver.list = <<>>
  BY <1>1 DEF Base, Capacity, Fits
<1>4. /\ driver.part \in Seq(Byte) /\ driver.part \o Event \in Seq(Byte)
      /\ Len(driver.part \o Event) = Len(driver.part) + 4 /\ Len(driver.part) \in Nat
  <2>1. driver.part \in Seq(Byte) /\ Len(driver.part) \in Nat
    BY <1>3, DriverFacts
  <2>2. driver.part \o Event \in Seq(Byte)
    BY <1>2, <2>1, Cat
  <2>3. Len(driver.part \o Event) = Len(driver.part) + Len(Event)
    BY <1>2, <2>1, ConcatProperties
  <2> QED
    BY <1>2, <2>1, <2>2, <2>3
<1>5. /\ driver' \in Driver /\ driver'.part = driver.part \o Event /\ driver'.list = <<>>
  BY <1>1, <1>3, <1>4 DEF Driver
<1>6. Fits(driver')
  <2>1. Len(driver'.part) <= fill_length /\ Len(driver'.part) > 0
    BY <1>1, <1>4, <1>5
  <2> QED
    BY <1>3, <1>5, <2>1 DEF Fits
<1>7. failures' \in Nat
  BY <1>1 DEF Base, PastTypes
<1> QED
  BY <1>1, <1>2, <1>3, <1>6, <1>7, GotoBase

\* Any other event of a sysex message is written byte by byte.
LEMMA SlowCopyBase == ASSUME Base, SlowCopy PROVE Base'
<1>1. /\ pc = "event" /\ rest # <<>> /\ sysex_in_progress /\ sysex_in_progress' = sysex_in_progress
      /\ Goto("bytes", rest, 0) /\ NoCall /\ bits = 0
  BY DEF SlowCopy, AtEvent, Base, Place
<1>2. /\ Fits(driver') /\ failures' \in Nat
      /\ UNCHANGED <<backend, is_removed, past, buffer_size>>
      /\ driver' = driver /\ driver' \in Driver
  BY <1>1, NoCallFacts
<1>3. rest \in Seq(Byte) /\ Len(rest) % 4 = 0 /\ Len(rest) > 0
  BY <1>1, AtEventFacts
<1>4. Keeps(Track \o Remaining, Track' \o RestOf(rest, 0, msg))
  <2>1. Remaining = RestOf(rest, 0, msg)
    BY <1>1, TrackFacts
  <2>2. Track' = Track
    BY <1>1, <1>2 DEF Track, Stream, Goto
  <2> QED
    BY <2>1, <2>2, KeepsSame
<1> QED
  BY <1>1, <1>2, <1>3, <1>4, GotoBase

\* A byte of a sysex message.
LEMMA WriteByteBase == ASSUME Base, WriteByte PROVE Base'
<1> DEFINE byte == Event[bits + 1]
<1>1. /\ pc = "bytes" /\ sysex_in_progress /\ sysex_in_progress' = sysex_in_progress
      /\ rest # <<>> /\ Len(rest) > 0 /\ bits \in 0..3
  <2>1. /\ pc = "bytes" /\ sysex_in_progress /\ sysex_in_progress' = sysex_in_progress
        /\ Len(rest) > 0 /\ bits \in 0..3
    BY DEF WriteByte, Base, Place, Types
  <2>2. rest # <<>>
    BY <2>1, SmallSeqs
  <2> QED
    BY <2>1, <2>2
<1>2. PICK o \in write_byte(byte) :
         /\ driver' = o.driver /\ UNCHANGED <<buffer_size, backend, is_removed, past>>
         /\ o.ok => /\ IF byte = Eox THEN Goto("end", OtherEvents, 0)
                       ELSE IF bits = 3 THEN Goto("event", OtherEvents, 0)
                       ELSE Goto("bytes", rest, bits + 1)
                    /\ UNCHANGED failures
         /\ ~o.ok => Return("pmHostError") /\ failures' = failures + 1
  BY DEF WriteByte, Call, NextEvent
<1>3. Back /\ Capacity
  BY DEF Base, Types, Back
<1>4. /\ rest \in Seq(Byte) /\ msg \in Seq(Byte) /\ Len(rest) >= 4 /\ Len(rest) % 4 = 0
      /\ OtherEvents \in Seq(Byte) /\ Len(OtherEvents) % 4 = 0
      /\ RestOf(rest, 4, msg) = OtherEvents \o msg
      /\ RestOf(OtherEvents, 0, msg) = OtherEvents \o msg /\ OtherEvents \o msg \in Seq(Byte)
      /\ \A i \in 1..4 : Event[i] = rest[i]
  BY <1>1, AtEventFacts
<1>5. /\ byte \in Byte
      /\ RestOf(rest, bits, msg) = <<byte>> \o RestOf(rest, bits + 1, msg)
      /\ RestOf(rest, bits + 1, msg) \in Seq(Byte)
      /\ \E x \in Seq(Byte) : RestOf(rest, bits + 1, msg) = x \o (OtherEvents \o msg)
  <2>1. byte = rest[bits + 1]
    <3>1. bits + 1 \in 1..4
      BY <1>1
    <3> QED
      BY <1>4, <3>1
  <2> HIDE DEF byte
  <2>2. /\ rest[bits + 1] \in Byte
        /\ RestOf(rest, bits, msg) = <<rest[bits + 1]>> \o RestOf(rest, bits + 1, msg)
        /\ RestOf(rest, bits + 1, msg) \in Seq(Byte)
    BY <1>1, <1>4, ByteStep
  <2>3. \E x \in Seq(Byte) : RestOf(rest, bits + 1, msg) = x \o RestOf(rest, 4, msg)
    BY <1>1, <1>4, ByteStep
  <2> QED
    BY <1>4, <2>1, <2>2, <2>3, Zenon
<1> HIDE DEF byte
<1>6. /\ Fits(o.driver)
      /\ backend # "winmm" => Keeps(Line(driver) \o <<byte>>, Line(o.driver))
  BY <1>2, <1>3, <1>5, WriteByteFacts
<1>7. /\ Fits(driver') /\ failures' \in Nat
      /\ UNCHANGED <<backend, is_removed, past, buffer_size>>
  BY <1>2, <1>6, CallFacts
<1>8. ASSUME backend # "winmm"
      PROVE  /\ Keeps(Track \o Remaining, Track' \o RestOf(rest, bits + 1, msg))
             /\ Keeps(Track \o Remaining, Track' \o (OtherEvents \o msg))
             /\ Keeps(Track \o Remaining, Track')
  <2>1. /\ driver \in Driver /\ Track = Line(driver) /\ Track \in Seq(Byte)
        /\ Remaining = RestOf(rest, bits, msg)
    BY <1>1, TrackFacts DEF Remaining
  <2>2. <<byte>> \in Seq(Byte)
    BY <1>5, SmallSeqs
  <2>3. Keeps(Track \o <<byte>>, Track') /\ Track' \in Seq(Byte)
    <3>1. driver' \in Driver
      BY <1>7 DEF Fits
    <3> QED
      BY <1>2, <1>6, <1>8, <2>1, <3>1, NextTrack
  <2>4. /\ Keeps(Track \o Remaining, Track' \o RestOf(rest, bits + 1, msg))
        /\ Keeps(Track \o Remaining, Track')
    BY <1>5, <2>1, <2>2, <2>3, KeepsStep
  <2>5. PICK x \in Seq(Byte) : RestOf(rest, bits + 1, msg) = x \o (OtherEvents \o msg)
    BY <1>5
  <2>6. Keeps(Track' \o (x \o (OtherEvents \o msg)), Track' \o (OtherEvents \o msg))
    <3>1. Keeps(Track' \o x, Track')
      BY <2>3, KeepsDrop
    <3> QED
      BY <1>4, <2>3, <3>1, KeepsStep
  <2>7. Keeps(Track \o Remaining, Track' \o (OtherEvents \o msg))
    BY <2>4, <2>5, <2>6, KeepsTrans
  <2> QED
    BY <2>4, <2>7
<1>9. CASE o.ok /\ byte = Eox
  <2>1. Goto("end", OtherEvents, 0) /\ sysex_in_progress'
    BY <1>1, <1>2, <1>9
  <2>2. backend # "winmm" => Keeps(Track \o Remaining, Track' \o RestOf(OtherEvents, 0, msg))
    BY <1>4, <1>8, Zenon
  <2> QED
    BY <1>1, <1>4, <1>7, <2>1, <2>2, GotoBase
<1>10. CASE o.ok /\ byte # Eox /\ bits = 3
  <2>1. Goto("event", OtherEvents, 0) /\ sysex_in_progress'
    BY <1>1, <1>2, <1>10
  <2>2. backend # "winmm" => Keeps(Track \o Remaining, Track' \o RestOf(OtherEvents, 0, msg))
    BY <1>4, <1>8, Zenon
  <2> QED
    BY <1>1, <1>4, <1>7, <2>1, <2>2, GotoBase
<1>11. CASE o.ok /\ byte # Eox /\ bits # 3
  <2>1. bits + 1 \in 0..3
    BY <1>1, <1>11
  <2> QED
    BY <1>1, <1>2, <1>4, <1>7, <1>8, <1>11, <2>1, GotoBase
<1>12. CASE ~o.ok
  BY <1>1, <1>2, <1>7, <1>8, <1>12, ReturnBase DEF Results
<1> QED
  BY <1>9, <1>10, <1>11, <1>12

\* The end of a sysex message.
LEMMA pm_end_sysexBase == ASSUME Base, pm_end_sysex PROVE Base'
<1>1. /\ pc = "end" /\ sysex_in_progress /\ sysex_in_progress' = FALSE /\ bits = 0
      /\ rest \in Seq(Byte) /\ Len(rest) % 4 = 0
  BY DEF pm_end_sysex, Base, Place, Types
<1>2. PICK o \in end_sysex :
         /\ driver' = o.driver /\ UNCHANGED <<buffer_size, backend, is_removed, past>>
         /\ o.ok => Goto("event", rest, 0) /\ UNCHANGED failures
         /\ ~o.ok => Return("pmHostError") /\ failures' = failures + 1
  BY DEF pm_end_sysex, Call
<1>3. Back /\ Capacity
  BY DEF Base, Types, Back
<1>4. /\ Fits(o.driver)
      /\ backend # "winmm" => Keeps(Line(driver), Line(o.driver))
  BY <1>2, <1>3, EndFacts
<1>5. /\ Fits(driver') /\ failures' \in Nat
      /\ UNCHANGED <<backend, is_removed, past, buffer_size>>
  BY <1>2, <1>4, CallFacts
<1>6. ASSUME backend # "winmm"
      PROVE  /\ Keeps(Track \o Remaining, Track' \o RestOf(rest, 0, msg))
             /\ Keeps(Track \o Remaining, Track')
  <2>1. /\ Track = Line(driver) /\ Track \in Seq(Byte) /\ Remaining \in Seq(Byte)
        /\ Remaining = RestOf(rest, 0, msg)
    BY <1>1, TrackFacts
  <2>2. Keeps(Track, Track') /\ Track' \in Seq(Byte)
    <3>1. driver' \in Driver
      BY <1>5 DEF Fits
    <3> QED
      BY <1>2, <1>4, <1>6, <2>1, <3>1, NextTrack
  <2>3. Keeps(Track \o Remaining, Track' \o Remaining)
    BY <2>1, <2>2, KeepsCat
  <2>4. Keeps(Track \o Remaining, Track')
    BY <2>1, <2>2, KeepsDrop, KeepsTrans
  <2> QED
    BY <2>1, <2>3, <2>4
<1>7. CASE o.ok
  <2>1. Goto("event", rest, 0)
    BY <1>2, <1>7
  <2>2. backend # "winmm" => Keeps(Track \o Remaining, Track' \o RestOf(rest, 0, msg))
    BY <1>6
  <2>3. sysex_in_progress' \in BOOLEAN
    BY <1>1
  <2> QED
    BY <1>1, <1>5, <2>1, <2>2, <2>3, GotoBase
<1>8. CASE ~o.ok
  BY <1>1, <1>2, <1>5, <1>6, <1>8, ReturnBase DEF Results
<1> QED
  BY <1>7, <1>8

\* The end of Pm_Write.
LEMMA WriteFlushBase == ASSUME Base, WriteFlush PROVE Base'
<1>1. /\ pc = "event" /\ rest = <<>> /\ sysex_in_progress' = sysex_in_progress
      /\ sysex_in_progress' \in BOOLEAN
  BY DEF WriteFlush, Base, Types
<1>2. Track \in Seq(Byte) /\ msg \in Seq(Byte) /\ Remaining = msg
  BY <1>1, TrackFacts DEF Base, Types
<1>3. Keeps(Track \o msg, Track)
  BY <1>2, KeepsDrop
<1>4. CASE sysex_in_progress
  <2>1. NoCall /\ Return("pmNoError")
    BY <1>4 DEF WriteFlush
  <2>2. /\ Fits(driver') /\ failures' \in Nat
        /\ UNCHANGED <<backend, is_removed, past, buffer_size>>
        /\ driver' = driver /\ driver' \in Driver
    BY <2>1, NoCallFacts
  <2>3. Track' = Track
    <3>1. pc' # "first"
      BY <2>1 DEF Return
    <3> QED
      BY <1>1, <2>2, <3>1 DEF Track, Stream
  <2>4. Keeps(Track \o Remaining, Track' \o msg) /\ Keeps(Track \o Remaining, Track')
    BY <1>2, <1>3, <2>3, KeepsSame
  <2> QED
    BY <1>1, <1>4, <2>1, <2>2, <2>4, ReturnBase DEF Results
<1>5. CASE ~sysex_in_progress
  <2>1. PICK o \in write_flush :
           /\ driver' = o.driver /\ UNCHANGED <<buffer_size, backend, is_removed, past>>
           /\ o.ok => Return("pmNoError") /\ UNCHANGED failures
           /\ ~o.ok => Return("pmHostError") /\ failures' = failures + 1
    BY <1>5 DEF WriteFlush, Call
  <2>2. Back /\ Capacity
    BY DEF Base, Types, Back
  <2>3. /\ Fits(o.driver) /\ ~o.driver.fill_base
        /\ backend \notin {"alsa", "winmm"} => Keeps(Out(driver), Out(o.driver))
        /\ backend = "alsa" => Keeps(Line(driver), Line(o.driver))
    BY <2>1, <2>2, FlushFacts
  <2>4. /\ Fits(driver') /\ failures' \in Nat
        /\ UNCHANGED <<backend, is_removed, past, buffer_size>>
    BY <2>1, <2>3, CallFacts
  <2>5. ASSUME backend # "winmm"
        PROVE  Keeps(Track \o Remaining, Track' \o msg) /\ Keeps(Track \o Remaining, Track')
    <3>1. Track = IF backend = "alsa" THEN Line(driver) ELSE Out(driver)
      BY <1>5, TrackFacts
    <3>2. Track' = IF backend = "alsa" THEN Line(driver') ELSE Out(driver')
      BY <1>1, <1>5, <2>4 DEF Track, Stream
    <3>3. Keeps(Track, Track')
      BY <2>1, <2>3, <2>5, <3>1, <3>2
    <3>4. Track' \in Seq(Byte)
      <4>1. driver' \in Driver
        BY <2>4 DEF Fits
      <4> QED
        BY <3>2, <4>1, DriverFacts
    <3>5. Keeps(Track \o msg, Track' \o msg)
      BY <1>2, <3>3, <3>4, KeepsCat
    <3>6. Keeps(Track \o msg, Track')
      BY <1>3, <3>3, KeepsTrans
    <3> QED
      BY <1>2, <3>5, <3>6
  <2>6. CASE o.ok
    BY <1>1, <2>1, <2>3, <2>4, <2>5, <2>6, ReturnBase DEF Results
  <2>7. CASE ~o.ok
    BY <1>1, <2>1, <2>3, <2>4, <2>5, <2>7, ReturnBase DEF Results
  <2> QED
    BY <2>6, <2>7
<1> QED
  BY <1>4, <1>5

(* The application, and the loops of Pm_WriteSysEx.                        *)

\* What is written next comes after all that has been written.
LEMMA RecordFacts ==
  ASSUME Base, pc = "idle", NEW bytes \in Seq(Raw), Record(bytes)
  PROVE  /\ PastTypes' <=> errors' \in Nat /\ failures' \in Nat
         /\ Numbered(bytes) \in Seq(Byte) /\ Len(Numbered(bytes)) = Len(bytes)
         /\ msg = <<>> /\ rest = <<>> /\ bits = 0
         /\ backend # "winmm" => /\ Sorted(Track \o Numbered(bytes), 255 + data')
                                 /\ Sorted(Track, 255 + data')
<1>1. /\ calls \in Nat /\ data \in Nat /\ intended \in Seq(Byte) /\ sysex_in_progress \in BOOLEAN
      /\ embedded \in BOOLEAN /\ msg = <<>> /\ rest = <<>> /\ bits = 0
  BY DEF Base, PastTypes, Types, Place
<1>2. /\ Numbered(bytes) \in Seq(Byte) /\ Len(Numbered(bytes)) = Len(bytes)
      /\ Cardinality({i \in DOMAIN bytes : bytes[i] = Datum}) \in Nat
      /\ Fresh(Numbered(bytes), 255 + data,
               255 + (data + Cardinality({i \in DOMAIN bytes : bytes[i] = Datum})))
  BY <1>1, NumberedFacts
<1>3. /\ data' = data + Cardinality({i \in DOMAIN bytes : bytes[i] = Datum})
      /\ intended' = intended \o Numbered(bytes)
      /\ calls' = calls + 1
      /\ before' = [sent |-> Len(intended), sysex |-> sysex_in_progress]
      /\ embedded' \in BOOLEAN
  BY <1>1 DEF Record
<1>4. /\ intended' \in Seq(Byte) /\ Len(intended) \in Nat
      /\ Len(intended') = Len(intended) + Len(Numbered(bytes)) /\ Len(Numbered(bytes)) \in Nat
  BY <1>1, <1>2, <1>3, ConcatProperties, LenProperties
<1>5. /\ data' \in Nat /\ data' >= data /\ calls' \in Nat
      /\ before' \in [sent : Nat, sysex : BOOLEAN] /\ before'.sent <= Len(intended')
  BY <1>1, <1>2, <1>3, <1>4
<1>6. PastTypes' <=> errors' \in Nat /\ failures' \in Nat
  BY <1>3, <1>4, <1>5 DEF PastTypes
<1>7. ASSUME backend # "winmm"
      PROVE  Sorted(Track \o Numbered(bytes), 255 + data') /\ Sorted(Track, 255 + data')
  <2>1. Track \in Seq(Byte) /\ Remaining \in Seq(Byte)
    BY TrackFacts
  <2>2. Sorted(Track, 255 + data)
    <3>1. Sorted(Track \o Remaining, 255 + data) /\ 255 + data \in Nat
      BY <1>1, <1>7 DEF Base, Ordered
    <3> QED
      BY <2>1, <3>1, SortedCat
  <2>3. \A k \in DOMAIN Track : Track[k] \in Nat
    <3>1. DOMAIN Track = 1..Len(Track)
      BY <2>1, LenProperties
    <3> QED
      BY <2>1, <3>1, ElementOfSeq, ByteFacts
  <2>4. \A k \in DOMAIN Numbered(bytes) : Numbered(bytes)[k] \in Nat
    <3>1. DOMAIN Numbered(bytes) = 1..Len(Numbered(bytes))
      BY <1>2, LenProperties
    <3> QED
      BY <1>2, <3>1, ElementOfSeq, ByteFacts
  <2>5. Sorted(Track, 255 + data')
    <3>1. ASSUME NEW k \in DOMAIN Track, IsData(Track[k]) PROVE Track[k] <= 255 + data'
      <4>1. Track[k] <= 255 + data /\ Track[k] \in Nat
        BY <2>2, <2>3, <3>1 DEF Sorted, Numbers
      <4> QED
        BY <1>1, <1>5, <4>1
    <3> QED
      BY <2>2, <3>1 DEF Sorted, Numbers
  <2>6. Below(Track, Numbered(bytes))
    <3>1. ASSUME NEW i \in DOMAIN Track, NEW j \in DOMAIN Numbered(bytes),
                 IsData(Track[i]), IsData(Numbered(bytes)[j])
          PROVE  Track[i] < Numbered(bytes)[j]
      <4>1. Track[i] <= 255 + data /\ Track[i] \in Nat
        BY <2>2, <2>3, <3>1 DEF Sorted, Numbers
      <4>2. Numbered(bytes)[j] > 255 + data /\ Numbered(bytes)[j] \in Nat
        BY <1>2, <2>4, <3>1 DEF Fresh
      <4> QED
        BY <1>1, <4>1, <4>2
    <3> QED
      BY <3>1 DEF Below
  <2>7. Sorted(Numbered(bytes), 255 + data')
    BY <1>2, <1>3 DEF Fresh
  <2>8. 255 + data' \in Nat
    <3>1. data' \in Nat /\ \A n \in Nat : 255 + n \in Nat
      BY <1>5
    <3> QED
      BY <3>1, Zenon
  <2> QED
    BY <1>2, <2>1, <2>5, <2>6, <2>7, <2>8, SortedCat
<1> QED
  BY <1>1, <1>2, <1>6, <1>7

\* Pm_Write is called.
LEMMA Pm_WriteBase == ASSUME Base, Pm_Write PROVE Base'
<1>1. PICK buffer \in Buffers :
         /\ Record(buffer)
         /\ IF is_removed THEN Return("pmDeviceRemoved") ELSE Goto("event", Numbered(buffer), 0)
  BY DEF Pm_Write
<1>2. /\ pc = "idle" /\ sysex_in_progress' = sysex_in_progress /\ buffer_size' = buffer_size
      /\ driver' = driver /\ backend' = backend /\ is_removed' = is_removed /\ failures' = failures
  BY DEF Pm_Write
<1>3. buffer \in Seq(Raw) /\ Len(buffer) % 4 = 0
  BY OutputAssumption DEF Raw
<1>4. /\ PastTypes' <=> errors' \in Nat /\ failures' \in Nat
      /\ Numbered(buffer) \in Seq(Byte) /\ Len(Numbered(buffer)) = Len(buffer)
      /\ msg = <<>> /\ rest = <<>> /\ bits = 0
      /\ backend # "winmm" => /\ Sorted(Track \o Numbered(buffer), 255 + data')
                              /\ Sorted(Track, 255 + data')
  BY <1>1, <1>2, <1>3, RecordFacts
<1>5. /\ result \in Results /\ errors \in Nat /\ failures \in Nat /\ Len(<<>>) = 0
      /\ Types /\ Capacity /\ Track \in Seq(Byte) /\ <<>> \in Seq(Byte)
  BY TrackFacts, SmallSeqs DEF Base, Types, PastTypes
<1>6. Capacity'
  BY <1>2, <1>5 DEF Capacity, Fits
<1>7. CASE is_removed
  <2>1. Return("pmDeviceRemoved")
    BY <1>1, <1>7
  <2>2. /\ rest' = <<>> /\ bits' = 0 /\ msg' = <<>> /\ result' = "pmDeviceRemoved"
        /\ pc' = "idle" /\ errors' = errors + 1
    BY <2>1 DEF Return
  <2>3. Types'
    BY <1>2, <1>5, <2>2 DEF Types, Labels, Results
  <2>4. Place'
    BY <2>2 DEF Place
  <2>5. PastTypes'
    BY <1>2, <1>4, <1>5, <2>2
  <2>6. Ordered'
    <3>1. Remaining' = <<>>
      BY <1>5, <2>2, RestFacts DEF Remaining
    <3>2. Track' = Track
      BY <1>2, <2>2 DEF Track, Stream
    <3>3. Track \o <<>> = Track
      BY <1>5, Cat
    <3> QED
      BY <1>2, <1>4, <3>1, <3>2, <3>3 DEF Ordered
  <2> QED
    BY <1>6, <2>3, <2>4, <2>5, <2>6 DEF Base
<1>8. CASE ~is_removed
  <2>1. Goto("event", Numbered(buffer), 0)
    BY <1>1, <1>8
  <2>2. /\ rest' = Numbered(buffer) /\ bits' = 0 /\ msg' = <<>> /\ result' = result
        /\ pc' = "event" /\ errors' = errors
    BY <1>4, <2>1 DEF Goto
  <2>3. Types'
    <3>1. rest' \in Seq(Byte) /\ Len(rest') % 4 = 0
      BY <1>3, <1>4, <2>2
    <3>2. bits' \in 0..3 /\ msg' \in Seq(Byte) /\ pc' \in Labels /\ result' \in Results
      BY <1>5, <2>2 DEF Labels
    <3> QED
      BY <1>2, <1>5, <3>1, <3>2 DEF Types
  <2>4. Place'
    BY <2>2 DEF Place
  <2>5. PastTypes'
    BY <1>2, <1>4, <1>5, <2>2
  <2>6. Ordered'
    <3>1. Remaining' = Numbered(buffer)
      <4>1. Remaining' = Numbered(buffer) \o <<>>
        BY <1>4, <1>5, <2>2, RestFacts DEF Remaining
      <4> QED
        BY <1>4, <4>1, Cat
    <3>2. Track' = Track
      BY <1>2, <2>2 DEF Track, Stream
    <3> QED
      BY <1>2, <1>4, <3>1, <3>2 DEF Ordered
  <2> QED
    BY <1>6, <2>3, <2>4, <2>5, <2>6 DEF Base
<1> QED
  BY <1>7, <1>8

\* Pm_WriteSysEx is called.
LEMMA Pm_WriteSysExBase == ASSUME Base, Pm_WriteSysEx PROVE Base'
<1>1. PICK n \in SysexLengths :
         Record(SysexMessage(n)) /\ msg' = Numbered(SysexMessage(n))
  BY DEF Pm_WriteSysEx
<1>2. /\ pc = "idle" /\ sysex_in_progress' = sysex_in_progress /\ buffer_size' = 1
      /\ driver' = driver /\ backend' = backend /\ is_removed' = is_removed
      /\ failures' = failures /\ rest' = rest /\ bits' = bits /\ result' = result
      /\ errors' = errors /\ pc' = "chunk"
  BY DEF Pm_WriteSysEx
<1> DEFINE bytes == SysexMessage(n)
<1>3. bytes \in Seq(Raw)
  BY OutputAssumption, SysexMessageFacts
<1> HIDE DEF bytes
<1>4. /\ PastTypes' <=> errors' \in Nat /\ failures' \in Nat
      /\ Numbered(bytes) \in Seq(Byte)
      /\ msg = <<>> /\ rest = <<>> /\ bits = 0
      /\ backend # "winmm" => Sorted(Track \o Numbered(bytes), 255 + data')
  <2>1. Record(bytes)
    BY <1>1 DEF bytes
  <2> QED
    BY <1>2, <1>3, <2>1, RecordFacts
<1>5. msg' = Numbered(bytes)
  BY <1>1 DEF bytes
<1>6. Types /\ Capacity /\ errors \in Nat /\ failures \in Nat
  BY DEF Base, PastTypes
<1>7. Types'
  BY <1>2, <1>4, <1>5, <1>6 DEF Types, Labels
<1>8. PastTypes' /\ Capacity' /\ Place'
  BY <1>2, <1>4, <1>6 DEF Capacity, Fits, Place
<1>9. Ordered'
  <2>1. Remaining' = Numbered(bytes)
    BY <1>2, <1>4, <1>5, RestFacts DEF Remaining
  <2>2. Track' = Track
    BY <1>2 DEF Track, Stream
  <2> QED
    BY <1>2, <1>4, <2>1, <2>2 DEF Ordered
<1> QED
  BY <1>7, <1>8, <1>9 DEF Base

\* The smaller and the larger of two numbers.
LEMMA MinMax ==
  ASSUME NEW a \in Int, NEW b \in Int
  PROVE  /\ Min({a, b}) = (IF a <= b THEN a ELSE b)
         /\ Max({a, b}) = (IF a >= b THEN a ELSE b)
<1>1. \E x \in {a, b} : \A y \in {a, b} : x <= y
  OBVIOUS
<1>2. Min({a, b}) \in {a, b} /\ \A y \in {a, b} : Min({a, b}) <= y
  BY <1>1 DEF Min
<1>3. \E x \in {a, b} : \A y \in {a, b} : x >= y
  OBVIOUS
<1>4. Max({a, b}) \in {a, b} /\ \A y \in {a, b} : Max({a, b}) >= y
  BY <1>3 DEF Max
<1> QED
  BY <1>2, <1>4

\* An event is filled up with unused bytes.
LEMMA PaddedFacts ==
  ASSUME NEW a \in Seq(Byte)
  PROVE  /\ Padded(a) \in Seq(Byte) /\ Len(Padded(a)) % 4 = 0
         /\ \E pads \in Seq(Byte) : /\ Padded(a) = a \o pads /\ Len(pads) \in 0..3 /\ NoData(pads)
                                    /\ \A k \in DOMAIN pads : pads[k] = Unused
<1> DEFINE n    == (-Len(a)) % 4
           pads == [i \in 1..n |-> Unused]
<1>1. Len(a) \in Nat
  BY LenProperties
<1>2. n \in 0..3 /\ (Len(a) + n) % 4 = 0
  BY <1>1
<1> HIDE DEF n
<1>3. n \in Nat
  BY <1>2
<1>4. pads \in Seq(Byte)
  <2>1. pads \in [1..n -> Byte]
    BY ByteFacts
  <2> QED
    BY <1>3, <2>1, SeqDef
<1>5. Len(pads) = n /\ DOMAIN pads = 1..n /\ \A k \in DOMAIN pads : pads[k] = Unused
  BY <1>3, <1>4, LenProperties
<1>6. Padded(a) = a \o pads
  BY DEF Padded, n
<1> HIDE DEF pads
<1>7. NoData(pads)
  BY <1>5 DEF NoData, IsData, Unused
<1>8. Padded(a) \in Seq(Byte) /\ Len(Padded(a)) = Len(a) + n
  BY <1>4, <1>5, <1>6, ConcatProperties
<1> QED
  BY <1>2, <1>4, <1>5, <1>6, <1>7, <1>8

\* How much WriteChunk takes from the message.
LEMMA ChunkFacts ==
  ASSUME Base, NEW n, n = Min({ChunkBytes, Len(msg)})
  PROVE  /\ n \in 0..Len(msg) /\ n <= ChunkBytes /\ ChunkBytes % 4 = 0 /\ ChunkBytes > 0
         /\ n # ChunkBytes => n = Len(msg)
<1>1. Len(msg) \in Nat /\ buffer_size \in Nat /\ buffer_size > 0
  BY LenProperties DEF Base, Types
<1>2. ChunkBytes \in Nat /\ ChunkBytes % 4 = 0 /\ ChunkBytes > 0
  BY <1>1 DEF ChunkBytes
<1>3. n = IF ChunkBytes <= Len(msg) THEN ChunkBytes ELSE Len(msg)
  BY <1>1, <1>2, MinMax
<1> QED
  BY <1>1, <1>2, <1>3

\* Pm_WriteSysEx gives the next part of its message to Pm_Write.
LEMMA WriteChunkBase == ASSUME Base, WriteChunk PROVE Base'
<1> DEFINE n == Min({ChunkBytes, Len(msg)})
           a == SubSeq(msg, 1, n)
           b == SubSeq(msg, n + 1, Len(msg))
<1>1. /\ pc = "chunk" /\ sysex_in_progress' = sysex_in_progress /\ driver' = driver
      /\ backend' = backend /\ is_removed' = is_removed /\ failures' = failures
      /\ UNCHANGED past
  BY DEF WriteChunk
<1>2. /\ rest = <<>> /\ bits = 0 /\ msg \in Seq(Byte) /\ Fits(driver) /\ failures \in Nat
      /\ sysex_in_progress \in BOOLEAN /\ BUFLEN \in Nat \ {0}
      /\ result \in Results /\ errors \in Nat
  BY <1>1, OutputAssumption DEF Base, Place, Types, PastTypes, Capacity
<1>3. Track \in Seq(Byte) /\ Remaining = msg
  BY <1>2, TrackFacts
<1>4. Fits(driver')
  BY <1>1, <1>2 DEF Fits
<1>5. CASE is_removed
  <2>1. Return("pmDeviceRemoved") /\ buffer_size' = buffer_size
    BY <1>5 DEF WriteChunk
  <2>2. pc' = "idle"
    BY <2>1 DEF Return
  <2>3. Track' = Track
    BY <1>1, <2>2 DEF Track, Stream
  <2>4. Keeps(Track \o Remaining, Track')
    BY <1>2, <1>3, <2>3, KeepsDrop
  <2> QED
    BY <1>1, <1>2, <1>4, <2>1, <2>4, ReturnBase DEF Results
<1>6. CASE ~is_removed
  <2>1. /\ pc' = "event" /\ rest' = Padded(a) /\ bits' = 0 /\ msg' = b
        /\ buffer_size' = BUFLEN /\ result' = result /\ errors' = errors
    BY <1>6 DEF WriteChunk
  <2>2. n \in 0..Len(msg)
    BY ChunkFacts
  <2> HIDE DEF n
  <2>3. a \in Seq(Byte) /\ b \in Seq(Byte) /\ a \o b = msg
    BY <1>2, <2>2, Cut
  <2> HIDE DEF a, b
  <2>4. Padded(a) \in Seq(Byte) /\ Len(Padded(a)) % 4 = 0
    BY <2>3, PaddedFacts
  <2>5. Place'
    BY <2>1 DEF Place
  <2>6. Keeps(Track \o Remaining, Track' \o Remaining')
    <3>1. PICK pads \in Seq(Byte) : Padded(a) = a \o pads /\ NoData(pads)
      BY <2>3, PaddedFacts
    <3>2. Remaining' = (a \o pads) \o b
      BY <2>1, <2>3, <2>4, <3>1, RestFacts DEF Remaining
    <3>3. Track' = Track
      BY <1>1, <2>1 DEF Track, Stream
    <3>4. Track \o a \in Seq(Byte) /\ a \o pads \in Seq(Byte)
      BY <1>3, <2>3, Cat
    <3>5. Keeps((Track \o a) \o b, ((Track \o a) \o pads) \o b)
      BY <2>3, <3>1, <3>4, KeepsInsert
    <3>6. (Track \o a) \o b = Track \o (a \o b)
      BY <1>3, <2>3, CatCat
    <3>7. ((Track \o a) \o pads) \o b = Track \o ((a \o pads) \o b)
      <4>1. (Track \o a) \o pads = Track \o (a \o pads)
        BY <1>3, <2>3, CatCat
      <4>2. (Track \o (a \o pads)) \o b = Track \o ((a \o pads) \o b)
        BY <1>3, <2>3, <3>4, CatCat
      <4> QED
        BY <4>1, <4>2
    <3> QED
      BY <1>3, <2>3, <3>2, <3>3, <3>5, <3>6, <3>7
  <2>7. rest' \in Seq(Byte) /\ Len(rest') % 4 = 0 /\ msg' \in Seq(Byte)
    BY <2>1, <2>3, <2>4
  <2>8. /\ bits' \in 0..3 /\ pc' \in Labels /\ result' \in Results /\ errors' \in Nat
        /\ buffer_size' \in Nat \ {0} /\ failures' \in Nat /\ sysex_in_progress' \in BOOLEAN
    BY <1>1, <1>2, <2>1 DEF Labels
  <2> QED
    BY <1>1, <1>4, <2>5, <2>6, <2>7, <2>8, StepBase
<1> QED
  BY <1>5, <1>6

\* How much Fill takes from it.
LEMMA FillFacts ==
  ASSUME Base, pc = "fill", NEW n, n = Max({0, Min({fill_length - Len(driver.part), Len(msg)})})
  PROVE  /\ n \in 0..Len(msg) /\ Len(driver.part) + n <= fill_length
         /\ Len(driver.part) \in Nat /\ Len(msg) \in Nat
<1>1. /\ Len(msg) \in Nat /\ fill_length \in Nat /\ driver \in Driver
      /\ Len(driver.part) <= fill_length
  BY OutputAssumption, LenProperties DEF Base, Types, Place, Capacity, Fits
<1>2. Len(driver.part) \in Nat
  BY <1>1, DriverFacts
<1> DEFINE room == fill_length - Len(driver.part)
           m    == Min({room, Len(msg)})
<1>3. room \in Nat
  BY <1>1, <1>2
<1>4. m = IF room <= Len(msg) THEN room ELSE Len(msg)
  BY <1>1, <1>3, MinMax
<1> HIDE DEF m
<1>7. room <= fill_length - Len(driver.part)
  BY <1>3
<1> HIDE DEF room
<1>5. m \in Nat /\ m <= room /\ m <= Len(msg)
  BY <1>1, <1>3, <1>4
<1>6. n = IF 0 >= m THEN 0 ELSE m
  <2>1. n = Max({0, m})
    BY DEF m, room
  <2>2. 0 \in Int /\ m \in Int
    BY <1>5
  <2>3. Max({0, m}) = IF 0 >= m THEN 0 ELSE m
    BY <2>2, MinMax
  <2> QED
    BY <2>1, <2>3
<1> QED
  BY <1>1, <1>2, <1>3, <1>5, <1>6, <1>7

\* Pm_WriteSysEx fills a buffer of WinMM.
LEMMA FillBase == ASSUME Base, Fill PROVE Base'
<1> DEFINE n == Max({0, Min({fill_length - Len(driver.part), Len(msg)})})
           a == SubSeq(msg, 1, n)
           b == SubSeq(msg, n + 1, Len(msg))
<1>1. /\ pc = "fill" /\ sysex_in_progress' = sysex_in_progress
      /\ driver' = [driver EXCEPT !.part = driver.part \o a] /\ msg' = b
      /\ \/ n = Len(msg) /\ pc' = "filled" /\ buffer_size' = buffer_size
         \/ pc' = "chunk" /\ buffer_size' = 1
      /\ UNCHANGED <<rest, bits, result, errors, backend, is_removed, failures, past>>
  BY DEF Fill, AfterFill
<1>2. /\ rest = <<>> /\ bits = 0 /\ msg \in Seq(Byte) /\ failures \in Nat /\ Len(rest) % 4 = 0
      /\ sysex_in_progress /\ backend = "winmm" /\ buffer_size \in Nat \ {0} /\ rest \in Seq(Byte)
      /\ result \in Results /\ errors \in Nat /\ bits \in 0..3
  BY <1>1 DEF Base, Place, Types, PastTypes
<1>3. /\ n \in 0..Len(msg) /\ Len(driver.part) + n <= fill_length
      /\ Len(driver.part) \in Nat /\ Len(msg) \in Nat
  BY <1>1, FillFacts
<1> HIDE DEF n
<1>4. /\ a \in Seq(Byte) /\ b \in Seq(Byte) /\ Len(a) = n /\ Len(b) = Len(msg) - n
  BY <1>2, <1>3, Cut
<1> HIDE DEF a, b
<1>5. driver \in Driver /\ Fits(driver) /\ driver.list = <<>>
  BY <1>2 DEF Base, Capacity, Fits
<1>6. driver.part \o a \in Seq(Byte) /\ Len(driver.part \o a) = Len(driver.part) + n
  <2>1. driver.part \in Seq(Byte)
    BY <1>5, DriverFacts
  <2>2. driver.part \o a \in Seq(Byte)
    BY <1>4, <2>1, Cat
  <2>3. Len(driver.part \o a) = Len(driver.part) + Len(a)
    BY <1>4, <2>1, ConcatProperties
  <2> QED
    BY <1>4, <2>2, <2>3
<1>7. /\ driver' \in Driver /\ driver'.part = driver.part \o a /\ driver'.list = <<>>
      /\ driver'.fill_base = driver.fill_base
  BY <1>1, <1>5, <1>6 DEF Driver
<1>8. Fits(driver')
  <2>1. Len(driver'.part) <= fill_length /\ (Len(driver.part) > 0 => Len(driver'.part) > 0)
    BY <1>3, <1>6, <1>7
  <2> QED
    BY <1>1, <1>2, <1>5, <1>7, <2>1 DEF Fits
<1>9. pc' = "filled" => msg' = <<>>
  <2>1. ASSUME n = Len(msg) PROVE b = <<>>
    <3>1. Len(b) = 0
      BY <1>3, <1>4, <2>1
    <3> QED
      BY <1>4, <3>1, EmptySeq
  <2> QED
    BY <1>1, <2>1
<1>10. Place'
  BY <1>1, <1>2, <1>9 DEF Place
<1>11. /\ rest' \in Seq(Byte) /\ Len(rest') % 4 = 0 /\ bits' \in 0..3 /\ pc' \in Labels
       /\ msg' \in Seq(Byte) /\ result' \in Results /\ errors' \in Nat /\ failures' \in Nat
       /\ buffer_size' \in Nat \ {0} /\ sysex_in_progress' \in BOOLEAN
  BY <1>1, <1>2, <1>4 DEF Labels
<1> QED
  BY <1>1, <1>2, <1>8, <1>10, <1>11, StepBase

\* It ends a message in such a buffer.
LEMMA FilledToEndBase == ASSUME Base, FilledToEnd PROVE Base'
<1>1. pc = "filled" /\ sysex_in_progress' = FALSE /\ backend = "winmm"
  BY DEF FilledToEnd, Base, Place
<1>2. PICK o \in end_sysex :
         /\ driver' = o.driver /\ UNCHANGED <<buffer_size, backend, is_removed, past>>
         /\ o.ok => Return("pmNoError") /\ UNCHANGED failures
         /\ ~o.ok => Return("pmHostError") /\ failures' = failures + 1
  BY DEF FilledToEnd, Call
<1>3. Back /\ Capacity
  BY DEF Base, Types, Back
<1>4. Fits(o.driver) /\ o.driver.part = <<>>
  BY <1>1, <1>2, <1>3, EndFacts
<1>5. ~o.driver.fill_base
  <2>1. Len(<<>>) = 0
    BY SmallSeqs
  <2> QED
    BY <1>4, <2>1 DEF Fits
<1>6. /\ Fits(driver') /\ failures' \in Nat
      /\ UNCHANGED <<backend, is_removed, past, buffer_size>>
  BY <1>2, <1>4, CallFacts
<1>7. CASE o.ok
  BY <1>1, <1>2, <1>5, <1>6, <1>7, ReturnBase DEF Results
<1>8. CASE ~o.ok
  BY <1>1, <1>2, <1>5, <1>6, <1>8, ReturnBase DEF Results
<1> QED
  BY <1>7, <1>8

\* The device is gone; nothing else changes.
LEMMA DeviceRemovedBase == ASSUME Base, DeviceRemoved PROVE Base'
<1>1. /\ is_removed' \in BOOLEAN /\ failures' = failures + 1
      /\ UNCHANGED <<api, driver, backend, past, errors>>
  BY DEF DeviceRemoved
<1>2. Types' /\ PastTypes'
  BY <1>1 DEF Base, Types, PastTypes, api, past
<1>3. Capacity' /\ Place'
  BY <1>1 DEF Base, Capacity, Fits, Place, api
<1>4. Ordered'
  <2>1. Track' = Track /\ Remaining' = Remaining /\ data' = data /\ backend' = backend
    BY <1>1 DEF Track, Stream, Remaining, api, past
  <2> QED
    BY <2>1 DEF Base, Ordered
<1> QED
  BY <1>2, <1>3, <1>4 DEF Base

-----------------------------------------------------------------------------
(* What holds in every state.                                              *)

\* In the first state nothing has been written.
LEMMA InitBase == ASSUME Init PROVE Base
<1>1. <<>> \in Seq(Byte) /\ Len(<<>>) = 0 /\ backend \in Backends
  BY SmallSeqs DEF Init
<1>2. backend \in {"mac", "alsa", "winmm", "haiku", "synth", "sndio"}
  BY <1>1, OutputAssumption
<1>3. Types
  <2>1. rest \in Seq(Byte) /\ Len(rest) % 4 = 0 /\ msg \in Seq(Byte)
    BY <1>1 DEF Init
  <2>2. pc \in Labels /\ bits \in 0..3
    BY DEF Init, Labels
  <2>4. sysex_in_progress = FALSE /\ is_removed = FALSE
    BY DEF Init
  <2>3. buffer_size \in Nat \ {0} /\ result \in Results
    BY DEF Init, Results
  <2> QED
    BY <1>2, <2>1, <2>2, <2>3, <2>4 DEF Types
<1>4. PastTypes
  <2>1. intended \in Seq(Byte) /\ embedded \in BOOLEAN /\ Len(intended) = 0
    BY <1>1 DEF Init
  <2>2. calls \in Nat /\ data \in Nat /\ errors \in Nat /\ failures \in Nat
    BY DEF Init
  <2>3. before \in [sent : Nat, sysex : BOOLEAN] /\ before.sent = 0
    BY DEF Init
  <2> QED
    BY <2>1, <2>2, <2>3 DEF PastTypes
<1>5. driver.part = <<>> /\ driver.list = <<>> /\ driver.wire = <<>> /\ driver.fill_base = FALSE
  BY DEF Init
<1>6. Capacity
  <2>1. driver \in Driver
    BY <1>1 DEF Init, Driver
  <2>2. SysexBuffer \in Nat \ {0} /\ PacketBuffer \in Nat /\ fill_length \in Nat
    BY OutputAssumption
  <2> QED
    BY <1>1, <1>5, <2>1, <2>2 DEF Capacity, Fits
<1>7. Place
  BY DEF Init, Place
<1>8. Ordered
  <2>1. Remaining = <<>>
    BY <1>1, RestFacts DEF Remaining, Init
  <2>2. driver \in Driver
    BY <1>6 DEF Capacity, Fits
  <2>3. Track = <<>>
    <3>1. Out(driver) = <<>>
      BY <1>5, <2>2, LineFacts
    <3>2. Line(driver) = <<>>
      BY <1>5, <2>2, <3>1, LineFacts
    <3> QED
      BY <3>1, <3>2 DEF Track, Stream
  <2>4. Track \o Remaining = <<>>
    BY <1>1, <2>1, <2>3, Cat
  <2>5. Sorted(<<>>, 255 + data)
    BY EmptyIsNoData, NoDataFacts
  <2> QED
    BY <2>4, <2>5 DEF Ordered
<1> QED
  BY <1>3, <1>4, <1>6, <1>7, <1>8 DEF Base

\* Every step keeps it.
LEMMA NextBase == ASSUME Base, [Next]_vars PROVE Base'
<1>1. CASE UNCHANGED vars
  <2>1. /\ UNCHANGED <<sysex_in_progress, pc, rest, bits, msg, buffer_size, result>>
        /\ UNCHANGED <<driver, backend, is_removed, failures, errors>>
        /\ UNCHANGED <<calls, data, intended, before, embedded>>
    BY <1>1 DEF vars, api, past
  <2>2. Types' /\ PastTypes'
    BY <2>1 DEF Base, Types, PastTypes
  <2>3. Capacity' /\ Place'
    BY <2>1 DEF Base, Capacity, Fits, Place
  <2>4. Ordered'
    BY <2>1 DEF Base, Ordered, Track, Stream, Remaining
  <2> QED
    BY <2>2, <2>3, <2>4 DEF Base
<1>2. CASE Pm_Write
  BY <1>2, Pm_WriteBase
<1>3. CASE Pm_WriteSysEx
  BY <1>3, Pm_WriteSysExBase
<1>4. CASE Pm_Write_step
  BY <1>4, NestedSysexBase, SysexStartBase, FirstByteBase, RealTimeInSysexBase, SysexCutBase,
     ShortEventBase, StrayDataBase, FastCopyBase, SlowCopyBase, WriteByteBase,
     pm_end_sysexBase, WriteFlushBase DEF Pm_Write_step
<1>5. CASE WriteChunk \/ Fill \/ FilledToEnd
  BY <1>5, WriteChunkBase, FillBase, FilledToEndBase
<1>6. CASE DeviceRemoved
  BY <1>6, DeviceRemovedBase
<1> QED
  BY <1>1, <1>2, <1>3, <1>4, <1>5, <1>6 DEF Next, InCall

\* In every state.
LEMMA BaseHolds == Spec => []Base
<1>1. Init => Base
  BY InitBase
<1>2. Base /\ [Next]_vars => Base'
  BY NextBase
<1> QED
  BY <1>1, <1>2, PTL DEF Spec

\* Types, and no buffer ever holds more than its capacity: those of WinMM keep room for the
\* byte that winmm_end_sysex adds.
THEOREM TypeCorrect == Spec => []TypeOK
<1>1. Base => TypeOK
  BY OutputAssumption, DriverFacts DEF Base, Types, Labels, Results, Capacity, Fits, TypeOK
<1> QED
  BY <1>1, BaseHolds, PTL

\* Whatever fails and whatever the application does after that: data is sent in the order in
\* which it was written and at most once, by every backend but that of WinMM.
THEOREM OrderKept == Spec => []OrderIsKeptElsewhere
<1>1. ASSUME Base PROVE OrderIsKeptElsewhere
  <2>1. SUFFICES ASSUME backend # "winmm" PROVE Increasing(driver.wire)
    BY DEF OrderIsKeptElsewhere, OrderIsKept
  <2>2. /\ driver \in Driver /\ Line(driver) \in Seq(Byte) /\ Out(driver) \in Seq(Byte)
        /\ Track \in Seq(Byte) /\ Remaining \in Seq(Byte)
    BY <1>1, TrackFacts
  <2>3. 255 + data \in Nat /\ Sorted(Track \o Remaining, 255 + data)
    BY <1>1, <2>1 DEF Base, PastTypes, Ordered
  <2>4. Sorted(Track, 255 + data)
    BY <2>2, <2>3, SortedCat
  <2>5. /\ driver.part \in Seq(Byte) /\ driver.list \in Seq(Byte) /\ driver.wire \in Seq(Byte)
    BY <2>2, DriverFacts
  <2>6. Sorted(Out(driver), 255 + data)
    <3>1. CASE Track = Out(driver)
      BY <2>4, <3>1
    <3>2. CASE Track = Line(driver)
      BY <2>2, <2>3, <2>4, <2>5, <3>2, SortedCat DEF Line
    <3> QED
      BY <3>1, <3>2 DEF Track, Stream
  <2>7. Sorted(driver.wire, 255 + data)
    BY <2>3, <2>5, <2>6, SortedCat DEF Out
  <2> QED
    BY <2>7 DEF Sorted
<1> QED
  BY <1>1, BaseHolds, PTL
-----------------------------------------------------------------------------
(* What the events of an application are, and what is sent of them.        *)

\* An event, byte by byte.
LEMMA WellFormedFacts ==
  ASSUME NEW a, NEW b, NEW c, NEW d, WellFormed(a, b, c, d)
  PROVE  /\ a \in {Note, Clock, Sysex, Eox} \union Data
         /\ IsStatus(a) <=> a \notin Data
         /\ IsRealTime(a) <=> a = Clock
         /\ a \notin {Note, Clock} =>
              /\ {b, c, d} \subseteq {Eox, Unused} \union Data
              /\ b = Unused <=> a = Eox
              /\ c = Unused <=> b \in {Eox, Unused}
              /\ d = Unused <=> c \in {Eox, Unused}
         /\ a = Note => b \in Data /\ c \in Data /\ d = Unused
         /\ a = Clock => b = Unused /\ c = Unused /\ d = Unused
<1> USE DEF Note, Clock, Sysex, Eox, Unused, Data
<1>1. a \in {Note, Clock, Sysex, Eox} \union Data
  BY DEF WellFormed
<1>2. IsStatus(a) <=> a \notin Data
  BY <1>1 DEF IsStatus
<1>3. IsRealTime(a) <=> a = Clock
  BY <1>1 DEF IsRealTime
<1>4. a = Note => b \in Data /\ c \in Data /\ d = Unused
  BY DEF WellFormed
<1>5. a = Clock => b = Unused /\ c = Unused /\ d = Unused
  BY DEF WellFormed
<1>6. a \notin {Note, Clock} =>
        /\ {b, c, d} \subseteq {Eox, Unused} \union Data
        /\ b = Unused <=> a = Eox
        /\ c = Unused <=> b \in {Eox, Unused}
        /\ d = Unused <=> c \in {Eox, Unused}
  BY DEF WellFormed
<1> QED
  BY <1>1, <1>2, <1>3, <1>4, <1>5, <1>6

\* The first of several events, and the others.
LEMMA EventsFacts ==
  ASSUME NEW r \in Seq(Byte), Len(r) > 0, Len(r) % 4 = 0, EventsIn(r)
  PROVE  WellFormed(r[1], r[2], r[3], r[4]) /\ EventsIn(SubSeq(r, 5, Len(r)))
<1>0. Len(r) \in Nat /\ Len(r) >= 4 /\ DOMAIN r = 1..Len(r)
  BY EventFacts, LenProperties
<1>1. WellFormed(r[1], r[2], r[3], r[4])
  <2>1. 1 \in DOMAIN r /\ 1 % 4 = 1 /\ 1 + 1 = 2 /\ 1 + 2 = 3 /\ 1 + 3 = 4
    BY <1>0
  <2>2. WellFormed(r[1], r[1 + 1], r[1 + 2], r[1 + 3])
    BY <2>1 DEF EventsIn
  <2> QED
    BY <2>1, <2>2, Zenon
<1> DEFINE s == SubSeq(r, 5, Len(r))
<1>2. EventsIn(s)
  <2>1. s \in Seq(Byte) /\ Len(s) = Len(r) - 4 /\ \A i \in 1..Len(r) - 4 : s[i] = r[4 + i]
    BY EventFacts
  <2>2. DOMAIN s = 1..(Len(r) - 4)
    BY <2>1, LenProperties
  <2> HIDE DEF s
  <2>3. SUFFICES ASSUME NEW k \in DOMAIN s, k % 4 = 1
                 PROVE  WellFormed(s[k], s[k + 1], s[k + 2], s[k + 3])
    BY DEF EventsIn
  <2>4. k \in Nat /\ k >= 1 /\ k + 3 <= Len(r) - 4
    BY <1>0, <2>2, <2>3
  <2>5. 4 + k \in DOMAIN r /\ (4 + k) % 4 = 1
    BY <1>0, <2>3, <2>4
  <2>6. WellFormed(r[4 + k], r[(4 + k) + 1], r[(4 + k) + 2], r[(4 + k) + 3])
    BY <2>5 DEF EventsIn
  <2>7. /\ s[k] = r[4 + k] /\ s[k + 1] = r[(4 + k) + 1] /\ s[k + 2] = r[(4 + k) + 2]
        /\ s[k + 3] = r[(4 + k) + 3]
    <3>1. /\ k \in 1..Len(r) - 4 /\ k + 1 \in 1..Len(r) - 4 /\ k + 2 \in 1..Len(r) - 4
          /\ k + 3 \in 1..Len(r) - 4
      BY <1>0, <2>4
    <3>2. /\ s[k] = r[4 + k] /\ s[k + 1] = r[4 + (k + 1)] /\ s[k + 2] = r[4 + (k + 2)]
          /\ s[k + 3] = r[4 + (k + 3)]
      BY <2>1, <3>1
    <3>3. 4 + (k + 1) = (4 + k) + 1 /\ 4 + (k + 2) = (4 + k) + 2 /\ 4 + (k + 3) = (4 + k) + 3
      BY <2>4
    <3> QED
      BY <3>2, <3>3, Zenon
  <2> QED
    BY <2>6, <2>7, Zenon
<1> QED
  BY <1>1, <1>2

\* Which bytes are sent.
LEMMA PassFacts ==
  /\ \A to : \A byte \in Byte : byte \notin {Unused, Clock} => Passes(byte, to)
  /\ \A to : to # "synth" => Passes(Clock, to)
  /\ \A to : ~Passes(Unused, to)
  /\ ~Passes(Clock, "synth")
BY DEF Passes, Byte, Data, IsRealTime, Unused, Clock, Note, Sysex, Eox

\* One byte, and the empty sequence.
LEMMA SentByte ==
  /\ \A to : \A byte \in Byte : byte \notin {Unused, Clock} => SentTo(to, <<byte>>) = <<byte>>
  /\ \A to : SentTo(to, <<>>) = <<>>
<1>1. ASSUME NEW to, NEW byte \in Byte, byte \notin {Unused, Clock}
      PROVE  SentTo(to, <<byte>>) = <<byte>>
  <2>1. <<byte>> \in Seq(Byte) /\ <<byte>>[1] = byte /\ DOMAIN <<byte>> = {1}
    BY SmallSeqs
  <2>2. Passes(byte, to)
    BY <1>1, PassFacts
  <2>3. \A k \in DOMAIN <<byte>> : Passes(<<byte>>[k], to)
    BY <2>1, <2>2
  <2> HIDE <1>1
  <2> QED
    BY <2>1, <2>3, SentFacts
<1>2. ASSUME NEW to PROVE SentTo(to, <<>>) = <<>>
  <2>1. <<>> \in Seq(Byte) /\ \A k \in DOMAIN <<>> : ~Passes(<<>>[k], to)
    BY SmallSeqs
  <2> QED
    BY <2>1, SentFacts
<1> QED
  BY <1>1, <1>2

\* A short message; the synthesizer gets no real-time message.
LEMMA SentShort ==
  ASSUME NEW to, NEW e \in Seq(Byte), Len(e) = 4, WellFormed(e[1], e[2], e[3], e[4]), IsShort(e)
  PROVE  /\ e[1] \in {Note, Clock}
         /\ SentTo(to, e) = IF to = "synth" /\ e[1] >= 240 THEN <<>> ELSE Short(e)
<1>1. /\ e[1] \in {Note, Clock}
      /\ e[1] = Note => e[2] \in Data /\ e[3] \in Data /\ e[4] = Unused
      /\ e[1] = Clock => e[2] = Unused /\ e[3] = Unused /\ e[4] = Unused
  BY WellFormedFacts DEF IsShort
<1> DEFINE n == pm_midi_length(e[1])
           u == SubSeq(e, 1, n)
           v == SubSeq(e, n + 1, Len(e))
<1>2. (e[1] = Note /\ n = 3) \/ (e[1] = Clock /\ n = 1)
  BY <1>1 DEF pm_midi_length, Note, Clock
<1>3. n \in 0..Len(e) /\ Len(e) - n \in Nat
  BY <1>2
<1> HIDE DEF n
<1>4. /\ u \in Seq(Byte) /\ v \in Seq(Byte) /\ Len(u) = n /\ Len(v) = Len(e) - n
      /\ \A i \in 1..n : u[i] = e[i]
      /\ \A i \in 1..Len(e) - n : v[i] = e[n + i]
      /\ u \o v = e
  BY <1>3, Cut
<1>5. Short(e) = u
  BY DEF Short, n
<1> HIDE DEF u, v
<1>6. DOMAIN u = 1..n /\ DOMAIN v = 1..Len(e) - n
  BY <1>4, LenProperties
<1>7. SentTo(to, e) = SentTo(to, u) \o SentTo(to, v)
  BY <1>4, SentCat
<1>8. SentTo(to, v) = <<>>
  <2>1. ASSUME NEW k \in DOMAIN v PROVE v[k] = Unused
    <3>1. k \in 1..Len(e) - n /\ v[k] = e[n + k]
      BY <1>4, <1>6, <2>1
    <3>2. (e[1] = Note /\ n + k = 4) \/ (e[1] = Clock /\ n + k \in {2, 3, 4})
      BY <1>2, <3>1
    <3> QED
      BY <1>1, <3>1, <3>2 DEF Note, Clock
  <2>2. \A k \in DOMAIN v : ~Passes(v[k], to)
    BY <2>1, PassFacts
  <2> QED
    BY <1>4, <2>2, SentFacts
<1>9. SentTo(to, e) = SentTo(to, u)
  BY <1>4, <1>7, <1>8, SentFacts, Cat
<1>10. CASE to = "synth" /\ e[1] >= 240
  <2>1. e[1] = Clock /\ n = 1
    BY <1>2, <1>10 DEF Note
  <2>2. \A k \in DOMAIN u : u[k] = Clock
    BY <1>4, <1>6, <2>1
  <2>3. \A k \in DOMAIN u : ~Passes(u[k], to)
    BY <1>10, <2>2, PassFacts
  <2> QED
    BY <1>1, <1>4, <1>9, <1>10, <2>3, SentFacts
<1>11. CASE ~(to = "synth" /\ e[1] >= 240)
  <2>1. ASSUME NEW k \in DOMAIN u PROVE Passes(u[k], to)
    <3>1. k \in 1..n /\ u[k] = e[k] /\ u[k] \in Byte
      BY <1>4, <1>6, <2>1, ElementOfSeq
    <3>2. CASE e[1] = Note
      <4>1. k \in {1, 2, 3}
        BY <1>2, <3>1, <3>2 DEF Note, Clock
      <4>2. e[k] \in {Note} \union Data
        BY <1>1, <3>2, <4>1
      <4>3. e[k] \notin {Unused, Clock}
        BY <4>2 DEF Note, Data, Unused, Clock
      <4> QED
        BY <3>1, <4>3, PassFacts
    <3>3. CASE e[1] = Clock
      <4>1. k = 1 /\ u[k] = Clock
        BY <1>2, <3>1, <3>3 DEF Note, Clock
      <4>2. to # "synth"
        BY <1>11, <3>3 DEF Clock
      <4> QED
        BY <4>1, <4>2, PassFacts
    <3> QED
      BY <1>1, <3>2, <3>3
  <2> QED
    BY <1>1, <1>4, <1>5, <1>9, <1>11, <2>1, SentFacts
<1> QED
  BY <1>10, <1>11

\* What an event leaves after its EOX is not sent.
LEMMA SentAfterEox ==
  ASSUME NEW to, NEW r \in Seq(Byte), NEW m \in Seq(Byte), Len(r) >= 4, NEW k \in 0..3,
         WellFormed(r[1], r[2], r[3], r[4]), r[1] \notin {Note, Clock}, r[k + 1] = Eox
  PROVE  SentTo(to, RestOf(r, k + 1, m)) = SentTo(to, RestOf(r, 4, m))
<1>1. ASSUME NEW j \in 0..3, r[j + 1] = Unused
      PROVE  SentTo(to, RestOf(r, j, m)) = SentTo(to, RestOf(r, j + 1, m))
  <2>1. /\ r[j + 1] \in Byte /\ RestOf(r, j, m) = <<r[j + 1]>> \o RestOf(r, j + 1, m)
        /\ RestOf(r, j + 1, m) \in Seq(Byte)
    BY ByteStep
  <2>2. <<r[j + 1]>> \in Seq(Byte) /\ <<r[j + 1]>>[1] = Unused /\ DOMAIN <<r[j + 1]>> = {1}
    BY <1>1, <2>1, SmallSeqs
  <2>3. SentTo(to, <<r[j + 1]>>) = <<>>
    <3>1. ~Passes(Unused, to)
      BY PassFacts
    <3>2. \A k1 \in DOMAIN <<r[j + 1]>> : ~Passes(<<r[j + 1]>>[k1], to)
      BY <2>2, <3>1
    <3> HIDE <1>1
    <3> QED
      BY <2>2, <3>2, SentFacts
  <2>4. SentTo(to, RestOf(r, j, m)) = <<>> \o SentTo(to, RestOf(r, j + 1, m))
    <3> DEFINE a == <<r[j + 1]>>
               q == RestOf(r, j + 1, m)
    <3>1. a \in Seq(Byte) /\ q \in Seq(Byte)
      BY <2>1, <2>2
    <3>2. SentTo(to, a) = <<>> /\ RestOf(r, j, m) = a \o q
      BY <2>1, <2>3
    <3> HIDE DEF a, q
    <3>3. SentTo(to, a \o q) = SentTo(to, a) \o SentTo(to, q)
      BY <3>1, SentCat
    <3>4. SentTo(to, RestOf(r, j, m)) = <<>> \o SentTo(to, q)
      BY <3>2, <3>3
    <3> QED
      BY <3>4 DEF q
  <2>5. SentTo(to, RestOf(r, j + 1, m)) \in Seq(Byte)
    BY <2>1, SentFacts
  <2> QED
    BY <2>4, <2>5, Cat
<1>2. /\ r[1] = Eox => r[2] = Unused /\ r[3] = Unused /\ r[4] = Unused
      /\ r[2] = Eox => r[3] = Unused /\ r[4] = Unused
      /\ r[3] = Eox => r[4] = Unused
  BY WellFormedFacts
<1>3. /\ r[2] = Unused => SentTo(to, RestOf(r, 1, m)) = SentTo(to, RestOf(r, 2, m))
      /\ r[3] = Unused => SentTo(to, RestOf(r, 2, m)) = SentTo(to, RestOf(r, 3, m))
      /\ r[4] = Unused => SentTo(to, RestOf(r, 3, m)) = SentTo(to, RestOf(r, 4, m))
  <2>1. 1 \in 0..3 /\ 2 \in 0..3 /\ 3 \in 0..3 /\ 1 + 1 = 2 /\ 2 + 1 = 3 /\ 3 + 1 = 4
    OBVIOUS
  <2>2. /\ r[1 + 1] = Unused => SentTo(to, RestOf(r, 1, m)) = SentTo(to, RestOf(r, 1 + 1, m))
        /\ r[2 + 1] = Unused => SentTo(to, RestOf(r, 2, m)) = SentTo(to, RestOf(r, 2 + 1, m))
        /\ r[3 + 1] = Unused => SentTo(to, RestOf(r, 3, m)) = SentTo(to, RestOf(r, 3 + 1, m))
    BY <1>1, <2>1, Zenon
  <2> QED
    BY <2>1, <2>2, Zenon
<1>4. k \in {0, 1, 2, 3} /\ 0 + 1 = 1 /\ 1 + 1 = 2 /\ 2 + 1 = 3 /\ 3 + 1 = 4
  OBVIOUS
<1>5. CASE k = 0
  BY <1>2, <1>3, <1>4, <1>5
<1>6. CASE k = 1
  BY <1>2, <1>3, <1>4, <1>6
<1>7. CASE k = 2
  BY <1>2, <1>3, <1>4, <1>7
<1>8. CASE k = 3
  BY <1>4, <1>8
<1> QED
  BY <1>4, <1>5, <1>6, <1>7, <1>8

\* A message for Pm_WriteSysEx is sent as it is; unused bytes behind it are not.
LEMMA SentMessage ==
  ASSUME NEW to, NEW m \in Seq(Byte), IsMessage(m), NEW n \in 0..Len(m)
  PROVE  SentTo(to, SubSeq(m, 1, n)) = SubSeq(m, 1, n)
<1> DEFINE u == SubSeq(m, 1, n)
<1>1. u \in Seq(Byte) /\ Len(u) = n /\ \A i \in 1..n : u[i] = m[i]
  BY Cut
<1>2. DOMAIN u = 1..n /\ DOMAIN m = 1..Len(m) /\ Len(m) \in Nat
  BY <1>1, LenProperties
<1> HIDE DEF u
<1>3. ASSUME NEW k \in DOMAIN u PROVE Passes(u[k], to)
  <2>1. k \in DOMAIN m /\ u[k] = m[k]
    BY <1>1, <1>2
  <2>2. u[k] \in {Eox, Sysex} \union Data
    BY <2>1 DEF IsMessage
  <2>3. u[k] \in Byte /\ u[k] \notin {Unused, Clock}
    BY <2>2 DEF Byte, Data, Unused, Clock, Eox, Sysex
  <2> QED
    BY <2>3, PassFacts
<1>4. SentTo(to, u) = u
  BY <1>1, <1>3, SentFacts
<1> QED
  BY <1>4 DEF u
-----------------------------------------------------------------------------
(* What a call still has to handle.                                        *)

Reading == Base /\ Content /\ NotEmbedded

\* Nothing to handle.
LEMMA EmptyContent == EventsIn(<<>>) /\ IsMessage(<<>>) /\ \A byte : Lacks(<<>>, byte)
BY SmallSeqs DEF EventsIn, IsMessage, Lacks

\* The event that is about to be handled.
LEMMA EventIsWellFormed ==
  ASSUME Reading, pc \in {"event", "first", "bytes"}, rest # <<>>
  PROVE  /\ WellFormed(rest[1], rest[2], rest[3], rest[4]) /\ Event[1] = rest[1]
         /\ WellFormed(Event[1], Event[2], Event[3], Event[4])
         /\ EventsIn(OtherEvents)
         /\ \A byte : Lacks(rest, byte) => rest[1] # byte /\ Lacks(OtherEvents, byte)
         /\ (~embedded /\ sysex_in_progress) => rest[1] # Clock
         /\ (~embedded /\ rest[1] = Clock) =>
              ~sysex_in_progress /\ Lacks(OtherEvents, Sysex) /\ msg = <<>>
<1>0. Base /\ EventsIn(rest) /\ NotEmbedded
  BY DEF Reading, Content
<1>1. /\ rest \in Seq(Byte) /\ Len(rest) >= 4 /\ Len(rest) % 4 = 0
      /\ \A i \in 1..4 : Event[i] = rest[i]
  BY <1>0, AtEventFacts
<1>2. Len(rest) \in Nat /\ DOMAIN rest = 1..Len(rest) /\ 1 \in DOMAIN rest /\ Len(rest) > 0
  BY <1>1, LenProperties
<1>3. WellFormed(rest[1], rest[2], rest[3], rest[4]) /\ EventsIn(OtherEvents)
  BY <1>0, <1>1, <1>2, EventsFacts DEF OtherEvents
<1>4. Event[1] = rest[1] /\ Event[2] = rest[2] /\ Event[3] = rest[3] /\ Event[4] = rest[4]
  BY <1>1
<1>5. ASSUME NEW byte, Lacks(rest, byte) PROVE rest[1] # byte /\ Lacks(OtherEvents, byte)
  <2>1. rest[1] # byte
    BY <1>2, <1>5 DEF Lacks
  <2>2. /\ OtherEvents \in Seq(Byte) /\ Len(OtherEvents) = Len(rest) - 4
        /\ \A i \in 1..Len(rest) - 4 : OtherEvents[i] = rest[4 + i]
    BY <1>1, <1>2, EventFacts DEF OtherEvents
  <2>3. ASSUME NEW k \in DOMAIN OtherEvents PROVE OtherEvents[k] # byte
    <3>1. k \in 1..Len(rest) - 4
      BY <2>2, <2>3, LenProperties
    <3>2. 4 + k \in DOMAIN rest
      BY <1>2, <3>1
    <3> QED
      BY <1>5, <2>2, <3>1, <3>2 DEF Lacks
  <2> QED
    BY <2>1, <2>3 DEF Lacks
<1>6. (~embedded /\ sysex_in_progress) => rest[1] # Clock
  BY <1>0, <1>5 DEF NotEmbedded
<1>7. (~embedded /\ rest[1] = Clock) =>
        ~sysex_in_progress /\ Lacks(OtherEvents, Sysex) /\ msg = <<>>
  BY <1>0, <1>5 DEF NotEmbedded
<1> QED
  BY <1>3, <1>4, <1>5, <1>6, <1>7

\* The call goes on at another place.
LEMMA GotoReading ==
  ASSUME Reading, Base', pc \in {"event", "first", "bytes", "end"},
         UNCHANGED <<backend, past>>,
         NEW label, NEW events \in {rest, OtherEvents}, NEW byte,
         Goto(label, events, byte),
         events # rest => pc # "end" /\ rest # <<>>,
         sysex_in_progress' => sysex_in_progress \/ (pc # "end" /\ rest # <<>> /\ rest[1] = Sysex),
         label \in {"first", "bytes"} => events = rest,
         label = "first" => rest[1] = Sysex,
         label = "bytes" => /\ rest[1] # Note /\ (byte = 0 => rest[1] # Sysex)
                            /\ \A k \in 1..byte : rest[k] \notin {Eox, Unused} \/ rest[1] = Clock,
         (label = "end" /\ backend = "alsa") => driver'.part = <<>>
  PROVE  Reading'
<1>0. /\ EventsIn(rest) /\ IsMessage(msg) /\ NotEmbedded /\ embedded' = embedded
      /\ pc' = label /\ rest' = events /\ bits' = byte /\ msg' = msg /\ backend' = backend
  BY DEF Reading, Content, Goto, past
<1>1. (pc # "end" /\ rest # <<>>) =>
        /\ EventsIn(OtherEvents)
        /\ \A x : Lacks(rest, x) => rest[1] # x /\ Lacks(OtherEvents, x)
  BY EventIsWellFormed
<1>2. Content'
  <2>1. EventsIn(rest') /\ IsMessage(msg')
    BY <1>0, <1>1
  <2> QED
    BY <1>0, <2>1 DEF Content
<1>3. NotEmbedded'
  <2>1. \A x : Lacks(rest, x) => Lacks(rest', x)
    BY <1>0, <1>1
  <2>2. ASSUME ~embedded', ~Lacks(rest', Clock)
        PROVE  ~sysex_in_progress' /\ Lacks(rest', Sysex) /\ msg' = <<>>
    <3>1. ~sysex_in_progress /\ Lacks(rest, Sysex) /\ msg = <<>>
      BY <1>0, <2>1, <2>2 DEF NotEmbedded
    <3> QED
      BY <1>0, <1>1, <2>1, <3>1
  <2> QED
    BY <2>2 DEF NotEmbedded
<1> QED
  BY <1>2, <1>3 DEF Reading

\* Pm_Write returns.
LEMMA ReturnReading ==
  ASSUME Reading, Base', NEW error, Return(error)
  PROVE  Reading'
<1>1. /\ IsMessage(msg) /\ rest' = <<>> /\ msg' \in {msg, <<>>}
      /\ pc' \in {"idle", "chunk", "fill"}
  BY DEF Reading, Content, Return
<1>2. Content'
  BY <1>1, EmptyContent DEF Content
<1>3. NotEmbedded'
  BY <1>1, EmptyContent DEF NotEmbedded
<1> QED
  BY <1>2, <1>3 DEF Reading

\* Steps of Pm_Write that return, whatever the backend answers.
LEMMA ReturnsReading ==
  ASSUME Reading, Base', NestedSysex \/ StrayData \/ SysexCut \/ WriteFlush \/ FilledToEnd
  PROVE  Reading'
<1>1. \E error : Return(error)
  BY DEF NestedSysex, StrayData, SysexCut, WriteFlush, FilledToEnd, Call
<1> QED
  BY <1>1, ReturnReading

\* A sysex message begins, with its status byte.
LEMMA StartReading == ASSUME Reading, Base', SysexStart \/ FirstByte PROVE Reading'
<1>1. rest # <<>> /\ rest[1] = Sysex /\ UNCHANGED <<backend, past>>
  <2>1. CASE SysexStart
    <3>1. AtEvent /\ Event[1] = Sysex /\ UNCHANGED <<backend, past>>
      BY <2>1 DEF SysexStart, Call
    <3> QED
      BY <3>1, EventIsWellFormed DEF AtEvent
  <2>2. CASE FirstByte
    BY <2>2, SmallSeqs DEF FirstByte, Call, Reading, Content, Base, Place
  <2> QED
    BY <2>1, <2>2
<1>2. \/ \E error : Return(error)
      \/ pc = "event" /\ Goto("first", rest, 0)
      \/ pc = "first" /\ Goto("bytes", rest, 1) /\ sysex_in_progress' = sysex_in_progress
  BY DEF SysexStart, FirstByte, Call, AtEvent
<1>3. CASE pc = "event" /\ Goto("first", rest, 0)
  BY <1>1, <1>3, GotoReading
<1>4. CASE pc = "first" /\ Goto("bytes", rest, 1) /\ sysex_in_progress' = sysex_in_progress
  <2>1. \A k \in 1..1 : rest[k] \notin {Eox, Unused} \/ rest[1] = Clock
    BY <1>1 DEF Sysex, Eox, Unused
  <2>2. rest[1] # Note
    BY <1>1 DEF Sysex, Note
  <2> DEFINE next == 1
  <2>3. next # 0 /\ Goto("bytes", rest, next)
    BY <1>4
  <2>4. \A k \in 1..next : rest[k] \notin {Eox, Unused} \/ rest[1] = Clock
    BY <2>1
  <2> HIDE DEF next
  <2>5. pc \in {"event", "first", "bytes", "end"}
    BY <1>4
  <2>6. sysex_in_progress' =>
          sysex_in_progress \/ (pc # "end" /\ rest # <<>> /\ rest[1] = Sysex)
    BY <1>4
  <2> QED
    BY <1>1, <2>2, <2>3, <2>4, <2>5, <2>6, GotoReading
<1> QED
  BY <1>2, <1>3, <1>4, ReturnReading

\* An event that is written in one step.
LEMMA ShortReading == ASSUME Reading, Base', ShortEvent \/ FastCopy PROVE Reading'
<1>1. /\ pc = "event" /\ rest # <<>> /\ sysex_in_progress' = sysex_in_progress
      /\ UNCHANGED <<backend, past>>
      /\ NextEvent \/ \E error : Return(error)
  BY DEF ShortEvent, FastCopy, AtEvent, Call
<1>2. CASE NextEvent
  <2>1. Goto("event", OtherEvents, 0)
    BY <1>2 DEF NextEvent
  <2> QED
    BY <1>1, <2>1, GotoReading
<1> QED
  BY <1>1, <1>2, ReturnReading

\* An event that is going to be written byte by byte.
LEMMA CopyReading == ASSUME Reading, Base', RealTimeInSysex \/ SlowCopy PROVE Reading'
<1>1. /\ pc = "event" /\ rest # <<>> /\ sysex_in_progress' = sysex_in_progress
      /\ UNCHANGED <<backend, past>>
      /\ Goto("bytes", rest, 0) \/ \E error : Return(error)
      /\ IsRealTime(Event[1]) \/ ~IsStatus(Event[1]) \/ Event[1] = Eox
  BY DEF RealTimeInSysex, SlowCopy, AtEvent, Call, NoCall
<1>2. WellFormed(rest[1], rest[2], rest[3], rest[4]) /\ Event[1] = rest[1]
  BY <1>1, EventIsWellFormed
<1>3. /\ IsStatus(rest[1]) <=> rest[1] \notin Data
      /\ IsRealTime(rest[1]) <=> rest[1] = Clock
  BY <1>2, WellFormedFacts
<1>4. rest[1] # Note /\ rest[1] # Sysex
  BY <1>1, <1>2, <1>3 DEF Data, Note, Sysex, Clock, Eox
<1>5. CASE Goto("bytes", rest, 0)
  <2>1. \A k \in 1..0 : rest[k] \notin {Eox, Unused} \/ rest[1] = Clock
    OBVIOUS
  <2> QED
    BY <1>1, <1>4, <1>5, <2>1, GotoReading
<1> QED
  BY <1>1, <1>5, ReturnReading

\* The next byte of a sysex message.
LEMMA ByteContent ==
  ASSUME Reading, pc = "bytes", rest[1] # Clock
  PROVE  /\ rest # <<>> /\ bits \in 0..3 /\ Event[bits + 1] = rest[bits + 1]
         /\ rest[1] \notin {Note, Clock}
         /\ rest[bits + 1] \in {Eox} \union Data
<1>1. rest # <<>> /\ bits \in 0..3 /\ Base
  BY SmallSeqs DEF Reading, Base, Types, Place
<1>2. \A i \in 1..4 : Event[i] = rest[i]
  BY <1>1, AtEventFacts
<1>3. WellFormed(rest[1], rest[2], rest[3], rest[4])
  BY <1>1, EventIsWellFormed
<1>4. /\ rest[1] # Note /\ (bits = 0 => rest[1] # Sysex)
      /\ \A k \in 1..bits : rest[k] \notin {Eox, Unused}
  BY DEF Reading, Content
<1>5. /\ rest[1] \in {Sysex, Eox} \union Data
      /\ {rest[2], rest[3], rest[4]} \subseteq {Eox, Unused} \union Data
      /\ rest[2] = Unused <=> rest[1] = Eox
      /\ rest[3] = Unused <=> rest[2] \in {Eox, Unused}
      /\ rest[4] = Unused <=> rest[3] \in {Eox, Unused}
  BY <1>3, <1>4, WellFormedFacts
<1>6. 0 + 1 = 1 /\ 1 + 1 = 2 /\ 2 + 1 = 3 /\ 3 + 1 = 4
  OBVIOUS
<1>7. ASSUME bits = 0 PROVE rest[bits + 1] \in {Eox} \union Data
  <2>1. rest[1] # Sysex
    BY <1>4, <1>7
  <2>2. rest[1] \in {Eox} \union Data
    BY <1>5, <2>1
  <2>3. rest[bits + 1] = rest[0 + 1]
    BY ONLY <1>7, Zenon
  <2> QED
    BY <1>6, <2>2, <2>3, Zenon
<1>8. ASSUME bits = 1 PROVE rest[bits + 1] \in {Eox} \union Data
  <2>1. rest[1] # Eox
    BY <1>4, <1>8
  <2>2. rest[2] \in {Eox} \union Data
    BY <1>5, <2>1
  <2>3. rest[bits + 1] = rest[1 + 1]
    BY ONLY <1>8, Zenon
  <2> QED
    BY <1>6, <2>2, <2>3, Zenon
<1>9. ASSUME bits = 2 PROVE rest[bits + 1] \in {Eox} \union Data
  <2>1. rest[2] \notin {Eox, Unused}
    BY <1>4, <1>9
  <2>2. rest[3] \in {Eox} \union Data
    BY <1>5, <2>1
  <2>3. rest[bits + 1] = rest[2 + 1]
    BY ONLY <1>9, Zenon
  <2> QED
    BY <1>6, <2>2, <2>3, Zenon
<1>10. ASSUME bits = 3 PROVE rest[bits + 1] \in {Eox} \union Data
  <2>1. rest[3] \notin {Eox, Unused}
    BY <1>4, <1>10
  <2>2. rest[4] \in {Eox} \union Data
    BY <1>5, <2>1
  <2>3. rest[bits + 1] = rest[3 + 1]
    BY ONLY <1>10, Zenon
  <2> QED
    BY <1>6, <2>2, <2>3, Zenon
<1>11. rest[bits + 1] \in {Eox} \union Data
  <2>1. bits = 0 \/ bits = 1 \/ bits = 2 \/ bits = 3
    BY <1>1
  <2> QED
    BY <2>1, <1>7, <1>8, <1>9, <1>10
<1>12. bits + 1 \in 1..4
  BY <1>1
<1> QED
  BY <1>1, <1>2, <1>4, <1>11, <1>12

\* A byte of a sysex message.
LEMMA WriteByteReading == ASSUME Reading, Base', WriteByte PROVE Reading'
<1> DEFINE byte == Event[bits + 1]
<1>1. PICK o \in write_byte(byte) :
        /\ driver' = o.driver /\ UNCHANGED <<backend, past>>
        /\ sysex_in_progress' = sysex_in_progress
        /\ ~o.ok => Return("pmHostError")
        /\ o.ok => IF byte = Eox THEN Goto("end", OtherEvents, 0)
                   ELSE IF bits = 3 THEN NextEvent ELSE Goto("bytes", rest, bits + 1)
  BY DEF WriteByte, Call
<1>2. /\ pc = "bytes" /\ rest # <<>> /\ bits \in 0..3 /\ sysex_in_progress /\ Capacity /\ Back
      /\ Base /\ Content
  BY SmallSeqs DEF WriteByte, Reading, Base, Types, Place, Back
<1>3. byte \in Byte /\ byte = rest[bits + 1]
  <2>1. Event \in Seq(Byte) /\ Len(Event) = 4 /\ \A i \in 1..4 : Event[i] = rest[i]
    BY <1>2, AtEventFacts
  <2>2. bits + 1 \in 1..4
    BY <1>2
  <2> QED
    BY <2>1, <2>2, ElementOfSeq
<1>4. (o.ok /\ backend = "alsa" /\ byte = Eox) => o.driver.part = <<>>
  BY <1>2, <1>3, WriteByteFacts
<1> HIDE DEF byte
<1>5. CASE ~o.ok
  BY <1>1, <1>5, ReturnReading
<1>6. CASE o.ok /\ byte = Eox
  <2>1. Goto("end", OtherEvents, 0)
    BY <1>1, <1>6
  <2> QED
    BY <1>1, <1>2, <1>4, <1>6, <2>1, GotoReading
<1>7. CASE o.ok /\ byte # Eox /\ bits = 3
  <2>1. Goto("event", OtherEvents, 0)
    BY <1>1, <1>7 DEF NextEvent
  <2> QED
    BY <1>1, <1>2, <2>1, GotoReading
<1>8. CASE o.ok /\ byte # Eox /\ bits # 3
  <2>1. Goto("bytes", rest, bits + 1) /\ bits + 1 # 0
    BY <1>1, <1>2, <1>8
  <2>2. ASSUME NEW k \in 1..bits + 1, rest[1] # Clock PROVE rest[k] \notin {Eox, Unused}
    <3>1. rest[bits + 1] \in {Eox} \union Data
      BY <1>2, <2>2, ByteContent
    <3>2. rest[bits + 1] \notin {Eox, Unused}
      BY <1>3, <1>8, <3>1 DEF Data, Unused
    <3>3. k \in 1..bits \/ k = bits + 1
      BY <1>2
    <3> QED
      BY <1>2, <2>2, <3>2, <3>3 DEF Content
  <2>3. rest[1] # Note
    BY <1>2 DEF Content
  <2>4. \A k \in 1..bits + 1 : rest[k] \notin {Eox, Unused} \/ rest[1] = Clock
    BY <2>2
  <2> DEFINE next == bits + 1
  <2> HIDE DEF next
  <2>5. /\ Goto("bytes", rest, next) /\ next # 0
        /\ \A k \in 1..next : rest[k] \notin {Eox, Unused} \/ rest[1] = Clock
    BY <2>1, <2>4 DEF next
  <2> QED
    BY <1>1, <1>2, <2>3, <2>5, GotoReading
<1> QED
  BY <1>5, <1>6, <1>7, <1>8

\* The end of a sysex message.
LEMMA EndReading == ASSUME Reading, Base', pm_end_sysex PROVE Reading'
<1>1. /\ pc = "end" /\ sysex_in_progress' = FALSE /\ UNCHANGED <<backend, past>>
      /\ Goto("event", rest, 0) \/ Return("pmHostError")
  BY DEF pm_end_sysex, Call
<1> QED
  BY <1>1, GotoReading, ReturnReading

\* What an application writes are events, and numbering their data bytes keeps them so.
LEMMA NumberedEvents ==
  ASSUME data \in Nat, NEW buffer \in Buffers
  PROVE  buffer \in Seq(Raw) /\ Len(buffer) % 4 = 0 /\ EventsIn(Numbered(buffer))
<1>1. /\ buffer \in Seq(Raw) /\ Len(buffer) % 4 = 0
      /\ \A k \in DOMAIN buffer : k % 4 = 1 => SubSeq(buffer, k, k + 3) \in Events
  BY OutputAssumption DEF Raw
<1> DEFINE bytes == Numbered(buffer)
<1>2. /\ bytes \in Seq(Byte) /\ Len(bytes) = Len(buffer)
      /\ \A i \in DOMAIN buffer : /\ buffer[i] = Datum => bytes[i] \in Data
                                  /\ buffer[i] # Datum => bytes[i] = buffer[i]
  BY <1>1, NumberedFacts
<1>3. Len(buffer) \in Nat /\ DOMAIN buffer = 1..Len(buffer) /\ DOMAIN bytes = 1..Len(buffer)
  BY <1>1, <1>2, LenProperties
<1> HIDE DEF bytes
<1>4. ASSUME NEW k \in DOMAIN bytes, k % 4 = 1
      PROVE  WellFormed(bytes[k], bytes[k + 1], bytes[k + 2], bytes[k + 3])
  <2>1. k \in 1..Len(buffer) /\ k + 3 <= Len(buffer) /\ k \in Nat
    BY <1>1, <1>3, <1>4
  <2> DEFINE e == SubSeq(buffer, k, k + 3)
  <2>2. e \in Events
    BY <1>1, <1>3, <1>4, <2>1
  <2>3. e[1] = buffer[k] /\ e[2] = buffer[k + 1] /\ e[3] = buffer[k + 2] /\ e[4] = buffer[k + 3]
    <3>1. /\ \A i \in 1..(k + 3) - k + 1 : e[i] = buffer[(k + i) - 1]
          /\ (k + 3) - k + 1 = 4
      BY <1>1, <2>1, SubSeqProperties
    <3>2. \A i \in 1..4 : e[i] = buffer[(k + i) - 1]
      BY <3>1
    <3> HIDE DEF e
    <3>3. (k + 1) - 1 = k /\ (k + 2) - 1 = k + 1 /\ (k + 3) - 1 = k + 2 /\ (k + 4) - 1 = k + 3
      BY <2>1
    <3>4. 1 \in 1..4 /\ 2 \in 1..4 /\ 3 \in 1..4 /\ 4 \in 1..4
      OBVIOUS
    <3> QED
      BY <3>2, <3>3, <3>4, Zenon
  <2> HIDE DEF e
  <2> DEFINE k1 == k + 1
             k2 == k + 2
             k3 == k + 3
  <2>4. k1 \in DOMAIN buffer /\ k2 \in DOMAIN buffer /\ k3 \in DOMAIN buffer /\ k \in DOMAIN buffer
    BY <1>3, <2>1
  <2>5. e[1] = buffer[k] /\ e[2] = buffer[k1] /\ e[3] = buffer[k2] /\ e[4] = buffer[k3]
    BY <2>3
  <2> HIDE DEF k1, k2, k3
  <2>6. /\ e[1] = Datum => bytes[k] \in Data
        /\ e[1] # Datum => bytes[k] = e[1]
        /\ e[2] = Datum => bytes[k1] \in Data
        /\ e[2] # Datum => bytes[k1] = e[2]
        /\ e[3] = Datum => bytes[k2] \in Data
        /\ e[3] # Datum => bytes[k2] = e[3]
        /\ e[4] = Datum => bytes[k3] \in Data
        /\ e[4] # Datum => bytes[k3] = e[4]
    BY <1>2, <2>4, <2>5
  <2>7. CASE e \in ShortEvents
    <3>1. \/ e[1] = Note /\ e[2] = Datum /\ e[3] = Datum /\ e[4] = Unused
          \/ e[1] = Clock /\ e[2] = Unused /\ e[3] = Unused /\ e[4] = Unused
      BY <2>7 DEF ShortEvents
    <3>2. WellFormed(bytes[k], bytes[k1], bytes[k2], bytes[k3])
      BY <2>6, <3>1 DEF WellFormed, Note, Clock, Datum, Unused
    <3> QED
      BY <3>2 DEF k1, k2, k3
  <2>8. CASE e \in SysexEvents
    <3>1. /\ e[1] \in {Sysex, Datum, Eox}
          /\ e[2] \in {Datum, Eox, Unused} /\ (e[2] = Unused <=> e[1] \in {Eox, Unused})
          /\ e[3] \in {Datum, Eox, Unused} /\ (e[3] = Unused <=> e[2] \in {Eox, Unused})
          /\ e[4] \in {Datum, Eox, Unused} /\ (e[4] = Unused <=> e[3] \in {Eox, Unused})
      <4>1. /\ e \in [1..4 -> {Sysex, Datum, Eox, Unused}] /\ e[1] # Unused
            /\ \A j \in 2..4 : e[j] # Sysex /\ (e[j] = Unused <=> e[j - 1] \in {Eox, Unused})
        BY <2>8 DEF SysexEvents
      <4>2. 2 - 1 = 1 /\ 3 - 1 = 2 /\ 4 - 1 = 3 /\ 2 \in 2..4 /\ 3 \in 2..4 /\ 4 \in 2..4
        OBVIOUS
      <4>3. /\ e[2] # Sysex /\ (e[2] = Unused <=> e[1] \in {Eox, Unused})
            /\ e[3] # Sysex /\ (e[3] = Unused <=> e[2] \in {Eox, Unused})
            /\ e[4] # Sysex /\ (e[4] = Unused <=> e[3] \in {Eox, Unused})
        BY <4>1, <4>2
      <4> QED
        BY <4>1, <4>3
    <3>2. WellFormed(bytes[k], bytes[k1], bytes[k2], bytes[k3])
      BY <2>6, <3>1 DEF WellFormed, Datum, Unused, Eox, Sysex, Data
    <3> QED
      BY <3>2 DEF k1, k2, k3
  <2> QED
    BY <2>2, <2>7, <2>8 DEF Events
<1> QED
  BY <1>1, <1>4 DEF EventsIn, bytes

\* Numbering adds no status bytes.
LEMMA NumberedLacks ==
  ASSUME data \in Nat, NEW bytes \in Seq(Raw), NEW byte \in {Clock, Sysex}, byte \notin ToSet(bytes)
  PROVE  Lacks(Numbered(bytes), byte)
<1>1. /\ Numbered(bytes) \in Seq(Byte) /\ Len(Numbered(bytes)) = Len(bytes)
      /\ \A i \in DOMAIN bytes : /\ bytes[i] = Datum => Numbered(bytes)[i] \in Data
                                 /\ bytes[i] # Datum => Numbered(bytes)[i] = bytes[i]
  BY NumberedFacts
<1>2. DOMAIN Numbered(bytes) = DOMAIN bytes
  BY <1>1, LenProperties
<1>3. \A i \in DOMAIN bytes : bytes[i] # byte
  BY DEF ToSet
<1>4. byte \notin Data
  BY DEF Clock, Sysex, Data
<1> QED
  BY <1>1, <1>2, <1>3, <1>4 DEF Lacks

\* The application calls Pm_Write.
LEMMA Pm_WriteReading == ASSUME Reading, Base', Pm_Write PROVE Reading'
<1>1. PICK buffer \in Buffers :
        /\ Record(buffer)
        /\ \/ Return("pmDeviceRemoved")
           \/ Goto("event", Numbered(buffer), 0) /\ sysex_in_progress' = sysex_in_progress
  BY DEF Pm_Write
<1>2. data \in Nat /\ Content
  BY DEF Reading, Base, PastTypes
<1>3. buffer \in Seq(Raw) /\ EventsIn(Numbered(buffer))
  BY <1>2, NumberedEvents
<1>4. CASE Return("pmDeviceRemoved")
  BY <1>4, ReturnReading
<1>5. CASE Goto("event", Numbered(buffer), 0) /\ sysex_in_progress' = sysex_in_progress
  <2>1. pc' = "event" /\ rest' = Numbered(buffer) /\ msg' = msg
    BY <1>5 DEF Goto
  <2>2. Content'
    BY <1>2, <1>3, <2>1 DEF Content
  <2>3. ASSUME ~embedded' PROVE Lacks(rest', Clock) \/ (~sysex_in_progress' /\ Lacks(rest', Sysex))
    <3>1. Clock \notin ToSet(buffer) \/ (~sysex_in_progress /\ Sysex \notin ToSet(buffer))
      BY <1>1, <2>3 DEF Record
    <3> QED
      BY <1>2, <1>3, <1>5, <2>1, <3>1, NumberedLacks
  <2>4. msg = <<>>
    BY DEF Reading, Base, Place, Pm_Write
  <2> QED
    BY <2>1, <2>2, <2>3, <2>4 DEF Reading, NotEmbedded
<1> QED
  BY <1>1, <1>4, <1>5

\* The application calls Pm_WriteSysEx.
LEMMA Pm_WriteSysExReading == ASSUME Reading, Base', Pm_WriteSysEx PROVE Reading'
<1>1. PICK n \in SysexLengths : Record(SysexMessage(n)) /\ msg' = Numbered(SysexMessage(n))
  BY DEF Pm_WriteSysEx
<1>2. n \in Nat \ {0, 1}
  BY OutputAssumption
<1>3. /\ SysexMessage(n) \in Seq(Raw) /\ Len(SysexMessage(n)) = n
      /\ SysexMessage(n)[1] = Sysex /\ SysexMessage(n)[n] = Eox
      /\ \A k \in 2..n - 1 : SysexMessage(n)[k] = Datum
  BY <1>2, SysexMessageFacts
<1>4. data \in Nat /\ rest = <<>>
  BY DEF Reading, Base, PastTypes, Place, Pm_WriteSysEx
<1>5. /\ msg' \in Seq(Byte) /\ Len(msg') = n
      /\ \A i \in DOMAIN SysexMessage(n) :
           /\ SysexMessage(n)[i] = Datum => msg'[i] \in Data
           /\ SysexMessage(n)[i] # Datum => msg'[i] = SysexMessage(n)[i]
  BY <1>1, <1>3, <1>4, NumberedFacts
<1>6. DOMAIN SysexMessage(n) = 1..n /\ DOMAIN msg' = 1..n
  BY <1>3, <1>5, LenProperties
<1>7. IsMessage(msg')
  <2>1. ASSUME NEW k \in 1..n
        PROVE  /\ msg'[k] = Eox <=> k = n
               /\ msg'[k] \in {Eox} \union Data \/ (k = 1 /\ msg'[k] = Sysex)
    <3>1. CASE k = 1
      BY <1>2, <1>3, <1>5, <1>6, <3>1 DEF Sysex, Eox, Datum
    <3>2. CASE k = n
      BY <1>2, <1>3, <1>5, <1>6, <3>2 DEF Eox, Datum
    <3>3. CASE k \in 2..n - 1
      <4>1. msg'[k] \in Data
        BY <1>3, <1>5, <1>6, <3>3
      <4>2. msg'[k] # Eox /\ k # n
        BY <1>2, <4>1, <3>3 DEF Data, Eox
      <4> QED
        BY <4>1, <4>2
    <3> QED
      BY <1>2, <3>1, <3>2, <3>3
  <2> QED
    BY <1>5, <1>6, <2>1 DEF IsMessage
<1>8. rest' = <<>> /\ pc' = "chunk"
  BY <1>4 DEF Pm_WriteSysEx
<1>9. Content'
  BY <1>7, <1>8, EmptyContent DEF Content
<1>10. NotEmbedded'
  BY <1>8, EmptyContent DEF NotEmbedded
<1> QED
  BY <1>9, <1>10 DEF Reading

\* What is left of a message is the rest of a message.
LEMMA SuffixOfMessage ==
  ASSUME NEW m \in Seq(Byte), IsMessage(m), NEW n \in 0..Len(m)
  PROVE  IsMessage(SubSeq(m, n + 1, Len(m)))
<1> DEFINE r == SubSeq(m, n + 1, Len(m))
<1>1. /\ r \in Seq(Byte) /\ Len(r) = Len(m) - n
      /\ \A i \in 1..Len(m) - n : r[i] = m[n + i]
  BY Cut
<1>2. DOMAIN m = 1..Len(m) /\ Len(m) \in Nat /\ DOMAIN r = 1..Len(m) - n
  BY <1>1, LenProperties
<1> HIDE DEF r
<1>3. ASSUME NEW k \in 1..Len(m) - n
      PROVE  /\ r[k] = Eox <=> k = Len(m) - n
             /\ r[k] \in {Eox} \union Data \/ (k = 1 /\ r[k] = Sysex)
  <2>1. r[k] = m[n + k] /\ n + k \in DOMAIN m
    BY <1>1, <1>2, <1>3
  <2>2. /\ m[n + k] = Eox <=> n + k = Len(m)
        /\ m[n + k] \in {Eox} \union Data \/ (n + k = 1 /\ m[n + k] = Sysex)
    BY <2>1 DEF IsMessage
  <2>3. n \in Nat /\ k \in Nat /\ k > 0 /\ Len(m) \in Nat
    BY <1>2, <1>3
  <2>4. (n + k = Len(m) <=> k = Len(m) - n) /\ (n + k = 1 => k = 1)
    BY ONLY <2>3
  <2> QED
    BY <2>1, <2>2, <2>4
<1> QED
  BY <1>1, <1>2, <1>3 DEF IsMessage, r

\* Where an event begins in a chunk of n bytes of a message of l, padded to p bytes.
LEMMA EventInChunk ==
  ASSUME NEW k \in Nat, NEW n \in Nat, NEW p \in Nat, NEW l \in Nat,
         0 < k, k <= p, k % 4 = 1, p % 4 = 0, p <= n + 3, n <= l, n % 4 = 0 \/ n = l
  PROVE  k + 3 <= p /\ k <= n /\ (n = l \/ n >= k + 3)
<1>1. k + 3 <= p
  OBVIOUS
<1>2. k <= n
  BY <1>1
<1>3. n % 4 = 0 => n >= k + 3
  BY <1>2
<1> QED
  BY <1>1, <1>2, <1>3

\* A chunk of a message, padded to whole events.
LEMMA ChunkIsEvents ==
  ASSUME NEW m \in Seq(Byte), IsMessage(m), NEW n \in 0..Len(m), n % 4 = 0 \/ n = Len(m),
         NEW p \in Seq(Byte), p = Padded(SubSeq(m, 1, n))
  PROVE  EventsIn(p) /\ Lacks(p, Clock)
<1>1. /\ SubSeq(m, 1, n) \in Seq(Byte) /\ Len(SubSeq(m, 1, n)) = n
      /\ \A i \in 1..n : SubSeq(m, 1, n)[i] = m[i]
  BY Cut
<1>2. PICK pads \in Seq(Byte) : /\ p = SubSeq(m, 1, n) \o pads /\ Len(pads) \in 0..3
                                /\ \A k \in DOMAIN pads : pads[k] = Unused
  BY <1>1, PaddedFacts
<1>3. Len(p) % 4 = 0
  BY <1>1, PaddedFacts
<1>4. /\ Len(p) = n + Len(pads) /\ n \in Nat
      /\ \A i \in 1..n : p[i] = m[i]
      /\ \A i \in n + 1..Len(p) : p[i] = Unused
  <2>1. /\ Len(p) = n + Len(pads) /\ DOMAIN pads = 1..Len(pads)
        /\ \A i \in 1..n + Len(pads) : p[i] = IF i <= n THEN SubSeq(m, 1, n)[i] ELSE pads[i - n]
    BY <1>1, <1>2, ConcatProperties, LenProperties
  <2>2. n \in Nat /\ Len(pads) \in Nat
    BY <1>2
  <2>3. ASSUME NEW i \in 1..n PROVE p[i] = m[i]
    BY <1>1, <2>1, <2>2
  <2>4. ASSUME NEW i \in n + 1..Len(p) PROVE p[i] = Unused
    <3>1. i - n \in DOMAIN pads /\ p[i] = pads[i - n]
      BY <2>1, <2>2
    <3> QED
      BY <1>2, <3>1
  <2> QED
    BY <2>1, <2>2, <2>3, <2>4
<1>5. DOMAIN m = 1..Len(m) /\ Len(m) \in Nat /\ DOMAIN p = 1..Len(p) /\ n <= Len(m)
  BY LenProperties
<1>9. n \in Nat /\ Len(p) \in Nat /\ 1..n \subseteq DOMAIN m
  <2>1. n \in Nat /\ Len(p) \in Nat
    BY <1>4, LenProperties
  <2>2. ASSUME NEW i \in 1..n PROVE i \in 1..Len(m)
    BY ONLY <1>5, <2>1, i \in 1..n
  <2> QED
    BY <1>5, <2>1, <2>2
<1>10. Len(p) <= n + 3
  <2> DEFINE l == Len(pads)
  <2>1. l \in 0..3 /\ Len(p) = n + l
    BY <1>2, <1>4
  <2> HIDE DEF l
  <2> QED
    BY <1>9, <2>1
<1>6. ASSUME NEW i \in 1..Len(p)
      PROVE  /\ i <= n => /\ p[i] = Eox <=> i = Len(m)
                          /\ p[i] \in {Eox} \union Data \/ (i = 1 /\ p[i] = Sysex)
             /\ i > n => p[i] = Unused
  <2>1. ASSUME i <= n PROVE /\ p[i] = Eox <=> i = Len(m)
                            /\ p[i] \in {Eox} \union Data \/ (i = 1 /\ p[i] = Sysex)
    <3>1. i \in 1..n
      BY <1>4, <2>1
    <3>2. i \in DOMAIN m
      BY <1>9, <3>1
    <3> QED
      BY <1>4, <3>1, <3>2 DEF IsMessage
  <2>2. ASSUME i > n PROVE p[i] = Unused
    <3>1. i \in n + 1..Len(p)
      BY <1>4, <2>2
    <3> QED
      BY <1>4, <3>1
  <2> QED
    BY <2>1, <2>2
<1>7. Lacks(p, Clock)
  <2>1. Clock \notin Data /\ Clock # Unused /\ Clock # Eox /\ Clock # Sysex
    BY DEF Clock, Unused, Eox, Data, Sysex
  <2>2. ASSUME NEW i \in 1..Len(p) PROVE p[i] # Clock
    <3>1. i <= n \/ i > n
      BY <1>4
    <3> QED
      BY <1>6, <2>1, <3>1
  <2> QED
    BY <1>5, <2>2 DEF Lacks
<1>8. ASSUME NEW k \in DOMAIN p, k % 4 = 1
      PROVE  WellFormed(p[k], p[k + 1], p[k + 2], p[k + 3])
  <2> DEFINE k1 == k + 1
             k2 == k + 2
             k3 == k + 3
  <2>1. /\ k \in Nat /\ 0 < k /\ n \in Nat /\ Len(m) \in Nat /\ n <= Len(m)
        /\ Len(p) \in Nat /\ k <= Len(p) /\ Len(p) <= n + 3
    <3>2. k \in 1..Len(p)
      BY <1>5, <1>8
    <3>4. k \in Nat /\ 0 < k /\ k <= Len(p)
      BY <1>9, <3>2
    <3> QED
      BY <1>5, <1>9, <1>10, <3>4
  <2>2. n % 4 = 0 \/ n = Len(m)
    OBVIOUS
  <2>3. k + 3 <= Len(p) /\ k <= n /\ (n = Len(m) \/ n >= k + 3)
    BY <1>3, <1>8, <2>1, <2>2, EventInChunk
  <2>4. k <= n
    BY <2>3
  <2>5. n = Len(m) \/ n >= k3
    BY <2>3
  <2>6. /\ k1 \in 1..Len(p) /\ k2 \in 1..Len(p) /\ k3 \in 1..Len(p) /\ k \in 1..Len(p)
        /\ k1 # 1 /\ k2 # 1 /\ k3 # 1
    BY ONLY <2>1, <2>3
  <2>7. /\ k1 <= n => k # Len(m)
        /\ ~(k1 <= n) => k1 > n /\ k = Len(m)
        /\ k2 <= n => k1 <= n /\ k1 # Len(m)
        /\ ~(k2 <= n) => k2 > n /\ (k1 <= n => k1 = Len(m))
        /\ k3 <= n => k2 <= n /\ k2 # Len(m)
        /\ ~(k3 <= n) => k3 > n /\ (k2 <= n => k2 = Len(m))
        /\ ~(k1 <= n) => k1 > n
    BY ONLY <2>1, <2>4, <2>5
  <2> HIDE DEF k1, k2, k3
  <2>8. Unused \notin {Eox} \union Data /\ Eox \notin Data
    BY DEF Unused, Eox, Data
  <2>9. /\ p[k] = Eox <=> k = Len(m)
        /\ p[k] \in {Sysex, Eox} \union Data
    BY <1>6, <2>4, <2>6
  <2>10. /\ k1 <= n => (p[k1] = Eox <=> k1 = Len(m)) /\ p[k1] \in {Eox} \union Data
         /\ k1 > n => p[k1] = Unused
    BY <1>6, <2>6
  <2>11. /\ k2 <= n => (p[k2] = Eox <=> k2 = Len(m)) /\ p[k2] \in {Eox} \union Data
         /\ k2 > n => p[k2] = Unused
    BY <1>6, <2>6
  <2>12. /\ k3 <= n => (p[k3] = Eox <=> k3 = Len(m)) /\ p[k3] \in {Eox} \union Data
         /\ k3 > n => p[k3] = Unused
    BY <1>6, <2>6
  <2>13. p[k1] \in {Eox, Unused} \union Data /\ (p[k1] = Unused <=> p[k] = Eox)
    BY <2>7, <2>8, <2>9, <2>10
  <2>14. p[k2] \in {Eox, Unused} \union Data /\ (p[k2] = Unused <=> p[k1] \in {Eox, Unused})
    BY <2>7, <2>8, <2>10, <2>11
  <2>15. p[k3] \in {Eox, Unused} \union Data /\ (p[k3] = Unused <=> p[k2] \in {Eox, Unused})
    BY <2>7, <2>8, <2>11, <2>12
  <2>16. WellFormed(p[k], p[k1], p[k2], p[k3])
    BY <2>9, <2>13, <2>14, <2>15 DEF WellFormed
  <2> QED
    BY <2>16 DEF k1, k2, k3
<1> QED
  BY <1>7, <1>8 DEF EventsIn

\* The next chunk of a message.
LEMMA WriteChunkReading == ASSUME Reading, Base', WriteChunk PROVE Reading'
<1> DEFINE n == Min({ChunkBytes, Len(msg)})
<1>1. \/ Return("pmDeviceRemoved")
      \/ /\ pc' = "event" /\ rest' = Padded(SubSeq(msg, 1, n)) /\ bits' = 0
         /\ msg' = SubSeq(msg, n + 1, Len(msg))
  BY DEF WriteChunk
<1>2. n \in 0..Len(msg) /\ ChunkBytes % 4 = 0 /\ (n # ChunkBytes => n = Len(msg))
  BY ChunkFacts DEF Reading
<1> HIDE DEF n
<1>3. CASE Return("pmDeviceRemoved")
  BY <1>3, ReturnReading
<1>4. CASE /\ pc' = "event" /\ rest' = Padded(SubSeq(msg, 1, n)) /\ bits' = 0
           /\ msg' = SubSeq(msg, n + 1, Len(msg))
  <2>1. msg \in Seq(Byte) /\ IsMessage(msg) /\ rest' \in Seq(Byte)
    BY DEF Reading, Base, Types, Content
  <2>2. n % 4 = 0 \/ n = Len(msg)
    BY <1>2
  <2>3. EventsIn(rest') /\ Lacks(rest', Clock)
    BY <1>2, <1>4, <2>1, <2>2, ChunkIsEvents
  <2>4. IsMessage(msg')
    BY <1>2, <1>4, <2>1, SuffixOfMessage
  <2>5. Content'
    BY <1>4, <2>3, <2>4 DEF Content
  <2> QED
    BY <2>3, <2>5 DEF Reading, NotEmbedded
<1> QED
  BY <1>1, <1>3, <1>4

\* The rest of the buffer of WinMM is filled.
LEMMA FillReading == ASSUME Reading, Base', Fill PROVE Reading'
<1> DEFINE n == Max({0, Min({fill_length - Len(driver.part), Len(msg)})})
<1>1. msg' = SubSeq(msg, n + 1, Len(msg)) /\ rest' = rest /\ pc' \in {"filled", "chunk"}
  BY DEF Fill, AfterFill
<1>2. n \in 0..Len(msg)
  BY FillFacts DEF Fill, Reading
<1> HIDE DEF n
<1>3. msg \in Seq(Byte) /\ IsMessage(msg) /\ rest = <<>>
  BY DEF Reading, Base, Types, Place, Content, Fill
<1>4. Content'
  BY <1>1, <1>2, <1>3, SuffixOfMessage, EmptyContent DEF Content
<1> QED
  BY <1>1, <1>3, <1>4, EmptyContent DEF Reading, NotEmbedded

\* In every state.
LEMMA ReadingHolds == Spec => []Reading
<1>1. Init => Reading
  <2>1. Init => Base
    BY InitBase
  <2>2. Init => rest = <<>> /\ msg = <<>> /\ pc = "idle"
    BY DEF Init
  <2>3. (rest = <<>> /\ msg = <<>> /\ pc = "idle") => Content /\ NotEmbedded
    BY EmptyContent DEF Content, NotEmbedded
  <2> QED
    BY <2>1, <2>2, <2>3 DEF Reading
<1>2. ASSUME Reading, [Next]_vars PROVE Reading'
  <2>1. Base'
    BY <1>2, NextBase DEF Reading
  <2>2. CASE UNCHANGED vars \/ DeviceRemoved
    <3>1. UNCHANGED <<sysex_in_progress, pc, rest, bits, msg, driver, backend, embedded>>
      BY <2>2 DEF DeviceRemoved, vars, api, past
    <3> QED
      BY <1>2, <2>1, <3>1 DEF Reading, Content, NotEmbedded
  <2>3. CASE Pm_Write_step
    BY <1>2, <2>1, <2>3, ReturnsReading, StartReading, ShortReading, CopyReading,
       WriteByteReading, EndReading DEF Pm_Write_step
  <2>4. CASE WriteChunk \/ Fill \/ FilledToEnd
    BY <1>2, <2>1, <2>4, WriteChunkReading, FillReading, ReturnsReading
  <2>5. CASE Pm_Write \/ Pm_WriteSysEx
    BY <1>2, <2>1, <2>5, Pm_WriteReading, Pm_WriteSysExReading
  <2> QED
    BY <1>2, <2>2, <2>3, <2>4, <2>5 DEF Next, InCall
<1> QED
  BY <1>1, <1>2, PTL DEF Spec

-----------------------------------------------------------------------------
(* What a step of a call does to the bytes on their way.  Either the call  *)
(* ends with an error, or what is on its way and what is still to come are *)
(* together what they were; only what ALSA still has of a message that was *)
(* cut off may come in between, before a message that begins.              *)

Good == Reading /\ ~embedded /\ (backend = "winmm" => Settled)

Stopped == errors' = errors + 1 /\ pc' = "idle" /\ result' # "pmNoError"

Onward ==
  /\ errors' = errors /\ UNCHANGED <<backend, past>>
  /\ \/ Flow' = Flow
     \/ /\ pc = "first" /\ backend = "alsa" /\ driver.part # <<>>
        /\ Flow' = Line(driver) \o Sent(Remaining)
  /\ Settled => Settled'
  /\ (pc' = "idle" /\ ~sysex_in_progress') => driver'.list = <<>>
  /\ (backend = "alsa" /\ ~Settled') =>
       /\ ~Settled
       /\ \/ Lacks(Remaining', Sysex)
          \/ /\ SentTo(backend, Remaining') = Sent(Remaining)
             /\ Lacks(Remaining, Sysex) => Lacks(Remaining', Sysex)

\* What such a state offers to the lemmas below.
LEMMA GoodFacts ==
  ASSUME Good
  PROVE  /\ Back /\ Capacity /\ Base /\ Content /\ Place /\ Reading
         /\ driver \in Driver /\ Line(driver) \in Seq(Byte) /\ Out(driver) \in Seq(Byte)
         /\ driver.part \in Seq(Byte) /\ (driver.part = <<>> => Line(driver) = Out(driver))
         /\ Remaining \in Seq(Byte) /\ rest \in Seq(Byte) /\ msg \in Seq(Byte)
         /\ pc # "bytes" => bits = 0 /\ Remaining = rest \o msg /\ Remaining = RestOf(rest, 0, msg)
         /\ rest = <<>> => Remaining = msg
         /\ (sysex_in_progress /\ rest # <<>> /\ pc \in {"event", "bytes"}) => rest[1] # Clock
<1>1. Base /\ Content /\ Reading /\ ~embedded
  BY DEF Good, Reading
<1>2. Types /\ Place /\ Capacity
  BY <1>1 DEF Base
<1>3. /\ driver \in Driver /\ Line(driver) \in Seq(Byte) /\ Out(driver) \in Seq(Byte)
      /\ Remaining \in Seq(Byte)
      /\ bits = 0 => Remaining = rest \o msg /\ Remaining = RestOf(rest, 0, msg)
      /\ rest = <<>> => Remaining = msg
  BY <1>1, TrackFacts
<1>4. driver.part \in Seq(Byte) /\ (driver.part = <<>> => Line(driver) = Out(driver))
  BY <1>3, DriverFacts, LineFacts
<1>5. ASSUME sysex_in_progress, rest # <<>>, pc \in {"event", "bytes"} PROVE rest[1] # Clock
  BY <1>1, <1>5, EventIsWellFormed
<1>6. Back /\ rest \in Seq(Byte) /\ msg \in Seq(Byte) /\ (pc # "bytes" => bits = 0)
  BY <1>2 DEF Types, Back, Place
<1> QED
  BY <1>1, <1>2, <1>3, <1>4, <1>5, <1>6

\* A call that returns an error ends.
LEMMA ReturnStopped ==
  ASSUME NEW error \in {"pmBadData", "pmHostError", "pmDeviceRemoved"}, Return(error)
  PROVE  Stopped
BY DEF Return, Stopped

\* The bytes b go from what is still to come to what is on its way.
LEMMA PassedOn ==
  ASSUME backend' = backend,
         NEW s \in Seq(Byte), NEW b \in Seq(Byte), NEW r \in Seq(Byte),
         Stream' = s \o Sent(b), Remaining = b \o r, SentTo(backend, Remaining') = Sent(r)
  PROVE  Flow' = s \o Sent(Remaining)
<1>1. (s \o SentTo(backend, b)) \o SentTo(backend, Remaining') = s \o SentTo(backend, b \o r)
  <2>1. SentTo(backend, Remaining') = SentTo(backend, r)
    BY DEF Sent
  <2>2. SentTo(backend, b) \in Seq(Byte) /\ SentTo(backend, r) \in Seq(Byte)
    BY SentFacts
  <2>3. SentTo(backend, b \o r) = SentTo(backend, b) \o SentTo(backend, r)
    BY SentCat
  <2> DEFINE y == SentTo(backend, b)
             z == SentTo(backend, r)
  <2>4. y \in Seq(Byte) /\ z \in Seq(Byte)
    BY <2>2
  <2> HIDE DEF y, z
  <2>5. (s \o y) \o z = s \o (y \o z)
    BY <2>4, CatCat
  <2> QED
    BY <2>1, <2>3, <2>5 DEF y, z
<1>2. Flow' = Stream' \o SentTo(backend, Remaining')
  BY DEF Flow, Sent
<1> QED
  BY <1>1, <1>2 DEF Sent

\* None do.
LEMMA NonePassed ==
  ASSUME backend' = backend, Stream' = Stream, SentTo(backend, Remaining') = Sent(Remaining)
  PROVE  Flow' = Flow
BY DEF Flow, Sent

\* Inside a sysex message nothing is left of an earlier one.
LEMMA InsideOnward ==
  ASSUME errors' = errors, UNCHANGED <<backend, past>>, Flow' = Flow,
         sysex_in_progress', pc' # "first"
  PROVE  Onward
BY DEF Onward, Settled

\* The backend is told that a message begins; what is left of another one does not count any more.
LEMMA SysexStartMoves == ASSUME Good, Reading', SysexStart PROVE Onward \/ Stopped
<1>1. PICK o \in begin_sysex :
        /\ driver' = o.driver /\ UNCHANGED <<backend, past>>
        /\ o.ok => Goto("first", rest, 0)
        /\ ~o.ok => Return("pmHostError")
  BY DEF SysexStart, Call
<1>2. pc = "event" /\ ~sysex_in_progress /\ sysex_in_progress'
  BY DEF SysexStart, AtEvent
<1>3. CASE ~o.ok
  BY <1>1, <1>3, ReturnStopped
<1>4. CASE o.ok
  <2>1. /\ pc' = "first" /\ rest' = rest /\ bits' = 0 /\ msg' = msg /\ errors' = errors
        /\ backend' = backend
    BY <1>1, <1>4 DEF Goto
  <2>2. Remaining' = Remaining
    BY <1>2, <2>1, GoodFacts DEF Remaining
  <2>3. /\ Fits(driver') /\ driver' \in Driver
        /\ backend # "winmm" => Out(driver') = Out(driver)
        /\ backend # "alsa" => driver'.part = <<>>
        /\ backend = "alsa" => driver' = driver
        /\ backend = "winmm" => Line(driver') = Line(driver)
    BY <1>1, <1>4, BeginFacts, GoodFacts DEF Fits
  <2>4. Out(driver') = Out(driver)
    <3>1. CASE backend = "winmm"
      <4>1. driver.part = <<>>
        BY <1>2, <3>1 DEF Good, Settled
      <4>2. Line(driver) = Out(driver) /\ Line(driver') = Out(driver')
        BY <2>3, <3>1, <4>1, LineFacts, GoodFacts
      <4> QED
        BY <2>3, <3>1, <4>2
    <3> QED
      BY <2>3, <3>1
  <2>5. Stream' = Stream
    BY <1>2, <2>1, <2>4 DEF Stream
  <2>6. Flow' = Flow
    BY <2>1, <2>2, <2>5, NonePassed DEF Sent
  <2>7. (Settled => Settled') /\ (backend = "alsa" /\ ~Settled' => ~Settled)
    BY <1>2, <2>1, <2>3 DEF Settled
  <2>8. SentTo(backend, Remaining') = Sent(Remaining)
    BY <2>2 DEF Sent
  <2> QED
    BY <1>1, <2>1, <2>2, <2>6, <2>7, <2>8 DEF Onward
<1> QED
  BY <1>3, <1>4

\* F0 is written, with ALSA perhaps behind what its parser has kept.
LEMMA FirstByteMoves == ASSUME Good, Reading', FirstByte PROVE Onward \/ Stopped
<1>1. PICK o \in write_byte(Sysex) :
        /\ driver' = o.driver /\ UNCHANGED <<backend, past>>
        /\ o.ok => Goto("bytes", rest, 1)
        /\ ~o.ok => Return("pmHostError")
  BY DEF FirstByte, Call
<1>2. /\ pc = "first" /\ sysex_in_progress /\ sysex_in_progress' /\ Len(rest) > 0
      /\ rest[1] = Sysex /\ bits = 0
      /\ backend = "alsa" \/ driver.part = <<>>
  BY GoodFacts DEF FirstByte, Place, Content
<1>3. CASE ~o.ok
  BY <1>1, <1>3, ReturnStopped
<1>4. CASE o.ok
  <2>1. /\ pc' = "bytes" /\ rest' = rest /\ bits' = 1 /\ msg' = msg /\ errors' = errors
        /\ backend' = backend
    BY <1>1, <1>4 DEF Goto
  <2> DEFINE r == RestOf(rest, 1, msg)
  <2>2. Remaining = <<Sysex>> \o r /\ r \in Seq(Byte) /\ Remaining' = r
    <3>1. Len(rest) >= 4
      BY <1>2, SmallSeqs, GoodFacts, AtEventFacts
    <3> DEFINE k == 0
    <3>5. k \in 0..3 /\ k = 0 /\ rest \in Seq(Byte) /\ msg \in Seq(Byte)
      BY GoodFacts
    <3> HIDE DEF k
    <3>2. /\ RestOf(rest, k, msg) = <<rest[k + 1]>> \o RestOf(rest, k + 1, msg)
          /\ RestOf(rest, k + 1, msg) \in Seq(Byte)
      BY <3>1, <3>5, ByteStep
    <3>3. k + 1 = 1 /\ k = 0
      BY <3>5
    <3>4. RestOf(rest, 0, msg) = <<rest[1]>> \o RestOf(rest, 1, msg)
          /\ RestOf(rest, 1, msg) \in Seq(Byte)
      BY <3>2, <3>3, Zenon
    <3> QED
      BY <1>2, <2>1, <3>4, GoodFacts DEF Remaining
  <2> HIDE DEF r
  <2>3. /\ <<Sysex>> \in Seq(Byte) /\ Sysex \in Byte /\ Sent(<<Sysex>>) = <<Sysex>>
    <3>1. Sysex \in Byte /\ Sysex \notin {Unused, Clock}
      BY ByteFacts DEF Sysex, Unused, Clock
    <3> QED
      BY <3>1, SmallSeqs, SentByte DEF Sent
  <2>4. \/ Line(driver') = Line(driver) \o <<Sysex>>
        \/ Line(driver') = Out(driver) \o <<Sysex>>
    BY <1>1, <1>4, <2>3, WriteByteFacts, GoodFacts
  <2>5. Stream' = Line(driver') /\ Stream = Out(driver)
    BY <1>2, <2>1 DEF Stream
  <2>6. PICK s \in {Line(driver), Out(driver)} : Stream' = s \o Sent(<<Sysex>>)
    BY <2>3, <2>4, <2>5
  <2>7. Flow' = s \o Sent(Remaining)
    BY <2>1, <2>2, <2>3, <2>6, PassedOn, GoodFacts DEF Sent
  <2>8. s = Out(driver) \/ (s = Line(driver) /\ driver.part # <<>> /\ backend = "alsa")
    <3>1. driver.part = <<>> => Line(driver) = Out(driver)
      BY GoodFacts
    <3> QED
      BY <1>2, <2>6, <3>1, Zenon
  <2>9. Settled'
    BY <1>2, <2>1 DEF Settled
  <2> QED
    BY <1>1, <1>2, <2>1, <2>5, <2>7, <2>8, <2>9 DEF Onward, Flow
<1> QED
  BY <1>3, <1>4

\* A short message; the soft synth leaves out those that Sent leaves out.
LEMMA ShortEventMoves == ASSUME Good, Reading', ShortEvent PROVE Onward \/ Stopped
<1>1. PICK o \in write_short(Event) :
        /\ driver' = o.driver /\ UNCHANGED <<backend, past>>
        /\ o.ok => NextEvent
        /\ ~o.ok => Return("pmHostError")
  BY DEF ShortEvent, Call
<1>2. /\ pc = "event" /\ rest # <<>> /\ ~sysex_in_progress /\ ~sysex_in_progress' /\ IsShort(Event)
  BY DEF ShortEvent, AtEvent
<1>3. CASE ~o.ok
  BY <1>1, <1>3, ReturnStopped
<1>4. CASE o.ok
  <2>1. /\ pc' = "event" /\ rest' = OtherEvents /\ bits' = 0 /\ msg' = msg /\ errors' = errors
        /\ backend' = backend
    BY <1>1, <1>4 DEF NextEvent, Goto
  <2>2. /\ Event \in Seq(Byte) /\ Len(Event) = 4 /\ OtherEvents \in Seq(Byte)
        /\ rest = Event \o OtherEvents
        /\ RestOf(OtherEvents, 0, msg) = OtherEvents \o msg /\ OtherEvents \o msg \in Seq(Byte)
    BY <1>2, AtEventFacts, GoodFacts
  <2>3. /\ WellFormed(Event[1], Event[2], Event[3], Event[4]) /\ Event[1] = rest[1]
        /\ rest[1] = Clock => Lacks(OtherEvents, Sysex) /\ msg = <<>>
    BY <1>2, EventIsWellFormed, GoodFacts DEF Good
  <2>4. Remaining = Event \o (OtherEvents \o msg) /\ Remaining' = OtherEvents \o msg
    <3>1. Remaining = (Event \o OtherEvents) \o msg
      BY <1>2, <2>2, GoodFacts
    <3>2. msg \in Seq(Byte)
      BY GoodFacts
    <3>3. (Event \o OtherEvents) \o msg = Event \o (OtherEvents \o msg)
      <4> DEFINE a == Event
                 b == OtherEvents
      <4>1. a \in Seq(Byte) /\ b \in Seq(Byte)
        BY <2>2
      <4> HIDE DEF a, b
      <4>2. (a \o b) \o msg = a \o (b \o msg)
        BY <3>2, <4>1, CatCat
      <4> QED
        BY <4>2 DEF a, b
    <3>4. Remaining' = RestOf(OtherEvents, 0, msg)
      BY <2>1 DEF Remaining
    <3> QED
      BY <2>2, <3>1, <3>3, <3>4
  <2>5. Sent(Event) = IF backend = "synth" /\ Event[1] >= 240 THEN <<>> ELSE Short(Event)
    BY <1>2, <2>2, <2>3, SentShort DEF Sent
  <2>6. Stream = Out(driver) /\ Stream' = Out(driver')
    BY <1>2 DEF Stream
  <2>7. Stream' = Stream \o Sent(Event)
    <3>1. /\ backend # "alsa" => IF backend = "synth" /\ Event[1] >= 240 THEN driver' = driver
                                 ELSE Out(driver') = Out(driver) \o Short(Event)
          /\ backend = "alsa" => Out(driver') = Out(driver) \o Short(Event)
      BY <1>1, <1>4, <2>2, WriteShortFacts, GoodFacts
    <3>2. Out(driver) \o <<>> = Out(driver)
      BY Cat, GoodFacts
    <3> QED
      BY <2>5, <2>6, <3>1, <3>2
  <2>8. Flow' = Flow
    <3>1. Stream \in Seq(Byte)
      BY <2>6, GoodFacts
    <3>2. SentTo(backend, Remaining') = Sent(OtherEvents \o msg)
      BY <2>4 DEF Sent
    <3> QED
      BY <2>1, <2>2, <2>4, <2>7, <3>1, <3>2, PassedOn DEF Flow
  <2>9. \/ driver'.part = driver.part /\ (backend = "alsa" => IsRealTime(Event[1]))
        \/ driver'.part = <<>>
    BY <1>1, <1>4, <2>2, WriteShortFacts, GoodFacts
  <2>10. Settled => Settled'
    BY <1>2, <2>9 DEF Settled
  <2>11. ASSUME backend = "alsa", ~Settled' PROVE ~Settled /\ Lacks(Remaining', Sysex)
    <3>1. driver'.part # <<>>
      BY <2>11 DEF Settled
    <3>2. Event[1] = Clock
      BY <2>3, <2>9, <2>11, <3>1, WellFormedFacts
    <3>3. Remaining' = OtherEvents
      BY <2>2, <2>3, <2>4, <3>2, Cat
    <3> QED
      BY <2>3, <2>10, <2>11, <3>2, <3>3
  <2>12. pc' # "idle"
    BY <2>1
  <2> QED
    BY <1>1, <2>1, <2>8, <2>10, <2>11, <2>12 DEF Onward
<1> QED
  BY <1>3, <1>4

\* Four data bytes are copied, or the event is going to be written byte by byte.
LEMMA CopyMoves == ASSUME Good, Reading', FastCopy \/ SlowCopy PROVE Onward
<1>1. /\ pc = "event" /\ rest # <<>> /\ sysex_in_progress /\ sysex_in_progress'
      /\ UNCHANGED <<backend, past>> /\ backend' = backend
  BY DEF FastCopy, SlowCopy, AtEvent, NoCall
<1>2. CASE FastCopy
  <2>1. /\ pc' = "event" /\ rest' = OtherEvents /\ bits' = 0 /\ msg' = msg /\ errors' = errors
        /\ driver' = [driver EXCEPT !.part = driver.part \o Event] /\ AllData(Event)
    BY <1>2 DEF FastCopy, NextEvent, Goto
  <2>2. /\ Event \in Seq(Byte) /\ Len(Event) = 4 /\ OtherEvents \in Seq(Byte)
        /\ \A i \in 1..4 : Event[i] = rest[i]
        /\ rest = Event \o OtherEvents
        /\ RestOf(OtherEvents, 0, msg) = OtherEvents \o msg /\ OtherEvents \o msg \in Seq(Byte)
    BY <1>1, AtEventFacts, GoodFacts
  <2>3. WellFormed(Event[1], Event[2], Event[3], Event[4])
    BY <1>1, EventIsWellFormed, GoodFacts
  <2>4. \A i \in 1..4 : Event[i] \in Data
    <3>1. /\ ~IsStatus(Event[1]) /\ ~IsStatus(Event[2])
          /\ ~IsStatus(Event[3]) /\ ~IsStatus(Event[4])
      BY <2>1 DEF AllData
    <3>2. IsStatus(Eox)
      BY DEF IsStatus, Eox
    <3>3. Event[1] \in Data
      BY <2>3, <3>1, WellFormedFacts
    <3>4. Event[1] \notin {Note, Clock, Eox, Unused}
      BY <3>3 DEF Data, Note, Clock, Eox, Unused
    <3>5. Event[2] \in Data
      BY <2>3, <3>1, <3>2, <3>4, WellFormedFacts
    <3>6. Event[2] \notin {Eox, Unused}
      BY <3>5 DEF Data, Eox, Unused
    <3>7. Event[3] \in Data
      BY <2>3, <3>1, <3>2, <3>4, <3>6, WellFormedFacts
    <3>8. Event[3] \notin {Eox, Unused}
      BY <3>7 DEF Data, Eox, Unused
    <3>9. Event[4] \in Data
      BY <2>3, <3>1, <3>2, <3>4, <3>8, WellFormedFacts
    <3>10. \A i \in 1..4 : i = 1 \/ i = 2 \/ i = 3 \/ i = 4
      OBVIOUS
    <3> QED
      BY <3>3, <3>5, <3>7, <3>9, <3>10
  <2>5. Sent(Event) = Event
    <3>1. DOMAIN Event = 1..4
      BY <2>2, LenProperties
    <3>2. \A k \in DOMAIN Event : Event[k] \in Byte /\ Event[k] \notin {Unused, Clock}
      BY <2>4, <3>1, ByteFacts DEF Data, Unused, Clock
    <3>3. \A k \in DOMAIN Event : Passes(Event[k], backend)
      BY <3>2, PassFacts
    <3> QED
      BY <2>2, <3>3, SentFacts DEF Sent
  <2>6. Line(driver') = Line(driver) \o Event
    <3> DEFINE part == driver.part
               e    == Event
    <3>1. part \in Seq(Byte) /\ Out(driver) \in Seq(Byte) /\ e \in Seq(Byte)
      BY <2>2, GoodFacts
    <3>2. part \o e \in Seq(Byte)
      BY <3>1, Cat
    <3>3. driver'.part = part \o e /\ driver'.list = driver.list /\ driver'.wire = driver.wire
      <4> DEFINE new == part \o e
      <4>1. new \in Seq(Byte) /\ driver' = [driver EXCEPT !.part = new] /\ driver \in Driver
        BY <2>1, <3>2, GoodFacts
      <4> HIDE DEF new
      <4>2. driver'.part = new /\ driver'.list = driver.list /\ driver'.wire = driver.wire
        BY <4>1, ChangeFacts
      <4> QED
        BY <4>2 DEF new
    <3>4. Out(driver') = Out(driver)
      BY <3>3 DEF Out
    <3> DEFINE a == Out(driver)
    <3>5. a \in Seq(Byte)
      BY <3>1
    <3> HIDE DEF a, e, part
    <3>6. (a \o part) \o e = a \o (part \o e)
      BY <3>1, <3>5, CatCat
    <3> QED
      BY <3>3, <3>4, <3>6 DEF Line, a, e, part
  <2>7. Stream = Line(driver) /\ Stream' = Line(driver') /\ Stream \in Seq(Byte)
    BY <1>1, <2>1, GoodFacts DEF Stream
  <2>8. Remaining = Event \o (OtherEvents \o msg)
    <3>1. Remaining = (Event \o OtherEvents) \o msg
      BY <1>1, <2>2, GoodFacts
    <3>2. msg \in Seq(Byte)
      BY GoodFacts
    <3> DEFINE a == Event
               b == OtherEvents
    <3>3. a \in Seq(Byte) /\ b \in Seq(Byte)
      BY <2>2
    <3> HIDE DEF a, b
    <3>4. (a \o b) \o msg = a \o (b \o msg)
      BY <3>2, <3>3, CatCat
    <3> QED
      BY <3>1, <3>4 DEF a, b
  <2>9. Remaining' = OtherEvents \o msg
    BY <2>1, <2>2 DEF Remaining
  <2>10. Flow' = Flow
    <3>1. Stream' = Stream \o Sent(Event)
      BY <2>5, <2>6, <2>7
    <3>2. SentTo(backend, Remaining') = Sent(OtherEvents \o msg)
      BY <2>9 DEF Sent
    <3> QED
      BY <1>1, <2>2, <2>7, <2>8, <3>1, <3>2, PassedOn DEF Flow
  <2>11. pc' # "first"
    BY <2>1
  <2> QED
    BY <1>1, <2>1, <2>10, <2>11, InsideOnward
<1>3. CASE SlowCopy
  <2>1. /\ pc' = "bytes" /\ rest' = rest /\ bits' = 0 /\ msg' = msg /\ errors' = errors
        /\ driver' = driver
    BY <1>3 DEF SlowCopy, Goto, NoCall
  <2>2. Remaining' = Remaining
    BY <1>1, <2>1, GoodFacts DEF Remaining
  <2>3. Stream' = Stream
    BY <1>1, <2>1 DEF Stream
  <2>4. Flow' = Flow
    BY <1>1, <2>2, <2>3, NonePassed DEF Sent
  <2>5. pc' # "first"
    BY <2>1
  <2> QED
    BY <1>1, <2>1, <2>4, <2>5, InsideOnward
<1> QED
  BY <1>2, <1>3

\* One byte; behind EOX the rest of the event is not sent.
LEMMA WriteByteMoves == ASSUME Good, Reading', WriteByte PROVE Onward \/ Stopped
<1> DEFINE byte == Event[bits + 1]
<1>1. PICK o \in write_byte(byte) :
        /\ driver' = o.driver /\ UNCHANGED <<backend, past>>
        /\ sysex_in_progress' = sysex_in_progress
        /\ ~o.ok => Return("pmHostError")
        /\ o.ok => IF byte = Eox THEN Goto("end", OtherEvents, 0)
                   ELSE IF bits = 3 THEN NextEvent ELSE Goto("bytes", rest, bits + 1)
  BY DEF WriteByte, Call
<1>2. /\ pc = "bytes" /\ rest # <<>> /\ bits \in 0..3 /\ sysex_in_progress
      /\ Reading /\ Base /\ rest[1] # Clock
  <2>1. pc = "bytes" /\ sysex_in_progress /\ Base /\ Reading /\ rest # <<>> /\ bits \in 0..3
    BY SmallSeqs, GoodFacts DEF WriteByte, Place, Base, Types
  <2> QED
    BY <2>1, GoodFacts
<1>3. /\ byte = rest[bits + 1] /\ rest[1] \notin {Note, Clock}
      /\ byte \in {Eox} \union Data
  BY <1>2, ByteContent
<1>4. byte \in Byte /\ byte \notin {Unused, Clock, Sysex}
  BY <1>3, ByteFacts DEF Unused, Clock, Sysex, Data, Eox
<1> DEFINE r == RestOf(rest, bits + 1, msg)
<1>5. /\ Remaining = <<byte>> \o r /\ r \in Seq(Byte) /\ RestOf(rest, 4, msg) \in Seq(Byte)
      /\ Len(rest) >= 4
  <2>1. Len(rest) >= 4 /\ rest \in Seq(Byte) /\ msg \in Seq(Byte)
    BY <1>2, AtEventFacts
  <2>2. /\ RestOf(rest, bits, msg) = <<rest[bits + 1]>> \o RestOf(rest, bits + 1, msg)
        /\ RestOf(rest, bits + 1, msg) \in Seq(Byte) /\ RestOf(rest, 4, msg) \in Seq(Byte)
    BY <1>2, <2>1, ByteStep
  <2> QED
    BY <1>3, <2>1, <2>2 DEF Remaining
<1>6. CASE ~o.ok
  BY <1>1, <1>6, ReturnStopped
<1>7. CASE o.ok
  <2>1. Line(driver') = Line(driver) \o <<byte>>
    BY <1>1, <1>4, <1>7, WriteByteFacts, GoodFacts
  <2>2. /\ errors' = errors /\ msg' = msg /\ pc' \in {"end", "event", "bytes"} /\ backend' = backend
        /\ \/ byte = Eox /\ rest' = OtherEvents /\ bits' = 0
           \/ bits = 3 /\ rest' = OtherEvents /\ bits' = 0
           \/ rest' = rest /\ bits' = bits + 1
    BY <1>1, <1>7 DEF NextEvent, Goto
  <2>3. SentTo(backend, Remaining') = Sent(r)
    <3>1. CASE rest' = rest /\ bits' = bits + 1
      BY <2>2, <3>1 DEF Remaining, Sent
    <3>2. ASSUME rest' = OtherEvents, bits' = 0 PROVE Remaining' = RestOf(rest, 4, msg)
      BY <1>2, <2>2, <3>2, AtEventFacts DEF Remaining
    <3>3. CASE bits = 3 /\ rest' = OtherEvents /\ bits' = 0
      <4>1. bits + 1 = 4
        BY <3>3
      <4> QED
        BY <3>2, <3>3, <4>1 DEF Sent
    <3>4. CASE byte = Eox /\ rest' = OtherEvents /\ bits' = 0
      <4>1. SentTo(backend, RestOf(rest, bits + 1, msg)) = SentTo(backend, RestOf(rest, 4, msg))
        <5>1. WellFormed(rest[1], rest[2], rest[3], rest[4])
          BY <1>2, EventIsWellFormed
        <5>2. rest \in Seq(Byte) /\ msg \in Seq(Byte)
          BY GoodFacts
        <5>3. rest[bits + 1] = Eox
          BY <1>3, <3>4
        <5> QED
          BY <1>2, <1>3, <1>5, <5>1, <5>2, <5>3, SentAfterEox
      <4> QED
        BY <3>2, <3>4, <4>1 DEF Sent
    <3> QED
      BY <2>2, <3>1, <3>3, <3>4
  <2> HIDE DEF r, byte
  <2>4. <<byte>> \in Seq(Byte) /\ Sent(<<byte>>) = <<byte>>
    BY <1>4, SmallSeqs, SentByte DEF Sent
  <2>5. Stream = Line(driver) /\ Stream' = Line(driver') /\ Stream \in Seq(Byte)
    BY <1>1, <1>2, <2>2, GoodFacts DEF Stream
  <2>6. Stream' = Stream \o Sent(<<byte>>)
    BY <2>1, <2>4, <2>5
  <2>7. Flow' = Flow
    BY <1>5, <2>2, <2>3, <2>4, <2>5, <2>6, PassedOn DEF Flow
  <2>8. pc' # "first"
    BY <2>2
  <2> QED
    BY <1>1, <1>2, <2>2, <2>7, <2>8, InsideOnward
<1> QED
  BY <1>6, <1>7

\* What the backend has gathered of the message is on its way.
LEMMA EndMoves == ASSUME Good, Reading', pm_end_sysex PROVE Onward \/ Stopped
<1>1. PICK o \in end_sysex :
        /\ driver' = o.driver /\ UNCHANGED <<backend, past>>
        /\ o.ok => Goto("event", rest, 0)
        /\ ~o.ok => Return("pmHostError")
  BY DEF pm_end_sysex, Call
<1>2. pc = "end" /\ ~sysex_in_progress' /\ sysex_in_progress
  BY GoodFacts DEF pm_end_sysex, Place
<1>3. CASE ~o.ok
  BY <1>1, <1>3, ReturnStopped
<1>4. CASE o.ok
  <2>1. /\ pc' = "event" /\ rest' = rest /\ bits' = 0 /\ msg' = msg /\ errors' = errors
        /\ backend' = backend
    BY <1>1, <1>4 DEF Goto
  <2>2. Remaining' = Remaining
    BY <1>2, <2>1, GoodFacts DEF Remaining
  <2>3. /\ driver' \in Driver /\ driver'.part = <<>> /\ Line(driver') = Line(driver)
    <3>1. /\ Fits(driver') /\ Line(driver') = Line(driver)
          /\ backend = "alsa" => driver' = driver
          /\ backend # "alsa" => driver'.part = <<>>
      BY <1>1, <1>4, EndFacts, GoodFacts
    <3>2. backend = "alsa" => driver.part = <<>>
      BY <1>2, GoodFacts DEF Content
    <3> QED
      BY <3>1, <3>2 DEF Fits
  <2>4. Stream' = Stream
    <3>1. Stream' = Out(driver') /\ Stream = Line(driver)
      BY <1>2, <2>1 DEF Stream
    <3> QED
      BY <2>3, <3>1, LineFacts
  <2>5. Flow' = Flow
    BY <2>1, <2>2, <2>4, NonePassed DEF Sent
  <2>6. Settled'
    BY <2>3 DEF Settled
  <2> QED
    BY <1>1, <2>1, <2>5, <2>6 DEF Onward
<1> QED
  BY <1>3, <1>4

\* The call returns.
LEMMA WriteFlushMoves == ASSUME Good, Reading', WriteFlush PROVE Onward \/ Stopped
<1>1. /\ pc = "event" /\ rest = <<>> /\ sysex_in_progress' = sysex_in_progress
      /\ UNCHANGED <<backend, past>> /\ backend' = backend
      /\ \/ Return("pmHostError")
         \/ sysex_in_progress /\ driver' = driver /\ Return("pmNoError")
         \/ /\ ~sysex_in_progress /\ Return("pmNoError")
            /\ \E o \in write_flush : o.ok /\ driver' = o.driver
  BY DEF WriteFlush, Call, NoCall
<1>2. CASE Return("pmHostError")
  BY <1>2, ReturnStopped
<1>3. ASSUME Return("pmNoError")
      PROVE  /\ pc' \in {"idle", "fill", "chunk"} /\ errors' = errors
             /\ Remaining' = Remaining
  <2>1. /\ rest' = <<>> /\ bits' = 0 /\ msg' = msg
        /\ pc' \in {"idle", "fill", "chunk"} /\ errors' = errors
    BY <1>3 DEF Return
  <2> QED
    BY <1>1, <2>1, GoodFacts DEF Remaining
<1>4. CASE sysex_in_progress /\ driver' = driver /\ Return("pmNoError")
  <2>1. Stream' = Stream
    BY <1>1, <1>3, <1>4 DEF Stream
  <2>2. Flow' = Flow
    BY <1>1, <1>3, <1>4, <2>1, NonePassed DEF Sent
  <2>3. pc' # "first"
    BY <1>3, <1>4
  <2> QED
    BY <1>1, <1>3, <1>4, <2>2, <2>3, InsideOnward
<1>5. CASE /\ ~sysex_in_progress /\ Return("pmNoError")
           /\ \E o \in write_flush : o.ok /\ driver' = o.driver
  <2>1. /\ Fits(driver') /\ Line(driver') = Line(driver) /\ driver'.list = <<>>
        /\ backend # "winmm" => driver'.part = driver.part /\ Out(driver') = Out(driver)
        /\ backend = "winmm" => driver'.part = <<>>
    BY <1>5, FlushFacts, GoodFacts
  <2>2. driver'.part = driver.part /\ Out(driver') = Out(driver)
    <3>1. CASE backend = "winmm"
      <4>1. driver.part = <<>>
        BY <1>5, <3>1 DEF Good, Settled
      <4>2. Line(driver) = Out(driver) /\ Line(driver') = Out(driver')
        BY <2>1, <3>1, <4>1, LineFacts, GoodFacts DEF Fits
      <4> QED
        BY <2>1, <3>1, <4>1, <4>2
    <3> QED
      BY <2>1, <3>1
  <2>3. Stream' = Stream
    BY <1>1, <1>3, <1>5, <2>2 DEF Stream
  <2>4. Flow' = Flow
    BY <1>1, <1>3, <1>5, <2>3, NonePassed DEF Sent
  <2>5. (Settled => Settled') /\ (~Settled' => ~Settled)
    BY <1>1, <1>5, <2>2 DEF Settled
  <2>6. SentTo(backend, Remaining') = Sent(Remaining)
    BY <1>3, <1>5 DEF Sent
  <2> QED
    BY <1>1, <1>3, <1>5, <2>1, <2>4, <2>5, <2>6 DEF Onward
<1> QED
  BY <1>1, <1>2, <1>4, <1>5

\* A byte is in neither part or it is in the whole.
LEMMA LacksCat ==
  ASSUME NEW a \in Seq(Byte), NEW b \in Seq(Byte), NEW byte
  PROVE  Lacks(a \o b, byte) <=> Lacks(a, byte) /\ Lacks(b, byte)
<1> DEFINE c == a \o b
<1>1. /\ \A i \in DOMAIN a : i \in DOMAIN c /\ c[i] = a[i]
      /\ \A j \in DOMAIN b : Len(a) + j \in DOMAIN c /\ c[Len(a) + j] = b[j]
      /\ \A k \in DOMAIN c : k \in DOMAIN a \/ \E j \in DOMAIN b : k = Len(a) + j
  BY CatIndex
<1> HIDE DEF c
<1>2. Lacks(c, byte) => Lacks(a, byte) /\ Lacks(b, byte)
  BY <1>1 DEF Lacks
<1>3. (Lacks(a, byte) /\ Lacks(b, byte)) => Lacks(c, byte)
  BY <1>1 DEF Lacks
<1> QED
  BY <1>2, <1>3 DEF c

\* A chunk of a message and its padding.
LEMMA ChunkMoves ==
  ASSUME NEW to, NEW m \in Seq(Byte), NEW n \in 0..Len(m)
  PROVE  LET p == Padded(SubSeq(m, 1, n))
             r == SubSeq(m, n + 1, Len(m))
         IN  /\ SentTo(to, p \o r) = SentTo(to, m)
             /\ p \in Seq(Byte) /\ r \in Seq(Byte)
             /\ Lacks(m, Sysex) => Lacks(p \o r, Sysex)
<1> DEFINE a == SubSeq(m, 1, n)
           r == SubSeq(m, n + 1, Len(m))
           p == Padded(a)
<1>1. a \in Seq(Byte) /\ r \in Seq(Byte) /\ a \o r = m
  BY Cut
<1> HIDE DEF a, r
<1>2. PICK pads \in Seq(Byte) : p = a \o pads /\ \A k \in DOMAIN pads : pads[k] = Unused
  BY <1>1, PaddedFacts
<1>3. p \in Seq(Byte)
  BY <1>1, PaddedFacts
<1> HIDE DEF p
<1>4. SentTo(to, pads) = <<>>
  BY <1>2, SentFacts, PassFacts
<1>5. SentTo(to, p) = SentTo(to, a) \o <<>> /\ SentTo(to, a) \in Seq(Byte)
  <2>1. SentTo(to, a \o pads) = SentTo(to, a) \o SentTo(to, pads)
    BY <1>1, SentCat
  <2> QED
    BY <1>1, <1>2, <1>4, <2>1, SentFacts
<1>6. SentTo(to, p) = SentTo(to, a)
  BY <1>5, Cat
<1>7. SentTo(to, p \o r) = SentTo(to, m)
  <2>1. SentTo(to, p \o r) = SentTo(to, p) \o SentTo(to, r)
    BY <1>1, <1>3, SentCat
  <2>2. SentTo(to, a \o r) = SentTo(to, a) \o SentTo(to, r)
    BY <1>1, SentCat
  <2> QED
    BY <1>1, <1>6, <2>1, <2>2
<1>8. ASSUME Lacks(m, Sysex) PROVE Lacks(p \o r, Sysex)
  <2>1. Lacks(a, Sysex) /\ Lacks(r, Sysex)
    BY <1>1, <1>8, LacksCat
  <2>2. Lacks(pads, Sysex)
    BY <1>2 DEF Lacks, Sysex, Unused
  <2>3. Lacks(p, Sysex)
    BY <1>1, <1>2, <2>1, <2>2, LacksCat
  <2> QED
    BY <1>1, <1>3, <2>1, <2>3, LacksCat
<1> QED
  BY <1>1, <1>3, <1>7, <1>8 DEF a, r, p

\* Pm_WriteSysEx passes a chunk to Pm_Write.
LEMMA WriteChunkMoves == ASSUME Good, Reading', WriteChunk PROVE Onward \/ Stopped
<1> DEFINE n == Min({ChunkBytes, Len(msg)})
           p == Padded(SubSeq(msg, 1, n))
           r == SubSeq(msg, n + 1, Len(msg))
<1>1. /\ pc = "chunk" /\ sysex_in_progress' = sysex_in_progress /\ driver' = driver
      /\ UNCHANGED <<backend, past>> /\ backend' = backend
      /\ \/ Return("pmDeviceRemoved")
         \/ /\ pc' = "event" /\ rest' = p /\ bits' = 0 /\ msg' = r /\ errors' = errors
  BY DEF WriteChunk
<1>2. n \in 0..Len(msg) /\ msg \in Seq(Byte) /\ rest = <<>>
  BY ChunkFacts, GoodFacts DEF Place, WriteChunk
<1> HIDE DEF n
<1>3. /\ SentTo(backend, p \o r) = SentTo(backend, msg)
      /\ p \in Seq(Byte) /\ r \in Seq(Byte)
      /\ Lacks(msg, Sysex) => Lacks(p \o r, Sysex)
  BY <1>2, ChunkMoves
<1> HIDE DEF p, r
<1>4. CASE Return("pmDeviceRemoved")
  BY <1>4, ReturnStopped
<1>5. CASE pc' = "event" /\ rest' = p /\ bits' = 0 /\ msg' = r /\ errors' = errors
  <2>1. Remaining = msg /\ Remaining' = p \o r
    <3>1. RestOf(p, 0, r) = p \o r
      BY <1>3, RestFacts
    <3> QED
      BY <1>2, <1>5, <3>1, GoodFacts DEF Remaining
  <2>2. SentTo(backend, Remaining') = Sent(Remaining)
    BY <1>3, <2>1 DEF Sent
  <2>3. Stream' = Stream
    BY <1>1, <1>5 DEF Stream
  <2>4. Flow' = Flow
    BY <1>1, <2>2, <2>3, NonePassed
  <2>5. (Settled => Settled') /\ (~Settled' => ~Settled)
    BY <1>1, <1>5 DEF Settled
  <2> QED
    BY <1>1, <1>3, <1>5, <2>1, <2>2, <2>4, <2>5 DEF Onward
<1> QED
  BY <1>1, <1>4, <1>5

\* It fills the rest of a buffer of WinMM itself.
LEMMA FillMoves == ASSUME Good, Reading', Fill PROVE Onward
<1> DEFINE n == Max({0, Min({fill_length - Len(driver.part), Len(msg)})})
           b == SubSeq(msg, 1, n)
           r == SubSeq(msg, n + 1, Len(msg))
<1>1. /\ pc = "fill" /\ sysex_in_progress' = sysex_in_progress
      /\ UNCHANGED <<backend, past>> /\ backend' = backend
      /\ driver' = [driver EXCEPT !.part = driver.part \o b]
      /\ pc' \in {"filled", "chunk"} /\ rest' = rest /\ bits' = bits /\ msg' = r /\ errors' = errors
  BY DEF Fill, AfterFill
<1>2. /\ n \in 0..Len(msg) /\ msg \in Seq(Byte) /\ rest = <<>> /\ bits = 0 /\ sysex_in_progress
      /\ IsMessage(msg)
  BY <1>1, FillFacts, GoodFacts DEF Place, Content
<1> HIDE DEF n
<1>3. b \in Seq(Byte) /\ r \in Seq(Byte) /\ b \o r = msg /\ Sent(b) = b
  BY <1>2, Cut, SentMessage DEF Sent
<1> HIDE DEF b, r
<1>4. Line(driver') = Line(driver) \o b
  <2> DEFINE part == driver.part
             a    == Out(driver)
  <2>1. part \in Seq(Byte) /\ a \in Seq(Byte)
    BY GoodFacts
  <2>2. part \o b \in Seq(Byte)
    BY <1>3, <2>1, Cat
  <2>3. driver'.part = part \o b /\ driver'.list = driver.list /\ driver'.wire = driver.wire
    <3> DEFINE new == part \o b
    <3>1. new \in Seq(Byte) /\ driver' = [driver EXCEPT !.part = new] /\ driver \in Driver
      BY <1>1, <2>2, GoodFacts
    <3> HIDE DEF new
    <3>2. driver'.part = new /\ driver'.list = driver.list /\ driver'.wire = driver.wire
      BY <3>1, ChangeFacts
    <3> QED
      BY <3>2 DEF new
  <2>4. Out(driver') = a
    BY <2>3 DEF Out
  <2> HIDE DEF a, part
  <2>5. (a \o part) \o b = a \o (part \o b)
    BY <1>3, <2>1, CatCat
  <2> QED
    BY <2>3, <2>4, <2>5 DEF Line, a, part
<1>5. Stream = Line(driver) /\ Stream' = Line(driver') /\ Stream \in Seq(Byte)
  BY <1>1, <1>2, GoodFacts DEF Stream
<1>6. Remaining = b \o r /\ Remaining' = r
  <2>1. RestOf(<<>>, 0, r) = r
    BY <1>3, RestFacts, SmallSeqs
  <2> QED
    BY <1>1, <1>2, <1>3, <2>1, GoodFacts DEF Remaining
<1>7. Flow' = Flow
  <2>1. Stream' = Stream \o Sent(b) /\ SentTo(backend, Remaining') = Sent(r)
    BY <1>3, <1>4, <1>5, <1>6 DEF Sent
  <2> QED
    BY <1>1, <1>3, <1>5, <1>6, <2>1, PassedOn DEF Flow
<1>8. pc' # "first"
  BY <1>1
<1> QED
  BY <1>1, <1>2, <1>7, <1>8, InsideOnward

\* The message has ended in that buffer.
LEMMA FilledToEndMoves == ASSUME Good, Reading', FilledToEnd PROVE Onward \/ Stopped
<1>1. PICK o \in end_sysex :
        /\ driver' = o.driver /\ UNCHANGED <<backend, past>>
        /\ o.ok => Return("pmNoError")
        /\ ~o.ok => Return("pmHostError")
  BY DEF FilledToEnd, Call
<1>2. /\ pc = "filled" /\ ~sysex_in_progress' /\ sysex_in_progress /\ backend = "winmm"
      /\ rest = <<>> /\ msg = <<>>
  BY GoodFacts DEF FilledToEnd, Place
<1>3. CASE ~o.ok
  BY <1>1, <1>3, ReturnStopped
<1>4. CASE o.ok
  <2>1. /\ pc' = "idle" /\ rest' = <<>> /\ bits' = 0 /\ msg' = <<>> /\ errors' = errors
        /\ backend' = backend
    BY <1>1, <1>2, <1>4 DEF Return
  <2>2. Remaining' = Remaining
    BY <1>2, <2>1, GoodFacts DEF Remaining
  <2>3. Fits(driver') /\ driver'.part = <<>> /\ Line(driver') = Line(driver)
    BY <1>1, <1>2, <1>4, EndFacts, GoodFacts
  <2>4. driver' \in Driver /\ driver'.list = <<>>
    BY <1>2, <2>3 DEF Fits
  <2>5. Stream' = Stream
    <3>1. Stream' = Out(driver') /\ Stream = Line(driver)
      BY <1>2, <2>1 DEF Stream
    <3> QED
      BY <2>3, <2>4, <3>1, LineFacts
  <2>6. Flow' = Flow
    BY <2>1, <2>2, <2>5, NonePassed DEF Sent
  <2>7. Settled'
    BY <2>3 DEF Settled
  <2> QED
    BY <1>1, <2>1, <2>4, <2>6, <2>7 DEF Onward
<1> QED
  BY <1>3, <1>4

\* Every step of a call.
LEMMA CallMoves == ASSUME Good, Reading', InCall PROVE Onward \/ Stopped
<1>1. ASSUME RealTimeInSysex PROVE FALSE
  <2>1. AtEvent /\ sysex_in_progress /\ IsRealTime(Event[1])
    BY <1>1 DEF RealTimeInSysex
  <2>2. pc = "event" /\ rest # <<>> /\ rest[1] # Clock
    BY <2>1, GoodFacts DEF AtEvent
  <2>3. WellFormed(Event[1], Event[2], Event[3], Event[4]) /\ Event[1] = rest[1]
    BY <2>2, EventIsWellFormed, GoodFacts
  <2> QED
    BY <2>1, <2>2, <2>3, WellFormedFacts
<1>2. ASSUME NestedSysex \/ StrayData \/ SysexCut PROVE Stopped
  <2>1. Return("pmBadData")
    BY <1>2 DEF NestedSysex, StrayData, SysexCut, Call
  <2> QED
    BY <2>1, ReturnStopped
<1> QED
  BY <1>1, <1>2, SysexStartMoves, FirstByteMoves, ShortEventMoves, CopyMoves, WriteByteMoves,
     EndMoves, WriteFlushMoves, WriteChunkMoves, FillMoves, FilledToEndMoves
     DEF InCall, Pm_Write_step

-----------------------------------------------------------------------------
(* What holds in every state, of all that was written.                     *)

\* An error ends a call; nothing is claimed of it.
LEMMA StoppedKeeps == ASSUME errors \in Nat, Stopped PROVE Complete' /\ Behind'
<1>1. errors' # 0 /\ pc' = "idle" /\ result' # "pmNoError"
  BY DEF Stopped
<1>2. Complete'
  BY <1>1 DEF Complete
<1>3. Behind'
  BY <1>1 DEF Behind
<1> QED
  BY <1>2, <1>3

\* A call that goes on, or that ends without an error.
LEMMA OnwardKeeps ==
  ASSUME Good, Complete, Behind, Reading', pc # "idle", Onward
  PROVE  Complete' /\ Behind'
<1>1. /\ errors' = errors /\ backend' = backend /\ intended' = intended /\ before' = before
      /\ embedded' = embedded /\ calls' = calls
  BY DEF Onward, past
<1>2. ASSUME errors' = 0, ~embedded' PROVE Complete'
  <2>1. Flow = Sent(intended) /\ Settled
    BY <1>1, <1>2 DEF Complete
  <2>2. Flow' = Flow /\ Settled' /\ (pc' = "idle" /\ ~sysex_in_progress' => driver'.list = <<>>)
    BY <2>1 DEF Onward, Settled
  <2>3. Flow' = SentTo(backend', intended')
    BY <1>1, <2>1, <2>2 DEF Sent
  <2> QED
    BY <2>2, <2>3 DEF Complete, Sent
<1>3. Complete'
  BY <1>2 DEF Complete
<1>4. ASSUME InLastCall' PROVE InLastCall /\ SentTo(backend', LastCall') = Sent(LastCall)
  BY <1>1, <1>4 DEF InLastCall, LastCall, Sent
<1>5. ASSUME InLastCall' PROVE Ends(SentTo(backend', LastCall'), Flow')
  <2>1. Ends(Sent(LastCall), Flow)
    BY <1>4, <1>5 DEF Behind
  <2>2. CASE Flow' = Flow
    BY <1>4, <1>5, <2>1, <2>2
  <2>3. CASE /\ pc = "first" /\ backend = "alsa" /\ driver.part # <<>>
             /\ Flow' = Line(driver) \o Sent(Remaining)
    <3>1. ~Settled
      BY <2>3 DEF Settled
    <3>2. Untouched \/ Lacks(Remaining, Sysex)
      BY <1>4, <1>5, <2>3, <3>1 DEF Behind
    <3>3. ~Lacks(Remaining, Sysex)
      <4>1. /\ rest \in Seq(Byte) /\ msg \in Seq(Byte) /\ Remaining = rest \o msg
            /\ Len(rest) > 0 /\ rest[1] = Sysex
        BY <2>3, GoodFacts DEF Place, Content
      <4>2. 1 \in DOMAIN rest
        BY <4>1, LenProperties
      <4>3. ~Lacks(rest, Sysex)
        BY <4>1, <4>2 DEF Lacks
      <4> QED
        BY <4>1, <4>3, LacksCat
    <3>4. Flow' = Line(driver) \o SentTo(backend', LastCall')
      BY <1>4, <1>5, <2>3, <3>2, <3>3 DEF Untouched
    <3>5. Line(driver) \in Seq(Byte)
      BY GoodFacts
    <3> QED
      BY <3>4, <3>5 DEF Ends
  <2> QED
    BY <2>2, <2>3 DEF Onward
<1>6. ASSUME pc' = "idle", ~sysex_in_progress' PROVE Flow' = driver'.wire /\ driver'.list = <<>>
  <2>1. driver'.list = <<>>
    BY <1>6 DEF Onward
  <2>2. driver' \in Driver /\ rest' = <<>> /\ msg' = <<>> /\ bits' = 0
    BY <1>6 DEF Reading, Base, Capacity, Fits, Place
  <2>3. Remaining' = <<>>
    BY <2>2, RestFacts, SmallSeqs DEF Remaining
  <2>4. SentTo(backend', Remaining') = <<>>
    BY <2>3, SentByte
  <2>5. Stream' = driver'.wire
    BY <1>6, <2>1, <2>2, LineFacts DEF Stream
  <2>6. driver'.wire \in Seq(Byte)
    BY <2>2, DriverFacts
  <2>7. Flow' = driver'.wire \o <<>>
    BY <2>4, <2>5 DEF Flow, Sent
  <2>8. driver'.wire \o <<>> = driver'.wire
    BY <2>6, Cat
  <2> QED
    BY <2>1, <2>7, <2>8
<1>7. ASSUME InLastCall', backend' = "alsa", ~Settled'
      PROVE  SentTo(backend', Remaining') = SentTo(backend', LastCall') \/ Lacks(Remaining', Sysex)
  <2>1. /\ ~Settled
        /\ \/ Lacks(Remaining', Sysex)
           \/ /\ SentTo(backend, Remaining') = Sent(Remaining)
              /\ Lacks(Remaining, Sysex) => Lacks(Remaining', Sysex)
    BY <1>1, <1>7 DEF Onward
  <2>2. Untouched \/ Lacks(Remaining, Sysex)
    BY <1>1, <1>4, <1>7, <2>1 DEF Behind
  <2> QED
    BY <1>1, <1>4, <1>7, <2>1, <2>2 DEF Untouched
<1>8. Behind'
  <2>1. ASSUME InLastCall', pc' # "idle" PROVE Ends(Sent(LastCall), Flow)'
    BY <1>5, <2>1 DEF Sent
  <2>2. ASSUME InLastCall', pc' = "idle", ~sysex_in_progress'
        PROVE  Ends(Sent(LastCall), driver.wire)' /\ driver'.list = <<>>
    BY <1>5, <1>6, <2>2 DEF Sent
  <2>3. ASSUME InLastCall', backend' = "alsa", ~Settled'
        PROVE  Untouched' \/ Lacks(Remaining', Sysex)
    BY <1>7, <2>3 DEF Untouched, Sent
  <2> QED
    BY <2>1, <2>2, <2>3 DEF Behind
<1> QED
  BY <1>3, <1>8

\* A call that begins.
LEMMA NewCall ==
  ASSUME IInv, pc = "idle", NEW bytes \in Seq(Raw), Record(bytes),
         Remaining' = Numbered(bytes), pc' \in {"event", "chunk"},
         UNCHANGED <<sysex_in_progress, driver, backend, errors>>
  PROVE  Complete' /\ Behind'
<1> DEFINE new == Numbered(bytes)
<1>1. /\ rest = <<>> /\ msg = <<>> /\ bits = 0 /\ driver \in Driver /\ intended \in Seq(Byte)
      /\ data \in Nat
  BY DEF IInv, Place, Capacity, Fits, PastTypes
<1>2. new \in Seq(Byte)
  BY <1>1, NumberedFacts
<1>3. /\ intended' = intended \o new /\ before'.sent = Len(intended)
      /\ ~embedded' => ~embedded
  BY DEF Record
<1> HIDE DEF new
<1>4. Out(driver) \in Seq(Byte) /\ Line(driver) \in Seq(Byte)
  BY <1>1, DriverFacts
<1>5. Stream \in Seq(Byte) /\ Stream' = Stream
  BY <1>4 DEF Stream
<1>6. Flow = Stream
  <2>1. Remaining = <<>>
    BY <1>1, RestFacts, SmallSeqs DEF Remaining
  <2>2. Sent(Remaining) = <<>>
    BY <2>1, SentByte DEF Sent
  <2> QED
    BY <1>5, <2>2, Cat DEF Flow
<1>7. Flow' = Stream \o Sent(new)
  BY <1>5 DEF Flow, Sent, new
<1>8. ASSUME errors' = 0, ~embedded' PROVE Complete'
  <2>1. Stream = Sent(intended) /\ Settled
    BY <1>3, <1>6, <1>8 DEF IInv, Complete
  <2>2. SentTo(backend, intended \o new) = SentTo(backend, intended) \o SentTo(backend, new)
    BY <1>1, <1>2, SentCat
  <2>3. Flow' = SentTo(backend', intended')
    BY <1>3, <1>7, <2>1, <2>2 DEF Sent
  <2>4. Settled'
    BY <2>1 DEF Settled
  <2> QED
    BY <2>3, <2>4 DEF Complete, Sent
<1>9. Complete'
  BY <1>8 DEF Complete
<1>10. LastCall' = new
  <2>1. LastCall' = SubSeq(intended \o new, Len(intended) + 1, Len(intended \o new))
    BY <1>3 DEF LastCall
  <2> DEFINE whole == intended \o new
  <2>2. /\ whole \in Seq(Byte) /\ Len(whole) = Len(intended) + Len(new)
        /\ Len(intended) \in Nat /\ Len(new) \in Nat
        /\ \A i \in 1..Len(intended) + Len(new) :
             whole[i] = IF i <= Len(intended) THEN intended[i] ELSE new[i - Len(intended)]
    BY <1>1, <1>2, ConcatProperties, LenProperties
  <2> HIDE DEF whole
  <2> DEFINE k == Len(intended)
             tail == SubSeq(whole, k + 1, Len(whole))
  <2>3. k \in 0..Len(whole) /\ Len(whole) - k = Len(new)
    BY <2>2
  <2>4. /\ tail \in Seq(Byte) /\ Len(tail) = Len(whole) - k
        /\ \A i \in 1..Len(whole) - k : tail[i] = whole[k + i]
    BY <2>2, <2>3, Cut
  <2>5. ASSUME NEW i \in 1..Len(new) PROVE tail[i] = new[i]
    <3>1. /\ k + i \in 1..Len(intended) + Len(new) /\ ~(k + i <= Len(intended))
          /\ (k + i) - Len(intended) = i
      BY <2>2
    <3>2. whole[k + i] = new[i]
      BY <2>2, <3>1
    <3> QED
      BY <2>3, <2>4, <3>2
  <2>6. tail = new
    <3>1. tail \in Seq(Byte) /\ Len(tail) = Len(new)
      BY <2>3, <2>4
    <3> HIDE DEF tail, k
    <3> QED
      BY <1>2, <2>5, <3>1, SeqEqual
  <2> QED
    BY <2>1, <2>6 DEF whole
<1>11. Ends(Sent(LastCall), Flow)'
  <2>1. SentTo(backend', LastCall') = Sent(new)
    BY <1>10 DEF Sent
  <2> QED
    BY <1>5, <1>7, <2>1 DEF Ends, Sent
<1>12. Untouched'
  BY <1>10 DEF Untouched, Sent, new
<1>13. Behind'
  BY <1>11, <1>12 DEF Behind
<1> QED
  BY <1>9, <1>13

\* Pm_Write is called.
LEMMA Pm_WriteKeeps == ASSUME IInv, Pm_Write PROVE Complete' /\ Behind'
<1>1. PICK buffer \in Buffers :
        /\ Record(buffer)
        /\ Return("pmDeviceRemoved") \/ Goto("event", Numbered(buffer), 0)
  BY DEF Pm_Write
<1>2. /\ pc = "idle" /\ msg = <<>> /\ errors \in Nat /\ data \in Nat
      /\ UNCHANGED <<sysex_in_progress, driver, backend>>
  BY DEF IInv, Place, PastTypes, Pm_Write
<1>3. buffer \in Seq(Raw)
  BY <1>2, NumberedEvents
<1>4. CASE Return("pmDeviceRemoved")
  BY <1>2, <1>4, ReturnStopped, StoppedKeeps
<1>5. CASE Goto("event", Numbered(buffer), 0)
  <2>1. /\ pc' = "event" /\ rest' = Numbered(buffer) /\ bits' = 0 /\ msg' = <<>>
        /\ errors' = errors
    BY <1>2, <1>5 DEF Goto
  <2>2. Numbered(buffer) \in Seq(Byte)
    BY <1>2, <1>3, NumberedFacts
  <2>3. RestOf(Numbered(buffer), 0, <<>>) = Numbered(buffer) \o <<>>
    BY <2>2, RestFacts, SmallSeqs
  <2>4. Remaining' = Numbered(buffer)
    BY <2>1, <2>2, <2>3, Cat DEF Remaining
  <2> QED
    BY <1>1, <1>2, <1>3, <2>1, <2>4, NewCall
<1> QED
  BY <1>1, <1>4, <1>5

\* Pm_WriteSysEx is called.
LEMMA Pm_WriteSysExKeeps == ASSUME IInv, Pm_WriteSysEx PROVE Complete' /\ Behind'
<1>1. PICK n \in SysexLengths : Record(SysexMessage(n)) /\ msg' = Numbered(SysexMessage(n))
  BY DEF Pm_WriteSysEx
<1>2. /\ pc = "idle" /\ rest = <<>> /\ bits = 0 /\ data \in Nat /\ pc' = "chunk"
      /\ UNCHANGED <<sysex_in_progress, driver, backend, errors, rest, bits>>
  BY DEF IInv, Place, PastTypes, Pm_WriteSysEx
<1>3. SysexMessage(n) \in Seq(Raw)
  BY OutputAssumption, SysexMessageFacts
<1>4. Numbered(SysexMessage(n)) \in Seq(Byte)
  BY <1>2, <1>3, NumberedFacts
<1>5. Remaining' = Numbered(SysexMessage(n))
  BY <1>1, <1>2, <1>4, RestFacts, SmallSeqs DEF Remaining
<1> QED
  BY <1>1, <1>2, <1>3, <1>5, NewCall

\* What a step of a call may change of the history.
LEMMA CallPast ==
  ASSUME InCall
  PROVE  UNCHANGED <<backend, past>> /\ errors' \in {errors, errors + 1} /\ pc # "idle"
<1>1. CASE Pm_Write_step \/ FilledToEnd
  <2>1. /\ UNCHANGED <<backend, past>>
        /\ \/ \E error : Return(error)
           \/ \E label, events, byte : Goto(label, events, byte)
    BY <1>1 DEF Pm_Write_step, FilledToEnd, NestedSysex, SysexStart, FirstByte, RealTimeInSysex,
                SysexCut, ShortEvent, StrayData, FastCopy, SlowCopy, WriteByte, pm_end_sysex,
                WriteFlush, Call, NoCall, NextEvent
  <2>2. errors' \in {errors, errors + 1}
    BY <2>1 DEF Return, Goto
  <2>3. pc # "idle"
    BY <1>1 DEF Pm_Write_step, FilledToEnd, NestedSysex, SysexStart, FirstByte, RealTimeInSysex,
                SysexCut, ShortEvent, StrayData, FastCopy, SlowCopy, WriteByte, pm_end_sysex,
                WriteFlush, AtEvent
  <2> QED
    BY <2>1, <2>2, <2>3
<1>2. CASE WriteChunk \/ Fill
  BY <1>2 DEF WriteChunk, Fill, Return
<1> QED
  BY <1>1, <1>2 DEF InCall

\* A step of a call.  After an error nothing is left to show for WinMM.
LEMMA CallKeeps == ASSUME IInv, Reading', InCall PROVE Complete' /\ Behind'
<1>1. /\ backend' = backend /\ embedded' = embedded /\ errors' \in {errors, errors + 1}
      /\ pc # "idle"
  BY CallPast DEF past
<1>2. errors \in Nat /\ Reading
  BY DEF IInv, PastTypes, Reading, Base
<1>3. CASE embedded
  BY <1>1, <1>3 DEF Complete, Behind, InLastCall
<1>4. CASE backend = "winmm" /\ errors # 0
  <2>1. errors' # 0
    BY <1>1, <1>2, <1>4
  <2> QED
    BY <1>1, <1>4, <2>1 DEF Complete, Behind, InLastCall
<1>5. CASE ~embedded /\ ~(backend = "winmm" /\ errors # 0)
  <2>1. Good
    BY <1>2, <1>5 DEF Good, IInv, Complete
  <2>2. CASE Onward
    BY <1>1, <2>1, <2>2, OnwardKeeps DEF IInv
  <2>3. CASE Stopped
    BY <1>2, <2>3, StoppedKeeps
  <2> QED
    BY <2>1, <2>2, <2>3, CallMoves
<1> QED
  BY <1>3, <1>4, <1>5

\* In every state.
LEMMA InvHolds == Spec => []IInv
<1>1. Init => IInv
  <2> SUFFICES ASSUME Init PROVE IInv
    OBVIOUS
  <2>1. Base /\ rest = <<>> /\ msg = <<>> /\ bits = 0 /\ pc = "idle"
    BY InitBase DEF Init
  <2>2. Content /\ NotEmbedded
    BY <2>1, EmptyContent DEF Content, NotEmbedded
  <2>3. /\ driver.part = <<>> /\ driver.list = <<>> /\ driver.wire = <<>> /\ ~sysex_in_progress
        /\ intended = <<>> /\ calls = 0
    BY DEF Init
  <2>4. Flow = <<>>
    <3>1. driver \in Driver
      BY <2>1 DEF Base, Capacity, Fits
    <3>2. Stream = <<>>
      BY <2>1, <2>3, <3>1, LineFacts DEF Stream
    <3>3. Remaining = <<>>
      BY <2>1, RestFacts, SmallSeqs DEF Remaining
    <3>4. Sent(Remaining) = <<>>
      BY <3>3, SentByte DEF Sent
    <3> QED
      BY <3>2, <3>4, SmallSeqs, Cat DEF Flow
  <2>5. Complete
    BY <2>3, <2>4, SentByte DEF Complete, Settled, Sent
  <2>6. Behind
    BY <2>1, <2>3 DEF Behind
  <2> QED
    BY <2>1, <2>2, <2>5, <2>6 DEF IInv, Base
<1>2. ASSUME IInv, [Next]_vars, Reading' PROVE IInv'
  <2>1. CASE UNCHANGED vars \/ DeviceRemoved
    <3>1. /\ UNCHANGED <<sysex_in_progress, pc, rest, bits, msg, result, driver, backend, errors>>
          /\ UNCHANGED <<calls, intended, before, embedded>>
      BY <2>1 DEF DeviceRemoved, vars, api, past
    <3>2. Flow' = Flow /\ Settled' = Settled /\ Untouched' = Untouched /\ Remaining' = Remaining
      BY <3>1 DEF Flow, Settled, Untouched, Remaining, Stream, Sent, LastCall
    <3>3. Complete'
      BY <1>2, <3>1, <3>2 DEF IInv, Complete, Sent
    <3>4. Behind'
      BY <1>2, <3>1, <3>2 DEF IInv, Behind, InLastCall, Sent, LastCall
    <3> QED
      BY <1>2, <3>3, <3>4 DEF IInv, Reading, Base
  <2>2. CASE Pm_Write \/ Pm_WriteSysEx \/ InCall
    BY <1>2, <2>2, Pm_WriteKeeps, Pm_WriteSysExKeeps, CallKeeps DEF IInv, Reading, Base
  <2> QED
    BY <1>2, <2>1, <2>2 DEF Next
<1> QED
  BY <1>1, <1>2, ReadingHolds, PTL DEF Spec

\* As long as every call succeeds, the device gets exactly the bytes that were written, in
\* their order, through the buffers of every backend.
THEOREM EverythingIsSent == Spec => []WrittenIsSent
<1>1. ASSUME IInv PROVE WrittenIsSent
  <2>1. SUFFICES ASSUME pc = "idle", errors = 0, ~embedded
                 PROVE  /\ Line(driver) = Sent(intended)
                        /\ sysex_in_progress \/ driver.wire = Sent(intended)
    BY DEF WrittenIsSent, Line, Out
  <2>2. /\ rest = <<>> /\ msg = <<>> /\ bits = 0 /\ driver \in Driver
    BY <1>1, <2>1 DEF IInv, Place, Capacity, Fits
  <2>3. /\ Flow = Sent(intended) /\ Settled
        /\ ~sysex_in_progress => driver.list = <<>>
    BY <1>1, <2>1 DEF IInv, Complete
  <2>4. Line(driver) \in Seq(Byte) /\ Out(driver) \in Seq(Byte)
    BY <2>2, DriverFacts
  <2>5. Stream \in Seq(Byte)
    BY <2>4 DEF Stream
  <2>6. Remaining = <<>>
    BY <2>2, RestFacts, SmallSeqs DEF Remaining
  <2>7. Sent(Remaining) = <<>>
    BY <2>6, SentByte DEF Sent
  <2>8. Stream = Sent(intended)
    BY <2>3, <2>5, <2>7, Cat DEF Flow
  <2>9. CASE sysex_in_progress
    BY <2>1, <2>8, <2>9 DEF Stream
  <2>10. CASE ~sysex_in_progress
    <3>1. driver.part = <<>> /\ driver.list = <<>>
      BY <2>3, <2>10 DEF Settled
    <3>2. Line(driver) = Out(driver) /\ Out(driver) = driver.wire
      BY <2>2, <3>1, LineFacts
    <3> QED
      BY <2>8, <2>10, <3>2 DEF Stream
  <2> QED
    BY <2>9, <2>10
<1> QED
  BY <1>1, InvHolds, PTL

\* What is put behind something is its end.
LEMMA SuffixFacts ==
  ASSUME NEW u \in Seq(Byte), NEW s \in Seq(Byte)
  PROVE  IsSuffix(s, u \o s)
<1> DEFINE t == u \o s
<1>1. /\ t \in Seq(Byte) /\ Len(t) = Len(u) + Len(s) /\ Len(u) \in Nat /\ Len(s) \in Nat
      /\ \A i \in 1..Len(u) + Len(s) : t[i] = IF i <= Len(u) THEN u[i] ELSE s[i - Len(u)]
  BY ConcatProperties, LenProperties
<1> HIDE DEF t
<1>2. /\ Reverse(s) = [i \in 1..Len(s) |-> s[(Len(s) - i) + 1]]
      /\ Reverse(t) = [i \in 1..Len(t) |-> t[(Len(t) - i) + 1]]
  BY DEF Reverse
<1> DEFINE a == Reverse(s)
           b == Reverse(t)
<1>3. a \in Seq(Byte) /\ b \in Seq(Byte) /\ Len(a) = Len(s) /\ Len(b) = Len(t)
  <2>1. \A i \in 1..Len(s) : (Len(s) - i) + 1 \in 1..Len(s)
    BY <1>1
  <2>2. \A i \in 1..Len(t) : (Len(t) - i) + 1 \in 1..Len(t)
    BY <1>1
  <2>3. \A i \in 1..Len(s) : s[(Len(s) - i) + 1] \in Byte
    BY <2>1, ElementOfSeq
  <2>4. \A i \in 1..Len(t) : t[(Len(t) - i) + 1] \in Byte
    BY <1>1, <2>2, ElementOfSeq
  <2> QED
    BY <1>1, <1>2, <2>3, <2>4
<1>4. ASSUME NEW i \in 1..Len(s) PROVE a[i] = b[i]
  <2>1. /\ i \in 1..Len(t) /\ (Len(t) - i) + 1 \in 1..Len(u) + Len(s)
        /\ ~((Len(t) - i) + 1 <= Len(u)) /\ ((Len(t) - i) + 1) - Len(u) = (Len(s) - i) + 1
    BY <1>1, <1>4
  <2>2. t[(Len(t) - i) + 1] = s[(Len(s) - i) + 1]
    BY <1>1, <2>1
  <2> QED
    BY <1>2, <2>1, <2>2
<1> HIDE DEF a, b
<1>5. Len(a) <= Len(b) /\ SubSeq(a, 1, Len(a)) = SubSeq(b, 1, Len(a))
  <2>1. Len(a) \in 0..Len(a) /\ Len(a) \in 0..Len(b) /\ Len(a) <= Len(b)
    BY <1>1, <1>3
  <2> DEFINE x == SubSeq(a, 1, Len(a))
             y == SubSeq(b, 1, Len(a))
  <2>2. /\ x \in Seq(Byte) /\ Len(x) = Len(a) /\ \A i \in 1..Len(a) : x[i] = a[i]
        /\ y \in Seq(Byte) /\ Len(y) = Len(a) /\ \A i \in 1..Len(a) : y[i] = b[i]
    BY <1>3, <2>1, Cut
  <2>3. \A i \in 1..Len(a) : x[i] = y[i]
    BY <1>3, <1>4, <2>2
  <2> HIDE DEF x, y
  <2>4. x = y
    BY <2>2, <2>3, SeqEqual
  <2> QED
    BY <2>1, <2>4 DEF x, y
<1>6. IsPrefix(a, b)
  BY <1>5 DEF IsPrefix
<1> QED
  BY <1>6 DEF IsSuffix, a, b, t

\* Whatever failed before: a call that starts and ends outside sysex and returns pmNoError has
\* sent all its bytes, and nothing after them.
THEOREM SuccessIsTrue == Spec => []SuccessMeansSent
<1>1. ASSUME IInv PROVE SuccessMeansSent
  <2>1. SUFFICES ASSUME pc = "idle", result = "pmNoError", calls > 0, ~before.sysex,
                        ~sysex_in_progress, ~embedded, backend # "winmm"
                 PROVE  IsSuffix(Sent(LastCall), driver.wire) /\ driver.list = <<>>
    BY DEF SuccessMeansSent
  <2>2. Ends(Sent(LastCall), driver.wire) /\ driver.list = <<>>
    BY <1>1, <2>1 DEF IInv, Behind, InLastCall
  <2>3. LastCall \in Seq(Byte)
    <3>1. intended \in Seq(Byte) /\ before.sent \in Nat /\ before.sent <= Len(intended)
      BY <1>1 DEF IInv, PastTypes
    <3>2. before.sent \in 0..Len(intended)
      BY <3>1, LenProperties
    <3> QED
      BY <3>1, <3>2, Cut DEF LastCall
  <2>4. Sent(LastCall) \in Seq(Byte)
    BY <2>3, SentFacts DEF Sent
  <2> QED
    BY <2>2, <2>4, SuffixFacts DEF Ends
<1> QED
  BY <1>1, InvHolds, PTL
=============================================================================
