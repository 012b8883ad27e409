--------------------------- MODULE PmQueueProofs ---------------------------
(***************************************************************************)
(* PmQueue, for every number of slots, words and messages: its types, the  *)
(* absence of torn messages, that it says that it is full only when it is, *)
(* that it implements LossyStream, and what LossyStream promises.          *)
(***************************************************************************)
EXTENDS PmQueueStream, SequenceTheorems, TLAPS

(***************************************************************************)
(* The inductive invariant.  A word that is zero can change only by the    *)
(* writer, a word that is not zero only by the reader, whatever stores are *)
(* still on their way: that is why a side that has seen the state it waits *)
(* for in every word of a slot owns the slot.                              *)
(***************************************************************************)
Free(s, w) == buffer[s][w] = 0 /\ <<s, w>> \notin unlanded
Seen(s, w) == buffer[s][w] # 0 /\ <<s, w>> \notin unzeroed

MemoryInv ==
  \A s \in Slots, w \in Words :
     /\ buffer[s][w] \in {0, issued[s]}
     /\ <<s, w>> \in unlanded => buffer[s][w] = 0 /\ issued[s] # 0
     /\ <<s, w>> \in unzeroed => buffer[s][w] # 0

WriterInv ==
  /\ wpc \in {"scan", "store"} => offered # 0
  /\ wpc = "scan" => \A w \in Words : w < wi => Free(tail, w)
  /\ wpc = "store" => \A w \in Words : Free(tail, w)

ReaderInv ==
  /\ rpc = "scan" => \A w \in Words : w > ri => Seen(head, w)
  /\ rpc \in {"copy", "clear"} => \A w \in Words : Seen(head, w)
  /\ rpc = "copy" => \A w \in Words : w < ri => msg[w] = issued[head]
  /\ rpc = "clear" => \A w \in Words : msg[w] = issued[head]

PeekInv == peek_flag => Whole(peek) /\ peek[0] # 0

IInv == TypeOK /\ MemoryInv /\ WriterInv /\ ReaderInv /\ PeekInv

-----------------------------------------------------------------------------
\* Zero is a slot, 0 and MsgWords are words, and Advance stays within the slots.
LEMMA SlotFacts == /\ 0 \in Slots /\ 0 \in Words /\ MsgWords \in Words
                   /\ Slots \subseteq Nat /\ Words \subseteq Nat
                   /\ \A s \in Slots : Advance(s) \in Slots /\ s + 1 \in 0..NumMsgs
BY NumMsgsAssumption, MsgWordsAssumption DEF Slots, Words, Advance

\* The neighbours of a word, where a scan goes on, are words.
LEMMA NextWord == \A w \in Words : /\ w < MsgWords => w + 1 \in Words
                                   /\ w > 0 => w - 1 \in Words
BY MsgWordsAssumption DEF Words

\* A delivery keeps the type of the history.
LEMMA DeliveredType ==
  ASSUME delivered \in Seq(Int)
  PROVE  /\ Append(delivered, Gap) \in Seq(Int)
         /\ \A m \in [Words -> Nat] : Append(delivered, Content(m)) \in Seq(Int)
<1>1. Gap \in Int /\ \A m \in [Words -> Nat] : Content(m) \in Int
  BY SlotFacts DEF Gap, Content, Torn
<1> QED
  BY <1>1

\* The words of one slot, and only they, form SlotWords(s).
LEMMA SlotWordsFacts ==
  ASSUME NEW s \in Slots
  PROVE  /\ SlotWords(s) \in SUBSET (Slots \X Words)
         /\ \A t \in Slots, w \in Words : <<t, w>> \in SlotWords(s) <=> t = s
BY DEF SlotWords

LEMMA InitTypeOK == Init => TypeOK
<1> SUFFICES ASSUME Init PROVE TypeOK
  OBVIOUS
<1> USE DEF Init, Pm_QueueCreate
<1>1. MemoryType
  BY NumMsgsAssumption DEF MemoryType
<1>2. WriterType
  BY SlotFacts DEF WriterType
<1>3. ReaderType
  <2>1. NoMsg \in [Words -> Nat]
    BY DEF NoMsg
  <2>2. delivered \in Seq(Int)
    OBVIOUS
  <2> QED
    BY SlotFacts, <2>1, <2>2, Zenon DEF ReaderType
<1> QED
  BY <1>1, <1>2, <1>3 DEF TypeOK

\* What a step leaves alone keeps its type.
LEMMA UnchangedTypes ==
  /\ WriterType /\ UNCHANGED writerVars => WriterType'
  /\ ReaderType /\ UNCHANGED readerVars => ReaderType'
  /\ MemoryType /\ UNCHANGED <<Shared, unzeroed>> => MemoryType'
BY Zenon DEF WriterType, ReaderType, MemoryType, writerVars, readerVars, peekVars, Shared

LEMMA WriterTypeOK == TypeOK /\ Writer => TypeOK'
<1> SUFFICES ASSUME TypeOK, Writer PROVE TypeOK'
  OBVIOUS
<1>1. ReaderType'
  BY UnchangedTypes DEF TypeOK, Writer, InEnqueue, RefusedByOverflow, EnqueueCall,
     SetOverflowCall, QueueFullScan, EnqueueStore, MarkOverflow
<1>2. WriterType'
  <2>1. ASSUME RefusedByOverflow \/ EnqueueCall \/ SetOverflowCall PROVE WriterType'
    BY <2>1, SlotFacts DEF TypeOK, WriterType, RefusedByOverflow, EnqueueCall,
       SetOverflowCall, Offer
  <2>2. ASSUME QueueFullScan PROVE WriterType'
    BY <2>2, NextWord, Zenon DEF TypeOK, WriterType, QueueFullScan
  <2>3. ASSUME EnqueueStore \/ MarkOverflow PROVE WriterType'
    BY <2>3, SlotFacts DEF TypeOK, WriterType, EnqueueStore, MarkOverflow
  <2> QED
    BY <2>1, <2>2, <2>3 DEF Writer, InEnqueue
<1>3. MemoryType'
  <2>1. ASSUME EnqueueStore PROVE MemoryType'
    BY <2>1, SlotWordsFacts DEF TypeOK, MemoryType, WriterType, EnqueueStore
  <2>2. ASSUME MarkOverflow PROVE MemoryType'
    BY <2>2, SlotFacts DEF TypeOK, MemoryType, WriterType, MarkOverflow, TailMark
  <2>3. ASSUME RefusedByOverflow \/ EnqueueCall \/ SetOverflowCall \/ QueueFullScan
        PROVE  MemoryType'
    BY <2>3, UnchangedTypes DEF TypeOK, RefusedByOverflow, EnqueueCall, SetOverflowCall,
       QueueFullScan, Shared
  <2> QED
    BY <2>1, <2>2, <2>3 DEF Writer, InEnqueue
<1> QED
  BY <1>1, <1>2, <1>3 DEF TypeOK

LEMMA ReaderTypeOK == TypeOK /\ (Dequeue \/ PeekCall) => TypeOK'
<1> SUFFICES ASSUME TypeOK, Dequeue \/ PeekCall PROVE TypeOK'
  OBVIOUS
<1>1. WriterType'
  BY UnchangedTypes DEF TypeOK, Dequeue, InDequeue, DequeuePeekOverflow, DequeuePeeked,
     DequeueCall, PeekCall, CheckOverflow, CheckEmpty, Acknowledge, ScanData, CopyWord,
     ClearSlot
<1>2. MemoryType'
  <2>1. ASSUME Acknowledge PROVE MemoryType'
    BY <2>1, NumMsgsAssumption DEF TypeOK, MemoryType, Acknowledge
  <2>2. ASSUME ClearSlot PROVE MemoryType'
    BY <2>2, SlotWordsFacts DEF TypeOK, MemoryType, ReaderType, ClearSlot, Shared
  <2>3. ASSUME \/ DequeuePeekOverflow \/ DequeuePeeked \/ DequeueCall \/ PeekCall
               \/ CheckOverflow \/ CheckEmpty \/ ScanData \/ CopyWord
        PROVE  MemoryType'
    BY <2>3, UnchangedTypes DEF TypeOK, DequeuePeekOverflow, DequeuePeeked, DequeueCall,
       PeekCall, CheckOverflow, CheckEmpty, ScanData, CopyWord
  <2> QED
    BY <2>1, <2>2, <2>3 DEF Dequeue, InDequeue
<1>3. ReaderType'
  <2> USE DEF TypeOK, ReaderType
  <2>1. CASE DequeuePeekOverflow
    BY <2>1, DeliveredType, Zenon DEF DequeuePeekOverflow
  <2>2. CASE DequeuePeeked
    BY <2>2, DeliveredType, Zenon DEF DequeuePeeked
  <2>3. CASE DequeueCall \/ PeekCall
    BY <2>3, Zenon DEF DequeueCall, PeekCall, peekVars
  <2>4. CASE CheckOverflow \/ CheckEmpty
    BY <2>4, SlotFacts, Zenon DEF CheckOverflow, CheckEmpty, ScanFrom, peekVars
  <2>5. CASE Acknowledge
    BY <2>5, DeliveredType, Zenon DEF Acknowledge
  <2>6. CASE ScanData
    BY <2>6, NextWord, Zenon DEF ScanData, peekVars
  <2>7. CASE CopyWord
    <3>1. ReaderSees(head, ri) \in Nat
      BY DEF ReaderSees, MemoryType
    <3>2. msg' \in [Words -> Nat]
      BY <2>7, <3>1 DEF CopyWord
    <3>3. ri' \in Words
      BY <2>7, NextWord, Zenon DEF CopyWord
    <3> QED
      BY <2>7, <3>2, <3>3, Zenon DEF CopyWord, peekVars
  <2>8. CASE ClearSlot
    <3>1. delivered' \in Seq(Int)
      BY <2>8, DeliveredType, Zenon DEF ClearSlot
    <3>2. head' \in Slots /\ msg' \in [Words -> Nat]
      BY <2>8, SlotFacts DEF ClearSlot, NoMsg
    <3>3. peek' \in [Words -> Nat] /\ peek_flag' \in BOOLEAN /\ peek_overflow' \in BOOLEAN
      BY <2>8, Zenon DEF ClearSlot
    <3>4. rpc' = "idle" /\ ri' = ri /\ op' = op
      BY <2>8 DEF ClearSlot
    <3> QED
      BY <3>1, <3>2, <3>3, <3>4
  <2> QED
    BY <2>1, <2>2, <2>3, <2>4, <2>5, <2>6, <2>7, <2>8 DEF Dequeue, InDequeue
<1> QED
  BY <1>1, <1>2, <1>3 DEF TypeOK

LEMMA MemoryTypeOK == TypeOK /\ Memory => TypeOK'
<1> SUFFICES ASSUME TypeOK, NEW s \in Slots, NEW w \in Words,
                    WriteLands(s, w) \/ ZeroLands(s, w)
             PROVE  TypeOK'
  BY DEF Memory
<1>1. WriterType' /\ ReaderType'
  BY UnchangedTypes DEF TypeOK, WriteLands, ZeroLands
<1>2. MemoryType'
  BY DEF TypeOK, MemoryType, WriteLands, ZeroLands
<1> QED
  BY <1>1, <1>2 DEF TypeOK

LEMMA NextTypeOK == TypeOK /\ [Next]_vars => TypeOK'
<1>1. TypeOK /\ UNCHANGED vars => TypeOK'
  BY UnchangedTypes DEF vars, TypeOK, Shared
<1> QED
  BY <1>1, WriterTypeOK, ReaderTypeOK, MemoryTypeOK DEF Next

\* The queue's fields stay in their ranges: head, tail and overflow always name a slot,
\* whatever the number of slots (pmutil.c:155, 214 wrap them).
THEOREM TypeCorrect == Spec => []TypeOK
BY InitTypeOK, NextTypeOK, PTL DEF Spec

-----------------------------------------------------------------------------
(* Each part of the invariant, and the steps that can disturb it.          *)

\* What a side sees of a word, in terms of Seen and Free.
LEMMA Views ==
  ASSUME TypeOK, MemoryInv, NEW s \in Slots, NEW w \in Words
  PROVE  /\ ReaderSees(s, w) # 0 <=> Seen(s, w)
         /\ Seen(s, w) => ReaderSees(s, w) = issued[s]
         /\ WriterSees(s, w) = 0 <=> Free(s, w)
         /\ ~(Seen(s, w) /\ Free(s, w))
BY DEF TypeOK, MemoryType, MemoryInv, ReaderSees, WriterSees, Seen, Free

LEMMA InitInv == Init => IInv
<1> SUFFICES ASSUME Init PROVE IInv
  OBVIOUS
<1>1. MemoryInv
  BY DEF Init, Pm_QueueCreate, MemoryInv
<1>2. WriterInv /\ ReaderInv /\ PeekInv
  BY DEF Init, Pm_QueueCreate, WriterInv, ReaderInv, PeekInv
<1> QED
  BY <1>1, <1>2, InitTypeOK DEF IInv

\* A step of the writer.  EnqueueStore reuses the slot at tail: it is free in every word,
\* so the reader cannot be in the middle of it.
LEMMA WriterStep == IInv /\ Writer => (MemoryInv /\ WriterInv /\ ReaderInv /\ PeekInv)'
<1> SUFFICES ASSUME IInv, Writer PROVE (MemoryInv /\ WriterInv /\ ReaderInv /\ PeekInv)'
  OBVIOUS
<1> USE DEF IInv
<1>0. UNCHANGED <<readerVars, buffer, unzeroed>>
  BY DEF Writer, InEnqueue, RefusedByOverflow, EnqueueCall, SetOverflowCall, QueueFullScan,
     EnqueueStore, MarkOverflow
<1>1. PeekInv'
  BY <1>0 DEF PeekInv, readerVars, peekVars, Whole
<1>2. CASE RefusedByOverflow \/ EnqueueCall \/ SetOverflowCall \/ MarkOverflow
  <2>1. UNCHANGED <<unlanded, issued, tail>> /\ wpc' \in {"idle", "scan", "mark"}
    BY <1>2 DEF RefusedByOverflow, EnqueueCall, SetOverflowCall, MarkOverflow, Offer
  <2>2. MemoryInv' /\ ReaderInv'
    BY <1>0, <2>1 DEF MemoryInv, ReaderInv, Seen, readerVars
  <2>3. WriterInv'
    <3>1. wpc' = "scan" => wi' = 0 /\ offered' = offered + 1
      BY <1>2 DEF RefusedByOverflow, EnqueueCall, SetOverflowCall, MarkOverflow, Offer
    <3> QED
      BY <2>1, <3>1 DEF WriterInv, TypeOK, WriterType, Words
  <2> QED
    BY <1>1, <2>2, <2>3
<1>3. CASE QueueFullScan
  <2>1. MemoryInv' /\ ReaderInv'
    BY <1>0, <1>3 DEF QueueFullScan, MemoryInv, ReaderInv, Seen, readerVars
  <2>2. WriterInv'
    <3>1. ~TailIsTaken => Free(tail, wi)
      BY Views DEF TailIsTaken, TypeOK, WriterType
    <3>2. \A w \in Words : Free(tail, w)' <=> Free(tail, w)
      BY <1>3 DEF QueueFullScan, Free
    <3>3. wi \in Words /\ offered # 0 /\ offered' = offered
      BY <1>3 DEF QueueFullScan, WriterInv, TypeOK, WriterType
    <3>4. ~TailIsTaken => \A w \in Words : w < wi + 1 => Free(tail, w)
      BY <1>3, <3>1, <3>3 DEF QueueFullScan, WriterInv, Words
    <3>5. wpc' = "scan" => \A w \in Words : w < wi' => Free(tail, w)'
      BY <1>3, <3>2, <3>4 DEF QueueFullScan
    <3>6. wpc' = "store" => \A w \in Words : Free(tail, w)'
      BY <1>3, <3>2, <3>3, <3>4, MsgWordsAssumption DEF QueueFullScan, Words
    <3> QED
      BY <3>3, <3>5, <3>6, Zenon DEF WriterInv
  <2> QED
    BY <1>1, <2>1, <2>2
<1>4. CASE EnqueueStore
  <2>1. /\ \A w \in Words : Free(tail, w)
        /\ offered # 0 /\ wpc' = "idle"
        /\ issued' = [issued EXCEPT ![tail] = offered]
        /\ unlanded' = unlanded \union SlotWords(tail)
    BY <1>4 DEF EnqueueStore, WriterInv
  <2>2. MemoryInv'
    <3> SUFFICES ASSUME NEW s \in Slots, NEW w \in Words
                 PROVE  /\ buffer[s][w] \in {0, issued'[s]}
                        /\ <<s, w>> \in unlanded' => buffer[s][w] = 0 /\ issued'[s] # 0
                        /\ <<s, w>> \in unzeroed => buffer[s][w] # 0
      BY <1>0 DEF MemoryInv
    <3>1. CASE s = tail
      BY <2>1, <3>1 DEF MemoryInv, Free, TypeOK, MemoryType
    <3>2. CASE s # tail
      BY <2>1, <3>2, SlotWordsFacts DEF MemoryInv, TypeOK, MemoryType, WriterType
    <3> QED
      BY <3>1, <3>2
  <2>3. rpc \in {"copy", "clear"} => head # tail
    BY <2>1, SlotFacts DEF ReaderInv, Seen, Free
  <2>4. ReaderInv'
    BY <1>0, <2>1, <2>3 DEF ReaderInv, Seen, readerVars, TypeOK, MemoryType, ReaderType
  <2> QED
    BY <1>1, <2>1, <2>2, <2>4 DEF WriterInv
<1> QED
  BY <1>2, <1>3, <1>4 DEF Writer, InEnqueue

\* A step of the reader.  ClearSlot hands the slot at head back: it is seen in every word,
\* so the writer has found none of its words free.
LEMMA ReaderStep ==
  IInv /\ (Dequeue \/ PeekCall) => (MemoryInv /\ WriterInv /\ ReaderInv /\ PeekInv)'
<1> SUFFICES ASSUME IInv, Dequeue \/ PeekCall
             PROVE  (MemoryInv /\ WriterInv /\ ReaderInv /\ PeekInv)'
  OBVIOUS
<1> USE DEF IInv
<1>0. UNCHANGED <<buffer, unlanded, issued, writerVars>>
  BY DEF Dequeue, InDequeue, DequeuePeekOverflow, DequeuePeeked, DequeueCall, PeekCall,
     CheckOverflow, CheckEmpty, Acknowledge, ScanData, CopyWord, ClearSlot, Shared
<1>1. WriterInv'
  BY <1>0 DEF WriterInv, Free, writerVars
<1>2. CASE \/ DequeuePeekOverflow \/ DequeuePeeked \/ DequeueCall \/ PeekCall
           \/ CheckOverflow \/ CheckEmpty \/ Acknowledge
  <2>1. UNCHANGED <<unzeroed, peek, msg, head>> /\ (peek_flag' => peek_flag)
    BY <1>2 DEF DequeuePeekOverflow, DequeuePeeked, DequeueCall, PeekCall, CheckOverflow,
       CheckEmpty, Acknowledge, peekVars
  <2>2. MemoryInv' /\ PeekInv'
    BY <1>0, <2>1 DEF MemoryInv, PeekInv, Whole
  <2>3. /\ rpc' \in {"idle", "overflow", "empty", "acknowledge", "scan"}
        /\ rpc' = "scan" => ri' = MsgWords
    BY <1>2 DEF DequeuePeekOverflow, DequeuePeeked, DequeueCall, PeekCall, CheckOverflow,
       CheckEmpty, Acknowledge, ScanFrom
  <2>4. ReaderInv'
    BY <2>3, MsgWordsAssumption DEF ReaderInv, Words
  <2> QED
    BY <1>1, <2>2, <2>4
<1>3. CASE ScanData
  <2>1. MemoryInv' /\ PeekInv'
    BY <1>0, <1>3 DEF ScanData, MemoryInv, PeekInv, Whole, peekVars
  <2>2. ReaderSees(head, ri) # 0 => Seen(head, ri)
    BY Views DEF TypeOK, ReaderType
  <2>3. \A w \in Words : Seen(head, w)' <=> Seen(head, w)
    BY <1>0, <1>3 DEF ScanData, Seen
  <2>4. ri \in Words /\ (ReaderSees(head, ri) # 0
                           => \A w \in Words : w > ri - 1 => Seen(head, w))
    BY <1>3, <2>2 DEF ScanData, ReaderInv, TypeOK, ReaderType, Words
  <2>5. rpc' = "scan" => \A w \in Words : w > ri' => Seen(head, w)'
    BY <1>3, <2>3, <2>4 DEF ScanData
  <2>6. rpc' = "copy" => ri' = 0 /\ \A w \in Words : Seen(head, w)'
    BY <1>3, <2>3, <2>4 DEF ScanData, Words
  <2>7. rpc' # "clear"
    BY <1>3 DEF ScanData
  <2>8. ReaderInv'
    BY <2>5, <2>6, <2>7 DEF ReaderInv, Words
  <2> QED
    BY <1>1, <2>1, <2>8
<1>4. CASE CopyWord
  <2>1. MemoryInv' /\ PeekInv'
    BY <1>0, <1>4 DEF CopyWord, MemoryInv, PeekInv, Whole, peekVars
  <2>2. ReaderSees(head, ri) = issued[head]
    BY <1>4, Views DEF CopyWord, ReaderInv, TypeOK, ReaderType
  <2>3. \A w \in Words : Seen(head, w)' <=> Seen(head, w)
    BY <1>0, <1>4 DEF CopyWord, Seen
  <2>4. \A w \in Words : w <= ri => msg'[w] = issued[head]
    BY <1>4, <2>2 DEF CopyWord, ReaderInv, TypeOK, ReaderType, Words
  <2>5. ReaderInv'
    BY <1>0, <1>4, <2>3, <2>4, MsgWordsAssumption
    DEF CopyWord, ReaderInv, TypeOK, ReaderType, Words
  <2> QED
    BY <1>1, <2>1, <2>5
<1>5. CASE ClearSlot
  <2>1. /\ \A w \in Words : Seen(head, w) /\ msg[w] = issued[head]
        /\ rpc' = "idle" /\ unzeroed' = unzeroed \union SlotWords(head)
        /\ peek_flag' => (peek_flag /\ peek' = peek) \/ peek' = msg
    BY <1>5 DEF ClearSlot, ReaderInv
  <2>2. MemoryInv'
    BY <1>0, <2>1, SlotWordsFacts DEF MemoryInv, Seen, TypeOK, ReaderType
  <2>3. Whole(msg) /\ msg[0] # 0
    BY <2>1, SlotFacts DEF Whole, Seen, MemoryInv, TypeOK, ReaderType
  <2>4. PeekInv'
    BY <2>1, <2>3 DEF PeekInv, Whole
  <2> QED
    BY <1>1, <2>1, <2>2, <2>4 DEF ReaderInv
<1> QED
  BY <1>2, <1>3, <1>4, <1>5 DEF Dequeue, InDequeue

\* A store that lands: a written word becomes seen, a cleared one becomes free.
LEMMA MemoryStep == IInv /\ Memory => (MemoryInv /\ WriterInv /\ ReaderInv /\ PeekInv)'
<1> SUFFICES ASSUME IInv, NEW s \in Slots, NEW w \in Words,
                    WriteLands(s, w) \/ ZeroLands(s, w)
             PROVE  (MemoryInv /\ WriterInv /\ ReaderInv /\ PeekInv)'
  BY DEF Memory
<1> USE DEF IInv
<1>1. UNCHANGED <<issued, writerVars, readerVars>>
  BY DEF WriteLands, ZeroLands
<1>a. \A t \in Slots, v \in Words : <<t, v>> # <<s, w>> => buffer'[t][v] = buffer[t][v]
  BY DEF WriteLands, ZeroLands, TypeOK, MemoryType
<1>b. ASSUME WriteLands(s, w)
      PROVE  MemoryInv' /\ \A t \in Slots, v \in Words :
                              (Free(t, v) => Free(t, v)') /\ (Seen(t, v) => Seen(t, v)')
  <2>1. /\ buffer[s][w] = 0 /\ buffer'[s][w] = issued[s] /\ issued[s] # 0
        /\ unzeroed' = unzeroed /\ unlanded' = unlanded \ {<<s, w>>}
        /\ <<s, w>> \in unlanded /\ <<s, w>> \notin unzeroed
    BY <1>b DEF WriteLands, MemoryInv, TypeOK, MemoryType
  <2>2. ASSUME NEW t \in Slots, NEW v \in Words
        PROVE  /\ buffer'[t][v] \in {0, issued[t]}
               /\ <<t, v>> \in unlanded' => buffer'[t][v] = 0 /\ issued[t] # 0
               /\ <<t, v>> \in unzeroed' => buffer'[t][v] # 0
    <3>1. CASE t = s /\ v = w
      BY <2>1, <3>1
    <3>2. CASE <<t, v>> # <<s, w>>
      BY <1>a, <2>1, <3>2 DEF MemoryInv
    <3> QED
      BY <3>1, <3>2
  <2>4. MemoryInv'
    BY <1>1, <2>2 DEF MemoryInv
  <2>3. \A t \in Slots, v \in Words :
           (Free(t, v) => Free(t, v)') /\ (Seen(t, v) => Seen(t, v)')
    BY <1>a, <2>1 DEF Free, Seen
  <2> QED
    BY <2>3, <2>4
<1>c. ASSUME ZeroLands(s, w)
      PROVE  MemoryInv' /\ \A t \in Slots, v \in Words :
                              (Free(t, v) => Free(t, v)') /\ (Seen(t, v) => Seen(t, v)')
  <2>1. /\ buffer[s][w] # 0 /\ buffer'[s][w] = 0
        /\ unlanded' = unlanded /\ unzeroed' = unzeroed \ {<<s, w>>}
        /\ <<s, w>> \in unzeroed /\ <<s, w>> \notin unlanded
    BY <1>c DEF ZeroLands, MemoryInv, TypeOK, MemoryType
  <2>2. ASSUME NEW t \in Slots, NEW v \in Words
        PROVE  /\ buffer'[t][v] \in {0, issued[t]}
               /\ <<t, v>> \in unlanded' => buffer'[t][v] = 0 /\ issued[t] # 0
               /\ <<t, v>> \in unzeroed' => buffer'[t][v] # 0
    <3>1. CASE t = s /\ v = w
      BY <2>1, <3>1
    <3>2. CASE <<t, v>> # <<s, w>>
      BY <1>a, <2>1, <3>2 DEF MemoryInv
    <3> QED
      BY <3>1, <3>2
  <2>4. MemoryInv'
    BY <1>1, <2>2 DEF MemoryInv
  <2>3. \A t \in Slots, v \in Words :
           (Free(t, v) => Free(t, v)') /\ (Seen(t, v) => Seen(t, v)')
    BY <1>a, <2>1 DEF Free, Seen
  <2> QED
    BY <2>3, <2>4
<1>2. MemoryInv'
  BY <1>b, <1>c
<1>3. \A t \in Slots, v \in Words :
         (Free(t, v) => Free(t, v)') /\ (Seen(t, v) => Seen(t, v)')
  BY <1>b, <1>c
<1>4. WriterInv'
  BY <1>1, <1>3 DEF WriterInv, writerVars, TypeOK, WriterType, Free
<1>5. ReaderInv' /\ PeekInv'
  BY <1>1, <1>3 DEF ReaderInv, PeekInv, Whole, readerVars, peekVars, TypeOK, ReaderType, Seen
<1> QED
  BY <1>2, <1>4, <1>5

LEMMA InductiveInv == IInv /\ [Next]_vars => IInv'
<1>1. IInv /\ UNCHANGED vars => (MemoryInv /\ WriterInv /\ ReaderInv /\ PeekInv)'
  BY DEF vars, writerVars, readerVars, peekVars, IInv, MemoryInv, WriterInv, ReaderInv,
     PeekInv, Free, Seen, Whole
<1> QED
  BY <1>1, NextTypeOK, WriterStep, ReaderStep, MemoryStep DEF IInv, Next

\* Whatever the number of slots and words, and in whatever order the stores of either side
\* become visible, a message copied out by Pm_Dequeue (pmutil.c:135-150) or held by
\* Pm_QueuePeek is one whole message that Pm_Enqueue wrote.
THEOREM NoTorn == Spec => []NoTornMessage
<1>1. IInv => NoTornMessage
  BY SlotFacts DEF IInv, TypeOK, MemoryInv, ReaderType, ReaderInv, PeekInv, NoTornMessage,
     Seen, Whole
<1> QED
  BY <1>1, InitInv, InductiveInv, PTL DEF Spec

-----------------------------------------------------------------------------
(***************************************************************************)
(* The stream.  What has to be added to the inductive invariant:           *)
(*   Uniform  A slot holds a message in all of its words or in none: it is *)
(*            filled and cleared in one step, however the words land.      *)
(*   InOrder  The slots in use are those from head on, as many as Used.    *)
(*   Marked   A mark of overflow is that of the slot at tail; the writer   *)
(*            is idle as long as it stands, and nothing is on its way to   *)
(*            that slot.                                                   *)
(*   Reading  What a call of the reader in progress has seen of peek_flag, *)
(*            peek_overflow, overflow and the slot at head still holds.    *)
(***************************************************************************)
Filled(s, w) == <<s, w>> \in unlanded \/ Seen(s, w)

Uniform == \A s \in Slots, v, w \in Words : Filled(s, v) => Filled(s, w)

Distance(s) == IF s >= head THEN s - head ELSE s - head + NumMsgs

InOrder == /\ \A s \in Slots : Holds(s) <=> Distance(s) < Used
           /\ Holds(tail) => head = tail

Marked ==
  /\ wpc # "idle" => overflow = 0 /\ offered > 0
  /\ overflow # 0 => /\ overflow = tail + 1
                     /\ \A w \in Words : <<tail, w>> \notin unlanded

Reading ==
  /\ rpc # "idle" => ~peek_flag /\ (op = "Dequeue" => ~peek_overflow)
  /\ rpc \in {"empty", "acknowledge"} => overflow = head + 1
  /\ rpc = "acknowledge" => ~Holds(head)

StreamInv == Uniform /\ InOrder /\ Marked /\ Reading

-----------------------------------------------------------------------------
(* The slots in use.                                                       *)

\* A slot is in use when its first word is filled.
LEMMA HoldsIsFilled ==
  TypeOK /\ MemoryInv /\ Uniform => \A s \in Slots : Holds(s) <=> Filled(s, 0)
<1> SUFFICES ASSUME TypeOK, MemoryInv, Uniform, NEW s \in Slots
             PROVE  Holds(s) <=> Filled(s, 0)
  OBVIOUS
<1>1. \A w \in Words : ReaderSees(s, w) # 0 <=> Seen(s, w)
  BY Views
<1> QED
  BY <1>1, SlotFacts DEF Holds, Uniform, Filled

\* Only two steps change what is filled: the writer fills the slot at tail, the reader clears the
\* slot at head.
LEMMA FillSteps ==
  ASSUME IInv, Uniform, [Next]_vars, NEW s \in Slots, NEW w \in Words
  PROVE  /\ EnqueueStore => (Filled(s, w)' <=> Filled(s, w) \/ s = tail)
         /\ ClearSlot => (Filled(s, w)' <=> Filled(s, w) /\ s # head)
         /\ ~EnqueueStore /\ ~ClearSlot => (Filled(s, w)' <=> Filled(s, w))
<1> USE DEF IInv
<1>1. CASE EnqueueStore
  <2>1. /\ UNCHANGED <<buffer, unzeroed>> /\ unlanded' = unlanded \union SlotWords(tail)
        /\ tail \in Slots /\ wpc = "store"
    BY <1>1 DEF EnqueueStore, TypeOK, WriterType
  <2>2. Filled(s, w)' <=> Filled(s, w) \/ s = tail
    BY <2>1, SlotWordsFacts DEF Filled, Seen
  <2>3. ~ClearSlot
    BY <1>1 DEF EnqueueStore, ClearSlot, writerVars
  <2> QED
    BY <1>1, <2>2, <2>3
<1>2. CASE ClearSlot
  <2>1. /\ UNCHANGED <<buffer, unlanded>> /\ unzeroed' = unzeroed \union SlotWords(head)
        /\ head \in Slots /\ \A v \in Words : Seen(head, v)
    BY <1>2 DEF ClearSlot, Shared, TypeOK, ReaderType, ReaderInv
  <2>2. s = head => <<s, w>> \notin unlanded
    BY <2>1 DEF Seen, MemoryInv
  <2>3. Filled(s, w)' <=> Filled(s, w) /\ s # head
    BY <2>1, <2>2, SlotWordsFacts DEF Filled, Seen
  <2>4. ~EnqueueStore
    BY <1>2 DEF EnqueueStore, ClearSlot, writerVars, Shared
  <2> QED
    BY <1>2, <2>3, <2>4
<1>3. CASE \E t \in Slots, v \in Words : WriteLands(t, v) \/ ZeroLands(t, v)
  <2>1. PICK t \in Slots, v \in Words : WriteLands(t, v) \/ ZeroLands(t, v)
    BY <1>3
  <2>2. wpc' = wpc /\ rpc' = rpc
    BY <2>1 DEF WriteLands, ZeroLands, writerVars, readerVars
  <2>3. ~EnqueueStore /\ ~ClearSlot
    BY <2>2 DEF EnqueueStore, ClearSlot
  <2>4. <<s, w>> # <<t, v>> => buffer'[s][w] = buffer[s][w]
    BY <2>1 DEF WriteLands, ZeroLands, TypeOK, MemoryType
  <2>5. CASE WriteLands(t, v)
    <3>1. /\ buffer'[t][v] = issued[t] /\ issued[t] # 0 /\ buffer[t][v] = 0
          /\ unzeroed' = unzeroed /\ unlanded' = unlanded \ {<<t, v>>}
          /\ <<t, v>> \in unlanded /\ <<t, v>> \notin unzeroed
      BY <2>5 DEF WriteLands, MemoryInv, TypeOK, MemoryType
    <3> QED
      BY <2>3, <2>4, <3>1 DEF Filled, Seen
  <2>6. CASE ZeroLands(t, v)
    <3>1. /\ unlanded' = unlanded /\ unzeroed' = unzeroed \ {<<t, v>>}
          /\ <<t, v>> \in unzeroed /\ <<t, v>> \notin unlanded /\ buffer'[t][v] = 0
      BY <2>6 DEF ZeroLands, MemoryInv, TypeOK, MemoryType
    <3> QED
      BY <2>3, <2>4, <3>1 DEF Filled, Seen
  <2> QED
    BY <2>1, <2>5, <2>6
<1>4. CASE UNCHANGED <<buffer, unlanded, unzeroed>> /\ ~EnqueueStore /\ ~ClearSlot
  BY <1>4 DEF Filled, Seen
<1> QED
  BY <1>1, <1>2, <1>3, <1>4 DEF Next, vars, Writer, InEnqueue, RefusedByOverflow, EnqueueCall,
     SetOverflowCall, QueueFullScan, MarkOverflow, Dequeue, InDequeue, DequeuePeekOverflow,
     DequeuePeeked, DequeueCall, PeekCall, CheckOverflow, CheckEmpty, Acknowledge, ScanData,
     CopyWord, Memory, Shared

\* EnqueueStore puts the slot at tail in use, ClearSlot frees the slot at head, and no other
\* step changes which slots are in use.
LEMMA HoldsSteps ==
  ASSUME IInv, Uniform, [Next]_vars
  PROVE  /\ Uniform'
         /\ \A s \in Slots :
              /\ EnqueueStore => (Holds(s)' <=> Holds(s) \/ s = tail)
              /\ ClearSlot => (Holds(s)' <=> Holds(s) /\ s # head)
              /\ ~EnqueueStore /\ ~ClearSlot => (Holds(s)' <=> Holds(s))
<1>1. IInv'
  BY InductiveInv
<1>2. Uniform'
  <2> SUFFICES ASSUME NEW s \in Slots, NEW v \in Words, NEW w \in Words, Filled(s, v)'
               PROVE  Filled(s, w)'
    BY DEF Uniform
  <2>1. Filled(s, v) <=> Filled(s, w)
    BY DEF Uniform
  <2> QED
    BY <2>1, FillSteps
<1>3. /\ \A s \in Slots : Holds(s) <=> Filled(s, 0)
      /\ \A s \in Slots : Holds(s)' <=> Filled(s, 0)'
  <2>1. (TypeOK /\ MemoryInv /\ Uniform => \A s \in Slots : Holds(s) <=> Filled(s, 0))'
    BY HoldsIsFilled, PTL
  <2> QED
    BY <1>1, <1>2, <2>1, HoldsIsFilled DEF IInv
<1>4. 0 \in Words
  BY SlotFacts
<1> QED
  BY <1>2, <1>3, <1>4, FillSteps

-----------------------------------------------------------------------------
(* The strengthened invariant is inductive.                                *)

\* The strengthening holds of a new queue: nothing is in the slots.
LEMMA InitStreamInv == Init => StreamInv
<1> SUFFICES ASSUME Init PROVE StreamInv
  OBVIOUS
<1> USE DEF Init, Pm_QueueCreate
<1>1. \A s \in Slots, w \in Words : ~Filled(s, w) /\ ReaderSees(s, w) = 0
  BY DEF Filled, Seen, ReaderSees
<1>2. \A s \in Slots : ~Holds(s)
  BY <1>1 DEF Holds
<1>3. head \in Slots /\ tail \in Slots /\ Used = 0 /\ \A s \in Slots : Distance(s) >= 0
  BY <1>2, SlotFacts DEF Used, Distance, Slots
<1>4. Uniform /\ InOrder
  BY <1>1, <1>2, <1>3, SlotFacts DEF Uniform, InOrder, Distance, Slots
<1> QED
  BY <1>4 DEF StreamInv, Marked, Reading

\* There are at most as many slots in use as there are slots.
LEMMA UsedType == TypeOK => Used \in 0..NumMsgs
BY NumMsgsAssumption DEF TypeOK, WriterType, ReaderType, Slots, Used

\* What head, tail and the slots in use are after a step.
LEMMA UsedSteps ==
  ASSUME IInv, StreamInv, [Next]_vars
  PROVE  /\ InOrder'
         /\ EnqueueStore => Used' = Used + 1 /\ tail = Wrapped(head + Used)
         /\ ClearSlot => Used' = Used - 1 /\ Used \in 1..NumMsgs
         /\ ~EnqueueStore /\ ~ClearSlot => Used' = Used
         /\ Used \in 0..NumMsgs
<1>1. /\ head \in 0..NumMsgs - 1 /\ tail \in 0..NumMsgs - 1 /\ NumMsgs \in Nat \ {0}
      /\ IInv' /\ InOrder
  BY InductiveInv, NumMsgsAssumption
  DEF IInv, TypeOK, WriterType, ReaderType, Slots, StreamInv
<1>a. Used \in 0..NumMsgs
  BY UsedType DEF IInv
<1>2. CASE EnqueueStore
  <2>1. head' = head /\ tail' = Advance(tail) /\ wpc = "store" /\ ~ClearSlot
    BY <1>2 DEF EnqueueStore, ClearSlot, readerVars, writerVars
  <2>2. \A s \in 0..NumMsgs - 1 : Holds(s)' <=> Holds(s) \/ s = tail
    BY <1>2, HoldsSteps DEF StreamInv, Slots
  <2>3. ~Holds(tail)
    <3>1. Free(tail, 0) /\ tail \in Slots
      BY <2>1, SlotFacts DEF IInv, WriterInv, TypeOK, WriterType
    <3>2. ~Filled(tail, 0)
      BY <3>1 DEF Free, Filled, Seen
    <3> QED
      BY <3>1, <3>2, HoldsIsFilled DEF IInv, StreamInv
  <2>4. \A s \in 0..NumMsgs - 1 : Holds(s) <=> Distance(s) < Used
    BY <1>1 DEF InOrder, Slots
  <2>5. Used = Distance(tail) /\ tail' = IF tail = NumMsgs - 1 THEN 0 ELSE tail + 1
    BY <2>1, <2>3 DEF Used, Distance, Advance
  <2>6. Holds(tail)' <=> tail' = head
    BY <1>1, <2>2, <2>3, <2>4, <2>5 DEF Distance
  <2>7. Used' = Used + 1
    BY <1>1, <2>1, <2>5, <2>6 DEF Used, Distance
  <2>8. \A s \in 0..NumMsgs - 1 : Distance(s)' = Distance(s)
    BY <2>1 DEF Distance
  <2>9. InOrder'
    BY <1>1, <2>1, <2>2, <2>4, <2>5, <2>6, <2>7, <2>8 DEF InOrder, Distance, Slots
  <2>10. tail = Wrapped(head + Used)
    BY <1>1, <2>5 DEF Wrapped, Distance
  <2> QED
    BY <1>a, <1>2, <2>1, <2>7, <2>9, <2>10
<1>3. CASE ClearSlot
  <2>1. tail' = tail /\ head' = Advance(head) /\ rpc = "clear" /\ ~EnqueueStore
    BY <1>3 DEF ClearSlot, EnqueueStore, Shared, writerVars, readerVars
  <2>2. \A s \in 0..NumMsgs - 1 : Holds(s)' <=> Holds(s) /\ s # head
    BY <1>3, HoldsSteps DEF StreamInv, Slots
  <2>3. Holds(head)
    <3>1. Seen(head, 0) /\ head \in Slots
      BY <2>1, SlotFacts DEF IInv, ReaderInv, TypeOK, ReaderType
    <3> QED
      BY <3>1, HoldsIsFilled DEF Filled, IInv, StreamInv
  <2>4. \A s \in 0..NumMsgs - 1 : Holds(s) <=> Distance(s) < Used
    BY <1>1 DEF InOrder, Slots
  <2>5. head' = IF head = NumMsgs - 1 THEN 0 ELSE head + 1
    BY <2>1 DEF Advance
  <2>6. ~Holds(tail)' /\ (Holds(tail) <=> tail = head)
    BY <1>1, <2>1, <2>2, <2>3 DEF InOrder
  <2>7. Used' = Used - 1 /\ Used \in 1..NumMsgs
    BY <1>1, <2>1, <2>5, <2>6 DEF Used
  <2>8. \A s \in 0..NumMsgs - 1 :
           Distance(s)' = IF s = head THEN NumMsgs - 1 ELSE Distance(s) - 1
    BY <1>1, <2>5 DEF Distance
  <2>9. InOrder'
    BY <1>1, <2>1, <2>2, <2>4, <2>6, <2>7, <2>8 DEF InOrder, Slots, Distance
  <2> QED
    BY <1>a, <1>3, <2>1, <2>7, <2>9
<1>4. CASE ~EnqueueStore /\ ~ClearSlot
  <2>1. head' = head /\ tail' = tail
    BY <1>4 DEF Next, vars, Writer, InEnqueue, RefusedByOverflow, EnqueueCall,
       SetOverflowCall, QueueFullScan, MarkOverflow, Dequeue, InDequeue, DequeuePeekOverflow,
       DequeuePeeked, DequeueCall, PeekCall, CheckOverflow, CheckEmpty, Acknowledge, ScanData,
       CopyWord, Memory, WriteLands, ZeroLands, Offer, readerVars, writerVars
  <2>2. \A s \in 0..NumMsgs - 1 : Holds(s)' <=> Holds(s)
    BY <1>4, HoldsSteps DEF StreamInv, Slots
  <2>3. Used' = Used /\ \A s \in 0..NumMsgs - 1 : Distance(s)' = Distance(s)
    BY <1>1, <2>1, <2>2 DEF Used, Distance
  <2> QED
    BY <1>a, <1>1, <1>4, <2>1, <2>2, <2>3 DEF InOrder, Slots
<1> QED
  BY <1>2, <1>3, <1>4

\* The writer sets a mark only when none stands, and starts nothing while one does.
LEMMA MarkedStep == IInv /\ StreamInv /\ [Next]_vars => Marked'
<1> SUFFICES ASSUME IInv, StreamInv, [Next]_vars PROVE Marked'
  OBVIOUS
<1>0. Marked /\ offered \in Nat /\ tail \in Slots /\ overflow \in 0..NumMsgs
  BY DEF StreamInv, IInv, TypeOK, WriterType, MemoryType
<1>1. CASE RefusedByOverflow \/ EnqueueCall \/ SetOverflowCall
  <2>1. /\ UNCHANGED <<overflow, unlanded, tail>> /\ offered' > 0
        /\ wpc' # "idle" => overflow = 0
    BY <1>0, <1>1 DEF RefusedByOverflow, EnqueueCall, SetOverflowCall, Offer, Blocked
  <2> QED
    BY <1>0, <2>1 DEF Marked
<1>2. CASE QueueFullScan
  <2>1. UNCHANGED <<overflow, unlanded, tail, offered>> /\ wpc # "idle"
    BY <1>2 DEF QueueFullScan
  <2> QED
    BY <1>0, <2>1 DEF Marked
<1>3. CASE EnqueueStore
  BY <1>0, <1>3 DEF EnqueueStore, Marked
<1>4. CASE MarkOverflow
  <2>1. /\ UNCHANGED <<unlanded, tail>> /\ overflow' = tail + 1 /\ wpc' = "idle"
        /\ \A w \in Words : <<tail, w>> \notin unlanded
    BY <1>0, <1>4, SlotWordsFacts DEF MarkOverflow, TailMark, OldestLanded
  <2> QED
    BY <2>1 DEF Marked
<1>5. CASE Dequeue \/ PeekCall
  <2>1. UNCHANGED <<unlanded, writerVars>> /\ overflow' \in {0, overflow}
    BY <1>5 DEF Dequeue, InDequeue, DequeuePeekOverflow, DequeuePeeked, DequeueCall, PeekCall,
       CheckOverflow, CheckEmpty, Acknowledge, ScanData, CopyWord, ClearSlot, Shared
  <2> QED
    BY <1>0, <2>1 DEF Marked, writerVars
<1>6. CASE Memory
  <2>1. UNCHANGED <<overflow, writerVars>> /\ unlanded' \subseteq unlanded
    BY <1>6 DEF Memory, WriteLands, ZeroLands
  <2> QED
    BY <1>0, <2>1 DEF Marked, writerVars
<1>7. CASE UNCHANGED vars
  BY <1>0, <1>7 DEF Marked, vars, writerVars
<1> QED
  BY <1>1, <1>2, <1>3, <1>4, <1>5, <1>6, <1>7 DEF Next, Writer, InEnqueue

\* What the reader has read of the mark and of the slot at head stays true until it is done:
\* the mark of head is that of tail, so the writer is idle and nothing is on its way to head.
LEMMA ReadingStep == IInv /\ StreamInv /\ [Next]_vars => Reading'
<1> SUFFICES ASSUME IInv, StreamInv, [Next]_vars PROVE Reading'
  OBVIOUS
<1>0. /\ Reading /\ Marked /\ head \in Slots /\ tail \in Slots
      /\ head \in Nat /\ tail \in Nat
  BY SlotFacts DEF StreamInv, IInv, TypeOK, WriterType, ReaderType
<1>1. CASE Writer
  <2>1. UNCHANGED readerVars
    BY <1>1 DEF Writer, InEnqueue, RefusedByOverflow, EnqueueCall, SetOverflowCall,
       QueueFullScan, EnqueueStore, MarkOverflow
  <2>2. wpc = "idle" => overflow' = overflow /\ ~EnqueueStore /\ ~ClearSlot
    BY <1>1, <2>1 DEF Writer, InEnqueue, RefusedByOverflow, EnqueueCall, SetOverflowCall,
       QueueFullScan, EnqueueStore, MarkOverflow, ClearSlot, readerVars
  <2>3. rpc \in {"empty", "acknowledge"} => wpc = "idle"
    BY <1>0 DEF Reading, Marked
  <2>4. wpc = "idle" => (Holds(head)' <=> Holds(head))
    BY <1>0, <2>1, <2>2, HoldsSteps DEF StreamInv, readerVars
  <2> QED
    BY <1>0, <2>1, <2>2, <2>3, <2>4 DEF Reading, readerVars, peekVars
<1>2. CASE DequeuePeekOverflow \/ DequeuePeeked \/ Acknowledge \/ ClearSlot
  BY <1>2 DEF DequeuePeekOverflow, DequeuePeeked, Acknowledge, ClearSlot, Reading
<1>3. CASE DequeueCall \/ PeekCall
  BY <1>3 DEF DequeueCall, PeekCall, Reading, peekVars
<1>4. CASE CheckOverflow \/ ScanData \/ CopyWord
  <2>1. /\ UNCHANGED <<overflow, head, op, peekVars>> /\ rpc # "idle"
        /\ rpc' # "acknowledge" /\ (rpc' = "empty" => AtOverflow)
    BY <1>4 DEF CheckOverflow, ScanData, CopyWord, Shared
  <2> QED
    BY <1>0, <2>1 DEF Reading, peekVars, AtOverflow
<1>5. CASE CheckEmpty
  <2>1. /\ UNCHANGED <<Shared, unzeroed, head, op, peekVars>> /\ rpc = "empty"
        /\ rpc' # "empty" /\ (rpc' = "acknowledge" => ReaderSees(head, 0) = 0)
    BY <1>5 DEF CheckEmpty, HeadIsFree
  <2>2. overflow = head + 1 /\ \A w \in Words : <<head, w>> \notin unlanded
    BY <1>0, <2>1 DEF Reading, Marked
  <2>3. rpc' = "acknowledge" => ~Filled(head, 0)
    <3>1. 0 \in Words
      BY SlotFacts
    <3> QED
      BY <1>0, <2>1, <2>2, <3>1, Views DEF Filled, IInv
  <2>4. rpc' = "acknowledge" => ~Holds(head)
    BY <1>0, <2>3, HoldsIsFilled DEF IInv, StreamInv
  <2>5. Holds(head)' <=> Holds(head)
    BY <2>1 DEF Holds, ReaderSees, Shared
  <2> QED
    BY <1>0, <2>1, <2>2, <2>4, <2>5 DEF Reading, peekVars, Shared
<1>6. CASE Memory \/ UNCHANGED vars
  <2>1. UNCHANGED <<overflow, writerVars, readerVars>>
    BY <1>6 DEF Memory, WriteLands, ZeroLands, vars
  <2>2. rpc = "acknowledge" => ~EnqueueStore /\ ~ClearSlot
    BY <1>0, <2>1 DEF Reading, Marked, EnqueueStore, ClearSlot
  <2>3. rpc = "acknowledge" => (Holds(head)' <=> Holds(head))
    BY <1>0, <2>1, <2>2, HoldsSteps DEF StreamInv, readerVars
  <2> QED
    BY <1>0, <2>1, <2>3 DEF Reading, readerVars, peekVars
<1> QED
  BY <1>1, <1>2, <1>3, <1>4, <1>5, <1>6 DEF Next, Dequeue, InDequeue

\* Every step of either thread or of the memory keeps the strengthening, given IInv.
LEMMA StreamInvStep == IInv /\ StreamInv /\ [Next]_vars => StreamInv'
<1> SUFFICES ASSUME IInv, StreamInv, [Next]_vars PROVE StreamInv'
  OBVIOUS
<1>1. Uniform' /\ InOrder'
  BY HoldsSteps, UsedSteps DEF StreamInv
<1> QED
  BY <1>1, MarkedStep, ReadingStep DEF StreamInv

\* Both invariants hold in every state that the queue can be in.
LEMMA BothInv == Spec => [](IInv /\ StreamInv)
<1>1. Init => IInv /\ StreamInv
  BY InitInv, InitStreamInv
<1>2. IInv /\ StreamInv /\ [Next]_vars => (IInv /\ StreamInv)'
  BY InductiveInv, StreamInvStep
<1> QED
  BY <1>1, <1>2, PTL DEF Spec

\* Pm_Enqueue returns pmBufferOverflow (pmutil.c:201-206) only when, what the reader has
\* cleared being in memory, every one of the num_msgs slots holds an unread message.
THEOREM FullIsTrue == Spec => FullOnlyIfFull
<1>1. ASSUME IInv, StreamInv, [Next]_vars, wpc = "scan", wpc' = "mark", unzeroed = {}
      PROVE  \A s \in Slots : Holds(s)
  <2>1. TailIsTaken
    BY <1>1 DEF Next, vars, Writer, InEnqueue, RefusedByOverflow, EnqueueCall, SetOverflowCall,
       QueueFullScan, EnqueueStore, MarkOverflow, Offer, Dequeue, InDequeue,
       DequeuePeekOverflow, DequeuePeeked, DequeueCall, PeekCall, CheckOverflow, CheckEmpty,
       Acknowledge, ScanData, CopyWord, ClearSlot, Memory, WriteLands, ZeroLands, writerVars
  <2>2. tail \in Slots /\ wi \in Words /\ head \in Slots
    BY <1>1 DEF IInv, TypeOK, WriterType, ReaderType
  <2>3. Holds(tail)
    BY <1>1, <2>1, <2>2 DEF TailIsTaken, WriterSees, Holds, ReaderSees
  <2>4. Used = NumMsgs /\ \A s \in Slots : Distance(s) < NumMsgs
    BY <2>2, <2>3, NumMsgsAssumption DEF Used, Distance, Slots
  <2> QED
    BY <1>1, <2>4 DEF StreamInv, InOrder
<1>2. IInv /\ StreamInv /\ [Next]_vars
        => [wpc = "scan" /\ wpc' = "mark" /\ unzeroed = {} => \A s \in Slots : Holds(s)]_vars
  BY <1>1
<1> QED
  BY <1>2, BothInv, PTL DEF Spec, FullOnlyIfFull

-----------------------------------------------------------------------------
(* The refinement: sequences first.                                        *)

\* A function on 1..n is a sequence.
LEMMA SeqOfFunction ==
  ASSUME NEW n \in Nat, NEW f \in [1..n -> Int]
  PROVE  f \in Seq(Int) /\ Len(f) = n
OBVIOUS

\* How a concatenation is grouped does not matter.
LEMMA Regroup == \A s, t, u \in Seq(Int) : (s \o t) \o u = s \o (t \o u)
<1> SUFFICES ASSUME NEW s \in Seq(Int), NEW t \in Seq(Int), NEW u \in Seq(Int)
             PROVE  (s \o t) \o u = s \o (t \o u)
  OBVIOUS
<1> QED
  BY ConcatAssociative

\* Taking the first element off, and putting one at the end.
LEMMA ConsFacts ==
  ASSUME NEW x \in Int, NEW s \in Seq(Int)
  PROVE  /\ <<x>> \in Seq(Int) /\ <<x>> \o s \in Seq(Int)
         /\ <<x>> \o s # <<>> /\ Head(<<x>> \o s) = x /\ Tail(<<x>> \o s) = s
         /\ Append(s, x) \in Seq(Int) /\ Append(s, x) = s \o <<x>>
         /\ Append(s, x) # <<>> /\ Last(Append(s, x)) = x
<1>1. <<x>> \in Seq(Int) /\ Len(<<x>>) = 1 /\ <<x>>[1] = x
  OBVIOUS
<1>2. /\ <<x>> \o s \in Seq(Int) /\ Len(<<x>> \o s) = 1 + Len(s)
      /\ \A i \in 1..1 + Len(s) : (<<x>> \o s)[i] = IF i <= 1 THEN <<x>>[i] ELSE s[i - 1]
      /\ Len(s) \in Nat
  BY <1>1, ConcatProperties, LenProperties
<1>3. <<x>> \o s # <<>> /\ Head(<<x>> \o s) = x
  BY <1>1, <1>2
<1>4. /\ Tail(<<x>> \o s) \in Seq(Int) /\ Len(Tail(<<x>> \o s)) = Len(s)
      /\ \A i \in 1..Len(s) : Tail(<<x>> \o s)[i] = (<<x>> \o s)[i + 1]
  BY <1>2, <1>3, HeadTailProperties
<1>5. \A i \in 1..Len(s) : Tail(<<x>> \o s)[i] = s[i]
  BY <1>2, <1>4
<1>6. Tail(<<x>> \o s) = s
  BY <1>4, <1>5, SeqEqual
<1>7. /\ Append(s, x) \in Seq(Int) /\ Append(s, x) = s \o <<x>>
      /\ Append(s, x) # <<>> /\ Last(Append(s, x)) = x
  BY AppendProperties, AppendIsConcat DEF Last
<1> QED
  BY <1>1, <1>2, <1>3, <1>6, <1>7

\* The slots in use hold a sequence of messages.
LEMMA InSlotsType == TypeOK => InSlots \in Seq(Int) /\ Len(InSlots) = Used
<1> SUFFICES ASSUME TypeOK PROVE InSlots \in Seq(Int) /\ Len(InSlots) = Used
  OBVIOUS
<1>1. /\ head \in 0..NumMsgs - 1 /\ NumMsgs \in Nat \ {0} /\ Used \in 0..NumMsgs
      /\ issued \in [0..NumMsgs - 1 -> Nat]
  BY UsedType, NumMsgsAssumption DEF TypeOK, MemoryType, ReaderType, Slots
<1>2. ASSUME NEW i \in 1..Used PROVE issued[Wrapped(head + i - 1)] \in Int
  <2>1. Wrapped(head + i - 1) \in 0..NumMsgs - 1
    BY <1>1 DEF Wrapped
  <2> QED
    BY <1>1, <2>1
<1>3. InSlots \in [1..Used -> Int]
  BY <1>2 DEF InSlots
<1> QED
  BY <1>1, <1>3, SeqOfFunction

\* What the slots in use hold, from one step to the next: EnqueueStore adds the message at the
\* end, ClearSlot takes the one at head off the front.
LEMMA InSlotsSteps ==
  ASSUME IInv, StreamInv, [Next]_vars
  PROVE  /\ InSlots \in Seq(Int) /\ InSlots' \in Seq(Int)
         /\ Used = 0 => InSlots = <<>>
         /\ EnqueueStore => InSlots' = Append(InSlots, offered)
         /\ ClearSlot => InSlots = <<issued[head]>> \o InSlots'
         /\ ~EnqueueStore /\ ~ClearSlot => InSlots' = InSlots
<1>1. /\ head \in 0..NumMsgs - 1 /\ NumMsgs \in Nat \ {0} /\ tail \in Slots
      /\ issued \in [0..NumMsgs - 1 -> Nat] /\ Used \in 0..NumMsgs
      /\ offered \in Nat
  BY UsedType, NumMsgsAssumption
  DEF IInv, TypeOK, MemoryType, WriterType, ReaderType, Slots
<1>2. /\ InSlots \in Seq(Int) /\ Len(InSlots) = Used
      /\ InSlots' \in Seq(Int) /\ Len(InSlots') = Used' /\ Used' \in 0..NumMsgs
  <2>1. (TypeOK => InSlots \in Seq(Int) /\ Len(InSlots) = Used)'
    BY InSlotsType, PTL
  <2>2. (TypeOK => Used \in 0..NumMsgs)'
    BY UsedType, PTL
  <2> QED
    BY <2>1, <2>2, InSlotsType, InductiveInv DEF IInv
<1>3. Used = 0 => InSlots = <<>>
  BY <1>2, EmptySeq
<1>4. CASE EnqueueStore
  <2>1. /\ head' = head /\ issued' = [issued EXCEPT ![tail] = offered] /\ ~ClearSlot
        /\ Used' = Used + 1 /\ tail = Wrapped(head + Used)
    BY <1>4, UsedSteps DEF EnqueueStore, ClearSlot, readerVars, writerVars
  <2>2. \A i \in 1..Used : Wrapped(head + i - 1) # tail
    BY <1>1, <1>2, <2>1 DEF Wrapped
  <2>3. ASSUME NEW i \in 1..Used PROVE InSlots'[i] = InSlots[i]
    <3>1. InSlots'[i] = issued'[Wrapped(head + i - 1)] /\ InSlots[i] = issued[Wrapped(head + i - 1)]
      BY <1>1, <2>1 DEF InSlots, Wrapped
    <3>2. Wrapped(head + i - 1) # tail
      BY <2>2
    <3> QED
      BY <1>1, <2>1, <3>1, <3>2
  <2>4. InSlots'[Used + 1] = offered
    BY <1>1, <2>1 DEF InSlots, Wrapped, Slots
  <2>5. /\ Append(InSlots, offered) \in Seq(Int) /\ Len(Append(InSlots, offered)) = Used + 1
        /\ \A i \in 1..Used : Append(InSlots, offered)[i] = InSlots[i]
        /\ Append(InSlots, offered)[Used + 1] = offered
    BY <1>1, <1>2, AppendProperties
  <2>6. \A i \in 1..Used + 1 : InSlots'[i] = Append(InSlots, offered)[i]
    BY <1>1, <2>3, <2>4, <2>5
  <2>7. InSlots' = Append(InSlots, offered)
    BY <1>2, <2>1, <2>5, <2>6, SeqEqual
  <2> QED
    BY <1>2, <1>3, <1>4, <2>1, <2>7
<1>5. CASE ClearSlot
  <2>1. /\ head' = Advance(head) /\ issued' = issued /\ ~EnqueueStore
        /\ Used' = Used - 1 /\ Used \in 1..NumMsgs
    BY <1>5, UsedSteps DEF EnqueueStore, ClearSlot, Shared, writerVars, readerVars
  <2>2. \A i \in 1..Used' : Wrapped(head' + i - 1) = Wrapped(head + i)
    BY <1>1, <2>1 DEF Wrapped, Advance
  <2>3. \A i \in 1..Used' : InSlots'[i] = InSlots[i + 1]
    BY <1>1, <2>1, <2>2 DEF InSlots
  <2>4. InSlots[1] = issued[head] /\ issued[head] \in Int
    BY <1>1, <2>1 DEF InSlots, Wrapped
  <2>5. /\ <<issued[head]>> \in Seq(Int) /\ Len(<<issued[head]>>) = 1
        /\ <<issued[head]>>[1] = issued[head]
    BY <2>4
  <2>6. /\ <<issued[head]>> \o InSlots' \in Seq(Int)
        /\ Len(<<issued[head]>> \o InSlots') = 1 + Used'
        /\ \A i \in 1..1 + Used' : (<<issued[head]>> \o InSlots')[i]
                                      = IF i <= 1 THEN <<issued[head]>>[i] ELSE InSlots'[i - 1]
    BY <1>2, <2>5, ConcatProperties
  <2>7. \A i \in 1..Used : InSlots[i] = (<<issued[head]>> \o InSlots')[i]
    BY <1>1, <2>1, <2>3, <2>4, <2>5, <2>6
  <2>8. InSlots = <<issued[head]>> \o InSlots'
    <3>1. Len(InSlots) = Len(<<issued[head]>> \o InSlots')
      BY <1>1, <1>2, <2>1, <2>6
    <3>2. \A i \in 1..Len(InSlots) : InSlots[i] = (<<issued[head]>> \o InSlots')[i]
      BY <1>2, <2>7
    <3> QED
      BY <1>2, <2>6, <3>1, <3>2, SeqEqual, Zenon
  <2> QED
    BY <1>2, <1>3, <1>5, <2>1, <2>8
<1>6. CASE ~EnqueueStore /\ ~ClearSlot
  <2>1. head' = head /\ issued' = issued /\ Used' = Used
    BY <1>6, UsedSteps DEF Next, vars, Writer, InEnqueue, RefusedByOverflow, EnqueueCall,
       SetOverflowCall, QueueFullScan, MarkOverflow, Dequeue, InDequeue, DequeuePeekOverflow,
       DequeuePeeked, DequeueCall, PeekCall, CheckOverflow, CheckEmpty, Acknowledge, ScanData,
       CopyWord, Memory, WriteLands, ZeroLands, Offer, readerVars, Shared
  <2>2. InSlots' = InSlots
    BY <2>1 DEF InSlots
  <2> QED
    BY <1>2, <1>3, <1>6, <2>2
<1> QED
  BY <1>4, <1>5, <1>6

\* What is put at the end of Unread.
LEMMA EndFacts ==
  ASSUME NEW p \in Seq(Int), NEW k \in Seq(Int), NEW s \in Seq(Int), NEW x \in Int
  PROVE  /\ p \o k \o s \o <<>> \in Seq(Int)
         /\ p \o k \o Append(s, x) \o <<>> = Append(p \o k \o s \o <<>>, x)
         /\ p \o k \o s \o <<x>> = Append(p \o k \o s \o <<>>, x)
<1>1. <<x>> \in Seq(Int) /\ Append(s, x) \in Seq(Int) /\ Append(s, x) = s \o <<x>>
  BY ConsFacts
<1>2. p \o k \in Seq(Int)
  BY ConcatProperties
<1>3. p \o k \o s \in Seq(Int) /\ p \o k \o Append(s, x) \in Seq(Int)
  BY <1>1, <1>2, ConcatProperties
<1>4. /\ p \o k \o s \o <<>> = p \o k \o s
      /\ p \o k \o Append(s, x) \o <<>> = p \o k \o Append(s, x)
  BY <1>3, ConcatEmptySeq
<1>5. p \o k \o Append(s, x) = p \o k \o s \o <<x>>
  BY <1>1, <1>2, Regroup
<1> QED
  BY <1>3, <1>4, <1>5, ConsFacts

\* The four parts of Unread, one after the other.
Joined(p, k, s, o) == p \o k \o s \o o

\* Two equal entries, one after the other.
LEMMA TwoEntries ==
  \A x \in Int : /\ Len(<<x>> \o <<x>>) = 2
                 /\ (<<x>> \o <<x>>)[1] = x /\ (<<x>> \o <<x>>)[2] = x
                 /\ Tail(<<x>> \o <<x>>) = <<x>>
<1> SUFFICES ASSUME NEW x \in Int
             PROVE  /\ Len(<<x>> \o <<x>>) = 2
                    /\ (<<x>> \o <<x>>)[1] = x /\ (<<x>> \o <<x>>)[2] = x
                    /\ Tail(<<x>> \o <<x>>) = <<x>>
  OBVIOUS
<1> DEFINE a == <<x>>  b == <<x>>  c == a \o b
<1>1. /\ a \in Seq(Int) /\ Len(a) = 1 /\ a[1] = x
      /\ b \in Seq(Int) /\ Len(b) = 1 /\ b[1] = x
  OBVIOUS
<1>2. Tail(c) = b
  BY <1>1, ConsFacts
<1> HIDE DEF a, b
<1>3. /\ Len(c) = Len(a) + Len(b)
      /\ \A i \in 1..Len(a) + Len(b) : c[i] = IF i <= Len(a) THEN a[i] ELSE b[i - Len(a)]
  <2>1. a \in Seq(Int) /\ b \in Seq(Int)
    BY <1>1
  <2> QED
    BY <2>1, ConcatProperties
<1> HIDE DEF c
<1>4. c[1] = a[1] /\ c[2] = b[1] /\ Len(c) = 2
  BY <1>1, <1>3
<1> QED
  BY <1>1, <1>2, <1>4 DEF a, b, c

\* The parts of Unread are sequences of messages and gaps.
LEMMA PartsType ==
  TypeOK => /\ If(peek_overflow, Gap) \in Seq(Int) /\ If(peek_flag, Content(peek)) \in Seq(Int)
            /\ InSlots \in Seq(Int) /\ If(overflow # 0, Gap) \in Seq(Int)
            /\ Unread \in Seq(Int)
            /\ Gap \in Int /\ Content(peek) \in Int
<1> SUFFICES ASSUME TypeOK
             PROVE  /\ If(peek_overflow, Gap) \in Seq(Int)
                    /\ If(peek_flag, Content(peek)) \in Seq(Int)
                    /\ InSlots \in Seq(Int) /\ If(overflow # 0, Gap) \in Seq(Int)
                    /\ Unread \in Seq(Int)
                    /\ Gap \in Int /\ Content(peek) \in Int
  OBVIOUS
<1>1. Gap \in Int /\ Content(peek) \in Int
  BY SlotFacts DEF Gap, Content, Torn, TypeOK, ReaderType
<1>2. /\ If(peek_overflow, Gap) \in Seq(Int) /\ If(peek_flag, Content(peek)) \in Seq(Int)
      /\ If(overflow # 0, Gap) \in Seq(Int)
  BY <1>1 DEF If
<1>3. InSlots \in Seq(Int)
  BY InSlotsType
<1>4. Unread \in Seq(Int)
  BY <1>2, <1>3, ConcatProperties DEF Unread
<1> QED
  BY <1>1, <1>2, <1>3, <1>4

\* The same, of Unread alone, to be stated of the next state.
LEMMA UnreadType == TypeOK => Unread \in Seq(Int)
BY PartsType

\* A step that moves one element from the front of Unread to delivered.
LEMMA DeliverStep ==
  ASSUME NEW x \in Int, Unread' \in Seq(Int), Unread = <<x>> \o Unread',
         delivered' = Append(delivered, x), Resolved' = Resolved
  PROVE  Stream!Deliver
BY ConsFacts DEF Stream!Deliver

\* A step of Pm_Enqueue or Pm_SetOverflow accepts a message, drops one, or changes no stream.
LEMMA WriterStreamStep ==
  ASSUME IInv, StreamInv, Writer
  PROVE  [Stream!Next]_(Stream!vars)
<1> DEFINE P == If(peek_overflow, Gap)
           K == If(peek_flag, Content(peek))
           O == If(overflow # 0, Gap)
<1>0. /\ P \in Seq(Int) /\ K \in Seq(Int) /\ InSlots \in Seq(Int) /\ O \in Seq(Int)
      /\ Gap \in Int /\ offered \in Nat /\ Stream!Gap = Gap
  BY PartsType DEF Stream!Gap, Gap, IInv, TypeOK, WriterType
<1>1. UNCHANGED readerVars /\ P' = P /\ K' = K /\ delivered' = delivered
  BY DEF Writer, InEnqueue, RefusedByOverflow, EnqueueCall, SetOverflowCall, QueueFullScan,
     EnqueueStore, MarkOverflow, readerVars, peekVars, If, Content, Whole
<1>a. ~ClearSlot
  BY <1>1 DEF ClearSlot, readerVars
<1>b. Unread = P \o K \o InSlots \o O /\ Unread' = P' \o K' \o InSlots' \o O'
  BY DEF Unread
<1>c. /\ overflow = 0 => O = <<>>
      /\ overflow # 0 => O = <<Gap>>
      /\ overflow' = 0 => O' = <<>>
      /\ overflow' # 0 => O' = <<Gap>>
  BY DEF If
<1> HIDE DEF P, K, O
<1>2. CASE RefusedByOverflow
  <2>1. /\ wpc = "idle" /\ overflow # 0 /\ offered' = offered + 1 /\ wpc' = "idle"
        /\ overflow' = overflow /\ ~EnqueueStore
    BY <1>2 DEF RefusedByOverflow, Offer, Blocked, EnqueueStore
  <2>2. InSlots' = InSlots
    BY <1>a, <2>1, InSlotsSteps DEF Next
  <2>3. O' = O /\ O = <<Gap>>
    BY <1>c, <2>1
  <2>4. Unread' = Unread
    BY <1>1, <1>b, <2>2, <2>3
  <2>5. Unread = Append(P \o K \o InSlots \o <<>>, Gap) /\ P \o K \o InSlots \o <<>> \in Seq(Int)
    BY <1>0, <1>b, <2>3, EndFacts
  <2>6. Unread # <<>> /\ Last(Unread) = Gap
    BY <1>0, <2>5, ConsFacts
  <2>7. Resolved' = Resolved + 1
    BY <2>1 DEF Resolved
  <2> QED
    BY <1>0, <1>1, <2>4, <2>6, <2>7 DEF Stream!Next, Stream!Drop, Stream!Last, Last
<1>3. CASE EnqueueCall \/ SetOverflowCall \/ QueueFullScan
  <2>1. /\ overflow' = overflow /\ ~EnqueueStore /\ Resolved' = Resolved
    <3>1. CASE EnqueueCall \/ SetOverflowCall
      <4>1. /\ wpc = "idle" /\ wpc' # "idle" /\ offered' = offered + 1
            /\ overflow' = overflow /\ ~EnqueueStore
        BY <3>1 DEF EnqueueCall, SetOverflowCall, Offer, EnqueueStore
      <4> QED
        BY <1>0, <4>1 DEF Resolved
    <3>2. CASE QueueFullScan
      BY <1>0, <3>2 DEF QueueFullScan, EnqueueStore, Resolved
    <3> QED
      BY <1>3, <3>1, <3>2
  <2>2. InSlots' = InSlots
    BY <1>a, <2>1, InSlotsSteps DEF Next
  <2>3. O' = O
    BY <1>c, <2>1
  <2> QED
    BY <1>1, <1>b, <2>1, <2>2, <2>3 DEF Stream!vars
<1>4. CASE EnqueueStore
  <2>1. /\ wpc = "store" /\ wpc' = "idle" /\ overflow' = overflow /\ offered' = offered
    BY <1>4 DEF EnqueueStore
  <2>2. overflow = 0
    BY <2>1 DEF StreamInv, Marked
  <2>3. InSlots' = Append(InSlots, offered)
    BY <1>4, InSlotsSteps DEF Next
  <2>4. O' = <<>> /\ O = <<>>
    BY <1>c, <2>1, <2>2
  <2>5. Unread' = Append(Unread, offered)
    BY <1>0, <1>1, <1>b, <2>3, <2>4, EndFacts
  <2>6. Resolved + 1 = offered /\ Resolved' = Resolved + 1
    BY <1>0, <2>1 DEF Resolved
  <2> QED
    BY <1>1, <2>5, <2>6 DEF Stream!Next, Stream!Accept
<1>5. CASE MarkOverflow
  <2>1. /\ wpc = "mark" /\ wpc' = "idle" /\ overflow' = tail + 1 /\ offered' = offered
        /\ ~EnqueueStore /\ tail \in Nat
    BY <1>5, SlotFacts DEF MarkOverflow, TailMark, EnqueueStore, IInv, TypeOK, WriterType
  <2>2. overflow = 0
    BY <2>1 DEF StreamInv, Marked
  <2>3. InSlots' = InSlots
    BY <1>a, <2>1, InSlotsSteps DEF Next
  <2>4. O' = <<Gap>> /\ O = <<>>
    BY <1>c, <2>1, <2>2
  <2>5. Unread' = Append(Unread, Gap)
    BY <1>0, <1>1, <1>b, <2>3, <2>4, EndFacts
  <2>6. Resolved' = Resolved + 1
    BY <1>0, <2>1 DEF Resolved
  <2> QED
    BY <1>0, <1>1, <2>5, <2>6 DEF Stream!Next, Stream!Drop
<1> QED
  BY <1>2, <1>3, <1>4, <1>5 DEF Writer, InEnqueue

\* A step of Pm_Dequeue or Pm_QueuePeek delivers the front of the stream, folds two gaps at its
\* front into one (a peek that meets a second overflow), or changes no stream.
LEMMA ReaderStreamStep ==
  ASSUME IInv, StreamInv, Dequeue \/ PeekCall
  PROVE  [Stream!Next]_(Stream!vars)
<1> DEFINE P == If(peek_overflow, Gap)
           K == If(peek_flag, Content(peek))
           O == If(overflow # 0, Gap)
<1>n. [Next]_vars
  BY DEF Next
<1>0. /\ P \in Seq(Int) /\ K \in Seq(Int) /\ InSlots \in Seq(Int) /\ O \in Seq(Int)
      /\ Gap \in Int /\ Content(peek) \in Int /\ Stream!Gap = Gap
      /\ Unread' \in Seq(Int)
  <2>1. (TypeOK => Unread \in Seq(Int))'
    BY UnreadType, PTL
  <2> QED
    BY <1>n, <2>1, InductiveInv, PartsType DEF Stream!Gap, Gap, IInv
<1>1. UNCHANGED writerVars /\ Resolved' = Resolved /\ ~EnqueueStore
  BY DEF Dequeue, InDequeue, DequeuePeekOverflow, DequeuePeeked, DequeueCall, PeekCall,
     CheckOverflow, CheckEmpty, Acknowledge, ScanData, CopyWord, ClearSlot, Shared, writerVars,
     EnqueueStore, Resolved
<1>2. Unread = Joined(P, K, InSlots, O) /\ Unread' = Joined(P', K', InSlots', O')
  BY DEF Unread, Joined
<1>3. /\ P = IF peek_overflow THEN <<Gap>> ELSE <<>>
      /\ P' = IF peek_overflow' THEN <<Gap>> ELSE <<>>
      /\ K = IF peek_flag THEN <<Content(peek)>> ELSE <<>>
      /\ K' = IF peek_flag' THEN <<Content(peek')>> ELSE <<>>
      /\ O = IF overflow # 0 THEN <<Gap>> ELSE <<>>
      /\ O' = IF overflow' # 0 THEN <<Gap>> ELSE <<>>
  BY DEF If, Content, Whole
<1> HIDE DEF P, K, O
<1>4. CASE DequeuePeekOverflow
  <2>1. /\ peek_overflow /\ ~peek_overflow' /\ delivered' = Append(delivered, Gap)
        /\ UNCHANGED <<overflow, peek, peek_flag>> /\ ~ClearSlot
    BY <1>4 DEF DequeuePeekOverflow, ClearSlot, Shared
  <2>2. P = <<Gap>> /\ P' = <<>> /\ K' = K /\ O' = O
    BY <1>3, <2>1
  <2>3. InSlots' = InSlots
    BY <1>n, <1>0, <1>1, <2>1, InSlotsSteps
  <2>4. Joined(<<Gap>>, K, InSlots, O) = <<Gap>> \o Joined(<<>>, K, InSlots, O)
    <3> DEFINE G == <<Gap>>  R == K \o InSlots
    <3>1. G \in Seq(Int) /\ K \in Seq(Int) /\ InSlots \in Seq(Int) /\ O \in Seq(Int)
      BY <1>0, ConsFacts
    <3>2. R \in Seq(Int) /\ <<>> \o K = K
      BY <3>1, ConcatProperties, ConcatEmptySeq
    <3> HIDE DEF G
    <3>3. (G \o K) \o InSlots = G \o R
      BY <3>1, Regroup, Zenon
    <3> HIDE DEF R
    <3>4. (G \o R) \o O = G \o (R \o O)
      BY <3>1, <3>2, Regroup, Zenon
    <3> QED
      BY <3>2, <3>3, <3>4 DEF G, R, Joined
  <2>5. Unread = <<Gap>> \o Unread'
    BY <1>2, <2>2, <2>3, <2>4
  <2> QED
    BY <1>0, <1>1, <2>1, <2>5, DeliverStep DEF Stream!Next
<1>5. CASE DequeuePeeked
  <2>1. /\ ~peek_overflow /\ peek_flag /\ ~peek_flag'
        /\ delivered' = Append(delivered, Content(peek))
        /\ UNCHANGED <<overflow, peek, peek_overflow>> /\ ~ClearSlot
    BY <1>5 DEF DequeuePeeked, ClearSlot, Shared
  <2>2. P = <<>> /\ P' = <<>> /\ K = <<Content(peek)>> /\ K' = <<>> /\ O' = O
    BY <1>3, <2>1
  <2>3. InSlots' = InSlots
    BY <1>n, <1>0, <1>1, <2>1, InSlotsSteps
  <2>4. Joined(<<>>, <<Content(peek)>>, InSlots, O)
           = <<Content(peek)>> \o Joined(<<>>, <<>>, InSlots, O)
    <3> DEFINE G == <<Content(peek)>>
    <3>1. G \in Seq(Int) /\ InSlots \in Seq(Int) /\ O \in Seq(Int)
      BY <1>0, ConsFacts
    <3>2. <<>> \o <<>> = <<>> /\ <<>> \o G = G /\ <<>> \o InSlots = InSlots
      BY <3>1, EmptySeq, ConcatEmptySeq
    <3> HIDE DEF G
    <3>3. (G \o InSlots) \o O = G \o (InSlots \o O)
      BY <3>1, Regroup, Zenon
    <3> QED
      BY <3>2, <3>3 DEF G, Joined
  <2>5. Unread = <<Content(peek)>> \o Unread'
    BY <1>2, <2>2, <2>3, <2>4
  <2> QED
    BY <1>0, <1>1, <2>1, <2>5, DeliverStep DEF Stream!Next
<1>6. CASE Acknowledge
  <2>1. /\ ~peek_flag /\ overflow # 0 /\ overflow' = 0 /\ ~Holds(head)
        /\ op = "Dequeue" => ~peek_overflow
        /\ UNCHANGED <<peek, peek_flag>> /\ ~ClearSlot
    BY <1>6, SlotFacts
    DEF Acknowledge, ClearSlot, StreamInv, Reading, IInv, TypeOK, ReaderType
  <2>2. head \in Slots /\ Distance(head) = 0 /\ Used \in Nat
    BY UsedType, SlotFacts DEF IInv, TypeOK, ReaderType, Distance
  <2>3. Used = 0
    BY <2>1, <2>2 DEF StreamInv, InOrder
  <2>4. InSlots = <<>> /\ InSlots' = <<>>
    BY <1>n, <1>0, <1>1, <2>1, <2>3, InSlotsSteps
  <2>5. K = <<>> /\ K' = <<>> /\ O = <<Gap>> /\ O' = <<>>
    BY <1>3, <2>1
  <2>6. /\ <<>> \o <<>> = <<>> /\ <<>> \o <<Gap>> = <<Gap>> /\ <<Gap>> \o <<>> = <<Gap>>
        /\ <<Gap>> \in Seq(Int)
    BY <1>0, ConsFacts, ConcatEmptySeq
  <2>7. CASE op # "Peek"
    <3>1. /\ ~peek_overflow /\ ~peek_overflow' /\ delivered' = Append(delivered, Gap)
      BY <1>6, <2>1, <2>7 DEF Acknowledge, IInv, TypeOK, ReaderType
    <3>2. P = <<>> /\ P' = <<>>
      BY <1>3, <3>1
    <3>3. Unread = <<Gap>> \o Unread'
      BY <1>2, <2>4, <2>5, <2>6, <3>2 DEF Joined
    <3> QED
      BY <1>0, <1>1, <3>1, <3>3, DeliverStep DEF Stream!Next
  <2>8. CASE op = "Peek"
    <3>1. delivered' = delivered /\ P' = <<Gap>>
      BY <1>3, <1>6, <2>8 DEF Acknowledge
    <3>2. CASE ~peek_overflow
      <4>1. Unread = <<Gap>> /\ Unread' = <<Gap>>
        BY <1>2, <1>3, <2>4, <2>5, <2>6, <3>1, <3>2 DEF Joined
      <4> QED
        BY <1>1, <3>1, <4>1 DEF Stream!vars
    <3>3. CASE peek_overflow
      <4>1. Unread = <<Gap>> \o <<Gap>> /\ Unread' = <<Gap>>
        BY <1>2, <1>3, <2>4, <2>5, <2>6, <3>1, <3>3 DEF Joined
      <4>2. Len(Unread) = 2 /\ Unread[1] = Gap /\ Unread[2] = Gap /\ Tail(Unread) = <<Gap>>
        <5>1. Gap \in Int
          BY <1>0
        <5> QED
          BY <4>1, <5>1, TwoEntries
      <4>3. Unread[1] = Stream!Gap /\ Unread[2] = Stream!Gap
        BY <1>0, <4>2
      <4>4. Stream!Fold
        BY <1>1, <3>1, <4>1, <4>2, <4>3 DEF Stream!Fold
      <4> QED
        BY <4>4 DEF Stream!Next
    <3> QED
      BY <3>2, <3>3
  <2> QED
    BY <2>7, <2>8
<1>7. CASE ClearSlot
  <2>1. /\ ~peek_flag /\ (op = "Dequeue" => ~peek_overflow)
        /\ UNCHANGED <<overflow, peek_overflow>>
        /\ head \in Slots
        /\ \A w \in Words : msg[w] = issued[head]
    BY <1>7 DEF ClearSlot, Shared, StreamInv, Reading, IInv, TypeOK, ReaderType, ReaderInv
  <2>2. Content(msg) = issued[head] /\ issued[head] \in Int
    BY <2>1, SlotFacts DEF Content, Whole, IInv, TypeOK, MemoryType
  <2>3. InSlots = <<issued[head]>> \o InSlots' /\ InSlots' \in Seq(Int)
    BY <1>n, <1>0, <1>7, InSlotsSteps
  <2>4. K = <<>> /\ P' = P /\ O' = O
    BY <1>3, <2>1
  <2>5. CASE op # "Peek"
    <3>1. /\ ~peek_overflow /\ ~peek_flag' /\ delivered' = Append(delivered, issued[head])
      BY <1>7, <2>1, <2>2, <2>5 DEF ClearSlot, IInv, TypeOK, ReaderType
    <3>2. P = <<>> /\ K' = <<>>
      BY <1>3, <3>1
    <3>3. Joined(<<>>, <<>>, <<issued[head]>> \o InSlots', O)
             = <<issued[head]>> \o Joined(<<>>, <<>>, InSlots', O)
      <4> DEFINE G == <<issued[head]>>  S == InSlots'
      <4>1. G \in Seq(Int) /\ S \in Seq(Int) /\ O \in Seq(Int)
        BY <1>0, <2>2, <2>3, ConsFacts
      <4>2. <<>> \o <<>> = <<>> /\ <<>> \o S = S /\ <<>> \o (G \o S) = G \o S
        BY <4>1, EmptySeq, ConcatProperties, ConcatEmptySeq
      <4> HIDE DEF G, S
      <4>3. (G \o S) \o O = G \o (S \o O)
        BY <4>1, Regroup, Zenon
      <4> QED
        BY <4>2, <4>3 DEF G, S, Joined
    <3>4. Unread = <<issued[head]>> \o Unread'
      BY <1>2, <2>3, <2>4, <3>2, <3>3
    <3> QED
      BY <1>0, <1>1, <2>2, <3>1, <3>4, DeliverStep DEF Stream!Next
  <2>6. CASE op = "Peek"
    <3>1. peek_flag' /\ peek' = msg /\ delivered' = delivered
      BY <1>7, <2>6 DEF ClearSlot
    <3>2. K' = <<issued[head]>>
      BY <1>3, <2>2, <3>1
    <3>3. Joined(P, <<>>, <<issued[head]>> \o InSlots', O)
             = Joined(P, <<issued[head]>>, InSlots', O)
      <4> DEFINE G == <<issued[head]>>  S == InSlots'
      <4>1. P \in Seq(Int) /\ G \in Seq(Int) /\ S \in Seq(Int)
        BY <1>0, <2>2, <2>3, ConsFacts
      <4>2. P \o <<>> = P
        BY <4>1, ConcatEmptySeq
      <4> HIDE DEF G, S
      <4>3. (P \o G) \o S = P \o (G \o S)
        BY <4>1, Regroup, Zenon
      <4> QED
        BY <4>2, <4>3 DEF G, S, Joined
    <3>4. Unread' = Unread
      BY <1>2, <2>3, <2>4, <3>2, <3>3
    <3> QED
      BY <1>1, <3>1, <3>4 DEF Stream!vars
  <2> QED
    BY <2>5, <2>6
<1>8. CASE DequeueCall \/ PeekCall \/ CheckOverflow \/ CheckEmpty \/ ScanData \/ CopyWord
  <2>2. ~ClearSlot /\ UNCHANGED <<overflow, peekVars, delivered>>
    BY <1>8 DEF DequeueCall, PeekCall, CheckOverflow, CheckEmpty, ScanData, CopyWord, Shared,
       ClearSlot
  <2>3. P' = P /\ K' = K /\ O' = O /\ delivered' = delivered
    BY <1>3, <2>2 DEF peekVars
  <2>4. InSlots' = InSlots
    BY <1>n, <1>0, <1>1, <2>2, InSlotsSteps
  <2> QED
    BY <1>1, <1>2, <2>3, <2>4 DEF Stream!vars
<1> QED
  BY <1>4, <1>5, <1>6, <1>7, <1>8 DEF Dequeue, InDequeue

\* A store that lands changes nothing in the stream.
LEMMA MemoryStreamStep ==
  ASSUME IInv, StreamInv, Memory \/ UNCHANGED vars
  PROVE  [Stream!Next]_(Stream!vars)
<1>1. UNCHANGED <<overflow, writerVars, readerVars>> /\ [Next]_vars
  BY DEF Memory, WriteLands, ZeroLands, vars, Next
<1>2. Used' = Used /\ issued' = issued
  <2>1. ~EnqueueStore /\ ~ClearSlot
    BY DEF Memory, WriteLands, ZeroLands, vars, EnqueueStore, ClearSlot, writerVars, readerVars
  <2>2. issued' = issued
    BY DEF Memory, WriteLands, ZeroLands, vars
  <2> QED
    BY <1>1, <2>1, <2>2, UsedSteps
<1>3. InSlots' = InSlots
  BY <1>1, <1>2 DEF InSlots, readerVars
<1>4. Unread' = Unread /\ delivered' = delivered
  BY <1>1, <1>3 DEF Unread, If, Content, Whole, readerVars, peekVars
<1>5. Resolved' = Resolved
  BY <1>1 DEF Resolved, writerVars
<1> QED
  BY <1>4, <1>5 DEF Stream!vars

\* The queue without locks, read and written word by word, behaves as the lossy stream that
\* pmutil.h:83-88 describes: messages are delivered in order, each once, and where some are
\* dropped the reader finds a gap.
THEOREM Refinement == Spec => ImplementsStream
<1>1. Init => Stream!Init
  <2> SUFFICES ASSUME Init PROVE Stream!Init
    OBVIOUS
  <2>1. /\ overflow = 0 /\ ~peek_overflow /\ ~peek_flag /\ delivered = <<>>
        /\ wpc = "idle" /\ offered = 0 /\ head = tail
    BY DEF Init, Pm_QueueCreate
  <2>2. ~Holds(tail)
    <3>1. tail \in Slots /\ unlanded = {} /\ unzeroed = {}
      BY SlotFacts DEF Init, Pm_QueueCreate
    <3>2. \A w \in Words : buffer[tail][w] = 0
      BY <3>1 DEF Init, Pm_QueueCreate
    <3> QED
      BY <3>1, <3>2 DEF Holds, ReaderSees
  <2>3. head \in Int
    BY DEF Init, Pm_QueueCreate
  <2>4. Used = 0
    BY <2>1, <2>2, <2>3 DEF Used
  <2>5. InSlots = <<>>
    BY <2>4 DEF InSlots
  <2>6. Unread = <<>>
    BY <2>1, <2>5 DEF Unread, If
  <2> QED
    BY <2>1, <2>6 DEF Stream!Init, Resolved
<1>2. IInv /\ StreamInv /\ [Next]_vars => [Stream!Next]_(Stream!vars)
  BY WriterStreamStep, ReaderStreamStep, MemoryStreamStep DEF Next
<1> QED
  BY <1>1, <1>2, BothInv, PTL DEF Spec, ImplementsStream, Stream!Spec

-----------------------------------------------------------------------------
(* The lossy stream keeps what the header of PmQueue promises, and so the  *)
(* queue keeps it.                                                         *)

StreamTypes == Resolved \in Nat /\ Unread \in Seq(Int) /\ delivered \in Seq(Int)

\* What the reader gets was offered: every entry but the last is a gap or at most offered.
NotAhead == \A i \in 1..Len(Stream!History) - 1 : Stream!History[i] <= Resolved

HistoryInv == StreamTypes /\ NotAhead /\ Stream!NoSilentLoss /\ Stream!GapMeansLoss

\* What Append does to a sequence.
LEMMA Appended ==
  \A s \in Seq(Int), x \in Int :
     /\ Append(s, x) \in Seq(Int) /\ Len(Append(s, x)) = Len(s) + 1
     /\ Append(s, x)[Len(s) + 1] = x
     /\ \A i \in 1..Len(s) : Append(s, x)[i] = s[i]
<1> SUFFICES ASSUME NEW s \in Seq(Int), NEW x \in Int
             PROVE  /\ Append(s, x) \in Seq(Int) /\ Len(Append(s, x)) = Len(s) + 1
                    /\ Append(s, x)[Len(s) + 1] = x
                    /\ \A i \in 1..Len(s) : Append(s, x)[i] = s[i]
  OBVIOUS
<1> QED
  BY AppendProperties

\* A concatenation, entry by entry.
LEMMA ConcatAt ==
  ASSUME NEW s \in Seq(Int), NEW t \in Seq(Int)
  PROVE  /\ s \o t \in Seq(Int) /\ Len(s \o t) = Len(s) + Len(t)
         /\ Len(s) \in Nat /\ Len(t) \in Nat
         /\ \A i \in 1..Len(s) : (s \o t)[i] = s[i]
         /\ \A i \in 1..Len(t) : (s \o t)[i + Len(s)] = t[i]
<1>1. /\ s \o t \in Seq(Int) /\ Len(s \o t) = Len(s) + Len(t)
      /\ \A i \in 1..Len(s) + Len(t) :
            (s \o t)[i] = IF i <= Len(s) THEN s[i] ELSE t[i - Len(s)]
  BY ConcatProperties
<1>2. Len(s) \in Nat /\ Len(t) \in Nat
  BY LenProperties
<1>3. ASSUME NEW i \in 1..Len(s) PROVE (s \o t)[i] = s[i]
  BY <1>1, <1>2
<1>4. ASSUME NEW i \in 1..Len(t) PROVE (s \o t)[i + Len(s)] = t[i]
  <2>1. i + Len(s) \in 1..Len(s) + Len(t) /\ ~(i + Len(s) <= Len(s)) /\ i + Len(s) - Len(s) = i
    BY <1>2
  <2> QED
    BY <1>1, <2>1
<1> QED
  BY <1>1, <1>2, <1>3, <1>4

\* The history, entry by entry.
LEMMA HistoryAt ==
  StreamTypes =>
     /\ Len(Stream!History) = Len(delivered) + Len(Unread) + 2
     /\ Len(delivered) \in Nat /\ Len(Unread) \in Nat
     /\ Stream!History[1] = 0
     /\ \A i \in 1..Len(delivered) :
           Stream!History[i + 1] = delivered[i] /\ delivered[i] \in Int
     /\ \A i \in 1..Len(Unread) :
           Stream!History[i + (1 + Len(delivered))] = Unread[i] /\ Unread[i] \in Int
     /\ Stream!History[Len(delivered) + Len(Unread) + 2] = Resolved + 1
<1> SUFFICES ASSUME StreamTypes
             PROVE  /\ Len(Stream!History) = Len(delivered) + Len(Unread) + 2
                    /\ Len(delivered) \in Nat /\ Len(Unread) \in Nat
                    /\ Stream!History[1] = 0
                    /\ \A i \in 1..Len(delivered) :
                          Stream!History[i + 1] = delivered[i] /\ delivered[i] \in Int
                    /\ \A i \in 1..Len(Unread) :
                          Stream!History[i + (1 + Len(delivered))] = Unread[i] /\ Unread[i] \in Int
                    /\ Stream!History[Len(delivered) + Len(Unread) + 2] = Resolved + 1
  OBVIOUS
<1> DEFINE z  == <<Resolved + 1>>
           h1 == <<0>> \o delivered
           h2 == h1 \o Unread
<1>1. /\ <<0>> \in Seq(Int) /\ Len(<<0>>) = 1 /\ <<0>>[1] = 0
      /\ z \in Seq(Int) /\ Len(z) = 1 /\ z[1] = Resolved + 1
      /\ delivered \in Seq(Int) /\ Unread \in Seq(Int)
      /\ \A i \in 1..Len(delivered) : delivered[i] \in Int
      /\ \A i \in 1..Len(Unread) : Unread[i] \in Int
  BY LenProperties, ElementOfSeq DEF StreamTypes
<1>h. Stream!History = h2 \o z
  BY DEF Stream!History
<1>2. /\ h1 \in Seq(Int) /\ Len(h1) = 1 + Len(delivered) /\ Len(delivered) \in Nat
      /\ h1[1] = 0
      /\ \A i \in 1..Len(delivered) : h1[i + 1] = delivered[i]
  BY <1>1, ConcatAt
<1> HIDE DEF z, h1
<1>3. /\ h2 \in Seq(Int) /\ Len(h2) = Len(h1) + Len(Unread) /\ Len(Unread) \in Nat
      /\ \A i \in 1..Len(h1) : h2[i] = h1[i]
      /\ \A i \in 1..Len(Unread) : h2[i + Len(h1)] = Unread[i]
  BY <1>1, <1>2, ConcatAt
<1> HIDE DEF h2
<1>4. /\ Len(Stream!History) = Len(h2) + 1
      /\ \A i \in 1..Len(h2) : Stream!History[i] = h2[i]
      /\ Stream!History[1 + Len(h2)] = Resolved + 1
  <2>1. /\ Len(h2 \o z) = Len(h2) + Len(z)
        /\ \A i \in 1..Len(h2) : (h2 \o z)[i] = h2[i]
        /\ \A i \in 1..Len(z) : (h2 \o z)[i + Len(h2)] = z[i]
    BY <1>1, <1>3, ConcatAt
  <2>2. 1 \in 1..Len(z)
    BY <1>1
  <2>3. (h2 \o z)[1 + Len(h2)] = z[1]
    BY <2>1, <2>2
  <2> QED
    BY <1>1, <1>h, <2>1, <2>3
<1>5. Stream!History[1] = 0
  BY <1>2, <1>3, <1>4
<1>6. ASSUME NEW i \in 1..Len(delivered) PROVE Stream!History[i + 1] = delivered[i]
  <2>1. i + 1 \in 1..Len(h1) /\ i + 1 \in 1..Len(h2)
    BY <1>2, <1>3
  <2> QED
    BY <1>2, <1>3, <1>4, <2>1
<1>7. ASSUME NEW i \in 1..Len(Unread) PROVE Stream!History[i + (1 + Len(delivered))] = Unread[i]
  <2>1. i + Len(h1) \in 1..Len(h2) /\ Len(h1) = 1 + Len(delivered)
    BY <1>2, <1>3
  <2>2. Stream!History[i + Len(h1)] = Unread[i]
    BY <1>3, <1>4, <2>1
  <2> QED
    BY <2>1, <2>2
<1>8. Stream!History[Len(delivered) + Len(Unread) + 2] = Resolved + 1
  <2>1. Len(delivered) + Len(Unread) + 2 = 1 + Len(h2)
    BY <1>2, <1>3
  <2> QED
    BY <1>4, <2>1
<1> QED
  BY <1>1, <1>2, <1>3, <1>4, <1>5, <1>6, <1>7, <1>8

\* At the start nothing is delivered, queued or offered.
LEMMA InitHistoryInv == Stream!Init => HistoryInv
<1> SUFFICES ASSUME Stream!Init PROVE HistoryInv
  OBVIOUS
<1>1. StreamTypes
  BY DEF Stream!Init, StreamTypes
<1>2. Len(Stream!History) = 2 /\ Stream!History[1] = 0 /\ Stream!History[2] = 1 /\ Resolved = 0
  <2>1. Len(delivered) = 0 /\ Len(Unread) = 0 /\ Resolved = 0
    BY DEF Stream!Init
  <2> QED
    BY <1>1, <2>1, HistoryAt
<1>3. \A i \in 1..2 - 1 : i = 1
  OBVIOUS
<1>4. NotAhead
  BY <1>2, <1>3 DEF NotAhead
<1>5. Stream!NoSilentLoss
  BY <1>2, <1>3 DEF Stream!NoSilentLoss
<1>6. Stream!GapMeansLoss
  BY <1>2 DEF Stream!GapMeansLoss
<1> QED
  BY <1>1, <1>4, <1>5, <1>6 DEF HistoryInv

\* The types are kept by every step.
LEMMA NextStreamTypes == StreamTypes /\ [Stream!Next]_(Stream!vars) => StreamTypes'
<1> SUFFICES ASSUME StreamTypes, [Stream!Next]_(Stream!vars) PROVE StreamTypes'
  OBVIOUS
<1>1. CASE Stream!Accept
  BY <1>1, Appended DEF Stream!Accept, StreamTypes
<1>2. CASE Stream!Drop
  <2>1. Stream!Gap \in Int
    BY DEF Stream!Gap
  <2>2. Append(Unread, Stream!Gap) \in Seq(Int)
    BY <2>1, Appended DEF StreamTypes
  <2>3. (Unread' = Append(Unread, Stream!Gap) \/ Unread' = Unread) /\ delivered' = delivered
    BY <1>2 DEF Stream!Drop
  <2>4. Unread' \in Seq(Int)
    BY <2>2, <2>3 DEF StreamTypes
  <2>5. Resolved' = Resolved + 1
    BY <1>2 DEF Stream!Drop
  <2> QED
    BY <2>3, <2>4, <2>5 DEF StreamTypes
<1>3. CASE Stream!Deliver
  <2>1. Head(Unread) \in Int /\ Tail(Unread) \in Seq(Int)
    BY <1>3, HeadTailProperties DEF Stream!Deliver, StreamTypes
  <2> QED
    BY <1>3, <2>1, Appended DEF Stream!Deliver, StreamTypes
<1>4. CASE Stream!Fold
  <2>1. Unread # <<>>
    BY <1>4 DEF Stream!Fold
  <2>2. Tail(Unread) \in Seq(Int)
    BY <2>1, HeadTailProperties DEF StreamTypes
  <2> QED
    BY <1>4, <2>2 DEF Stream!Fold, StreamTypes
<1>5. CASE UNCHANGED Stream!vars
  BY <1>5 DEF Stream!vars, StreamTypes
<1> QED
  BY <1>1, <1>2, <1>3, <1>4, <1>5 DEF Stream!Next

\* The history of the next state, entry by entry.
LEMMA HistoryAtNext ==
  ASSUME StreamTypes, [Stream!Next]_(Stream!vars)
  PROVE  /\ StreamTypes'
         /\ Len(Stream!History') = Len(delivered') + Len(Unread') + 2
         /\ Len(delivered') \in Nat /\ Len(Unread') \in Nat
         /\ Stream!History'[1] = 0
         /\ \A i \in 1..Len(delivered') :
               Stream!History'[i + 1] = delivered'[i] /\ delivered'[i] \in Int
         /\ \A i \in 1..Len(Unread') :
               Stream!History'[i + (1 + Len(delivered'))] = Unread'[i] /\ Unread'[i] \in Int
         /\ Stream!History'[Len(delivered') + Len(Unread') + 2] = Resolved' + 1
<1>1. (StreamTypes =>
          /\ Len(Stream!History) = Len(delivered) + Len(Unread) + 2
          /\ Len(delivered) \in Nat /\ Len(Unread) \in Nat
          /\ Stream!History[1] = 0
          /\ \A i \in 1..Len(delivered) :
                Stream!History[i + 1] = delivered[i] /\ delivered[i] \in Int
          /\ \A i \in 1..Len(Unread) :
                Stream!History[i + (1 + Len(delivered))] = Unread[i] /\ Unread[i] \in Int
          /\ Stream!History[Len(delivered) + Len(Unread) + 2] = Resolved + 1)'
  BY HistoryAt, PTL
<1> QED
  BY <1>1, NextStreamTypes

\* What the queue keeps in its place, the history keeps in its place.
LEMMA SamePrefix ==
  ASSUME StreamTypes, [Stream!Next]_(Stream!vars), delivered' = delivered,
         NEW m \in Nat, m <= Len(Unread), m <= Len(Unread'),
         \A i \in 1..m : Unread'[i] = Unread[i]
  PROVE  \A i \in 1..Len(delivered) + m + 1 :
            Stream!History'[i] = Stream!History[i] /\ Stream!History[i] \in Int
<1> SUFFICES ASSUME NEW i \in 1..Len(delivered) + m + 1
             PROVE  Stream!History'[i] = Stream!History[i] /\ Stream!History[i] \in Int
  OBVIOUS
<1> DEFINE d == Len(delivered)
<1>1. d \in Nat /\ Len(Unread) \in Nat /\ Len(Unread') \in Nat
  BY HistoryAt, HistoryAtNext
<1>2. i = 1 \/ i - 1 \in 1..d \/ i - (1 + d) \in 1..m
  BY <1>1
<1>3. CASE i = 1
  BY <1>3, HistoryAt, HistoryAtNext
<1>4. CASE i - 1 \in 1..d
  <2>1. i = (i - 1) + 1
    BY <1>1
  <2>2. Stream!History[(i - 1) + 1] = delivered[i - 1] /\ delivered[i - 1] \in Int
    BY <1>4, HistoryAt
  <2>3. Stream!History'[(i - 1) + 1] = delivered[i - 1]
    BY <1>4, HistoryAtNext
  <2> QED
    BY <2>1, <2>2, <2>3
<1>5. CASE i - (1 + d) \in 1..m
  <2> DEFINE j == i - (1 + d)
  <2>1. i = j + (1 + d) /\ j \in 1..Len(Unread) /\ j \in 1..Len(Unread') /\ j \in 1..m
    BY <1>1, <1>5
  <2> HIDE DEF j
  <2>2. Stream!History[j + (1 + d)] = Unread[j] /\ Unread[j] \in Int
    BY <2>1, HistoryAt
  <2>3. Stream!History'[j + (1 + d)] = Unread'[j]
    BY <2>1, HistoryAtNext
  <2> QED
    BY <2>1, <2>2, <2>3
<1> QED
  BY <1>2, <1>3, <1>4, <1>5

-----------------------------------------------------------------------------
(* What each step does to the history, and to the promise.                 *)

\* A message is accepted: the history is the same with one more message at the end.
LEMMA AcceptHistoryInv ==
  ASSUME HistoryInv, Stream!Accept
  PROVE  HistoryInv'
<1> DEFINE n == Len(delivered) + Len(Unread) + 2
<1>1. /\ [Stream!Next]_(Stream!vars) /\ StreamTypes /\ Resolved \in Nat /\ Resolved' = Resolved + 1
      /\ Unread' = Append(Unread, Resolved + 1) /\ delivered' = delivered
  BY DEF Stream!Next, HistoryInv, StreamTypes, Stream!Accept
<1>2. /\ Len(Unread') = Len(Unread) + 1 /\ Unread'[Len(Unread) + 1] = Resolved + 1
      /\ \A i \in 1..Len(Unread) : Unread'[i] = Unread[i]
  BY <1>1, Appended DEF StreamTypes
<1>3. /\ n \in Nat /\ n >= 2 /\ Len(Unread) \in Nat /\ Len(delivered) \in Nat
      /\ Len(Stream!History) = n /\ Len(Stream!History') = n + 1
      /\ Stream!History[n] = Resolved + 1 /\ Stream!History'[n + 1] = Resolved + 2
  BY <1>1, <1>2, HistoryAt, HistoryAtNext
<1>4. \A i \in 1..n - 1 : Stream!History'[i] = Stream!History[i] /\ Stream!History[i] \in Int
  <2>1. \A i \in 1..Len(delivered) + Len(Unread) + 1 :
           Stream!History'[i] = Stream!History[i] /\ Stream!History[i] \in Int
    BY <1>1, <1>2, <1>3, SamePrefix
  <2> QED
    BY <1>3, <2>1
<1>5. Stream!History'[n] = Resolved + 1
  <2>1. Len(Unread) + 1 \in 1..Len(Unread')
    BY <1>2, <1>3
  <2>2. Stream!History'[(Len(Unread) + 1) + (1 + Len(delivered))] = Resolved + 1
    BY <1>1, <1>2, <2>1, HistoryAtNext
  <2> QED
    BY <1>3, <2>2
<1> HIDE DEF n
<1>6. \A i \in 1..n : Stream!History'[i] = Stream!History[i] /\ Stream!History[i] \in Int
  <2>1. \A i \in 1..n : i = n \/ i \in 1..n - 1
    BY <1>3
  <2> QED
    BY <1>1, <1>3, <1>4, <1>5, <2>1
<1>7. /\ \A i \in 1..n - 1 : Stream!History[i] <= Resolved
      /\ \A i \in 1..n - 1 : Stream!History[i] # Stream!Gap /\ Stream!History[i + 1] # Stream!Gap
                               => Stream!History[i + 1] = Stream!History[i] + 1
      /\ Stream!GapMeansLoss
  BY <1>3 DEF HistoryInv, NotAhead, Stream!NoSilentLoss, Stream!Message
<1>8. NotAhead'
  BY <1>1, <1>3, <1>6, <1>7 DEF NotAhead
<1>9. Stream!NoSilentLoss'
  <2> SUFFICES ASSUME NEW i \in 1..n, Stream!History'[i] # Stream!Gap,
                      Stream!History'[i + 1] # Stream!Gap
               PROVE  Stream!History'[i + 1] = Stream!History'[i] + 1
    BY <1>3 DEF Stream!NoSilentLoss, Stream!Message
  <2>1. i = n \/ (i \in 1..n - 1 /\ i + 1 \in 1..n)
    BY <1>3
  <2> QED
    BY <1>1, <1>3, <1>6, <1>7, <2>1
<1>10. Stream!GapMeansLoss'
  <2> SUFFICES ASSUME NEW i \in 1..n + 1, NEW j \in 1..n + 1, i + 1 < j,
                      Stream!History'[i] # Stream!Gap, Stream!History'[j] # Stream!Gap,
                      \A k \in i + 1..j - 1 : ~(Stream!History'[k] # Stream!Gap)
               PROVE  Stream!History'[j] > Stream!History'[i] + 1
    BY <1>3 DEF Stream!GapMeansLoss, Stream!Message
  <2>1. j # n + 1
    <3> SUFFICES ASSUME j = n + 1 PROVE FALSE
      OBVIOUS
    <3>1. n \in i + 1..j - 1
      BY <1>3
    <3> QED
      BY <1>1, <1>3, <1>5, <3>1 DEF Stream!Gap
  <2>2. i \in 1..n /\ j \in 1..n /\ \A k \in i + 1..j - 1 : k \in 1..n
    BY <1>3, <2>1
  <2>3. /\ Stream!History[i] # Stream!Gap /\ Stream!History[j] # Stream!Gap
        /\ \A k \in i + 1..j - 1 : ~(Stream!History[k] # Stream!Gap)
    BY <1>6, <2>2
  <2>4. Stream!History[j] > Stream!History[i] + 1
    BY <1>3, <1>7, <2>2, <2>3 DEF Stream!GapMeansLoss, Stream!Message
  <2> QED
    BY <1>6, <2>2, <2>4
<1> QED
  BY <1>1, <1>8, <1>9, <1>10, HistoryAtNext DEF HistoryInv

\* A message is dropped: the entry before the last is a gap, a new one or the one that was there,
\* and the last, the message to be offered next, is one further.
LEMMA DropShape ==
  ASSUME HistoryInv, Stream!Drop
  PROVE  \E m \in Nat :
            /\ m >= 1 /\ Len(Stream!History') = m + 2
            /\ m + 1 <= Len(Stream!History)
            /\ \A i \in 1..m : Stream!History'[i] = Stream!History[i] /\ Stream!History[i] \in Int
            /\ Stream!History'[m + 1] = Stream!Gap /\ Stream!History'[m + 2] = Resolved + 2
<1>1. /\ [Stream!Next]_(Stream!vars) /\ StreamTypes /\ Resolved \in Nat /\ Resolved' = Resolved + 1
      /\ delivered' = delivered /\ Stream!Gap \in Int
  BY DEF Stream!Next, HistoryInv, StreamTypes, Stream!Drop, Stream!Gap
<1>2. /\ Len(Unread) \in Nat /\ Len(delivered) \in Nat
      /\ Len(Stream!History) = Len(delivered) + Len(Unread) + 2
  BY <1>1, HistoryAt
<1>3. CASE Unread' = Append(Unread, Stream!Gap)
  <2>1. /\ Len(Unread') = Len(Unread) + 1 /\ Unread'[Len(Unread) + 1] = Stream!Gap
        /\ \A i \in 1..Len(Unread) : Unread'[i] = Unread[i]
    BY <1>1, <1>3, Appended DEF StreamTypes
  <2> DEFINE m == Len(delivered) + Len(Unread) + 1
  <2>2. \A i \in 1..m : Stream!History'[i] = Stream!History[i] /\ Stream!History[i] \in Int
    <3>1. Len(Unread) <= Len(Unread) /\ Len(Unread) <= Len(Unread')
      BY <1>2, <2>1
    <3> QED
      BY <1>1, <1>2, <2>1, <3>1, SamePrefix
  <2>3. Len(Unread) + 1 \in 1..Len(Unread')
    BY <1>2, <2>1
  <2>4. Stream!History'[(Len(Unread) + 1) + (1 + Len(delivered))] = Stream!Gap
    BY <1>1, <2>1, <2>3, HistoryAtNext
  <2>5. (Len(Unread) + 1) + (1 + Len(delivered)) = m + 1
    BY <1>2
  <2>6. Len(Stream!History') = m + 2 /\ Stream!History'[m + 2] = Resolved + 2
    BY <1>1, <1>2, <2>1, HistoryAtNext
  <2>7. m \in Nat /\ m >= 1 /\ m + 1 <= Len(Stream!History)
    BY <1>2
  <2> QED
    BY <2>2, <2>4, <2>5, <2>6, <2>7
<1>4. CASE Unread # <<>> /\ Stream!Last(Unread) = Stream!Gap /\ Unread' = Unread
  <2>1. Len(Unread) \in Nat \ {0} /\ Unread[Len(Unread)] = Stream!Gap
    BY <1>1, <1>4, EmptySeq DEF StreamTypes, Stream!Last
  <2> DEFINE m == Len(delivered) + Len(Unread)
  <2>2. \A i \in 1..Len(Unread) - 1 : Unread'[i] = Unread[i]
    BY <1>4
  <2>3. \A i \in 1..Len(delivered) + (Len(Unread) - 1) + 1 :
           Stream!History'[i] = Stream!History[i] /\ Stream!History[i] \in Int
    BY <1>1, <1>2, <1>4, <2>1, <2>2, SamePrefix
  <2>4. \A i \in 1..m : Stream!History'[i] = Stream!History[i] /\ Stream!History[i] \in Int
    BY <1>2, <2>1, <2>3
  <2>5. Stream!History'[Len(Unread) + (1 + Len(delivered))] = Stream!Gap
    <3>1. Len(Unread) \in 1..Len(Unread')
      BY <1>4, <2>1
    <3>2. Stream!History'[Len(Unread) + (1 + Len(delivered'))] = Unread'[Len(Unread)]
      BY <1>1, <3>1, HistoryAtNext
    <3> QED
      BY <1>1, <1>4, <2>1, <3>2
  <2>6. Len(Stream!History') = m + 2 /\ Stream!History'[m + 2] = Resolved + 2
    BY <1>1, <1>2, <1>4, HistoryAtNext
  <2>7. /\ m \in Nat /\ m >= 1 /\ m + 1 <= Len(Stream!History)
        /\ Len(Unread) + (1 + Len(delivered)) = m + 1
    BY <1>2, <2>1
  <2> QED
    BY <2>4, <2>5, <2>6, <2>7
<1> QED
  BY <1>3, <1>4 DEF Stream!Drop

\* Losing a message at the end of the queue, where a gap is or is put.
LEMMA DropHistoryInv ==
  ASSUME HistoryInv, Stream!Drop
  PROVE  HistoryInv'
<1>1. PICK m \in Nat :
            /\ m >= 1 /\ Len(Stream!History') = m + 2
            /\ m + 1 <= Len(Stream!History)
            /\ \A i \in 1..m : Stream!History'[i] = Stream!History[i] /\ Stream!History[i] \in Int
            /\ Stream!History'[m + 1] = Stream!Gap /\ Stream!History'[m + 2] = Resolved + 2
  BY DropShape
<1>2. /\ [Stream!Next]_(Stream!vars) /\ StreamTypes
      /\ Resolved \in Nat /\ Resolved' = Resolved + 1 /\ Stream!Gap = -1
  BY DEF Stream!Next, HistoryInv, StreamTypes, Stream!Drop, Stream!Gap
<1>3. Len(Stream!History) \in Nat
  BY <1>2, HistoryAt
<1>4. /\ \A i \in 1..m : Stream!History[i] <= Resolved
      /\ \A i \in 1..m - 1 : Stream!History[i] # Stream!Gap /\ Stream!History[i + 1] # Stream!Gap
                               => Stream!History[i + 1] = Stream!History[i] + 1
      /\ Stream!GapMeansLoss
  BY <1>1, <1>3 DEF HistoryInv, NotAhead, Stream!NoSilentLoss, Stream!Message
<1>5. \A i \in 1..m + 2 : i \in 1..m \/ i = m + 1 \/ i = m + 2
  OBVIOUS
<1>6. NotAhead'
  BY <1>1, <1>2, <1>4 DEF NotAhead
<1>7. Stream!NoSilentLoss'
  <2> SUFFICES ASSUME NEW i \in 1..m + 1, Stream!History'[i] # Stream!Gap,
                      Stream!History'[i + 1] # Stream!Gap
               PROVE  Stream!History'[i + 1] = Stream!History'[i] + 1
    BY <1>1 DEF Stream!NoSilentLoss, Stream!Message
  <2>1. i \in 1..m - 1 /\ i \in 1..m /\ i + 1 \in 1..m
    BY <1>1
  <2> QED
    BY <1>1, <1>4, <2>1
<1>8. Stream!GapMeansLoss'
  <2> SUFFICES ASSUME NEW i \in 1..m + 2, NEW j \in 1..m + 2, i + 1 < j,
                      Stream!History'[i] # Stream!Gap, Stream!History'[j] # Stream!Gap,
                      \A k \in i + 1..j - 1 : ~(Stream!History'[k] # Stream!Gap)
               PROVE  Stream!History'[j] > Stream!History'[i] + 1
    BY <1>1 DEF Stream!GapMeansLoss, Stream!Message
  <2>1. j # m + 1 /\ i \in 1..m
    BY <1>1
  <2>2. CASE j = m + 2
    BY <1>1, <1>2, <1>4, <2>1, <2>2
  <2>3. CASE j \in 1..m
    <3>1. \A k \in i + 1..j - 1 : k \in 1..m
      BY <2>1, <2>3
    <3>2. /\ Stream!History[i] # Stream!Gap /\ Stream!History[j] # Stream!Gap
          /\ \A k \in i + 1..j - 1 : ~(Stream!History[k] # Stream!Gap)
      BY <1>1, <2>1, <2>3, <3>1
    <3>3. i \in 1..Len(Stream!History) /\ j \in 1..Len(Stream!History)
      BY <1>1, <1>3, <2>1, <2>3
    <3>4. Stream!History[j] > Stream!History[i] + 1
      BY <1>4, <3>2, <3>3 DEF Stream!GapMeansLoss, Stream!Message
    <3> QED
      BY <1>1, <2>1, <2>3, <3>4
  <2> QED
    BY <1>5, <2>1, <2>2, <2>3
<1> QED
  BY <1>2, <1>6, <1>7, <1>8, HistoryAtNext DEF HistoryInv

\* A sequence is its first entry and the rest.
LEMMA HeadAndTail ==
  ASSUME NEW s \in Seq(Int), s # <<>>
  PROVE  /\ Head(s) \in Int /\ <<Head(s)>> \in Seq(Int) /\ Tail(s) \in Seq(Int)
         /\ <<Head(s)>> \o Tail(s) = s
<1>1. /\ Head(s) \in Int /\ Tail(s) \in Seq(Int) /\ Len(Tail(s)) = Len(s) - 1
      /\ \A i \in 1..Len(Tail(s)) : Tail(s)[i] = s[i + 1]
  BY HeadTailProperties
<1>2. <<Head(s)>> \in Seq(Int) /\ Len(<<Head(s)>>) = 1 /\ <<Head(s)>>[1] = s[1]
  BY <1>1
<1>3. Len(s) \in Nat \ {0}
  BY EmptySeq
<1>4. /\ <<Head(s)>> \o Tail(s) \in Seq(Int)
      /\ Len(<<Head(s)>> \o Tail(s)) = 1 + (Len(s) - 1)
      /\ \A i \in 1..1 + (Len(s) - 1) : (<<Head(s)>> \o Tail(s))[i]
                                           = IF i <= 1 THEN <<Head(s)>>[i] ELSE Tail(s)[i - 1]
  <2>1. /\ <<Head(s)>> \o Tail(s) \in Seq(Int)
        /\ Len(<<Head(s)>> \o Tail(s)) = Len(<<Head(s)>>) + Len(Tail(s))
        /\ \A i \in 1..Len(<<Head(s)>>) + Len(Tail(s)) :
              (<<Head(s)>> \o Tail(s))[i]
                 = IF i <= Len(<<Head(s)>>) THEN <<Head(s)>>[i]
                                            ELSE Tail(s)[i - Len(<<Head(s)>>)]
    BY <1>1, <1>2, ConcatProperties
  <2> QED
    BY <1>1, <1>2, <2>1
<1>5. ASSUME NEW i \in 1..Len(s) PROVE (<<Head(s)>> \o Tail(s))[i] = s[i]
  <2>1. CASE i = 1
    BY <1>2, <1>3, <1>4, <2>1
  <2>2. CASE i # 1
    <3>1. i - 1 \in 1..Len(Tail(s)) /\ (i - 1) + 1 = i
      BY <1>1, <1>3, <2>2
    <3>2. Tail(s)[i - 1] = s[i]
      BY <1>1, <3>1
    <3> QED
      BY <1>3, <1>4, <2>2, <3>2
  <2> QED
    BY <2>1, <2>2
<1>6. Len(<<Head(s)>> \o Tail(s)) = Len(s)
  BY <1>3, <1>4
<1> QED
  BY <1>1, <1>2, <1>4, <1>5, <1>6, SeqEqual

\* What is delivered leaves the queue and stays in the history.
LEMMA DeliverHistoryInv ==
  ASSUME HistoryInv, Stream!Deliver
  PROVE  HistoryInv'
<1> DEFINE h == <<Head(Unread)>>
           a == <<0>> \o delivered
<1>1. /\ [Stream!Next]_(Stream!vars) /\ StreamTypes
      /\ Resolved' = Resolved /\ Unread' = Tail(Unread)
      /\ delivered' = Append(delivered, Head(Unread)) /\ Unread # <<>>
  BY DEF Stream!Next, HistoryInv, Stream!Deliver
<1>2. /\ h \in Seq(Int) /\ Tail(Unread) \in Seq(Int) /\ h \o Tail(Unread) = Unread
      /\ Head(Unread) \in Int /\ delivered \in Seq(Int) /\ <<0>> \in Seq(Int)
  BY <1>1, HeadAndTail DEF StreamTypes
<1>3. delivered' = delivered \o h
  BY <1>1, <1>2, AppendIsConcat
<1> HIDE DEF h
<1>4. a \o h = <<0>> \o (delivered \o h) /\ a \in Seq(Int)
  <2>1. (<<0>> \o delivered) \o h = <<0>> \o (delivered \o h)
    BY <1>2, Regroup
  <2>2. a \in Seq(Int)
    BY <1>2, ConcatProperties
  <2> QED
    BY <1>2, <2>1, <2>2
<1> HIDE DEF a
<1>5. (a \o h) \o Tail(Unread) = a \o Unread
  <2>1. (a \o h) \o Tail(Unread) = a \o (h \o Tail(Unread))
    BY <1>2, <1>4, Regroup
  <2> QED
    BY <1>2, <2>1
<1>6. Stream!History' = Stream!History
  BY <1>1, <1>3, <1>4, <1>5 DEF Stream!History, a
<1>7. NotAhead' /\ Stream!NoSilentLoss' /\ Stream!GapMeansLoss'
  BY <1>1, <1>6 DEF HistoryInv, NotAhead, Stream!NoSilentLoss, Stream!GapMeansLoss, Stream!Message
<1> QED
  BY <1>1, <1>7, HistoryAtNext DEF HistoryInv

\* Of two gaps side by side one goes: what comes after it moves up by one.
LEMMA FoldHistoryInv ==
  ASSUME HistoryInv, Stream!Fold
  PROVE  HistoryInv'
<1> DEFINE p == Len(delivered) + 2
           n == Len(delivered) + Len(Unread) + 2
<1>1. /\ [Stream!Next]_(Stream!vars) /\ StreamTypes
      /\ Resolved' = Resolved /\ Unread' = Tail(Unread)
      /\ delivered' = delivered /\ Unread[1] = Stream!Gap /\ Unread[2] = Stream!Gap
      /\ Len(Unread) >= 2 /\ Unread \in Seq(Int) /\ Resolved \in Nat
  BY DEF Stream!Next, HistoryInv, Stream!Fold, StreamTypes
<1>2. /\ Len(delivered) \in Nat /\ Len(Unread) \in Nat /\ Unread # <<>>
      /\ Len(Stream!History) = n /\ Stream!History[n] = Resolved + 1
  BY <1>1, HistoryAt, EmptySeq
<1>3. /\ Len(Unread') = Len(Unread) - 1
      /\ \A i \in 1..Len(Unread) - 1 : Unread'[i] = Unread[i + 1]
  BY <1>1, <1>2, HeadTailProperties
<1>4. /\ n \in Nat /\ p \in Nat /\ p >= 2 /\ p + 2 <= n /\ Len(Stream!History') = n - 1
      /\ Stream!History'[n - 1] = Resolved + 1
  BY <1>1, <1>2, <1>3, HistoryAtNext
<1>5. \A i \in 1..p : Stream!History'[i] = Stream!History[i] /\ Stream!History[i] \in Int
  <2>1. Unread'[1] = Stream!Gap
    BY <1>1, <1>2, <1>3
  <2>2. \A i \in 1..1 : Unread'[i] = Unread[i]
    BY <1>1, <2>1
  <2>3. \A i \in 1..Len(delivered) + 1 + 1 :
           Stream!History'[i] = Stream!History[i] /\ Stream!History[i] \in Int
    <3>1. 1 \in Nat /\ 1 <= Len(Unread) /\ 1 <= Len(Unread')
      BY <1>1, <1>2, <1>3
    <3> QED
      BY <1>1, <2>2, <3>1, SamePrefix
  <2> QED
    BY <1>2, <2>3
<1>6. Stream!History[p] = Stream!Gap /\ Stream!History[p + 1] = Stream!Gap
  <2>1. 1 \in 1..Len(Unread) /\ 2 \in 1..Len(Unread)
    BY <1>1, <1>2
  <2>2. /\ Stream!History[1 + (1 + Len(delivered))] = Unread[1]
        /\ Stream!History[2 + (1 + Len(delivered))] = Unread[2]
    BY <1>1, <2>1, HistoryAt
  <2>3. 1 + (1 + Len(delivered)) = p /\ 2 + (1 + Len(delivered)) = p + 1
    BY <1>2
  <2> QED
    BY <1>1, <2>2, <2>3
<1>7. ASSUME NEW i \in p..n - 1
      PROVE  Stream!History'[i] = Stream!History[i + 1] /\ Stream!History[i + 1] \in Int
  <2>1. CASE i = n - 1
    BY <1>1, <1>2, <1>4, <2>1
  <2>2. CASE i # n - 1
    <3> DEFINE j == i - (1 + Len(delivered))
    <3>1. /\ j \in 1..Len(Unread) - 1 /\ j + 1 \in 1..Len(Unread) /\ j \in 1..Len(Unread')
          /\ j + (1 + Len(delivered)) = i /\ (j + 1) + (1 + Len(delivered)) = i + 1
      <4>1. i \in Int /\ i >= Len(delivered) + 2 /\ i <= Len(delivered) + Len(Unread)
        BY <1>2, <2>2
      <4> QED
        BY <1>2, <1>3, <4>1
    <3> HIDE DEF j
    <3>2. Stream!History'[j + (1 + Len(delivered))] = Unread'[j]
      BY <1>1, <3>1, HistoryAtNext
    <3>3. Stream!History[(j + 1) + (1 + Len(delivered))] = Unread[j + 1] /\ Unread[j + 1] \in Int
      BY <1>1, <3>1, HistoryAt
    <3> QED
      BY <1>3, <3>1, <3>2, <3>3
  <2> QED
    BY <2>1, <2>2
<1> HIDE DEF p, n
<1>8. \A i \in 1..n - 1 : i \in 1..p - 1 \/ i \in p..n - 1
  BY <1>4
<1>9. /\ \A i \in 1..n - 1 : Stream!History[i] <= Resolved
      /\ \A i \in 1..n - 1 : Stream!History[i] # Stream!Gap /\ Stream!History[i + 1] # Stream!Gap
                               => Stream!History[i + 1] = Stream!History[i] + 1
      /\ Stream!GapMeansLoss
  BY <1>2 DEF HistoryInv, NotAhead, Stream!NoSilentLoss, Stream!Message
<1>10. NotAhead'
  <2> SUFFICES ASSUME NEW i \in 1..n - 2 PROVE Stream!History'[i] <= Resolved
    BY <1>1, <1>4 DEF NotAhead
  <2>1. CASE i \in 1..p - 1
    BY <1>4, <1>5, <1>9, <2>1
  <2>2. CASE i \in p..n - 1
    BY <1>4, <1>7, <1>9, <2>2
  <2> QED
    BY <1>4, <1>8, <2>1, <2>2
<1>11. Stream!NoSilentLoss'
  <2> SUFFICES ASSUME NEW i \in 1..n - 2, Stream!History'[i] # Stream!Gap,
                      Stream!History'[i + 1] # Stream!Gap
               PROVE  Stream!History'[i + 1] = Stream!History'[i] + 1
    BY <1>4 DEF Stream!NoSilentLoss, Stream!Message
  <2>1. CASE i \in 1..p - 1
    <3>1. i \in 1..p /\ i + 1 \in 1..p /\ i \in 1..n - 1
      BY <1>4, <2>1
    <3> QED
      BY <1>5, <1>9, <3>1
  <2>2. CASE i \in p..n - 1
    <3>1. i + 1 \in p..n - 1 /\ i + 1 \in 1..n - 1 /\ i \in p..n - 1
      BY <1>4, <2>2
    <3>2. /\ Stream!History'[i] = Stream!History[i + 1]
          /\ Stream!History'[i + 1] = Stream!History[(i + 1) + 1]
      BY <1>7, <3>1
    <3> QED
      BY <1>9, <3>1, <3>2
  <2> QED
    BY <1>4, <1>8, <2>1, <2>2
<1>12. Stream!GapMeansLoss'
  <2> SUFFICES ASSUME NEW i \in 1..n - 1, NEW j \in 1..n - 1, i + 1 < j,
                      Stream!History'[i] # Stream!Gap, Stream!History'[j] # Stream!Gap,
                      \A k \in i + 1..j - 1 : ~(Stream!History'[k] # Stream!Gap)
               PROVE  Stream!History'[j] > Stream!History'[i] + 1
    BY <1>4 DEF Stream!GapMeansLoss, Stream!Message
  <2> DEFINE f(k) == IF k < p THEN k ELSE k + 1
  <2>1. \A k \in 1..n - 1 : /\ f(k) \in 1..n
                            /\ Stream!History'[k] = Stream!History[f(k)]
    BY <1>4, <1>5, <1>7, <1>8
  <2>2. f(i) + 1 < f(j) /\ f(i) \in 1..n /\ f(j) \in 1..n
    BY <1>4
  <2>3. ASSUME NEW k \in f(i) + 1..f(j) - 1 PROVE ~(Stream!History[k] # Stream!Gap)
    <3>1. CASE k = p
      BY <1>6, <3>1
    <3>2. CASE k < p
      <4>1. k \in i + 1..j - 1 /\ k \in 1..p
        BY <1>4, <3>2
      <4> QED
        BY <1>5, <4>1
    <3>3. CASE k > p
      <4>1. k - 1 \in i + 1..j - 1 \/ k = p + 1
        BY <1>4, <3>3
      <4>2. k - 1 \in p..n - 1 /\ (k - 1) + 1 = k
        BY <1>4, <3>3, <2>2
      <4>3. Stream!History'[k - 1] = Stream!History[k]
        BY <1>7, <4>2
      <4> QED
        BY <1>6, <4>1, <4>3
    <3> QED
      BY <1>4, <3>1, <3>2, <3>3
  <2>4. Stream!History[f(i)] # Stream!Gap /\ Stream!History[f(j)] # Stream!Gap
    BY <2>1
  <2>5. Stream!History[f(j)] > Stream!History[f(i)] + 1
    BY <1>2, <1>9, <2>2, <2>3, <2>4 DEF Stream!GapMeansLoss, Stream!Message
  <2> QED
    BY <2>1, <2>5
<1> QED
  BY <1>1, <1>10, <1>11, <1>12, HistoryAtNext DEF HistoryInv

\* Every step of the stream keeps HistoryInv.
LEMMA NextHistoryInv == HistoryInv /\ [Stream!Next]_(Stream!vars) => HistoryInv'
<1>1. HistoryInv /\ UNCHANGED Stream!vars => HistoryInv'
  <2> SUFFICES ASSUME HistoryInv, UNCHANGED Stream!vars PROVE HistoryInv'
    OBVIOUS
  <2>1. Stream!History' = Stream!History /\ Resolved' = Resolved
    BY DEF Stream!vars, Stream!History
  <2> QED
    BY <2>1 DEF HistoryInv, StreamTypes, NotAhead, Stream!NoSilentLoss, Stream!GapMeansLoss,
       Stream!Message, Stream!vars
<1> QED
  BY <1>1, AcceptHistoryInv, DropHistoryInv, DeliverHistoryInv, FoldHistoryInv DEF Stream!Next

\* The reader of the queue is told of every loss, and of none that did not happen: between two
\* messages that Pm_Dequeue or Pm_QueuePeek give one after the other something was lost if and
\* only if pmBufferOverflow stands between them (pmutil.c:109-133, 196-206).
THEOREM NothingIsLostSilently == Spec => []GapIffLoss
<1>1. HistoryInv => GapIffLoss
  BY DEF HistoryInv, GapIffLoss
<1> QED
  BY <1>1, Refinement, InitHistoryInv, NextHistoryInv, PTL DEF ImplementsStream, Stream!Spec
=============================================================================
