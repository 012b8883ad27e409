------------------------------- MODULE PmQueue -------------------------------
(***************************************************************************)
(* The lock-free queue of src/pm_common/pmutil.c between the thread that   *)
(* receives MIDI input (the one writer) and the application (the one       *)
(* reader).  There are no locks and no barriers: a word of a slot is zero  *)
(* when it is free, and Pm_Enqueue encodes a message so that none of its   *)
(* words is zero, which makes every word its own "data valid" tag.         *)
(*                                                                         *)
(* Every load of shared memory is a step of its own.  A store to the       *)
(* buffer is issued first (unlanded, unzeroed) and becomes visible to the  *)
(* other side later, in any order: this covers the order in which the      *)
(* zero-encoding writes the words as well as the out-of-order stores that  *)
(* the header claims to tolerate.  A side always sees its own stores.      *)
(*                                                                         *)
(* A word's content is abstracted to the number of the message it belongs  *)
(* to, 0 being the zero word.                                              *)
(***************************************************************************)
EXTENDS Integers, FiniteSets, Sequences, SequencesExt

CONSTANTS NumMsgs,     \* num_msgs of Pm_QueueCreate
          MsgWords,    \* int32s_per_msg: words of a message before encoding
          MaxOffered   \* bound: how many messages (or OS overruns) the writer handles

ASSUME NumMsgsAssumption    == NumMsgs \in Nat \ {0}
ASSUME MsgWordsAssumption   == MsgWords \in Nat \ {0}
ASSUME MaxOfferedAssumption == MaxOffered \in Nat

Slots == 0..NumMsgs - 1
Words == 0..MsgWords          \* word 0 is the extra word of the encoding
PastTheEnd(s) == s + 1        \* mutant of Advance: no wrap-around
Advance(s) == IF s = NumMsgs - 1 THEN 0 ELSE s + 1
OneShort(s)  == {s} \X (0..MsgWords - 1) \* mutant of SlotWords: not the extra word
SlotWords(s) == {s} \X Words

VARIABLES
  \* the PmQueueRep fields both sides use
  buffer,         \* visible content of each word
  overflow,       \* 0, or the writer's slot + 1
  \* stores issued and not yet visible to the other side
  unlanded,       \* words the writer has written
  unzeroed,       \* words the reader has cleared
  issued,         \* the message last written to each slot
  \* writer
  tail, wpc, wi, offered,
  \* reader
  head, rpc, ri, op, msg, peek, peek_flag, peek_overflow,
  \* history
  delivered       \* what Pm_Dequeue returned: messages and overflows

writerVars == <<tail, wpc, wi, offered>>
peekVars   == <<peek, peek_flag, peek_overflow>>
readerVars == <<head, rpc, ri, op, msg, peekVars, delivered>>
vars == <<buffer, overflow, unlanded, unzeroed, issued, writerVars, readerVars>>

WriterSees(s, w) == IF <<s, w>> \in unlanded THEN issued[s] ELSE buffer[s][w]
ReaderSees(s, w) == IF <<s, w>> \in unzeroed THEN 0 ELSE buffer[s][w]

NoMsg == [w \in Words |-> 0]
Whole(m) == \A w \in Words : m[w] = m[0]
Torn == -2
Gap  == -1
Content(m) == IF Whole(m) THEN m[0] ELSE Torn

-----------------------------------------------------------------------------
Pm_QueueCreate ==
  /\ buffer = [s \in Slots |-> [w \in Words |-> 0]]
  /\ overflow = 0 /\ head = 0 /\ tail = 0
  /\ unlanded = {} /\ unzeroed = {} /\ issued = [s \in Slots |-> 0]
  /\ wpc = "idle" /\ wi = 0 /\ offered = 0
  /\ rpc = "idle" /\ ri = 0 /\ op = "Dequeue"
  /\ msg = NoMsg /\ peek = NoMsg
  /\ peek_flag = FALSE /\ peek_overflow = FALSE
  /\ delivered = <<>>

-----------------------------------------------------------------------------
(* Writer: Pm_Enqueue and Pm_SetOverflow.                                  *)

Offer == /\ wpc = "idle"
         /\ offered < MaxOffered
         /\ offered' = offered + 1

NeverBlocked == FALSE         \* mutant of Blocked
Blocked == overflow # 0

\* Both calls return at once while an overflow is not acknowledged.
RefusedByOverflow ==
  /\ Offer
  /\ Blocked
  /\ UNCHANGED <<buffer, overflow, unlanded, unzeroed, issued, tail, wpc, wi, readerVars>>

EnqueueCall ==
  /\ Offer
  /\ ~Blocked
  /\ wpc' = "scan" /\ wi' = 0
  /\ UNCHANGED <<buffer, overflow, unlanded, unzeroed, issued, tail, readerVars>>

\* The OS reports that it lost input: Pm_SetOverflow.
SetOverflowCall ==
  /\ Offer
  /\ ~Blocked
  /\ wpc' = "mark"
  /\ UNCHANGED <<buffer, overflow, unlanded, unzeroed, issued, tail, wi, readerVars>>

NextIsTaken == WriterSees(Advance(tail), wi) # 0 \* mutant of TailIsTaken
TailIsTaken == WriterSees(tail, wi) # 0

\* Pm_QueueFull: one load per word of the slot at tail, full at the first non-zero.
QueueFullScan ==
  /\ wpc = "scan"
  /\ IF TailIsTaken
       THEN wpc' = "mark" /\ UNCHANGED wi
       ELSE IF wi < MsgWords
              THEN wi' = wi + 1 /\ UNCHANGED wpc
              ELSE wpc' = "store" /\ UNCHANGED wi
  /\ UNCHANGED <<buffer, overflow, unlanded, unzeroed, issued, tail, offered, readerVars>>

EnqueueStore ==
  /\ wpc = "store"
  /\ issued' = [issued EXCEPT ![tail] = offered]
  /\ unlanded' = unlanded \union SlotWords(tail)
  /\ tail' = Advance(tail)
  /\ wpc' = "idle"
  /\ UNCHANGED <<buffer, overflow, unzeroed, wi, offered, readerVars>>

\* The store to overflow does not overtake the stores of the message a whole buffer
\* earlier (the assumption that the comment at pmutil.c:120-124 makes).
OldestLanded == unlanded \intersect SlotWords(tail) = {}

MarkOfTail == tail                               \* mutant of TailMark
TailMark == tail + 1

MarkOverflow ==
  /\ wpc = "mark"
  /\ OldestLanded
  /\ overflow' = TailMark
  /\ wpc' = "idle"
  /\ UNCHANGED <<buffer, unlanded, unzeroed, issued, tail, wi, offered, readerVars>>

InEnqueue == QueueFullScan \/ EnqueueStore \/ MarkOverflow
Writer == RefusedByOverflow \/ EnqueueCall \/ SetOverflowCall \/ InEnqueue

-----------------------------------------------------------------------------
(* Reader: Pm_Dequeue, and Pm_QueuePeek which runs Pm_Dequeue into peek.   *)

Shared == <<buffer, overflow, unlanded, issued>>

DequeuePeekOverflow ==
  /\ rpc = "idle"
  /\ peek_overflow
  /\ peek_overflow' = FALSE
  /\ delivered' = Append(delivered, Gap)
  /\ UNCHANGED <<Shared, unzeroed, writerVars, head, rpc, ri, op, msg, peek, peek_flag>>

DequeuePeeked ==
  /\ rpc = "idle"
  /\ ~peek_overflow /\ peek_flag
  /\ delivered' = Append(delivered, Content(peek))
  /\ peek_flag' = FALSE
  /\ UNCHANGED <<Shared, unzeroed, writerVars, head, rpc, ri, op, msg, peek, peek_overflow>>

DequeueCall ==
  /\ rpc = "idle"
  /\ ~peek_overflow /\ ~peek_flag
  /\ rpc' = "overflow" /\ op' = "Dequeue"
  /\ UNCHANGED <<Shared, unzeroed, writerVars, head, ri, msg, peekVars, delivered>>

\* Pm_QueuePeek hides peek_overflow from its Pm_Dequeue and restores it afterwards.
PeekCall ==
  /\ rpc = "idle"
  /\ ~peek_flag
  /\ rpc' = "overflow" /\ op' = "Peek"
  /\ UNCHANGED <<Shared, unzeroed, writerVars, head, ri, msg, peekVars, delivered>>

NextAtOverflow == overflow = Advance(head) + 1   \* mutant of AtOverflow
AtOverflow == overflow = head + 1

HeadIsFree == ReaderSees(head, 0) = 0

FirstWordOnly == 0                               \* mutant of ScanFrom
ScanFrom == MsgWords

\* queue->overflow == head + 1 && ...
CheckOverflow ==
  /\ rpc = "overflow"
  /\ IF AtOverflow
       THEN rpc' = "empty" /\ UNCHANGED ri
       ELSE rpc' = "scan" /\ ri' = ScanFrom
  /\ UNCHANGED <<Shared, unzeroed, writerVars, head, op, msg, peekVars, delivered>>

\* ... && !queue->buffer[head]
CheckEmpty ==
  /\ rpc = "empty"
  /\ IF HeadIsFree
       THEN rpc' = "acknowledge" /\ UNCHANGED ri
       ELSE rpc' = "scan" /\ ri' = ScanFrom
  /\ UNCHANGED <<Shared, unzeroed, writerVars, head, op, msg, peekVars, delivered>>

Acknowledge ==
  /\ rpc = "acknowledge"
  /\ overflow' = 0
  /\ rpc' = "idle"
  /\ IF op = "Peek"
       THEN peek_overflow' = TRUE /\ UNCHANGED delivered
       ELSE delivered' = Append(delivered, Gap) /\ UNCHANGED peek_overflow
  /\ UNCHANGED <<buffer, unlanded, issued, unzeroed, writerVars, head, ri, op, msg,
                 peek, peek_flag>>

\* Is there data?  Tested from the last word to the first; pmNoData at the first zero.
ScanData ==
  /\ rpc = "scan"
  /\ IF ReaderSees(head, ri) = 0
       THEN rpc' = "idle" /\ UNCHANGED ri
       ELSE IF ri > 0
              THEN ri' = ri - 1 /\ UNCHANGED rpc
              ELSE rpc' = "copy" /\ UNCHANGED ri
  /\ UNCHANGED <<Shared, unzeroed, writerVars, head, op, msg, peekVars, delivered>>

\* memcpy and the decoding of the zeros, which reads word 0 as well.
CopyWord ==
  /\ rpc = "copy"
  /\ msg' = [msg EXCEPT ![ri] = ReaderSees(head, ri)]
  /\ IF ri < MsgWords
       THEN ri' = ri + 1 /\ UNCHANGED rpc
       ELSE rpc' = "clear" /\ UNCHANGED ri
  /\ UNCHANGED <<Shared, unzeroed, writerVars, head, op, peekVars, delivered>>

\* bzero of the slot, and the return of Pm_Dequeue or Pm_QueuePeek (the local copy is
\* dead afterwards).
ClearSlot ==
  /\ rpc = "clear"
  /\ unzeroed' = unzeroed \union SlotWords(head)
  /\ head' = Advance(head)
  /\ rpc' = "idle"
  /\ IF op = "Peek"
       THEN peek' = msg /\ peek_flag' = TRUE /\ UNCHANGED delivered
       ELSE delivered' = Append(delivered, Content(msg)) /\ UNCHANGED <<peek, peek_flag>>
  /\ msg' = NoMsg
  /\ UNCHANGED <<Shared, writerVars, ri, op, peek_overflow>>

InDequeue == \/ CheckOverflow \/ CheckEmpty \/ Acknowledge
             \/ ScanData \/ CopyWord \/ ClearSlot
Dequeue == DequeuePeekOverflow \/ DequeuePeeked \/ DequeueCall \/ InDequeue

-----------------------------------------------------------------------------
(* Stores become visible one word at a time, in any order.                 *)

WriteLands(s, w) ==
  /\ <<s, w>> \in unlanded
  /\ buffer' = [buffer EXCEPT ![s][w] = issued[s]]
  /\ unlanded' = unlanded \ {<<s, w>>}
  /\ UNCHANGED <<overflow, unzeroed, issued, writerVars, readerVars>>

ZeroLands(s, w) ==
  /\ <<s, w>> \in unzeroed
  /\ buffer' = [buffer EXCEPT ![s][w] = 0]
  /\ unzeroed' = unzeroed \ {<<s, w>>}
  /\ UNCHANGED <<overflow, unlanded, issued, writerVars, readerVars>>

Memory == \E s \in Slots, w \in Words : WriteLands(s, w) \/ ZeroLands(s, w)

Init == Pm_QueueCreate
Next == Writer \/ Dequeue \/ PeekCall \/ Memory

\* The application calls Pm_Dequeue again and again, whatever it peeks at in between; a
\* call that started ends; issued stores reach memory.  Nothing obliges the device to send.
Fairness == /\ SF_vars(DequeuePeekOverflow \/ DequeuePeeked \/ DequeueCall)
            /\ WF_vars(InDequeue)
            /\ WF_vars(InEnqueue)
            /\ WF_vars(Memory)

Spec == Init /\ [][Next]_vars
FairSpec == Spec /\ Fairness

-----------------------------------------------------------------------------
MemoryType ==
  /\ buffer \in [Slots -> [Words -> Nat]]
  /\ overflow \in 0..NumMsgs
  /\ unlanded \in SUBSET (Slots \X Words)
  /\ unzeroed \in SUBSET (Slots \X Words)
  /\ issued \in [Slots -> Nat]

WriterType ==
  /\ tail \in Slots /\ wi \in Words /\ offered \in Nat
  /\ wpc \in {"idle", "scan", "store", "mark"}

ReaderType ==
  /\ head \in Slots /\ ri \in Words
  /\ rpc \in {"idle", "overflow", "empty", "acknowledge", "scan", "copy", "clear"}
  /\ op \in {"Dequeue", "Peek"}
  /\ msg \in [Words -> Nat] /\ peek \in [Words -> Nat]
  /\ peek_flag \in BOOLEAN /\ peek_overflow \in BOOLEAN
  /\ delivered \in Seq(Int)

TypeOK == MemoryType /\ WriterType /\ ReaderType

\* A message that Pm_Dequeue or Pm_QueuePeek has copied out is one message the writer
\* enqueued, never a mixture of two or a part of one, although neither side locks.
NoTornMessage ==
  /\ rpc = "clear" => Whole(msg) /\ msg[0] # 0
  /\ peek_flag => Whole(peek) /\ peek[0] # 0

\* A slot in use: its message is written, seen or not, and not yet read.
Holds(s) == \E w \in Words : <<s, w>> \in unlanded \/ ReaderSees(s, w) # 0

\* Pm_Enqueue finds the queue full only if it is: once the reader's clearing has reached
\* memory, every one of the num_msgs slots holds an unread message.
FullOnlyIfFull ==
  [][wpc = "scan" /\ wpc' = "mark" /\ unzeroed = {} => \A s \in Slots : Holds(s)]_vars
=============================================================================
