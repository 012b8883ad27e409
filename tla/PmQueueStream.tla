---------------------------- MODULE PmQueueStream ----------------------------
(***************************************************************************)
(* PmQueue implements LossyStream: the refinement mapping, and the reader  *)
(* that gates its reads with Pm_Poll.                                      *)
(***************************************************************************)
EXTENDS PmQueue

\* Pm_QueueEmpty, as the reader calls it: neither overflow nor peek_overflow counts.
Pm_QueueEmpty == HeadIsFree /\ ~peek_flag

-----------------------------------------------------------------------------
\* The slots in use are those from head up to tail, and all when the slot at tail is one of them.
Wrapped(s) == IF s < NumMsgs THEN s ELSE s - NumMsgs
Used == IF Holds(tail) THEN NumMsgs ELSE IF tail >= head THEN tail - head
                                                         ELSE tail - head + NumMsgs
InSlots == [i \in 1..Used |-> issued[Wrapped(head + i - 1)]]

If(condition, item) == IF condition THEN <<item>> ELSE <<>>

\* What the reader is still to be given, in order.
Unread == If(peek_overflow, Gap) \o If(peek_flag, Content(peek))
            \o InSlots \o If(overflow # 0, Gap)

\* The message of a call in progress is neither accepted nor dropped yet.
Resolved == IF wpc = "idle" THEN offered ELSE offered - 1

Stream == INSTANCE LossyStream WITH offered <- Resolved, queue <- Unread

\* The queue, with its words, slots and marks, behaves as the lossy stream: messages
\* enter at the end, leave at the front, and a gap stands where messages were dropped.
ImplementsStream == Stream!Spec

\* Between two messages that the reader gets (or will get) one after the other something was
\* lost if and only if an overflow report stands between them (pmutil.h:83-88).
GapIffLoss == Stream!NoSilentLoss /\ Stream!GapMeansLoss

\* Every overflow is in the end acknowledged by the reader, which is what lets the
\* writer enqueue again (pmutil.h:59-62).
OverflowIsAcknowledged == overflow # 0 ~> overflow = 0

\* Every message accepted by Pm_Enqueue is in the end delivered by Pm_Dequeue.
AcceptedIsDelivered ==
  \A m \in 1..MaxOffered :
     m \in ToSet(Unread) ~> m \in ToSet(delivered)

-----------------------------------------------------------------------------
(* A reader that calls Pm_Dequeue only when Pm_QueueEmpty says FALSE, as    *)
(* an application does that calls Pm_Read only when Pm_Poll returns TRUE    *)
(* (src/pm_test/fastrcv.c:122, midithread.c:128).                          *)

PolledCall == /\ ~Pm_QueueEmpty
              /\ DequeuePeekOverflow \/ DequeuePeeked \/ DequeueCall

PolledNext == Writer \/ PolledCall \/ InDequeue \/ Memory

PolledSpec == /\ Init /\ [][PolledNext]_vars
              /\ SF_vars(PolledCall)
              /\ WF_vars(InDequeue) /\ WF_vars(InEnqueue) /\ WF_vars(Memory)
=============================================================================
