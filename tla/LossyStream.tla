----------------------------- MODULE LossyStream -----------------------------
(***************************************************************************)
(* What the PmQueue header (src/pm_common/pmutil.h) promises to the one    *)
(* reader and the one writer, without buffers, words or positions: a FIFO  *)
(* that may lose messages but never loses one silently.  The writer offers *)
(* messages numbered 1, 2, 3, ...  Each is accepted or dropped, and a run  *)
(* of dropped messages leaves a Gap in the stream exactly where they would *)
(* have been (pmutil.h:83-88, 143-151).                                    *)
(***************************************************************************)
EXTENDS Integers, Sequences, SequencesExt

Gap == -1   \* what the reader sees as pmBufferOverflow

VARIABLES offered,    \* how many messages the writer has offered
          queue,      \* messages and gaps the reader has not been given yet
          delivered   \* messages and gaps the reader has been given

vars == <<offered, queue, delivered>>

Init == /\ offered = 0
        /\ queue = <<>>
        /\ delivered = <<>>

Accept == /\ offered' = offered + 1
          /\ queue' = Append(queue, offered + 1)
          /\ UNCHANGED delivered

\* A drop next to a gap that is still queued extends that gap.
Drop == /\ offered' = offered + 1
        /\ \/ queue' = Append(queue, Gap)
           \/ queue # <<>> /\ Last(queue) = Gap /\ UNCHANGED queue
        /\ UNCHANGED delivered

Deliver == /\ queue # <<>>
           /\ delivered' = Append(delivered, Head(queue))
           /\ queue' = Tail(queue)
           /\ UNCHANGED offered

\* Two gaps with nothing between them may reach the reader as one.
Fold == /\ Len(queue) >= 2
        /\ queue[1] = Gap /\ queue[2] = Gap
        /\ queue' = Tail(queue)
        /\ UNCHANGED <<offered, delivered>>

Next == Accept \/ Drop \/ Deliver \/ Fold

Spec == Init /\ [][Next]_vars

-----------------------------------------------------------------------------
(* The whole stream, between the start and the next message to be offered. *)
History == <<0>> \o delivered \o queue \o <<offered + 1>>

Message(i) == History[i] # Gap

\* Two neighbours in the stream with no gap between them were offered one right
\* after the other: nothing is lost, duplicated or reordered without a gap there.
NoSilentLoss ==
  \A i \in 1..Len(History) - 1 :
     Message(i) /\ Message(i + 1) => History[i + 1] = History[i] + 1

\* Where the reader finds a gap, at least one message is missing.
GapMeansLoss ==
  \A i, j \in 1..Len(History) :
     /\ i + 1 < j
     /\ Message(i) /\ Message(j)
     /\ \A k \in i + 1..j - 1 : ~Message(k)
     => History[j] > History[i] + 1
=============================================================================
