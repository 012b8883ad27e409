----------------------------- MODULE MCPmWinOut -----------------------------
(* PmWinOut with more messages than buffers, one expansion buffer and failing calls. *)
EXTENDS PmWinOut

\* One before the start of the stream, and one that no longer fits.
MCTimes == {-1, 1, 3, Wrap}

\* Enough to fill all buffers: with latency 0 these are messages of one byte.
MCMaxCalls == [l \in {0, 1} |-> IF l = 0 THEN 10 ELSE 6]
=============================================================================
