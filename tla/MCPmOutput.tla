----------------------------- MODULE MCPmOutput -----------------------------
EXTENDS PmOutput

\* Events: a note, a real-time message, a whole sysex message, and the parts of a longer one.
N == <<Note, Datum, Datum, Unused>>
C == <<Clock, Unused, Unused, Unused>>
X == <<Sysex, Datum, Eox, Unused>>
S == <<Sysex, Datum, Datum, Datum>>
D == <<Datum, Datum, Datum, Datum>>
E == <<Datum, Eox, Unused, Unused>>

\* Whole messages, a sysex message cut by a note, and one with no end before the next.
MCBuffers == {N, C, X, S, D, E, N \o S, S \o D, D \o E, E \o N, S \o N, S \o X, D \o C}

\* A real-time message inside a sysex message.
MCRealTime == {S, C, E}
=============================================================================
