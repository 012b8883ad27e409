------------------------------ MODULE MCPmInput ------------------------------
EXTENDS PmInput

\* Filter sets an application changes to: one channel, a message class and a real-time message;
\* and active sensing and sysex messages, as portmidi.h:674-676 recommends.
MCFilters == {{"CHANNEL", "NOTE", "CLOCK"}, {"ACTIVE", "SYSEX"}}
=============================================================================
