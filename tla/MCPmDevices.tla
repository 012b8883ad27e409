----------------------------- MODULE MCPmDevices -----------------------------
EXTENDS PmDevices

\* No MIDI hardware, one port with both directions, one output.
MCHardware == {<<>>, <<[name |-> "a", in |-> TRUE, out |-> TRUE]>>,
               <<[name |-> "a", in |-> FALSE, out |-> TRUE]>>}
=============================================================================
