----------------------------- MODULE MCMidiThru -----------------------------
(* MidiThru on a platform that joins the thread and on one that does not. *)
EXTENDS MidiThru
MCPlatforms == {"linux", "haiku"}
=============================================================================
