------------------------------ MODULE MCPtTime ------------------------------
(* PtTime with every platform and an application that starts and stops in any order. *)
EXTENDS PtTime
MCPlatforms == {"linux", "mach", "cf", "winmm", "haiku"}
=============================================================================
