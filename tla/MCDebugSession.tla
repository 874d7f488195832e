----------------------------- MODULE MCDebugSession -----------------------------
(* Small instances of the debug adapter: one file under one spelling.        *)
EXTENDS DebugSession

MCFiles == {"main.deed"}
MCOneSpelling == {"main.deed"}
MCFileOfOne == [s \in MCOneSpelling |-> "main.deed"]
=============================================================================
