---------------------------- MODULE MCPtyBacklog ----------------------------
(* Values of the constants of PtyBacklog for its runs. *)
EXTENDS PtyBacklog

(* A character of two bytes between two others. *)
WellFormed == {<<"single", "lead", "trail", "single">>}
Garbled == {<<"bad", "single", "single">>}
=============================================================================
