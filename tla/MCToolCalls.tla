---------------------------- MODULE MCToolCalls ----------------------------
(* Values of the constants of ToolCalls for its runs. *)
EXTENDS ToolCalls

CONSTANTS c1, c2, c3

TwoAndShutdown == {c1, c2, c3}
Shutdown == {c3}
=============================================================================
