---------------------------- MODULE MCSimKernel ----------------------------
(* Instance of the kernel for TLC: three ids, so that the id counter runs   *)
(* out, two time values, two priorities and one stop reason.              *)
EXTENDS SimKernel

MCPriorities  == {0, 128}
MCStopReasons == {"requested"}

=============================================================================
