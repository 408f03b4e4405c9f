---------------------------- MODULE MCAIDecision ----------------------------
(* Model checking of AIDecision; its constants are numbers.                *)
EXTENDS AIDecision
=============================================================================
