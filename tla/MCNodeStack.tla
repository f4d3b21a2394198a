---------------------------- MODULE MCNodeStack ----------------------------
(* A service and a timer of a node that may be restarted once *)
EXTENDS NodeStack
=============================================================================
