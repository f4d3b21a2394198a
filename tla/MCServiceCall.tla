---------------------------- MODULE MCServiceCall ----------------------------
(* Instances of ServiceCall for TLC. *)
EXTENDS ServiceCall, TLC

CONSTANTS p1, p2, s1, s2, s3, a1

\* The first process calls twice, the second once.
MCCallerOf == [r \in Sync |-> IF r = s3 THEN p2 ELSE p1]
=============================================================================
