---------------------------- MODULE MCTf2Registry ----------------------------
(* Instances of Tf2Registry for TLC. *)
EXTENDS Tf2Registry, TLC

CONSTANTS w1, w2, p1, p2, k1, k2, t1, t2, b1, b2

\* Two lookups, of two processes, in one buffer, for different transforms.
MCCallerOf == [w \in Waits |-> IF w = w1 THEN p1 ELSE p2]
MCKeyOf    == [w \in Waits |-> k1]
MCNeeds    == [w \in Waits |-> IF w = w1 THEN t1 ELSE t2]

\* Buffers are interchangeable.
BuffersSymmetry == Permutations(Resources)
=============================================================================
