--------------------------- MODULE MCActionServer ---------------------------
(* Instances of ActionServer for TLC. *)
EXTENDS ActionServer, TLC

CONSTANTS g1, g2, a1, a2, a3, c1, c2, r1, r2, r3

\* a3 carries the UUID of a1 again; c1 asks for g1, c2 for all goals; r1 and r3 ask for g1.
MCGoalOf  == [r \in GoalReqs \cup ResultReqs |-> IF r \in {a2, r2} THEN g2 ELSE g1]
MCTargets == [c \in CancelReqs |-> IF c = c1 THEN {g1} ELSE Goals]
=============================================================================
