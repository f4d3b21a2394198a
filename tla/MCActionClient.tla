--------------------------- MODULE MCActionClient ---------------------------
(* An instance of ActionClient for TLC. *)
EXTENDS ActionClient, TLC

CONSTANTS g1, a1, a2, c1, f1

\* The application gives both goal requests one UUID, which the feedback names.
MCGoalOf     == [r \in GoalReqs |-> g1]
MCFeedbackOf == [f \in Feedbacks |-> g1]
=============================================================================
