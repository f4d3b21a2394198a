--------------------------- MODULE ActionProtocol ---------------------------
(***************************************************************************)
(* What the clients of one action server may rely on, with nothing of how  *)
(* the server does it: a goal moves along the ROS 2 goal life cycle, a     *)
(* result request gets at most one answer, and an answer is the outcome    *)
(* the goal really had (or "unknown" when the server holds no such goal).  *)
(* ActionServer implements this specification (see MCActionServer).        *)
(***************************************************************************)
EXTENDS Naturals, Sequences

CONSTANTS
  Goals,        \* the UUIDs a goal request may carry
  ResultReqs,   \* the result requests
  AskedGoal     \* the goal each of them names

VARIABLES
  alive,        \* the server answers; once it does not, it never does again
  status,       \* where each goal is in its life; "none": the server has no such goal
  outcome,      \* the terminal status each goal last reached; "none": it never did
  answers       \* the answers each result request has got

vars == <<alive, status, outcome, answers>>

Outcomes == {"succeeded", "canceled", "aborted"}
Active   == {"accepted", "executing", "canceling"}

Open(g) == {r \in ResultReqs : AskedGoal[r] = g /\ answers[r] = <<>>}

Answer(R, s) == answers' = [r \in ResultReqs |-> IF r \in R THEN Append(answers[r], s) ELSE answers[r]]

Init ==
  /\ alive = TRUE
  /\ status = [g \in Goals |-> "none"]
  /\ outcome = [g \in Goals |-> "none"]
  /\ answers = [r \in ResultReqs |-> <<>>]

Move(g, from, to) ==
  /\ alive
  /\ status[g] \in from
  /\ status' = [status EXCEPT ![g] = to]
  /\ UNCHANGED <<alive, outcome, answers>>

Accept(g)      == Move(g, {"none"}, "accepted")
Execute(g)     == Move(g, {"accepted"}, "executing")
BeginCancel(g) == Move(g, {"accepted", "executing"}, "canceling")

\* A goal that runs ends with some outcome. Those who were already waiting may be told of it in
\* the same step, and goals that ended long ago may be forgotten in it.
End(g, o) ==
  /\ alive
  /\ status[g] = "executing"
  /\ outcome' = [outcome EXCEPT ![g] = o]
  /\ \E forgotten \in SUBSET {h \in Goals : h = g \/ status[h] \in Outcomes} :
       status' = [h \in Goals |-> CASE h \in forgotten -> "none"
                                    [] h = g /\ h \notin forgotten -> o
                                    [] OTHER -> status[h]]
  /\ \E R \in SUBSET Open(g) : Answer(R, o)
  /\ UNCHANGED alive

AnswerLater(r) ==
  /\ alive
  /\ answers[r] = <<>>
  /\ \/ status[AskedGoal[r]] \in Outcomes /\ Answer({r}, status[AskedGoal[r]])
     \/ status[AskedGoal[r]] = "none" /\ Answer({r}, "unknown")
  /\ UNCHANGED <<alive, status, outcome>>

\* The server goes away. It may do so while it tells those who wait of an outcome.
Die ==
  /\ alive
  /\ alive' = FALSE
  /\ status' = [g \in Goals |-> "none"]
  /\ \/ UNCHANGED <<outcome, answers>>
     \/ \E g \in Goals, o \in Outcomes :
          /\ status[g] = "executing"
          /\ outcome' = [outcome EXCEPT ![g] = o]
          /\ \E R \in SUBSET Open(g) : Answer(R, o)

Next ==
  \/ \E g \in Goals : \/ Accept(g) \/ Execute(g) \/ BeginCancel(g)
                      \/ \E o \in Outcomes : End(g, o)
  \/ \E r \in ResultReqs : AnswerLater(r)
  \/ Die

Spec == Init /\ [][Next]_vars
=============================================================================
