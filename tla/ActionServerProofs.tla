------------------------- MODULE ActionServerProofs -------------------------
(***************************************************************************)
(* What ActionServer guarantees for any goals, requests and options, and   *)
(* that it implements ActionProtocol for them.                             *)
(***************************************************************************)
EXTENDS ActionServer, FiniteSetTheorems, TLAPS

(* The number of queued requests handle_continue reports is a number. *)
LEMMA QueuedIsFinite == \A k \in Kinds : Cardinality(Queued(k)) \in Nat
<1> TAKE k \in Kinds
<1>1. Queued(k) \subseteq Reqs
  BY DEF Queued, ReqsOf, Reqs
<1>2. IsFiniteSet(Queued(k))
  BY <1>1, RequestsAssumption, FS_Subset
<1> QED
  BY <1>2, FS_CardinalityType

(* TypeOK is inductive together with BatchOK's account of the takes left. *)
TypeInv ==
  /\ TypeOK
  /\ job.req # NoReq => job.left > 0
  /\ job.todo # {} => job.req # NoReq

LEMMA TypeInit == Init => TypeInv
<1> SUFFICES ASSUME Init PROVE TypeInv
  OBVIOUS
<1>1. Idle \in [kind : Kinds \cup {"idle"}, left : Nat, req : CancelReqs \cup {NoReq}, todo : SUBSET Goals]
  BY DEF Idle
<1>2. events \in [Kinds -> Seq(Nat)]
  BY DEF Init
<1>3. replies \in [Reqs -> Seq(Statuses \cup {"unknown", "rejected", "done"})]
  BY DEF Init
<1>4. handle \in [Goals -> Statuses]
  BY DEF Init, None, Statuses
<1>5. /\ result_response \in [Goals -> Outcomes \cup {"none"}]
      /\ outcome \in [Goals -> Outcomes \cup {"none"}]
      /\ waiting \in [Goals -> SUBSET ResultReqs]
      /\ task \in [Goals -> {"none", "running", "finished", "failed"}]
      /\ status_topic \in [Goals -> Statuses \cup {"absent", "unknown"}]
      /\ execute_calls \in [Goals -> Nat]
      /\ phase \in [Reqs -> {"unsent", "queued", "taken", "lost"}]
  BY DEF Init, None
<1> QED
  BY <1>1, <1>2, <1>3, <1>4, <1>5 DEF Init, TypeInv, TypeOK, Idle

LEMMA TakenType == ASSUME TypeInv, job.left > 0, job.req = NoReq, job' = [job EXCEPT !.left = @ - 1]
                   PROVE  /\ job' \in [kind : Kinds \cup {"idle"}, left : Nat,
                                        req : CancelReqs \cup {NoReq}, todo : SUBSET Goals]
                          /\ job'.req = NoReq /\ job'.todo = {}
<1>1. job \in [kind : Kinds \cup {"idle"}, left : Nat, req : CancelReqs \cup {NoReq}, todo : SUBSET Goals]
  BY DEF TypeInv, TypeOK
<1>2. job.left - 1 \in Nat
  BY <1>1
<1> QED
  BY <1>1, <1>2 DEF TypeInv

LEMMA DownType == ASSUME NEW how \in {"crashed", "stopped"}, TypeInv, Down(how),
                         status_topic' \in [Goals -> Statuses \cup {"absent", "unknown"}],
                         phase' \in [Reqs -> {"unsent", "queued", "taken", "lost"}],
                         replies' \in [Reqs -> Seq(Statuses \cup {"unknown", "rejected", "done"})],
                         outcome' \in [Goals -> Outcomes \cup {"none"}]
                  PROVE  TypeInv'
<1>1. Idle \in [kind : Kinds \cup {"idle"}, left : Nat, req : CancelReqs \cup {NoReq}, todo : SUBSET Goals]
  BY DEF Idle
<1>2. events' \in [Kinds -> Seq(Nat)]
  BY DEF Down
<1>3. handle' \in [Goals -> Statuses]
  BY DEF Down, None, Statuses
<1>4. /\ result_response' \in [Goals -> Outcomes \cup {"none"}]
      /\ waiting' \in [Goals -> SUBSET ResultReqs]
      /\ task' \in [Goals -> {"none", "running", "finished", "failed"}]
      /\ execute_calls' \in [Goals -> Nat]
  BY DEF Down, None
<1>5. job'.req = NoReq /\ job'.todo = {}
  BY DEF Down, Idle
<1> QED
  BY <1>1, <1>2, <1>3, <1>4, <1>5 DEF Down, TypeInv, TypeOK

LEMMA ReplyType == ASSUME TypeOK, NEW R, NEW s \in Statuses \cup {"unknown", "rejected", "done"},
                          Reply(R, s)
                   PROVE  replies' \in [Reqs -> Seq(Statuses \cup {"unknown", "rejected", "done"})]
BY DEF Reply, TypeOK

LEMMA PublishType == ASSUME TypeOK, NEW h \in [Goals -> Statuses], Publish(h)
                     PROVE  status_topic' \in [Goals -> Statuses \cup {"absent", "unknown"}]
BY DEF Publish, Shown, TypeOK

LEMMA PoisonType == ASSUME TypeInv, Poison, job.req # NoReq \/ job.todo # {}
                    PROVE  /\ server' = "poisoned"
                           /\ goals' = {}
                           /\ result_response' \in [Goals -> Outcomes \cup {"none"}]
                           /\ waiting' \in [Goals -> SUBSET ResultReqs]
                           /\ job' \in [kind : Kinds \cup {"idle"}, left : Nat,
                                        req : CancelReqs \cup {NoReq}, todo : SUBSET Goals]
                           /\ job'.req = NoReq /\ job'.todo = {}
<1>1. job.left > 0 /\ job \in [kind : Kinds \cup {"idle"}, left : Nat, req : CancelReqs \cup {NoReq}, todo : SUBSET Goals]
  BY DEF TypeInv, TypeOK
<1>2. job.left - 1 \in Nat
  BY <1>1
<1>3. job' = [job EXCEPT !.left = job.left - 1, !.req = NoReq, !.todo = {}]
  BY DEF Poison
<1>4. /\ job' \in [kind : Kinds \cup {"idle"}, left : Nat, req : CancelReqs \cup {NoReq}, todo : SUBSET Goals]
      /\ job'.req = NoReq /\ job'.todo = {}
  BY <1>1, <1>2, <1>3
<1> QED
  BY <1>4 DEF Poison, None

LEMMA ConcludeType == ASSUME TypeOK, NEW g \in Goals, NEW o \in Outcomes, NEW expired, NEW told,
                             Conclude(g, o, expired, told)
                      PROVE  /\ handle' \in [Goals -> Statuses]
                             /\ status_topic' \in [Goals -> Statuses \cup {"absent", "unknown"}]
                             /\ task' \in [Goals -> {"none", "running", "finished", "failed"}]
                             /\ outcome' \in [Goals -> Outcomes \cup {"none"}]
                             /\ replies' \in [Reqs -> Seq(Statuses \cup {"unknown", "rejected", "done"})]
<1>1. o \in Statuses
  BY DEF Statuses
<1>2. [handle EXCEPT ![g] = o] \in [Goals -> Statuses]
  BY <1>1 DEF TypeOK
<1>3. status_topic' \in [Goals -> Statuses \cup {"absent", "unknown"}]
  BY <1>2, PublishType DEF Conclude
<1>4. replies' \in [Reqs -> Seq(Statuses \cup {"unknown", "rejected", "done"})]
  BY <1>1, ReplyType DEF Conclude
<1> QED
  BY <1>1, <1>2, <1>3, <1>4 DEF Conclude, TypeOK, Statuses

LEMMA StoreType == ASSUME TypeOK, NEW g \in Goals, NEW o \in Outcomes, NEW expired,
                          Store(g, o, expired)
                   PROVE  /\ goals' \subseteq Goals
                          /\ result_response' \in [Goals -> Outcomes \cup {"none"}]
                          /\ waiting' \in [Goals -> SUBSET ResultReqs]
BY DEF Store, TypeOK

(* One step of the GenServer keeps the types. *)
LEMMA ServerType == ASSUME TypeInv, Server PROVE TypeInv'
<1> USE DEF gen_server, messages
<1>1. CASE HandleContinue
  BY <1>1, QueuedIsFinite DEF HandleContinue, TypeInv, TypeOK
<1>2. ASSUME NEW k \in Kinds, StartBatch(k) PROVE TypeInv'
  <2>1. Head(events[k]) \in Nat /\ Tail(events[k]) \in Seq(Nat)
    BY <1>2 DEF StartBatch, TypeInv, TypeOK
  <2>2. /\ job' \in [kind : Kinds \cup {"idle"}, left : Nat, req : CancelReqs \cup {NoReq}, todo : SUBSET Goals]
        /\ job'.req = NoReq /\ job'.todo = {}
    BY <1>2, <2>1 DEF StartBatch, Idle
  <2>3. events' \in [Kinds -> Seq(Nat)]
    BY <1>2, <2>1 DEF StartBatch, TypeInv, TypeOK
  <2> QED
    BY <1>2, <2>2, <2>3 DEF StartBatch, TypeInv, TypeOK
<1>3. ASSUME NEW k \in Kinds, TakeFails(k) PROVE TypeInv'
  BY <1>3, TakenType DEF TakeFails, Taking, TypeInv, TypeOK
<1>4. CASE EndBatch
  <2>1. CASE Crash
    BY <2>1, DownType DEF Crash, TypeInv, TypeOK
  <2>2. CASE ~Crash
    BY <1>4, <2>2 DEF EndBatch, Idle, TypeInv, TypeOK
  <2> QED
    BY <2>1, <2>2
<1>5. ASSUME NEW r \in GoalReqs, AcceptGoal(r) PROVE TypeInv'
  <2>1. GoalOf[r] \in Goals
    BY RequestsAssumption
  <2>2. handle' \in [Goals -> Statuses]
    BY <1>5, <2>1 DEF AcceptGoal, TypeInv, TypeOK, Statuses, Active
  <2>3. replies' \in [Reqs -> Seq(Statuses \cup {"unknown", "rejected", "done"})]
    BY <1>5, ReplyType DEF AcceptGoal, GoalReply, TypeInv, TypeOK, Statuses, Active
  <2> QED
    BY <1>5, <2>1, <2>2, <2>3, TakenType DEF AcceptGoal, Take, Taking, TypeInv, TypeOK
<1>6. ASSUME NEW r \in GoalReqs, RejectGoal(r) PROVE TypeInv'
  <2>1. replies' \in [Reqs -> Seq(Statuses \cup {"unknown", "rejected", "done"})]
    BY <1>6, ReplyType DEF RejectGoal, GoalReply, TypeInv, TypeOK
  <2> QED
    BY <1>6, <2>1, TakenType DEF RejectGoal, Take, Taking, TypeInv, TypeOK
<1>7. ASSUME NEW r \in GoalReqs, GoalCallbackRaises(r) PROVE TypeInv'
  BY <1>7, DownType DEF GoalCallbackRaises, Take, TypeInv, TypeOK
<1>8. ASSUME NEW r \in CancelReqs, TakeCancel(r) PROVE TypeInv'
  <2>1. r # NoReq /\ job.left > 0 /\ job \in [kind : Kinds \cup {"idle"}, left : Nat, req : CancelReqs \cup {NoReq}, todo : SUBSET Goals]
    BY <1>8, RequestsAssumption DEF TakeCancel, Take, Taking, TypeInv, TypeOK, Reqs
  <2>2. /\ job' \in [kind : Kinds \cup {"idle"}, left : Nat, req : CancelReqs \cup {NoReq}, todo : SUBSET Goals]
        /\ job'.left > 0 /\ job'.req # NoReq
    BY <1>8, <2>1, RequestsAssumption DEF TakeCancel
  <2> QED
    BY <1>8, <2>2 DEF TakeCancel, Take, TypeInv, TypeOK
<1>9. ASSUME NEW g \in Goals, LeaveGoal(g) PROVE TypeInv'
  BY <1>9 DEF LeaveGoal, TypeInv, TypeOK
<1>10. ASSUME NEW g \in Goals, CancelGoal(g) PROVE TypeInv'
  <2>1. PICK expired \in SUBSET Goals : Conclude(g, "canceled", expired, waiting[g]) /\ Store(g, "canceled", expired)
    BY <1>10 DEF CancelGoal
  <2>2. "canceled" \in Outcomes
    BY DEF Outcomes
  <2> QED
    BY <1>10, <2>1, <2>2, ConcludeType, StoreType DEF CancelGoal, TypeInv, TypeOK
<1>11. ASSUME NEW g \in Goals, CancelGoalRaises(g) PROVE TypeInv'
  <2>1. PICK expired, told : Conclude(g, "canceled", expired, told)
    BY <1>11 DEF CancelGoalRaises
  <2>2. "canceled" \in Outcomes
    BY DEF Outcomes
  <2> QED
    BY <1>11, <2>1, <2>2, ConcludeType, PoisonType DEF CancelGoalRaises, TypeInv, TypeOK
<1>12. ASSUME NEW g \in Goals, CancelQueuedGoal(g) PROVE TypeInv'
  <2>1. handle' \in [Goals -> Statuses]
    BY <1>12 DEF CancelQueuedGoal, TypeInv, TypeOK, Statuses, Active
  <2> QED
    BY <1>12, <2>1, PublishType, PoisonType DEF CancelQueuedGoal, TypeInv, TypeOK
<1>13. CASE CancelRaises
  BY <1>13, PoisonType DEF CancelRaises, TypeInv, TypeOK
<1>14. CASE EndCancel
  <2>1. replies' \in [Reqs -> Seq(Statuses \cup {"unknown", "rejected", "done"})]
    BY <1>14, ReplyType DEF EndCancel, TypeInv
  <2>2. job.left > 0 /\ job \in [kind : Kinds \cup {"idle"}, left : Nat, req : CancelReqs \cup {NoReq}, todo : SUBSET Goals]
    BY <1>14 DEF EndCancel, TypeInv, TypeOK
  <2>3. /\ job' \in [kind : Kinds \cup {"idle"}, left : Nat, req : CancelReqs \cup {NoReq}, todo : SUBSET Goals]
        /\ job'.req = NoReq /\ job'.todo = {}
    <3>1. job.left - 1 \in Nat
      BY <2>2
    <3> QED
      BY <1>14, <2>2, <3>1 DEF EndCancel
  <2> QED
    BY <1>14, <2>1, <2>3 DEF EndCancel, TypeInv, TypeOK
<1>15. CASE CancelResponseRaises
  BY <1>15, PoisonType DEF CancelResponseRaises, TypeInv, TypeOK
<1>16. ASSUME NEW r \in ResultReqs, AnswerResult(r) PROVE TypeInv'
  <2>1. result_response[GoalOf[r]] \in Statuses
    BY RequestsAssumption DEF TypeInv, TypeOK, Statuses
  <2>2. replies' \in [Reqs -> Seq(Statuses \cup {"unknown", "rejected", "done"})]
    BY <1>16, <2>1, ReplyType DEF AnswerResult, TypeInv
  <2> QED
    BY <1>16, <2>2, TakenType DEF AnswerResult, Take, Taking, TypeInv, TypeOK
<1>17. ASSUME NEW r \in ResultReqs, AwaitResult(r) PROVE TypeInv'
  BY <1>17, RequestsAssumption, TakenType DEF AwaitResult, Take, Taking, TypeInv, TypeOK
<1>18. ASSUME NEW r \in ResultReqs, ResultCrashes(r) PROVE TypeInv'
  BY <1>18, DownType DEF ResultCrashes, Take, TypeInv, TypeOK
<1>19. ASSUME NEW g \in Goals, Execute(g) PROVE TypeInv'
  <2>1. handle' \in [Goals -> Statuses]
    BY <1>19 DEF Execute, TypeInv, TypeOK, Statuses, Active
  <2>2. execute_calls' \in [Goals -> Nat]
    BY <1>19 DEF Execute, TypeInv, TypeOK
  <2>3. status_topic' \in [Goals -> Statuses \cup {"absent", "unknown"}]
    BY <1>19, <2>1, PublishType DEF Execute, TypeInv
  <2> QED
    BY <1>19, <2>1, <2>2, <2>3 DEF Execute, TypeInv, TypeOK
<1>20. ASSUME NEW g \in Goals, ExecuteUnknown(g) PROVE TypeInv'
  BY <1>20 DEF ExecuteUnknown, TypeInv, TypeOK
<1>21. ASSUME NEW g \in Goals, ExecuteCrashes(g) \/ TaskEndCrashes(g) PROVE TypeInv'
  BY <1>21, DownType DEF ExecuteCrashes, TaskEndCrashes, Crash, TypeInv, TypeOK
<1>22. ASSUME NEW g \in Goals, NEW how, NEW o \in Outcomes, HandleTaskEnd(g, how, o) PROVE TypeInv'
  BY <1>22, ConcludeType, StoreType DEF HandleTaskEnd, TypeInv, TypeOK
<1>23. ASSUME NEW g \in Goals, NEW how, NEW o \in Outcomes, TaskEndResponseRaises(g, how, o) PROVE TypeInv'
  <2>1. [handle EXCEPT ![g] = o] \in [Goals -> Statuses] /\ o \in Statuses
    BY DEF TypeInv, TypeOK, Statuses
  <2> QED
    BY <1>23, <2>1, PublishType, ReplyType, DownType DEF TaskEndResponseRaises, TypeInv, TypeOK
<1> QED
  BY <1>1, <1>2, <1>3, <1>4, <1>5, <1>6, <1>7, <1>8, <1>9, <1>10, <1>11, <1>12, <1>13, <1>14, <1>15, <1>16,
     <1>17, <1>18, <1>19, <1>20, <1>21, <1>22, <1>23
     DEF Server, GoalStep, CancelStep, ResultStep, GoalEvent, Outcomes

LEMMA TypeStep == TypeInv /\ [Next]_vars => TypeInv'
<1> SUFFICES ASSUME TypeInv, [Next]_vars PROVE TypeInv'
  OBVIOUS
<1> USE DEF gen_server, messages
<1>1. CASE Server
  BY <1>1, ServerType
<1>2. ASSUME NEW g \in Goals, Announce(g) \/ UserExecutes(g) PROVE TypeInv'
  BY <1>2 DEF Announce, UserExecutes, TypeInv, TypeOK
<1>3. ASSUME NEW g \in Goals, TaskStep(g) PROVE TypeInv'
  BY <1>3 DEF TaskStep, TaskEnds, TypeInv, TypeOK
<1>4. ASSUME NEW k \in Kinds, NEW r \in ReqsOf(k), Send(r, k) PROVE TypeInv'
  <2>1. events' \in [Kinds -> Seq(Nat)]
    <3>1. Append(events[k], 1) \in Seq(Nat)
      BY DEF TypeInv, TypeOK
    <3> QED
      BY <1>4, <3>1 DEF Send, TypeInv, TypeOK
  <2> QED
    BY <1>4, <2>1 DEF Send, TypeInv, TypeOK
<1>5. ASSUME NEW r \in Reqs, Overwrite(r) PROVE TypeInv'
  BY <1>5 DEF Overwrite, TypeInv, TypeOK
<1>6. CASE Stop
  BY <1>6, DownType DEF Stop, TypeInv, TypeOK
<1>7. CASE UNCHANGED vars
  BY <1>7 DEF vars, TypeInv, TypeOK
<1> QED
  BY <1>1, <1>2, <1>3, <1>4, <1>5, <1>6, <1>7 DEF Next

----------------------------------------------------------------------------
(* The inductive invariant. None of its parts is inductive alone: TasksHaveGoal needs that a goal  *)
(* which executes is in state.goals (GoalsMatchHandles), that in turn that a batch of goals is     *)
(* closed before anything else is handled (BatchOK), and what is kept of an ended goal             *)
(* (ResponsesMatchHandles) is what tells WaitersHaveFuture that nobody is added to it.             *)
Agreement ==
  /\ GoalsMatchHandles /\ WaitersHaveFuture /\ TasksHaveGoal /\ ResponsesMatchHandles
  /\ TopicIsCurrent /\ BatchOK

IInv == TypeInv /\ Agreement /\ WaitersUnanswered

LEMMA InitAgrees == Init => Agreement /\ WaitersUnanswered
BY DEF Init, None, Idle, Agreement, GoalsMatchHandles, WaitersHaveFuture, TasksHaveGoal, ResponsesMatchHandles,
       TopicIsCurrent, BatchOK, WaitersUnanswered, Outcomes, Reqs

(* A server that is no longer up has nothing to agree with. *)
LEMMA LostAgrees == ASSUME server' # "up",
                           job'.req # NoReq \/ job'.todo # {} =>
                             job'.kind = "cancel" /\ job'.left > 0 /\ job'.req # NoReq
                    PROVE  Agreement'
BY DEF Agreement, GoalsMatchHandles, WaitersHaveFuture, TasksHaveGoal, ResponsesMatchHandles, TopicIsCurrent, BatchOK

LEMMA DownAgrees == ASSUME NEW how \in {"crashed", "stopped"}, Down(how) PROVE Agreement'
<1>1. job'.req = NoReq /\ job'.todo = {} /\ server' # "up"
  BY DEF Down, Idle
<1> QED
  BY <1>1, LostAgrees

LEMMA PoisonAgrees == ASSUME TypeInv, Poison, job.req # NoReq \/ job.todo # {} PROVE Agreement'
<1>1. server' # "up"
  BY DEF Poison
<1> QED
  BY <1>1, PoisonType, LostAgrees

(* A step that leaves the GenServer's records of its goals alone. *)
LEMMA FrameAgrees ==
  ASSUME Agreement, UNCHANGED <<server, fresh, goals, result_response, waiting, handle, status_topic>>,
         \A g \in Goals : task'[g] # "none" => task[g] # "none",
         job'.req # NoReq \/ job'.todo # {} => job'.kind = "cancel" /\ job'.left > 0 /\ job'.req # NoReq,
         server = "up" /\ fresh # {} => job'.kind = "goal",
         \A g \in job'.todo : server = "up" => handle[g] \in {"accepted", "executing"}
  PROVE  Agreement'
BY DEF Agreement, GoalsMatchHandles, WaitersHaveFuture, TasksHaveGoal, ResponsesMatchHandles, TopicIsCurrent, BatchOK

(* A goal that executes ends. *)
LEMMA ConcludeAgrees ==
  ASSUME TypeInv, Agreement, server = "up", NEW g \in goals, handle[g] = "executing", NEW o \in Outcomes,
         NEW expired, NEW told, Conclude(g, o, expired, told), Store(g, o, expired),
         UNCHANGED <<server, fresh>>, job'.kind = job.kind, job'.todo \subseteq job.todo \ {g},
         job'.req # NoReq \/ job'.todo # {} => job'.kind = "cancel" /\ job'.left > 0 /\ job'.req # NoReq
  PROVE  Agreement'
<1> DEFINE ended == [handle EXCEPT ![g] = o]
<1> USE DEF TypeInv, TypeOK
<1>1. g \in Goals /\ g \notin fresh
  BY DEF Agreement, BatchOK
<1>2. /\ expired \subseteq {h \in Goals : ended[h] \in Outcomes}
      /\ handle' = [h \in Goals |-> IF h \in expired THEN "none" ELSE ended[h]]
      /\ \A h \in Goals : ended[h] = IF h = g THEN o ELSE handle[h]
      /\ \A h \in Goals : h \in expired => h = g \/ handle[h] \in Outcomes
  BY <1>1 DEF Conclude
<1>3. /\ goals' = goals \ expired
      /\ result_response' = [h \in Goals |-> IF h \in expired THEN "none"
                                             ELSE IF h = g THEN o ELSE result_response[h]]
      /\ waiting' = [h \in Goals |-> IF h \in expired \cup {g} THEN {} ELSE waiting[h]]
  BY DEF Store
<1>4. task' = [task EXCEPT ![g] = "none"]
  BY DEF Conclude
<1>5. \A h \in fresh : h \notin expired /\ h \in Goals /\ handle[h] = "accepted" /\ h \notin goals
  BY <1>1, <1>2 DEF Agreement, BatchOK, Outcomes
<1>6. "none" \notin Outcomes /\ "executing" \notin Outcomes /\ "accepted" \notin Outcomes
  BY DEF Outcomes
<1>7. GoalsMatchHandles'
  BY <1>1, <1>2, <1>3, <1>5, <1>6 DEF Agreement, GoalsMatchHandles
<1>8. WaitersHaveFuture'
  BY <1>1, <1>2, <1>3, <1>6 DEF Agreement, WaitersHaveFuture
<1>9. TasksHaveGoal'
  BY <1>1, <1>2, <1>3, <1>4, <1>6 DEF Agreement, TasksHaveGoal
<1>10. ResponsesMatchHandles'
  BY <1>1, <1>2, <1>3, <1>6 DEF Agreement, ResponsesMatchHandles
<1>11. TopicIsCurrent'
  <2> SUFFICES ASSUME NEW h \in goals', handle'[h] # "accepted" PROVE status_topic'[h] = handle'[h]
    BY DEF TopicIsCurrent
  <2>1. h \in goals /\ h \in Goals /\ handle'[h] = ended[h]
    BY <1>2, <1>3
  <2>2. status_topic'[h] = Shown(ended[h])
    BY <2>1 DEF Conclude, Publish
  <2> QED
    BY <2>1, <2>2 DEF Shown
<1>12. BatchOK'
  <2>1. \A h \in job'.todo : h \in Goals /\ h # g /\ handle[h] \in {"accepted", "executing"}
    BY DEF Agreement, BatchOK
  <2>2. \A h \in job'.todo : handle'[h] \in {"accepted", "executing"}
    <3> SUFFICES ASSUME NEW h \in job'.todo PROVE handle'[h] \in {"accepted", "executing"}
      OBVIOUS
    <3>1. h \in Goals /\ h # g /\ handle[h] \in {"accepted", "executing"}
      BY <2>1
    <3>2. handle[h] \notin Outcomes
      BY <1>6, <3>1
    <3>3. h \notin expired /\ ended[h] = handle[h]
      BY <1>2, <3>1, <3>2
    <3> HIDE DEF ended
    <3> QED
      BY <1>2, <3>1, <3>3
  <2>3. \A h \in Goals : handle'[h] # "canceling"
    <3>1. \A h \in Goals : handle[h] # "canceling"
      BY DEF Agreement, BatchOK
    <3>2. o # "canceling"
      BY DEF Outcomes
    <3> QED
      BY <1>2, <3>1, <3>2
  <2>4. /\ fresh' \cap goals' = {}
        /\ fresh' # {} => job'.kind = "goal"
        /\ \A h \in fresh' : handle'[h] = "accepted"
    BY <1>1, <1>2, <1>3, <1>5 DEF Agreement, BatchOK
  <2> QED
    BY <2>2, <2>3, <2>4 DEF BatchOK
<1> QED
  BY <1>7, <1>8, <1>9, <1>10, <1>11, <1>12 DEF Agreement

LEMMA ServerAgrees == ASSUME TypeInv, Agreement, Server PROVE Agreement'
<1> USE DEF gen_server, messages
<1> DEFINE JobOK == job.req # NoReq \/ job.todo # {} => job.kind = "cancel" /\ job.left > 0 /\ job.req # NoReq
<1>0. JobOK
  BY DEF Agreement, BatchOK
<1>1. CASE HandleContinue
  BY <1>1, <1>0, FrameAgrees DEF HandleContinue, Agreement, BatchOK
<1>2. ASSUME NEW k \in Kinds, StartBatch(k) PROVE Agreement'
  <2>1. job'.req = NoReq /\ job'.todo = {}
    BY <1>2 DEF StartBatch, Idle
  <2>2. server = "up" => fresh = {}
    BY <1>2 DEF StartBatch, Waiting, Idle, Agreement, BatchOK
  <2> QED
    BY <1>2, <2>1, <2>2, FrameAgrees DEF StartBatch
<1>3. ASSUME NEW k \in Kinds, TakeFails(k) PROVE Agreement'
  <2>1. job'.req = NoReq /\ job'.todo = {} /\ job'.kind = job.kind
    BY <1>3, TakenType DEF TakeFails, Taking, TypeInv, TypeOK
  <2> QED
    BY <1>3, <2>1, FrameAgrees DEF TakeFails, Agreement, BatchOK
<1>4. CASE EndBatch
  <2>1. CASE Crash
    BY <2>1, DownAgrees DEF Crash
  <2>2. CASE ~Crash
    <3>1. job'.req = NoReq /\ job'.todo = {}
      BY <1>4, <2>2 DEF EndBatch, Idle
    <3> QED
      BY <1>4, <2>2, <3>1
         DEF EndBatch, Agreement, GoalsMatchHandles, WaitersHaveFuture, TasksHaveGoal, ResponsesMatchHandles,
             TopicIsCurrent, BatchOK
  <2> QED
    BY <2>1, <2>2
<1>5. ASSUME NEW r \in GoalReqs, AcceptGoal(r) PROVE Agreement'
  <2> DEFINE g == GoalOf[r]
  <2>1. g \in Goals
    BY RequestsAssumption
  <2>2. job'.req = NoReq /\ job'.todo = {} /\ job'.kind = job.kind /\ job.kind = "goal"
    BY <1>5, TakenType DEF AcceptGoal, Take, Taking, TypeInv, TypeOK
  <2>3. /\ handle[g] = "none" /\ handle' = [handle EXCEPT ![g] = "accepted"] /\ handle \in [Goals -> Statuses]
        /\ fresh' = fresh \cup {g}
        /\ UNCHANGED <<server, goals, result_response, waiting, task, status_topic>>
    BY <1>5 DEF AcceptGoal, TypeInv, TypeOK
  <2>4. server = "up" => g \notin goals /\ g \notin fresh
    BY <2>1, <2>3 DEF Agreement, GoalsMatchHandles
  <2> QED
    BY <2>1, <2>2, <2>3, <2>4
       DEF Agreement, GoalsMatchHandles, WaitersHaveFuture, TasksHaveGoal, ResponsesMatchHandles,
           TopicIsCurrent, BatchOK, Outcomes
<1>6. ASSUME NEW r \in GoalReqs, RejectGoal(r) PROVE Agreement'
  <2>1. job'.req = NoReq /\ job'.todo = {} /\ job'.kind = job.kind
    BY <1>6, TakenType DEF RejectGoal, Take, Taking, TypeInv, TypeOK
  <2> QED
    BY <1>6, <2>1, FrameAgrees DEF RejectGoal, Agreement, BatchOK
<1>7. ASSUME NEW r \in GoalReqs, GoalCallbackRaises(r) PROVE Agreement'
  BY <1>7, DownAgrees DEF GoalCallbackRaises
<1>8. ASSUME NEW r \in CancelReqs, TakeCancel(r) PROVE Agreement'
  <2>1. r # NoReq
    BY RequestsAssumption DEF Reqs
  <2>2. /\ job'.kind = job.kind /\ job.kind = "cancel" /\ job'.left = job.left /\ job.left > 0 /\ job'.req = r
        /\ \A g \in job'.todo : handle[g] \in {"accepted", "executing"}
    BY <1>8 DEF TakeCancel, Take, Taking, TypeInv, TypeOK
  <2> QED
    BY <1>8, <2>1, <2>2, FrameAgrees DEF TakeCancel, Agreement, BatchOK
<1>9. ASSUME NEW g \in Goals, LeaveGoal(g) PROVE Agreement'
  <2>1. /\ job'.kind = job.kind /\ job'.left = job.left /\ job'.req = job.req /\ job.todo # {}
        /\ job'.todo \subseteq job.todo
    BY <1>9 DEF LeaveGoal, TypeInv, TypeOK
  <2> QED
    BY <1>0, <1>9, <2>1, FrameAgrees DEF LeaveGoal, Agreement, BatchOK
<1>10. ASSUME NEW g \in Goals, CancelGoal(g) PROVE Agreement'
  <2>1. /\ job'.kind = job.kind /\ job'.left = job.left /\ job'.req = job.req /\ job.todo # {}
        /\ job'.todo = job.todo \ {g}
    BY <1>10 DEF CancelGoal, TypeInv, TypeOK
  <2>2. g \in goals /\ server = "up" /\ handle[g] = "executing"
    BY <1>10 DEF CancelGoal, Agreement, TasksHaveGoal
  <2>3. PICK expired \in SUBSET Goals : Conclude(g, "canceled", expired, waiting[g]) /\ Store(g, "canceled", expired)
    BY <1>10 DEF CancelGoal
  <2>4. "canceled" \in Outcomes
    BY DEF Outcomes
  <2>5. UNCHANGED <<server, fresh>>
    BY <1>10 DEF CancelGoal
  <2> QED
    BY <1>0, <2>1, <2>2, <2>3, <2>4, <2>5, ConcludeAgrees
<1>11. ASSUME NEW g \in Goals, CancelGoalRaises(g) \/ CancelQueuedGoal(g) PROVE Agreement'
  BY <1>11, PoisonAgrees DEF CancelGoalRaises, CancelQueuedGoal
<1>12. CASE CancelRaises \/ CancelResponseRaises
  BY <1>12, PoisonAgrees DEF CancelRaises, CancelResponseRaises
<1>13. CASE EndCancel
  <2>1. job'.kind = job.kind /\ job'.req = NoReq /\ job'.todo = {}
    BY <1>13 DEF EndCancel, TypeInv, TypeOK
  <2> QED
    BY <1>13, <2>1, FrameAgrees DEF EndCancel, Agreement, BatchOK
<1>14. ASSUME NEW r \in ResultReqs, AnswerResult(r) PROVE Agreement'
  <2>1. job'.req = NoReq /\ job'.todo = {} /\ job'.kind = job.kind
    BY <1>14, TakenType DEF AnswerResult, Take, Taking, TypeInv, TypeOK
  <2> QED
    BY <1>14, <2>1, FrameAgrees DEF AnswerResult, Agreement, BatchOK
<1>15. ASSUME NEW r \in ResultReqs, AwaitResult(r) PROVE Agreement'
  <2> DEFINE g == GoalOf[r]
  <2>1. g \in Goals /\ "result" # "goal"
    BY RequestsAssumption
  <2>2. job'.req = NoReq /\ job'.todo = {} /\ job'.kind = job.kind /\ job.kind = "result" /\ server = "up"
    BY <1>15, TakenType DEF AwaitResult, Take, Taking, TypeInv, TypeOK
  <2>3. /\ g \in goals /\ result_response[g] = "none" /\ g \notin fresh
        /\ waiting' = [waiting EXCEPT ![g] = @ \cup {r}] /\ waiting \in [Goals -> SUBSET ResultReqs]
        /\ UNCHANGED <<server, fresh, goals, result_response, task, handle, status_topic>>
    BY <1>15 DEF AwaitResult, TypeInv, TypeOK, Agreement, BatchOK
  <2>4. handle[g] \notin Outcomes /\ handle[g] # "none" /\ handle[g] \in Statuses
    BY <2>1, <2>2, <2>3 DEF Agreement, ResponsesMatchHandles, GoalsMatchHandles, TypeInv, TypeOK, Outcomes
  <2>5. handle[g] # "canceling"
    BY <2>1, <2>2 DEF Agreement, BatchOK
  <2> QED
    BY <2>1, <2>2, <2>3, <2>4, <2>5
       DEF Agreement, GoalsMatchHandles, WaitersHaveFuture, TasksHaveGoal, ResponsesMatchHandles,
           TopicIsCurrent, BatchOK, Outcomes, Statuses, Active
<1>16. ASSUME NEW r \in ResultReqs, ResultCrashes(r) PROVE Agreement'
  BY <1>16, DownAgrees DEF ResultCrashes
<1>17. ASSUME NEW g \in Goals, Execute(g) PROVE Agreement'
  <2>1. /\ server = "up" /\ g \in goals /\ handle[g] = "accepted" /\ job = Idle
        /\ handle' = [handle EXCEPT ![g] = "executing"] /\ handle \in [Goals -> Statuses]
        /\ task' = [task EXCEPT ![g] = "running"] /\ goals \subseteq Goals
        /\ UNCHANGED <<server, job, fresh, goals, result_response, waiting>>
    BY <1>17 DEF Execute, Waiting, TypeInv, TypeOK
  <2>2. fresh = {}
    BY <2>1 DEF Idle, Agreement, BatchOK
  <2>3. \A h \in goals : status_topic'[h] = Shown(handle'[h])
    BY <1>17, <2>1 DEF Execute, Publish
  <2>4. task \in [Goals -> {"none", "running", "finished", "failed"}]
    BY DEF TypeInv, TypeOK
  <2> QED
    BY <1>0, <2>1, <2>2, <2>3, <2>4
       DEF Agreement, GoalsMatchHandles, WaitersHaveFuture, TasksHaveGoal, ResponsesMatchHandles,
           TopicIsCurrent, BatchOK, Outcomes, Shown
<1>18. ASSUME NEW g \in Goals, ExecuteUnknown(g) PROVE Agreement'
  BY <1>18, <1>0, FrameAgrees DEF ExecuteUnknown, Agreement, BatchOK
<1>19. ASSUME NEW g \in Goals, ExecuteCrashes(g) \/ TaskEndCrashes(g) PROVE Agreement'
  BY <1>19, DownAgrees DEF ExecuteCrashes, TaskEndCrashes, Crash
<1>20. ASSUME NEW g \in Goals, NEW how, NEW o \in Outcomes, HandleTaskEnd(g, how, o) PROVE Agreement'
  <2>1. PICK expired \in SUBSET Goals : Conclude(g, o, expired, waiting[g]) /\ Store(g, o, expired)
    BY <1>20 DEF HandleTaskEnd
  <2>2. g \in goals /\ server = "up" /\ handle[g] = "executing" /\ UNCHANGED <<server, job, fresh>> /\ job.todo = {}
    BY <1>20 DEF HandleTaskEnd, Waiting, Idle
  <2> QED
    BY <1>0, <2>1, <2>2, ConcludeAgrees
<1>21. ASSUME NEW g \in Goals, NEW how, NEW o \in Outcomes, TaskEndResponseRaises(g, how, o) PROVE Agreement'
  BY <1>21, DownAgrees DEF TaskEndResponseRaises
<1> QED
  BY <1>1, <1>2, <1>3, <1>4, <1>5, <1>6, <1>7, <1>8, <1>9, <1>10, <1>11, <1>12, <1>13, <1>14, <1>15, <1>16,
     <1>17, <1>18, <1>19, <1>20, <1>21
     DEF Server, GoalStep, CancelStep, ResultStep, GoalEvent, Outcomes

LEMMA AgreementStep == TypeInv /\ Agreement /\ [Next]_vars => Agreement'
<1> SUFFICES ASSUME TypeInv, Agreement, [Next]_vars PROVE Agreement'
  OBVIOUS
<1> USE DEF gen_server, messages
<1>1. CASE Server
  BY <1>1, ServerAgrees
<1>2. ASSUME NEW g \in Goals, Announce(g) \/ UserExecutes(g) PROVE Agreement'
  BY <1>2, FrameAgrees DEF Announce, UserExecutes, Agreement, BatchOK
<1>3. ASSUME NEW g \in Goals, TaskStep(g) PROVE Agreement'
  BY <1>3, FrameAgrees DEF TaskStep, TaskEnds, Agreement, BatchOK, TypeInv, TypeOK
<1>4. ASSUME NEW k \in Kinds, NEW r \in ReqsOf(k), Send(r, k) PROVE Agreement'
  BY <1>4, FrameAgrees DEF Send, Agreement, BatchOK
<1>5. ASSUME NEW r \in Reqs, Overwrite(r) PROVE Agreement'
  BY <1>5, FrameAgrees DEF Overwrite, Agreement, BatchOK
<1>6. CASE Stop
  BY <1>6, DownAgrees DEF Stop
<1>7. CASE UNCHANGED vars
  BY <1>7, FrameAgrees DEF vars, Agreement, BatchOK
<1> QED
  BY <1>1, <1>2, <1>3, <1>4, <1>5, <1>6, <1>7 DEF Next

----------------------------------------------------------------------------
(* Who waits has not been answered. *)

LEMMA WaitersStep == TypeInv /\ WaitersUnanswered /\ [Next]_vars => WaitersUnanswered'
<1> SUFFICES ASSUME TypeInv, WaitersUnanswered, [Next]_vars PROVE WaitersUnanswered'
  OBVIOUS
<1> USE DEF gen_server, messages
<1>a. \A r \in ResultReqs : r \in Reqs /\ r \notin GoalReqs /\ r \notin CancelReqs
  BY RequestsAssumption DEF Reqs
<1>b. phase \in [Reqs -> {"unsent", "queued", "taken", "lost"}] /\ waiting \in [Goals -> SUBSET ResultReqs]
  BY DEF TypeInv, TypeOK
<1>1. ASSUME UNCHANGED replies, \A g \in Goals : waiting'[g] \subseteq waiting[g],
             \A r \in Reqs : phase'[r] = phase[r] \/ (phase[r] \in {"unsent", "queued"} /\ phase'[r] # "unsent")
      PROVE  WaitersUnanswered'
  <2>1. \A r \in ResultReqs : phase'[r] \in {"unsent", "queued"} => phase[r] \in {"unsent", "queued"}
    BY <1>1, <1>a, <1>b
  <2>2. \A r \in ResultReqs : phase[r] = "taken" => phase'[r] = "taken"
    BY <1>1, <1>a
  <2> QED
    BY <1>1, <1>b, <2>1, <2>2 DEF WaitersUnanswered
<1>2. ASSUME NEW how, Down(how), UNCHANGED replies,
             \A r \in Reqs : phase'[r] = phase[r] \/ (phase[r] \in {"unsent", "queued"} /\ phase'[r] # "unsent")
      PROVE  WaitersUnanswered'
  <2>1. \A g \in Goals : waiting'[g] = {}
    BY <1>2 DEF Down, None
  <2> QED
    BY <1>1, <1>2, <2>1
<1>3. ASSUME Poison, UNCHANGED <<phase, replies>> PROVE WaitersUnanswered'
  <2>1. \A g \in Goals : waiting'[g] = {}
    BY <1>3 DEF Poison, None
  <2> QED
    BY <1>1, <1>3, <2>1
<1>4. ASSUME NEW R, NEW s, Reply(R, s), R \cap ResultReqs = {}, UNCHANGED waiting,
             \A r \in Reqs : phase'[r] = phase[r] \/ (phase[r] = "queued" /\ phase'[r] = "taken")
      PROVE  WaitersUnanswered'
  <2>1. \A r \in ResultReqs : replies'[r] = replies[r]
    BY <1>4, <1>a DEF Reply
  <2> QED
    BY <1>4, <1>a, <1>b, <2>1 DEF WaitersUnanswered
<1>5. ASSUME NEW g \in Goals, NEW R \in SUBSET waiting[g], NEW s, Reply(R, s), UNCHANGED phase,
             waiting'[g] = {}, \A h \in Goals : waiting'[h] \subseteq waiting[h]
      PROVE  WaitersUnanswered'
  <2>1. \A r \in ResultReqs : r \notin R => replies'[r] = replies[r]
    BY <1>5, <1>a DEF Reply
  <2>2. \A r \in R : phase[r] = "taken" /\ GoalOf[r] = g
    BY <1>5 DEF WaitersUnanswered
  <2> QED
    BY <1>5, <1>b, <2>1, <2>2 DEF WaitersUnanswered
<1>6. ASSUME NEW r \in Reqs, NEW k, Take(r, k)
      PROVE  /\ phase[r] = "queued" /\ phase' = [phase EXCEPT ![r] = "taken"]
             /\ \A q \in Reqs : phase'[q] = phase[q] \/ (phase[q] = "queued" /\ phase'[q] = "taken")
  BY <1>6, <1>b DEF Take, Queued
<1>7. CASE Server
  <2>1. CASE HandleContinue \/ \E k \in Kinds : StartBatch(k) \/ TakeFails(k)
    BY <1>1, <2>1 DEF HandleContinue, StartBatch, TakeFails
  <2>2. CASE EndBatch
    BY <1>1, <1>2, <2>2 DEF EndBatch, Crash
  <2>3. ASSUME NEW r \in GoalReqs, AcceptGoal(r) \/ RejectGoal(r) PROVE WaitersUnanswered'
    <3>1. r \in Reqs /\ {r} \cap ResultReqs = {}
      BY RequestsAssumption DEF Reqs
    <3>2. UNCHANGED waiting
      BY <2>3 DEF AcceptGoal, RejectGoal
    <3>3. \A q \in Reqs : phase'[q] = phase[q] \/ (phase[q] = "queued" /\ phase'[q] = "taken")
      BY <1>6, <2>3, <3>1 DEF AcceptGoal, RejectGoal
    <3>4. UNCHANGED replies \/ (\E s : Reply({r}, s))
      BY <2>3 DEF AcceptGoal, RejectGoal, GoalReply
    <3> QED
      BY <1>1, <1>4, <3>1, <3>2, <3>3, <3>4
  <2>4. ASSUME NEW r \in GoalReqs, GoalCallbackRaises(r) PROVE WaitersUnanswered'
    BY <1>2, <1>6, <2>4 DEF GoalCallbackRaises, Reqs
  <2>5. ASSUME NEW r \in CancelReqs, TakeCancel(r) PROVE WaitersUnanswered'
    BY <1>1, <1>6, <2>5 DEF TakeCancel, Reqs
  <2>6. ASSUME NEW g \in Goals, LeaveGoal(g) PROVE WaitersUnanswered'
    BY <1>1, <2>6 DEF LeaveGoal
  <2>7. ASSUME NEW g \in Goals, CancelGoal(g) PROVE WaitersUnanswered'
    BY <1>5, <2>7 DEF CancelGoal, Conclude, Store
  <2>8. ASSUME NEW g \in Goals, CancelGoalRaises(g) PROVE WaitersUnanswered'
    <3>1. PICK told \in SUBSET waiting[g] : Reply(told, "canceled")
      BY <2>8 DEF CancelGoalRaises, Conclude
    <3>2. \A h \in Goals : waiting'[h] = {}
      BY <2>8 DEF CancelGoalRaises, Poison, None
    <3> QED
      BY <1>5, <2>8, <3>1, <3>2 DEF CancelGoalRaises
  <2>9. ASSUME NEW g \in Goals, CancelQueuedGoal(g) PROVE WaitersUnanswered'
    BY <1>3, <2>9 DEF CancelQueuedGoal
  <2>10. CASE CancelRaises \/ CancelResponseRaises
    BY <1>3, <2>10 DEF CancelRaises, CancelResponseRaises
  <2>11. CASE EndCancel
    <3>1. {job.req} \cap ResultReqs = {}
      BY <2>11, RequestsAssumption DEF EndCancel, TypeInv, TypeOK, Reqs
    <3> QED
      BY <1>4, <2>11, <3>1 DEF EndCancel
  <2>12. ASSUME NEW r \in ResultReqs, AnswerResult(r) PROVE WaitersUnanswered'
    <3>1. PICK s : Reply({r}, s)
      BY <2>12 DEF AnswerResult
    <3>2. \A q \in ResultReqs : q # r => replies'[q] = replies[q]
      BY <3>1, <1>a DEF Reply
    <3>3. phase[r] = "queued" /\ phase' = [phase EXCEPT ![r] = "taken"] /\ UNCHANGED waiting
      BY <1>6, <1>a, <2>12 DEF AnswerResult
    <3>4. \A g \in Goals : r \notin waiting[g]
      BY <3>3 DEF WaitersUnanswered
    <3> QED
      BY <1>a, <1>b, <3>2, <3>3, <3>4 DEF WaitersUnanswered
  <2>13. ASSUME NEW r \in ResultReqs, AwaitResult(r) PROVE WaitersUnanswered'
    <3>1. phase[r] = "queued" /\ phase' = [phase EXCEPT ![r] = "taken"] /\ UNCHANGED replies
      BY <1>6, <1>a, <2>13 DEF AwaitResult
    <3>2. \A g \in Goals : waiting'[g] = IF g = GoalOf[r] THEN waiting[g] \cup {r} ELSE waiting[g]
      BY <1>b, <2>13 DEF AwaitResult
    <3>3. replies[r] = <<>> /\ r \in Reqs
      BY <1>a, <3>1 DEF WaitersUnanswered
    <3>4. \A q \in ResultReqs : phase'[q] \in {"unsent", "queued"} => phase[q] = phase'[q]
      BY <1>a, <1>b, <3>1
    <3>5. \A q \in ResultReqs : phase'[q] \in {"unsent", "queued"} => replies'[q] = <<>>
      BY <3>1, <3>4 DEF WaitersUnanswered
    <3>6. ASSUME NEW g \in Goals, NEW q \in waiting'[g]
          PROVE  GoalOf[q] = g /\ phase'[q] = "taken" /\ replies'[q] = <<>>
      <4>1. CASE q \in waiting[g]
        <5>1. GoalOf[q] = g /\ phase[q] = "taken" /\ replies[q] = <<>> /\ q \in ResultReqs
          BY <1>b, <4>1 DEF WaitersUnanswered
        <5> QED
          BY <1>a, <1>b, <3>1, <5>1
      <4>2. CASE q \notin waiting[g]
        BY <1>b, <3>1, <3>2, <3>3, <3>6, <4>2
      <4> QED
        BY <4>1, <4>2
    <3> QED
      BY <3>5, <3>6 DEF WaitersUnanswered
  <2>14. ASSUME NEW r \in ResultReqs, ResultCrashes(r) PROVE WaitersUnanswered'
    BY <1>2, <1>6, <1>a, <2>14 DEF ResultCrashes
  <2>15. ASSUME NEW g \in Goals, Execute(g) \/ ExecuteUnknown(g) PROVE WaitersUnanswered'
    BY <1>1, <2>15 DEF Execute, ExecuteUnknown
  <2>16. ASSUME NEW g \in Goals, ExecuteCrashes(g) \/ TaskEndCrashes(g) PROVE WaitersUnanswered'
    BY <1>2, <2>16 DEF ExecuteCrashes, TaskEndCrashes, Crash
  <2>17. ASSUME NEW g \in Goals, NEW how, NEW o, HandleTaskEnd(g, how, o) PROVE WaitersUnanswered'
    BY <1>5, <2>17 DEF HandleTaskEnd, Conclude, Store
  <2>18. ASSUME NEW g \in Goals, NEW how, NEW o, TaskEndResponseRaises(g, how, o) PROVE WaitersUnanswered'
    <3>1. PICK told \in SUBSET waiting[g] : Reply(told, o)
      BY <2>18 DEF TaskEndResponseRaises
    <3>2. \A h \in Goals : waiting'[h] = {}
      BY <2>18 DEF TaskEndResponseRaises, Down, None
    <3> QED
      BY <1>5, <2>18, <3>1, <3>2 DEF TaskEndResponseRaises
  <2> QED
    BY <1>7, <2>1, <2>2, <2>3, <2>4, <2>5, <2>6, <2>7, <2>8, <2>9, <2>10, <2>11, <2>12, <2>13, <2>14, <2>15,
       <2>16, <2>17, <2>18
       DEF Server, GoalStep, CancelStep, ResultStep, GoalEvent
<1>8. ASSUME NEW g \in Goals, Announce(g) \/ UserExecutes(g) \/ TaskStep(g) PROVE WaitersUnanswered'
  BY <1>1, <1>8 DEF Announce, UserExecutes, TaskStep, TaskEnds
<1>9. ASSUME NEW k \in Kinds, NEW r \in ReqsOf(k), Send(r, k) PROVE WaitersUnanswered'
  BY <1>1, <1>9, <1>b DEF Send, ReqsOf
<1>10. ASSUME NEW r \in Reqs, Overwrite(r) PROVE WaitersUnanswered'
  BY <1>1, <1>10, <1>b DEF Overwrite
<1>11. CASE Stop
  BY <1>2, <1>11 DEF Stop
<1>12. CASE UNCHANGED vars
  BY <1>1, <1>12 DEF vars
<1> QED
  BY <1>7, <1>8, <1>9, <1>10, <1>11, <1>12 DEF Next

LEMMA IInvInit == Init => IInv
BY TypeInit, InitAgrees DEF IInv

LEMMA IInvStep == IInv /\ [Next]_vars => IInv'
BY TypeStep, AgreementStep, WaitersStep DEF IInv

----------------------------------------------------------------------------
(* The theorems. *)

(* The state always has its type. *)
THEOREM TypeCorrect == Spec => []TypeOK
<1>1. IInv => TypeOK
  BY DEF IInv, TypeInv
<1> QED
  BY <1>1, IInvInit, IInvStep, PTL DEF Spec

(* state.goals, the rcl goal handles, the Tasks, the responses kept, the requests that wait and   *)
(* the status topic never disagree while the server is up, whatever arrives in whatever order.     *)
LEMMA Agree == Spec => []Agreement
<1>1. IInv => Agreement
  BY DEF IInv
<1> QED
  BY <1>1, IInvInit, IInvStep, PTL DEF Spec

(* Between two messages the map of the server and the goal handles of rcl hold the same goals, and *)
(* late result requests are told the status the goal ended with.                                   *)
THEOREM GoalsAgree == Spec => []HandlesAgree
<1>1. Agreement => HandlesAgree
  BY DEF Agreement, HandlesAgree
<1> QED
  BY <1>1, Agree, PTL

(* Whoever is left waiting for a result has none yet, and waits for a goal that will have one.    *)
THEOREM WaitersAreServed == Spec => []WaitersAreOpen
<1>1. IInv => WaitersAreOpen
  BY DEF IInv, Agreement, WaitersAreOpen
<1> QED
  BY <1>1, IInvInit, IInvStep, PTL DEF Spec

(* The end of a Task always finds its goal, and finds it executing.                               *)
THEOREM TasksFindGoal == Spec => []TasksHaveGoal
<1>1. Agreement => TasksHaveGoal
  BY DEF Agreement
<1> QED
  BY <1>1, Agree, PTL

(* The last status array shows every goal that has started in the state it is in.                 *)
THEOREM StatusIsPublished == Spec => []TopicIsCurrent
<1>1. Agreement => TopicIsCurrent
  BY DEF Agreement
<1> QED
  BY <1>1, Agree, PTL

-----------------------------------------------------------------------------
(* ActionServer implements ActionProtocol: every step of the server is a step of the *)
(* protocol, or shows clients nothing.                                               *)

LEMMA InitImplements == Init => P!Init
BY RequestsAssumption DEF Init, P!Init, Alive, None, Reqs

(* A reply to requests that are not result requests shows nothing here. *)
LEMMA OtherReply == ASSUME NEW R, NEW s, Reply(R, s), R \cap ResultReqs = {}
                    PROVE  \A r \in ResultReqs : replies'[r] = replies[r]
BY DEF Reply, Reqs

(* A step that leaves everything the protocol shows as it is. *)
LEMMA Hidden == ASSUME UNCHANGED <<handle, outcome>>, Alive' = Alive,
                       \A r \in ResultReqs : replies'[r] = replies[r]
                PROVE  UNCHANGED P!vars
BY DEF P!vars, Alive

LEMMA DownImplements == ASSUME NEW how \in {"crashed", "stopped"}, Alive, Down(how), UNCHANGED <<outcome, replies>>
                        PROVE  P!Next
<1>1. P!Die
  BY DEF P!Die, Down, Alive, None
<1> QED
  BY <1>1 DEF P!Next

(* The answer to requests that wait, as the protocol sees it. *)
LEMMA AnswersWaiters ==
  ASSUME IInv, NEW g \in Goals, NEW R \in SUBSET waiting[g], NEW s, Reply(R, s)
  PROVE  R \in SUBSET P!Open(g) /\ P!Answer(R, s)
<1>1. R \subseteq ResultReqs
  BY DEF IInv, TypeInv, TypeOK
<1>2. \A r \in R : GoalOf[r] = g /\ replies[r] = <<>>
  BY DEF IInv, WaitersUnanswered
<1>3. P!Answer(R, s)
  BY DEF P!Answer, Reply, Reqs
<1> QED
  BY <1>1, <1>2, <1>3 DEF P!Open

(* The end of an executing goal. *)
LEMMA EndImplements ==
  ASSUME IInv, Alive, Alive', NEW g \in Goals, handle[g] = "executing", NEW o \in Outcomes, NEW expired,
         NEW told \in SUBSET waiting[g], Conclude(g, o, expired, told)
  PROVE  P!Next
<1>1. told \in SUBSET P!Open(g) /\ P!Answer(told, o)
  BY AnswersWaiters DEF Conclude
<1>2. outcome' = [outcome EXCEPT ![g] = o] /\ handle \in [Goals -> Statuses]
  BY DEF Conclude, IInv, TypeInv, TypeOK
<1>3. /\ expired \in SUBSET {h \in Goals : h = g \/ handle[h] \in P!Outcomes}
      /\ handle' = [h \in Goals |-> CASE h \in expired -> "none"
                                      [] h = g /\ h \notin expired -> o
                                      [] OTHER -> handle[h]]
  BY <1>2 DEF Conclude, P!Outcomes, Outcomes
<1>4. P!End(g, o)
  BY <1>1, <1>2, <1>3 DEF P!End, Alive
<1> QED
  BY <1>4 DEF P!Next, P!Outcomes, Outcomes

LEMMA GoalStepImplements == ASSUME IInv, IInv', GoalStep PROVE P!Next \/ UNCHANGED P!vars
<1> USE DEF gen_server, messages
<1>1. ASSUME NEW r \in GoalReqs, AcceptGoal(r) PROVE P!Next
  <2>1. GoalOf[r] \in Goals /\ {r} \cap ResultReqs = {}
    BY RequestsAssumption
  <2>2. \A q \in ResultReqs : replies'[q] = replies[q]
    BY <1>1, <2>1, OtherReply DEF AcceptGoal, GoalReply
  <2>3. P!Accept(GoalOf[r])
    BY <1>1, <2>1, <2>2 DEF AcceptGoal, Take, Taking, Alive, P!Accept, P!Move
  <2> QED
    BY <2>1, <2>3 DEF P!Next
<1>2. ASSUME NEW r \in GoalReqs, RejectGoal(r) PROVE UNCHANGED P!vars
  <2>1. {r} \cap ResultReqs = {}
    BY RequestsAssumption
  <2>2. \A q \in ResultReqs : replies'[q] = replies[q]
    BY <1>2, <2>1, OtherReply DEF RejectGoal, GoalReply
  <2> QED
    BY <1>2, <2>2, Hidden DEF RejectGoal, Alive
<1>3. ASSUME NEW r \in GoalReqs, GoalCallbackRaises(r) PROVE P!Next
  BY <1>3, DownImplements DEF GoalCallbackRaises, Take, Taking
<1> QED
  BY <1>1, <1>2, <1>3 DEF GoalStep

LEMMA CancelStepImplements == ASSUME IInv, IInv', CancelStep PROVE P!Next \/ UNCHANGED P!vars
<1> USE DEF gen_server, messages
<1>1. ASSUME NEW r \in CancelReqs, TakeCancel(r) PROVE UNCHANGED P!vars
  BY <1>1, Hidden DEF TakeCancel, Alive
<1>2. ASSUME NEW g \in Goals, LeaveGoal(g) PROVE UNCHANGED P!vars
  BY <1>2, Hidden DEF LeaveGoal, Alive
<1>3. "canceled" \in Outcomes
  BY DEF Outcomes
<1>4. ASSUME NEW g \in Goals, CancelGoal(g) PROVE P!Next
  <2>1. handle[g] = "executing" /\ Alive /\ Alive'
    BY <1>4 DEF CancelGoal, Alive, IInv, Agreement, TasksHaveGoal
  <2> QED
    BY <1>3, <1>4, <2>1, EndImplements DEF CancelGoal
<1>5. ASSUME NEW g \in Goals, CancelGoalRaises(g) PROVE P!Next
  <2>1. handle[g] = "executing" /\ Alive /\ Alive'
    BY <1>5 DEF CancelGoalRaises, Poison, Alive, IInv, Agreement, TasksHaveGoal
  <2> QED
    BY <1>3, <1>5, <2>1, EndImplements DEF CancelGoalRaises
<1>6. ASSUME NEW g \in Goals, CancelQueuedGoal(g) PROVE P!Next
  <2>1. g \in goals /\ server = "up" /\ g \in job.todo
    BY <1>6 DEF CancelQueuedGoal
  <2>2. handle[g] \in {"accepted", "executing"}
    BY <2>1 DEF IInv, Agreement, BatchOK
  <2>3. Alive /\ UNCHANGED <<Alive, outcome, [r \in ResultReqs |-> replies[r]]>>
    BY <1>6 DEF CancelQueuedGoal, Poison, Alive
  <2>4. handle' = [handle EXCEPT ![g] = "canceling"]
    BY <1>6 DEF CancelQueuedGoal
  <2>5. P!BeginCancel(g)
    BY <2>2, <2>3, <2>4, Zenon DEF P!BeginCancel, P!Move
  <2> QED
    BY <2>5 DEF P!Next
<1>7. CASE CancelRaises \/ CancelResponseRaises
  BY <1>7, Hidden DEF CancelRaises, CancelResponseRaises, Poison, Alive
<1>8. CASE EndCancel
  <2>1. {job.req} \cap ResultReqs = {}
    BY <1>8, RequestsAssumption DEF EndCancel, IInv, TypeInv, TypeOK, Reqs
  <2>2. \A r \in ResultReqs : replies'[r] = replies[r]
    BY <1>8, <2>1, OtherReply DEF EndCancel
  <2> QED
    BY <1>8, <2>2, Hidden DEF EndCancel, Alive
<1> QED
  BY <1>1, <1>2, <1>4, <1>5, <1>6, <1>7, <1>8 DEF CancelStep

LEMMA ResultStepImplements == ASSUME IInv, IInv', ResultStep PROVE P!Next \/ UNCHANGED P!vars
<1> USE DEF gen_server, messages
<1>1. ASSUME NEW r \in ResultReqs, AnswerResult(r) PROVE P!Next
  <2> DEFINE g == GoalOf[r]
  <2>1. /\ g \in Goals /\ server = "up" /\ job.kind = "result" /\ phase[r] = "queued"
        /\ UNCHANGED <<server, handle, outcome>>
    BY <1>1, RequestsAssumption DEF AnswerResult, Take, Taking, Queued
  <2>2. replies[r] = <<>>
    BY <2>1 DEF IInv, WaitersUnanswered
  <2>3. fresh = {}
    BY <2>1 DEF IInv, Agreement, BatchOK
  <2>4. PICK s : Reply({r}, s) /\ \/ result_response[g] # "none" /\ s = result_response[g]
                                  \/ g \notin goals /\ s = "unknown"
    BY <1>1 DEF AnswerResult
  <2>5. P!Answer({r}, s)
    BY <2>4 DEF Reply, Reqs, P!Answer
  <2>6. \/ handle[g] \in Outcomes /\ s = handle[g]
        \/ handle[g] = "none" /\ s = "unknown"
    BY <2>1, <2>3, <2>4 DEF IInv, Agreement, ResponsesMatchHandles, GoalsMatchHandles
  <2>7. P!AnswerLater(r)
    <3>1. Alive /\ (Alive' = Alive)
      BY <2>1 DEF Alive
    <3>2. [q \in ResultReqs |-> replies[q]][r] = <<>>
      BY <2>2
    <3>3. \/ handle[GoalOf[r]] \in P!Outcomes /\ P!Answer({r}, handle[GoalOf[r]])
          \/ handle[GoalOf[r]] = "none" /\ P!Answer({r}, "unknown")
      BY <2>5, <2>6 DEF P!Outcomes, Outcomes, P!Answer
    <3>4. UNCHANGED <<Alive, handle, outcome>>
      BY <2>1 DEF Alive
    <3> QED
      BY <3>1, <3>2, <3>3, <3>4, Zenon DEF P!AnswerLater
  <2> QED
    BY <2>7 DEF P!Next
<1>2. ASSUME NEW r \in ResultReqs, AwaitResult(r) PROVE UNCHANGED P!vars
  BY <1>2, Hidden DEF AwaitResult, Alive
<1>3. ASSUME NEW r \in ResultReqs, ResultCrashes(r) PROVE P!Next
  BY <1>3, DownImplements DEF ResultCrashes, Take, Taking
<1> QED
  BY <1>1, <1>2, <1>3 DEF ResultStep

LEMMA GoalEventImplements == ASSUME IInv, IInv', NEW g \in Goals, GoalEvent(g) PROVE P!Next \/ UNCHANGED P!vars
<1> USE DEF gen_server, messages
<1>1. CASE Execute(g)
  BY <1>1 DEF Execute, Waiting, Alive, P!Next, P!Execute, P!Move
<1>2. CASE ExecuteUnknown(g)
  BY <1>2, Hidden DEF ExecuteUnknown, Alive
<1>3. CASE ExecuteCrashes(g) \/ TaskEndCrashes(g)
  BY <1>3, DownImplements DEF ExecuteCrashes, TaskEndCrashes, Crash, Waiting
<1>4. ASSUME NEW how, NEW o \in Outcomes, HandleTaskEnd(g, how, o) PROVE P!Next
  BY <1>4, EndImplements DEF HandleTaskEnd, Alive
<1>5. ASSUME NEW how, NEW o \in Outcomes, TaskEndResponseRaises(g, how, o) PROVE P!Next
  <2>1. PICK told \in SUBSET waiting[g] : Reply(told, o)
    BY <1>5 DEF TaskEndResponseRaises
  <2>2. told \in SUBSET P!Open(g) /\ P!Answer(told, o)
    BY <2>1, AnswersWaiters
  <2>3. P!Die
    <3>1. Alive /\ Alive' = FALSE
      BY <1>5 DEF TaskEndResponseRaises, Down, Waiting, Alive
    <3>2. handle' = [h \in Goals |-> "none"]
      BY <1>5 DEF TaskEndResponseRaises, Down, None
    <3>3. handle[g] = "executing" /\ outcome' = [outcome EXCEPT ![g] = o] /\ o \in P!Outcomes
      BY <1>5 DEF TaskEndResponseRaises, P!Outcomes, Outcomes
    <3> QED
      BY <2>2, <3>1, <3>2, <3>3, Zenon DEF P!Die
  <2> QED
    BY <2>3 DEF P!Next
<1> QED
  BY <1>1, <1>2, <1>3, <1>4, <1>5 DEF GoalEvent, Outcomes

LEMMA StepImplements == IInv /\ IInv' /\ [Next]_vars => [P!Next]_(P!vars)
<1> SUFFICES ASSUME IInv, IInv', [Next]_vars PROVE P!Next \/ UNCHANGED P!vars
  OBVIOUS
<1> USE DEF gen_server, messages
<1>1. CASE HandleContinue \/ \E k \in Kinds : StartBatch(k) \/ TakeFails(k)
  BY <1>1, Hidden DEF HandleContinue, StartBatch, TakeFails, Alive
<1>2. CASE EndBatch
  BY <1>2, Hidden, DownImplements DEF EndBatch, Crash, Alive
<1>3. CASE GoalStep \/ CancelStep \/ ResultStep \/ \E g \in Goals : GoalEvent(g)
  BY <1>3, GoalStepImplements, CancelStepImplements, ResultStepImplements, GoalEventImplements
<1>4. ASSUME NEW g \in Goals, Announce(g) \/ TaskStep(g) \/ UserExecutes(g) PROVE UNCHANGED P!vars
  BY <1>4, Hidden DEF Announce, TaskStep, TaskEnds, UserExecutes, Alive
<1>5. ASSUME NEW k \in Kinds, NEW r \in ReqsOf(k), Send(r, k) PROVE UNCHANGED P!vars
  BY <1>5, Hidden DEF Send, Alive
<1>6. ASSUME NEW r \in Reqs, Overwrite(r) PROVE UNCHANGED P!vars
  BY <1>6, Hidden DEF Overwrite, Alive
<1>7. CASE Stop
  BY <1>7, DownImplements DEF Stop
<1>8. CASE UNCHANGED vars
  BY <1>8, Hidden DEF vars, Alive
<1> QED
  BY <1>1, <1>2, <1>3, <1>4, <1>5, <1>6, <1>7, <1>8 DEF Next, Server

(* Clients get at most one answer to a result request, and it is the truth. *)
THEOREM Implements == Spec => ImplementsProtocol
<1>1. Init /\ [][Next]_vars => []IInv
  BY IInvInit, IInvStep, PTL
<1>2. [][Next]_vars /\ []IInv => [][P!Next]_(P!vars)
  BY StepImplements, PTL
<1> QED
  BY <1>1, <1>2, InitImplements, PTL DEF Spec, ImplementsProtocol, P!Spec
=============================================================================
