---------------------------- MODULE ActionServer ----------------------------
(***************************************************************************)
(* Rclex.ActionServer (lib/rclex/action_server.ex): a GenServer that takes *)
(* goal, cancel and result requests from the rcl action server, runs one   *)
(* Task per goal and answers.                                              *)
(*                                                                         *)
(* Around it, concurrently: clients whose requests arrive in a middleware  *)
(* queue and raise one event message each; the Tasks that announce an      *)
(* accepted goal (handle_accepted_callback) and that execute it; the       *)
(* application, which may call execute_goal itself; the supervisor, which  *)
(* may stop the server.  Erlang keeps the order of messages of one sender  *)
(* only, so messages of different senders are handled in any order.        *)
(***************************************************************************)
EXTENDS Naturals, Sequences, FiniteSets

CONSTANTS
  Goals,            \* goal UUIDs
  GoalReqs, CancelReqs, ResultReqs,  \* the requests clients ever send
  NoReq,            \* "no request"
  GoalOf,           \* the UUID a goal request or a result request carries
  Targets,          \* the UUIDs a cancel request selects (one goal, or all of them)
  Deferred,         \* goals whose handle_accepted_callback leaves execution to the application
  MaxUserCalls,     \* bound: calls of execute_goal the application makes by itself
  RaisingCallbacks, \* whether goal_callback and cancel_callback may raise
  VanishingClients  \* whether sending a response may fail ("client is gone")

Reqs == GoalReqs \cup CancelReqs \cup ResultReqs

ASSUME RequestsAssumption ==
  /\ IsFiniteSet(Reqs) /\ NoReq \notin Reqs
  /\ GoalReqs \cap CancelReqs = {} /\ GoalReqs \cap ResultReqs = {} /\ CancelReqs \cap ResultReqs = {}
  /\ GoalOf \in [GoalReqs \cup ResultReqs -> Goals]
  /\ Targets \in [CancelReqs -> SUBSET Goals]

ASSUME OptionsAssumption ==
  /\ Deferred \subseteq Goals
  /\ MaxUserCalls \in Nat
  /\ RaisingCallbacks \in BOOLEAN
  /\ VanishingClients \in BOOLEAN

VARIABLES
  \* the GenServer
  server,           \* "up"; "poisoned": alive with state.goals = :ok; "crashed"; "stopped"
  armed,            \* handle_continue has set the three service callbacks
  job,              \* the request batch being handled: its kind, the takes left, and for a
                    \* cancel request the goals_canceling still to be looked at
  fresh,            \* goals accepted by the running goal batch, put into state.goals at its end
  goals,            \* the keys of state.goals
  result_response,  \* goals[g].result_response: its status, "none" for nil
  waiting,          \* goals[g].waiting_result_requests
  task,             \* goals[g].task: "none", "running", or the message it has sent us
  \* the rcl action server
  handle,           \* the state of each goal handle, "none" when there is none
  status_topic,     \* the last goal status array published
  \* messages
  events,           \* {:new_*_request, n} messages in the mailbox, per kind, in order
  execute_calls,    \* {:execute_goal, g} calls in the mailbox
  accepting,        \* goals whose handle_accepted_callback has not run yet
  user_calls,       \* execute_goal calls the application has made
  \* the clients
  phase,            \* of each request: "unsent", "queued", "taken" or "lost"
  replies,          \* the responses sent to it
  outcome           \* history: the terminal status each goal last reached

gen_server == <<server, armed, job, fresh, goals, result_response, waiting, task>>
messages   == <<events, execute_calls, accepting, user_calls>>
vars == <<server, armed, job, fresh, goals, result_response, waiting, task, handle, status_topic,
          events, execute_calls, accepting, user_calls, phase, replies, outcome>>

Outcomes == {"succeeded", "canceled", "aborted"}
Active   == {"accepted", "executing", "canceling"}
Kinds    == {"goal", "cancel", "result"}

ReqsOf(k) == CASE k = "goal" -> GoalReqs [] k = "cancel" -> CancelReqs [] OTHER -> ResultReqs
Queued(k) == {r \in ReqsOf(k) : phase[r] = "queued"}

Idle    == [kind |-> "idle", left |-> 0, req |-> NoReq, todo |-> {}]
Alive   == server \in {"up", "poisoned"}
Waiting == Alive /\ armed /\ job = Idle                \* waiting for a message
Taking(k) == Alive /\ job.kind = k /\ job.left > 0 /\ job.req = NoReq

None(x) == [g \in Goals |-> x]

Init ==
  /\ server = "up" /\ armed = FALSE /\ job = Idle /\ fresh = {} /\ goals = {}
  /\ result_response = None("none") /\ waiting = None({}) /\ task = None("none")
  /\ handle = None("none") /\ status_topic = None("absent")
  /\ events = [k \in Kinds |-> <<>>]
  /\ execute_calls = None(0) /\ accepting = {} /\ user_calls = 0
  /\ phase = [r \in Reqs |-> "unsent"] /\ replies = [r \in Reqs |-> <<>>]
  /\ outcome = None("none")

----------------------------------------------------------------------------
(* Pieces of handlers *)

Reply(R, s) == replies' = [r \in Reqs |-> IF r \in R THEN Append(replies[r], s) ELSE replies[r]]

\* What publish_status puts on the topic: goal_status of every goal of state.goals. It is set by
\* update_goals_state only, so an accepted goal still shows the status_unknown it got at first.
Shown(s) == IF s = "accepted" THEN "unknown" ELSE s
\* Mutant: the array is built from the handles before the transition.
PublishBefore(h) == status_topic' = [g \in Goals |-> IF g \in goals THEN Shown(handle[g]) ELSE "absent"]
Publish(h) == status_topic' = [g \in Goals |-> IF g \in goals THEN Shown(h[g]) ELSE "absent"]

\* The process ends: terminate/2 finalises the rcl action server, its messages go nowhere and
\* Tasks (not linked) have nobody to report to.
Down(how) ==
  /\ server' = how /\ armed' = FALSE /\ job' = Idle /\ fresh' = {} /\ goals' = {}
  /\ result_response' = None("none") /\ waiting' = None({}) /\ task' = None("none")
  /\ handle' = None("none")
  /\ events' = [k \in Kinds |-> <<>>] /\ execute_calls' = None(0) /\ accepting' = {}
  /\ UNCHANGED user_calls
Crash == Down("crashed") /\ UNCHANGED <<status_topic, phase, replies, outcome>>

\* The rescue around a cancel request evaluates to the :ok of Logger.error, which the reduce of
\* the batch takes for the goals map. The rcl handles and the Tasks stay as they are.
Poison ==
  /\ server' = "poisoned"
  /\ goals' = {} /\ result_response' = None("none") /\ waiting' = None({})
  /\ job' = [job EXCEPT !.left = @ - 1, !.req = NoReq, !.todo = {}]

\* Mutant: the goal keeps its Task and the message the Task has sent.
ConcludeKeepsTask(g, o, expired, told) ==
  LET ended == [handle EXCEPT ![g] = o] IN
  /\ expired \subseteq {h \in Goals : ended[h] \in Outcomes}
  /\ handle' = [h \in Goals |-> IF h \in expired THEN "none" ELSE ended[h]]
  /\ Publish(ended)
  /\ outcome' = [outcome EXCEPT ![g] = o]
  /\ Reply(told, o)
  /\ UNCHANGED task

\* update_goals_state to o and what set_goals_result_and_reset_task does outside state.goals: rcl
\* drops expired goals (any goals that ended: whether their result_timeout is over is not modelled)
\* and those of `told` get the response.
Conclude(g, o, expired, told) ==
  LET ended == [handle EXCEPT ![g] = o] IN
  /\ expired \subseteq {h \in Goals : ended[h] \in Outcomes}
  /\ handle' = [h \in Goals |-> IF h \in expired THEN "none" ELSE ended[h]]
  /\ Publish(ended)
  /\ task' = [task EXCEPT ![g] = "none"]
  /\ outcome' = [outcome EXCEPT ![g] = o]
  /\ Reply(told, o)

\* Mutant: the list of waiting requests is not reset.
StoreKeepsWaiting(g, o, expired) ==
  /\ goals' = goals \ expired
  /\ result_response' = [h \in Goals |-> IF h \in expired THEN "none"
                                         ELSE IF h = g THEN o ELSE result_response[h]]
  /\ UNCHANGED waiting

\* Mutant: expired goals are not dropped from the map.
StoreKeepsExpired(g, o, expired) ==
  /\ result_response' = [result_response EXCEPT ![g] = o]
  /\ waiting' = [waiting EXCEPT ![g] = {}]
  /\ UNCHANGED goals

\* Mutant: the response is put back after the expired goals were dropped.
StoreAfterDrop(g, o, expired) ==
  /\ goals' = goals \ expired
  /\ result_response' = [h \in Goals |-> IF h = g THEN o
                                         ELSE IF h \in expired THEN "none" ELSE result_response[h]]
  /\ waiting' = [h \in Goals |-> IF h \in expired \cup {g} THEN {} ELSE waiting[h]]

\* What it does to state.goals.
Store(g, o, expired) ==
  /\ goals' = goals \ expired
  /\ result_response' = [h \in Goals |-> IF h \in expired THEN "none"
                                         ELSE IF h = g THEN o ELSE result_response[h]]
  /\ waiting' = [h \in Goals |-> IF h \in expired \cup {g} THEN {} ELSE waiting[h]]

----------------------------------------------------------------------------
(* The middleware and the clients *)

Send(r, k) ==
  /\ r \in ReqsOf(k) /\ phase[r] = "unsent"
  /\ phase' = [phase EXCEPT ![r] = "queued"]
  /\ events' = IF Alive /\ armed THEN [events EXCEPT ![k] = Append(@, 1)] ELSE events
  /\ UNCHANGED <<gen_server, handle, status_topic, execute_calls, accepting, user_calls, replies, outcome>>

\* KEEP_LAST: a full request queue drops a request whose event has already been raised.
Overwrite(r) ==
  /\ phase[r] = "queued"
  /\ phase' = [phase EXCEPT ![r] = "lost"]
  /\ UNCHANGED <<gen_server, messages, handle, status_topic, replies, outcome>>

----------------------------------------------------------------------------
(* Other processes *)

\* The Task of an accepted goal runs handle_accepted_callback; the default one calls execute_goal.
Announce(g) ==
  /\ Alive /\ g \in accepting
  /\ accepting' = accepting \ {g}
  /\ execute_calls' = IF g \in Deferred THEN execute_calls
                                        ELSE [execute_calls EXCEPT ![g] = @ + 1]
  /\ UNCHANGED <<gen_server, handle, status_topic, events, user_calls, phase, replies, outcome>>

UserExecutes(g) ==
  /\ Alive /\ user_calls < MaxUserCalls
  /\ user_calls' = user_calls + 1
  /\ execute_calls' = [execute_calls EXCEPT ![g] = @ + 1]
  /\ UNCHANGED <<gen_server, handle, status_topic, events, accepting, phase, replies, outcome>>

\* The execute callback returns a result or its Task dies; the message is in our mailbox.
TaskEnds(g, how) ==
  /\ task[g] = "running"
  /\ task' = [task EXCEPT ![g] = how]
  /\ UNCHANGED <<server, armed, job, fresh, goals, result_response, waiting, handle, status_topic,
                 messages, phase, replies, outcome>>

Stop == Alive /\ Down("stopped") /\ UNCHANGED <<status_topic, phase, replies, outcome>>

----------------------------------------------------------------------------
(* The GenServer: start and batches *)

\* Mutant: requests that came before the callbacks were set raise no event.
HandleContinueLate ==
  /\ Alive /\ ~armed
  /\ armed' = TRUE
  /\ UNCHANGED <<server, job, fresh, goals, result_response, waiting, task, handle, status_topic, events,
                 execute_calls, accepting, user_calls, phase, replies, outcome>>

\* handle_continue: a callback that is set while requests are unread is called with their number.
HandleContinue ==
  /\ Alive /\ ~armed
  /\ armed' = TRUE
  /\ events' = [k \in Kinds |-> IF Queued(k) = {} THEN <<>> ELSE <<Cardinality(Queued(k))>>]
  /\ UNCHANGED <<server, job, fresh, goals, result_response, waiting, task, handle, status_topic,
                 execute_calls, accepting, user_calls, phase, replies, outcome>>

StartBatch(k) ==
  /\ Waiting /\ events[k] # <<>>
  /\ job' = [Idle EXCEPT !.kind = k, !.left = Head(events[k])]
  /\ events' = [events EXCEPT ![k] = Tail(@)]
  /\ UNCHANGED <<server, armed, fresh, goals, result_response, waiting, task, handle, status_topic,
                 execute_calls, accepting, user_calls, phase, replies, outcome>>

\* :action_server_take_failed, the request was overwritten
TakeFails(k) ==
  /\ Taking(k) /\ Queued(k) = {}
  /\ job' = [job EXCEPT !.left = @ - 1]
  /\ UNCHANGED <<server, armed, fresh, goals, result_response, waiting, task, handle, status_topic,
                 messages, phase, replies, outcome>>

\* Mutant: what the batch accepted does not reach state.goals.
EndBatchForgets ==
  /\ Alive /\ job # Idle /\ job.left = 0
  /\ IF server = "poisoned" /\ job.kind = "goal" THEN Crash
     ELSE /\ job' = Idle /\ fresh' = {}
          /\ UNCHANGED <<server, armed, goals, result_response, waiting, task, handle, status_topic,
                         messages, phase, replies, outcome>>

\* Enum.into the goals map of what the goal batch accepted; with :ok for a map it raises.
EndBatch ==
  /\ Alive /\ job # Idle /\ job.left = 0
  /\ IF server = "poisoned" /\ job.kind = "goal" THEN Crash
     ELSE /\ job' = Idle
          /\ goals' = goals \cup fresh /\ fresh' = {}
          /\ UNCHANGED <<server, armed, result_response, waiting, task, handle, status_topic,
                         messages, phase, replies, outcome>>

Take(r, k) ==
  /\ Taking(k) /\ r \in Queued(k)
  /\ phase' = [phase EXCEPT ![r] = "taken"]

----------------------------------------------------------------------------
(* Goal requests *)

\* send_goal_response survives a client that is gone.
GoalReply(r, verdict) ==
  \/ Reply({r}, verdict)
  \/ (VanishingClients /\ UNCHANGED replies)

AcceptGoal(r) ==
  /\ Take(r, "goal")
  /\ handle[GoalOf[r]] = "none"
  /\ handle' = [handle EXCEPT ![GoalOf[r]] = "accepted"]
  /\ accepting' = accepting \cup {GoalOf[r]}
  /\ fresh' = fresh \cup {GoalOf[r]}
  /\ GoalReply(r, "accepted")
  /\ job' = [job EXCEPT !.left = @ - 1]
  /\ UNCHANGED <<server, armed, goals, result_response, waiting, task, status_topic, events,
                 execute_calls, user_calls, outcome>>

\* The UUID exists, or the goal callback does not accept.
RejectGoal(r) ==
  /\ Take(r, "goal")
  /\ GoalReply(r, "rejected")
  /\ job' = [job EXCEPT !.left = @ - 1]
  /\ UNCHANGED <<server, armed, fresh, goals, result_response, waiting, task, handle, status_topic,
                 messages, outcome>>

GoalCallbackRaises(r) ==
  /\ RaisingCallbacks
  /\ Take(r, "goal")
  /\ handle[GoalOf[r]] = "none"
  /\ Down("crashed") /\ UNCHANGED <<status_topic, replies, outcome>>

----------------------------------------------------------------------------
(* Cancel requests *)

\* rcl_action_process_cancel_request lists the selected goals that could be canceled.
TakeCancel(r) ==
  /\ Take(r, "cancel")
  /\ job' = [job EXCEPT !.req = r,
                        !.todo = {g \in Targets[r] : handle[g] \in {"accepted", "executing"}}]
  /\ UNCHANGED <<server, armed, fresh, goals, result_response, waiting, task, handle, status_topic,
                 messages, replies, outcome>>

\* The cancel callback rejects (or the goal is not in state.goals).
LeaveGoal(g) ==
  /\ server = "up" /\ g \in job.todo
  /\ job' = [job EXCEPT !.todo = @ \ {g}]
  /\ UNCHANGED <<server, armed, fresh, goals, result_response, waiting, task, handle, status_topic,
                 messages, phase, replies, outcome>>

\* It accepts, and the goal has a Task. Task.shutdown ends it and flushes its message.
CancelGoal(g) ==
  /\ server = "up" /\ g \in job.todo \cap goals /\ task[g] # "none"
  /\ \E expired \in SUBSET Goals :
       /\ Conclude(g, "canceled", expired, waiting[g])
       /\ Store(g, "canceled", expired)
  /\ job' = [job EXCEPT !.todo = @ \ {g}]
  /\ UNCHANGED <<server, armed, fresh, messages, phase>>

\* The same, but the response to one of those who wait cannot be sent.
CancelGoalRaises(g) ==
  /\ VanishingClients
  /\ server = "up" /\ g \in job.todo \cap goals /\ task[g] # "none"
  /\ \E expired \in SUBSET Goals : \E told \in SUBSET waiting[g] :
       told # waiting[g] /\ Conclude(g, "canceled", expired, told)
  /\ Poison
  /\ UNCHANGED <<armed, fresh, messages, phase>>

\* It accepts, and the goal has none: Task.shutdown(nil, 100) raises after the first transition.
CancelQueuedGoal(g) ==
  /\ server = "up" /\ g \in job.todo \cap goals /\ task[g] = "none"
  /\ handle' = [handle EXCEPT ![g] = "canceling"]
  /\ Publish(handle')
  /\ Poison
  /\ UNCHANGED <<armed, fresh, task, messages, phase, replies, outcome>>

\* The cancel callback raises, or state.goals is no map any more.
CancelRaises ==
  /\ Alive /\ job.todo # {}
  /\ server = "poisoned" \/ (RaisingCallbacks /\ job.todo \cap goals # {})
  /\ Poison
  /\ UNCHANGED <<armed, fresh, task, handle, status_topic, messages, phase, replies, outcome>>

EndCancel ==
  /\ Alive /\ job.req # NoReq /\ job.todo = {}
  /\ Reply({job.req}, "done")
  /\ job' = [job EXCEPT !.left = @ - 1, !.req = NoReq]
  /\ UNCHANGED <<server, armed, fresh, goals, result_response, waiting, task, handle, status_topic,
                 messages, phase, outcome>>

CancelResponseRaises ==
  /\ VanishingClients
  /\ Alive /\ job.req # NoReq /\ job.todo = {}
  /\ Poison
  /\ UNCHANGED <<armed, fresh, task, handle, status_topic, messages, phase, replies, outcome>>

----------------------------------------------------------------------------
(* Result requests *)

\* Mutant: a goal without a response is answered as if it were unknown.
AnswerResultEarly(r) ==
  LET g == GoalOf[r] IN
  /\ Take(r, "result") /\ server = "up"
  /\ \/ g \in goals /\ result_response[g] # "none" /\ Reply({r}, result_response[g])
     \/ (g \notin goals \/ result_response[g] = "none") /\ Reply({r}, "unknown")
  /\ job' = [job EXCEPT !.left = @ - 1]
  /\ UNCHANGED <<server, armed, fresh, goals, result_response, waiting, task, handle, status_topic,
                 messages, outcome>>

\* The response of a goal that ended, or status_unknown and an empty result for an unknown goal.
AnswerResult(r) ==
  LET g == GoalOf[r] IN
  /\ Take(r, "result") /\ server = "up"
  /\ \/ g \in goals /\ result_response[g] # "none" /\ Reply({r}, result_response[g])
     \/ g \notin goals /\ Reply({r}, "unknown")
  /\ job' = [job EXCEPT !.left = @ - 1]
  /\ UNCHANGED <<server, armed, fresh, goals, result_response, waiting, task, handle, status_topic,
                 messages, outcome>>

AwaitResult(r) ==
  LET g == GoalOf[r] IN
  /\ Take(r, "result") /\ server = "up"
  /\ g \in goals /\ result_response[g] = "none"
  /\ waiting' = [waiting EXCEPT ![g] = @ \cup {r}]
  /\ job' = [job EXCEPT !.left = @ - 1]
  /\ UNCHANGED <<server, armed, fresh, goals, result_response, task, handle, status_topic,
                 messages, replies, outcome>>

\* state.goals is :ok, or the response cannot be sent.
ResultCrashes(r) ==
  LET g == GoalOf[r] IN
  /\ Take(r, "result")
  /\ \/ server = "poisoned"
     \/ VanishingClients /\ (g \in goals => result_response[g] # "none")
  /\ Down("crashed") /\ UNCHANGED <<status_topic, replies, outcome>>

----------------------------------------------------------------------------
(* execute_goal calls and the ends of Tasks *)

\* The first handle_call clause (reply :ok when there is a Task) matches no state: there is no
\* key :task in it. A second call reaches the NIF, which refuses the transition and raises.
ExecuteUnknown(g) ==
  /\ Waiting /\ execute_calls[g] > 0
  /\ server = "up" /\ g \notin goals
  /\ execute_calls' = [execute_calls EXCEPT ![g] = @ - 1]
  /\ UNCHANGED <<gen_server, handle, status_topic, events, accepting, user_calls, phase, replies, outcome>>

Execute(g) ==
  /\ Waiting /\ execute_calls[g] > 0
  /\ server = "up" /\ g \in goals /\ handle[g] = "accepted"
  /\ execute_calls' = [execute_calls EXCEPT ![g] = @ - 1]
  /\ handle' = [handle EXCEPT ![g] = "executing"]
  /\ task' = [task EXCEPT ![g] = "running"]
  /\ Publish(handle')
  /\ UNCHANGED <<server, armed, job, fresh, goals, result_response, waiting, events, accepting,
                 user_calls, phase, replies, outcome>>

ExecuteCrashes(g) ==
  /\ Waiting /\ execute_calls[g] > 0
  /\ server = "poisoned" \/ (g \in goals /\ handle[g] # "accepted")
  /\ Crash

\* {task_ref, result} succeeds the goal, {:DOWN, ...} aborts it. A message whose goal is not found,
\* or no longer executing, or a response that cannot be sent, ends the process.
HandleTaskEnd(g, how, o) ==
  /\ Waiting /\ task[g] = how
  /\ server = "up" /\ g \in goals /\ handle[g] = "executing"
  /\ \E expired \in SUBSET Goals :
       /\ Conclude(g, o, expired, waiting[g])
       /\ Store(g, o, expired)
  /\ UNCHANGED <<server, armed, job, fresh, messages, phase>>

TaskEndResponseRaises(g, how, o) ==
  /\ VanishingClients
  /\ Waiting /\ task[g] = how
  /\ server = "up" /\ g \in goals /\ handle[g] = "executing"
  /\ Publish([handle EXCEPT ![g] = o])
  /\ outcome' = [outcome EXCEPT ![g] = o]
  /\ \E told \in SUBSET waiting[g] : told # waiting[g] /\ Reply(told, o)
  /\ Down("crashed") /\ UNCHANGED phase

TaskEndCrashes(g) ==
  /\ Waiting /\ task[g] \in {"finished", "failed"}
  /\ server = "poisoned" \/ g \notin goals \/ handle[g] # "executing"
  /\ Crash

----------------------------------------------------------------------------
(* The system *)

GoalStep   == \E r \in GoalReqs : AcceptGoal(r) \/ RejectGoal(r) \/ GoalCallbackRaises(r)
CancelStep == \/ \E r \in CancelReqs : TakeCancel(r)
              \/ \E g \in Goals : LeaveGoal(g) \/ CancelGoal(g) \/ CancelGoalRaises(g) \/ CancelQueuedGoal(g)
              \/ CancelRaises \/ EndCancel \/ CancelResponseRaises
ResultStep == \E r \in ResultReqs : AnswerResult(r) \/ AwaitResult(r) \/ ResultCrashes(r)
GoalEvent(g) == \/ Execute(g) \/ ExecuteUnknown(g) \/ ExecuteCrashes(g)
                \/ HandleTaskEnd(g, "finished", "succeeded")
                \/ HandleTaskEnd(g, "failed", "aborted")
                \/ TaskEndResponseRaises(g, "finished", "succeeded")
                \/ TaskEndResponseRaises(g, "failed", "aborted")
                \/ TaskEndCrashes(g)

Server ==
  \/ HandleContinue
  \/ \E k \in Kinds : StartBatch(k) \/ TakeFails(k)
  \/ EndBatch
  \/ GoalStep \/ CancelStep \/ ResultStep
  \/ \E g \in Goals : GoalEvent(g)

TaskStep(g) == TaskEnds(g, "finished") \/ TaskEnds(g, "failed")

Next ==
  \/ Server
  \/ \E g \in Goals : Announce(g) \/ TaskStep(g) \/ UserExecutes(g)
  \/ \E k \in Kinds : \E r \in ReqsOf(k) : Send(r, k)
  \/ \E r \in Reqs : Overwrite(r)
  \/ Stop

\* The server handles its mailbox, spawned Tasks run, and an execute callback returns or dies.
\* Clients need not ask, the middleware need not drop, and the supervisor need not stop anything.
Fairness ==
  /\ WF_vars(Server)
  /\ \A g \in Goals : WF_vars(Announce(g)) /\ WF_vars(TaskStep(g))

Spec == Init /\ [][Next]_vars /\ Fairness

----------------------------------------------------------------------------
(* Properties *)

Statuses == Active \cup Outcomes \cup {"none"}

\* The type of the state.
TypeOK ==
  /\ server \in {"up", "poisoned", "crashed", "stopped"}
  /\ armed \in BOOLEAN
  /\ job \in [kind : Kinds \cup {"idle"}, left : Nat, req : CancelReqs \cup {NoReq}, todo : SUBSET Goals]
  /\ fresh \subseteq Goals /\ goals \subseteq Goals /\ accepting \subseteq Goals
  /\ result_response \in [Goals -> Outcomes \cup {"none"}]
  /\ waiting \in [Goals -> SUBSET ResultReqs]
  /\ task \in [Goals -> {"none", "running", "finished", "failed"}]
  /\ handle \in [Goals -> Statuses]
  /\ status_topic \in [Goals -> Statuses \cup {"absent", "unknown"}]
  /\ events \in [Kinds -> Seq(Nat)]
  /\ execute_calls \in [Goals -> Nat]
  /\ user_calls \in Nat
  /\ phase \in [Reqs -> {"unsent", "queued", "taken", "lost"}]
  /\ replies \in [Reqs -> Seq(Statuses \cup {"unknown", "rejected", "done"})]
  /\ outcome \in [Goals -> Outcomes \cup {"none"}]

\* Between batches state.goals holds exactly the goals rcl has handles for, and within one it
\* lacks only what the batch has accepted: no goal that clients believe accepted is out of reach
\* of execute_goal, cancel and result requests (lines 338-429 against 168-200).
GoalsMatchHandles ==
  server = "up" => goals \cup fresh = {g \in Goals : handle[g] # "none"}

\* A result request is left waiting only for a goal that has no response yet and can still get
\* one: never for a goal whose response went out before it, nor for one that was dropped.
WaitersHaveFuture ==
  server = "up" => \A g \in Goals :
    waiting[g] # {} => /\ g \in goals /\ result_response[g] = "none"
                       /\ handle[g] \in {"accepted", "executing"}

\* Every Task, and every message a Task has left in the mailbox, belongs to a goal of state.goals
\* that is executing: find_goal_for_task_ref never comes back empty and the transition it leads
\* to is legal (a cancel has flushed the message of the Task it ended).
TasksHaveGoal ==
  server = "up" => \A g \in Goals :
    task[g] # "none" => g \in goals /\ handle[g] = "executing"

\* The response kept for late result requests is there exactly when the goal has ended, and is
\* the status it ended with.
ResponsesMatchHandles ==
  server = "up" => \A g \in Goals :
    result_response[g] = IF handle[g] \in Outcomes THEN handle[g] ELSE "none"

\* A goal that has started shows its current state in the last status array published: no path
\* changes a handle and leaves subscribers of the status topic behind.
TopicIsCurrent ==
  server = "up" => \A g \in goals :
    handle[g] # "accepted" => status_topic[g] = handle[g]

\* Where the handler of a request batch is: a cancel request in hand counts as a take still to
\* do, only a goal batch has accepted goals that state.goals lacks, no goal is left canceling, and
\* those a cancel request still has to look at have not ended meanwhile.
BatchOK ==
  /\ job.req # NoReq \/ job.todo # {} => job.kind = "cancel" /\ job.left > 0 /\ job.req # NoReq
  /\ server = "up" => /\ fresh \cap goals = {}
                      /\ fresh # {} => job.kind = "goal"
                      /\ \A g \in fresh : handle[g] = "accepted"
                      /\ \A g \in Goals : handle[g] # "canceling"
                      /\ \A g \in job.todo : handle[g] \in {"accepted", "executing"}

\* Nobody who waits has been answered, nor anybody whose request has not been taken.
WaitersUnanswered ==
  /\ \A r \in ResultReqs : phase[r] \in {"unsent", "queued"} => replies[r] = <<>>
  /\ \A g \in Goals : \A r \in waiting[g] :
       GoalOf[r] = g /\ phase[r] = "taken" /\ replies[r] = <<>>

\* state.goals, the responses kept and the goal handles of rcl tell the same of every goal.
HandlesAgree == GoalsMatchHandles /\ ResponsesMatchHandles

\* Who is on a waiting list has no answer yet, and waits for a goal that can still give one: no
\* result request is both kept and answered, nor kept for ever (handle_info of :new_result_request
\* and the end of a goal).
WaitersAreOpen == WaitersHaveFuture /\ WaitersUnanswered

\* The promise to clients.
P == INSTANCE ActionProtocol WITH
  alive <- Alive, status <- handle, AskedGoal <- GoalOf,
  answers <- [r \in ResultReqs |-> replies[r]]
ImplementsProtocol == P!Spec

\* Liveness: a goal that was accepted ends, unless the server is lost or its execution was left
\* to the application.
AcceptedGoalEnds ==
  \A g \in Goals \ Deferred :
    handle[g] = "accepted" ~> (handle[g] \in Outcomes \cup {"none"} \/ server # "up")

\* Liveness: a result request that reaches the server is answered, once its goal has started.
ResultRequestAnswered ==
  \A r \in ResultReqs :
    (phase[r] = "queued" /\ GoalOf[r] \notin Deferred)
      ~> (replies[r] # <<>> \/ phase[r] = "lost" \/ server # "up")

\* lib/rclex.ex:943: the cancel callback decides "if a request to cancel an on-going (or queued)
\* goal should be accepted or rejected": deciding does not cost the server its goals.
QueuedGoalsCanBeCanceled == server # "poisoned"
=============================================================================
