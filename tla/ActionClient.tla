---------------------------- MODULE ActionClient ----------------------------
(***************************************************************************)
(* Rclex.ActionClient (lib/rclex/action_client.ex): a GenServer that sends *)
(* goal, cancel and result requests and calls back when the response comes *)
(* or when request_timeout has passed.                                     *)
(*                                                                         *)
(* A response calls back from a Task of its own, an expiry from inside the *)
(* server.  The action server and the middleware are external: a request   *)
(* is answered at any later time or never, responses wait in a queue per   *)
(* service, and one event message may announce several of them.  A request *)
(* stands for its sequence number, which rcl never reuses.                 *)
(***************************************************************************)
EXTENDS Naturals, Sequences, FiniteSets

CONSTANTS
  Goals,                              \* goal UUIDs
  GoalReqs, CancelReqs, ResultReqs,   \* the requests the application ever makes
  GoalOf,                             \* the UUID a goal request carries
  Feedbacks, FeedbackOf,              \* feedback messages, and the UUID each of them names
  NoReq,                              \* "no request"
  QueueDepth,                         \* depth of the middleware's queues (KEEP_LAST)
  ExitingCallbacks                    \* whether a callback run at an expiry may exit or throw

Reqs     == GoalReqs \cup CancelReqs \cup ResultReqs
Messages == Reqs \cup Feedbacks
Kinds    == {"goal", "cancel", "result", "feedback"}
Kind(m)  == CASE m \in GoalReqs -> "goal" [] m \in CancelReqs -> "cancel"
              [] m \in ResultReqs -> "result" [] OTHER -> "feedback"

ASSUME RequestsAssumption ==
  /\ GoalReqs \cap CancelReqs = {} /\ GoalReqs \cap ResultReqs = {} /\ CancelReqs \cap ResultReqs = {}
  /\ Feedbacks \cap Reqs = {} /\ NoReq \notin Messages
  /\ GoalOf \in [GoalReqs -> Goals] /\ FeedbackOf \in [Feedbacks -> Goals]
ASSUME OptionsAssumption ==
  /\ QueueDepth \in Nat \ {0}
  /\ ExitingCallbacks \in BOOLEAN

VARIABLES
  \* the GenServer
  client,       \* "up", "crashed" or "stopped"
  requests,     \* the keys of goal_requests, cancel_requests and result_requests
  goals,        \* state.goals: the request whose feedback_callback is kept for a UUID, or NoReq
  batch,        \* the {:new_*, n} message being handled: its kind and the takes left
  \* its timers and its mailbox
  timer,        \* of each request: "none", "set", or "fired" (its message is in the mailbox)
  events,       \* {:new_*, n} messages, per kind, in order
  \* the middleware and the action server
  sent,         \* messages that have left their sender
  answer,       \* what the server answered to each request
  queue,        \* responses and feedback not taken yet, per kind
  unread,       \* how many of them no event has announced
  \* the application
  tasks,        \* callbacks started as a Task that have not run yet: <<message, argument>>
  heard         \* the callbacks that ran, per message

vars == <<client, requests, goals, batch, timer, events, sent, answer, queue, unread, tasks, heard>>

Idle == [kind |-> "idle", left |-> 0]
Free == client = "up" /\ batch = Idle        \* the server takes its next message

Answers(r) == IF r \in GoalReqs THEN {"accepted", "rejected"} ELSE {"answered"}

Init ==
  /\ client = "up" /\ requests = {} /\ goals = [g \in Goals |-> NoReq] /\ batch = Idle
  /\ timer = [r \in Reqs |-> "none"] /\ events = [k \in Kinds |-> <<>>]
  /\ sent = {} /\ answer = [r \in Reqs |-> "none"]
  /\ queue = [k \in Kinds |-> <<>>] /\ unread = [k \in Kinds |-> 0]
  /\ tasks = {} /\ heard = [m \in Messages |-> <<>>]

----------------------------------------------------------------------------
(* The application and the outside *)

\* handle_call of send_goal_async, cancel_goal_async and get_result_async.
Request(r) ==
  /\ Free
  /\ r \notin sent
  /\ sent' = sent \cup {r}
  /\ timer' = [timer EXCEPT ![r] = "set"]
  /\ requests' = requests \cup {r}
  /\ UNCHANGED <<client, goals, batch, events, answer, queue, unread, tasks, heard>>

\* A queue that is full drops its oldest element.
Enqueue(k, m) ==
  /\ queue' = [queue EXCEPT ![k] = IF Len(@) < QueueDepth THEN Append(@, m) ELSE Append(Tail(@), m)]
  /\ unread' = [unread EXCEPT ![k] = @ + 1]

ServerAnswers(r, a) ==
  /\ r \in sent /\ answer[r] = "none"
  /\ a \in Answers(r)
  /\ answer' = [answer EXCEPT ![r] = a]
  /\ Enqueue(Kind(r), r)
  /\ UNCHANGED <<client, requests, goals, batch, timer, events, sent, tasks, heard>>

\* The server publishes feedback of goals it has accepted, of other clients' goals too; nothing
\* keeps it from arriving before the goal response.
ServerPublishes(f) ==
  /\ f \notin sent
  /\ sent' = sent \cup {f}
  /\ Enqueue("feedback", f)
  /\ UNCHANGED <<client, requests, goals, batch, timer, events, answer, tasks, heard>>

\* The on_new_* callback of the NIF: no message when the process is gone.
Notify(k) ==
  /\ client = "up"
  /\ unread[k] > 0
  /\ events' = [events EXCEPT ![k] = Append(@, unread[k])]
  /\ unread' = [unread EXCEPT ![k] = 0]
  /\ UNCHANGED <<client, requests, goals, batch, timer, sent, answer, queue, tasks, heard>>

\* Process.send_after(self(), {:expire_request, kind, sequence}, ...) fires.
TimerFires(r) ==
  /\ client = "up"
  /\ timer[r] = "set"
  /\ timer' = [timer EXCEPT ![r] = "fired"]
  /\ UNCHANGED <<client, requests, goals, batch, events, sent, answer, queue, unread, tasks, heard>>

\* A Task runs its callback; Tasks run in any order and outlive the server.
RunTask(t) ==
  /\ t \in tasks
  /\ tasks' = tasks \ {t}
  /\ heard' = [heard EXCEPT ![t[1]] = Append(@, t[2])]
  /\ UNCHANGED <<client, requests, goals, batch, timer, events, sent, answer, queue, unread>>

----------------------------------------------------------------------------
(* Responses and feedback *)

StartBatch(k) ==
  /\ Free
  /\ events[k] # <<>>
  /\ batch' = [kind |-> k, left |-> Head(events[k])]
  /\ events' = [events EXCEPT ![k] = Tail(@)]
  /\ UNCHANGED <<client, requests, goals, timer, sent, answer, queue, unread, tasks, heard>>

\* One of the n takes of {:new_*, n} is done.
Took == batch' = IF batch.left = 1 THEN Idle ELSE [batch EXCEPT !.left = @ - 1]

Taking(k) == client = "up" /\ batch.kind = k

\* :action_client_take_failed, when the queue dropped what was announced.
TakeFails(k) ==
  /\ Taking(k)
  /\ queue[k] = <<>>
  /\ Took
  /\ UNCHANGED <<client, requests, goals, timer, events, sent, answer, queue, unread, tasks, heard>>

TakeFirst(k) ==
  /\ Taking(k)
  /\ queue[k] # <<>>
  /\ queue' = [queue EXCEPT ![k] = Tail(@)]
  /\ Took

\* Mutant: Map.get instead of Map.pop.
PopKeeps(r) == timer' = [timer EXCEPT ![r] = IF @ = "set" THEN "none" ELSE @] /\ UNCHANGED requests
\* Map.pop and Process.cancel_timer, which leaves a message that was already sent.
Pop(r) ==
  /\ requests' = requests \ {r}
  /\ timer' = [timer EXCEPT ![r] = IF @ = "set" THEN "none" ELSE @]

\* Mutant: every goal response is stored in goals, also a late one of an expired request.
KeepGoalLate(r) == goals' = IF answer[r] = "accepted" THEN [goals EXCEPT ![GoalOf[r]] = r] ELSE goals
KeepGoal(r) ==
  goals' = IF answer[r] = "accepted" /\ r \in requests THEN [goals EXCEPT ![GoalOf[r]] = r] ELSE goals

\* A response whose sequence number is unknown (it expired) is ignored.
TakeResponse(k) ==
  /\ k # "feedback"
  /\ TakeFirst(k)
  /\ LET r == Head(queue[k]) IN
       /\ Pop(r)
       /\ tasks' = IF r \in requests THEN tasks \cup {<<r, answer[r]>>} ELSE tasks
       /\ IF k = "goal" THEN KeepGoal(r) ELSE UNCHANGED goals
  /\ UNCHANGED <<client, events, sent, answer, unread, heard>>

\* Feedback of a goal that is not in goals is dropped.
TakeFeedback ==
  /\ TakeFirst("feedback")
  /\ LET f == Head(queue["feedback"])  r == goals[FeedbackOf[f]] IN
       tasks' = IF r # NoReq THEN tasks \cup {<<f, r>>} ELSE tasks
  /\ UNCHANGED <<client, requests, goals, timer, events, sent, answer, unread, heard>>

----------------------------------------------------------------------------
(* Expiry *)

Expires(r) == Free /\ timer[r] = "fired"

\* Mutant: the expired entry is dropped without a word.
ExpireSilently(r) ==
  /\ Expires(r)
  /\ r \in requests
  /\ requests' = requests \ {r}
  /\ timer' = [timer EXCEPT ![r] = "none"]
  /\ UNCHANGED <<client, goals, batch, events, sent, answer, queue, unread, tasks, heard>>
\* The callback is told of a rejection, or of status or return code -1, in the server itself.
Expire(r) ==
  /\ Expires(r)
  /\ r \in requests
  /\ requests' = requests \ {r}
  /\ timer' = [timer EXCEPT ![r] = "none"]
  /\ heard' = [heard EXCEPT ![r] = Append(@, "expired")]
  /\ UNCHANGED <<client, goals, batch, events, sent, answer, queue, unread, tasks>>

\* The message of a timer that was canceled too late.
ExpireAnswered(r) ==
  /\ Expires(r)
  /\ r \notin requests
  /\ timer' = [timer EXCEPT ![r] = "none"]
  /\ UNCHANGED <<client, requests, goals, batch, events, sent, answer, queue, unread, tasks, heard>>

\* terminate/2: no more events; what the server kept is gone. Tasks are not linked to it.
Down(how) ==
  /\ client' = how
  /\ requests' = {} /\ goals' = [g \in Goals |-> NoReq] /\ batch' = Idle
  /\ timer' = [r \in Reqs |-> "none"] /\ events' = [k \in Kinds |-> <<>>]
  /\ UNCHANGED <<sent, answer, queue, unread, tasks>>

\* try ... rescue catches what the callback raises, not an exit or a throw; a callback that calls
\* this very client exits, as a GenServer cannot call itself.
ExpireCrashes(r) ==
  /\ ExitingCallbacks
  /\ Expires(r)
  /\ r \in requests
  /\ heard' = [heard EXCEPT ![r] = Append(@, "expired")]
  /\ Down("crashed")

Stop == Free /\ Down("stopped") /\ UNCHANGED heard

----------------------------------------------------------------------------
Handlers ==
  \/ \E k \in Kinds : StartBatch(k) \/ TakeFails(k) \/ TakeResponse(k)
  \/ TakeFeedback
  \/ \E r \in Reqs : Expire(r) \/ ExpireAnswered(r) \/ ExpireCrashes(r)

Next ==
  \/ Handlers
  \/ \E r \in Reqs : Request(r) \/ TimerFires(r) \/ \E a \in Answers(r) : ServerAnswers(r, a)
  \/ \E f \in Feedbacks : ServerPublishes(f)
  \/ \E k \in Kinds : Notify(k)
  \/ \E t \in tasks : RunTask(t)
  \/ Stop

\* Messages are handled, timers fire, Tasks run, the middleware announces what it has. Nothing
\* makes the application ask or the server answer.
Fairness ==
  /\ \A k \in Kinds : WF_vars(StartBatch(k)) /\ WF_vars(Notify(k))
  /\ \A k \in Kinds : WF_vars(TakeFails(k) \/ TakeResponse(k))
  /\ WF_vars(TakeFeedback)
  /\ \A r \in Reqs :
       /\ WF_vars(Expire(r) \/ ExpireAnswered(r) \/ ExpireCrashes(r))
       /\ WF_vars(TimerFires(r))
       /\ \A v \in Answers(r) : WF_vars(RunTask(<<r, v>>))

Spec     == Init /\ [][Next]_vars
LiveSpec == Spec /\ Fairness

----------------------------------------------------------------------------
(* Properties *)

\* The state is well typed.
TypeOK ==
  /\ client \in {"up", "crashed", "stopped"}
  /\ requests \subseteq Reqs
  /\ goals \in [Goals -> GoalReqs \cup {NoReq}]
  /\ batch \in {Idle} \cup [kind : Kinds, left : Nat \ {0}]
  /\ timer \in [Reqs -> {"none", "set", "fired"}]
  /\ events \in [Kinds -> Seq(Nat \ {0})]
  /\ sent \subseteq Messages
  /\ answer \in [Reqs -> {"none", "accepted", "rejected", "answered"}]
  /\ queue \in [Kinds -> Seq(Messages)]
  /\ unread \in [Kinds -> Nat]
  /\ tasks \subseteq (Reqs \X {"accepted", "rejected", "answered"}) \cup (Feedbacks \X GoalReqs)
  /\ heard \in [Messages -> Seq({"accepted", "rejected", "answered", "expired"} \cup GoalReqs)]

About(m) == {t \in tasks : t[1] = m}

\* A request calls back at most once, by its response or by its expiry whatever their order
\* (Map.pop in the response handlers and in expire_goal, expire_result, expire_cancel), and a
\* message of feedback at most once.
CalledBackOnce ==
  \A m \in Messages :
    /\ Len(heard[m]) <= 1
    /\ About(m) # {} => heard[m] = <<>>
    /\ \A s, t \in About(m) : s = t

\* While the client lives a request that was made is still kept or has called back: no handler
\* drops an entry silently, in batches of several responses neither.
NothingForgotten ==
  client = "up" => \A r \in sent \cap Reqs : r \in requests <=> (heard[r] = <<>> /\ About(r) = {})

\* Once the accepted callback of a goal has been started with "accepted" the client knows the
\* goal, so that no later feedback is dropped; and it knows no other goal, so that a goal the
\* application was told has failed sends no feedback.
AcceptedGoalsAreKnown ==
  client = "up" =>
    \A g \in Goals :
      goals[g] # NoReq <=>
        \E r \in GoalReqs : GoalOf[r] = g /\ (<<r, "accepted">> \in tasks \/ heard[r] = <<"accepted">>)

\* Every request calls back, however late or never the server answers, unless the client ends
\* (send_after in every handle_call, expire_request).
RequestsEnd == \A r \in Reqs : r \in requests ~> (heard[r] # <<>> \/ client # "up")
=============================================================================
