----------------------------- MODULE ServiceCall -----------------------------
(***************************************************************************)
(* A ROS service between Rclex.Client (lib/rclex/client.ex), a GenServer   *)
(* that sends requests and hands responses to those who asked, and         *)
(* Rclex.Service (lib/rclex/service.ex), a GenServer that runs its callback*)
(* for each request, with the processes that call: blocking ones wait for  *)
(* a message with an optional timeout, asynchronous ones leave a callback. *)
(* An event announces n messages and its handler takes n times, each take  *)
(* an action: between two of them messages come, queues overflow, events   *)
(* are raised, an inline callback runs, and the server may end.            *)
(*                                                                         *)
(* The middleware is external: a queue of requests at the service and one  *)
(* of responses at the client, each with a count of what no event has      *)
(* announced.  A request stands for its sequence number and its reference; *)
(* the response to it is known by it too.                                  *)
(***************************************************************************)
EXTENDS Naturals, Sequences, FiniteSets

CONSTANTS
  Procs,           \* calling processes
  Sync, Async,     \* requests of call_timeout and of call_async
  NoRequest,       \* "no request"
  CallerOf,        \* the process that makes each blocking request, one at a time
  Timed,           \* the blocking requests that have a timeout
  Depth,           \* depth of the middleware's queues (KEEP_LAST)
  Raises,          \* whether the service's callback may raise
  Ends             \* what may end: a subset of Procs \cup {"client", "service"}

Requests == Sync \cup Async

ASSUME CallsAssumption ==
  /\ Sync \cap Async = {} /\ NoRequest \notin Requests /\ CallerOf \in [Sync -> Procs] /\ Timed \subseteq Sync
  /\ Depth \in Nat \ {0} /\ Raises \in BOOLEAN
  /\ Ends \subseteq Procs \cup {"client", "service"}

VARIABLES
  \* the client and its mailbox
  client,        \* "up" or "stopped"
  pending,       \* the keys of state.requests
  mailbox,       \* calls, {:new_response, n} events and {:remove_pending, sequence} casts, in order
  responses,     \* responses not taken yet
  newResponses,  \* how many of them no event has announced
  left,          \* takes left of the {:new_response, n} the client handles
  \* the service
  service,       \* "up" or "stopped"
  inline,        \* inline_callback: the service runs its callback itself
  requests,      \* requests not taken yet
  newRequests,   \* how many of them no event has announced
  events,        \* {:new_request, n} messages
  takes,         \* takes left of the one the service handles
  tasks,         \* requests whose callback, in a Task or inline, has not responded
  \* the callers
  phase,         \* of each request: see Phases
  inbox,         \* responses in the mailbox of a blocking caller: <<its request, the response>>
  callbacks,     \* Tasks of the asynchronous callback: <<its request, the response>>
  heard          \* the responses each request ended with

clientVars  == <<client, pending, mailbox, responses, newResponses, left>>
serviceVars == <<service, inline, requests, newRequests, events, takes, tasks>>
callerVars  == <<phase, inbox, callbacks, heard>>
vars == <<clientVars, serviceVars, callerVars>>

Phases == {"new", "calling", "waiting", "answered", "timeout", "failed", "killed"}

Call(r)   == [is |-> "call", of |-> r, n |-> 0]
RemovePending(r) == [is |-> "remove", of |-> r, n |-> 0]
News(n)   == [is |-> "new_response", of |-> NoRequest, n |-> n]

Init ==
  /\ client = "up" /\ pending = {} /\ mailbox = <<>> /\ responses = <<>> /\ newResponses = 0 /\ left = 0
  /\ service = "up" /\ inline \in BOOLEAN /\ requests = <<>> /\ newRequests = 0 /\ events = <<>> /\ takes = 0
  /\ tasks = {}
  /\ phase = [r \in Requests |-> "new"]
  /\ inbox = {} /\ callbacks = {} /\ heard = [r \in Requests |-> <<>>]

\* A queue that is full drops its oldest element.
Push(queue, x) == IF Len(queue) < Depth THEN Append(queue, x) ELSE Append(Tail(queue), x)

Busy(p) == \E r \in Sync : CallerOf[r] = p /\ phase[r] \in {"calling", "waiting", "killed"}

----------------------------------------------------------------------------
(* Callers *)

\* GenServer.call to the client; {:error, :not_found} when there is none.
Ask(r) ==
  /\ phase[r] = "new"
  /\ r \in Sync => ~Busy(CallerOf[r])
  /\ IF client = "up"
       THEN phase' = [phase EXCEPT ![r] = "calling"] /\ mailbox' = Append(mailbox, Call(r))
       ELSE phase' = [phase EXCEPT ![r] = "failed"] /\ UNCHANGED mailbox
  /\ UNCHANGED <<client, pending, responses, newResponses, left, serviceVars, inbox, callbacks, heard>>

\* Mutant: the receive matches any response.
MineAny(r) == {m \in inbox : CallerOf[m[1]] = CallerOf[r]}
\* receive {:service_response, ^sequence, ^ref, response}.
Mine(r) == {m \in inbox : m[1] = r}

Receive(r) ==
  /\ r \in Sync /\ phase[r] = "waiting"
  /\ \E m \in Mine(r) :
       /\ inbox' = inbox \ {m}
       /\ heard' = [heard EXCEPT ![r] = Append(@, m[2])]
  /\ phase' = [phase EXCEPT ![r] = "answered"]
  /\ UNCHANGED <<clientVars, serviceVars, callbacks>>

\* Mutant: the client keeps the time of its calls.
TimeoutNeedsClient(r) ==
  /\ client = "up"
  /\ r \in Timed /\ phase[r] = "waiting" /\ Mine(r) = {}
  /\ phase' = [phase EXCEPT ![r] = "timeout"]
  /\ pending' = pending \ {r}
  /\ UNCHANGED <<client, mailbox, responses, newResponses, left, serviceVars, inbox, callbacks, heard>>
\* The after clause: {:error, :timeout}, and the client is told to forget the request.
Timeout(r) ==
  /\ r \in Timed /\ phase[r] = "waiting" /\ Mine(r) = {}
  /\ phase' = [phase EXCEPT ![r] = "timeout"]
  /\ mailbox' = IF client = "up" THEN Append(mailbox, RemovePending(r)) ELSE mailbox
  /\ UNCHANGED <<client, pending, responses, newResponses, left, serviceVars, inbox, callbacks, heard>>

\* A caller is killed while it waits. Nothing monitors it.
Killed(p) ==
  /\ p \in Ends
  /\ \E r \in Sync : CallerOf[r] = p /\ phase[r] \in {"calling", "waiting"}
  /\ phase' = [r \in Requests |-> IF r \in Sync /\ CallerOf[r] = p /\ phase[r] \in {"new", "calling", "waiting"}
                                    THEN "killed" ELSE phase[r]]
  /\ inbox' = {m \in inbox : CallerOf[m[1]] # p}
  /\ UNCHANGED <<clientVars, serviceVars, callbacks, heard>>

\* The Task of an asynchronous response.
RunCallback(t) ==
  /\ t \in callbacks
  /\ callbacks' = callbacks \ {t}
  /\ heard' = [heard EXCEPT ![t[1]] = Append(@, t[2])]
  /\ phase' = [phase EXCEPT ![t[1]] = "answered"]
  /\ UNCHANGED <<clientVars, serviceVars, inbox>>

----------------------------------------------------------------------------
(* Rclex.Client *)

\* The client begins with its next message, having ended the handler of the last one.
Handles(is) ==
  /\ client = "up" /\ left = 0
  /\ mailbox # <<>> /\ Head(mailbox).is = is /\ mailbox' = Tail(mailbox)

\* handle_call({:call, ...}): the request goes to the service, if there is one, and is kept.
HandleCall ==
  /\ Handles("call")
  /\ LET r == Head(mailbox).of IN
       /\ pending' = pending \cup {r}
       /\ phase' = [phase EXCEPT ![r] = IF @ = "calling" THEN "waiting" ELSE @]
       /\ IF service = "up" THEN requests' = Push(requests, r) /\ newRequests' = newRequests + 1
                            ELSE UNCHANGED <<requests, newRequests>>
  /\ UNCHANGED <<client, responses, newResponses, left, service, inline, events, takes, tasks, inbox, callbacks, heard>>

\* handle_cast({:remove_pending, sequence}).
HandleRemove ==
  /\ Handles("remove")
  /\ pending' = pending \ {Head(mailbox).of}
  /\ UNCHANGED <<client, responses, newResponses, left, serviceVars, callerVars>>

\* The NIF's callback tells how many responses have come since the last time.
ClientNotified ==
  /\ client = "up" /\ newResponses > 0
  /\ mailbox' = Append(mailbox, News(newResponses))
  /\ newResponses' = 0
  /\ UNCHANGED <<client, pending, responses, left, serviceVars, callerVars>>

\* {:new_response, n}: n takes in a row.
HandleResponses ==
  /\ Handles("new_response")
  /\ left' = Head(mailbox).n
  /\ UNCHANGED <<client, pending, responses, newResponses, serviceVars, callerVars>>

\* A response goes to the one whose request is kept (Map.pop), otherwise nowhere.
TakeResponse ==
  /\ client = "up" /\ left > 0 /\ responses # <<>>
  /\ left' = left - 1 /\ responses' = Tail(responses)
  /\ LET r == Head(responses) IN
       /\ pending' = pending \ {r}
       /\ inbox' = inbox \cup {<<q, q>> : q \in {r} \cap pending \cap {s \in Sync : phase[s] # "killed"}}
       /\ callbacks' = callbacks \cup {<<q, q>> : q \in {r} \cap pending \cap Async}
  /\ UNCHANGED <<client, mailbox, newResponses, serviceVars, phase, heard>>

\* :client_take_failed: the queue dropped the response, or an earlier take had it.
ResponseTakeFails ==
  /\ client = "up" /\ left > 0 /\ responses = <<>>
  /\ left' = left - 1
  /\ UNCHANGED <<client, pending, mailbox, responses, newResponses, serviceVars, callerVars>>

\* stop_client, or a take that raises: calls in the mailbox exit, a caller that waits is told nothing.
ClientStops ==
  /\ "client" \in Ends /\ client = "up"
  /\ client' = "stopped"
  /\ pending' = {} /\ mailbox' = <<>> /\ responses' = <<>> /\ newResponses' = 0 /\ left' = 0
  /\ phase' = [r \in Requests |-> IF phase[r] = "calling" THEN "failed" ELSE phase[r]]
  /\ UNCHANGED <<serviceVars, inbox, callbacks, heard>>

----------------------------------------------------------------------------
(* Rclex.Service *)

\* The NIF's callback tells how many requests have come since the last time.
ServiceNotified ==
  /\ service = "up" /\ newRequests > 0
  /\ events' = Append(events, newRequests)
  /\ newRequests' = 0
  /\ UNCHANGED <<clientVars, service, inline, requests, takes, tasks, callerVars>>

\* rcl_send_response: it reaches the queue of a client that is there.
Respond(rs) ==
  IF client = "up"
    THEN /\ responses' = Push(responses, rs)
         /\ newResponses' = newResponses + 1
    ELSE UNCHANGED <<responses, newResponses>>

\* With inline_callback the service runs the callback itself, before its next take and message.
Idle == service = "up" /\ (inline => tasks = {})

\* Mutant: an event is taken for one request.
HandleRequestsOnce ==
  /\ Idle /\ takes = 0 /\ events # <<>>
  /\ events' = Tail(events) /\ takes' = 1
  /\ UNCHANGED <<clientVars, service, inline, requests, newRequests, tasks, callerVars>>
\* {:new_request, n}: n takes in a row.
HandleRequests ==
  /\ Idle /\ takes = 0 /\ events # <<>>
  /\ events' = Tail(events) /\ takes' = Head(events)
  /\ UNCHANGED <<clientVars, service, inline, requests, newRequests, tasks, callerVars>>

\* A request is dispatched: its callback runs in a Task, or here.
TakeRequest ==
  /\ Idle /\ takes > 0 /\ requests # <<>>
  /\ takes' = takes - 1 /\ requests' = Tail(requests)
  /\ tasks' = tasks \cup {Head(requests)}
  /\ UNCHANGED <<clientVars, service, inline, newRequests, events, callerVars>>

\* :service_take_failed.
RequestTakeFails ==
  /\ Idle /\ takes > 0 /\ requests = <<>>
  /\ takes' = takes - 1
  /\ UNCHANGED <<clientVars, service, inline, requests, newRequests, events, tasks, callerVars>>

\* The callback returns and the response is sent; the NIF refuses a service that is gone.
Responds(r) ==
  /\ r \in tasks
  /\ tasks' = tasks \ {r}
  /\ IF service = "up" THEN Respond(r) ELSE UNCHANGED <<responses, newResponses>>
  /\ UNCHANGED <<client, pending, mailbox, left, service, inline, requests, newRequests, events, takes, callerVars>>

\* The callback raises: the request gets no response.
CallbackRaises(r) ==
  /\ Raises
  /\ r \in tasks
  /\ tasks' = tasks \ {r}
  /\ UNCHANGED <<clientVars, service, inline, requests, newRequests, events, takes, callerVars>>

\* stop_service, a take that raises, or the supervisor's kill of one that is busy for too long: an
\* inline callback under way ends with the service, a Task goes on.
ServiceStops ==
  /\ "service" \in Ends /\ service = "up"
  /\ service' = "stopped"
  /\ requests' = <<>> /\ newRequests' = 0 /\ events' = <<>> /\ takes' = 0
  /\ tasks' = IF inline THEN {} ELSE tasks
  /\ UNCHANGED <<clientVars, inline, callerVars>>

----------------------------------------------------------------------------
Next ==
  \/ \E r \in Requests : Ask(r) \/ Receive(r) \/ Timeout(r) \/ Responds(r) \/ CallbackRaises(r)
  \/ \E p \in Procs : Killed(p)
  \/ \E t \in callbacks : RunCallback(t)
  \/ HandleCall \/ HandleRemove \/ HandleResponses \/ TakeResponse \/ ResponseTakeFails
  \/ ClientNotified \/ ClientStops
  \/ HandleRequests \/ TakeRequest \/ RequestTakeFails \/ ServiceNotified \/ ServiceStops

\* Both servers handle their messages to the end, callbacks end, timers run out, callers receive
\* what is theirs, the middleware announces what it has. Nobody has to ask.
Fairness ==
  /\ WF_vars(HandleCall) /\ WF_vars(HandleRemove) /\ WF_vars(HandleResponses)
  /\ WF_vars(TakeResponse) /\ WF_vars(ResponseTakeFails) /\ WF_vars(ClientNotified)
  /\ WF_vars(HandleRequests) /\ WF_vars(TakeRequest) /\ WF_vars(RequestTakeFails) /\ WF_vars(ServiceNotified)
  /\ \A r \in Requests : WF_vars(Receive(r)) /\ WF_vars(Timeout(r)) /\ WF_vars(Responds(r) \/ CallbackRaises(r))
  /\ \A r, s \in Async : WF_vars(RunCallback(<<r, s>>))

Spec     == Init /\ [][Next]_vars
LiveSpec == Spec /\ Fairness

----------------------------------------------------------------------------
(* Properties *)

\* The state is well typed.
TypeOK ==
  /\ client \in {"up", "stopped"} /\ service \in {"up", "stopped"} /\ inline \in BOOLEAN
  /\ pending \subseteq Requests /\ tasks \subseteq Requests
  /\ mailbox \in Seq([is : {"call", "remove", "new_response"}, of : Requests \cup {NoRequest}, n : Nat])
  /\ responses \in Seq(Requests) /\ requests \in Seq(Requests)
  /\ newResponses \in Nat /\ left \in Nat /\ newRequests \in Nat /\ takes \in Nat /\ events \in Seq(Nat \ {0})
  /\ phase \in [Requests -> Phases]
  /\ inbox \subseteq Sync \X Requests /\ callbacks \subseteq Async \X Requests
  /\ heard \in [Requests -> Seq(Requests)]

\* A blocking call returns the response to its own request, never a late one to an earlier
\* request of the same process (the pinned sequence and reference), and an asynchronous callback
\* runs at most once for its request.
OwnAnswerOnce == \A r \in Requests : heard[r] \in {<<>>, <<r>>}

\* What the client keeps is a call that still waits for its response, one whose remove_pending
\* is on its way ("remove pending so memory does not leak", client.ex:84), or one of a caller that
\* was killed: a timeout and a response that cross in the mailbox leave no entry.
CallsAreDropped ==
  \A r \in pending \cap Sync :
    phase[r] \in {"waiting", "killed"} \/ \E i \in DOMAIN mailbox : mailbox[i] = RemovePending(r)

Sum(counts) ==
  LET sum[i \in 0 .. Len(counts)] == IF i = 0 THEN 0 ELSE sum[i - 1] + counts[i]
  IN  sum[Len(counts)]

Counts == [i \in DOMAIN mailbox |-> mailbox[i].n]

\* However events and takes are grouped, whatever queues drop and however long an inline callback
\* keeps the service between two takes: what lies in the client's queue is about to be taken by the
\* handler under way or announced, in an event or by the count that will raise one, and so is what
\* lies in the service's.
QueuesAreAnnounced ==
  /\ Len(responses) <= newResponses + Sum(Counts) + left
  /\ Len(requests) <= newRequests + Sum(events) + takes

\* Nothing is left behind: no entry of a call that has ended, and nothing in a queue that nobody
\* will take (handle_call, remove_pending and handle_info of client.ex, handle_info of service.ex).
NothingLeftBehind == CallsAreDropped /\ QueuesAreAnnounced

\* A call with a timeout returns, whatever ends: the client, the service or its callback.
TimedCallsReturn ==
  \A r \in Timed : phase[r] \in {"calling", "waiting"} ~> phase[r] \in {"answered", "timeout", "failed", "killed"}
=============================================================================
