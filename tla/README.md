# A TLA+ model of Rclex

Rclex is a ROS 2 client library for Elixir: GenServers around `rcl`, the C client library, reached through
NIFs. This directory holds TLA+ modules translated from its source, configurations that check them with TLC,
and theorems about them checked with TLAPS. Paths below are relative to the repository.

## 1. The system

    client of Rclex ──call──> GenServer (one per entity) ──NIF──> rcl / middleware
                                   ^        │ start_child / async_nolink
      rcl wait thread (rcl_wait.c) │        v
      {:new_..., n} messages ──────┘      Task (user callbacks) ──call/message──> the GenServer

Every entity is a GenServer that owns one native handle. Native events arrive as messages from a wait thread;
user callbacks run in Tasks, except those of `ParameterServer` and `LifecycleNode`, which run inside the
server. What is hard is the order of these messages and the death of one of the processes.

| Component | State | Operations | Hard behaviour | What makes it correct |
|---|---|---|---|---|
| `ActionServer` | `goals` map, per goal: handle, status, result, waiting requests, Task | goal, cancel, result batches; `execute_goal`; Task result, Task death; goal expiry; status topic | batches against Tasks; results asked for early, late, after expiry; cancel against completion | map, rcl handles, Tasks and topic agree; one answer per result request, and the true one |
| `Tf2` + `Tf2.Cleanup` | ETS table of buffers, pending lookups, transports; what Cleanup retains of both | create, destroy, lookup, cancel, timeout, insert, start and stop of transports | both processes may die at any point; the answer is delivered by either | one answer per lookup, none after a cancel, no leaked native buffer, no lost wakeup |
| `ActionClient` | request maps by sequence number, goals | send goal, cancel, result; responses; feedback; status; expiry timers | response against expiry | one callback per request |
| `Client`, `Service` | pending calls by sequence number | call, response, timeout; request, reply | response against timeout | a reply reaches the call it answers |
| `Subscription` | handle and take mode | coalesced notifications, take, dispatch | several notifications at once | delivery in order, nothing kept back |
| Node stack (`NodeResourceOwner`, `NodeSupervisor`, `Node`, `EntitiesSupervisor`, `Context`) | native node, wait threads, borrower | start, stop, restart | `one_for_all` restart order | no use of a finalised handle |
| `GraphMonitor` | last snapshot, waiting callbacks | graph change, `on_entity` | a snapshot is several queries | a callback fires once, for an entity that is there |
| `ParameterServer`, `ParameterClient`, `ParameterEventHandler` | parameters, descriptors, three callback lists | declare, set (one by one, atomically), list, describe | reads that span several calls; callbacks inside the server | atomic sets are all or nothing; events tell what changed |
| `LifecycleNode` | primary state, user state | change state, get state | callbacks that fail after the event | only allowed moves |
| `Clock` | override, bound tf2 buffers | override, register | jumps of time | a jump clears every bound buffer |
| `RobotStatePublisher` | joint tree, last stamps | joint states | start-up deadline, stamps | stamps never go back |
| The NIFs (`src/*.c`, `src/tf2_buffer.cpp`) | native handles, callback resources, blocks of memory | one C function per NIF | error paths, a handle that another process finalised | nothing leaks, nothing is touched after its release |
| `QoS` (`src/qos.c`) | none | Elixir map to rmw profile and back | doubles against seconds and nanoseconds | a profile survives the round trip |
| `Publisher`, `Timer`, type description, `Time`, `Duration`, URDF, generators, mix tasks | little or none | | | |

`PROJECT.json` lists all components with their status, and the hazards of the code at their lines.

## 2. The modules

### ActionServer (`lib/rclex/action_server.ex`, `src/rcl_action_server.c`)

`ActionServer.tla` is one GenServer with its surroundings. A *batch* is the handling of one message
`{:new_*_request, n}`, which takes up to `n` requests from the middleware; as another Task, client or timer
may act between two takes, each take is an action (`TakeGoal`, `TakeCancel`, `TakeResult`), and so is the end
of the batch (`EndBatch`), where the new goals enter `state.goals`. `job` is the batch under way. The rest of a
handler is one action: `ExecuteGoal`, `HandleTaskResult`, `HandleTaskDown` and so on.

- `goals`, `result_response`, `waiting`, `task` are the fields of `state.goals`; `handle` is the goal state
  machine inside rcl; `status_topic` is what `publish_status` sent last.
- A crash is `server = "crashed"`. When the `rescue` of the cancel batch puts `:ok` in place of the goals map
  the server is `"poisoned"`: alive, with a state most handlers cannot use.
- `phase` and `replies` are the clients: each request is sent once and counts the responses it gets.

`ActionProtocol.tla` is what a client may rely on: goals move along the ROS 2 goal life cycle, and a result
response tells the outcome the goal had. `ImplementsProtocol` maps the server to it; the mapping hides the
maps, the Tasks and the topic.

### Tf2Registry (`lib/rclex/tf2.ex`, `lib/rclex/tf2/cleanup.ex`, `src/tf2_buffer.cpp`)

The registry and Cleanup are two GenServers; the registry calls Cleanup synchronously inside its own
handlers. So a handler is cut at each call: `pc` says at which call the registry waits, `call` and `reply`
are the single message under way (the registry has at most one), and `arg`, `todo`, `verdict` are the
handler's local variables. Each clause of Cleanup's `handle_call` is one action. The ETS table (`table`), the
lookups (`pending`), Cleanup's `buffers` and `kept`, and the native resources (`native`, `content`) are
separate, so a death loses exactly what belongs to the dead process. Callers ask, cancel, die; writers insert
transforms and cast `{:new_transform, _}`; the casts may be lost with a registry that dies.

A killed process runs no `terminate/2`; a crashed or stopped one does. Cleanup's shutdown and restart, and
the restart of the registry, follow `lib/rclex/application.ex`.

### ActionClient (`lib/rclex/action_client.ex`, `src/rcl_action_client.c`)

One GenServer with its timers, its Tasks and the middleware's queues. `requests` is the union of the key sets of
`goal_requests`, `result_requests` and `cancel_requests`: a request stands for its sequence number. A batch is
cut at each take, as in `ActionServer`. `timer` tells the three states of an expiry: set, or its message in the
mailbox, or neither; `Process.cancel_timer` in `Pop` stops the first and not the second. `heard` is what the
application was told, with "expired" for a call made by the expiry. The action server is external: it answers
any request at any later time, or never. A send that raises ends the process, which loses what `Stop` loses.

### ServiceCall (`lib/rclex/client.ex`, `lib/rclex/service.ex`, `src/rcl_client.c`, `src/rcl_service.c`)

Callers, client and service with a queue of requests and one of responses between them. A `call_timeout` is
`Ask`, `HandleCall`, then `Receive` or `Timeout` in the calling process; the timeout casts `remove_pending`,
which crosses with responses in the client's `mailbox`. `inbox` is the caller's mailbox, where a late response
stays. An event announces `n` messages and its handler takes `n` times; each take is an action of its own, in the
client (`left` takes to go) and in the service (`takes`), as messages come, queues drop their oldest and events are
raised between two of them. With `inline` (chosen at the start) the service runs its callback before its next take
(`Idle`), however long that lasts; otherwise a Task does. Either end may stop in the middle of a batch, by a take that
raises or a supervisor that loses patience; an inline callback ends with its service.

### ParameterServer (`lib/rclex/parameter_server.ex`, `lib/rclex/parameter_helpers.ex`)

One `handle_call` is one action, callbacks and event included. A parameter value is a type and a raw Elixir
value: `Label` is what `gen_parameter_value_struct/2` does, so that a value may be labelled with a type it does
not have, and `Sound` says which values the generated encoder takes. `mirror` is an observer of
`/parameter_events`, `told` the last call of the post-set callback for each parameter, `last` the last call of
a list with its reply: the list asked for, the list that conversion and the pre-set callbacks made of it, and the
results. `ResultsTell` compares the results with what was set of the second, for every kind of set, and the second with
the first where no pre-set callback is registered. Of a descriptor only the type is kept, with the marks `ReadOnly` and `Dynamic`; several
callbacks of one kind are one, whose output or refusal is any of a set.

A list may name a parameter twice in the modules and in the proofs; in the run the atomic lists do not, for
the reason of item 6 in section 6.

### NativeCalls, NifPaths, QosProfile (`src/*.c`, `src/tf2_buffer.cpp`)

The C code is sequential and its difficulty is on its error paths, so `NativeCalls.tla` writes each NIF as data:
a sequence of steps, and of each step what it checks, dereferences, makes and ends, which failures it has, and
what such a failure releases before it returns. What exists is a set of *tokens*: native handles, resource
terms, references to callback resources, callbacks registered with rcl, blocks of memory of the call. Two modules
interpret the data. `NifPaths` runs one call along all its paths, with any of its handles already finalised by
another process. `NodeStack` runs the calls of several processes step by step against each other.

A reference count is a set of references by name (`alloc`, `keep`, `term`). A callback resource keeps the
reference of its allocation for ever: `set_callback` never releases it. `Leaky` names the NIFs whose error
paths forget something (section 6, item 12): they are in the model as they are in the code, and excepted in
`LeavesNothing` for the paths that raise. `Careful` is the discipline the NIFs are written by, read off a text without
running it: what may and what must exist before each step if none has failed (`May`, `Must`), that each step uses only
what must exist, and that each failure releases, next to it or in the clean-ups that follow, what no term or answer
keeps. `CallIsCareful` says that every NIF is written so; section 4 says why that is enough. The NIFs of tf2 answer a destroyed buffer with an error rather than an
exception, and hold its mutex from the check to the end: check and use are one step (`with_buffer`).

`QosProfile.tla` is the arithmetic of `src/qos.c`: a double is an integer in units of `2^-Fraction` of which
`Mantissa` bits are significant, `ToDouble` rounds to nearest and even three times as the C expression does,
`FromDouble` is `modf` and a truncation, and `depth` is cut to an `unsigned int`. `NsPerSec`, `Mantissa` and
`UIntMax` are parameters, in the program 10^9, 53 and 2^32 - 1.

### NodeStack (`lib/rclex/node_supervisor.ex`, `node_resource_owner.ex`, `node.ex`, `entities_supervisor.ex`, `context.ex`, entities, `src/rcl_wait.c`)

Processes of one node with the steps of NIFs they have still to run (`todo`), `held` the tokens that exist, `stage`
where the `one_for_all` supervisor is in its start, teardown or restart. A dirty NIF whose process is killed
goes on as a `ghost`; a service callback's Task still calls `rcl_send_response` (`task`); the wait thread
ends between two waits, on its exit condition or a failing wait. `damaged` remembers who was killed or had a
failing rcl call: they leave handles behind, which is excepted. `late` remembers who touched what
had been finalised. The processes `graph_monitor`, parameter server and type description hold no handle of
their own kind and are left out; a subscription behaves as a service without a Task and is in the module, though
not in the run.

### GraphMonitor (`lib/rclex/graph_monitor.ex`, `graph.ex`, `node.ex`, `node_resource_owner.ex`, `src/rcl_wait.c`)

The chain from rmw's guard condition over the wait thread, the owner, the Node and a cast to the monitor, each
mailbox a variable, since a change must not be lost at any of them. A snapshot is read in four calls
(`Fetch`), between which the graph may change. `pending` are the callers of `on_entity`; `told` sums up the
telemetry of joins and leaves; `fired` counts the callbacks.

### Subscription (`lib/rclex/subscription.ex`, `src/rcl_subscription.c`)

The three modes of one server: `inline` takes and calls one by one, `latest` drains the announcements and
calls with the last message taken, `tasks` takes a batch and streams it through at most `Concurrency` Tasks.
An announcement says how many messages came since the last one, the queue drops its oldest, so takes run ahead
of and behind the announcements. `taken` has the last message first, as `take_one` prepends.

### Module graph

    ActionProtocol <-- ActionServer <-- MCActionServer        (INSTANCE of ActionProtocol: ImplementsProtocol)
                            ^---------- ActionServerProofs
    Tf2Registry     <-- MCTf2Registry,     Tf2RegistryProofs
    ActionClient    <-- MCActionClient,    ActionClientProofs
    ServiceCall     <-- MCServiceCall,     ServiceCallProofs
    ParameterServer <-- MCParameterServer, ParameterServerProofs
    GraphMonitor    <-- MCGraphMonitor,    GraphMonitorProofs
    Subscription    <-- SubscriptionProofs                    (checked by itself, the cfgs need no definitions)
    NativeCalls <-- NifPaths <-- MCNifPaths                   (NifPaths also extends QosProfile)
         ^--------- NodeStack <-- MCNodeStack, NodeStackProofs  (the latter is also of NifPaths)

## 3. What is checked

| Run | Bounds | Shows |
|---|---|---|
| `action_server` | two goals, a request each, a cancel for both, one result request; one goal deferred, one `execute_goal` by the application; raising callbacks, vanishing clients; fairness | map, handles, Tasks, waiting requests and topic agree; the protocol is implemented; accepted goals end, result requests get answers |
| `action_server_cancel_queued` | one deferred goal | *violated*: section 6, item 1 |
| `tf2_registry` | two lookups of two processes, one buffer key, two native buffers, two transforms, one death of the registry | one answer, silence after a cancel, nothing leaked, no lost wakeup |
| `tf2_dies` | one lookup, two deaths of the registry, one of Cleanup (killed or crashed); fairness | an accepted lookup ends unless both die |
| `action_client` | one UUID in two requests, a cancel, a feedback message; queues of depth 1; callbacks that exit; fairness | one callback per request, none forgotten; accepted goals are known; every request calls back unless the client ends |
| `parameters` | three parameters, two with dynamic typing, one of them read-only; three values of two types; lists set one by one, atomically and by the application; three outputs of the pre-set callback; callbacks that exit | events, values, types, callbacks and replies agree |
| `service_call` | three blocking calls of two processes, one with a timeout, one asynchronous; Tasks or inline; queues of depth 2; raising callbacks; a killed caller; either end may stop; fairness | own answers only, nothing left behind in the client or in a queue; a call with a timeout returns |
| `native_calls` | every NIF, every path, any of its handles finalised before; QoS profiles with doubles of 8 bits and seconds of 10 parts | nothing is left, nothing is used after its release, the text of each NIF keeps the discipline, a profile survives |
| `graph_monitor` | a node and a topic with either of two types, a watch of the topic, three changes, one death of the stack; fairness | a callback once, telemetry that adds up; the monitor converges and serves who waits |
| `node_stack` | a service and a timer, two generations, one failing rcl call or wait, one kill; fairness | handles outlive what stands on them, no late use, generations do not overlap, stops end |
| `subscription` | six messages, a queue of three, each mode, two callbacks at a time, failing takes, stop at any point; fairness | each message once, in order where the server calls, nothing waits unnoticed, the newest always |
| `subscription_order` | three messages, one callback at a time | *violated*: section 6, item 2 |

Why the bounds are enough. The action server keeps nothing that relates two goals except the batch, the
Cleanup lists and the expiry of the oldest handle; two goals meet in each, one executed by its accepted callback
and one later. A second result request would repeat the first; that several requests may name one goal or one
request several is covered by the theorems, for any sets. In tf2, two lookups differ in caller and transform,
so each of "one canceled, one answered", "one answered by the dying registry, one by Cleanup" occurs; a buffer
key is reused with a second native buffer, and the restart gives two generations of the registry, three in `tf2_dies`. In the action client requests
of different kinds share only the process; two requests for one UUID share `goals`, and a queue of depth 1 that
overflows gives an event with fewer responses than it says; a result request is handled as a cancel request is.
In a service call the first process calls twice,
so that a late response meets its next call; the other process and the asynchronous call share the queues, which four
requests overflow, also while an inline callback keeps the service between two takes. In
the parameter server entries of a list meet only through their names: the lists have valid and invalid entries
in either order, of one name and of two. The NIFs share nothing between two calls but the handles, which
`native_calls` takes away beforehand in all combinations and `node_stack` in all interleavings; an 8-bit double
with a second of 10 parts has durations that are exact, that round and that are too long, as 53 bits and 10^9
have. In the graph three changes let an entity come, go and come back, or change its types between two reads of
one snapshot. Two generations of a node are an old one and its replacement; entities do not touch each other,
so a service (callback, Task) and a timer (three handles of its own, dirty waits) stand for all kinds. Six
messages overflow a queue of three twice over, between announcements as well as within one.

`CHECK_DEADLOCK FALSE` is set because each bounded instance stops when its requests are used up or the server
has ended, which is a proper end.

**Fairness.** Weak fairness is assumed for what the BEAM scheduler and the timers do: a process with a message
handles one, a Task that has started runs its callback and ends or raises (for user callbacks this is an
assumption on the application), a supervisor restarts a child, a monitor delivers `:DOWN`, a wait timer fires.
It is *not* assumed that clients send requests, that anyone cancels or dies, that transforms arrive, or that
the application calls `execute_goal`. `AcceptedGoalEnds` is therefore about goals whose accepted callback
executes them. In `ActionClient` nothing makes the action server answer; in `ServiceCall` nobody has to ask, a
batch goes on to its last take, and an inline or Task callback ends by returning or by raising. In `GraphMonitor` processes run and `rcl_wait`
returns a triggered condition; the graph need not change. In `NodeStack` NIFs return, a supervisor goes through
its mailbox and the wait thread returns a triggered exit condition; the one strong fairness, of `ShutDown`,
says that an entity which is idle again and again takes its shutdown message in turn with the others in its
mailbox. In `Subscription` the middleware announces what it has, the server goes on with its handler and
callbacks end; nobody has to publish.

## 4. What is proved

All theorems hold for every value of the constants that meets the named assumptions of the modules: any sets of
goals, requests, processes, parameters, lists, entities, any depth of a queue, any number of restarts, failures and
kills. None of the invariants is
inductive alone; each proof module states its inductive `IInv` (`Inv` in `GraphMonitorProofs` and
`Tf2RegistryProofs`), proves that `Init` has it and that every action keeps it, and concludes by one temporal
step. The lemmas go by action, except in `Tf2RegistryProofs`, where the invariant has many parts that few actions
touch: there they go by part, with a case for each group of actions.

| Module | Theorems | What the inductive invariant adds |
|---|---|---|
| `ActionServerProofs` | `TypeCorrect`, `GoalsAgree`, `WaitersAreServed`, `TasksFindGoal`, `StatusIsPublished` | that a stored response matches the rcl handle needs that a Task exists only for a goal in the map; that needs that the `fresh` goals of a batch have handles and no Task (`BatchOK`); and all need that a server which is down keeps nothing |
| the same module | `Implements`: `Spec => ImplementsProtocol` | uses the above at every step: that a goal is concluded only while `executing`, and that those told the outcome had no answer, is in no guard |
| `Tf2RegistryProofs` | `TypeCorrect`, `NoWakeupIsLost`, `SilenceAfterCancel`, `SameLookupsOnBothLists`; `BothListsAgree`; `OneAnswer`, `NobodyIsForgotten` | `Inv`, without any assumption: the reply under way fits the call (`Typed`), a lookup is in one place at each `pc` (`OpOf`, `Owned`), what was served or canceled is over (`Served`, `Canceled`), a waiter whose transform came is about to be told (`Wakeups`). `BuffersInv`: who is between the two lists of buffers, and why. `AnswersInv`: who may still answer a lookup (`NotYetAnswered`) |
| `ActionClientProofs` | `OneCallback`, `NoneForgotten`, `AcceptedAreKept` | a request that has called back is in no map, a feedback message is in one place at a time |
| `ServiceCallProofs` | `OwnAnswers`, `NothingIsLeft` | `Progress`: how far a request is, against where its messages are; `HeardIsOver`; `EntriesEnd`: an entry with nobody waiting has its `remove_pending` on the way; `Announced`: a queue is no longer than its unannounced count plus the sum of the events in the mailbox plus the takes left of the batch under way |
| `ParameterServerProofs` | `EventsAreComplete`, `StoredStaySound`, `DeclarationsAlwaysHold`, `ResultsAlwaysTell`; `ToldStaysCurrent` | every set that succeeds puts a list of accepted entries, whichever way it came; the action properties follow step by step, `FromAsked` telling a converted list from one that was rewritten. `ToldInv`: nothing counts as told while no post-set callback is registered |
| `GraphMonitorProofs` | `CalledBackOnce`, `TelemetryTellsSnapshot`, `PendingIsAbsent` | who waits is absent from the snapshot, so comparing two snapshots is enough; who waits has not been called |
| `SubscriptionProofs` | `MessagesOnce`; `NothingWaitsUnnoticed` | the queue is newer than what is taken, that newer than what was heard; the handler's step fits the mode. `NoticeInv`: in the modes that count the queue is no longer than the unread count, the takes left and the events together announce (`Behind` counts the events from the back, so that no sum over a sequence is needed); in `latest` a pass is under way or to come |
| `NodeStackProofs` | `HandlesAlwaysStand`, `UsesAreAlwaysLive`, `GenerationsStayApart` | of every process: what it has still to run leads from the tokens it has to those it must have next (`Proper`); which process lives in which stage (`Phases`); what dead owners left (`Ownership`); that the NIF of a killed process touches only what was the process's own (`GhostApart`) |
| the same module, of `NifPaths` | `NoneUsedLate`, `CallsLeaveNothing` | before the first failure what exists is what the text says (`OnTheWay`), afterwards it is what the failed step left less what the clean-ups have ended (`CleaningUp`) |

The argument of `NodeStackProofs`. The calls a process makes are data, sequences of the steps of `NativeCalls`, so
most of its lemmas are about sequences of steps and not about transitions. `Runs(D, N, o, X, B, H, G)` says that the
steps `N` of holder `o`, who has the tokens `H` and may rely on the tokens `X` of others, end with `G`: there is a trace
of sets of tokens from `H` to `G`, on which every step finds what it uses, makes and ends tokens of `o` only and, unless
`o` is in `D` (was killed, or an rcl call of it failed), also finds what it checks and leaves a set in `B`. Each NIF has
a lemma of this form, put together from those about its steps; they compose (`RunsBoth`) and survive the removal of
steps that touch nothing of interest (`RunsSkip`, `TouchingRuns`). `B` is `Standing` for a process that starts or stops
and `Serving` for one that works. A step of the model takes the head of such a sequence, the next sequence begins where
the last one ends (`InitLeads`, `ContinueLeads`, `WorkLeads`, `EndsLeads`), and what a process relies on is held because
those it stands on live longer (`ExternalHeld`, by `Phases`). The three theorems follow from that state by state. The
invariant quantifies over traces, which TLC cannot enumerate, so it is only proved; what follows from it is checked.

`PROJECT.json` tells which property of which run each theorem states. Six theorems have an assumption on the
constants of their own, and each is what the code needs, not what the proof does:

- `OneAnswer` and `NobodyIsForgotten` assume `MaxCleanupDeaths = 0`: with a crash of Cleanup `AnsweredOnce` fails
  (section 6, item 5), and its lookups die with it.
- `BothListsAgree` assumes that Cleanup is not killed (`NoKills`), though it may crash: who is killed destroys no
  buffers. Without the assumption the two lists still name the same lookups (`SameLookupsOnBothLists`).
- `ToldStaysCurrent` assumes that no atomic list names a parameter twice (`OnceEach`), because
  `apply_parameter_updates` tells its changes in reverse. The lists of `set_parameters` may.
- `NoneUsedLate` and `CallsLeaveNothing` assume that the NIFs are written with discipline (`Disciplined`). TLC
  establishes that for each of them (`CallIsCareful` in `native_calls`), and a NIF whose error path forgets a release,
  or that uses a block after it, breaks it. The theorems conclude from the texts to every path: any failures in any
  order of clean-ups, any handles gone, any profiles.

`NothingIsLeft` adds up what the events in a mailbox announce, with a recursive function. The prover cannot use the
induction theorems of the library, which take an operator; the laws of the sum (of an empty sequence, of one that grows
at its end, of one that loses its head) are proved from the least index at which they would fail instead (`Least`,
`SumsExist`, `SumIs`).

Only model-checked: liveness and fairness, which the prover does not handle, and `QosSurvives`: it is about powers of
two and roundings of quotients, for which the provers have no theory, and about a few concrete conversions.
`CallIsCareful`, which those two theorems assume, is a fact about the texts of the NIFs: TLC evaluates it for every one.

## 5. What is not modelled

- The content of goals, results, feedback, messages and transforms: a goal has an outcome, a lookup has one
  transform it needs. tf2's interpolation and graph are an external C++ library; the mutex of a
  buffer is seen as the atomicity of a NIF of `src/tf2_buffer.cpp`.
- rcl and the middleware are external. They are modelled by what the NIFs return: the goal state machine of
  `rcl_action`, a queue of requests per service, calls that may fail.
- Deadlines are nondeterministic: a timer may fire at any time after it was set.
- Transports of tf2 (listeners, broadcasters), and synchronous lookups, which poll the buffer without the registry.
- A caller that gives up a `GenServer.call` after 5 s, but where a model says so (the graph queries).
- Queries that change no state (availability, `get_parameter`, `describe_parameters`, `list_parameters`), and
  introspection of clients and services, but for its NIFs.
- In the node stack: the death of the context alone, a `Node` started without its owner, a kill of the owner,
  which `ARCHITECTURE.md:52-53` excludes, type description and parameter servers as children. That a dynamic
  supervisor handles nothing else while it stops an entity is left out, so the model has more behaviours.
- `ParameterClient` and `ParameterEventHandler`: a service call or a subscription each, with conversions.
- `LifecycleNode`: one `handle_call` after the other; its hazards lie in its service calls and in its restart,
  which are those of `ServiceCall` and `NodeStack`. What was met reading it is in section 6, item 14.
- `RobotStatePublisher`, `URDF`: floating point kinematics, parsing. `Time`, `Duration`: sums of integers of any
  size. Generators and mix tasks: text at build time. The public API delegates.

## 6. Where code and documentation disagree

Items 1 and 2 are the runs whose property TLC finds violated. The others are visible in the models, or were met
while reading, and have no run.

1. *Canceling a queued goal.* `lib/rclex.ex:943` offers to cancel queued goals. `cancel_goal` calls
   `Task.shutdown(goal.task, 100)` with a `task` that is `nil` before `execute_goal`
   (`action_server.ex:272`); the raise is rescued around the whole `reduce` and the `:ok` of `Logger.error`
   becomes the goals map.
2. *One callback at a time, newest first.* `lib/rclex.ex:396-397` has `max_concurrency: 1` preserve the order of
   delivery. `take_one` prepends and `dispatch_all` streams the list as it is (`subscription.ex:158`), so the
   messages of one announcement are called back in reverse.
3. *Executing twice.* The clause of `execute_goal` for a goal that already runs (`action_server.ex:208`)
   matches `task` on the server state, which has no such key. The call falls through to the general clause,
   rcl refuses the transition and the server ends. It ends as well when a result response cannot be sent because one
   of the waiting clients is gone (`action_server.ex:663`): those that wait beside it get no answer.
4. *Statuses.* An accepted goal is published as `status_unknown`, since `publish_status` reads a field that
   only `update_goals_state` sets; a result request for an unknown goal is answered with `status_unknown`.
5. *Two answers for one lookup.* `ARCHITECTURE.md:70-71` gives final delivery to Cleanup. When Cleanup crashes,
   `terminate/2` answers what it keeps, and the registry answers the same lookups again
   (`tf2.ex:242-256`), since its `finish_wait` call failed.
6. *Post-set callbacks in reverse.* After an atomic set that names a parameter twice the last call tells a value
   the parameter does not have (`parameter_server.ex:816-824`, against `lib/rclex.ex:1795-1796`):
   `FirstNews` in `CommitAtomic`. `ToldIsCurrent` holds for lists that name a parameter once.
7. *One by one, all refused.* An on-set callback that refuses one entry makes `set_parameters` refuse all
   (`parameter_server.ex:600`), where `parameter_client.ex:308` has each set validated independently:
   `SetEachRefused`.
8. *`:ok` and nothing set.* A parameter declared without a default has type `not_set`, whatever its declared
   type; `Rclex.set_parameters` converts every value to a `not_set` one and returns `:ok` (`Convert`, `Label`), where
   `lib/rclex.ex:1576` has all parameters set if all are valid. `ResultsTell` therefore lets a value of the
   application become nothing (`Becomes`).
9. *Atomic sets without an answer, invalid values that end the server.* `to_string(reason)`
   (`parameter_server.ex:424`) raises for the tuples that name undeclared or invalid parameters, in the
   service's Task: no response (`parameter_client.ex:341-345`). And `Rclex.set_parameters` labels any value
   with the parameter's type (`parameter_server.ex:850`); the publisher raises on it and the exit of that call
   is not rescued (`lib/rclex.ex:1579`: "otherwise none will be set").
10. *A rejection that is none.* `lib/rclex.ex:1197` has the accepted callback called when the server responded.
    An expiry calls it with `accepted = false` (`action_client.ex:688`) also when the server accepted the goal
    and the response is late; the response is then ignored and the goal runs unknown to the application.
11. *`on_entity`.* `graph_monitor.ex:33-34` and `65-66` say that the callback fires before `on_entity` returns when
    the entity is there; it is started by `Task.start`. An entity that comes and goes between two snapshots is
    missed, one that changes its types is announced as joined and then as left, and a restart of the node
    forgets who waits.
12. *What error paths forget.* The context when `rcl_init_options_fini` fails, likewise the node; blocks or
    references of `node_start_waitset_thread`, of the cancel request copy, of the expired goals copy, and of a
    callback whose registration fails. The reference a callback resource is allocated with is kept always.
13. *Ends that skip a finaliser.* When setting the callback fails, `terminate/2` clears a `nil` resource, which
    raises before the entity's `fini`. When the exit trigger raises in the owner's `terminate/2`, `node_fini` is
    skipped and the thread runs on. An entity busy for more than 5 s is killed without `terminate/2`;
    its dirty NIF, or a service Task that sends its response, may run beside `rcl_service_fini`.
14. *Lifecycle node.* After a restart of the node's stack a `LifecycleNode` lives on without services and
    publisher. The exit of the `GenServer.call` in `publish_transition` is outside the `try`. Shutdown ids 5, 6
    and 7 are accepted in any state. The event announces a goal state that a failing callback does not reach. The
    5 s timeout of `change_state` leaves the service without a response while the transition goes on.
15. *QoS.* Durations lose up to one nanosecond, long ones more; a depth above 32 bits is cut; a profile reported
    as `best_available` raises. `get_service_names_and_types_by_node` and its action counterparts answer
    `:error` for an unknown node, where the topic queries answer `{:error, :not_found}`.

## 7. Plan

Done: the action server with its protocol, refinement and proofs; the tf2 registry, the action client, the service
call, the parameter server, the graph monitor and the subscription as models with theorems; the NIFs, the QoS
conversions as models, and the node stack with theorems. In order of worth, what could come next:

1. `LifecycleNode` with the managed node's state machine as its abstract specification, over a `NodeStack` that
   restarts under it.
2. `Tf2Transports`: listeners and broadcasters, a subscription that two buffers share.
3. `ActionSystem`: `ActionClient` over `ActionProtocol`, so that the callback tells what the server decided, or a
   timeout.
4. `ParameterClient` and `ParameterEventHandler` over `ServiceCall`: reads that span several calls.
5. `Clock` with the list of buffers it clears; monotonic stamps of `RobotStatePublisher`.
