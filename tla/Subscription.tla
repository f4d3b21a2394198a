---------------------------- MODULE Subscription ----------------------------
(***************************************************************************)
(* Rclex.Subscription (lib/rclex/subscription.ex): a GenServer that takes  *)
(* what the middleware announces and hands it to a callback, in one of     *)
(* three modes: one by one in the server (inline_callback), only the       *)
(* newest in the server (latest_only), or a batch at a time in Tasks.      *)
(*                                                                         *)
(* The middleware is external: a queue that drops its oldest message, and  *)
(* a count of what no event has announced, which grows before the server   *)
(* has set its callback too.  Messages are numbered as they are published. *)
(***************************************************************************)
EXTENDS Naturals, Sequences, FiniteSets, SequencesExt

CONSTANTS
  MaxMessages,   \* bound: how many messages are published
  Depth,         \* depth of the middleware's queue (KEEP_LAST)
  Modes,         \* the modes a subscription may be started in
  Concurrency,   \* max_concurrency
  Faults         \* whether a take may raise

Messages == 1 .. MaxMessages
NoMessage == 0

ASSUME SubscriptionAssumption ==
  /\ MaxMessages \in Nat /\ Depth \in Nat \ {0} /\ Concurrency \in Nat \ {0} /\ Faults \in BOOLEAN
  /\ Modes \subseteq {"inline", "latest", "tasks"}

VARIABLES
  \* the publisher and the middleware
  published,   \* how many messages were published
  queue,       \* messages not taken yet
  unread,      \* how many of them no event has announced
  \* the server
  mode,        \* one of Modes
  server,      \* "init" (handle_continue has still to run), "up" or "down"
  events,      \* {:new_message, n} messages, in order
  step,        \* "idle", or what the handler is doing: "taking", "calling", "streaming"
  left,        \* takes left
  taken,       \* messages taken and not handed on: the last one taken first, as take_one prepends
  \* the callback
  running,     \* messages whose callback runs
  heard        \* messages whose callback was started, in order

middleware == <<published, queue, unread>>
vars == <<middleware, mode, server, events, step, left, taken, running, heard>>

Init ==
  /\ published = 0 /\ queue = <<>> /\ unread = 0
  /\ mode \in Modes /\ server = "init" /\ events = <<>>
  /\ step = "idle" /\ left = 0 /\ taken = <<>>
  /\ running = {} /\ heard = <<>>

----------------------------------------------------------------------------
(* The publisher and the middleware *)

Publish ==
  /\ published < MaxMessages
  /\ published' = published + 1
  /\ queue' = Append(IF Len(queue) < Depth THEN queue ELSE Tail(queue), published')
  /\ unread' = unread + 1
  /\ UNCHANGED <<mode, server, events, step, left, taken, running, heard>>

\* new_message_callback, once handle_continue has registered it.
Notify ==
  /\ server = "up" /\ unread > 0
  /\ events' = Append(events, unread) /\ unread' = 0
  /\ UNCHANGED <<published, queue, mode, server, step, left, taken, running, heard>>

----------------------------------------------------------------------------
(* The server *)

HandleContinue ==
  /\ server = "init" /\ server' = "up"
  /\ UNCHANGED <<middleware, mode, events, step, left, taken, running, heard>>

\* {:new_message, n}: n takes, or as many as there are messages.
HandleNewMessage ==
  /\ server = "up" /\ step = "idle" /\ events # <<>> /\ mode # "latest"
  /\ step' = "taking" /\ left' = Head(events) /\ events' = Tail(events)
  /\ UNCHANGED <<middleware, mode, server, taken, running, heard>>

\* drain_notifications: one pass for all events in the mailbox.
HandleLatest ==
  /\ server = "up" /\ step = "idle" /\ events # <<>> /\ mode = "latest"
  /\ step' = "taking" /\ events' = <<>>
  /\ UNCHANGED <<middleware, mode, server, left, taken, running, heard>>

\* The callback is run for m: in the server, or in a Task of its own.
Invoke(m) == heard' = Append(heard, m) /\ running' = running \cup {m}

Taking(m) ==
  /\ step = "taking" /\ mode = m
  /\ UNCHANGED <<published, unread, mode, server, events>>

\* take_and_invoke_one.
TakeAndInvoke ==
  /\ Taking("inline") /\ left > 0 /\ queue # <<>>
  /\ queue' = Tail(queue) /\ left' = left - 1
  /\ Invoke(Head(queue)) /\ step' = "calling"
  /\ UNCHANGED taken

\* take_one.
TakeOne ==
  /\ Taking("tasks") /\ left > 0 /\ queue # <<>>
  /\ queue' = Tail(queue) /\ left' = left - 1
  /\ taken' = <<Head(queue)>> \o taken
  /\ UNCHANGED <<step, running, heard>>

\* :subscription_take_failed: the queue has dropped messages, or an earlier event took them.
TakeFails ==
  /\ Taking("inline") \/ Taking("tasks")
  /\ left > 0 /\ queue = <<>> /\ left' = left - 1
  /\ UNCHANGED <<queue, step, taken, running, heard>>

\* Mutant: one take for all events that were drained.
TakeLatestOnce ==
  /\ Taking("latest") /\ queue # <<>>
  /\ queue' = Tail(queue) /\ Invoke(Head(queue)) /\ step' = "calling"
  /\ UNCHANGED <<left, taken>>
\* take_until_empty: the next message overwrites the last one in the native buffer.
TakeLatest ==
  /\ Taking("latest") /\ queue # <<>>
  /\ queue' = Tail(queue) /\ taken' = <<Head(queue)>>
  /\ UNCHANGED <<step, left, running, heard>>

\* Mutant: the buffer and what was read from it outlive the pass.
InvokeLatestKeeps ==
  /\ Taking("latest") /\ queue = <<>>
  /\ IF taken = <<>> THEN step' = "idle" /\ UNCHANGED <<running, heard>>
                     ELSE step' = "calling" /\ Invoke(Head(taken))
  /\ UNCHANGED <<queue, left, taken>>
\* :empty, or the newest message.
InvokeLatest ==
  /\ Taking("latest") /\ queue = <<>>
  /\ IF taken = <<>> THEN step' = "idle" /\ UNCHANGED <<running, heard>>
                     ELSE step' = "calling" /\ Invoke(Head(taken))
  /\ taken' = <<>>
  /\ UNCHANGED <<queue, left>>

\* All takes of the event are done; dispatch_all.
Taken ==
  /\ Taking("inline") \/ Taking("tasks")
  /\ left = 0
  /\ step' = IF taken = <<>> THEN "idle" ELSE "streaming"
  /\ UNCHANGED <<queue, left, taken, running, heard>>

\* async_stream_nolink starts the next Task.
StartTask ==
  /\ step = "streaming" /\ taken # <<>> /\ Cardinality(running) < Concurrency
  /\ Invoke(Head(taken)) /\ taken' = Tail(taken)
  /\ UNCHANGED <<middleware, mode, server, events, step, left>>

\* The callback returns or raises; a Task is killed after callback_timeout.
CallbackEnds(m) ==
  /\ m \in running /\ running' = running \ {m}
  /\ step' = CASE mode = "inline" -> "taking" [] mode = "latest" -> "idle" [] OTHER -> step
  /\ UNCHANGED <<middleware, mode, server, events, left, taken, heard>>

StreamEnds ==
  /\ step = "streaming" /\ taken = <<>> /\ running = {}
  /\ step' = "idle"
  /\ UNCHANGED <<middleware, mode, server, events, left, taken, running, heard>>

Down ==
  /\ server' = "down" /\ events' = <<>> /\ queue' = <<>> /\ step' = "idle" /\ left' = 0 /\ taken' = <<>>
  /\ UNCHANGED <<published, unread, mode, running, heard>>

\* rcl_take! raises: the server ends, with what it has taken.
TakeRaises == Faults /\ server = "up" /\ step = "taking" /\ Down

\* stop_subscription, between two messages.
Stop == server = "up" /\ step = "idle" /\ Down

----------------------------------------------------------------------------
Handler ==
  \/ HandleContinue \/ HandleNewMessage \/ HandleLatest \/ TakeAndInvoke \/ TakeOne \/ TakeFails
  \/ TakeLatest \/ InvokeLatest \/ Taken \/ StartTask \/ StreamEnds

Next ==
  \/ Publish \/ Notify \/ Handler \/ TakeRaises \/ Stop
  \/ \E m \in Messages : CallbackEnds(m)

\* The server goes on with its handler and its mailbox, the middleware announces what it has and
\* callbacks end (a Task at its timeout). Nobody has to publish.
Fairness == /\ WF_vars(Notify) /\ WF_vars(Handler)
            /\ \A m \in Messages : WF_vars(CallbackEnds(m))

Spec == Init /\ [][Next]_vars /\ Fairness

----------------------------------------------------------------------------
(* Properties *)

\* The state is well typed.
TypeOK ==
  /\ published \in 0 .. MaxMessages /\ queue \in Seq(Messages) /\ unread \in Nat
  /\ mode \in Modes /\ server \in {"init", "up", "down"} /\ events \in Seq(Nat \ {0})
  /\ step \in {"idle", "taking", "calling", "streaming"} /\ left \in Nat /\ taken \in Seq(Messages)
  /\ running \subseteq Messages /\ heard \in Seq(Messages)

InOrder == \A i, j \in DOMAIN heard : i < j => heard[i] < heard[j]

\* However events, takes and publications interleave, a message is handed to the callback once,
\* no more callbacks run than the mode allows, and the modes that run it in the server follow
\* the order of delivery (handle_info and dispatch_all of subscription.ex, lib/rclex.ex:395-404).
DeliveredOnce ==
  /\ IsInjective(heard)
  /\ IF mode = "tasks" THEN Cardinality(running) <= Concurrency
                       ELSE Cardinality(running) <= 1 /\ InOrder

\* What waits in the middleware is announced, or about to be, or being taken, however many messages
\* an earlier pass took or the queue dropped: nothing waits for the next publication to be noticed
\* (handle_info and drain_notifications of subscription.ex).
QueueIsNoticed ==
  queue # <<>> => \/ unread > 0 \/ events # <<>>
                  \/ IF mode = "latest" THEN step = "taking" ELSE left > 0

\* The newest message reaches the callback unless a newer one comes or the subscription ends,
\* though events are drained before the takes, takes run ahead of events and the queue drops.
NewestIsHeard ==
  \A m \in Messages :
    published = m ~> (\E i \in DOMAIN heard : heard[i] = m) \/ published > m \/ server = "down"

\* lib/rclex.ex:396-397: max_concurrency "Set to 1 to run callbacks one at a time (in a dedicated
\* task, preserving delivery order)".
OneAtATimeInOrder == Concurrency = 1 => InOrder
=============================================================================
