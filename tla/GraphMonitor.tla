---------------------------- MODULE GraphMonitor ----------------------------
(***************************************************************************)
(* How a node learns of the ROS graph.  rmw triggers the node's graph guard *)
(* condition, the wait thread tells the resource owner, the owner its       *)
(* borrower, the Node process, whose callback casts to the GraphMonitor.    *)
(* The monitor then asks the Node for the graph, one kind of entity at a    *)
(* time, announces the difference as telemetry and calls back who waits for *)
(* an entity.  The stack of processes may die and is restarted as a whole.  *)
(***************************************************************************)
EXTENDS Naturals, Sequences

CONSTANTS Entries,     \* what rcl may report: records kind, name, types
          Watches,     \* calls of on_entity, records kind, name, by
          MaxChanges,  \* bound: changes of the graph
          MaxDeaths    \* bound: deaths of the stack

Notices == {"new_graph_event", "error"}   \* of the wait thread
Kinds == <<"nodes", "topics", "services", "actions">>   \* in the order they are asked for
Is(w, e) == e.kind = w.kind /\ e.name = w.name
Sound(g) == \A d, e \in g : Is(d, e) => d = e  \* an entity is reported once, with all its types

ASSUME GraphAssumption ==
  /\ \A e \in Entries : e.kind \in {Kinds[i] : i \in 1..4}
  /\ MaxChanges \in Nat /\ MaxDeaths \in Nat

VARIABLES
  graph,      \* what rcl would report now
  triggered,  \* the guard condition, until a wait returns it
  thread,     \* "none", "waiting" or "ended"
  ownerBox, nodeBox,   \* mailboxes, of Notices
  phase,      \* of the monitor: "down", "init", "idle" or "fetching"
  casts,      \* :graph_changed messages in its mailbox
  calls,      \* on_entity calls in its mailbox
  asked,      \* how many kinds the running fetch_snapshot has got
  fresh,      \* and what
  snapshot, pending,   \* the monitor's state
  fired,      \* history: how often each callback was started
  told,       \* history: the telemetry, summed up from the first snapshot
  registered, changes, deaths   \* history: who called on_entity, and the bounds

rmw     == <<graph, triggered, changes>>
boxes   == <<ownerBox, nodeBox>>
monitor == <<phase, asked, fresh, snapshot, pending, fired, told>>
vars    == <<rmw, thread, boxes, monitor, casts, calls, registered, deaths>>

Present(w, s) == \E e \in s : Is(w, e)
-----------------------------------------------------------------------------
Init ==
  /\ graph \in {g \in SUBSET Entries : Sound(g)} /\ triggered = FALSE
  /\ thread = "none" /\ ownerBox = <<>> /\ nodeBox = <<>>
  /\ phase = "down" /\ casts = 0 /\ calls = {} /\ asked = 0 /\ fresh = {}
  /\ snapshot = {} /\ pending = {} /\ fired = [w \in Watches |-> 0] /\ told = {}
  /\ registered = {} /\ changes = 0 /\ deaths = 0

(* External: entities come, go and change their types, and rmw triggers the *)
(* guard conditions of the nodes that exist.                                *)
GraphChanges ==
  /\ changes < MaxChanges /\ changes' = changes + 1
  /\ graph' \in {g \in SUBSET Entries : Sound(g) /\ g # graph}
  /\ triggered' = (triggered \/ thread # "none")
  /\ UNCHANGED <<thread, boxes, monitor, casts, calls, registered, deaths>>

(* The Node borrows the node, and the owner starts the wait thread *)
Borrow == /\ thread = "none" /\ thread' = "waiting"
          /\ UNCHANGED <<rmw, boxes, monitor, casts, calls, registered, deaths>>

(* graph_guard_waiter, one round: rcl_wait returns the condition and resets it *)
Wakes == /\ thread = "waiting" /\ triggered
         /\ triggered' = FALSE /\ ownerBox' = Append(ownerBox, "new_graph_event")
         /\ UNCHANGED <<graph, changes, thread, nodeBox, monitor, casts, calls, registered, deaths>>

WaitFails == /\ thread = "waiting" /\ deaths < MaxDeaths
             /\ thread' = "ended" /\ ownerBox' = Append(ownerBox, "error")
             /\ UNCHANGED <<rmw, nodeBox, monitor, casts, calls, registered, deaths>>

OwnerForwards == /\ ownerBox # <<>>
                 /\ ownerBox' = Tail(ownerBox) /\ nodeBox' = Append(nodeBox, Head(ownerBox))
                 /\ UNCHANGED <<rmw, thread, monitor, casts, calls, registered, deaths>>

(* Everything of the node ends and the supervisor starts it again *)
StackDies ==
  /\ deaths < MaxDeaths /\ deaths' = deaths + 1
  /\ triggered' = FALSE /\ thread' = "none" /\ ownerBox' = <<>> /\ nodeBox' = <<>>
  /\ phase' = "down" /\ casts' = 0 /\ calls' = {} /\ asked' = 0 /\ fresh' = {}
  /\ snapshot' = {} /\ pending' = {} /\ told' = {}
  /\ UNCHANGED <<graph, changes, fired, registered>>

\* Mutant: a change is not passed on while the monitor reads the graph.
NodeTellsMonitorIfIdle ==
  /\ nodeBox # <<>> /\ Head(nodeBox) = "new_graph_event"
  /\ nodeBox' = Tail(nodeBox)
  /\ casts' = IF phase = "idle" THEN casts + 1 ELSE casts
  /\ UNCHANGED <<rmw, thread, ownerBox, monitor, calls, registered, deaths>>

(* The callback casts to a name; nobody has it before the monitor's start *)
NodeTellsMonitor ==
  /\ nodeBox # <<>> /\ Head(nodeBox) = "new_graph_event"
  /\ nodeBox' = Tail(nodeBox)
  /\ casts' = IF phase = "down" THEN casts ELSE casts + 1
  /\ UNCHANGED <<rmw, thread, ownerBox, monitor, calls, registered, deaths>>

NodeStops == nodeBox # <<>> /\ Head(nodeBox) = "error" /\ StackDies

(* A graph query that raises ends the Node, one that takes 5 s the monitor *)
QueryFails == phase \in {"init", "fetching"} /\ asked < 4 /\ StackDies
-----------------------------------------------------------------------------
(* The process has its name before init runs *)
StartLink == /\ phase = "down" /\ thread # "none" /\ phase' = "init"
             /\ UNCHANGED <<rmw, thread, boxes, asked, fresh, snapshot, pending, fired, told, casts,
                            calls, registered, deaths>>

on_entity(w) ==
  /\ phase # "down" /\ w \notin registered
  /\ registered' = registered \union {w} /\ calls' = calls \union {w}
  /\ UNCHANGED <<rmw, thread, boxes, monitor, casts, deaths>>

(* fetch_snapshot, a call of the Node for each kind *)
Fetch == /\ phase \in {"init", "fetching"} /\ asked < 4
         /\ asked' = asked + 1
         /\ fresh' = fresh \union {e \in graph : e.kind = Kinds[asked + 1]}
         /\ UNCHANGED <<rmw, thread, boxes, phase, snapshot, pending, fired, told, casts, calls,
                        registered, deaths>>

InitDone == /\ phase = "init" /\ asked = 4
            /\ phase' = "idle" /\ snapshot' = fresh /\ told' = fresh
            /\ asked' = 0 /\ fresh' = {}
            /\ UNCHANGED <<rmw, thread, boxes, pending, fired, casts, calls, registered, deaths>>

(* The callback of each watch in ws is started in a Task of its own *)
run_callback(ws) == fired' = [w \in Watches |-> IF w \in ws THEN fired[w] + 1 ELSE fired[w]]

HandleOnEntity(w) ==
  /\ phase = "idle" /\ w \in calls /\ calls' = calls \ {w}
  /\ IF Present(w, snapshot)
     THEN run_callback({w}) /\ UNCHANGED pending
     ELSE pending' = pending \union {w} /\ UNCHANGED fired
  /\ UNCHANGED <<rmw, thread, boxes, phase, asked, fresh, snapshot, told, casts, registered, deaths>>

GraphChanged == /\ phase = "idle" /\ casts > 0
                /\ casts' = casts - 1 /\ phase' = "fetching"
                /\ UNCHANGED <<rmw, thread, boxes, asked, fresh, snapshot, pending, fired, told, calls,
                               registered, deaths>>

(* The entries that joined are those of the new snapshot the old one lacks *)
Joined == fresh \ snapshot
\* Mutant: what is still there under its name has not left.
LeftByName == {e \in snapshot : ~ Present(e, fresh)}
Left   == snapshot \ fresh

\* Mutants: a callback that was started stays; those that were not are dropped.
fire_pending_keeps(ws)   == UNCHANGED pending /\ run_callback(ws)
fire_pending_filters(ws) == pending' = pending \intersect ws /\ run_callback(ws)
fire_pending(ws) == pending' = pending \ ws /\ run_callback(ws)

Diffed ==
  /\ phase = "fetching" /\ asked = 4
  /\ told' = (told \union Joined) \ Left
  /\ fire_pending({w \in pending : Present(w, Joined)})
  /\ phase' = "idle" /\ snapshot' = fresh /\ asked' = 0 /\ fresh' = {}
  /\ UNCHANGED <<rmw, thread, boxes, casts, calls, registered, deaths>>

Next == \/ GraphChanges \/ Borrow \/ Wakes \/ WaitFails \/ OwnerForwards
        \/ NodeTellsMonitor \/ NodeStops \/ QueryFails
        \/ StartLink \/ Fetch \/ InitDone \/ GraphChanged \/ Diffed
        \/ \E w \in Watches : on_entity(w) \/ HandleOnEntity(w)

(* Processes that can run do, and rcl_wait returns a triggered condition.  The   *)
(* monitor goes through its mailbox, which the bounded graph stops filling.      *)
Fairness == /\ WF_vars(Borrow) /\ WF_vars(Wakes) /\ WF_vars(OwnerForwards)
            /\ WF_vars(NodeTellsMonitor \/ NodeStops) /\ WF_vars(StartLink) /\ WF_vars(Fetch)
            /\ WF_vars(InitDone) /\ WF_vars(GraphChanged) /\ WF_vars(Diffed)
            /\ \A w \in Watches : WF_vars(HandleOnEntity(w))
Spec == Init /\ [][Next]_vars
FairSpec == Spec /\ Fairness
-----------------------------------------------------------------------------
TypeOK ==
  /\ graph \subseteq Entries /\ Sound(graph) /\ triggered \in BOOLEAN
  /\ thread \in {"none", "waiting", "ended"}
  /\ ownerBox \in Seq(Notices) /\ nodeBox \in Seq(Notices)
  /\ phase \in {"down", "init", "idle", "fetching"}
  /\ casts \in Nat /\ calls \subseteq Watches /\ asked \in 0..4 /\ fresh \subseteq Entries
  /\ snapshot \subseteq Entries /\ pending \subseteq Watches /\ fired \in [Watches -> Nat]
  /\ told \subseteq Entries /\ registered \subseteq Watches
  /\ changes \in 0..MaxChanges /\ deaths \in 0..MaxDeaths

(* Nobody waits for an entity that the monitor knows to be there, so comparing   *)
(* a new snapshot with the last one is enough to find whom to call back:         *)
(* handle_call(:on_entity) and fire_pending, graph_monitor.ex.                   *)
PendingAbsent == \A w \in pending : ~ Present(w, snapshot)

(* A callback is started at most once, however often its entity comes and goes,  *)
(* changes its types or the node is restarted ("it fires once the first time the *)
(* entity joins", graph_monitor.ex:34).                                          *)
CallbackOnce == \A w \in Watches :
  fired[w] <= 1 /\ (w \in calls \union pending => fired[w] = 0)

(* Who sums up the telemetry of joins and leaves knows what get_snapshot answers: *)
(* the differences of compute_diff, for entities that change their types too.     *)
TelemetryAgrees == told = snapshot

(* When the graph rests the monitor knows it: no change is lost between rmw's     *)
(* guard condition, the wait thread, the owner, the Node and a monitor that is    *)
(* starting or reading, although a snapshot is read in four calls.                *)
Converges == <>[](phase = "idle" /\ snapshot = graph)

(* Who asks for an entity that is there, or comes and stays, is called back,      *)
(* unless the node dies meanwhile: the monitor then forgets who waits.            *)
Served == \A w \in Watches, d \in 0..MaxDeaths :
  (w \in calls \union pending /\ [](Present(w, graph) /\ deaths = d)) ~> fired[w] = 1
=============================================================================
