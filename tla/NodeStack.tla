----------------------------- MODULE NodeStack -----------------------------
(***************************************************************************)
(* The processes of one node, their supervisor and the native handles they  *)
(* own: the resource owner (the rcl node and the thread that waits for graph *)
(* events), the Node that borrows it, and the entities, a process each.  A  *)
(* process runs the NIFs of NativeCalls step by step, against the other      *)
(* processes, the wait thread and the callbacks of the middleware.           *)
(*                                                                          *)
(* A handle exists while its token is in held.  Processes may be killed, rcl *)
(* calls may fail; the supervisor then stops and restarts everything.        *)
(***************************************************************************)
EXTENDS NativeCalls, FiniteSets

CONSTANTS Subscriptions, Services, Timers,   \* the entities that may be started, once each
          MaxGenerations,   \* bound: starts of the node
          MaxFaults,        \* bound: rcl calls that fail, waits of the thread included
          MaxKills          \* bound: kills, of a supervisor after 5 s or of anybody

Entities  == Subscriptions \union Services \union Timers
Processes == Entities \union {"context", "owner", "node"}
ASSUME StackAssumption ==
  /\ {"context", "owner", "node"} \intersect Entities = {}
  /\ Subscriptions \intersect Services = {} /\ Subscriptions \intersect Timers = {}
  /\ Services \intersect Timers = {}   \* an entity is of one kind
  /\ MaxGenerations \in Nat \ {0} /\ MaxFaults \in Nat /\ MaxKills \in Nat

Context   == <<"context">>
Node(g)   == <<"node", g>>
Thread(g) == <<"thread", g>>
Handle(e) == <<"entity", e>>
Clock(e)  == <<"clock", e>>
WaitSet(e) == <<"wait_set", e>>

VARIABLES
  stage,    \* of the node's supervisor
  again,    \* it restarts the node after the teardown
  gen,      \* generation of the node
  stopping, \* the application stops
  state,    \* of each process: "none", "init", "up", "closing" or "dead"
  todo,     \* the steps of NIFs a process has still to run
  born,     \* the generation an entity belongs to
  held,     \* the tokens that exist
  signalled, ended,   \* generations whose wait thread was told to end, and has
  task,     \* steps of the Task of a service callback
  ghost,    \* steps of a dirty NIF whose process was killed
  late,     \* history: who touched what had been finalised
  damaged,  \* history: killed, or an rcl call of theirs failed
  faults, kills

sup    == <<stage, again, gen, stopping>>
procs  == <<state, todo, born>>
thread == <<signalled, ended>>
others == <<task, ghost>>
bounds == <<faults, kills>>
vars   == <<sup, procs, held, thread, others, late, damaged, bounds>>

-----------------------------------------------------------------------------
(* What the processes call: the steps that touch what others may touch too, *)
(* so not the memory of the call itself.                                    *)
Shared(xs) == {x \in xs : x[1] # "block"}
Matters(s) == Shared(s.checks \union s.uses \union s.makes \union s.ends) # {}

\* idle: touches nothing; begun: the NIF has touched something already
Touching(nif) ==
  LET M == {i \in 1..Len(nif.steps) : Matters(nif.steps[i])} IN
  [i \in 1..Len(nif.steps) |->
     LET s == nif.steps[i] IN
     [checks |-> Shared(s.checks), uses |-> Shared(s.uses), makes |-> Shared(s.makes),
      ends |-> Shared(s.ends), undo |-> Shared(s.undo), fails |-> s.fails,
      dirty |-> nif.dirty, idle |-> i \notin M, begun |-> \E j \in M : j < i]]

\* Steps from the first one that touches something, and those of the NIF that has begun.
First(steps) == CHOOSE i \in 1..Len(steps) + 1 :
                  /\ i = Len(steps) + 1 \/ ~ steps[i].idle
                  /\ \A j \in 1..i-1 : steps[j].idle
Skip(steps)  == SubSeq(steps, First(steps), Len(steps))
Begun(steps) == LET n == CHOOSE i \in 1..Len(steps) + 1 :
                           /\ i = Len(steps) + 1 \/ ~ steps[i].begun
                           /\ \A j \in 1..i-1 : steps[j].begun
                IN  SubSeq(steps, 1, n - 1)

Owner == <<"owner", gen>>
Holder(p) == IF p = "owner" THEN Owner ELSE <<p>>

Generations == 1..MaxGenerations
InitOf == [p \in Entities \union {"owner"} |-> [g \in Generations |->
  CASE p = "owner"         -> Touching(nif_rcl_node_init(Context, Node(g)))
    [] p \in Subscriptions -> Touching(nif_rcl_subscription_init(Node(g), Handle(p)))
    [] p \in Services      -> Touching(nif_rcl_service_init(Node(g), Handle(p)))
    [] p \in Timers        -> Touching(nif_rcl_clock_init(Clock(p)))
                              \o Touching(nif_rcl_timer_init(Context, Clock(p), Handle(p)))
                              \o Touching(nif_rcl_wait_set_init_timer(Context, WaitSet(p)))]]

(* handle_continue comes before every message *)
ContinueOf == [p \in Entities |->
  CASE p \in Subscriptions -> Touching(nif_rcl_subscription_set_on_new_message_callback(Handle(p)))
    [] p \in Services      -> Touching(nif_rcl_service_set_on_new_request_callback(Handle(p)))
    [] p \in Timers        -> <<>>]

Borrowed == [g \in Generations |->
  Touching(nif_rcl_node_get_graph_guard_condition(Node(g)))
  \o Touching(nif_node_start_waitset_thread(Context, Node(g), Thread(g)))]

(* What a message makes an entity do *)
WorkOf == [p \in Entities |->
  CASE p \in Subscriptions -> Touching(nif_rcl_take(Handle(p)))
    [] p \in Services      -> Touching(nif_rcl_take_request_with_info(Handle(p)))
    [] p \in Timers        -> Touching(nif_rcl_wait_timer(WaitSet(p), Handle(p)))
                              \o Touching(nif_rcl_timer_is_ready(Handle(p)))
                              \o Touching(nif_rcl_timer_call(Handle(p)))]

\* Mutant: the node goes before the thread that waits on its guard condition.
OwnerEndsNodeFirst(g, has) ==
  Touching(nif_rcl_node_fini(Node(g)))
  \o (IF has THEN Touching(nif_node_stop_waitset_thread(Thread(g))) ELSE <<>>)
OwnerEnds(g, has) ==
  (IF has THEN Touching(nif_node_stop_waitset_thread(Thread(g))) ELSE <<>>)
  \o Touching(nif_rcl_node_fini(Node(g)))

TimerEnds(p) == Touching(nif_rcl_wait_set_fini(WaitSet(p))) \o Touching(nif_rcl_timer_fini(Handle(p)))
                \o Touching(nif_rcl_clock_fini(Clock(p)))

(* A callback resource that is still nil is a bad argument *)
NilArgument == Regular(<<Valid(<<"nil">>)>>)

\* has: the owner its thread, an entity its callback resource
TerminateOf == [p \in Processes \ {"node"} |-> [g \in Generations |-> [has \in BOOLEAN |->
  CASE p = "context"       -> Touching(nif_rcl_fini(Context))
    [] p = "owner"         -> OwnerEnds(g, has)
    [] p \in Subscriptions ->
         Touching(IF has THEN nif_rcl_subscription_clear_message_callback(Handle(p)) ELSE NilArgument)
         \o Touching(nif_rcl_subscription_fini(Node(g), Handle(p)))
    [] p \in Services      ->
         Touching(IF has THEN nif_rcl_service_clear_request_callback(Handle(p)) ELSE NilArgument)
         \o Touching(nif_rcl_service_fini(Node(g), Handle(p)))
    [] p \in Timers        -> TimerEnds(p)]]]

OwnsThread == Thread(gen) \in held
Has(p) == CASE p = "owner"         -> OwnsThread
            [] p \in Subscriptions -> Ref("term", Handle(p), "message") \in held
            [] p \in Services      -> Ref("term", Handle(p), "request") \in held
            [] OTHER               -> FALSE
Terminating(p) == TerminateOf[p][IF p \in Entities THEN born[p] ELSE gen][Has(p)]

Init ==
  /\ stage = "start_owner" /\ again = FALSE /\ gen = 1 /\ stopping = FALSE
  /\ state = [p \in Processes |-> CASE p = "context" -> "up" [] p = "owner" -> "init" [] OTHER -> "none"]
  /\ todo = [p \in Processes |-> IF p = "owner" THEN Skip(InitOf[p][1]) ELSE <<>>]
  /\ born = [e \in Entities |-> 0] /\ held = {Context}
  /\ signalled = {} /\ ended = {} /\ task = <<>> /\ ghost = <<>>
  /\ late = {} /\ damaged = {} /\ faults = 0 /\ kills = 0

-----------------------------------------------------------------------------
(* Steps of the processes.  A NIF that raises ends the process; unless it was in *)
(* init or in terminate, GenServer calls terminate.                              *)
NextStep(p) == Head(todo[p])
Effect(s)   == (held \union s.makes) \ s.ends
Touch(s, who) == late' = IF s.uses \subseteq held THEN late ELSE late \union {who}
Goto(p, st, steps) == state' = [state EXCEPT ![p] = st] /\ todo' = [todo EXCEPT ![p] = Skip(steps)]
Crash(p) == IF state[p] = "up" THEN Goto(p, "closing", Terminating(p)) ELSE Goto(p, "dead", <<>>)

(* The exit condition is triggered first; the join waits for the thread's end *)
Triggers(s) == s.uses = {ExitCondition(Thread(gen))} /\ s.ends = {}
Joins(s)    == Thread(gen) \in s.ends

RunStep(p) ==
  /\ todo[p] # <<>> /\ NextStep(p).checks \subseteq held
  /\ Joins(NextStep(p)) => gen \in ended
  /\ held' = Effect(NextStep(p)) /\ Touch(NextStep(p), "process")
  /\ signalled' = IF Triggers(NextStep(p)) THEN signalled \union {gen} ELSE signalled
  /\ todo' = [todo EXCEPT ![p] = Skip(Tail(@))]
  /\ UNCHANGED <<sup, state, born, ended, others, damaged, bounds>>

(* The handle was finalised, or never made *)
Refused(p) ==
  /\ todo[p] # <<>> /\ ~ (NextStep(p).checks \subseteq held)
  /\ late' = IF Holder(p) \in damaged THEN late ELSE late \union {"process"}
  /\ Crash(p)
  /\ UNCHANGED <<sup, born, held, thread, others, damaged, bounds>>

RclFails(p) ==
  /\ faults < MaxFaults /\ faults' = faults + 1
  /\ todo[p] # <<>> /\ NextStep(p).checks = {} /\ NextStep(p).fails \intersect Exceptions # {}
  /\ held' = held \ NextStep(p).undo
  /\ damaged' = damaged \union {Holder(p)}
  /\ Crash(p)
  /\ UNCHANGED <<sup, born, thread, others, late, kills>>

Terminated(p) == /\ state[p] = "closing" /\ todo[p] = <<>> /\ Goto(p, "dead", <<>>)
                 /\ UNCHANGED <<sup, born, held, thread, others, late, damaged, bounds>>

(* A regular NIF returns before the process can be killed, a dirty one goes on *)
Kill(p) ==
  /\ kills < MaxKills /\ kills' = kills + 1
  /\ state[p] \in {"init", "up", "closing"}
  /\ \/ todo[p] = <<>> /\ UNCHANGED ghost
     \/ todo[p] # <<>> /\ ~ NextStep(p).begun /\ UNCHANGED ghost
     \/ todo[p] # <<>> /\ NextStep(p).begun /\ NextStep(p).dirty /\ ghost' = Begun(todo[p])
  /\ damaged' = damaged \union {Holder(p)}
  /\ Goto(p, "dead", <<>>)
  /\ UNCHANGED <<sup, born, held, thread, task, late, faults>>

GhostStep ==
  /\ ghost # <<>>
  /\ LET s == Head(ghost) IN
       IF s.checks \subseteq held
       THEN held' = Effect(s) /\ Touch(s, "ghost") /\ ghost' = Skip(Tail(ghost))
       ELSE ghost' = <<>> /\ UNCHANGED <<held, late>>
  /\ UNCHANGED <<sup, procs, thread, task, damaged, bounds>>

-----------------------------------------------------------------------------
(* Entities *)
NobodyStarts == \A e \in Entities : state[e] # "init"

(* The Node's call start_child; a dynamic supervisor starts one child at a time *)
StartEntity(e) ==
  /\ stage = "up" /\ state["node"] = "up" /\ NobodyStarts /\ born[e] = 0
  /\ born' = [born EXCEPT ![e] = gen]
  /\ Goto(e, "init", InitOf[e][gen])
  /\ UNCHANGED <<sup, held, thread, others, late, damaged, bounds>>

Initialized(e) == /\ state[e] = "init" /\ todo[e] = <<>> /\ Goto(e, "up", ContinueOf[e])
                  /\ UNCHANGED <<sup, born, held, thread, others, late, damaged, bounds>>

Idle(e) == state[e] = "up" /\ todo[e] = <<>>
Work(e) == /\ Idle(e) /\ Goto(e, "up", WorkOf[e])
           /\ UNCHANGED <<sup, born, held, thread, others, late, damaged, bounds>>

(* A service callback runs in a Task of the application and sends the response *)
StartTask(e) == /\ Idle(e) /\ task = <<>> /\ task' = Skip(Touching(nif_rcl_send_response(Handle(e))))
                /\ UNCHANGED <<sup, procs, held, thread, ghost, late, damaged, bounds>>
TaskStep ==
  /\ task # <<>>
  /\ task' = IF Head(task).checks \subseteq held THEN Skip(Tail(task)) ELSE <<>>
  /\ IF Head(task).checks \subseteq held THEN Touch(Head(task), "task") ELSE UNCHANGED late
  /\ UNCHANGED <<sup, procs, held, thread, ghost, damaged, bounds>>

Terminate(e) == /\ Idle(e) /\ Goto(e, "closing", Terminating(e))
                /\ UNCHANGED <<sup, born, held, thread, others, late, damaged, bounds>>
StopEntity(e) == stage = "up" /\ NobodyStarts /\ Terminate(e)
(* The dynamic supervisor hears of its own end when nobody starts *)
ShutDown(e) == stage = "stop_entities" /\ NobodyStarts /\ Terminate(e)

-----------------------------------------------------------------------------
(* The supervisor of the node: one_for_all, children in the order owner, Node,   *)
(* entities, helpers (ParameterServer, TypeDescriptionServer, GraphMonitor),     *)
(* which hold no handles of their own.                                           *)
OwnerStarted ==
  /\ stage = "start_owner" /\ state["owner"] = "init" /\ todo["owner"] = <<>>
  /\ stage' = "start_node"
  /\ state' = [state EXCEPT !["owner"] = "up", !["node"] = "init"]
  /\ todo' = [todo EXCEPT !["owner"] = Skip(Borrowed[gen])]   \* the Node's call of borrow
  /\ UNCHANGED <<again, gen, stopping, born, held, thread, others, late, damaged, bounds>>

NodeStarted ==
  /\ stage = "start_node" /\ state["node"] = "init" /\ state["owner"] = "up" /\ todo["owner"] = <<>>
  /\ stage' = "up" /\ state' = [state EXCEPT !["node"] = "up"]
  /\ UNCHANGED <<again, gen, stopping, todo, born, held, thread, others, late, damaged, bounds>>

StartFails ==
  /\ stage \in {"start_owner", "start_node"}
  /\ "dead" \in {state["owner"], state["node"]} \/ state["owner"] = "closing"
  /\ stage' = "stop_owner" /\ again' = (gen > 1)
  /\ state' = [state EXCEPT !["node"] = "dead"]
  /\ UNCHANGED <<gen, stopping, todo, born, held, thread, others, late, damaged, bounds>>

Teardown(restart) == /\ stage = "up" /\ stage' = "stop_entities" /\ again' = restart
                     /\ UNCHANGED <<gen, procs, held, thread, others, late, damaged, bounds>>
ChildDied   == state["node"] = "dead" /\ Teardown(TRUE) /\ UNCHANGED stopping
HelperDied  == gen < MaxGenerations /\ Teardown(TRUE) /\ UNCHANGED stopping
StopNode    == Teardown(FALSE) /\ UNCHANGED stopping
StopApplication == \/ Teardown(FALSE) /\ stopping' = TRUE
                   \/ /\ stage = "down" /\ ~ stopping /\ stopping' = TRUE
                      /\ UNCHANGED <<stage, again, gen, procs, held, thread, others, late, damaged, bounds>>

\* Mutant: the children are stopped in the order they were started.
EntitiesStoppedLast ==
  /\ stage = "stop_entities" /\ stage' = "stop_node"
  /\ UNCHANGED <<again, gen, stopping, procs, held, thread, others, late, damaged, bounds>>
EntitiesStopped ==
  /\ stage = "stop_entities" /\ \A e \in Entities : state[e] \in {"none", "dead"}
  /\ stage' = "stop_node"
  /\ UNCHANGED <<again, gen, stopping, procs, held, thread, others, late, damaged, bounds>>
NodeStopped ==
  /\ stage = "stop_node" /\ stage' = "stop_owner" /\ state' = [state EXCEPT !["node"] = "dead"]
  /\ UNCHANGED <<again, gen, stopping, todo, born, held, thread, others, late, damaged, bounds>>
OwnerStops == /\ stage = "stop_owner" /\ Idle("owner")
              /\ Goto("owner", "closing", Terminating("owner"))
              /\ UNCHANGED <<sup, born, held, thread, others, late, damaged, bounds>>

Start(g) == /\ gen' = g /\ stage' = "start_owner"
            /\ state' = [state EXCEPT !["owner"] = "init", !["node"] = "none"]
            /\ todo' = [todo EXCEPT !["owner"] = Skip(InitOf["owner"][g])]
            /\ UNCHANGED <<again, stopping, born, held, thread, others, late, damaged, bounds>>
\* Mutant: a replacement is started before the owner has ended.
RestartAtOnce == /\ stage = "stop_owner" /\ again /\ gen < MaxGenerations /\ Start(gen + 1)
Restart == /\ stage = "stop_owner" /\ state["owner"] = "dead" /\ again /\ gen < MaxGenerations
           /\ Start(gen + 1)
(* Stopped, or restarted too often *)
Down == /\ stage = "stop_owner" /\ state["owner"] = "dead" /\ (again => gen = MaxGenerations)
        /\ stage' = "down"
        /\ UNCHANGED <<again, gen, stopping, procs, held, thread, others, late, damaged, bounds>>
ContextStops == /\ stopping /\ stage = "down" /\ Idle("context")
                /\ Goto("context", "closing", Terminating("context"))
                /\ UNCHANGED <<sup, born, held, thread, others, late, damaged, bounds>>

-----------------------------------------------------------------------------
(* graph_guard_waiter: told to end, or after a failure it tells the owner *)
Waiting == OwnsThread /\ gen \notin ended
ThreadEnds == /\ Waiting /\ gen \in signalled /\ ended' = ended \union {gen}
              /\ UNCHANGED <<sup, procs, held, signalled, others, late, damaged, bounds>>
WaitFails  == /\ Waiting /\ faults < MaxFaults /\ faults' = faults + 1
              /\ ended' = ended \union {gen}
              /\ UNCHANGED <<sup, procs, held, signalled, others, late, damaged, kills>>
(* The owner forwards the error; the Node does not read it while it starts an entity *)
NodeHears  == /\ stage = "up" /\ NobodyStarts /\ gen \in ended /\ gen \notin signalled
              /\ state["node"] = "up" /\ Goto("node", "dead", <<>>)
              /\ UNCHANGED <<sup, born, held, thread, others, late, damaged, bounds>>

Next ==
  \/ \E p \in Processes : RunStep(p) \/ Refused(p) \/ RclFails(p) \/ Terminated(p)
  \/ \E p \in Entities \union {"node"} : Kill(p)
  \/ \E e \in Entities : StartEntity(e) \/ Initialized(e) \/ Work(e) \/ StopEntity(e) \/ ShutDown(e)
  \/ \E e \in Services : StartTask(e)
  \/ GhostStep \/ TaskStep \/ ThreadEnds \/ WaitFails \/ NodeHears
  \/ OwnerStarted \/ NodeStarted \/ StartFails \/ ChildDied \/ HelperDied \/ StopNode
  \/ StopApplication \/ EntitiesStopped \/ NodeStopped \/ OwnerStops \/ Restart \/ Down
  \/ ContextStops

(* NIFs return, a process takes the messages of its mailbox in turn, so that of  *)
(* its supervisor too, and the thread's wait returns a triggered condition.      *)
Fairness ==
  /\ \A p \in Processes : WF_vars(RunStep(p) \/ Refused(p)) /\ WF_vars(Terminated(p))
  /\ \A e \in Entities : WF_vars(Initialized(e)) /\ SF_vars(ShutDown(e))
  /\ WF_vars(ThreadEnds) /\ WF_vars(NodeHears) /\ WF_vars(ContextStops)
  /\ WF_vars(\/ OwnerStarted \/ NodeStarted \/ StartFails \/ ChildDied \/ EntitiesStopped
             \/ NodeStopped \/ OwnerStops \/ Restart \/ Down)
Spec == Init /\ [][Next]_vars
FairSpec == Spec /\ Fairness

-----------------------------------------------------------------------------
(* Whose a token is, and what it cannot do without *)
Base(x) == IF x[1] \in {"context", "node", "thread", "entity", "clock", "wait_set"} THEN x ELSE x[2]
HolderOf(x) == CASE Base(x)[1] \in {"node", "thread"} -> <<"owner", Base(x)[2]>>
                 [] Base(x)[1] = "context"            -> <<"context">>
                 [] OTHER                             -> <<Base(x)[2]>>
GenerationOf(x) == CASE Base(x)[1] \in {"node", "thread"} -> Base(x)[2]
                     [] Base(x)[1] = "context"            -> gen
                     [] OTHER                             -> born[Base(x)[2]]
Needs(x) ==
  CASE x[1] \in {"node", "wait_set"} -> {Context}
    [] x[1] = "thread" -> {Context, Node(x[2]), ThreadContext(x), ExitCondition(x)}
    [] x[1] = "entity" -> IF x[2] \in Timers THEN {Context, Clock(x[2])} ELSE {Node(born[x[2]])}
    [] x[1] = "registered" -> {x[2], Ref("keep", x[2], x[3])}
    [] OTHER -> {}
\* memory that the VM collects with its terms, or keeps
Memory == {"term", "alloc", "thread_context"}
Sound == {x \in held : HolderOf(x) \notin damaged}

(* Everything native stands on what it needs: the node is finalised after its    *)
(* entities and after its wait thread was joined, timers before their clock, the *)
(* context last, and what the middleware calls back with is kept; excepted is    *)
(* what a killed process, or one whose rcl call failed, left behind.             *)
(* (ARCHITECTURE.md:44-50, the terminate callbacks and the supervisors' order.)  *)
HandlesStand == \A x \in Sound : Needs(x) \subseteq held

(* No process is refused a handle or touches one that is finalised; only the     *)
(* dirty NIF of a killed process and a service callback's Task may.              *)
UsesAreLive == late \subseteq {"task", "ghost"}

(* A replacement starts when nothing of the old node is left: no process, and    *)
(* no handle but those of the damaged; and when the application has stopped no   *)
(* handle is left at all (ARCHITECTURE.md:48-51).  Excepted is memory: the VM    *)
(* collects it, but for a callback resource, whose reference is kept for ever.   *)
GenerationsApart ==
  /\ \A e \in Entities : state[e] \in {"init", "up", "closing"} => born[e] = gen
  /\ \A x \in Sound : x[1] \in Memory \/ (GenerationOf(x) = gen /\ state["context"] # "dead")

(* A teardown or a start ends, with a node or without one, and an application    *)
(* that stops finalises its context: nobody waits for ever for an entity, for    *)
(* the join of the wait thread or for the owner, whose shutdown has no limit.    *)
StopsEnd == /\ []<>(stage \in {"up", "down"})
            /\ stopping ~> state["context"] = "dead"
=============================================================================
