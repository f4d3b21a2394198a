----------------------------- MODULE NativeCalls -----------------------------
(***************************************************************************)
(* The NIFs of src/src, the C functions the Erlang processes call, as data: *)
(* a call is a sequence of steps, and a step says which handles it checks   *)
(* for validity, which it dereferences, what exists after it and what no    *)
(* longer does, the outcomes other than success it may have, and what such  *)
(* an outcome releases before it returns.  NifPaths runs one call along all *)
(* its paths, NodeStack those of several processes against each other.      *)
(*                                                                          *)
(* What exists is a set of tokens: a native handle (node, publisher, ...),  *)
(* a resource term that refers to it, a reference to a callback resource, a *)
(* callback registered with the middleware, a temporary block of memory.    *)
(***************************************************************************)
EXTENDS Naturals, Sequences

TermOf(h)         == <<"term", h>>            \* a resource term handed to the VM
Registered(h, ch) == <<"registered", h, ch>>  \* rcl calls back with user data
Active(h, ch)     == <<"active", h, ch>>      \* callback_resource->active
Ref(r, h, ch)     == <<r, h, ch>>             \* a reference to the callback resource
Block(b)          == <<"block", b>>                 \* memory of the call itself

(***************************************************************************)
(* Outcomes.  "badarg" and "raise" return to Erlang as exceptions; of the   *)
(* others those in GoesOn set the result and continue with the clean-up,    *)
(* and the rest returns as a result, "error" in place of an exception.      *)
(***************************************************************************)
Exceptions == {"badarg", "raise"}
GoesOn     == {"not_found", "badarg_late", "raise_late", "other_rc"}

Step(c, u, m, e, f) ==
  [checks |-> c, uses |-> u, makes |-> m, ends |-> e, fails |-> f,
   undo |-> {}, cleanup |-> FALSE]

Args          == Step({}, {}, {}, {}, {"badarg"})      \* number and types of the arguments
Valid(h)      == Step({h}, {}, {}, {}, {"raise"})      \* rcl_..._is_valid
Use(u, f)     == Step({}, u, {}, {}, f)
Make(u, m, f) == Step({}, u, m, {}, f)
End(u, e, f)  == Step({}, u, {}, e, f)
Undo(s, x)    == [s EXCEPT !.undo = x]                 \* a failure of s ends x
Cleanup(x)    == [End({}, x, {"raise"}) EXCEPT !.cleanup = TRUE]  \* finalises x, empty or not
Term(h)       == Make({h}, {TermOf(h)}, {})            \* enif_make_resource, and the allocation's release
(* get_c_qos_profile: how it fails is decided by the profile, see QosProfile *)
Qos           == Use({}, {"qos"})
(* The name is a string and rmw validates it *)
Name          == Use({}, {"badarg", "raise"})

Regular(steps) == [dirty |-> FALSE, steps |-> steps]
DirtyIo(steps) == [dirty |-> TRUE, steps |-> steps]

-----------------------------------------------------------------------------
(* Callback resources.  One reference of the allocation, one kept for the   *)
(* middleware, one of the term that is returned: clearing gives back one.   *)

SetCallback(h, ch) ==
  <<Args, Valid(h),
    Make({h}, {Ref("alloc", h, ch), Ref("keep", h, ch), Active(h, ch)}, {}),
    Make({h, Ref("keep", h, ch)}, {Registered(h, ch)}, {"raise"}),
    Make({Ref("keep", h, ch)}, {Ref("term", h, ch)}, {})>>

ClearCallback(h, ch) ==
  <<Args, Valid(h),
    End({Ref("term", h, ch)}, {Active(h, ch)}, {}),
    End({h}, {Registered(h, ch)}, {"raise"}),
    End({Ref("keep", h, ch)}, {Ref("keep", h, ch)}, {})>>

(* The finalisers clear the native callbacks first, in this order *)
Unregister(h, chs) == [i \in 1..Len(chs) |-> End({h}, {Registered(h, chs[i])}, {"raise"})]

-----------------------------------------------------------------------------
(* Context and clocks *)

(* The arguments are copied into blocks of their own; a term that is no list or *)
(* an element that is no text frees what was copied.                            *)
parse_ros_args == <<Make({}, {Block("ros_args")}, {"badarg"})>>
free_ros_args  == <<End({Block("ros_args")}, {Block("ros_args")}, {})>>

nif_rcl_init(c) ==
  DirtyIo(parse_ros_args
          \o <<Make({}, {Block("init_options")}, {"raise"}),
               Undo(Make({Block("ros_args"), Block("init_options")}, {c}, {"raise"}),
                    {Block("ros_args")})>>
          \o free_ros_args
          \o <<End({}, {Block("init_options")}, {"raise"}), Term(c)>>)

nif_rcl_fini(c) ==
  DirtyIo(<<Args, Valid(c), Use({c}, {"raise"}), End({c}, {c}, {"raise"})>>)

nif_rcl_clock_init(k) ==
  DirtyIo(<<Args, Use({}, {"raise"}), Make({}, {k}, {"badarg"}), Term(k)>>)
nif_rcl_clock_fini(k) == DirtyIo(<<Args, End({k}, {k}, {"badarg"})>>)
nif_rcl_clock_get_now(k)             == Regular(<<Args, Use({k}, {"badarg", "raise"})>>)
nif_rcl_clock_time_started(k)        == Regular(<<Args, Use({k}, {})>>)
nif_rcl_clock_valid(k)               == Regular(<<Args, Use({k}, {})>>)
nif_rcl_enable_ros_time_override(k)  == Regular(<<Args, Use({k}, {"badarg", "raise"})>>)
nif_rcl_disable_ros_time_override(k) == Regular(<<Args, Use({k}, {"badarg", "raise"})>>)
nif_rcl_set_ros_time_override(k)     == Regular(<<Args, Use({k}, {"badarg", "raise"})>>)

-----------------------------------------------------------------------------
(* The node and the thread that waits for graph events *)

\* Mutant: a node that cannot be made keeps its options.
nif_rcl_node_init_keeps_options(c, n) ==
  LET args    == Block("ros_args")
      options == Block("node_options")
  IN  DirtyIo(<<Args, Valid(c), Name, Name>>
              \o parse_ros_args
              \o <<Make({}, {options}, {}),
                   Undo(Use({args, options}, {"raise"}), {args, options})>>
              \o free_ros_args
              \o <<Make({c, options}, {n}, {"raise"}),
                   End({}, {options}, {"raise"}), Term(n)>>)

nif_rcl_node_init(c, n) ==
  LET args    == Block("ros_args")
      options == Block("node_options")
  IN  DirtyIo(<<Args, Valid(c), Name, Name>>
              \o parse_ros_args
              \o <<Make({}, {options}, {}),
                   Undo(Use({args, options}, {"raise"}), {args, options})>>
              \o free_ros_args
              \o <<Undo(Make({c, options}, {n}, {"raise"}), {options}),
                   End({}, {options}, {"raise"}), Term(n)>>)

nif_rcl_node_fini(n) == DirtyIo(<<Args, Valid(n), End({n}, {n}, {"raise"})>>)

nif_rcl_node_get_graph_guard_condition(n) ==
  Regular(<<Args, Valid(n), Use({n}, {"raise"})>>)

(* t is the thread, its context the exit condition and what the thread reads. *)
(* Until the term is made the context has the reference of its allocation.    *)
ThreadContext(t) == <<"thread_context", t>>
ExitCondition(t) == <<"exit_condition", t>>
ThreadOpts(t)    == <<"thread_opts", t>>

nif_node_start_waitset_thread(c, n, t) ==
  Regular(<<Args, Valid(c),
            Make({}, {ThreadContext(t)}, {"raise"}),
            Make({}, {ThreadOpts(t)}, {"raise"}),
            Make({c}, {ExitCondition(t)}, {"raise"}),
            Make({n, ThreadContext(t)}, {t}, {"raise"}),
            Term(t)>>)

\* Mutant: the thread is joined without being told to end.
nif_node_stop_waitset_thread_untold(t) ==
  Regular(<<Args,
            End({ThreadContext(t)}, {t}, {"raise"}),
            End({}, {ThreadOpts(t)}, {}),
            End({}, {ExitCondition(t)}, {"fini_failed"})>>)

(* The join waits for the thread to end, see ThreadEnds in NodeStack *)
nif_node_stop_waitset_thread(t) ==
  Regular(<<Args,
            Use({ExitCondition(t)}, {"raise"}),
            End({ThreadContext(t)}, {t}, {"raise"}),
            End({}, {ThreadOpts(t)}, {}),
            End({}, {ExitCondition(t)}, {"fini_failed"})>>)

-----------------------------------------------------------------------------
(* Publishers, subscriptions, services, clients.  n is the node, h the entity. *)

EntityInit(n, h) == <<Args, Valid(n), Args, Name, Qos, Make({n}, {h}, {"raise"}), Term(h)>>
EntityFini(n, h, chs) ==
  <<Args, Valid(h), Args, Valid(n)>> \o Unregister(h, chs) \o <<End({h, n}, {h}, {"raise"})>>

nif_rcl_publisher_init(n, h) == DirtyIo(EntityInit(n, h))
nif_rcl_publisher_fini(n, h) == DirtyIo(EntityFini(n, h, <<>>))
nif_rcl_publish(h)           == DirtyIo(<<Args, Valid(h), Args, Use({h}, {"raise"})>>)

nif_rcl_subscription_init(n, h) == DirtyIo(EntityInit(n, h))
nif_rcl_subscription_fini(n, h) == DirtyIo(EntityFini(n, h, <<"message">>))
nif_rcl_subscription_set_on_new_message_callback(h) == Regular(SetCallback(h, "message"))
nif_rcl_subscription_clear_message_callback(h)      == Regular(ClearCallback(h, "message"))
nif_rcl_take(h) == Regular(<<Args, Valid(h), Args, Use({h}, {"take_failed", "raise"})>>)
nif_rcl_take_with_info(h) ==
  Regular(<<Args, Valid(h), Args, Use({h}, {"take_failed", "raise"}), Use({}, {"raise"})>>)

nif_rcl_service_init(n, h) == DirtyIo(EntityInit(n, h))
nif_rcl_service_fini(n, h) == DirtyIo(EntityFini(n, h, <<"request">>))
nif_rcl_service_set_on_new_request_callback(h) == Regular(SetCallback(h, "request"))
nif_rcl_service_clear_request_callback(h)      == Regular(ClearCallback(h, "request"))
nif_rcl_take_request_with_info(h) ==
  Regular(<<Args, Valid(h), Args, Use({h}, {"take_failed", "raise"})>>)
nif_rcl_send_response(h) == Regular(<<Args, Valid(h), Args, Args, Use({h}, {"raise"})>>)

nif_rcl_client_init(n, h) == DirtyIo(EntityInit(n, h))
nif_rcl_client_fini(n, h) == DirtyIo(EntityFini(n, h, <<"response">>))
nif_rcl_client_set_on_new_response_callback(h) == Regular(SetCallback(h, "response"))
nif_rcl_client_clear_response_callback(h)      == Regular(ClearCallback(h, "response"))
nif_rcl_take_response_with_info(h) ==
  Regular(<<Args, Valid(h), Args, Use({h}, {"take_failed", "raise"})>>)
nif_rcl_send_request(h) == Regular(<<Args, Valid(h), Args, Use({h}, {"raise"})>>)
nif_rcl_service_server_is_available(n, h) ==
  Regular(<<Args, Valid(n), Args, Valid(h), Use({n, h}, {"raise", "other_rc"})>>)

(* The clock k that stamps the events is not checked by the NIF *)
ConfigureIntrospection(n, h, k) ==
  <<Args, Valid(h), Args, Valid(n), Args, Qos, Args, Use({h, n, k}, {"raise"})>>
nif_rcl_service_configure_service_introspection(n, h, k) ==
  DirtyIo(ConfigureIntrospection(n, h, k))
nif_rcl_client_configure_service_introspection(n, h, k) ==
  DirtyIo(ConfigureIntrospection(n, h, k))

-----------------------------------------------------------------------------
(* Timers and wait sets: c the context, k the clock, t the timer, w the wait set *)

nif_rcl_timer_init(c, k, t) ==
  DirtyIo(<<Args, Valid(c), Args, Valid(k), Args, Make({c, k}, {t}, {"badarg"}), Term(t)>>)
nif_rcl_timer_fini(t)     == DirtyIo(<<Args, End({t}, {t}, {"raise"})>>)
nif_rcl_timer_is_ready(t) == DirtyIo(<<Args, Use({t}, {"raise"})>>)
nif_rcl_timer_call(t)     == DirtyIo(<<Args, Use({t}, {"raise"})>>)

WaitSetInit(c, w) == DirtyIo(<<Args, Valid(c), Make({c}, {w}, {"raise"}), Term(w)>>)
nif_rcl_wait_set_init_subscription(c, w) == WaitSetInit(c, w)
nif_rcl_wait_set_init_timer(c, w)        == WaitSetInit(c, w)
nif_rcl_wait_set_init_client(c, w)       == WaitSetInit(c, w)
nif_rcl_wait_set_init_service(c, w)      == WaitSetInit(c, w)
nif_rcl_wait_set_fini(w) == DirtyIo(<<Args, Valid(w), End({w}, {w}, {"raise"})>>)

(* A wait longer than 1000 microseconds is refused; clear, add, wait *)
WaitFor(w, h, checked) ==
  <<Args, Valid(w), Args, Use({}, {"raise"}), Args>>
  \o (IF checked THEN <<Valid(h)>> ELSE <<>>)
  \o <<Use({w}, {"raise"}), Use({w, h}, {"raise"}), Use({w, h}, {"timeout", "raise"})>>
nif_rcl_wait_subscription(w, h) == DirtyIo(WaitFor(w, h, TRUE))
nif_rcl_wait_timer(w, t)        == DirtyIo(WaitFor(w, t, FALSE))
nif_rcl_wait_client(w, h)       == DirtyIo(WaitFor(w, h, FALSE))
nif_rcl_wait_service(w, h)      == DirtyIo(WaitFor(w, h, FALSE))

-----------------------------------------------------------------------------
(* Action clients *)

FiveQos == <<Qos, Qos, Qos, Qos, Qos>>

nif_rcl_action_client_init(n, h) ==
  DirtyIo(<<Args, Valid(n), Args, Name, Args>> \o FiveQos \o <<Make({n}, {h}, {"raise"}), Term(h)>>)
nif_rcl_action_client_fini(n, h) ==
  DirtyIo(EntityFini(n, h, <<"cancel", "feedback", "goal", "result", "status">>))

nif_rcl_action_client_set_cancel_client_callback(h)         == Regular(SetCallback(h, "cancel"))
nif_rcl_action_client_set_feedback_subscription_callback(h) == Regular(SetCallback(h, "feedback"))
nif_rcl_action_client_set_goal_client_callback(h)           == Regular(SetCallback(h, "goal"))
nif_rcl_action_client_set_result_client_callback(h)         == Regular(SetCallback(h, "result"))
nif_rcl_action_client_set_status_subscription_callback(h)   == Regular(SetCallback(h, "status"))
nif_rcl_action_client_clear_cancel_client_callback(h)         == Regular(ClearCallback(h, "cancel"))
nif_rcl_action_client_clear_feedback_subscription_callback(h) == Regular(ClearCallback(h, "feedback"))
nif_rcl_action_client_clear_goal_client_callback(h)           == Regular(ClearCallback(h, "goal"))
nif_rcl_action_client_clear_result_client_callback(h)         == Regular(ClearCallback(h, "result"))
nif_rcl_action_client_clear_status_subscription_callback(h)   == Regular(ClearCallback(h, "status"))

ActionTake(h) == Regular(<<Args, Valid(h), Args, Use({h}, {"take_failed", "raise"})>>)
nif_rcl_action_take_cancel_response(h) == ActionTake(h)
nif_rcl_action_take_feedback(h)        == ActionTake(h)
nif_rcl_action_take_goal_response(h)   == ActionTake(h)
nif_rcl_action_take_result_response(h) == ActionTake(h)
nif_rcl_action_take_status(h)          == ActionTake(h)

ActionSend(h) == Regular(<<Args, Valid(h), Args, Use({h}, {"badarg", "raise"})>>)
nif_rcl_action_send_cancel_request(h) == ActionSend(h)
nif_rcl_action_send_goal_request(h)   == ActionSend(h)
nif_rcl_action_send_result_request(h) == ActionSend(h)
nif_rcl_action_server_is_available(n, h) ==
  Regular(<<Args, Valid(n), Args, Valid(h), Use({n, h}, {"raise"})>>)

-----------------------------------------------------------------------------
(* Action servers.  k is the clock, g a goal; rcl owns the goal handles. *)

nif_rcl_action_server_init(n, k, h) ==
  DirtyIo(<<Args, Valid(n), Args, Name, Args, Args, Args>> \o FiveQos
          \o <<Make({n, k}, {h}, {"raise"}), Term(h)>>)
nif_rcl_action_server_fini(n, h) == DirtyIo(EntityFini(n, h, <<"cancel", "goal", "result">>))

nif_rcl_action_server_set_cancel_service_callback(h)   == Regular(SetCallback(h, "cancel"))
nif_rcl_action_server_set_goal_service_callback(h)     == Regular(SetCallback(h, "goal"))
nif_rcl_action_server_set_result_service_callback(h)   == Regular(SetCallback(h, "result"))
nif_rcl_action_server_clear_cancel_service_callback(h) == Regular(ClearCallback(h, "cancel"))
nif_rcl_action_server_clear_goal_service_callback(h)   == Regular(ClearCallback(h, "goal"))
nif_rcl_action_server_clear_result_service_callback(h) == Regular(ClearCallback(h, "result"))

(* A request is a message of its own; the answer is a message or a status *)
ServerCall(h) == <<Args, Valid(h), Args, Use({h}, {"raise"})>>
nif_rcl_action_publish_feedback(h)   == Regular(ServerCall(h))
nif_rcl_action_publish_status(h)     == Regular(ServerCall(h))
nif_rcl_action_notify_goal_done(h)   == Regular(<<Args, Valid(h), Use({h}, {"raise"})>>)
nif_rcl_action_server_goal_exists(h) == Regular(<<Args, Valid(h), Args, Use({h}, {})>>)
nif_rcl_action_accept_new_goal(h, g) ==
  Regular(<<Args, Valid(h), Args, Make({h}, {g}, {"raise"}), Make({g}, {TermOf(g)}, {})>>)
nif_rcl_action_server_get_goal_handles(h, g) ==
  LET terms == Block("goal_handles_terms")
  IN  Regular(<<Args, Valid(h), Use({h}, {"raise"}), Make({}, {terms}, {}),
                Make({h, terms}, {TermOf(g)}, {}), End({terms}, {terms}, {})>>)

(* The answer holds one expired goal, whose message info the caller destroys *)
nif_rcl_action_expire_goals(h, info) ==
  LET goals == Block("expired_goals")
      terms == Block("expired_goals_terms")
  IN  Regular(<<Args, Valid(h), Args, Make({}, {goals}, {"raise"}),
                Undo(Use({h, goals}, {"badarg", "raise"}), {goals}),
                Make({}, {terms}, {}),
                Undo(Make({}, {info}, {"raise"}), {goals, terms}),
                Undo(Use({goals, info}, {"raise"}), {goals, terms}),
                Term(info),
                End({goals}, {goals}, {}), End({terms}, {terms}, {})>>)

\* Mutant: the response is finalised before it is copied.
nif_rcl_action_process_cancel_request_copies_last(h) ==
  LET response == Block("cancel_response")
  IN  Regular(<<Args, Valid(h), Args, Args, Make({}, {response}, {}),
                Undo(Use({h, response}, {"raise"}), {response}),
                Undo(End({response}, {response}, {"raise"}), {response}),
                Use({response}, {"raise"})>>)

nif_rcl_action_process_cancel_request(h) ==
  LET response == Block("cancel_response")
  IN  Regular(<<Args, Valid(h), Args, Args, Make({}, {response}, {}),
                Undo(Use({h, response}, {"raise"}), {response}),
                Use({response}, {"raise"}),
                Undo(End({response}, {response}, {"raise"}), {response})>>)

ServerTake(h) == Regular(<<Args, Valid(h), Args, Use({h}, {"badarg", "take_failed", "raise"})>>)
nif_rcl_action_take_cancel_request(h) == ServerTake(h)
nif_rcl_action_take_goal_request(h)   == ServerTake(h)
nif_rcl_action_take_result_request(h) == ServerTake(h)

ServerSend(h) == Regular(<<Args, Valid(h), Args, Args, Use({h}, {"badarg", "raise"})>>)
nif_rcl_action_send_cancel_response(h) == ServerSend(h)
nif_rcl_action_send_goal_response(h)   == ServerSend(h)
nif_rcl_action_send_result_response(h) == ServerSend(h)

(* What is done with a goal handle: only rcl looks whether it is one *)
nif_rcl_action_update_goal_state(g) ==
  Regular(<<Args, Use({}, {"raise"}), Use({g}, {"raise"})>>)
nif_rcl_action_goal_handle_get_status(g)    == Regular(<<Args, Use({g}, {"raise"})>>)
nif_rcl_action_goal_handle_is_active(g)     == Regular(<<Args, Use({g}, {})>>)
nif_rcl_action_goal_handle_is_cancelable(g) == Regular(<<Args, Use({g}, {})>>)
nif_rcl_action_goal_handle_is_valid(g)      == Regular(<<Args, Use({g}, {})>>)

-----------------------------------------------------------------------------
(* Graph queries of node n: rcl fills a structure, the call makes a list of  *)
(* it and finalises the structure.  What rcl returns and the call has no     *)
(* case for leaves the answer the atom error.                                *)

names       == Block("names")
make_names_and_types ==
  LET a == Block("names_and_types_array")
      t == Block("types_array")
  IN  <<Make({names}, {a}, {}), Make({names}, {t}, {}), End({a, t}, {t}, {}), End({a}, {a}, {})>>
NamesAndTypes(n, args, f) ==
  Regular(<<Args, Valid(n)>> \o args \o <<Make({n}, {names}, f)>>
          \o make_names_and_types \o <<Cleanup({names})>>)
ByNode == <<Args, Args>>

nif_rcl_get_client_names_and_types_by_node(n) ==
  NamesAndTypes(n, ByNode, {"raise", "not_found", "other_rc"})
nif_rcl_get_publisher_names_and_types_by_node(n) ==
  NamesAndTypes(n, ByNode \o <<Args>>, {"raise", "not_found", "other_rc"})
nif_rcl_get_subscriber_names_and_types_by_node(n) ==
  NamesAndTypes(n, ByNode \o <<Args>>, {"raise", "not_found", "other_rc"})
nif_rcl_get_service_names_and_types_by_node(n) ==
  NamesAndTypes(n, ByNode, {"raise", "other_rc"})
nif_rcl_action_get_client_names_and_types_by_node(n) ==
  NamesAndTypes(n, ByNode, {"raise", "other_rc"})
nif_rcl_action_get_server_names_and_types_by_node(n) ==
  NamesAndTypes(n, ByNode, {"raise", "other_rc"})
nif_rcl_get_service_names_and_types(n) == NamesAndTypes(n, <<>>, {"raise", "other_rc"})
nif_rcl_action_get_names_and_types(n)  == NamesAndTypes(n, <<>>, {"raise", "other_rc"})
nif_rcl_get_topic_names_and_types(n)   == NamesAndTypes(n, <<Args>>, {"raise", "other_rc"})

(* One structure per column of the answer, finalised one after the other *)
NodeNames(n, columns) ==
  LET all == {Block(columns[i]) : i \in 1..Len(columns)}
      a   == Block("node_names_array")
  IN  Regular(<<Args, Valid(n), Make({n}, all, {"badarg_late", "raise", "other_rc"}),
                Make(all, {a}, {}), End({a}, {a}, {})>>
              \o [i \in 1..Len(columns) |-> Cleanup({Block(columns[i])})])
nif_rcl_get_node_names(n) == NodeNames(n, <<"node_names", "node_namespaces">>)
nif_rcl_get_node_names_with_enclaves(n) ==
  NodeNames(n, <<"node_names", "node_namespaces", "node_enclaves">>)

endpoints == Block("endpoint_infos")
(* The list is given up, as the exception, when there is no memory for a gid *)
make_topic_endpoint_info_list ==
  LET a == Block("info_array")
  IN  <<Make({endpoints}, {a}, {}), Undo(End({endpoints, a}, {a}, {"raise_late"}), {a})>>
EndpointInfo(n) ==
  Regular(<<Args, Valid(n), Args, Args, Make({n}, {endpoints}, {"raise", "other_rc"})>>
          \o make_topic_endpoint_info_list \o <<Cleanup({endpoints})>>)
nif_rcl_get_publishers_info_by_topic(n)  == EndpointInfo(n)
nif_rcl_get_subscribers_info_by_topic(n) == EndpointInfo(n)

nif_rcl_count_publishers(n)  == Regular(<<Args, Valid(n), Args, Use({n}, {"badarg", "raise"})>>)
nif_rcl_count_subscribers(n) == Regular(<<Args, Valid(n), Args, Use({n}, {"badarg", "raise"})>>)

-----------------------------------------------------------------------------
(* A description is copied into a message and hashed; the message is destroyed *)

nif_rcl_calculate_type_hash ==
  LET message == Block("type_description")
  IN  Regular(<<Args, Make({}, {message}, {"raise"}),
                Undo(Use({message}, {"badarg", "raise"}), {message}),
                Undo(End({message}, {message}, {"raise"}), {message}),
                Use({}, {"badarg", "raise"})>>)
-----------------------------------------------------------------------------
(* The buffers of tf2.  C++ exceptions become {:error, reason}; a NIF that reads  *)
(* or writes a buffer asks whether it was destroyed and uses it under one lock,   *)
(* which makes the two a single step.                                             *)

DirtyCpu(steps) == [dirty |-> TRUE, steps |-> steps]
with_buffer(b)  == DirtyCpu(<<Args, Step({b}, {b}, {}, {}, {"error"})>>)

nif_tf2_buffer_new(b) ==
  DirtyCpu(<<Use({}, {"error"}), Make({}, {b}, {"error"}), Undo(Use({}, {"error"}), {b}), Term(b)>>)
nif_tf2_buffer_destroy(b)         == DirtyCpu(<<Args, End({}, {b}, {})>>)
nif_tf2_clear(b)                  == with_buffer(b)
nif_tf2_set_transform(b)          == with_buffer(b)
nif_tf2_lookup_transform(b)       == with_buffer(b)
nif_tf2_can_transform(b)          == with_buffer(b)
nif_tf2_all_frames_as_yaml(b)     == with_buffer(b)
nif_tf2_list_frames(b)            == with_buffer(b)
nif_tf2_get_latest_common_time(b) == with_buffer(b)
nif_tf2_transform(b)              == with_buffer(b)
=============================================================================
