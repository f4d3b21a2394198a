----------------------------- MODULE MCNifPaths -----------------------------
(* Every NIF of the library, and the profiles that are worth converting *)
EXTENDS NifPaths

Context == <<"context">>
Node    == <<"node">>
Clock   == <<"clock">>
Entity  == <<"entity">>
Timer   == <<"timer">>
WaitSet == <<"wait_set">>
Goal    == <<"goal">>
Info    == <<"goal_info">>
Thread  == <<"thread">>
Buffer  == <<"buffer">>

Call(name, nif, given) == [name |-> name, steps |-> nif.steps, given |-> given]
Each(nifs, given)      == {Call("other", nif, given) : nif \in nifs}
(* A callback that is cleared was set, an entity that is finalised may have some *)
Set(ch) == {Registered(Entity, ch), Active(Entity, ch), Ref("keep", Entity, ch),
            Ref("term", Entity, ch), Entity}

MCCalls ==
  {Call("rcl_init", nif_rcl_init(Context), {}),
   Call("node_start_waitset_thread",
        nif_node_start_waitset_thread(Context, Node, Thread), {Context, Node}),
   Call("action_expire_goals", nif_rcl_action_expire_goals(Entity, Info), {Entity}),
   Call("action_process_cancel_request", nif_rcl_action_process_cancel_request(Entity), {Entity}),
   Call("test_qos_profile", Regular(<<Args, Qos>>), {}),
   Call("rmw_qos_profile", Regular(<<Args>>), {})}
  \union Each({nif_rcl_clock_init(Clock), nif_rcl_calculate_type_hash, nif_tf2_buffer_new(Buffer)}, {})
  \union Each({nif_tf2_buffer_destroy(Buffer), nif_tf2_clear(Buffer), nif_tf2_set_transform(Buffer),
               nif_tf2_lookup_transform(Buffer), nif_tf2_can_transform(Buffer),
               nif_tf2_all_frames_as_yaml(Buffer), nif_tf2_list_frames(Buffer),
               nif_tf2_get_latest_common_time(Buffer), nif_tf2_transform(Buffer)}, {Buffer})
  \union Each({nif_rcl_fini(Context), nif_rcl_node_init(Context, Node),
               nif_rcl_wait_set_init_subscription(Context, WaitSet),
               nif_rcl_wait_set_init_timer(Context, WaitSet),
               nif_rcl_wait_set_init_client(Context, WaitSet),
               nif_rcl_wait_set_init_service(Context, WaitSet)}, {Context})
  \union Each({nif_rcl_clock_fini(Clock), nif_rcl_clock_get_now(Clock),
               nif_rcl_clock_time_started(Clock), nif_rcl_clock_valid(Clock),
               nif_rcl_enable_ros_time_override(Clock), nif_rcl_disable_ros_time_override(Clock),
               nif_rcl_set_ros_time_override(Clock)}, {Clock})
  \union Each({nif_rcl_node_fini(Node),
               nif_rcl_node_get_graph_guard_condition(Node),
               nif_rcl_publisher_init(Node, Entity), nif_rcl_subscription_init(Node, Entity),
               nif_rcl_service_init(Node, Entity), nif_rcl_client_init(Node, Entity),
               nif_rcl_action_client_init(Node, Entity)}, {Node})
  \union Each({nif_node_stop_waitset_thread(Thread)},
              {Thread, ThreadContext(Thread), ExitCondition(Thread), ThreadOpts(Thread)})
  \union Each({nif_rcl_publisher_fini(Node, Entity),
               nif_rcl_service_server_is_available(Node, Entity),
               nif_rcl_action_server_is_available(Node, Entity)}, {Node, Entity})
  \union Each({nif_rcl_service_configure_service_introspection(Node, Entity, Clock),
               nif_rcl_client_configure_service_introspection(Node, Entity, Clock)},
              {Node, Entity, Clock})
  \union Each({nif_rcl_publish(Entity), nif_rcl_take(Entity), nif_rcl_take_with_info(Entity),
               nif_rcl_subscription_set_on_new_message_callback(Entity),
               nif_rcl_service_set_on_new_request_callback(Entity),
               nif_rcl_client_set_on_new_response_callback(Entity),
               nif_rcl_take_request_with_info(Entity), nif_rcl_send_response(Entity),
               nif_rcl_take_response_with_info(Entity), nif_rcl_send_request(Entity),
               nif_rcl_action_client_set_cancel_client_callback(Entity),
               nif_rcl_action_client_set_feedback_subscription_callback(Entity),
               nif_rcl_action_client_set_goal_client_callback(Entity),
               nif_rcl_action_client_set_result_client_callback(Entity),
               nif_rcl_action_client_set_status_subscription_callback(Entity),
               nif_rcl_action_take_cancel_response(Entity), nif_rcl_action_take_feedback(Entity),
               nif_rcl_action_take_goal_response(Entity), nif_rcl_action_take_result_response(Entity),
               nif_rcl_action_take_status(Entity), nif_rcl_action_send_cancel_request(Entity),
               nif_rcl_action_send_goal_request(Entity), nif_rcl_action_send_result_request(Entity),
               nif_rcl_action_server_set_cancel_service_callback(Entity),
               nif_rcl_action_server_set_goal_service_callback(Entity),
               nif_rcl_action_server_set_result_service_callback(Entity),
               nif_rcl_action_publish_feedback(Entity), nif_rcl_action_publish_status(Entity),
               nif_rcl_action_notify_goal_done(Entity), nif_rcl_action_server_goal_exists(Entity),
               nif_rcl_action_accept_new_goal(Entity, Goal),
               nif_rcl_action_take_cancel_request(Entity), nif_rcl_action_take_goal_request(Entity),
               nif_rcl_action_take_result_request(Entity),
               nif_rcl_action_send_cancel_response(Entity),
               nif_rcl_action_send_goal_response(Entity),
               nif_rcl_action_send_result_response(Entity)}, {Entity})
  \union Each({nif_rcl_subscription_clear_message_callback(Entity),
               nif_rcl_subscription_fini(Node, Entity)}, {Node} \union Set("message"))
  \union Each({nif_rcl_service_clear_request_callback(Entity),
               nif_rcl_service_fini(Node, Entity)}, {Node} \union Set("request"))
  \union Each({nif_rcl_client_clear_response_callback(Entity),
               nif_rcl_client_fini(Node, Entity)}, {Node} \union Set("response"))
  \union Each({nif_rcl_action_client_clear_cancel_client_callback(Entity),
               nif_rcl_action_server_clear_cancel_service_callback(Entity),
               nif_rcl_action_client_fini(Node, Entity),
               nif_rcl_action_server_fini(Node, Entity)}, {Node} \union Set("cancel"))
  \union Each({nif_rcl_action_client_clear_feedback_subscription_callback(Entity),
               nif_rcl_action_client_fini(Node, Entity)}, {Node} \union Set("feedback"))
  \union Each({nif_rcl_action_client_clear_goal_client_callback(Entity),
               nif_rcl_action_server_clear_goal_service_callback(Entity)}, {Node} \union Set("goal"))
  \union Each({nif_rcl_action_client_clear_result_client_callback(Entity),
               nif_rcl_action_server_clear_result_service_callback(Entity)},
              {Node} \union Set("result"))
  \union Each({nif_rcl_action_client_clear_status_subscription_callback(Entity)},
              {Node} \union Set("status"))
  \union Each({nif_rcl_timer_init(Context, Clock, Timer)}, {Context, Clock})
  \union Each({nif_rcl_timer_fini(Timer), nif_rcl_timer_is_ready(Timer), nif_rcl_timer_call(Timer)},
              {Timer})
  \union Each({nif_rcl_wait_set_fini(WaitSet), nif_rcl_wait_subscription(WaitSet, Entity),
               nif_rcl_wait_timer(WaitSet, Entity), nif_rcl_wait_client(WaitSet, Entity),
               nif_rcl_wait_service(WaitSet, Entity)}, {WaitSet, Entity})
  \union Each({nif_rcl_action_server_init(Node, Clock, Entity)}, {Node, Clock})
  \union Each({nif_rcl_action_server_get_goal_handles(Entity, Goal)}, {Entity, Goal})
  \union Each({nif_rcl_action_update_goal_state(Goal), nif_rcl_action_goal_handle_get_status(Goal),
               nif_rcl_action_goal_handle_is_active(Goal),
               nif_rcl_action_goal_handle_is_cancelable(Goal),
               nif_rcl_action_goal_handle_is_valid(Goal)}, {Goal})
  \union Each({nif_rcl_get_client_names_and_types_by_node(Node),
               nif_rcl_get_publisher_names_and_types_by_node(Node),
               nif_rcl_get_subscriber_names_and_types_by_node(Node),
               nif_rcl_get_service_names_and_types_by_node(Node),
               nif_rcl_action_get_client_names_and_types_by_node(Node),
               nif_rcl_action_get_server_names_and_types_by_node(Node),
               nif_rcl_get_service_names_and_types(Node), nif_rcl_action_get_names_and_types(Node),
               nif_rcl_get_topic_names_and_types(Node), nif_rcl_get_node_names(Node),
               nif_rcl_get_node_names_with_enclaves(Node),
               nif_rcl_get_publishers_info_by_topic(Node),
               nif_rcl_get_subscribers_info_by_topic(Node),
               nif_rcl_count_publishers(Node), nif_rcl_count_subscribers(Node)}, {Node})

-----------------------------------------------------------------------------
(* The struct Elixir starts from, changed in one place, or in a duration *)
Struct(d) == [k \in {Keys[i] : i \in 1..9} \union {"__struct__"} |->
  CASE k \in DOMAIN Policies -> Atom(CHOOSE p \in Policies[k] : TRUE)
    [] k \in Durations       -> Double(IF k = "lifespan" THEN d ELSE 0)
    [] k = "depth"           -> Uint(2)
    [] OTHER                 -> Atom("Elixir.Rclex.QoS")]
Values == {Atom("deprecated"), Atom("keep_all"), Atom("volatile"), Uint(0), Uint(UIntMax),
           Uint(UIntMax + 1), Double(0), <<"other">>}
Without(m, k) == [x \in DOMAIN m \ {k} |-> m[x]]
MCProfiles ==
  {Struct(ToDouble([sec |-> s, nsec |-> n])) : s \in {0, 1, 6, 24, 99}, n \in 0..(NsPerSec - 1)}
  \union {Struct(d) : d \in 1..5}
  \union {[Struct(0) EXCEPT ![k] = v] : k \in DOMAIN Struct(0) \ {"__struct__"}, v \in Values}
  \union {Without(Struct(0), k) : k \in DOMAIN Struct(0)}
  \union {[k \in (DOMAIN Struct(0) \ {"depth"}) \union {"dept"} |->
             IF k = "dept" THEN Uint(2) ELSE Struct(0)[k]]}

Reported(d) == [k \in {Keys[i] : i \in 1..9} |->
  CASE k \in DOMAIN Policies -> CHOOSE p \in Policies[k] : TRUE
    [] k \in Durations       -> IF k = "deadline" THEN d ELSE [sec |-> 0, nsec |-> 0]
    [] k = "depth"           -> 1]
MCRmwQos ==
  {Reported([sec |-> s, nsec |-> n]) : s \in {0, 1, 6, 24, 99}, n \in 0..(NsPerSec - 1)}
  \union {[Reported([sec |-> 0, nsec |-> 0]) EXCEPT !.reliability = "best_available"]}
=============================================================================
