-------------------------- MODULE ParameterServer --------------------------
(***************************************************************************)
(* Rclex.ParameterServer (lib/rclex/parameter_server.ex): the parameters   *)
(* of one node, declared and set by the node's own processes and by other  *)
(* nodes through services, with callbacks before, on and after a set and   *)
(* an event on /parameter_events after every change.                       *)
(*                                                                         *)
(* One handle_call is one action: the server serialises its callers, the   *)
(* user's callbacks included.  A service request is handled in a Task that *)
(* makes one call and then responds.  Calls that only read, and calls      *)
(* refused without any effect but their reply, have no action, unless the  *)
(* reply itself matters.                                                   *)
(***************************************************************************)
EXTENDS Naturals, Sequences, FiniteSets

CONSTANTS
  Names, ReadOnly, Dynamic,    \* parameters; those declared with read_only and with dynamic_typing
  Values, Types, TypeOf,       \* Elixir values and the parameter types inferred from them
  TextOf,                      \* to_string of a value
  Nil, Undeclared,             \* no value, no parameter
  Lists, AtomicLists,          \* lists of {name, parameter value} other nodes ask for
  RawLists,                    \* lists of {name, Elixir value} the application asks for
  PreOutputs,                  \* lists a pre-set callback may make of any list
  Refused,                     \* {name, value} pairs an on-set callback refuses
  ExitingCallbacks             \* whether a callback may exit or throw, e.g. by calling this server

NotSet == [type |-> "not_set", raw |-> Nil]
Stored == {NotSet} \cup [type : Types, raw : Values]     \* ParameterValue structs
Entry  == Names \X Stored

ASSUME ValuesAssumption ==
  /\ "string" \in Types /\ "not_set" \notin Types /\ Nil \notin Values
  /\ Undeclared \notin Stored
  /\ TypeOf \in [Values -> Types]
  /\ TextOf \in [Values -> {v \in Values : TypeOf[v] = "string"}]
ASSUME ListsAssumption ==
  /\ ReadOnly \subseteq Names /\ Dynamic \subseteq Names
  /\ Lists \subseteq Seq(Entry) /\ AtomicLists \subseteq Seq(Entry) /\ PreOutputs \subseteq Seq(Entry)
  /\ RawLists \subseteq Seq(Names \X Values)
  /\ Refused \subseteq Names \X Values
  /\ ExitingCallbacks \in BOOLEAN

VARIABLES
  server,        \* "up", "crashed" or "stopped"; it is not restarted
  parameters,    \* state.parameters
  types,         \* the type in state.parameter_descriptors
  callbacks,     \* the kinds of callbacks that are registered
  told,          \* what the post-set callback was last told of each parameter, or Undeclared
  mirror,        \* the parameters of an observer of /parameter_events
  last           \* the last call of a list: its operation, the list it asked for, and, if it was
                 \* answered, the list after conversion and pre-set callbacks and the results

vars == <<server, parameters, types, callbacks, told, mirror, last>>

NoCall == [op |-> "none", asked |-> <<>>, answered |-> FALSE, list |-> <<>>, results |-> <<>>]
Reply(op, asked, list, results) ==
  last' = [op |-> op, asked |-> asked, answered |-> TRUE, list |-> list, results |-> results]
NoReply(op, asked) ==
  last' = [op |-> op, asked |-> asked, answered |-> FALSE, list |-> <<>>, results |-> <<>>]

Init ==
  /\ server = "up"
  /\ parameters = [n \in Names |-> Undeclared] /\ types = [n \in Names |-> "not_set"]
  /\ callbacks = {}
  /\ told = [n \in Names |-> Undeclared]
  /\ mirror = [n \in Names |-> Undeclared]
  /\ last = NoCall

----------------------------------------------------------------------------
(* Values and lists *)

Infer(v) == [type |-> TypeOf[v], raw |-> v]

\* gen_parameter_value_struct(value, type): only :string and :boolean convert the value.
Label(v, t) ==
  CASE t = "not_set" -> NotSet
    [] t = "string"  -> [type |-> t, raw |-> TextOf[v]]
    [] OTHER         -> [type |-> t, raw |-> v]

\* The NIF that fills a message from a ParameterValue raises otherwise.
Sound(p) == p.type \in Types => TypeOf[p.raw] = p.type

At(list, n)       == {i \in DOMAIN list : list[i][1] = n}
LastFor(list, n)  == list[CHOOSE i \in At(list, n) : \A j \in At(list, n) : j <= i][2]
FirstFor(list, n) == list[CHOOSE i \in At(list, n) : \A j \in At(list, n) : i <= j][2]
Touched(list)     == {n \in Names : At(list, n) # {}}

\* The map f after Map.put of every entry.
Put(f, list) == [n \in Names |-> IF n \in Touched(list) THEN LastFor(list, n) ELSE f[n]]

Declared(n) == parameters[n] # Undeclared

\* Mutant: a dynamic type lifts the read-only mark.
ValidDynamicFirst(n, p) == n \in Dynamic \/ (n \notin ReadOnly /\ types[n] = p.type)
\* validate_parameter_update.
Valid(n, p) == n \notin ReadOnly /\ (n \in Dynamic \/ types[n] = p.type)

Accepts(e) == Declared(e[1]) /\ Valid(e[1], e[2])
\* The entries of a list that are accepted, at their places.
Accepted(list) == [i \in {i \in DOMAIN list : Accepts(list[i])} |-> list[i]]

----------------------------------------------------------------------------
(* Callbacks *)

\* What the pre-set callbacks make of a list.
Rewritten(list) == {list} \cup (IF "pre" \in callbacks THEN PreOutputs ELSE {})

Approved(list) ==
  "on" \in callbacks => \A i \in DOMAIN list : <<list[i][1], list[i][2].raw>> \notin Refused

Tell(news) == told' = IF "post" \in callbacks
                        THEN [n \in Names |-> IF n \in DOMAIN news THEN news[n] ELSE told[n]]
                        ELSE told

\* What a list tells last of each parameter, in its order and in reverse.
LastNews(list)  == [n \in Touched(list) |-> LastFor(list, n)]
FirstNews(list) == [n \in Touched(list) |-> FirstFor(list, n)]

AddCallback(k) ==
  /\ server = "up"
  /\ k \notin callbacks
  /\ callbacks' = callbacks \cup {k}
  /\ last' = NoCall
  /\ UNCHANGED <<server, parameters, types, told, mirror>>

RemoveCallback(k) ==
  /\ server = "up"
  /\ k \in callbacks
  /\ callbacks' = callbacks \ {k}
  /\ told' = IF k = "post" THEN [n \in Names |-> Undeclared] ELSE told
  /\ last' = NoCall
  /\ UNCHANGED <<server, parameters, types, mirror>>

\* terminate/2 stops the services and the publishers; the map dies with the process.
Down(how) ==
  /\ server' = how
  /\ parameters' = [n \in Names |-> Undeclared] /\ types' = [n \in Names |-> "not_set"]
  /\ callbacks' = {}
  /\ UNCHANGED mirror

Stop == server = "up" /\ Down("stopped") /\ last' = NoCall /\ UNCHANGED told

\* The callbacks are guarded by rescue, which lets exits and throws pass.
CallbackExits ==
  /\ ExitingCallbacks
  /\ server = "up"
  /\ callbacks # {}
  /\ Down("crashed")
  /\ last' = NoCall
  /\ UNCHANGED told

----------------------------------------------------------------------------
(* Declaring and setting *)

\* Mutant: the exit of the call to the publisher is caught, after the value was stored.
PublishableAlways(list) == TRUE
\* The publisher process raises on a value that is not sound, and the call to it exits.
Publishable(list) == \A n \in Touched(list) : Sound(LastFor(list, n))

\* Mutant: the event has every parameter that was asked for.
PublishAll(list, done) == mirror' = Put(mirror, list)
\* publish_parameter_event with what was changed.
Publish(list, done) == mirror' = Put(mirror, done)

Declare(n, p) ==
  /\ server = "up"
  /\ ~Declared(n)
  /\ Sound(p)
  /\ parameters' = [parameters EXCEPT ![n] = p]
  /\ types' = [types EXCEPT ![n] = p.type]
  /\ Tell([x \in {n} |-> p])
  /\ Publish(<< <<n, p>> >>, << <<n, p>> >>)
  /\ last' = NoCall
  /\ UNCHANGED <<server, callbacks>>

DeclareBreaks(n, p) ==
  /\ server = "up"
  /\ ~Declared(n)
  /\ ~Sound(p)
  /\ Tell([x \in {n} |-> p])
  /\ Down("crashed")
  /\ last' = NoCall

\* Mutant: each entry is set on the state of before the call.
CommitEachFirst(list, done) ==
  /\ parameters' = [n \in Names |-> IF n \in Touched(done) THEN FirstFor(done, n) ELSE parameters[n]]
  /\ types' = [n \in Names |-> IF n \in Touched(done) THEN LastFor(done, n).type ELSE types[n]]
  /\ Tell(LastNews(done))
  /\ Publish(list, done)
  /\ UNCHANGED <<server, callbacks>>
\* set_one_parameter for each entry that is valid. No entry changes the validity of another.
CommitEach(list, done) ==
  /\ parameters' = Put(parameters, done)
  /\ types' = [n \in Names |-> IF n \in Touched(done) THEN LastFor(done, n).type ELSE types[n]]
  /\ Tell(LastNews(done))
  /\ Publish(list, done)
  /\ UNCHANGED <<server, callbacks>>

\* Mutant: only the first entry is kept.
CommitAtomicHead(list) ==
  /\ parameters' = Put(parameters, SelectSeq(list, LAMBDA e : e = list[1]))
  /\ Tell(LastNews(list))
  /\ Publish(list, list)
  /\ UNCHANGED <<server, types, callbacks>>
\* apply_parameter_updates: the changes are consed, so the callbacks see them last first; the type
\* in the descriptors stays.
CommitAtomic(list) ==
  /\ parameters' = Put(parameters, list)
  /\ Tell(FirstNews(list))
  /\ Publish(list, list)
  /\ UNCHANGED <<server, types, callbacks>>

\* A set whose event the publisher cannot encode: the post-set callbacks have run by then.
Breaks(list, news, op, asked) ==
  /\ ~Publishable(list)
  /\ Tell(news)
  /\ Down("crashed")
  /\ NoReply(op, asked)

\* set_parameter of one value by the application.
SetParameter(n, p) ==
  /\ server = "up"
  /\ \E list \in Rewritten(<< <<n, p>> >>) :
       /\ Approved(list)
       /\ Len(list) = 1
       /\ Accepts(list[1])
       /\ \/ Publishable(list) /\ CommitEach(list, list) /\ last' = NoCall
          \/ Breaks(list, LastNews(list), "single", <<>>)

\* The service set_parameters: one result per entry.
SetEach(asked) ==
  \E list \in Rewritten(asked) :
    /\ server = "up" /\ Approved(list)
    /\ LET done == Accepted(list) IN
         \/ /\ Publishable(done)
            /\ CommitEach(list, done)
            /\ Reply("each", asked, list, [i \in DOMAIN list |-> Accepts(list[i])])
         \/ Breaks(done, LastNews(done), "each", asked)

\* An on-set callback refused: it is given the whole list, and so are all entries refused. It
\* may give any reason; to_string of one that is no text raises in the server.
SetEachRefused(asked) ==
  /\ server = "up"
  /\ \E list \in Rewritten(asked) :
       /\ ~Approved(list)
       /\ \/ /\ Reply("each", asked, list, [i \in DOMAIN list |-> FALSE])
             /\ UNCHANGED <<server, parameters, types, callbacks, told, mirror>>
          \/ /\ Down("crashed")
             /\ NoReply("each", asked)
             /\ UNCHANGED told

AtomicAccepts(list) == \A i \in DOMAIN list : Accepts(list[i])

\* All of a list or nothing, asked for by the service or by the application.
SetAtomically(op, asked, given) ==
  /\ server = "up"
  /\ \E list \in Rewritten(given) :
       /\ Approved(list)
       /\ AtomicAccepts(list)
       /\ \/ Publishable(list) /\ CommitAtomic(list) /\ Reply(op, asked, list, <<TRUE>>)
          \/ Breaks(list, FirstNews(list), op, asked)

\* The service makes its response with to_string(reason), which raises for the tuples that name
\* the undeclared or invalid parameters, and for a callback's reason that is no text: the Task
\* dies without a response.
SetAtomicallyRefused(op, asked, given) ==
  /\ server = "up"
  /\ \E list \in Rewritten(given) :
       \/ /\ ~Approved(list)
          /\ Reply(op, asked, list, <<FALSE>>) \/ (op = "atomic" /\ NoReply(op, asked))
       \/ /\ Approved(list)
          /\ ~AtomicAccepts(list)
          /\ IF op = "atomic" THEN NoReply(op, asked) ELSE Reply(op, asked, list, <<FALSE>>)
  /\ UNCHANGED <<server, parameters, types, callbacks, told, mirror>>

\* convert_parameters_for_set: a value takes the type of its parameter's descriptor.
Convert(raws) ==
  [i \in DOMAIN raws |->
     <<raws[i][1], IF Declared(raws[i][1]) THEN Label(raws[i][2], types[raws[i][1]]) ELSE Infer(raws[i][2])>>]

----------------------------------------------------------------------------
\* Values the application gives, with and without the :type option.
Given == {Infer(v) : v \in Values} \cup {Label(v, t) : v \in Values, t \in Types}

Next ==
  \/ \E n \in Names, p \in Given \cup {NotSet} : Declare(n, p) \/ DeclareBreaks(n, p)
  \/ \E n \in Names, p \in Given : SetParameter(n, p)
  \/ \E list \in Lists : SetEach(list) \/ SetEachRefused(list)
  \/ \E list \in AtomicLists :
       SetAtomically("atomic", list, list) \/ SetAtomicallyRefused("atomic", list, list)
  \/ \E raws \in RawLists :
       SetAtomically("local", raws, Convert(raws)) \/ SetAtomicallyRefused("local", raws, Convert(raws))
  \/ \E k \in {"pre", "on", "post"} : AddCallback(k) \/ RemoveCallback(k)
  \/ CallbackExits
  \/ Stop

Spec == Init /\ [][Next]_vars

----------------------------------------------------------------------------
(* Properties *)

\* The state is well typed, and a server that is down keeps nothing.
TypeOK ==
  /\ server \in {"up", "crashed", "stopped"}
  /\ parameters \in [Names -> Stored \cup {Undeclared}]
  /\ types \in [Names -> Types \cup {"not_set"}]
  /\ callbacks \subseteq {"pre", "on", "post"}
  /\ told \in [Names -> Stored \cup {Undeclared}]
  /\ mirror \in [Names -> Stored \cup {Undeclared}]

\* An observer that applies every event of /parameter_events to an empty map has the parameters
\* of the server, whichever way they were declared and set: alone, one by one with some entries
\* refused, or atomically.
EventsTellState == server = "up" => mirror = parameters

\* Every stored value can be encoded, so that no service response and no event fails on it,
\* although declare and set label values with a type they may not have; and the type
\* describe_parameters gives of a parameter without dynamic typing is the type of its value,
\* with which validate_parameter_update compares.
StoredIsSound ==
  \A n \in Names : Declared(n) =>
    /\ Sound(parameters[n])
    /\ n \in Dynamic \/ types[n] = parameters[n].type

\* What the post-set callback heard last of a parameter is its value.
ToldIsCurrent == \A n \in Names : server = "up" /\ told[n] # Undeclared => told[n] = parameters[n]

\* While the server lives a declared parameter stays declared; a read-only one keeps its value and
\* one without dynamic typing its type, through every way of setting and whatever callbacks do;
\* and with an on-set callback registered no parameter is set to a value it refuses, also when
\* a pre-set callback made that value of another one.
DeclarationsHold ==
  [][\A n \in Names : server' = "up" /\ Declared(n) =>
       /\ parameters'[n] # Undeclared
       /\ n \in ReadOnly => parameters'[n] = parameters[n]
       /\ n \notin Dynamic => parameters'[n].type = parameters[n].type
       /\ "on" \in callbacks =>
            \/ parameters'[n] = parameters[n]
            \/ <<n, parameters'[n].raw>> \notin Refused]_vars

Answered(op) == last'.op = op /\ last'.answered

\* The results of set_parameters say of every entry of the list whether it was set, and nothing
\* else was: each parameter has the value of its last successful entry, or its old one.
EachResultsTell ==
  Answered("each") =>
    LET list == last'.list
        ok   == {i \in DOMAIN list : last'.results[i]} IN
      /\ DOMAIN last'.results = DOMAIN list
      /\ \A n \in Names :
           \/ (\A i \in ok : list[i][1] # n) /\ parameters'[n] = parameters[n]
           \/ \E i \in ok :
                /\ list[i] = <<n, parameters'[n]>>
                /\ \A j \in ok : list[j][1] = n => j <= i

\* An atomic set, of the service or the application, that reports success has set every parameter
\* of its list, to its last value there, and no other; one that reports a failure has set none.
AtomicResultTells ==
  Answered("atomic") \/ Answered("local") =>
    IF last'.results = <<TRUE>> THEN parameters' = Put(parameters, last'.list)
                                ELSE parameters' = parameters

\* What a value v of the application may become: itself, its text, or nothing at all.
Becomes(v, p) == p.raw = v \/ (p.type = "string" /\ p.raw = TextOf[v]) \/ p = NotSet

\* Unless a pre-set callback is registered, the list the results are about is the list asked for.
\* The application's values are converted, which leaves nothing of one for a parameter of type
\* not_set, so that a set of it succeeds and sets no value (lib/rclex.ex:1576 says otherwise).
AskedIsSet ==
  "pre" \notin callbacks =>
    /\ Answered("each") \/ Answered("atomic") => last'.list = last'.asked
    /\ Answered("local") =>
         /\ DOMAIN last'.list = DOMAIN last'.asked
         /\ \A i \in DOMAIN last'.asked :
              /\ last'.list[i][1] = last'.asked[i][1]
              /\ Becomes(last'.asked[i][2], last'.list[i][2])

\* What a set answers tells what it did with the list that the pre-set callbacks made of the one
\* asked for, one by one, atomically and by the application alike; and without such callbacks it
\* is the list asked for, but for the conversion of the application's values.
ResultsTell == [][EachResultsTell /\ AtomicResultTells /\ AskedIsSet]_vars
=============================================================================
