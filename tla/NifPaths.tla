------------------------------ MODULE NifPaths ------------------------------
(***************************************************************************)
(* One call of NativeCalls along all its paths: the handles it is given may *)
(* have been finalised by another process, every rcl function it calls may  *)
(* fail, and the QoS profile it converts may be refused.                    *)
(***************************************************************************)
EXTENDS NativeCalls, QosProfile

CONSTANTS Calls,      \* records: name, steps, and given, the tokens that exist before it
          Profiles,   \* the maps that come from Elixir
          RmwQos      \* profiles rmw reports

VARIABLES call,     \* the call that runs
          pc,       \* its next step
          tokens,   \* the tokens that exist
          outcome,  \* "ok" or the first failure
          returned,
          tooLate,  \* a step used or released what does not exist
          profile,  \* the argument of the Qos steps, or the one rmw reports
          answer    \* the profile that is returned

callVars == <<call, pc, tokens, outcome, returned, tooLate, profile, answer>>

steps   == call.steps
Current == steps[pc]
CheckedBy(c) == UNION {c.steps[i].checks : i \in 1..Len(c.steps)}
MadeBy(c)    == UNION {c.steps[i].makes : i \in 1..Len(c.steps)}
GivenTo(c)   == c.given \union {TermOf(h) : h \in c.given}
ConvertsQos(c) == \E i \in 1..Len(c.steps) : "qos" \in c.steps[i].fails

CallInit ==
  /\ call \in Calls
  /\ pc = 1 /\ outcome = "ok" /\ returned = FALSE /\ tooLate = FALSE /\ answer = <<>>
  /\ \E gone \in SUBSET (CheckedBy(call) \intersect call.given) : tokens = GivenTo(call) \ gone
  /\ profile \in CASE ConvertsQos(call)             -> Profiles
                   [] call.name = "rmw_qos_profile" -> RmwQos
                   [] OTHER                         -> {<<>>}

Return(o) == returned' = TRUE /\ outcome' = o /\ UNCHANGED <<call, pc, profile>>

(* A call that only cleans up goes over the steps that are no clean-up *)
Skipped == outcome \in GoesOn /\ ~ Current.cleanup
Running == ~ returned /\ pc <= Len(steps) /\ ~ Skipped

PassOver == /\ ~ returned /\ pc <= Len(steps) /\ Skipped
            /\ pc' = pc + 1
            /\ UNCHANGED <<call, tokens, outcome, returned, tooLate, profile, answer>>

(* rcl_..._is_valid answers false for what was finalised *)
Refusal == IF "error" \in Current.fails THEN "error" ELSE "raise"
CheckFails == /\ Running /\ ~ (Current.checks \subseteq tokens)
              /\ Return(Refusal)
              /\ UNCHANGED <<tokens, tooLate, answer>>

Touches == tooLate' = (tooLate \/ ~ (Current.uses \subseteq tokens))

Succeed == /\ Running /\ Current.checks \subseteq tokens
           /\ "qos" \in Current.fails => check_qos_profile(profile) = "ok"
           /\ Touches
           /\ tokens' = (tokens \union Current.makes) \ Current.ends
           /\ pc' = pc + 1
           /\ UNCHANGED <<call, outcome, returned, profile, answer>>

QosRefused == /\ Running /\ "qos" \in Current.fails
              /\ check_qos_profile(profile) # "ok"
              /\ Return(check_qos_profile(profile))
              /\ UNCHANGED <<tokens, tooLate, answer>>

(* A failure returns at once, after the releases written next to it *)
Fail == /\ Running /\ Current.checks \subseteq tokens
        /\ \E f \in Current.fails \ (GoesOn \union {"qos"}) : Return(f)
        /\ tooLate' = (tooLate \/ ~ ((Current.uses \union Current.undo) \subseteq tokens))
        /\ tokens' = tokens \ Current.undo
        /\ UNCHANGED answer

FailAndCleanUp == /\ Running /\ Current.checks \subseteq tokens
                  /\ \E f \in Current.fails \intersect GoesOn : outcome' = f
                  /\ tooLate' = (tooLate \/ ~ ((Current.uses \union Current.undo) \subseteq tokens))
                  /\ tokens' = tokens \ Current.undo
                  /\ pc' = pc + 1
                  /\ UNCHANGED <<call, returned, profile, answer>>

(* nif_test_qos_profile converts its argument there and back, the NIFs for the   *)
(* profiles of rmw, and the endpoints of the graph, report what rmw has.         *)
Reports == {"test_qos_profile", "rmw_qos_profile"}
Report  == IF call.name = "rmw_qos_profile" THEN profile ELSE get_c_qos_profile(profile)
Finish == /\ ~ returned /\ pc > Len(steps)
          /\ IF call.name \in Reports /\ ex_raises(Report)
             THEN Return("raise") /\ UNCHANGED answer
             ELSE /\ Return(outcome)
                  /\ answer' = IF call.name \in Reports THEN get_ex_qos_profile(Report) ELSE answer
          /\ UNCHANGED <<tokens, tooLate>>

CallNext == PassOver \/ CheckFails \/ Succeed \/ QosRefused \/ Fail \/ FailAndCleanUp \/ Finish
CallSpec == CallInit /\ [][CallNext]_callVars

-----------------------------------------------------------------------------
Given  == GivenTo(call)
Raised == outcome \in Exceptions \union {"badarg_late", "raise_late"}
(* The memory of the call, and the native handles it made that no term refers to *)
Blocks  == {x \in tokens : x[1] = "block"}
Orphans == {h \in tokens \ Given : TermOf(h) \in MadeBy(call) \ tokens}
FailedRelease == pc <= Len(steps) /\ Current.ends # {}

(* A call gives back all memory of its own, and every native object it created  *)
(* belongs to a term that its answer holds; a call that raises leaves nothing    *)
(* that it made: the allocations of src/*.c and the frees on all their paths.    *)
(* Excepted are an object whose finaliser fails and, when they raise, the Leaky  *)
(* calls, whose error paths forget something.                                    *)
Leaky(c) == \/ c.name \in {"rcl_init", "node_start_waitset_thread",
                            "action_process_cancel_request", "action_expire_goals"}
            \/ \E x \in MadeBy(c) : x[1] = "registered"
LeavesNothing ==
  /\ returned /\ ~ Raised => Blocks = {} /\ Orphans = {}
  /\ returned /\ Raised   => tokens \subseteq Given \/ FailedRelease \/ Leaky(call)

(* While the middleware may call back, the memory its user data points to is    *)
(* kept.                                                                        *)
RegisteredIsKept ==
  \A i \in 1..Len(steps) : \A x \in (steps[i].makes \union steps[i].ends) \intersect tokens :
    x[1] = "registered" => Ref("keep", x[2], x[3]) \in tokens

(* No path of a call uses or releases what a step before it released, nor a     *)
(* handle another process finalised, if the call asks whether it is valid: the  *)
(* order of the checks, the uses and the frees in src/*.c; nor may the          *)
(* middleware: enif_keep_resource before rcl_..._set_on_new_..._callback, and   *)
(* enif_release_resource only after the callback is cleared.                    *)
NothingUsedLate == ~ tooLate /\ RegisteredIsKept

(* The discipline the NIFs are written by, read off the text of a call without   *)
(* running it: what may and what must exist before step i if no step has failed.*)
Lasts(c, x, j, i) == \A k \in j..(i - 1) : x \notin c.steps[k].ends
MadeBefore(c, i)  == {x \in MadeBy(c) : \E j \in 1..(i - 1) : x \in c.steps[j].makes /\ Lasts(c, x, j, i)}
May(c, i)  == {x \in GivenTo(c) : Lasts(c, x, 1, i)} \union MadeBefore(c, i)
Must(c, i) == {x \in GivenTo(c) \ (CheckedBy(c) \intersect c.given) : Lasts(c, x, 1, i)} \union MadeBefore(c, i)
  \union {x \in CheckedBy(c) : \E j \in 1..(i - 1) : x \in c.steps[j].checks /\ Lasts(c, x, j, i)}

(* What a failure of step i leaves, and what the clean-ups after it do not end  *)
LeftBy(c, i)  == May(c, i) \ c.steps[i].undo
Neglected(c, i) ==
  LeftBy(c, i) \ UNION {c.steps[k].ends : k \in {n \in (i + 1)..Len(c.steps) : c.steps[n].cleanup}}

(* A return that leaves what is in may and surely what is in must loses nothing *)
LosesNothing(c, may, must) ==
  \A x \in may : x[1] # "block" /\ (x \notin GivenTo(c) /\ TermOf(x) \in MadeBy(c) => TermOf(x) \in must)
LeavesAsFound(c, i, may) == may \subseteq GivenTo(c) \/ c.steps[i].ends # {} \/ Leaky(c)

CleansUp(s) == /\ s.checks \union s.uses \union s.makes \union s.undo = {}
               /\ s.ends # {} /\ s.fails \subseteq Exceptions
IsCovered(c, i) ==
  LET s == c.steps[i] IN
  /\ s.cleanup => CleansUp(s)
  /\ s.uses \union s.undo \subseteq Must(c, i) \union s.checks
  /\ s.checks # {} => IF "error" \in s.fails THEN LosesNothing(c, May(c, i), Must(c, i))
                                           ELSE LeavesAsFound(c, i, May(c, i))
  /\ "qos" \in s.fails => LeavesAsFound(c, i, May(c, i))
  /\ s.fails \intersect Exceptions # {} => LeavesAsFound(c, i, LeftBy(c, i))
  /\ s.fails \ (Exceptions \union GoesOn \union {"qos"}) # {} =>
       LosesNothing(c, LeftBy(c, i), (Must(c, i) \union s.checks) \ s.undo)
  /\ s.fails \intersect GoesOn # {} =>
       LosesNothing(c, Neglected(c, i), {}) /\ (Neglected(c, i) \subseteq GivenTo(c) \/ Leaky(c))

(* The user data of a registered callback exists as long as it is registered    *)
KeepsUserData(c) ==
  \A j \in 1..Len(c.steps) : \A x \in c.steps[j].makes \union c.steps[j].ends :
    x[1] = "registered" =>
      LET data == Ref("keep", x[2], x[3]) IN
      /\ \A i \in 1..(Len(c.steps) + 1) : x \in May(c, i) => data \in Must(c, i)
      /\ \A i \in 1..Len(c.steps) : data \notin c.steps[i].undo /\ (c.steps[i].cleanup => data \notin c.steps[i].ends)

(* Each step of a NIF uses what the NIF was given, made or asked for before, and *)
(* a step that can fail releases next to it, or in the clean-ups that follow,   *)
(* what no term or answer keeps (src/*.c).                                      *)
Careful(c) ==
  /\ \A i \in 1..Len(c.steps) : IsCovered(c, i)
  /\ LosesNothing(c, May(c, Len(c.steps) + 1), Must(c, Len(c.steps) + 1))
  /\ c.name \in Reports => MadeBy(c) = {}
  /\ KeepsUserData(c)
CallIsCareful == Careful(call)

(* A profile Elixir may send comes back from rmw as a profile Elixir may send   *)
(* again, with the same policies and depth and every duration that is not too   *)
(* long for a double at most one nanosecond shorter; the same for a profile     *)
(* that rmw reports: the conversions of src/qos.c.                              *)
Close(t, u) == LET lost == (t.sec - u.sec) * NsPerSec + t.nsec - u.nsec IN lost \in {0, 1}
Short(t)    == (t.sec + 1) * NsPerSec <= 2^Mantissa
SameProfile(q, r) ==
  \A k \in DOMAIN q : IF k \in Durations THEN Short(q[k]) => Close(q[k], r[k]) ELSE q[k] = r[k]
QosSurvives ==
  returned /\ answer # <<>> =>
    /\ check_qos_profile(answer) = "ok"
    /\ SameProfile(IF call.name = "test_qos_profile" THEN get_c_qos_profile(profile) ELSE profile,
                   get_c_qos_profile(answer))
=============================================================================
