----------------------------- MODULE Tf2Registry -----------------------------
(***************************************************************************)
(* Rclex.Tf2 (lib/rclex/tf2.ex), the registry of transform buffers, and    *)
(* Rclex.Tf2.Cleanup (lib/rclex/tf2/cleanup.ex), which retains the native  *)
(* buffers and delivers the answers of asynchronous lookups, so that both  *)
(* survive the death of the registry.                                      *)
(*                                                                         *)
(* The registry is a GenServer that blocks in calls to Cleanup, so one of  *)
(* its handlers is several steps here: pc says where it is blocked.  In    *)
(* between, callers come and go, other processes write transforms into the *)
(* native buffers directly, and either process may die; the application    *)
(* supervisor restarts it.                                                 *)
(***************************************************************************)
EXTENDS Naturals, Sequences, FiniteSets

CONSTANTS
  Waits, Callers, CallerOf,   \* asynchronous lookups and the processes that ask for them
  Keys, KeyOf,                \* buffer keys {buffer_name, node, namespace}; the buffer a lookup is for
  Transforms, Needs,          \* what is written into buffers; what a lookup needs to succeed
  Resources, None,            \* native buffers: as many as are ever created (bound)
  MaxRegistryDeaths,          \* bounds: how often the registry is killed or stopped,
  MaxCleanupDeaths,           \* and how often Cleanup dies
  CleanupDeaths               \* how it may die: "killed", "crashed"

ASSUME ConstantsAssumption ==
  /\ IsFiniteSet(Waits) /\ IsFiniteSet(Resources) /\ None \notin Resources \cup Waits \cup Keys
  /\ CallerOf \in [Waits -> Callers] /\ KeyOf \in [Waits -> Keys] /\ Needs \in [Waits -> Transforms]
  /\ MaxRegistryDeaths \in Nat /\ MaxCleanupDeaths \in Nat
  /\ CleanupDeaths \subseteq {"killed", "crashed"}

VARIABLES
  \* Rclex.Tf2
  pc,        \* "down"; "attach" (init); "idle"; or where the running handler is
  stopping,  \* in terminate/2
  arg,       \* the key or the lookup the running handler is about
  todo,      \* the lookups its loop over state.pending has still to visit
  verdict,   \* what it finishes them with; "ok": only those whose transform is found
  table,     \* the ETS table: the buffer of each key
  pending,   \* state.pending
  waits_on,  \* the buffer of a pending lookup
  casts,     \* buffers with a {:new_transform, _} cast in the mailbox
  lost,      \* the DOWN of Cleanup is in the mailbox
  \* Rclex.Tf2.Cleanup
  cleanup,   \* it is alive
  owner,     \* "none", "registry" (the running one) or "dead" (its DOWN not handled yet)
  buffers,   \* the buffers it retains
  kept,      \* the lookups it has to answer
  call, reply,  \* the call it has in hand or in its mailbox; the answer not read yet
  \* native buffers
  native,    \* "unused", "live" or "destroyed"
  content,   \* the transforms in it
  notify,    \* buffers some process has written to and not told the registry of yet
  \* the callers
  alive,     \* those that live
  request,   \* of each lookup: "none", "asked", "accepted" ({:ok, ref} returned) or "refused"
  messages,  \* the {:tf2_transform, ref, _} messages sent for it
  cancel,    \* of each lookup: "none", "asked" (cancel_wait was called) or "ok" (it has returned)
  deaths     \* how often each process was made to die

registry_vars == <<pc, stopping, arg, todo, verdict, table, pending, waits_on, casts>>
cleanup_vars  == <<cleanup, owner, buffers, kept>>
native_vars   == <<native, content, notify>>
caller_vars   == <<alive, request, messages, cancel>>
vars == <<pc, stopping, arg, todo, verdict, table, pending, waits_on, casts, lost, cleanup, owner, buffers,
          kept, call, reply, native, content, notify, alive, request, messages, cancel, deaths>>

NoCall == [op |-> "none", res |-> None, wait |-> None, result |-> "none"]
Results == {"ok", "timeout", "buffer_not_found", "tf2_shutdown"}
Silent  == {"canceled", "gone"}        \* the nil result

Up == pc \notin {"down", "attach"}
Found(w, r) == native[r] = "live" /\ Needs[w] \in content[r]

Init ==
  /\ pc = "down" /\ stopping = FALSE /\ arg = None /\ todo = {} /\ verdict = "none"
  /\ table = [k \in Keys |-> None] /\ pending = {} /\ waits_on = [w \in Waits |-> None]
  /\ casts = {} /\ lost = FALSE
  /\ cleanup = TRUE /\ owner = "none" /\ buffers = {} /\ kept = {}
  /\ call = NoCall /\ reply = "none"
  /\ native = [r \in Resources |-> "unused"] /\ content = [r \in Resources |-> {}] /\ notify = {}
  /\ alive = Callers /\ request = [w \in Waits |-> "none"] /\ messages = [w \in Waits |-> <<>>]
  /\ cancel = [w \in Waits |-> "none"]
  /\ deaths = [registry |-> 0, cleanup |-> 0]

----------------------------------------------------------------------------
(* Pieces of handlers *)

\* send/2 to the callers of lookups R; a dead process gets nothing.
Tell(R, result) ==
  messages' = [w \in Waits |-> IF w \in R /\ CallerOf[w] \in alive THEN Append(messages[w], result)
                                                                   ELSE messages[w]]

\* GenServer.call to Cleanup: it exits at once when there is no such process.
Call(op, r, w, result) ==
  /\ call' = [op |-> op, res |-> r, wait |-> w, result |-> result]
  /\ reply' = IF cleanup THEN "none" ELSE "exit"

\* The registry reads the answer.
Read == call' = NoCall /\ reply' = "none"

\* tf2_buffer_destroy of R.
Destroy(R) == native' = [r \in Resources |-> IF r \in R THEN "destroyed" ELSE native[r]]

\* What is left when the registry process is gone. A call it made stays in Cleanup's mailbox.
Gone ==
  /\ pc' = "down" /\ stopping' = FALSE /\ arg' = None /\ todo' = {} /\ verdict' = "none"
  /\ table' = [k \in Keys |-> None] /\ pending' = {} /\ waits_on' = [w \in Waits |-> None]
  /\ casts' = {}
  /\ owner' = IF owner = "registry" THEN "dead" ELSE owner

\* terminate/2: buffers in the table are destroyed, then the loop over state.pending begins.
\* The caller that was being served gets an exit.
Terminate ==
  /\ stopping' = TRUE /\ pc' = "loop" /\ todo' = pending /\ verdict' = "tf2_shutdown" /\ arg' = None
  /\ Destroy({table[k] : k \in Keys})
  /\ request' = [w \in Waits |-> IF request[w] = "asked" THEN "refused" ELSE request[w]]
  /\ UNCHANGED <<table, pending, waits_on, casts, lost, cleanup_vars, content, notify, alive, messages,
                 cancel>>

Loop(ws, result) == pc' = "loop" /\ todo' = ws /\ verdict' = result

----------------------------------------------------------------------------
(* The registry: start and end *)

\* The supervisor starts it; init/1 attaches to Cleanup.
Attach ==
  /\ pc = "down" /\ call = NoCall
  /\ pc' = "attach"
  /\ Call("attach", None, None, "none")
  /\ UNCHANGED <<stopping, arg, todo, verdict, table, pending, waits_on, casts, lost, cleanup_vars,
                 native_vars, caller_vars, deaths>>

Attached ==
  /\ pc = "attach" /\ reply # "none"
  /\ pc' = IF reply = "ok" THEN "idle" ELSE "down"
  /\ Read
  /\ UNCHANGED <<stopping, arg, todo, verdict, table, pending, waits_on, casts, lost, cleanup_vars,
                 native_vars, caller_vars, deaths>>

\* The supervisor stops it, the application calls GenServer.stop, or Cleanup's DOWN arrives.
Stop ==
  /\ pc = "idle" /\ deaths.registry < MaxRegistryDeaths
  /\ deaths' = [deaths EXCEPT !.registry = @ + 1]
  /\ Terminate
  /\ UNCHANGED <<call, reply>>

CleanupDown == pc = "idle" /\ lost /\ Terminate /\ UNCHANGED <<call, reply, deaths>>

\* The end of terminate/2: Cleanup.release, whatever comes of it.
Release ==
  /\ pc = "loop" /\ todo = {} /\ stopping
  /\ pc' = "release" /\ Call("release", None, None, "none")
  /\ UNCHANGED <<stopping, arg, todo, verdict, table, pending, waits_on, casts, lost, cleanup_vars,
                 native_vars, caller_vars, deaths>>

Released ==
  /\ pc = "release" /\ reply # "none"
  /\ Gone /\ Read
  /\ UNCHANGED <<lost, cleanup, buffers, kept, native_vars, caller_vars, deaths>>

\* Process.exit(pid, :kill), at any point.
Kill ==
  /\ pc # "down" /\ deaths.registry < MaxRegistryDeaths
  /\ deaths' = [deaths EXCEPT !.registry = @ + 1]
  /\ Gone
  /\ IF reply = "none" THEN UNCHANGED <<call, reply>> ELSE Read
  /\ request' = [w \in Waits |-> IF request[w] = "asked" THEN "refused" ELSE request[w]]
  /\ UNCHANGED <<lost, cleanup, buffers, kept, native_vars, alive, messages, cancel>>

----------------------------------------------------------------------------
(* The registry: buffers *)

BufferNew(k) ==
  /\ pc = "idle" /\ table[k] = None
  /\ \E r \in Resources : native[r] = "unused"
  /\ pc' = "new" /\ arg' = k
  /\ Call("buffer_new", None, None, "none")
  /\ UNCHANGED <<stopping, todo, verdict, table, pending, waits_on, casts, lost, cleanup_vars,
                 native_vars, caller_vars, deaths>>

BufferMade ==
  /\ pc = "new" /\ reply \in {"ok", "tf2_shutdown"}
  /\ table' = IF reply = "ok" THEN [table EXCEPT ![arg] = call.res] ELSE table
  /\ pc' = "idle" /\ arg' = None
  /\ Read
  /\ UNCHANGED <<stopping, todo, verdict, pending, waits_on, casts, lost, cleanup_vars, native_vars,
                 caller_vars, deaths>>

\* Mutant: the buffer is left with Cleanup.
ClockNotFoundKeepsBuffer ==
  /\ pc = "new" /\ reply = "ok"
  /\ pc' = "idle" /\ arg' = None
  /\ Read
  /\ UNCHANGED <<stopping, todo, verdict, table, pending, waits_on, casts, lost, cleanup_vars,
                 native_vars, caller_vars, deaths>>

\* The clock of the :clock option is not there: the new buffer is destroyed again.
ClockNotFound ==
  /\ pc = "new" /\ reply = "ok"
  /\ pc' = "destroy" /\ arg' = call.res
  /\ Call("buffer_destroy", call.res, None, "none")
  /\ UNCHANGED <<stopping, todo, verdict, table, pending, waits_on, casts, lost, cleanup_vars,
                 native_vars, caller_vars, deaths>>

BufferDestroy(k) ==
  /\ pc = "idle" /\ table[k] # None
  /\ table' = [table EXCEPT ![k] = None]
  /\ pc' = "destroy" /\ arg' = table[k]
  /\ Call("buffer_destroy", table[k], None, "none")
  /\ UNCHANGED <<stopping, todo, verdict, pending, waits_on, casts, lost, cleanup_vars, native_vars,
                 caller_vars, deaths>>

BufferDestroyed ==
  /\ pc = "destroy" /\ reply \in {"ok", "tf2_shutdown"}
  /\ Loop({w \in pending : waits_on[w] = arg}, "buffer_not_found")
  /\ arg' = None
  /\ Read
  /\ UNCHANGED <<stopping, table, pending, waits_on, casts, lost, cleanup_vars, native_vars,
                 caller_vars, deaths>>

\* A call that exits, or the :ok match on the answer of register_wait, ends the process.
Crash ==
  /\ \/ pc \in {"new", "destroy", "register"} /\ reply = "exit"
     \/ pc = "register" /\ reply = "tf2_shutdown"
  /\ Terminate
  /\ Read
  /\ UNCHANGED deaths

----------------------------------------------------------------------------
(* The registry: asynchronous lookups *)

Asks(w) == pc = "idle" /\ request[w] = "none" /\ CallerOf[w] \in alive

WaitRefused(w) ==
  /\ Asks(w) /\ table[KeyOf[w]] = None
  /\ request' = [request EXCEPT ![w] = "refused"]
  /\ UNCHANGED <<registry_vars, lost, cleanup_vars, call, reply, native_vars, alive, messages, cancel,
                 deaths>>

\* The lookup succeeds, or fails in a way that waiting does not mend.
WaitAnswered(w) ==
  /\ Asks(w) /\ table[KeyOf[w]] # None
  /\ LET r == table[KeyOf[w]] IN
       \/ Found(w, r) /\ Tell({w}, "ok")
       \/ native[r] = "destroyed" /\ Tell({w}, "buffer_not_found")
  /\ request' = [request EXCEPT ![w] = "accepted"]
  /\ UNCHANGED <<registry_vars, lost, cleanup_vars, call, reply, native_vars, alive, cancel, deaths>>

Wait(w) ==
  /\ Asks(w) /\ table[KeyOf[w]] # None
  /\ native[table[KeyOf[w]]] = "live" /\ ~Found(w, table[KeyOf[w]])
  /\ request' = [request EXCEPT ![w] = "asked"]
  /\ pc' = "register" /\ arg' = w
  /\ Call("register_wait", None, w, "none")
  /\ UNCHANGED <<stopping, todo, verdict, table, pending, waits_on, casts, lost, cleanup_vars,
                 native_vars, alive, messages, cancel, deaths>>

Registered ==
  /\ pc = "register" /\ reply = "ok"
  /\ pending' = pending \cup {arg}
  /\ waits_on' = [waits_on EXCEPT ![arg] = table[KeyOf[arg]]]
  /\ request' = [request EXCEPT ![arg] = "accepted"]
  /\ pc' = "idle" /\ arg' = None
  /\ Read
  /\ UNCHANGED <<stopping, todo, verdict, table, casts, lost, cleanup_vars, native_vars, alive, messages,
                 cancel, deaths>>

\* A handler that finishes lookups begins: a timer, a cancel_wait of the caller, the caller's DOWN,
\* a cast of somebody who wrote a transform.
Finishes ==
  /\ pc = "idle"
  /\ UNCHANGED <<stopping, arg, table, pending, waits_on, lost, cleanup_vars, call, reply, native_vars,
                 alive, request, messages, deaths>>

WaitTimeout(w)  == w \in pending /\ Loop({w}, "timeout") /\ Finishes /\ UNCHANGED <<casts, cancel>>
CancelWait(w)   == /\ w \in pending /\ request[w] = "accepted" /\ CallerOf[w] \in alive
                   /\ cancel' = [cancel EXCEPT ![w] = "asked"]
                   /\ Loop({w}, "canceled") /\ Finishes /\ UNCHANGED casts
CallerDown(w)   == /\ w \in pending /\ CallerOf[w] \notin alive
                   /\ Loop({w}, "gone") /\ Finishes /\ UNCHANGED <<casts, cancel>>
NewTransform(r) == /\ r \in casts /\ casts' = casts \ {r}
                   /\ Loop({w \in pending : waits_on[w] = r}, "ok") /\ Finishes /\ UNCHANGED cancel

\* recheck_wait: the transform is still missing.
StillMissing(w) ==
  /\ pc = "loop" /\ w \in todo /\ verdict = "ok" /\ ~Found(w, waits_on[w])
  /\ todo' = todo \ {w}
  /\ UNCHANGED <<pc, stopping, arg, verdict, table, pending, waits_on, casts, lost, cleanup_vars, call,
                 reply, native_vars, caller_vars, deaths>>

\* finish_wait: the lookup leaves state.pending and Cleanup is asked to answer it.
FinishWait(w) ==
  /\ pc = "loop" /\ w \in todo /\ (verdict = "ok" => Found(w, waits_on[w]))
  /\ todo' = todo \ {w} /\ pending' = pending \ {w} /\ waits_on' = [waits_on EXCEPT ![w] = None]
  /\ pc' = "finish" /\ arg' = w
  /\ Call("finish_wait", None, w, verdict)
  /\ UNCHANGED <<stopping, verdict, table, casts, lost, cleanup_vars, native_vars, caller_vars, deaths>>

\* complete_wait: when Cleanup has not taken it, the registry answers itself.
Finished ==
  /\ pc = "finish" /\ reply # "none"
  /\ IF reply # "ok" /\ verdict \notin Silent THEN Tell({arg}, verdict) ELSE UNCHANGED messages
  /\ cancel' = IF verdict = "canceled" THEN [cancel EXCEPT ![arg] = "ok"] ELSE cancel
  /\ pc' = "loop" /\ arg' = None
  /\ Read
  /\ UNCHANGED <<stopping, todo, verdict, table, pending, waits_on, casts, lost, cleanup_vars,
                 native_vars, alive, request, deaths>>

LoopEnds ==
  /\ pc = "loop" /\ todo = {} /\ ~stopping
  /\ pc' = "idle" /\ verdict' = "none"
  /\ UNCHANGED <<stopping, arg, todo, table, pending, waits_on, casts, lost, cleanup_vars, call, reply,
                 native_vars, caller_vars, deaths>>

----------------------------------------------------------------------------
(* Cleanup *)

InHand(op) == cleanup /\ call.op = op /\ reply = "none"

\* The call is from the process Cleanup is attached to.
FromOwner == owner = IF pc = "down" THEN "dead" ELSE "registry"

\* An answer to a registry that has died meanwhile goes nowhere.
Answer(r, r0) ==
  IF pc = "down" THEN Read ELSE call' = [call EXCEPT !.res = r0] /\ reply' = r

\* cleanup/1: it destroys its buffers, answers the lookups it keeps and forgets its owner.
CleanedUp ==
  /\ Destroy(buffers) /\ Tell(kept, "tf2_shutdown")
  /\ buffers' = {} /\ kept' = {}

\* Mutant: a new registry takes over, and what the old one left is dropped unanswered.
HandleAttachForgets ==
  /\ InHand("attach")
  /\ Destroy(buffers) /\ UNCHANGED messages /\ buffers' = {} /\ kept' = {}
  /\ owner' = IF pc = "down" THEN "dead" ELSE "registry"
  /\ lost' = FALSE
  /\ Answer("ok", None)
  /\ UNCHANGED <<registry_vars, cleanup, content, notify, alive, request, cancel, deaths>>

\* attach waits for the cleanup of the previous owner, or does it.
HandleAttach ==
  /\ InHand("attach")
  /\ CleanedUp
  /\ owner' = IF pc = "down" THEN "dead" ELSE "registry"
  /\ lost' = FALSE
  /\ Answer("ok", None)
  /\ UNCHANGED <<registry_vars, cleanup, content, notify, alive, request, cancel, deaths>>

HandleBufferNew ==
  /\ InHand("buffer_new") /\ FromOwner
  /\ \E r \in Resources :
       /\ native[r] = "unused"
       /\ native' = [native EXCEPT ![r] = "live"]
       /\ buffers' = buffers \cup {r}
       /\ Answer("ok", r)
  /\ UNCHANGED <<registry_vars, lost, cleanup, owner, kept, content, notify, caller_vars, deaths>>

HandleBufferDestroy ==
  /\ InHand("buffer_destroy") /\ FromOwner
  /\ Destroy({call.res})
  /\ buffers' = buffers \ {call.res}
  /\ Answer("ok", call.res)
  /\ UNCHANGED <<registry_vars, lost, cleanup, owner, kept, content, notify, caller_vars, deaths>>

HandleRegisterWait ==
  /\ InHand("register_wait") /\ FromOwner
  /\ kept' = kept \cup {call.wait}
  /\ Answer("ok", None)
  /\ UNCHANGED <<registry_vars, lost, cleanup, owner, buffers, native_vars, caller_vars, deaths>>

\* Mutant: a lookup that is finished silently stays with Cleanup.
HandleFinishWaitKeepsCanceled ==
  /\ InHand("finish_wait") /\ FromOwner
  /\ IF call.wait \in kept /\ call.result \notin Silent THEN Tell({call.wait}, call.result)
                                                        ELSE UNCHANGED messages
  /\ kept' = IF call.result \in Silent THEN kept ELSE kept \ {call.wait}
  /\ Answer("ok", None)
  /\ UNCHANGED <<registry_vars, lost, cleanup, owner, buffers, native_vars, alive, request, cancel, deaths>>

\* Mutant: a lookup that was answered stays with Cleanup.
HandleFinishWaitKeepsAnswered ==
  /\ InHand("finish_wait") /\ FromOwner
  /\ IF call.wait \in kept /\ call.result \notin Silent THEN Tell({call.wait}, call.result)
                                                        ELSE UNCHANGED messages
  /\ UNCHANGED kept
  /\ Answer("ok", None)
  /\ UNCHANGED <<registry_vars, lost, cleanup, owner, buffers, native_vars, alive, request, cancel, deaths>>

HandleFinishWait ==
  /\ InHand("finish_wait") /\ FromOwner
  /\ IF call.wait \in kept /\ call.result \notin Silent THEN Tell({call.wait}, call.result)
                                                        ELSE UNCHANGED messages
  /\ kept' = kept \ {call.wait}
  /\ Answer("ok", None)
  /\ UNCHANGED <<registry_vars, lost, cleanup, owner, buffers, native_vars, alive, request, cancel, deaths>>

HandleRelease ==
  /\ InHand("release") /\ FromOwner
  /\ CleanedUp /\ owner' = "none"
  /\ Answer("ok", None)
  /\ UNCHANGED <<registry_vars, lost, cleanup, content, notify, alive, request, cancel, deaths>>

\* A Cleanup that was restarted does not know the registry.
HandleStranger ==
  /\ cleanup /\ call.op \notin {"none", "attach"} /\ reply = "none" /\ ~FromOwner
  /\ Answer("tf2_shutdown", None)
  /\ UNCHANGED <<registry_vars, lost, cleanup_vars, native_vars, caller_vars, deaths>>

\* The DOWN of the registry, behind the call the registry may have left.
OwnerDown ==
  /\ cleanup /\ owner = "dead" /\ ~(pc = "down" /\ call # NoCall)
  /\ CleanedUp /\ owner' = "none"
  /\ UNCHANGED <<registry_vars, lost, cleanup, call, reply, content, notify, alive, request, cancel, deaths>>

ForgetCaller(w) ==
  /\ cleanup /\ w \in kept /\ CallerOf[w] \notin alive
  /\ kept' = kept \ {w}
  /\ UNCHANGED <<registry_vars, lost, cleanup, owner, buffers, call, reply, native_vars, caller_vars, deaths>>

\* The process ends: its mailbox is lost and a call in it exits.
CleanupEnds ==
  /\ cleanup /\ deaths.cleanup < MaxCleanupDeaths
  /\ deaths' = [deaths EXCEPT !.cleanup = @ + 1]
  /\ cleanup' = FALSE /\ owner' = "none" /\ buffers' = {} /\ kept' = {}
  /\ lost' = TRUE
  /\ IF call # NoCall /\ reply = "none"
     THEN IF pc = "down" THEN Read ELSE reply' = "exit" /\ UNCHANGED call
     ELSE UNCHANGED <<call, reply>>
  /\ UNCHANGED <<registry_vars, content, notify, alive, request, cancel>>

\* Killed, possibly after an answer was delivered and before the registry heard of it.
CleanupKilled ==
  /\ "killed" \in CleanupDeaths
  /\ CleanupEnds
  /\ UNCHANGED native
  /\ \/ UNCHANGED messages
     \/ /\ InHand("finish_wait") /\ FromOwner /\ call.wait \in kept /\ call.result \notin Silent
        /\ Tell({call.wait}, call.result)

\* A message without a clause, or a reason other than :kill: terminate/2 runs.
CleanupCrashes ==
  "crashed" \in CleanupDeaths /\ CleanupEnds /\ Destroy(buffers) /\ Tell(kept, "tf2_shutdown")

CleanupRestarts ==
  /\ ~cleanup
  /\ cleanup' = TRUE
  /\ UNCHANGED <<registry_vars, lost, owner, buffers, kept, call, reply, native_vars, caller_vars, deaths>>

----------------------------------------------------------------------------
(* Other processes *)

\* Mutant: the registry is not told when it has nothing pending.
SetTransformSavesCasts(k, t) ==
  /\ Up /\ table[k] # None /\ native[table[k]] = "live" /\ t \notin content[table[k]]
  /\ content' = [content EXCEPT ![table[k]] = @ \cup {t}]
  /\ notify' = IF pending = {} THEN notify ELSE notify \cup {table[k]}
  /\ UNCHANGED <<registry_vars, lost, cleanup_vars, call, reply, native, caller_vars, deaths>>

\* set_transform: the buffer is found in the ETS table and written directly; the cast comes after.
SetTransform(k, t) ==
  /\ Up /\ table[k] # None /\ native[table[k]] = "live" /\ t \notin content[table[k]]
  /\ content' = [content EXCEPT ![table[k]] = @ \cup {t}]
  /\ notify' = notify \cup {table[k]}
  /\ UNCHANGED <<registry_vars, lost, cleanup_vars, call, reply, native, caller_vars, deaths>>

NotifyTransform(r) ==
  /\ r \in notify
  /\ notify' = notify \ {r}
  /\ casts' = IF Up THEN casts \cup {r} ELSE casts
  /\ UNCHANGED <<pc, stopping, arg, todo, verdict, table, pending, waits_on, lost, cleanup_vars, call,
                 reply, native, content, caller_vars, deaths>>

\* clear/3, or a jump of the clock the buffer is bound to.
Clear(k) ==
  /\ Up /\ table[k] # None /\ content[table[k]] # {}
  /\ content' = [content EXCEPT ![table[k]] = {}]
  /\ UNCHANGED <<registry_vars, lost, cleanup_vars, call, reply, native, notify, caller_vars, deaths>>

CallerDies(c) ==
  /\ c \in alive
  /\ alive' = alive \ {c}
  /\ UNCHANGED <<registry_vars, lost, cleanup_vars, call, reply, native_vars, request, messages, cancel,
                 deaths>>

----------------------------------------------------------------------------
(* The system *)

BufferStep == BufferMade \/ ClockNotFound \/ BufferDestroyed \/ Crash
WaitStep == \/ Registered \/ Finished \/ LoopEnds
            \/ \E w \in Waits : StillMissing(w) \/ FinishWait(w)

\* The registry goes on with what it is doing, or takes a signal from its mailbox.
Registry ==
  \/ Attached \/ CleanupDown \/ Release \/ Released
  \/ BufferStep \/ WaitStep
  \/ \E w \in Waits : WaitTimeout(w) \/ CallerDown(w)
  \/ \E r \in Resources : NewTransform(r)

Calls == \/ \E w \in Waits : WaitRefused(w) \/ WaitAnswered(w) \/ Wait(w) \/ CancelWait(w)
         \/ \E k \in Keys : BufferNew(k) \/ BufferDestroy(k)

Cleanup ==
  \/ HandleAttach \/ HandleBufferNew \/ HandleBufferDestroy \/ HandleRegisterWait
  \/ HandleFinishWait \/ HandleRelease \/ HandleStranger \/ OwnerDown
  \/ \E w \in Waits : ForgetCaller(w)

Supervisor == Attach \/ CleanupRestarts

Writers == \/ \E k \in Keys : (\E t \in Transforms : SetTransform(k, t)) \/ Clear(k)
           \/ \E r \in Resources : NotifyTransform(r)

Faults == Stop \/ Kill \/ CleanupKilled \/ CleanupCrashes \/ \E c \in Callers : CallerDies(c)

Next == Registry \/ Calls \/ Cleanup \/ Supervisor \/ Writers \/ Faults

\* Both processes handle their mailboxes, the supervisor restarts them, and the timer of a lookup
\* fires: WaitTimeout by itself, for the registry always has other things to do.
Fairness ==
  /\ WF_vars(Registry) /\ WF_vars(Cleanup) /\ WF_vars(Supervisor)
  /\ \A w \in Waits : SF_vars(WaitTimeout(w))

Spec == Init /\ [][Next]_vars /\ Fairness

----------------------------------------------------------------------------
(* Properties *)

Ops == {"none", "attach", "buffer_new", "buffer_destroy", "register_wait", "finish_wait", "release"}

\* The type of the state.
TypeOK ==
  /\ pc \in {"down", "attach", "idle", "new", "destroy", "register", "loop", "finish", "release"}
  /\ stopping \in BOOLEAN /\ lost \in BOOLEAN /\ cleanup \in BOOLEAN
  /\ arg \in Keys \cup Resources \cup Waits \cup {None}
  /\ todo \subseteq Waits /\ pending \subseteq Waits /\ kept \subseteq Waits
  /\ cancel \in [Waits -> {"none", "asked", "ok"}]
  /\ verdict \in Results \cup Silent \cup {"none"}
  /\ table \in [Keys -> Resources \cup {None}]
  /\ waits_on \in [Waits -> Resources \cup {None}]
  /\ casts \subseteq Resources /\ buffers \subseteq Resources /\ notify \subseteq Resources
  /\ owner \in {"none", "registry", "dead"}
  /\ call \in [op : Ops, res : Resources \cup {None}, wait : Waits \cup {None},
               result : Results \cup Silent \cup {"none"}]
  /\ reply \in {"none", "ok", "tf2_shutdown", "exit"}
  /\ native \in [Resources -> {"unused", "live", "destroyed"}]
  /\ content \in [Resources -> SUBSET Transforms]
  /\ alive \subseteq Callers
  /\ request \in [Waits -> {"none", "asked", "accepted", "refused"}]
  /\ messages \in [Waits -> Seq(Results)]
  /\ deaths \in [registry : Nat, cleanup : Nat]

Unanswered(w) == messages[w] = <<>> /\ cancel[w] = "none"

\* A lookup is answered at most once, whoever of registry and Cleanup answers it, however the
\* registry ends, and although each of them keeps its own list of what is pending
\* (tf2.ex:227-262, cleanup.ex:112-128).
AnsweredOnce == \A w \in Waits : Len(messages[w]) <= 1

\* After cancel_wait has returned :ok nothing is sent, neither by a timer that fired meanwhile nor
\* by a shutdown, nor by the process that takes over when the other one dies
\* (test/rclex/tf2_test.exs:620 "cancellation prevents subsequent delivery").
CanceledIsSilent ==
  [][\A w \in Waits : cancel[w] = "ok" => messages'[w] = messages[w]]_vars

\* While Cleanup lives, a lookup that was accepted and neither answered nor canceled is on its
\* list: the death of the registry, at whatever point of whatever handler, leaves no caller
\* waiting for an answer nobody will send.
NobodyForgotten ==
  \A w \in Waits :
    request[w] = "accepted" /\ CallerOf[w] \in alive /\ Unanswered(w) => w \in kept

\* Both lists hold the same lookups of live callers, and an older generation's are on neither.
SameLookups == {w \in pending : CallerOf[w] \in alive} = {w \in kept : CallerOf[w] \in alive}

\* The buffers that live are those in the table, one key each: none leaks when creating or
\* destroying one is cut short, and none of an older registry survives it.
SameBuffers ==
  /\ {r \in Resources : native[r] = "live"} = {table[k] : k \in Keys} \ {None}
  /\ \A k, l \in Keys : table[k] = table[l] => k = l \/ table[k] = None

\* Between two handlers of the registry its lists, those of Cleanup, the table and the native
\* buffers agree, whatever died before and wherever a handler was cut short.
ListsAgree == pc = "idle" /\ ~lost => SameLookups /\ SameBuffers

\* No wakeup is lost: when what a pending lookup needs is in its buffer, a cast that makes the
\* registry look again is in its mailbox, or about to be sent.
NoLostWakeup ==
  pc = "idle" => \A w \in pending :
    Found(w, waits_on[w]) => waits_on[w] \in casts \cup notify

\* Liveness: a lookup that was accepted is answered or canceled, or its caller is gone, also when
\* the registry dies and is restarted, or when Cleanup does (doc of lookup_transform_async,
\* tf2.ex:872-873: "completes accepted requests ... rather than leaving callers waiting"). Only
\* the death of both may lose it.
AcceptedWaitEnds ==
  \A w \in Waits : request[w] = "accepted" ~>
    \/ ~Unanswered(w)
    \/ CallerOf[w] \notin alive
    \/ deaths.registry > 0 /\ deaths.cleanup > 0

=============================================================================
