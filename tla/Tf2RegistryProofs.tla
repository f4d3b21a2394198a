------------------------- MODULE Tf2RegistryProofs -------------------------
(***************************************************************************)
(* What holds of Rclex.Tf2 and Rclex.Tf2.Cleanup for any lookups, callers, *)
(* keys and buffers, however often the registry dies and wherever in its   *)
(* handlers.                                                               *)
(*                                                                         *)
(* With any deaths of Cleanup, killed or crashed: no wakeup of a pending   *)
(* lookup is lost, a canceled lookup stays silent, and the lists of both   *)
(* processes agree on the lookups.  When Cleanup is not killed they agree  *)
(* on the buffers, too.  While it lives, a lookup is answered at most once *)
(* and an accepted one is never forgotten: the calls of the registry are   *)
(* then always those of Cleanup's owner, or attach, so that Cleanup alone  *)
(* answers what it keeps, and what it keeps has no answer.                 *)
(***************************************************************************)
EXTENDS Tf2Registry, TLAPS

\* The type of the state, process by process.
RegistryTyped ==
  /\ pc \in {"down", "attach", "idle", "new", "destroy", "register", "loop", "finish", "release"}
  /\ stopping \in BOOLEAN /\ lost \in BOOLEAN
  /\ arg \in Keys \cup Resources \cup Waits \cup {None}
  /\ todo \subseteq Waits /\ pending \subseteq Waits /\ casts \subseteq Resources
  /\ verdict \in Results \cup Silent \cup {"none"}
TablesTyped == table \in [Keys -> Resources \cup {None}] /\ waits_on \in [Waits -> Resources \cup {None}]
CleanupTyped ==
  /\ cleanup \in BOOLEAN /\ owner \in {"none", "registry", "dead"}
  /\ buffers \subseteq Resources /\ kept \subseteq Waits
CallTyped ==
  /\ call \in [op : Ops, res : Resources \cup {None}, wait : Waits \cup {None},
               result : Results \cup Silent \cup {"none"}]
  /\ reply \in {"none", "ok", "tf2_shutdown", "exit"}
NativeTyped ==
  /\ native \in [Resources -> {"unused", "live", "destroyed"}]
  /\ content \in [Resources -> SUBSET Transforms] /\ notify \subseteq Resources
CallersTyped ==
  /\ alive \subseteq Callers
  /\ request \in [Waits -> {"none", "asked", "accepted", "refused"}]
  /\ cancel \in [Waits -> {"none", "asked", "ok"}]
MessagesTyped == messages \in [Waits -> Seq(Results)]
DeathsTyped == deaths \in [registry : Nat, cleanup : Nat]
Typed == RegistryTyped /\ TablesTyped /\ CleanupTyped /\ CallTyped /\ NativeTyped /\ CallersTyped /\ DeathsTyped

\* Where the registry waits in a handler is the call it has made.
OpOf(place) ==
  CASE place = "attach" -> "attach" [] place = "new" -> "buffer_new" [] place = "destroy" -> "buffer_destroy"
    [] place = "register" -> "register_wait" [] place = "finish" -> "finish_wait"
    [] place = "release" -> "release" [] OTHER -> "none"
Places ==
  /\ pc # "down" => call.op = OpOf(pc)
  /\ call.op = "none" => reply = "none" /\ call = NoCall
  /\ pc = "down" => reply = "none"

\* Only an owner leaves something with Cleanup. A registry that is up and has not been told of the
\* death of Cleanup is the owner, and gets an answer of it.
Owned ==
  /\ ~ cleanup => owner = "none"
  /\ owner = "none" => kept = {} /\ buffers = {}
  /\ Up \/ (pc = "attach" /\ reply = "ok") => owner # "dead"
  /\ Up /\ ~ lost => /\ cleanup /\ reply \in {"none", "ok"}
                     /\ owner = "registry" \/ (pc = "release" /\ reply = "ok")
  /\ pc = "attach" /\ reply = "ok" /\ ~ lost => cleanup /\ owner = "registry"

\* The lookup the registry is about, in a call and in its loop.
Served ==
  /\ call.wait \in Waits <=> call.op \in {"register_wait", "finish_wait"}
  /\ call.op = "finish_wait" => call.result # "none"
  /\ pc \in {"register", "finish"} => arg = call.wait
  /\ pc \in {"loop", "finish"} => verdict # "none"
  /\ pc = "finish" => arg \notin pending /\ (reply # "none" => arg \notin kept)
  /\ todo \subseteq pending /\ (pc \notin {"loop", "finish"} => todo = {})
  /\ ~ Up => pending = {}

\* A canceled lookup is on no list and in no call, and will not be asked for again.
Canceled ==
  \A w \in Waits :
    /\ w \in pending \cup kept \cup {call.wait} \/ cancel[w] # "none" => request[w] # "none"
    /\ cancel[w] = "ok" => w \notin pending \cup kept \cup {call.wait}

\* Whoever is about to be finished without an answer has canceled, or is gone.
Excused(w, result) ==
  /\ result = "canceled" => cancel[w] # "none"
  /\ result = "gone" => CallerOf[w] \notin alive
Verdicts ==
  /\ \A w \in todo : Excused(w, verdict)
  /\ call.op = "finish_wait" => Excused(call.wait, call.result)

\* Both lists hold the same lookups of live callers, but for the one that is being handed over.
Lookups ==
  ~ lost => \A w \in Waits : CallerOf[w] \in alive =>
    /\ \/ pc \in {"idle", "new", "destroy", "loop"}
       \/ pc = "register" /\ reply = "none"
       \/ pc = "finish" /\ reply = "ok"
       => (w \in pending <=> w \in kept)
    /\ \/ pc = "register" /\ reply = "ok"
       \/ pc = "finish" /\ reply = "none"
       => (w \in kept <=> w \in pending \/ w = arg)
    /\ pc = "attach" /\ reply = "ok" => w \notin kept

\* A lookup whose transform is in its buffer is about to be looked at: it is in the loop of a
\* recheck, or there is a cast. That one is being registered changes nothing: the cast comes after.
Watched(w, r) == r \in Resources /\ (Found(w, r) => r \in casts \cup notify)
Wakeups ==
  /\ \A w \in pending : /\ waits_on[w] \in Resources
                        /\ (w \in todo /\ verdict = "ok") \/ Watched(w, waits_on[w])
  /\ pc = "register" => Watched(arg, table[KeyOf[arg]])
Unused == \A r \in Resources : native[r] = "unused" => content[r] = {}

Inv ==
  /\ Typed /\ MessagesTyped /\ Places /\ Owned /\ Served /\ Canceled
  /\ Verdicts /\ Lookups /\ Wakeups /\ Unused

\* The body of CanceledIsSilent.
Silence == \A w \in Waits : cancel[w] = "ok" => messages'[w] = messages[w]

\* An instance that does not kill Cleanup; it may crash and run its terminate/2.
NoKills == "killed" \notin CleanupDeaths \/ MaxCleanupDeaths = 0

\* The buffer that is being created, or destroyed again, is in no table.
Between(r) == r = call.res /\ ((pc = "new" /\ reply = "ok") \/ (pc = "destroy" /\ reply = "none"))

\* The registry is in terminate/2 where it may be.
Stops ==
  /\ ~ Up \/ pc \in {"idle", "new", "destroy", "register"} => ~ stopping
  /\ pc = "release" => stopping

\* Cleanup retains whatever lives, and what a table names has been created.
Known ==
  /\ \A r \in Resources : native[r] = "live" => r \in buffers
  /\ \A k \in Keys : table[k] # None => native[table[k]] # "unused"
  /\ \A r \in Resources : Between(r) => native[r] # "unused"

\* A buffer has one key.
OneKey ==
  /\ \A k, l \in Keys : table[k] = table[l] => k = l \/ table[k] = None
  /\ ~ Up => \A k \in Keys : table[k] = None
  /\ \A r \in Resources : Between(r) => \A k \in Keys : table[k] # r
  /\ pc = "new" => arg \in Keys /\ table[arg] = None

\* Nothing lives but the buffers of the registry.
NoneElse ==
  /\ pc = "attach" /\ reply = "ok" /\ ~ lost => buffers = {}
  /\ Up /\ ~ stopping /\ ~ lost =>
       \A r \in Resources : native[r] = "live" <=> (\E k \in Keys : table[k] = r) \/ Between(r)

BuffersInv == Stops /\ Known /\ OneKey /\ NoneElse

\* While Cleanup lives, no call to it exits or is refused, and the call a dead registry has left is
\* one of its owner.
Lives ==
  /\ cleanup = TRUE /\ lost = FALSE /\ reply \in {"none", "ok"}
  /\ pc = "down" /\ call.op \notin {"none", "attach"} => owner = "dead"

\* What Cleanup keeps, or is about to, has no answer; nor has what was not asked for.
NotYetAnswered ==
  /\ \A w \in Waits : request[w] = "none" \/ w \in kept => messages[w] = <<>>
  /\ call.op = "register_wait" /\ reply = "none" => messages[call.wait] = <<>>

AnswersInv == Lives /\ NotYetAnswered /\ AnsweredOnce /\ NobodyForgotten

----------------------------------------------------------------------------
(* Initially. *)

LEMMA InitTyped == Init => Typed /\ MessagesTyped
<1> SUFFICES ASSUME Init PROVE Typed /\ MessagesTyped
  OBVIOUS
<1>1. RegistryTyped /\ TablesTyped /\ CleanupTyped /\ DeathsTyped
  BY DEF Init, RegistryTyped, TablesTyped, CleanupTyped, DeathsTyped
<1>2. CallTyped /\ NativeTyped /\ CallersTyped
  BY DEF Init, NoCall, Ops, CallTyped, NativeTyped, CallersTyped
<1>3. MessagesTyped
  BY DEF Init, MessagesTyped
<1> QED
  BY <1>1, <1>2, <1>3 DEF Typed

LEMMA InitInv == Init => Inv /\ BuffersInv /\ AnswersInv
<1> SUFFICES ASSUME Init PROVE Inv /\ BuffersInv /\ AnswersInv
  OBVIOUS
<1>1. Places /\ Owned /\ Served /\ Canceled
  BY ConstantsAssumption DEF Init, Places, OpOf, NoCall, Owned, Up, Served, Canceled
<1>2. Verdicts /\ Lookups /\ Wakeups /\ Unused
  BY DEF Init, Verdicts, NoCall, Lookups, Wakeups, Unused
<1>3. BuffersInv
  BY DEF Init, BuffersInv, Stops, Known, OneKey, NoneElse, Between, Up
<1>4. Lives /\ NotYetAnswered /\ NobodyForgotten
  BY DEF Init, NoCall, Lives, NotYetAnswered, NobodyForgotten
<1>5. AnsweredOnce
  BY DEF Init, AnsweredOnce
<1> QED
  BY <1>1, <1>2, <1>3, <1>4, <1>5, InitTyped DEF Inv, AnswersInv

----------------------------------------------------------------------------
(* The types. *)

LEMMA RegistryTypeKeeps ==
  ASSUME Typed, Places, Served, Next
  PROVE  RegistryTyped' /\ TablesTyped'
<1> USE ConstantsAssumption DEF Typed, RegistryTyped, TablesTyped
<1>1. CASE Attach \/ Release \/ \E k \in Keys : BufferNew(k)
  BY <1>1 DEF Attach, Release, BufferNew
<1>2. CASE ClockNotFound
  BY <1>2 DEF ClockNotFound, CallTyped
<1>3. CASE \E k \in Keys : BufferDestroy(k)
  BY <1>3 DEF BufferDestroy
<1>4. CASE Attached \/ BufferMade \/ BufferDestroyed
  BY <1>4 DEF Attached, BufferMade, BufferDestroyed, Loop, CallTyped, Results
<1>5. CASE \E w \in Waits : Wait(w)
  BY <1>5 DEF Wait
<1>6. CASE Registered
  BY <1>6 DEF Registered, Places, OpOf, Served
<1>7. CASE \E w \in Waits : FinishWait(w)
  BY <1>7 DEF FinishWait
<1>8. CASE Finished
  BY <1>8 DEF Finished
<1>9. CASE Stop \/ CleanupDown \/ Crash \/ Released \/ Kill
  BY <1>9 DEF Stop, CleanupDown, Crash, Released, Kill, Terminate, Gone, Results
<1>10. CASE LoopEnds \/ \E w \in Waits : WaitTimeout(w) \/ CancelWait(w) \/ CallerDown(w) \/ StillMissing(w)
  BY <1>10 DEF LoopEnds, WaitTimeout, CancelWait, CallerDown, StillMissing, Finishes, Loop, Results, Silent
<1>11. CASE \E r \in Resources : NewTransform(r)
  BY <1>11 DEF NewTransform, Finishes, Loop, Results
<1>12. CASE Writers
  BY <1>12 DEF Writers, SetTransform, Clear, NotifyTransform, registry_vars
<1>13. CASE Cleanup \/ CleanupRestarts \/ CleanupKilled \/ CleanupCrashes
  BY <1>13 DEF Cleanup, HandleAttach, HandleBufferNew, HandleBufferDestroy, HandleRegisterWait, HandleFinishWait,
     HandleRelease, HandleStranger, OwnerDown, ForgetCaller, CleanupRestarts, CleanupKilled, CleanupCrashes,
     CleanupEnds,
     registry_vars
<1>14. CASE (\E w \in Waits : WaitRefused(w) \/ WaitAnswered(w)) \/ \E c \in Callers : CallerDies(c)
  BY <1>14 DEF WaitRefused, WaitAnswered, CallerDies, registry_vars
<1> QED
  BY <1>1, <1>2, <1>3, <1>4, <1>5, <1>6, <1>7, <1>8, <1>9, <1>10, <1>11, <1>12, <1>13, <1>14
     DEF Next, Registry, BufferStep, WaitStep, Calls, Supervisor, Faults

LEMMA AnswerTyped ==
  ASSUME CallTyped, NEW r \in {"ok", "tf2_shutdown"}, NEW r0 \in Resources \cup {None}, Answer(r, r0)
  PROVE  CallTyped'
BY DEF CallTyped, Answer, Read, NoCall, Ops

LEMMA CleanupTypeKeeps ==
  ASSUME Typed, Served, Next
  PROVE  CleanupTyped' /\ CallTyped'
<1> USE DEF Typed, CleanupTyped, CallTyped
<1>1. CASE Attach \/ ClockNotFound \/ Release \/ \E k \in Keys : BufferNew(k) \/ BufferDestroy(k)
  BY <1>1 DEF Attach, ClockNotFound, Release, BufferNew, BufferDestroy, Call, Ops, cleanup_vars, TablesTyped
<1>2. CASE \E w \in Waits : Wait(w) \/ FinishWait(w)
  BY <1>2 DEF Wait, FinishWait, Call, Ops, cleanup_vars, RegistryTyped
<1>3. CASE Attached \/ BufferMade \/ BufferDestroyed \/ Registered \/ Finished \/ Crash
  BY <1>3 DEF Attached, BufferMade, BufferDestroyed, Registered, Finished, Crash, Terminate, Read, NoCall, Ops,
     cleanup_vars
<1>4. CASE Released \/ Kill
  BY <1>4 DEF Released, Kill, Gone, Read, NoCall, Ops
<1>5. CASE CleanupDown \/ Stop
  BY <1>5 DEF CleanupDown, Stop, Terminate, cleanup_vars
<1>6. CASE LoopEnds \/ \E w \in Waits : WaitTimeout(w) \/ CancelWait(w) \/ CallerDown(w) \/ StillMissing(w)
  BY <1>6 DEF LoopEnds, WaitTimeout, CancelWait, CallerDown, StillMissing, Finishes, cleanup_vars
<1>7. CASE Writers \/ (\E r \in Resources : NewTransform(r)) \/ \E c \in Callers : CallerDies(c)
  BY <1>7 DEF Writers, SetTransform, Clear, NotifyTransform, NewTransform, Finishes, CallerDies, cleanup_vars
<1>8. CASE HandleBufferNew \/ HandleBufferDestroy
  <2>1. CleanupTyped'
    BY <1>8 DEF HandleBufferNew, HandleBufferDestroy
  <2> QED
    BY <1>8, <2>1, AnswerTyped DEF HandleBufferNew, HandleBufferDestroy
<1>9. CASE HandleRegisterWait \/ HandleFinishWait
  <2>1. CleanupTyped'
    BY <1>9 DEF HandleRegisterWait, HandleFinishWait, InHand, Served
  <2> QED
    BY <1>9, <2>1, AnswerTyped DEF HandleRegisterWait, HandleFinishWait
<1>10. CASE HandleAttach \/ HandleRelease \/ HandleStranger
  BY <1>10, AnswerTyped DEF HandleAttach, HandleRelease, HandleStranger, CleanedUp, cleanup_vars
<1>11. CASE OwnerDown \/ CleanupRestarts \/ \E w \in Waits : ForgetCaller(w)
  BY <1>11 DEF OwnerDown, ForgetCaller, CleanupRestarts, CleanedUp
<1>12. CASE CleanupKilled \/ CleanupCrashes
  <2>1. CleanupTyped'
    BY <1>12 DEF CleanupKilled, CleanupCrashes, CleanupEnds
  <2>2. CallTyped'
    BY <1>12 DEF CleanupKilled, CleanupCrashes, CleanupEnds, Read, NoCall, Ops
  <2> QED
    BY <2>1, <2>2
<1>13. CASE \E w \in Waits : WaitRefused(w) \/ WaitAnswered(w)
  BY <1>13 DEF WaitRefused, WaitAnswered, cleanup_vars
<1> QED
  BY <1>1, <1>2, <1>3, <1>4, <1>5, <1>6, <1>7, <1>8, <1>9, <1>10, <1>11, <1>12, <1>13
     DEF Next, Registry, BufferStep, WaitStep, Calls, Cleanup, Supervisor, Faults

\* A buffer is empty until it is created, and only set_transform fills it.
LEMMA NativeTypeKeeps ==
  ASSUME Typed, Unused, Next
  PROVE  NativeTyped' /\ Unused'
<1> USE DEF Typed, NativeTyped, Unused
<1>1. CASE \E k \in Keys, t \in Transforms : SetTransform(k, t)
  <2>1. PICK k \in Keys, t \in Transforms : SetTransform(k, t)
    BY <1>1
  <2>2. /\ table[k] \in Resources /\ native[table[k]] = "live" /\ native' = native /\ notify' = notify \cup {table[k]}
        /\ content' = [content EXCEPT ![table[k]] = @ \cup {t}]
    BY <2>1 DEF SetTransform, TablesTyped
  <2>3. content[table[k]] \cup {t} \in SUBSET Transforms
    BY <2>2
  <2> QED
    BY <2>2, <2>3
<1>2. CASE (\E k \in Keys : Clear(k)) \/ \E r \in Resources : NotifyTransform(r)
  BY <1>2 DEF Clear, NotifyTransform
<1>3. CASE HandleBufferNew \/ HandleBufferDestroy
  BY <1>3 DEF HandleBufferNew, HandleBufferDestroy, Destroy
<1>4. CASE HandleAttach \/ HandleRelease \/ OwnerDown
  BY <1>4 DEF HandleAttach, HandleRelease, OwnerDown, CleanedUp, Destroy
<1>5. CASE Stop \/ CleanupDown \/ Crash
  BY <1>5 DEF Stop, CleanupDown, Crash, Terminate, Destroy
<1>6. CASE CleanupKilled \/ CleanupCrashes
  BY <1>6 DEF CleanupKilled, CleanupCrashes, CleanupEnds, Destroy
<1>7. CASE Supervisor \/ BufferMade \/ ClockNotFound \/ BufferDestroyed \/ Attached \/ Release \/ Released \/ Kill
  BY <1>7 DEF Supervisor, Attach, CleanupRestarts, BufferMade, ClockNotFound, BufferDestroyed, Attached, Release,
     Released, Kill,
     native_vars
<1>8. CASE WaitStep \/ \E r \in Resources : NewTransform(r)
  BY <1>8 DEF WaitStep, Registered, Finished, LoopEnds, StillMissing, FinishWait, NewTransform, Finishes, native_vars
<1>9. CASE Calls \/ \E w \in Waits : WaitTimeout(w) \/ CallerDown(w)
  BY <1>9 DEF Calls, WaitRefused, WaitAnswered, Wait, CancelWait, BufferNew, BufferDestroy, WaitTimeout, CallerDown,
     Finishes,
     native_vars
<1>10. CASE HandleRegisterWait \/ HandleFinishWait \/ HandleStranger \/ \E w \in Waits : ForgetCaller(w)
  BY <1>10 DEF HandleRegisterWait, HandleFinishWait, HandleStranger, ForgetCaller, native_vars
<1>11. CASE \E c \in Callers : CallerDies(c)
  BY <1>11 DEF CallerDies, native_vars
<1> QED
  BY <1>1, <1>2, <1>3, <1>4, <1>5, <1>6, <1>7, <1>8, <1>9, <1>10, <1>11
     DEF Next, Registry, BufferStep, Writers, Cleanup, Faults

LEMMA CallersTypeKeeps ==
  ASSUME Typed, Next
  PROVE  CallersTyped'
<1> USE DEF Typed, CallersTyped
<1>1. CASE (\E w \in Waits : WaitRefused(w) \/ WaitAnswered(w) \/ Wait(w))
  BY <1>1 DEF WaitRefused, WaitAnswered, Wait
<1>2. CASE \E w \in Waits : CancelWait(w)
  BY <1>2 DEF CancelWait, Finishes
<1>3. CASE Registered
  BY <1>3 DEF Registered
<1>4. CASE Finished
  BY <1>4 DEF Finished
<1>5. CASE Stop \/ CleanupDown \/ Crash \/ Kill
  BY <1>5 DEF Stop, CleanupDown, Crash, Kill, Terminate
<1>6. CASE \E c \in Callers : CallerDies(c)
  BY <1>6 DEF CallerDies
<1>7. CASE Attached \/ Release \/ Released \/ BufferMade \/ ClockNotFound \/ BufferDestroyed \/ LoopEnds
  BY <1>7 DEF Attached, Release, Released, BufferMade, ClockNotFound, BufferDestroyed, LoopEnds, caller_vars
<1>8. CASE (\E w \in Waits : StillMissing(w) \/ FinishWait(w) \/ WaitTimeout(w) \/ CallerDown(w)) \/ \E r \in Resources : NewTransform(r)
  BY <1>8 DEF StillMissing, FinishWait, WaitTimeout, CallerDown, NewTransform, Finishes, caller_vars
<1>9. CASE Supervisor \/ \E k \in Keys : BufferNew(k) \/ BufferDestroy(k)
  BY <1>9 DEF BufferNew, BufferDestroy, Supervisor, Attach, CleanupRestarts, caller_vars
<1>10. CASE Cleanup
  BY <1>10 DEF Cleanup, HandleAttach, HandleBufferNew, HandleBufferDestroy, HandleRegisterWait, HandleFinishWait,
     HandleRelease,
     HandleStranger, OwnerDown, ForgetCaller, caller_vars
<1>11. CASE CleanupKilled \/ CleanupCrashes
  BY <1>11 DEF CleanupKilled, CleanupCrashes, CleanupEnds
<1>12. CASE Writers
  BY <1>12 DEF Writers, SetTransform, Clear, NotifyTransform, caller_vars
<1> QED
  BY <1>1, <1>2, <1>3, <1>4, <1>5, <1>6, <1>7, <1>8, <1>9, <1>10, <1>11, <1>12
     DEF Next, Registry, BufferStep, WaitStep, Calls, Faults

LEMMA DeathsTypeKeeps ==
  ASSUME Typed, Next
  PROVE  DeathsTyped'
<1> USE DEF Typed, DeathsTyped
<1>1. CASE Stop \/ Kill \/ CleanupKilled \/ CleanupCrashes
  BY <1>1 DEF Stop, Kill, CleanupKilled, CleanupCrashes, CleanupEnds
<1>2. CASE Registry \/ Supervisor
  BY <1>2 DEF Registry, BufferStep, WaitStep, Attached, CleanupDown, Release, Released, BufferMade, ClockNotFound,
     BufferDestroyed, Crash, Registered, Finished, LoopEnds, StillMissing, FinishWait, WaitTimeout, CallerDown,
     NewTransform,
     Finishes, Supervisor, Attach, CleanupRestarts
<1>3. CASE Calls \/ Writers \/ \E c \in Callers : CallerDies(c)
  BY <1>3 DEF Calls, WaitRefused, WaitAnswered, Wait, CancelWait, Finishes, BufferNew, BufferDestroy, Writers,
     SetTransform,
     Clear, NotifyTransform, CallerDies
<1>4. CASE Cleanup
  BY <1>4 DEF Cleanup, HandleAttach, HandleBufferNew, HandleBufferDestroy, HandleRegisterWait, HandleFinishWait,
     HandleRelease, HandleStranger, OwnerDown, ForgetCaller
<1> QED
  BY <1>1, <1>2, <1>3, <1>4 DEF Next, Faults

----------------------------------------------------------------------------
(* Who waits for whom. *)

LEMMA PlacesKeep ==
  ASSUME Typed, Places, Next
  PROVE  Places'
<1> USE DEF Places, OpOf
<1>1. CASE Attach \/ ClockNotFound \/ Release \/ \E k \in Keys : BufferNew(k) \/ BufferDestroy(k)
  BY <1>1 DEF Attach, ClockNotFound, Release, BufferNew, BufferDestroy, Call
<1>2. CASE \E w \in Waits : Wait(w) \/ FinishWait(w)
  BY <1>2 DEF Wait, FinishWait, Call
<1>3. CASE Attached \/ BufferMade \/ BufferDestroyed \/ Registered \/ Finished \/ Released \/ Crash
  BY <1>3 DEF Attached, BufferMade, BufferDestroyed, Registered, Finished, Released, Crash, Read, Gone, Terminate,
     Loop, NoCall
<1>4. CASE LoopEnds \/ Stop \/ CleanupDown
  BY <1>4 DEF LoopEnds, Stop, CleanupDown, Terminate
<1>5. CASE (\E w \in Waits : WaitTimeout(w) \/ CancelWait(w) \/ CallerDown(w) \/ StillMissing(w)) \/ \E r \in Resources : NewTransform(r)
  BY <1>5 DEF WaitTimeout, CancelWait, CallerDown, StillMissing, NewTransform, Finishes, Loop
<1>6. CASE HandleAttach \/ HandleBufferNew \/ HandleBufferDestroy \/ HandleRegisterWait
  BY <1>6 DEF HandleAttach, HandleBufferNew, HandleBufferDestroy, HandleRegisterWait, InHand, Answer, Read,
     registry_vars, NoCall, Typed, CallTyped
<1>7. CASE HandleFinishWait \/ HandleRelease \/ HandleStranger
  BY <1>7 DEF HandleFinishWait, HandleRelease, HandleStranger, InHand, Answer, Read, registry_vars, NoCall, Typed,
     CallTyped
<1>8. CASE OwnerDown \/ CleanupRestarts \/ \E w \in Waits : WaitRefused(w) \/ WaitAnswered(w) \/ ForgetCaller(w)
  BY <1>8 DEF OwnerDown, CleanupRestarts, WaitRefused, WaitAnswered, ForgetCaller, registry_vars
<1>9. CASE Writers \/ \E c \in Callers : CallerDies(c)
  BY <1>9 DEF Writers, SetTransform, Clear, NotifyTransform, CallerDies, registry_vars
<1>10. CASE Kill \/ CleanupKilled \/ CleanupCrashes
  BY <1>10 DEF Kill, CleanupKilled, CleanupCrashes, CleanupEnds, Gone, Read, registry_vars, NoCall
<1> QED
  BY <1>1, <1>2, <1>3, <1>4, <1>5, <1>6, <1>7, <1>8, <1>9, <1>10
     DEF Next, Registry, BufferStep, WaitStep, Calls, Cleanup, Supervisor, Faults

LEMMA OwnedKeeps ==
  ASSUME Typed, Places, Owned, Next
  PROVE  Owned'
<1> USE ConstantsAssumption DEF Owned, Places, OpOf, Up, FromOwner, NoCall, Typed, RegistryTyped, TablesTyped,
     CleanupTyped, CallTyped, CallersTyped
<1>1. CASE Attach \/ ClockNotFound \/ Release \/ \E k \in Keys : BufferNew(k) \/ BufferDestroy(k)
  BY <1>1 DEF Attach, ClockNotFound, Release, BufferNew, BufferDestroy, Call, cleanup_vars, caller_vars
<1>2. CASE \E w \in Waits : Wait(w) \/ FinishWait(w)
  BY <1>2 DEF Wait, FinishWait, Asks, Call, cleanup_vars, caller_vars
<1>3. CASE Attached \/ BufferMade \/ BufferDestroyed
  BY <1>3 DEF Attached, BufferMade, BufferDestroyed, Read, Loop, cleanup_vars, caller_vars
<1>4. CASE Registered \/ Finished
  BY <1>4 DEF Registered, Finished, Read, cleanup_vars, caller_vars
<1>5. CASE Released \/ Kill
  BY <1>5 DEF Released, Kill, Gone, Read, caller_vars
<1>6. CASE Crash \/ Stop \/ CleanupDown
  BY <1>6 DEF Crash, Stop, CleanupDown, Terminate, Read, cleanup_vars, caller_vars
<1>7. CASE LoopEnds \/ \E w \in Waits : WaitTimeout(w) \/ CancelWait(w) \/ CallerDown(w) \/ StillMissing(w)
  BY <1>7 DEF LoopEnds, WaitTimeout, CancelWait, CallerDown, StillMissing, Finishes, Loop, cleanup_vars, caller_vars
<1>8. CASE \E r \in Resources : NewTransform(r)
  BY <1>8 DEF NewTransform, Finishes, Loop, cleanup_vars, caller_vars
<1>9. CASE HandleBufferNew \/ HandleBufferDestroy
  BY <1>9 DEF HandleBufferNew, HandleBufferDestroy, InHand, Answer, Read, registry_vars, caller_vars
<1>10. CASE HandleRegisterWait \/ HandleFinishWait
  BY <1>10 DEF HandleRegisterWait, HandleFinishWait, InHand, Answer, Read, registry_vars, caller_vars
<1>11. CASE HandleAttach \/ HandleRelease
  BY <1>11 DEF HandleAttach, HandleRelease, CleanedUp, InHand, Answer, Read, registry_vars
<1>12. CASE HandleStranger
  BY <1>12 DEF HandleStranger, Answer, Read, registry_vars, cleanup_vars, caller_vars
<1>13. CASE OwnerDown \/ CleanupRestarts
  BY <1>13 DEF OwnerDown, CleanupRestarts, CleanedUp, registry_vars, caller_vars
<1>14. CASE \E w \in Waits : WaitRefused(w) \/ WaitAnswered(w) \/ ForgetCaller(w)
  BY <1>14 DEF WaitRefused, WaitAnswered, ForgetCaller, Asks, registry_vars, cleanup_vars, caller_vars
<1>15. CASE Writers \/ \E c \in Callers : CallerDies(c)
  BY <1>15 DEF Writers, SetTransform, Clear, NotifyTransform, CallerDies, registry_vars, cleanup_vars, caller_vars
<1>16. CASE CleanupKilled \/ CleanupCrashes
  BY <1>16 DEF CleanupKilled, CleanupCrashes, CleanupEnds, Read, registry_vars
<1> QED
  BY <1>1, <1>2, <1>3, <1>4, <1>5, <1>6, <1>7, <1>8, <1>9, <1>10, <1>11, <1>12, <1>13, <1>14, <1>15, <1>16
     DEF Next, Registry, BufferStep, WaitStep, Calls, Cleanup, Supervisor, Faults

LEMMA ServedKeeps ==
  ASSUME Typed, Places, Owned, Served, Next
  PROVE  Served'
<1> USE ConstantsAssumption DEF Served, Owned, Places, OpOf, Up, FromOwner, NoCall, Results, Typed, RegistryTyped,
     TablesTyped, CleanupTyped, CallTyped, CallersTyped
<1>1. CASE Attach \/ ClockNotFound \/ Release \/ \E k \in Keys : BufferNew(k) \/ BufferDestroy(k)
  BY <1>1 DEF Attach, ClockNotFound, Release, BufferNew, BufferDestroy, Call, cleanup_vars, caller_vars
<1>2. CASE \E w \in Waits : Wait(w) \/ FinishWait(w)
  BY <1>2 DEF Wait, FinishWait, Asks, Call, cleanup_vars, caller_vars
<1>3. CASE Attached \/ BufferMade \/ BufferDestroyed
  BY <1>3 DEF Attached, BufferMade, BufferDestroyed, Read, Loop, cleanup_vars, caller_vars
<1>4. CASE Registered \/ Finished
  BY <1>4 DEF Registered, Finished, Read, cleanup_vars, caller_vars
<1>5. CASE Released \/ Kill
  BY <1>5 DEF Released, Kill, Gone, Read, caller_vars
<1>6. CASE Crash \/ Stop \/ CleanupDown
  BY <1>6 DEF Crash, Stop, CleanupDown, Terminate, Read, cleanup_vars, caller_vars
<1>7. CASE LoopEnds \/ \E w \in Waits : WaitTimeout(w) \/ CancelWait(w) \/ CallerDown(w) \/ StillMissing(w)
  BY <1>7 DEF LoopEnds, WaitTimeout, CancelWait, CallerDown, StillMissing, Finishes, Loop, cleanup_vars, caller_vars
<1>8. CASE \E r \in Resources : NewTransform(r)
  BY <1>8 DEF NewTransform, Finishes, Loop, cleanup_vars, caller_vars
<1>9. CASE HandleBufferNew \/ HandleBufferDestroy
  BY <1>9 DEF HandleBufferNew, HandleBufferDestroy, InHand, Answer, Read, registry_vars, caller_vars
<1>10. CASE HandleRegisterWait \/ HandleFinishWait
  BY <1>10 DEF HandleRegisterWait, HandleFinishWait, InHand, Answer, Read, registry_vars, caller_vars
<1>11. CASE HandleAttach \/ HandleRelease
  BY <1>11 DEF HandleAttach, HandleRelease, CleanedUp, InHand, Answer, Read, registry_vars
<1>12. CASE HandleStranger
  BY <1>12 DEF HandleStranger, Answer, Read, registry_vars, cleanup_vars, caller_vars
<1>13. CASE OwnerDown \/ CleanupRestarts
  BY <1>13 DEF OwnerDown, CleanupRestarts, CleanedUp, registry_vars, caller_vars
<1>14. CASE \E w \in Waits : WaitRefused(w) \/ WaitAnswered(w) \/ ForgetCaller(w)
  BY <1>14 DEF WaitRefused, WaitAnswered, ForgetCaller, Asks, registry_vars, cleanup_vars, caller_vars
<1>15. CASE Writers \/ \E c \in Callers : CallerDies(c)
  BY <1>15 DEF Writers, SetTransform, Clear, NotifyTransform, CallerDies, registry_vars, cleanup_vars, caller_vars
<1>16. CASE CleanupKilled \/ CleanupCrashes
  BY <1>16 DEF CleanupKilled, CleanupCrashes, CleanupEnds, Read, registry_vars
<1> QED
  BY <1>1, <1>2, <1>3, <1>4, <1>5, <1>6, <1>7, <1>8, <1>9, <1>10, <1>11, <1>12, <1>13, <1>14, <1>15, <1>16
     DEF Next, Registry, BufferStep, WaitStep, Calls, Cleanup, Supervisor, Faults

LEMMA CanceledKeeps ==
  ASSUME Typed, Places, Owned, Served, Canceled, Next
  PROVE  Canceled'
<1> USE ConstantsAssumption DEF Canceled, Served, Places, OpOf, Up, NoCall, Typed, RegistryTyped, TablesTyped,
     CleanupTyped, CallTyped, CallersTyped
<1>1. CASE Attach \/ ClockNotFound \/ Release \/ \E k \in Keys : BufferNew(k) \/ BufferDestroy(k)
  BY <1>1 DEF Attach, ClockNotFound, Release, BufferNew, BufferDestroy, Call, cleanup_vars, caller_vars
<1>2. CASE \E w \in Waits : Wait(w) \/ FinishWait(w)
  BY <1>2 DEF Wait, FinishWait, Asks, Call, cleanup_vars, caller_vars
<1>3. CASE Attached \/ BufferMade \/ BufferDestroyed
  BY <1>3 DEF Attached, BufferMade, BufferDestroyed, Read, Loop, cleanup_vars, caller_vars
<1>4. CASE Registered \/ Finished
  BY <1>4 DEF Registered, Finished, Read, cleanup_vars, caller_vars
<1>5. CASE Released \/ Kill
  BY <1>5 DEF Released, Kill, Gone, Read, caller_vars
<1>6. CASE Crash \/ Stop \/ CleanupDown
  BY <1>6 DEF Crash, Stop, CleanupDown, Terminate, Read, cleanup_vars, caller_vars
<1>7. CASE LoopEnds \/ \E w \in Waits : WaitTimeout(w) \/ CancelWait(w) \/ CallerDown(w) \/ StillMissing(w)
  BY <1>7 DEF LoopEnds, WaitTimeout, CancelWait, CallerDown, StillMissing, Finishes, Loop, cleanup_vars, caller_vars
<1>8. CASE \E r \in Resources : NewTransform(r)
  BY <1>8 DEF NewTransform, Finishes, Loop, cleanup_vars, caller_vars
<1>9. CASE HandleBufferNew \/ HandleBufferDestroy
  BY <1>9 DEF HandleBufferNew, HandleBufferDestroy, InHand, Answer, Read, registry_vars, caller_vars
<1>10. CASE HandleRegisterWait \/ HandleFinishWait
  BY <1>10 DEF HandleRegisterWait, HandleFinishWait, InHand, Answer, Read, registry_vars, caller_vars
<1>11. CASE HandleAttach \/ HandleRelease
  BY <1>11 DEF HandleAttach, HandleRelease, CleanedUp, InHand, Answer, Read, registry_vars
<1>12. CASE HandleStranger
  BY <1>12 DEF HandleStranger, Answer, Read, registry_vars, cleanup_vars, caller_vars
<1>13. CASE OwnerDown \/ CleanupRestarts
  BY <1>13 DEF OwnerDown, CleanupRestarts, CleanedUp, registry_vars, caller_vars
<1>14. CASE \E w \in Waits : WaitRefused(w) \/ WaitAnswered(w) \/ ForgetCaller(w)
  BY <1>14 DEF WaitRefused, WaitAnswered, ForgetCaller, Asks, registry_vars, cleanup_vars, caller_vars
<1>15. CASE Writers \/ \E c \in Callers : CallerDies(c)
  BY <1>15 DEF Writers, SetTransform, Clear, NotifyTransform, CallerDies, registry_vars, cleanup_vars, caller_vars
<1>16. CASE CleanupKilled \/ CleanupCrashes
  BY <1>16 DEF CleanupKilled, CleanupCrashes, CleanupEnds, Read, registry_vars
<1> QED
  BY <1>1, <1>2, <1>3, <1>4, <1>5, <1>6, <1>7, <1>8, <1>9, <1>10, <1>11, <1>12, <1>13, <1>14, <1>15, <1>16
     DEF Next, Registry, BufferStep, WaitStep, Calls, Cleanup, Supervisor, Faults

LEMMA LookupsKeep ==
  ASSUME Typed, Places, Owned, Served, Lookups, Next
  PROVE  Lookups'
<1> USE ConstantsAssumption DEF Lookups, Served, Owned, Places, OpOf, Up, FromOwner, NoCall, Typed, RegistryTyped,
     TablesTyped, CleanupTyped, CallTyped, CallersTyped
<1>1. CASE Attach \/ ClockNotFound \/ Release \/ \E k \in Keys : BufferNew(k) \/ BufferDestroy(k)
  BY <1>1 DEF Attach, ClockNotFound, Release, BufferNew, BufferDestroy, Call, cleanup_vars, caller_vars
<1>2. CASE \E w \in Waits : Wait(w) \/ FinishWait(w)
  BY <1>2 DEF Wait, FinishWait, Asks, Call, cleanup_vars, caller_vars
<1>3. CASE Attached \/ BufferMade \/ BufferDestroyed
  BY <1>3 DEF Attached, BufferMade, BufferDestroyed, Read, Loop, cleanup_vars, caller_vars
<1>4. CASE Registered \/ Finished
  BY <1>4 DEF Registered, Finished, Read, cleanup_vars, caller_vars
<1>5. CASE Released \/ Kill
  BY <1>5 DEF Released, Kill, Gone, Read, caller_vars
<1>6. CASE Crash \/ Stop \/ CleanupDown
  BY <1>6 DEF Crash, Stop, CleanupDown, Terminate, Read, cleanup_vars, caller_vars
<1>7. CASE LoopEnds \/ \E w \in Waits : WaitTimeout(w) \/ CancelWait(w) \/ CallerDown(w) \/ StillMissing(w)
  BY <1>7 DEF LoopEnds, WaitTimeout, CancelWait, CallerDown, StillMissing, Finishes, Loop, cleanup_vars, caller_vars
<1>8. CASE \E r \in Resources : NewTransform(r)
  BY <1>8 DEF NewTransform, Finishes, Loop, cleanup_vars, caller_vars
<1>9. CASE HandleBufferNew \/ HandleBufferDestroy
  BY <1>9 DEF HandleBufferNew, HandleBufferDestroy, InHand, Answer, Read, registry_vars, caller_vars
<1>10. CASE HandleRegisterWait \/ HandleFinishWait
  BY <1>10 DEF HandleRegisterWait, HandleFinishWait, InHand, Answer, Read, registry_vars, caller_vars
<1>11. CASE HandleAttach \/ HandleRelease
  BY <1>11 DEF HandleAttach, HandleRelease, CleanedUp, InHand, Answer, Read, registry_vars
<1>12. CASE HandleStranger
  BY <1>12 DEF HandleStranger, Answer, Read, registry_vars, cleanup_vars, caller_vars
<1>13. CASE OwnerDown \/ CleanupRestarts
  BY <1>13 DEF OwnerDown, CleanupRestarts, CleanedUp, registry_vars, caller_vars
<1>14. CASE \E w \in Waits : WaitRefused(w) \/ WaitAnswered(w) \/ ForgetCaller(w)
  BY <1>14 DEF WaitRefused, WaitAnswered, ForgetCaller, Asks, registry_vars, cleanup_vars, caller_vars
<1>15. CASE Writers \/ \E c \in Callers : CallerDies(c)
  BY <1>15 DEF Writers, SetTransform, Clear, NotifyTransform, CallerDies, registry_vars, cleanup_vars, caller_vars
<1>16. CASE CleanupKilled \/ CleanupCrashes
  BY <1>16 DEF CleanupKilled, CleanupCrashes, CleanupEnds, Read, registry_vars
<1> QED
  BY <1>1, <1>2, <1>3, <1>4, <1>5, <1>6, <1>7, <1>8, <1>9, <1>10, <1>11, <1>12, <1>13, <1>14, <1>15, <1>16
     DEF Next, Registry, BufferStep, WaitStep, Calls, Cleanup, Supervisor, Faults

LEMMA VerdictsKeep ==
  ASSUME Typed, Places, Served, Verdicts, Next
  PROVE  Verdicts'
<1> USE ConstantsAssumption DEF Verdicts, Excused, Served, Places, OpOf, NoCall, Typed, RegistryTyped, CleanupTyped,
     CallTyped, CallersTyped
<1>1. CASE Attach \/ ClockNotFound \/ Release \/ \E k \in Keys : BufferNew(k) \/ BufferDestroy(k)
  BY <1>1 DEF Attach, ClockNotFound, Release, BufferNew, BufferDestroy, Call, cleanup_vars, caller_vars
<1>2. CASE \E w \in Waits : Wait(w) \/ FinishWait(w)
  BY <1>2 DEF Wait, FinishWait, Call, cleanup_vars, caller_vars
<1>3. CASE Attached \/ BufferMade \/ BufferDestroyed
  BY <1>3 DEF Attached, BufferMade, BufferDestroyed, Read, Loop, cleanup_vars, caller_vars
<1>4. CASE Registered \/ Finished
  BY <1>4 DEF Registered, Finished, Read, cleanup_vars, caller_vars
<1>5. CASE Released \/ Kill
  BY <1>5 DEF Released, Kill, Gone, Read, caller_vars
<1>6. CASE Crash \/ Stop \/ CleanupDown
  BY <1>6 DEF Crash, Stop, CleanupDown, Terminate, Read, cleanup_vars, caller_vars
<1>7. CASE LoopEnds \/ \E w \in Waits : WaitTimeout(w) \/ CancelWait(w) \/ CallerDown(w) \/ StillMissing(w)
  BY <1>7 DEF LoopEnds, WaitTimeout, CancelWait, CallerDown, StillMissing, Finishes, Loop, cleanup_vars, caller_vars
<1>8. CASE \E r \in Resources : NewTransform(r)
  BY <1>8 DEF NewTransform, Finishes, Loop, cleanup_vars, caller_vars
<1>9. CASE HandleBufferNew \/ HandleBufferDestroy
  BY <1>9 DEF HandleBufferNew, HandleBufferDestroy, InHand, Answer, Read, registry_vars, caller_vars
<1>10. CASE HandleRegisterWait \/ HandleFinishWait
  BY <1>10 DEF HandleRegisterWait, HandleFinishWait, InHand, Answer, Read, registry_vars, caller_vars
<1>11. CASE HandleAttach \/ HandleRelease
  BY <1>11 DEF HandleAttach, HandleRelease, CleanedUp, InHand, Answer, Read, registry_vars
<1>12. CASE HandleStranger
  BY <1>12 DEF HandleStranger, Answer, Read, registry_vars, cleanup_vars, caller_vars
<1>13. CASE OwnerDown \/ CleanupRestarts
  BY <1>13 DEF OwnerDown, CleanupRestarts, CleanedUp, registry_vars, caller_vars
<1>14. CASE \E w \in Waits : WaitRefused(w) \/ WaitAnswered(w) \/ ForgetCaller(w)
  BY <1>14 DEF WaitRefused, WaitAnswered, ForgetCaller, registry_vars, cleanup_vars, caller_vars
<1>15. CASE Writers \/ \E c \in Callers : CallerDies(c)
  BY <1>15 DEF Writers, SetTransform, Clear, NotifyTransform, CallerDies, registry_vars, cleanup_vars, caller_vars
<1>16. CASE CleanupKilled \/ CleanupCrashes
  BY <1>16 DEF CleanupKilled, CleanupCrashes, CleanupEnds, Read, registry_vars
<1> QED
  BY <1>1, <1>2, <1>3, <1>4, <1>5, <1>6, <1>7, <1>8, <1>9, <1>10, <1>11, <1>12, <1>13, <1>14, <1>15, <1>16
     DEF Next, Registry, BufferStep, WaitStep, Calls, Cleanup, Supervisor, Faults

----------------------------------------------------------------------------
(* Wakeups. *)

\* Only set_transform makes a buffer hold what it did not hold.
LEMMA NothingNew ==
  ASSUME Typed, Unused, NEW w \in Waits, NEW r \in Resources, Found(w, r)',
         \/ UNCHANGED <<native, content>>
         \/ (\E R : Destroy(R)) /\ UNCHANGED content
         \/ HandleBufferNew
         \/ \E k \in Keys : Clear(k)
  PROVE  Found(w, r)
BY DEF Typed, NativeTyped, Unused, Found, Destroy, HandleBufferNew, Clear, TablesTyped

LEMMA WakeupsKeep ==
  ASSUME Typed, Places, Served, Wakeups, Unused, Next
  PROVE  Wakeups'
<1> USE DEF Wakeups, Watched, Served
<1>1. ASSUME UNCHANGED <<todo, verdict, pending, waits_on, table, arg, casts>>,
             pc' = pc, notify' = notify,
             \/ UNCHANGED <<native, content>>
             \/ (\E R : Destroy(R)) /\ UNCHANGED content
             \/ HandleBufferNew
             \/ \E k \in Keys : Clear(k)
      PROVE Wakeups'
  BY <1>1, NothingNew DEF Typed, RegistryTyped, Places, OpOf, Served
<1>2. CASE \E k \in Keys, t \in Transforms : SetTransform(k, t)
  <2>1. PICK k \in Keys, t \in Transforms : SetTransform(k, t)
    BY <1>2
  <2>2. table[k] \in Resources /\ native' = native
        /\ content' = [content EXCEPT ![table[k]] = @ \cup {t}] /\ notify' = notify \cup {table[k]}
        /\ UNCHANGED registry_vars
    BY <2>1 DEF SetTransform, Typed, TablesTyped
  <2>3. ASSUME NEW w \in Waits, NEW r \in Resources, Watched(w, r) PROVE Watched(w, r)'
    BY <2>2, <2>3 DEF Found, registry_vars, Typed, NativeTyped
  <2>4. pc = "register" => arg \in Waits
    BY DEF Places, OpOf, Served
  <2> QED
    BY <2>2, <2>3, <2>4 DEF registry_vars, Typed, RegistryTyped
<1>3. CASE \E r \in Resources : NotifyTransform(r)
  BY <1>3 DEF NotifyTransform, Found, Served, Up
<1>4. CASE Cleanup \/ CleanupRestarts \/ (\E k \in Keys : Clear(k)) \/ (\E c \in Callers : CallerDies(c))
  BY <1>4, <1>1 DEF Cleanup, HandleAttach, HandleBufferNew, HandleBufferDestroy, HandleRegisterWait,
     HandleFinishWait, HandleRelease,
     HandleStranger, OwnerDown, ForgetCaller, CleanedUp, CleanupRestarts, Clear, CallerDies, registry_vars,
     native_vars
<1>5. CASE CleanupKilled \/ CleanupCrashes
  BY <1>5, <1>1 DEF CleanupKilled, CleanupCrashes, CleanupEnds, registry_vars
<1>6. CASE Stop \/ CleanupDown \/ Crash
  <2>1. /\ pc' = "loop" /\ (pc \notin {"loop", "finish"}) /\ UNCHANGED <<pending, waits_on, casts, content, notify>>
        /\ \E R : Destroy(R)
    BY <1>6 DEF Stop, CleanupDown, Crash, Terminate
  <2> QED
    BY <2>1, NothingNew DEF Typed, RegistryTyped
<1>7. CASE Released \/ Kill
  BY <1>7 DEF Released, Kill, Gone
<1>8. CASE Attach \/ Attached \/ Release \/ BufferMade \/ ClockNotFound \/ \E k \in Keys : BufferNew(k) \/ BufferDestroy(k)
  BY <1>8 DEF Attach, Attached, Release, BufferMade, ClockNotFound, BufferNew, BufferDestroy, native_vars, Found
<1>9. CASE BufferDestroyed \/ LoopEnds
  BY <1>9 DEF BufferDestroyed, LoopEnds, Loop, native_vars, Found
<1>10. CASE \E w \in Waits : Wait(w)
  BY <1>10, ConstantsAssumption DEF Wait, Asks, native_vars, Found, Typed, TablesTyped
<1>11. CASE Registered
  <2>1. /\ arg \in Waits /\ todo = {} /\ pending' = pending \cup {arg} /\ waits_on' = [waits_on EXCEPT ![arg] = table[KeyOf[arg]]]
        /\ pc' = "idle" /\ todo' = todo /\ UNCHANGED <<casts, native, content, notify>>
    BY <1>11 DEF Registered, native_vars, Places, OpOf, Served
  <2>2. waits_on'[arg] = table[KeyOf[arg]] /\ \A w \in pending \ {arg} : waits_on'[w] = waits_on[w]
    BY <2>1 DEF Typed, TablesTyped, RegistryTyped
  <2> QED
    BY <1>11, <2>1, <2>2 DEF Registered, Found
<1>12. CASE \E w \in Waits : FinishWait(w) \/ StillMissing(w)
  BY <1>12 DEF FinishWait, StillMissing, native_vars, Found, Typed, TablesTyped, RegistryTyped
<1>13. CASE Finished
  BY <1>13 DEF Finished, native_vars, Found
<1>14. CASE (\E w \in Waits : WaitTimeout(w) \/ CancelWait(w) \/ CallerDown(w))
  BY <1>14 DEF WaitTimeout, CancelWait, CallerDown, Finishes, Loop, native_vars, Found
<1>15. CASE \E r \in Resources : NewTransform(r)
  BY <1>15 DEF NewTransform, Finishes, Loop, native_vars, Found
<1>16. CASE \E w \in Waits : WaitRefused(w) \/ WaitAnswered(w)
  BY <1>16, <1>1 DEF WaitRefused, WaitAnswered, registry_vars, native_vars
<1> QED
  BY <1>2, <1>3, <1>4, <1>5, <1>6, <1>7, <1>8, <1>9, <1>10, <1>11, <1>12, <1>13, <1>14, <1>15, <1>16
     DEF Next, Registry, BufferStep, WaitStep, Calls, Supervisor, Writers, Faults

----------------------------------------------------------------------------
(* Buffers, when Cleanup is not killed. *)

LEMMA StopsKeep ==
  ASSUME Typed, Places, Served, Stops, Next
  PROVE  Stops'
<1> USE DEF Stops, Served, Places, OpOf, Up, NoCall, Typed, RegistryTyped, CallTyped
<1>1. CASE Attach \/ ClockNotFound \/ Release \/ \E k \in Keys : BufferNew(k) \/ BufferDestroy(k)
  BY <1>1 DEF Attach, ClockNotFound, Release, BufferNew, BufferDestroy
<1>2. CASE Attached \/ BufferMade \/ BufferDestroyed
  BY <1>2 DEF Attached, BufferMade, BufferDestroyed, Loop
<1>3. CASE WaitStep \/ \E w \in Waits : Wait(w)
  BY <1>3 DEF WaitStep, Registered, Finished, LoopEnds, StillMissing, FinishWait, Wait, Asks
<1>4. CASE Released \/ Kill
  BY <1>4 DEF Released, Kill, Gone
<1>5. CASE Crash \/ Stop \/ CleanupDown
  BY <1>5 DEF Crash, Stop, CleanupDown, Terminate
<1>6. CASE (\E w \in Waits : WaitTimeout(w) \/ CancelWait(w) \/ CallerDown(w)) \/ \E r \in Resources : NewTransform(r)
  BY <1>6 DEF WaitTimeout, CancelWait, CallerDown, NewTransform, Finishes, Loop
<1>7. CASE Cleanup \/ CleanupRestarts
  BY <1>7 DEF Cleanup, HandleAttach, HandleBufferNew, HandleBufferDestroy, HandleRegisterWait, HandleFinishWait,
     HandleRelease, HandleStranger, OwnerDown, ForgetCaller, CleanupRestarts, registry_vars
<1>8. CASE (\E w \in Waits : WaitRefused(w) \/ WaitAnswered(w)) \/ \E c \in Callers : CallerDies(c)
  <2>1. UNCHANGED registry_vars
    BY <1>8 DEF WaitRefused, WaitAnswered, CallerDies
  <2> QED
    BY <2>1 DEF registry_vars
<1>10. CASE Writers
  BY <1>10 DEF Writers, SetTransform, Clear, NotifyTransform, registry_vars
<1>9. CASE CleanupKilled \/ CleanupCrashes
  BY <1>9 DEF CleanupKilled, CleanupCrashes, CleanupEnds, registry_vars
<1> QED
  BY <1>1, <1>2, <1>3, <1>4, <1>5, <1>6, <1>7, <1>8, <1>9, <1>10 DEF Next, Registry, BufferStep, Calls, Supervisor,
     Faults

LEMMA KnownKeep ==
  ASSUME NoKills, Typed, Places, Owned, Served, Known, OneKey, Next
  PROVE  Known'
<1> USE ConstantsAssumption DEF Known, OneKey, Between, Served, Owned, Places, OpOf, Up, FromOwner, NoCall, Typed,
     RegistryTyped, TablesTyped, CleanupTyped, CallTyped, NativeTyped, DeathsTyped
<1>1. CASE Attach \/ ClockNotFound \/ Release \/ \E k \in Keys : BufferNew(k)
  BY <1>1 DEF Attach, ClockNotFound, Release, BufferNew, Call, cleanup_vars, native_vars
<1>2. CASE \E k \in Keys : BufferDestroy(k)
  <2>1. PICK k \in Keys : BufferDestroy(k)
    BY <1>2
  <2>2. /\ table' = [table EXCEPT ![k] = None] /\ UNCHANGED <<native, buffers, stopping, lost>> /\ pc = "idle" /\ pc' = "destroy"
        /\ call'.res = table[k] /\ table[k] # None /\ call'.op = "buffer_destroy"
    BY <2>1 DEF BufferDestroy, Call, native_vars, cleanup_vars
  <2>3. \A l \in Keys : table'[l] = IF l = k THEN None ELSE table[l]
    BY <2>2
  <2> QED
    BY <2>1, <2>2, <2>3
<1>3. CASE \E w \in Waits : Wait(w) \/ FinishWait(w)
  BY <1>3 DEF Wait, FinishWait, Asks, Call, cleanup_vars, native_vars
<1>4. CASE Attached \/ BufferDestroyed
  BY <1>4 DEF Attached, BufferDestroyed, Read, Loop, cleanup_vars, native_vars
<1>5. CASE BufferMade
  <2>1. /\ pc = "new" /\ pc' = "idle" /\ UNCHANGED <<native, buffers, stopping, lost>>
        /\ \/ table' = table /\ reply # "ok"
           \/ reply = "ok" /\ table' = [table EXCEPT ![arg] = call.res]
    BY <1>5 DEF BufferMade, native_vars, cleanup_vars
  <2>2. \A l \in Keys : table'[l] = table[l] \/ (reply = "ok" /\ l = arg /\ table'[l] = call.res)
    BY <2>1
  <2> QED
    BY <2>1, <2>2
<1>6. CASE Registered \/ Finished
  BY <1>6 DEF Registered, Finished, Read, cleanup_vars, native_vars
<1>7. CASE Released \/ Kill
  BY <1>7 DEF Released, Kill, Gone, Read, native_vars
<1>8. CASE Crash \/ Stop \/ CleanupDown
  <2>1. /\ pc' = "loop" /\ Up /\ stopping' = TRUE /\ UNCHANGED <<table, buffers, lost>>
        /\ native' = [r \in Resources |-> IF r \in {table[k] : k \in Keys} THEN "destroyed" ELSE native[r]]
    BY <1>8 DEF Crash, Stop, CleanupDown, Terminate, Destroy, cleanup_vars
  <2> QED
    BY <2>1
<1>9. CASE LoopEnds \/ \E w \in Waits : WaitTimeout(w) \/ CancelWait(w) \/ CallerDown(w) \/ StillMissing(w)
  BY <1>9 DEF LoopEnds, WaitTimeout, CancelWait, CallerDown, StillMissing, Finishes, Loop, cleanup_vars, native_vars
<1>10. CASE \E r \in Resources : NewTransform(r)
  BY <1>10 DEF NewTransform, Finishes, Loop, cleanup_vars, native_vars
<1>11. CASE HandleBufferNew \/ HandleBufferDestroy
  BY <1>11 DEF HandleBufferNew, HandleBufferDestroy, InHand, Answer, Read, Destroy, registry_vars
<1>12. CASE HandleRegisterWait \/ HandleFinishWait
  BY <1>12 DEF HandleRegisterWait, HandleFinishWait, InHand, Answer, Read, registry_vars, native_vars
<1>13. CASE HandleAttach \/ HandleRelease
  <2>1. /\ call.op \in {"attach", "release"} /\ buffers' = {} /\ UNCHANGED <<pc, table, stopping>>
        /\ native' = [r \in Resources |-> IF r \in buffers THEN "destroyed" ELSE native[r]]
    BY <1>13 DEF HandleAttach, HandleRelease, CleanedUp, InHand, Destroy, registry_vars
  <2> QED
    BY <2>1
<1>14. CASE HandleStranger
  BY <1>14 DEF HandleStranger, Answer, Read, registry_vars, cleanup_vars, native_vars
<1>15. CASE OwnerDown \/ CleanupRestarts
  BY <1>15 DEF OwnerDown, CleanupRestarts, CleanedUp, Destroy, registry_vars, native_vars
<1>16. CASE \E w \in Waits : WaitRefused(w) \/ WaitAnswered(w) \/ ForgetCaller(w)
  BY <1>16 DEF WaitRefused, WaitAnswered, ForgetCaller, Asks, registry_vars, cleanup_vars, native_vars
<1>17. CASE Writers \/ \E c \in Callers : CallerDies(c)
  BY <1>17 DEF Writers, SetTransform, Clear, NotifyTransform, CallerDies, registry_vars, cleanup_vars, native_vars
<1>18. CASE CleanupCrashes
  BY <1>18 DEF CleanupCrashes, CleanupEnds, Destroy, registry_vars, Read
<1>19. CASE CleanupKilled
  BY <1>19 DEF NoKills, CleanupKilled, CleanupEnds
<1> QED
  BY <1>1, <1>2, <1>3, <1>4, <1>5, <1>6, <1>7, <1>8, <1>9, <1>10, <1>11, <1>12, <1>13, <1>14, <1>15, <1>16, <1>17,
     <1>18, <1>19
     DEF Next, Registry, BufferStep, WaitStep, Calls, Cleanup, Supervisor, Faults

LEMMA OneKeyKeep ==
  ASSUME Typed, Places, Owned, Served, Known, OneKey, Next
  PROVE  OneKey'
<1> USE ConstantsAssumption DEF Known, OneKey, Between, Served, Owned, Places, OpOf, Up, FromOwner, NoCall, Typed,
     RegistryTyped, TablesTyped, CleanupTyped, CallTyped, NativeTyped, DeathsTyped
<1>1. CASE Attach \/ ClockNotFound \/ Release \/ \E k \in Keys : BufferNew(k)
  BY <1>1 DEF Attach, ClockNotFound, Release, BufferNew, Call, cleanup_vars, native_vars
<1>2. CASE \E k \in Keys : BufferDestroy(k)
  <2>1. PICK k \in Keys : BufferDestroy(k)
    BY <1>2
  <2>2. /\ table' = [table EXCEPT ![k] = None] /\ UNCHANGED <<native, buffers, stopping, lost>> /\ pc = "idle" /\ pc' = "destroy"
        /\ call'.res = table[k] /\ table[k] # None /\ call'.op = "buffer_destroy"
    BY <2>1 DEF BufferDestroy, Call, native_vars, cleanup_vars
  <2>3. \A l \in Keys : table'[l] = IF l = k THEN None ELSE table[l]
    BY <2>2
  <2> QED
    BY <2>1, <2>2, <2>3
<1>3. CASE \E w \in Waits : Wait(w) \/ FinishWait(w)
  BY <1>3 DEF Wait, FinishWait, Asks, Call, cleanup_vars, native_vars
<1>4. CASE Attached \/ BufferDestroyed
  BY <1>4 DEF Attached, BufferDestroyed, Read, Loop, cleanup_vars, native_vars
<1>5. CASE BufferMade
  <2>1. /\ pc = "new" /\ pc' = "idle" /\ UNCHANGED <<native, buffers, stopping, lost>>
        /\ \/ table' = table /\ reply # "ok"
           \/ reply = "ok" /\ table' = [table EXCEPT ![arg] = call.res]
    BY <1>5 DEF BufferMade, native_vars, cleanup_vars
  <2>2. \A l \in Keys : table'[l] = table[l] \/ (reply = "ok" /\ l = arg /\ table'[l] = call.res)
    BY <2>1
  <2> QED
    BY <2>1, <2>2
<1>6. CASE Registered \/ Finished
  BY <1>6 DEF Registered, Finished, Read, cleanup_vars, native_vars
<1>7. CASE Released \/ Kill
  BY <1>7 DEF Released, Kill, Gone, Read, native_vars
<1>8. CASE Crash \/ Stop \/ CleanupDown
  BY <1>8 DEF Crash, Stop, CleanupDown, Terminate, Destroy, Read, cleanup_vars
<1>9. CASE LoopEnds \/ \E w \in Waits : WaitTimeout(w) \/ CancelWait(w) \/ CallerDown(w) \/ StillMissing(w)
  BY <1>9 DEF LoopEnds, WaitTimeout, CancelWait, CallerDown, StillMissing, Finishes, Loop, cleanup_vars, native_vars
<1>10. CASE \E r \in Resources : NewTransform(r)
  BY <1>10 DEF NewTransform, Finishes, Loop, cleanup_vars, native_vars
<1>11. CASE HandleBufferNew \/ HandleBufferDestroy
  BY <1>11 DEF HandleBufferNew, HandleBufferDestroy, InHand, Answer, Read, Destroy, registry_vars
<1>12. CASE HandleRegisterWait \/ HandleFinishWait
  BY <1>12 DEF HandleRegisterWait, HandleFinishWait, InHand, Answer, Read, registry_vars, native_vars
<1>13. CASE HandleAttach \/ HandleRelease
  BY <1>13 DEF HandleAttach, HandleRelease, CleanedUp, InHand, Answer, Read, Destroy, registry_vars
<1>14. CASE HandleStranger
  BY <1>14 DEF HandleStranger, Answer, Read, registry_vars, cleanup_vars, native_vars
<1>15. CASE OwnerDown \/ CleanupRestarts
  BY <1>15 DEF OwnerDown, CleanupRestarts, CleanedUp, Destroy, registry_vars, native_vars
<1>16. CASE \E w \in Waits : WaitRefused(w) \/ WaitAnswered(w) \/ ForgetCaller(w)
  BY <1>16 DEF WaitRefused, WaitAnswered, ForgetCaller, Asks, registry_vars, cleanup_vars, native_vars
<1>17. CASE Writers \/ \E c \in Callers : CallerDies(c)
  BY <1>17 DEF Writers, SetTransform, Clear, NotifyTransform, CallerDies, registry_vars, cleanup_vars, native_vars
<1>18. CASE CleanupKilled \/ CleanupCrashes
  BY <1>18 DEF CleanupKilled, CleanupCrashes, CleanupEnds, Destroy, Read, registry_vars
<1> QED
  BY <1>1, <1>2, <1>3, <1>4, <1>5, <1>6, <1>7, <1>8, <1>9, <1>10, <1>11, <1>12, <1>13, <1>14, <1>15, <1>16, <1>17,
     <1>18
     DEF Next, Registry, BufferStep, WaitStep, Calls, Cleanup, Supervisor, Faults

LEMMA NoneElseKeep ==
  ASSUME NoKills, Typed, Places, Owned, Served, Known, OneKey, Stops, NoneElse, Next
  PROVE  NoneElse'
<1> USE ConstantsAssumption DEF Known, OneKey, Stops, NoneElse, Between, Served, Owned, Places, OpOf, Up, FromOwner,
     NoCall, Typed, RegistryTyped, TablesTyped, CleanupTyped, CallTyped, NativeTyped, DeathsTyped
<1>1. CASE Attach \/ ClockNotFound \/ Release \/ \E k \in Keys : BufferNew(k)
  BY <1>1 DEF Attach, ClockNotFound, Release, BufferNew, Call, cleanup_vars, native_vars
<1>2. CASE \E k \in Keys : BufferDestroy(k)
  <2>1. PICK k \in Keys : BufferDestroy(k)
    BY <1>2
  <2>2. /\ table' = [table EXCEPT ![k] = None] /\ UNCHANGED <<native, buffers, stopping, lost>> /\ pc = "idle" /\ pc' = "destroy"
        /\ call'.res = table[k] /\ table[k] # None /\ call'.op = "buffer_destroy"
    BY <2>1 DEF BufferDestroy, Call, native_vars, cleanup_vars
  <2>3. \A l \in Keys : table'[l] = IF l = k THEN None ELSE table[l]
    BY <2>2
  <2>4. pc' = "destroy" /\ (~ lost => reply' = "none") /\ ~ (pc = "new") /\ ~ (pc = "destroy")
    BY <2>1, <2>2 DEF BufferDestroy, Call
  <2>5. ASSUME NEW r \in Resources, ~ lost
        PROVE  (\E l \in Keys : table'[l] = r) \/ r = table[k] <=> \E l \in Keys : table[l] = r
    BY <2>2, <2>3, ConstantsAssumption
  <2> QED
    BY <2>2, <2>4, <2>5
<1>3. CASE \E w \in Waits : Wait(w) \/ FinishWait(w)
  BY <1>3 DEF Wait, FinishWait, Asks, Call, cleanup_vars, native_vars
<1>4. CASE Attached \/ BufferDestroyed
  BY <1>4 DEF Attached, BufferDestroyed, Read, Loop, cleanup_vars, native_vars
<1>5. CASE BufferMade
  <2>1. /\ pc = "new" /\ pc' = "idle" /\ UNCHANGED <<native, buffers, stopping, lost>>
        /\ \/ table' = table /\ reply # "ok"
           \/ reply = "ok" /\ table' = [table EXCEPT ![arg] = call.res]
    BY <1>5 DEF BufferMade, native_vars, cleanup_vars
  <2>2. \A l \in Keys : table'[l] = table[l] \/ (reply = "ok" /\ l = arg /\ table'[l] = call.res)
    BY <2>1
  <2>3. ASSUME NEW r \in Resources, reply = "ok", arg \in Keys, table[arg] = None
        PROVE  (\E l \in Keys : table'[l] = r) <=> (\E l \in Keys : table[l] = r) \/ r = call.res
    BY <2>1, <2>2, <2>3, ConstantsAssumption
  <2> QED
    BY <2>1, <2>2, <2>3
<1>6. CASE Registered \/ Finished
  BY <1>6 DEF Registered, Finished, Read, cleanup_vars, native_vars
<1>7. CASE Released \/ Kill
  BY <1>7 DEF Released, Kill, Gone, Read, native_vars
<1>8. CASE Crash \/ Stop \/ CleanupDown
  BY <1>8 DEF Crash, Stop, CleanupDown, Terminate, Destroy, Read, cleanup_vars
<1>9. CASE LoopEnds \/ \E w \in Waits : WaitTimeout(w) \/ CancelWait(w) \/ CallerDown(w) \/ StillMissing(w)
  BY <1>9 DEF LoopEnds, WaitTimeout, CancelWait, CallerDown, StillMissing, Finishes, Loop, cleanup_vars, native_vars
<1>10. CASE \E r \in Resources : NewTransform(r)
  BY <1>10 DEF NewTransform, Finishes, Loop, cleanup_vars, native_vars
<1>11. CASE HandleBufferNew \/ HandleBufferDestroy
  BY <1>11 DEF HandleBufferNew, HandleBufferDestroy, InHand, Answer, Read, Destroy, registry_vars
<1>12. CASE HandleRegisterWait \/ HandleFinishWait
  BY <1>12 DEF HandleRegisterWait, HandleFinishWait, InHand, Answer, Read, registry_vars, native_vars
<1>13. CASE HandleAttach \/ HandleRelease
  BY <1>13 DEF HandleAttach, HandleRelease, CleanedUp, InHand, Answer, Read, Destroy, registry_vars
<1>14. CASE HandleStranger
  BY <1>14 DEF HandleStranger, Answer, Read, registry_vars, cleanup_vars, native_vars
<1>15. CASE OwnerDown \/ CleanupRestarts
  BY <1>15 DEF OwnerDown, CleanupRestarts, CleanedUp, Destroy, registry_vars, native_vars
<1>16. CASE \E w \in Waits : WaitRefused(w) \/ WaitAnswered(w) \/ ForgetCaller(w)
  BY <1>16 DEF WaitRefused, WaitAnswered, ForgetCaller, Asks, registry_vars, cleanup_vars, native_vars
<1>17. CASE Writers \/ \E c \in Callers : CallerDies(c)
  BY <1>17 DEF Writers, SetTransform, Clear, NotifyTransform, CallerDies, registry_vars, cleanup_vars, native_vars
<1>18. CASE CleanupCrashes
  BY <1>18 DEF CleanupCrashes, CleanupEnds, Destroy, registry_vars, Read
<1>19. CASE CleanupKilled
  BY <1>19 DEF NoKills, CleanupKilled, CleanupEnds
<1> QED
  BY <1>1, <1>2, <1>3, <1>4, <1>5, <1>6, <1>7, <1>8, <1>9, <1>10, <1>11, <1>12, <1>13, <1>14, <1>15, <1>16, <1>17,
     <1>18, <1>19
     DEF Next, Registry, BufferStep, WaitStep, Calls, Cleanup, Supervisor, Faults

----------------------------------------------------------------------------
(* Answers. *)

\* A step sends nothing, or one result to some lookups.
LEMMA StepTells ==
  ASSUME Typed, Places, Served, Next
  PROVE  messages' = messages \/ \E R \in SUBSET Waits, result \in Results : Tell(R, result)
<1>1. CASE \E w \in Waits : WaitAnswered(w)
  BY <1>1 DEF WaitAnswered, Results
<1>2. CASE Finished
  BY <1>2 DEF Finished, Served, Places, OpOf, Typed, RegistryTyped, Silent
<1>3. CASE HandleAttach \/ HandleRelease \/ OwnerDown \/ CleanupCrashes
  BY <1>3 DEF HandleAttach, HandleRelease, OwnerDown, CleanupCrashes, CleanedUp, Typed, CleanupTyped, Results
<1>4. CASE HandleFinishWait \/ CleanupKilled
  BY <1>4 DEF HandleFinishWait, CleanupKilled, InHand, Served, Typed, CallTyped
<1>5. CASE Stop \/ CleanupDown \/ Crash \/ Kill
  BY <1>5 DEF Stop, CleanupDown, Crash, Kill, Terminate
<1>6. CASE Writers \/ \E c \in Callers : CallerDies(c)
  BY <1>6 DEF Writers, SetTransform, Clear, NotifyTransform, CallerDies, caller_vars
<1>7. CASE Attached \/ Release \/ Released \/ BufferMade \/ ClockNotFound \/ BufferDestroyed \/ LoopEnds \/ Registered
  BY <1>7 DEF Attached, Release, Released, BufferMade, ClockNotFound, BufferDestroyed, LoopEnds, Registered,
     caller_vars
<1>8. CASE (\E w \in Waits : StillMissing(w) \/ FinishWait(w) \/ WaitTimeout(w) \/ CallerDown(w)) \/ \E r \in Resources : NewTransform(r)
  BY <1>8 DEF StillMissing, FinishWait, WaitTimeout, CallerDown, NewTransform, Finishes, caller_vars
<1>9. CASE Supervisor \/ (\E w \in Waits : WaitRefused(w) \/ Wait(w) \/ CancelWait(w)) \/ \E k \in Keys : BufferNew(k) \/ BufferDestroy(k)
  BY <1>9 DEF WaitRefused, Wait, CancelWait, Finishes, BufferNew, BufferDestroy, Supervisor, Attach, CleanupRestarts,
     caller_vars
<1>10. CASE HandleBufferNew \/ HandleBufferDestroy \/ HandleRegisterWait \/ HandleStranger \/ \E w \in Waits : ForgetCaller(w)
  BY <1>10 DEF HandleBufferNew, HandleBufferDestroy, HandleRegisterWait, HandleStranger, ForgetCaller, caller_vars
<1> QED
  BY <1>1, <1>2, <1>3, <1>4, <1>5, <1>6, <1>7, <1>8, <1>9, <1>10
     DEF Next, Registry, BufferStep, WaitStep, Calls, Cleanup, Supervisor, Faults

LEMMA MessagesTypeKeeps ==
  ASSUME Typed, Places, Served, MessagesTyped, Next
  PROVE  MessagesTyped'
<1>1. ASSUME NEW result \in Results, NEW w \in Waits
      PROVE  messages[w] \in Seq(Results) /\ Append(messages[w], result) \in Seq(Results)
  BY DEF MessagesTyped
<1>2. CASE messages' = messages
  BY <1>2 DEF MessagesTyped
<1>3. ASSUME NEW R \in SUBSET Waits, NEW result \in Results, Tell(R, result) PROVE MessagesTyped'
  BY <1>1, <1>3 DEF Tell, MessagesTyped
<1> QED
  BY <1>2, <1>3, StepTells

\* What is on a list or in a call may be told, and no lookup that is canceled.
LEMMA StaysSilent ==
  ASSUME Typed, Places, Owned, Served, Canceled, Next
  PROVE  Silence
<1> USE ConstantsAssumption DEF Silence, Canceled, Owned, Served, Places, OpOf, Up, NoCall, Typed, RegistryTyped,
     CleanupTyped, CallTyped, CallersTyped
<1>1. CASE Attach \/ ClockNotFound \/ Release \/ \E k \in Keys : BufferNew(k) \/ BufferDestroy(k)
  BY <1>1 DEF Attach, ClockNotFound, Release, BufferNew, BufferDestroy, Call, cleanup_vars, caller_vars
<1>2. CASE \E w \in Waits : Wait(w) \/ FinishWait(w)
  BY <1>2 DEF Wait, FinishWait, Asks, Call, cleanup_vars, caller_vars
<1>3. CASE Attached \/ BufferMade \/ BufferDestroyed
  BY <1>3 DEF Attached, BufferMade, BufferDestroyed, Read, Loop, cleanup_vars, caller_vars
<1>4. CASE Registered \/ Finished
  BY <1>4 DEF Registered, Finished, Read, cleanup_vars, caller_vars, Tell
<1>5. CASE Released \/ Kill
  BY <1>5 DEF Released, Kill, Gone, Read, caller_vars
<1>6. CASE Crash \/ Stop \/ CleanupDown
  BY <1>6 DEF Crash, Stop, CleanupDown, Terminate, Read, cleanup_vars, caller_vars
<1>7. CASE LoopEnds \/ \E w \in Waits : WaitTimeout(w) \/ CancelWait(w) \/ CallerDown(w) \/ StillMissing(w)
  BY <1>7 DEF LoopEnds, WaitTimeout, CancelWait, CallerDown, StillMissing, Finishes, Loop, cleanup_vars, caller_vars
<1>8. CASE \E r \in Resources : NewTransform(r)
  BY <1>8 DEF NewTransform, Finishes, Loop, cleanup_vars, caller_vars
<1>9. CASE HandleBufferNew \/ HandleBufferDestroy
  BY <1>9 DEF HandleBufferNew, HandleBufferDestroy, InHand, Answer, Read, registry_vars, caller_vars
<1>10. CASE HandleRegisterWait \/ HandleFinishWait
  BY <1>10 DEF HandleRegisterWait, HandleFinishWait, InHand, Answer, Read, registry_vars, caller_vars, Tell
<1>11. CASE HandleAttach \/ HandleRelease
  BY <1>11 DEF HandleAttach, HandleRelease, CleanedUp, InHand, Answer, Read, registry_vars, Tell
<1>12. CASE HandleStranger
  BY <1>12 DEF HandleStranger, Answer, Read, registry_vars, cleanup_vars, caller_vars
<1>13. CASE OwnerDown \/ CleanupRestarts
  BY <1>13 DEF OwnerDown, CleanupRestarts, CleanedUp, registry_vars, caller_vars, Tell
<1>14. CASE \E w \in Waits : WaitRefused(w) \/ WaitAnswered(w) \/ ForgetCaller(w)
  BY <1>14 DEF WaitRefused, WaitAnswered, ForgetCaller, Asks, registry_vars, cleanup_vars, caller_vars, Tell
<1>15. CASE Writers \/ \E c \in Callers : CallerDies(c)
  BY <1>15 DEF Writers, SetTransform, Clear, NotifyTransform, CallerDies, registry_vars, cleanup_vars, caller_vars
<1>16. CASE CleanupKilled \/ CleanupCrashes
  BY <1>16 DEF CleanupKilled, CleanupCrashes, CleanupEnds, Read, registry_vars, Tell
<1> QED
  BY <1>1, <1>2, <1>3, <1>4, <1>5, <1>6, <1>7, <1>8, <1>9, <1>10, <1>11, <1>12, <1>13, <1>14, <1>15, <1>16
     DEF Next, Registry, BufferStep, WaitStep, Calls, Cleanup, Supervisor, Faults

----------------------------------------------------------------------------
(* Answers, while Cleanup lives. *)

LEMMA NeverEnds ==
  ASSUME MaxCleanupDeaths = 0, DeathsTyped
  PROVE  ~ CleanupKilled /\ ~ CleanupCrashes
BY DEF DeathsTyped, CleanupKilled, CleanupCrashes, CleanupEnds

LEMMA LivesKeeps ==
  ASSUME ~ CleanupKilled, ~ CleanupCrashes, Lives, Typed, Places, Owned, Served, Next
  PROVE  Lives'
<1> USE DEF Lives, Owned, Served, Places, OpOf, Up, FromOwner, NoCall, Typed, RegistryTyped, CleanupTyped, CallTyped,
     CallersTyped
<1>1. CASE Attach \/ ClockNotFound \/ Release \/ \E k \in Keys : BufferNew(k) \/ BufferDestroy(k)
  BY <1>1 DEF Attach, ClockNotFound, Release, BufferNew, BufferDestroy, Call, cleanup_vars, caller_vars
<1>2. CASE \E w \in Waits : Wait(w) \/ FinishWait(w)
  BY <1>2 DEF Wait, FinishWait, Call, cleanup_vars, caller_vars
<1>3. CASE Attached \/ BufferMade \/ BufferDestroyed
  BY <1>3 DEF Attached, BufferMade, BufferDestroyed, Read, Loop, cleanup_vars, caller_vars
<1>4. CASE Registered \/ Finished
  BY <1>4 DEF Registered, Finished, Read, cleanup_vars, caller_vars
<1>5. CASE Released
  BY <1>5 DEF Released, Gone, Read
<1>6. CASE Kill
  <2>1. pc # "down" /\ UNCHANGED <<cleanup, lost>> /\ owner' = (IF owner = "registry" THEN "dead" ELSE owner)
        /\ (IF reply = "none" THEN UNCHANGED <<call, reply>> ELSE Read)
    BY <1>6 DEF Kill, Gone
  <2> QED
    BY <2>1 DEF Read
<1>7. CASE Crash \/ Stop \/ CleanupDown
  BY <1>7 DEF Crash, Stop, CleanupDown, Terminate, Read, cleanup_vars, caller_vars
<1>8. CASE LoopEnds \/ \E w \in Waits : WaitTimeout(w) \/ CancelWait(w) \/ CallerDown(w) \/ StillMissing(w)
  BY <1>8 DEF LoopEnds, WaitTimeout, CancelWait, CallerDown, StillMissing, Finishes, Loop, cleanup_vars, caller_vars
<1>9. CASE \E r \in Resources : NewTransform(r)
  BY <1>9 DEF NewTransform, Finishes, Loop, cleanup_vars, caller_vars
<1>10. CASE HandleBufferNew \/ HandleBufferDestroy
  BY <1>10 DEF HandleBufferNew, HandleBufferDestroy, InHand, Answer, Read, registry_vars, caller_vars
<1>11. CASE HandleRegisterWait \/ HandleFinishWait
  BY <1>11 DEF HandleRegisterWait, HandleFinishWait, InHand, Answer, Read, registry_vars, caller_vars
<1>12. CASE HandleAttach
  BY <1>12 DEF HandleAttach, InHand, Answer, Read, registry_vars
<1>13. CASE HandleRelease
  BY <1>13 DEF HandleRelease, InHand, Answer, Read, registry_vars
<1>14. CASE HandleStranger
  BY <1>14 DEF HandleStranger, Answer, Read, registry_vars, cleanup_vars, caller_vars
<1>15. CASE OwnerDown \/ CleanupRestarts
  BY <1>15 DEF OwnerDown, CleanupRestarts, CleanedUp, registry_vars, caller_vars
<1>16. CASE \E w \in Waits : WaitRefused(w) \/ WaitAnswered(w) \/ ForgetCaller(w)
  BY <1>16 DEF WaitRefused, WaitAnswered, ForgetCaller, registry_vars, cleanup_vars, caller_vars
<1>17. CASE Writers \/ \E c \in Callers : CallerDies(c)
  BY <1>17 DEF Writers, SetTransform, Clear, NotifyTransform, CallerDies, registry_vars, cleanup_vars, caller_vars
<1>18. CASE CleanupKilled \/ CleanupCrashes
  BY <1>18
<1> QED
  BY <1>1, <1>2, <1>3, <1>4, <1>5, <1>6, <1>7, <1>8, <1>9, <1>10, <1>11, <1>12, <1>13, <1>14, <1>15, <1>16, <1>17,
     <1>18
     DEF Next, Registry, BufferStep, WaitStep, Calls, Cleanup, Supervisor, Faults

\* Who is told is on Cleanup's list, and leaves it, or asks just now.
LEMMA OncePerLookup ==
  ASSUME ~ CleanupKilled, ~ CleanupCrashes, Lives, Canceled, Typed, Places, Owned, Served, Next
  PROVE  \A w \in Waits :
           \/ messages'[w] = messages[w]
           \/ /\ w \in kept \/ (pc = "idle" /\ request[w] = "none")
              /\ w \notin kept' /\ request'[w] # "none"
              /\ \E result \in Results : messages'[w] = Append(messages[w], result)
<1> USE ConstantsAssumption DEF Lives, Owned, Served, Places, OpOf, Up, FromOwner, NoCall, Typed, RegistryTyped,
     CleanupTyped, CallTyped, CallersTyped, Canceled, Results, Silent
<1>1. CASE Attach \/ ClockNotFound \/ Release \/ \E k \in Keys : BufferNew(k) \/ BufferDestroy(k)
  BY <1>1 DEF Attach, ClockNotFound, Release, BufferNew, BufferDestroy, Call, cleanup_vars, caller_vars
<1>2. CASE \E w \in Waits : Wait(w) \/ FinishWait(w)
  BY <1>2 DEF Wait, FinishWait, Asks, Call, cleanup_vars, caller_vars
<1>3. CASE Attached \/ BufferMade \/ BufferDestroyed
  BY <1>3 DEF Attached, BufferMade, BufferDestroyed, Read, Loop, cleanup_vars, caller_vars
<1>4. CASE Registered \/ Finished
  BY <1>4 DEF Registered, Finished, Read, cleanup_vars, caller_vars, Tell
<1>5. CASE Released \/ Kill
  BY <1>5 DEF Released, Kill, Gone, Read, caller_vars
<1>6. CASE Crash \/ Stop \/ CleanupDown
  BY <1>6 DEF Crash, Stop, CleanupDown, Terminate, Read, cleanup_vars, caller_vars
<1>7. CASE LoopEnds \/ \E w \in Waits : WaitTimeout(w) \/ CancelWait(w) \/ CallerDown(w) \/ StillMissing(w)
  BY <1>7 DEF LoopEnds, WaitTimeout, CancelWait, CallerDown, StillMissing, Finishes, Loop, cleanup_vars, caller_vars
<1>8. CASE \E r \in Resources : NewTransform(r)
  BY <1>8 DEF NewTransform, Finishes, Loop, cleanup_vars, caller_vars
<1>9. CASE HandleBufferNew \/ HandleBufferDestroy
  BY <1>9 DEF HandleBufferNew, HandleBufferDestroy, InHand, Answer, Read, registry_vars, caller_vars
<1>10. CASE HandleRegisterWait
  BY <1>10 DEF HandleRegisterWait, caller_vars
<1>11. CASE HandleFinishWait
  <2>1. /\ messages' = messages \/ (call.wait \in kept /\ call.result \in Results /\ Tell({call.wait}, call.result))
        /\ kept' = kept \ {call.wait} /\ request' = request
    BY <1>11 DEF HandleFinishWait, InHand
  <2> QED
    BY <2>1 DEF Tell
<1>12. CASE HandleAttach \/ HandleRelease
  <2>1. Tell(kept, "tf2_shutdown") /\ kept' = {} /\ request' = request
    BY <1>12 DEF HandleAttach, HandleRelease, CleanedUp
  <2> QED
    BY <2>1 DEF Tell
<1>13. CASE HandleStranger
  BY <1>13 DEF HandleStranger, Answer, Read, registry_vars, cleanup_vars, caller_vars
<1>14. CASE OwnerDown \/ CleanupRestarts
  BY <1>14 DEF OwnerDown, CleanupRestarts, CleanedUp, registry_vars, caller_vars, Tell
<1>15. CASE \E w \in Waits : WaitAnswered(w)
  <2>1. PICK w \in Waits : WaitAnswered(w)
    BY <1>15
  <2>2. /\ pc = "idle" /\ request[w] = "none" /\ request' = [request EXCEPT ![w] = "accepted"] /\ kept' = kept
        /\ \E result \in Results : Tell({w}, result)
    BY <2>1 DEF WaitAnswered, Asks, cleanup_vars
  <2>3. w \notin kept /\ request'[w] = "accepted"
    BY <2>2
  <2> QED
    BY <2>2, <2>3 DEF Tell
<1>16. CASE \E w \in Waits : WaitRefused(w) \/ ForgetCaller(w)
  BY <1>16 DEF WaitRefused, ForgetCaller, caller_vars
<1>17. CASE Writers \/ \E c \in Callers : CallerDies(c)
  BY <1>17 DEF Writers, SetTransform, Clear, NotifyTransform, CallerDies, registry_vars, cleanup_vars, caller_vars
<1>18. CASE CleanupKilled \/ CleanupCrashes
  BY <1>18
<1> QED
  BY <1>1, <1>2, <1>3, <1>4, <1>5, <1>6, <1>7, <1>8, <1>9, <1>10, <1>11, <1>12, <1>13, <1>14, <1>15, <1>16, <1>17,
     <1>18
     DEF Next, Registry, BufferStep, WaitStep, Calls, Cleanup, Supervisor, Faults

\* A lookup becomes accepted with its answer, or on Cleanup's list.
LEMMA RequestSteps ==
  ASSUME ~ CleanupKilled, ~ CleanupCrashes, Lives, Lookups, Typed, Places, Owned, Served, Next
  PROVE  /\ alive' \subseteq alive
         /\ \A w \in Waits :
              /\ request'[w] = "none" => request[w] = "none"
              /\ cancel'[w] = "none" => cancel[w] = "none"
              /\ request'[w] = "accepted" /\ request[w] # "accepted" =>
                   \/ w \in kept' \/ CallerOf[w] \notin alive
                   \/ \E result \in Results : messages'[w] = Append(messages[w], result)
<1> USE DEF Typed, CallersTyped, Results
<1>1. CASE Attach \/ ClockNotFound \/ Release \/ \E k \in Keys : BufferNew(k) \/ BufferDestroy(k)
  BY <1>1 DEF Attach, ClockNotFound, Release, BufferNew, BufferDestroy, caller_vars
<1>2. CASE \E w \in Waits : Wait(w) \/ FinishWait(w)
  BY <1>2 DEF Wait, FinishWait, caller_vars
<1>3. CASE Attached \/ BufferMade \/ BufferDestroyed
  BY <1>3 DEF Attached, BufferMade, BufferDestroyed, caller_vars
<1>4. CASE Registered
  <2>1. /\ request' = [request EXCEPT ![arg] = "accepted"] /\ arg \in Waits /\ UNCHANGED <<alive, cancel, kept>>
        /\ arg \in kept \/ CallerOf[arg] \notin alive
    BY <1>4 DEF Registered, cleanup_vars, Lives, Lookups, Places, OpOf, Served
  <2> QED
    BY <2>1
<1>5. CASE Finished
  BY <1>5 DEF Finished
<1>6. CASE Released \/ Kill
  BY <1>6 DEF Released, Kill, Gone, caller_vars
<1>7. CASE Crash \/ Stop \/ CleanupDown
  BY <1>7 DEF Crash, Stop, CleanupDown, Terminate
<1>8. CASE LoopEnds \/ \E w \in Waits : WaitTimeout(w) \/ CancelWait(w) \/ CallerDown(w) \/ StillMissing(w)
  BY <1>8 DEF LoopEnds, WaitTimeout, CancelWait, CallerDown, StillMissing, Finishes, caller_vars
<1>9. CASE \E r \in Resources : NewTransform(r)
  BY <1>9 DEF NewTransform, Finishes, caller_vars
<1>10. CASE HandleBufferNew \/ HandleBufferDestroy
  BY <1>10 DEF HandleBufferNew, HandleBufferDestroy, caller_vars
<1>11. CASE HandleRegisterWait \/ HandleFinishWait
  BY <1>11 DEF HandleRegisterWait, HandleFinishWait, caller_vars
<1>12. CASE HandleAttach \/ HandleRelease
  BY <1>12 DEF HandleAttach, HandleRelease, CleanedUp
<1>13. CASE HandleStranger
  BY <1>13 DEF HandleStranger, caller_vars
<1>14. CASE OwnerDown \/ CleanupRestarts
  BY <1>14 DEF OwnerDown, CleanupRestarts, CleanedUp, caller_vars
<1>15. CASE \E w \in Waits : WaitAnswered(w)
  <2>1. PICK w \in Waits : WaitAnswered(w)
    BY <1>15
  <2>2. /\ request' = [request EXCEPT ![w] = "accepted"] /\ UNCHANGED <<alive, cancel>>
        /\ CallerOf[w] \in alive /\ \E result \in Results : Tell({w}, result)
    BY <2>1 DEF WaitAnswered, Asks
  <2> QED
    BY <2>2 DEF Tell
<1>16. CASE \E w \in Waits : WaitRefused(w) \/ ForgetCaller(w)
  BY <1>16 DEF WaitRefused, ForgetCaller, caller_vars
<1>17. CASE Writers \/ \E c \in Callers : CallerDies(c)
  BY <1>17 DEF Writers, SetTransform, Clear, NotifyTransform, CallerDies, caller_vars
<1>18. CASE CleanupKilled \/ CleanupCrashes
  BY <1>18
<1> QED
  BY <1>1, <1>2, <1>3, <1>4, <1>5, <1>6, <1>7, <1>8, <1>9, <1>10, <1>11, <1>12, <1>13, <1>14, <1>15, <1>16, <1>17,
     <1>18
     DEF Next, Registry, BufferStep, WaitStep, Calls, Cleanup, Supervisor, Faults

\* Cleanup's list gets the lookup it is called for, and loses none without an answer or an excuse.
LEMMA KeptSteps ==
  ASSUME ~ CleanupKilled, ~ CleanupCrashes, Lives, Verdicts, Typed, Places, Owned, Served, Next
  PROVE  \A w \in Waits :
           /\ w \in kept' => w \in kept \/ (call.op = "register_wait" /\ reply = "none" /\ w = call.wait)
           /\ w \in kept => \/ w \in kept' \/ CallerOf[w] \notin alive \/ cancel[w] # "none"
                            \/ \E result \in Results : messages'[w] = Append(messages[w], result)
<1> USE ConstantsAssumption DEF Lives, Owned, Served, Places, OpOf, Up, FromOwner, NoCall, Typed, RegistryTyped,
     CleanupTyped, CallTyped, CallersTyped, Verdicts, Excused, Results, Silent
<1>1. CASE Attach \/ ClockNotFound \/ Release \/ \E k \in Keys : BufferNew(k) \/ BufferDestroy(k)
  BY <1>1 DEF Attach, ClockNotFound, Release, BufferNew, BufferDestroy, Call, cleanup_vars, caller_vars
<1>2. CASE \E w \in Waits : Wait(w) \/ FinishWait(w)
  BY <1>2 DEF Wait, FinishWait, Asks, Call, cleanup_vars, caller_vars
<1>3. CASE Attached \/ BufferMade \/ BufferDestroyed
  BY <1>3 DEF Attached, BufferMade, BufferDestroyed, Read, Loop, cleanup_vars, caller_vars
<1>4. CASE Registered \/ Finished
  BY <1>4 DEF Registered, Finished, Read, cleanup_vars, caller_vars, Tell
<1>5. CASE Released \/ Kill
  BY <1>5 DEF Released, Kill, Gone, Read, caller_vars
<1>6. CASE Crash \/ Stop \/ CleanupDown
  BY <1>6 DEF Crash, Stop, CleanupDown, Terminate, Read, cleanup_vars, caller_vars
<1>7. CASE LoopEnds \/ \E w \in Waits : WaitTimeout(w) \/ CancelWait(w) \/ CallerDown(w) \/ StillMissing(w)
  BY <1>7 DEF LoopEnds, WaitTimeout, CancelWait, CallerDown, StillMissing, Finishes, Loop, cleanup_vars, caller_vars
<1>8. CASE \E r \in Resources : NewTransform(r)
  BY <1>8 DEF NewTransform, Finishes, Loop, cleanup_vars, caller_vars
<1>9. CASE HandleBufferNew \/ HandleBufferDestroy
  BY <1>9 DEF HandleBufferNew, HandleBufferDestroy, InHand, Answer, Read, registry_vars, caller_vars
<1>10. CASE HandleRegisterWait
  BY <1>10 DEF HandleRegisterWait, InHand
<1>11. CASE HandleFinishWait
  <2>1. /\ call.wait \in kept /\ call.result \notin Silent => call.result \in Results /\ Tell({call.wait}, call.result)
        /\ kept' = kept \ {call.wait} /\ Excused(call.wait, call.result)
    BY <1>11 DEF HandleFinishWait, InHand
  <2> QED
    BY <2>1 DEF Tell
<1>12. CASE HandleAttach \/ HandleRelease
  BY <1>12 DEF HandleAttach, HandleRelease, CleanedUp, InHand, Answer, Read, registry_vars, Tell
<1>13. CASE HandleStranger
  BY <1>13 DEF HandleStranger, Answer, Read, registry_vars, cleanup_vars, caller_vars
<1>14. CASE OwnerDown \/ CleanupRestarts
  BY <1>14 DEF OwnerDown, CleanupRestarts, CleanedUp, registry_vars, caller_vars, Tell
<1>15. CASE \E w \in Waits : WaitRefused(w) \/ WaitAnswered(w) \/ ForgetCaller(w)
  BY <1>15 DEF WaitRefused, WaitAnswered, ForgetCaller, Asks, registry_vars, cleanup_vars, caller_vars, Tell
<1>16. CASE Writers \/ \E c \in Callers : CallerDies(c)
  BY <1>16 DEF Writers, SetTransform, Clear, NotifyTransform, CallerDies, registry_vars, cleanup_vars, caller_vars
<1>17. CASE CleanupKilled \/ CleanupCrashes
  BY <1>17
<1> QED
  BY <1>1, <1>2, <1>3, <1>4, <1>5, <1>6, <1>7, <1>8, <1>9, <1>10, <1>11, <1>12, <1>13, <1>14, <1>15, <1>16, <1>17
     DEF Next, Registry, BufferStep, WaitStep, Calls, Cleanup, Supervisor, Faults

\* A lookup is handed to Cleanup as it was asked for, and nothing is sent meanwhile.
LEMMA HandedSteps ==
  ASSUME ~ CleanupKilled, ~ CleanupCrashes, Lives, Typed, Places, Owned, Served, Next
  PROVE  call'.op = "register_wait" /\ reply' = "none" =>
           /\ UNCHANGED messages
           /\ (call' = call /\ reply = "none") \/ (call'.wait \in Waits /\ request[call'.wait] = "none")
<1> USE DEF Places, OpOf, NoCall, Typed, CallTyped
<1>1. CASE Attach \/ ClockNotFound \/ Release \/ \E k \in Keys : BufferNew(k) \/ BufferDestroy(k)
  BY <1>1 DEF Attach, ClockNotFound, Release, BufferNew, BufferDestroy, Call, cleanup_vars, caller_vars
<1>2. CASE \E w \in Waits : Wait(w) \/ FinishWait(w)
  BY <1>2 DEF Wait, FinishWait, Asks, Call, cleanup_vars, caller_vars
<1>3. CASE Attached \/ BufferMade \/ BufferDestroyed
  BY <1>3 DEF Attached, BufferMade, BufferDestroyed, Read, Loop, cleanup_vars, caller_vars
<1>4. CASE Registered \/ Finished
  BY <1>4 DEF Registered, Finished, Read, cleanup_vars, caller_vars
<1>5. CASE Released \/ Kill
  BY <1>5 DEF Released, Kill, Gone, Read, caller_vars
<1>6. CASE Crash \/ Stop \/ CleanupDown
  BY <1>6 DEF Crash, Stop, CleanupDown, Terminate, Read, cleanup_vars, caller_vars
<1>7. CASE LoopEnds \/ \E w \in Waits : WaitTimeout(w) \/ CancelWait(w) \/ CallerDown(w) \/ StillMissing(w)
  BY <1>7 DEF LoopEnds, WaitTimeout, CancelWait, CallerDown, StillMissing, Finishes, Loop, cleanup_vars, caller_vars
<1>8. CASE \E r \in Resources : NewTransform(r)
  BY <1>8 DEF NewTransform, Finishes, Loop, cleanup_vars, caller_vars
<1>9. CASE HandleBufferNew \/ HandleBufferDestroy
  BY <1>9 DEF HandleBufferNew, HandleBufferDestroy, InHand, Answer, Read, registry_vars, caller_vars
<1>10. CASE HandleRegisterWait \/ HandleFinishWait
  BY <1>10 DEF HandleRegisterWait, HandleFinishWait, InHand, Answer, Read, registry_vars, caller_vars
<1>11. CASE HandleAttach \/ HandleRelease
  BY <1>11 DEF HandleAttach, HandleRelease, CleanedUp, InHand, Answer, Read, registry_vars
<1>12. CASE HandleStranger
  BY <1>12 DEF HandleStranger, Answer, Read, registry_vars, cleanup_vars, caller_vars
<1>13. CASE OwnerDown
  BY <1>13 DEF OwnerDown, FromOwner, Owned, Lives, Up
<1>14. CASE CleanupRestarts
  BY <1>14 DEF CleanupRestarts, registry_vars, caller_vars
<1>15. CASE \E w \in Waits : WaitRefused(w) \/ WaitAnswered(w) \/ ForgetCaller(w)
  BY <1>15 DEF WaitRefused, WaitAnswered, ForgetCaller, Asks, registry_vars, cleanup_vars, caller_vars
<1>16. CASE Writers \/ \E c \in Callers : CallerDies(c)
  BY <1>16 DEF Writers, SetTransform, Clear, NotifyTransform, CallerDies, registry_vars, cleanup_vars, caller_vars
<1>17. CASE CleanupKilled \/ CleanupCrashes
  BY <1>17
<1> QED
  BY <1>1, <1>2, <1>3, <1>4, <1>5, <1>6, <1>7, <1>8, <1>9, <1>10, <1>11, <1>12, <1>13, <1>14, <1>15, <1>16, <1>17
     DEF Next, Registry, BufferStep, WaitStep, Calls, Cleanup, Supervisor, Faults

LEMMA AnswersKeep ==
  ASSUME MaxCleanupDeaths = 0, Inv, AnswersInv, Next
  PROVE  AnswersInv'
<1> USE DEF Inv, AnswersInv
<1>1. ~ CleanupKilled /\ ~ CleanupCrashes
  BY NeverEnds DEF Typed
<1>2. Lives'
  BY <1>1, LivesKeeps
<1>3. \A w \in Waits :
        \/ messages'[w] = messages[w]
        \/ /\ w \in kept \/ (pc = "idle" /\ request[w] = "none")
           /\ w \notin kept' /\ request'[w] # "none"
           /\ \E result \in Results : messages'[w] = Append(messages[w], result)
  BY <1>1, OncePerLookup
<1>4. \A w \in Waits, result \in Results :
        messages[w] = <<>> => Len(Append(messages[w], result)) = 1 /\ Append(messages[w], result) # <<>>
  OBVIOUS
<1>5. /\ alive' \subseteq alive
      /\ \A w \in Waits :
           /\ request'[w] = "none" => request[w] = "none"
           /\ cancel'[w] = "none" => cancel[w] = "none"
           /\ request'[w] = "accepted" /\ request[w] # "accepted" =>
                \/ w \in kept' \/ CallerOf[w] \notin alive
                \/ \E result \in Results : messages'[w] = Append(messages[w], result)
  BY <1>1, RequestSteps
<1>6. \A w \in Waits :
        /\ w \in kept' => w \in kept \/ (call.op = "register_wait" /\ reply = "none" /\ w = call.wait)
        /\ w \in kept => \/ w \in kept' \/ CallerOf[w] \notin alive \/ cancel[w] # "none"
                         \/ \E result \in Results : messages'[w] = Append(messages[w], result)
  BY <1>1, KeptSteps
<1>7. call'.op = "register_wait" /\ reply' = "none" =>
        /\ UNCHANGED messages
        /\ (call' = call /\ reply = "none") \/ (call'.wait \in Waits /\ request[call'.wait] = "none")
  BY <1>1, HandedSteps
<1>8. AnsweredOnce'
  BY <1>3, <1>4 DEF AnsweredOnce, NotYetAnswered
<1>9. NotYetAnswered'
  BY <1>3, <1>5, <1>6, <1>7 DEF NotYetAnswered
<1>10. NobodyForgotten'
  BY <1>3, <1>4, <1>5, <1>6 DEF NobodyForgotten, Unanswered, NotYetAnswered
<1> QED
  BY <1>2, <1>8, <1>9, <1>10

----------------------------------------------------------------------------
(* The invariants hold. *)

LEMMA NextKeeps ==
  ASSUME Inv, Next
  PROVE  Inv' /\ Silence
<1> USE DEF Inv
<1>1. Typed'
  BY RegistryTypeKeeps, CleanupTypeKeeps, NativeTypeKeeps, CallersTypeKeeps, DeathsTypeKeeps DEF Typed
<1>2. Places' /\ Owned' /\ Served' /\ Canceled'
  BY PlacesKeep, OwnedKeeps, ServedKeeps, CanceledKeeps
<1>3. Verdicts' /\ Lookups' /\ Wakeups' /\ Unused'
  BY VerdictsKeep, LookupsKeep, WakeupsKeep, NativeTypeKeeps
<1>4. MessagesTyped' /\ Silence
  BY MessagesTypeKeeps, StaysSilent
<1> QED
  BY <1>1, <1>2, <1>3, <1>4

LEMMA BuffersKeep ==
  ASSUME NoKills, Inv, BuffersInv, Next
  PROVE  BuffersInv'
<1> USE DEF Inv, BuffersInv
<1> QED
  BY StopsKeep, KnownKeep, OneKeyKeep, NoneElseKeep

LEMMA Stutters ==
  ASSUME UNCHANGED vars
  PROVE  (Inv => Inv') /\ (BuffersInv => BuffersInv') /\ (AnswersInv => AnswersInv')
<1> USE DEF vars
<1>1. Inv => Inv'
  BY DEF Inv, Typed, RegistryTyped, TablesTyped, CleanupTyped, CallTyped, NativeTyped, CallersTyped, MessagesTyped,
     DeathsTyped,
         Places, Owned, Up, Served, Canceled, Verdicts, Excused, Lookups, Wakeups, Watched, Found, Unused
<1>2. BuffersInv => BuffersInv'
  BY DEF BuffersInv, Stops, Known, OneKey, NoneElse, Between, Up
<1>3. AnswersInv => AnswersInv'
  BY DEF AnswersInv, Lives, NotYetAnswered, AnsweredOnce, NobodyForgotten, Unanswered
<1> QED
  BY <1>1, <1>2, <1>3

LEMMA Always == Spec => []Inv /\ [][Silence]_vars
<1>1. Inv /\ [Next]_vars => Inv' /\ [Silence]_vars
  BY NextKeeps, Stutters
<1> QED
  BY InitInv, <1>1, PTL DEF Spec

LEMMA AlwaysBuffers ==
  ASSUME NoKills
  PROVE  Spec => []BuffersInv
<1>1. Inv /\ BuffersInv /\ [Next]_vars => BuffersInv'
  BY BuffersKeep, Stutters
<1> QED
  BY InitInv, <1>1, Always, PTL DEF Spec

LEMMA AlwaysAnswers ==
  ASSUME MaxCleanupDeaths = 0
  PROVE  Spec => []AnswersInv
<1>1. Inv /\ AnswersInv /\ [Next]_vars => AnswersInv'
  BY AnswersKeep, Stutters
<1> QED
  BY InitInv, <1>1, Always, PTL DEF Spec

----------------------------------------------------------------------------
(* The theorems. *)

\* Every variable has the type it is declared with, however the two processes die.
THEOREM TypeCorrect == Spec => []TypeOK
<1>1. Inv => TypeOK
  <2>1. Typed /\ MessagesTyped => TypeOK
    BY DEF Typed, RegistryTyped, TablesTyped, CleanupTyped, CallTyped, NativeTyped, CallersTyped, MessagesTyped,
       DeathsTyped, TypeOK
  <2> QED
    BY <2>1 DEF Inv
<1> QED
  BY <1>1, Always, PTL

\* A transform that is written while lookups are pending is never slept through: the cast of
\* set_transform (tf2.ex) is in the mailbox, or on its way, whatever handler ran meanwhile, and
\* whichever process died.
THEOREM NoWakeupIsLost == Spec => []NoLostWakeup
<1>1. Inv => NoLostWakeup
  BY DEF Inv, Served, Wakeups, Watched, NoLostWakeup
<1> QED
  BY <1>1, Always, PTL

\* After cancel_wait has returned :ok neither the registry nor Cleanup sends anything for the
\* lookup, also when one of them dies and the other answers in its place.
THEOREM SilenceAfterCancel == Spec => CanceledIsSilent
BY Always, PTL DEF CanceledIsSilent, Silence

\* Between two handlers of the registry it and Cleanup have the same lookups of live callers, unless
\* Cleanup has died and the registry has still to hear of it.
THEOREM SameLookupsOnBothLists == Spec => [](pc = "idle" /\ ~ lost => SameLookups)
<1>1. Inv /\ pc = "idle" /\ ~ lost => SameLookups
  BY DEF Inv, Typed, RegistryTyped, CleanupTyped, Lookups, SameLookups
<1> QED
  BY <1>1, Always, PTL

\* When Cleanup is not killed (it may crash, which runs its terminate/2) the native buffers that
\* live are those in the table, too, one key each: however creating or destroying one was cut short,
\* none leaks and none of an older registry is left. A killed Cleanup leaks what it retains.
THEOREM BothListsAgree ==
  ASSUME NoKills
  PROVE  Spec => []ListsAgree
<1>1. Inv /\ BuffersInv => ListsAgree
  <2> SUFFICES ASSUME Inv, BuffersInv, pc = "idle", ~ lost PROVE SameLookups /\ SameBuffers
    BY DEF ListsAgree
  <2>1. SameLookups
    BY DEF Inv, Typed, RegistryTyped, CleanupTyped, Lookups, SameLookups
  <2>2. \A r \in Resources : native[r] = "live" <=> \E k \in Keys : table[k] = r
    BY DEF BuffersInv, Stops, NoneElse, Between, Up
  <2>3. \A k, l \in Keys : table[k] = table[l] => k = l \/ table[k] = None
    BY DEF BuffersInv, OneKey
  <2>4. {r \in Resources : native[r] = "live"} = {table[k] : k \in Keys} \ {None}
    BY <2>2, ConstantsAssumption DEF Inv, Typed, TablesTyped
  <2> QED
    BY <2>1, <2>3, <2>4 DEF SameBuffers
<1> QED
  BY <1>1, Always, AlwaysBuffers, PTL

\* While Cleanup lives, complete_wait of the registry and Cleanup's handlers answer a lookup at most
\* once between them, however often and wherever the registry dies.
THEOREM OneAnswer ==
  ASSUME MaxCleanupDeaths = 0
  PROVE  Spec => []AnsweredOnce
<1>1. AnswersInv => AnsweredOnce
  BY DEF AnswersInv
<1> QED
  BY <1>1, AlwaysAnswers, PTL

\* While Cleanup lives, an accepted lookup that is neither answered nor canceled is on its list: the
\* death of the registry leaves no caller without somebody who answers it.
THEOREM NobodyIsForgotten ==
  ASSUME MaxCleanupDeaths = 0
  PROVE  Spec => []NobodyForgotten
<1>1. AnswersInv => NobodyForgotten
  BY DEF AnswersInv
<1> QED
  BY <1>1, AlwaysAnswers, PTL
=============================================================================
