------------------------- MODULE GraphMonitorProofs -------------------------
(***************************************************************************)
(* Proofs for GraphMonitor: the safety invariants of the run hold for every *)
(* set of entities and watches and every number of changes and deaths.      *)
(***************************************************************************)
EXTENDS GraphMonitor, TLAPS

(* A callback has not been started while its call is in the mailbox or its entry *)
(* is pending, and who did not call has neither: what keeps CallbackOnce.        *)
StartedOnce ==
  /\ \A w \in Watches : w \in calls \union pending => fired[w] = 0 /\ w \in registered
  /\ \A w \in Watches : fired[w] <= 1 /\ (fired[w] = 1 => w \in registered)
  /\ calls \intersect pending = {}
(* A monitor that has not started knows nothing *)
Blank == phase \in {"down", "init"} => snapshot = {} /\ pending = {} /\ told = {}

Inv == TypeOK /\ StartedOnce /\ PendingAbsent /\ TelemetryAgrees /\ Blank

-----------------------------------------------------------------------------
LEMMA Bounds == MaxChanges \in Nat /\ MaxDeaths \in Nat
  BY GraphAssumption

LEMMA Boxes == /\ <<>> \in Seq(Notices)
               /\ \A box \in Seq(Notices) : Append(box, "new_graph_event") \in Seq(Notices)
                                           /\ Append(box, "error") \in Seq(Notices)
  BY DEF Notices

LEMMA InitInv == Init => Inv
<1> SUFFICES ASSUME Init PROVE Inv
  OBVIOUS
<1>1. TypeOK
  <2>1. graph \in SUBSET Entries /\ Sound(graph)
    BY DEF Init
  <2>2. fired \in [Watches -> Nat]
    BY DEF Init
  <2>3. ownerBox = <<>> /\ nodeBox = <<>>
    BY DEF Init
  <2>4. ownerBox \in Seq(Notices) /\ nodeBox \in Seq(Notices)
    BY <2>3
  <2>5. /\ fresh \subseteq Entries /\ snapshot \subseteq Entries /\ told \subseteq Entries
        /\ calls \subseteq Watches /\ pending \subseteq Watches /\ registered \subseteq Watches
    BY DEF Init
  <2>6. triggered \in BOOLEAN
    BY DEF Init
  <2>7. /\ thread \in {"none", "waiting", "ended"}
        /\ phase \in {"down", "init", "idle", "fetching"}
        /\ casts \in Nat /\ asked \in 0..4 /\ changes \in 0..MaxChanges /\ deaths \in 0..MaxDeaths
    BY Bounds DEF Init
  <2>8. QED
    BY <2>1, <2>2, <2>4, <2>5, <2>6, <2>7 DEF TypeOK
<1>2. StartedOnce
  BY DEF Init, StartedOnce
<1>3. PendingAbsent /\ TelemetryAgrees /\ Blank
  BY DEF Init, PendingAbsent, TelemetryAgrees, Blank
<1>4. QED
  BY <1>1, <1>2, <1>3 DEF Inv

(* The sets that grow by the entries of the graph stay sets of entries *)
LEMMA TypeStep == TypeOK /\ [Next]_vars => TypeOK'
<1> SUFFICES ASSUME TypeOK, [Next]_vars PROVE TypeOK'
  OBVIOUS
<1> USE Bounds DEF TypeOK, rmw, boxes, monitor
<1>1. CASE GraphChanges
  BY <1>1 DEF GraphChanges
<1>2. CASE Borrow
  BY <1>2 DEF Borrow
<1>3. CASE Wakes
  BY <1>3, Boxes DEF Wakes
<1>4. CASE WaitFails
  BY <1>4, Boxes DEF WaitFails
<1>5. CASE OwnerForwards
  <2>1. Head(ownerBox) \in Notices /\ Tail(ownerBox) \in Seq(Notices)
    BY <1>5 DEF OwnerForwards
  <2>2. QED BY <1>5, <2>1 DEF OwnerForwards
<1>6. CASE NodeTellsMonitor
  <2>1. Tail(nodeBox) \in Seq(Notices)
    BY <1>6 DEF NodeTellsMonitor
  <2>2. QED BY <1>6, <2>1 DEF NodeTellsMonitor
<1>7. CASE StackDies
  <2>1. /\ fresh' \subseteq Entries /\ snapshot' \subseteq Entries /\ told' \subseteq Entries
        /\ calls' \subseteq Watches /\ pending' \subseteq Watches
    BY <1>7 DEF StackDies
  <2>2. ownerBox' \in Seq(Notices) /\ nodeBox' \in Seq(Notices)
    BY <1>7, Boxes DEF StackDies
  <2>3. triggered' \in BOOLEAN
    BY <1>7 DEF StackDies
  <2>4. /\ thread' \in {"none", "waiting", "ended"}
        /\ phase' \in {"down", "init", "idle", "fetching"}
        /\ casts' \in Nat /\ asked' \in 0..4 /\ deaths' \in 0..MaxDeaths
    BY <1>7 DEF StackDies
  <2>5. UNCHANGED <<graph, changes, fired, registered>>
    BY <1>7 DEF StackDies
  <2>6. QED
    BY <2>1, <2>2, <2>3, <2>4, <2>5
<1>8. CASE StartLink
  BY <1>8 DEF StartLink
<1>9. CASE Fetch
  BY <1>9 DEF Fetch
<1>10. CASE InitDone
  BY <1>10 DEF InitDone
<1>11. CASE GraphChanged
  BY <1>11 DEF GraphChanged
<1>12. CASE Diffed
  BY <1>12 DEF Diffed, fire_pending, run_callback, Joined, Left
<1>13. ASSUME NEW w \in Watches, on_entity(w) PROVE TypeOK'
  BY <1>13 DEF on_entity
<1>14. ASSUME NEW w \in Watches, HandleOnEntity(w) PROVE TypeOK'
  BY <1>14 DEF HandleOnEntity, run_callback
<1>15. CASE UNCHANGED vars
  BY <1>15 DEF vars
<1>16. QED
  BY <1>1, <1>2, <1>3, <1>4, <1>5, <1>6, <1>7, <1>8, <1>9, <1>10, <1>11, <1>12, <1>13, <1>14, <1>15
  DEF Next, NodeStops, QueryFails

LEMMA StartedOnceStep == Inv /\ [Next]_vars => StartedOnce'
<1> SUFFICES ASSUME Inv, [Next]_vars PROVE StartedOnce'
  OBVIOUS
<1> USE DEF Inv, StartedOnce, TypeOK
<1>1. CASE UNCHANGED <<calls, pending, fired, registered>>
  BY <1>1
<1>2. CASE StackDies
  BY <1>2 DEF StackDies
<1>3. CASE Diffed
  <2> DEFINE matched == {w \in pending : Present(w, Joined)}
  <2>1. pending' = pending \ matched /\ fired' = [w \in Watches |-> IF w \in matched THEN fired[w] + 1 ELSE fired[w]]
        /\ UNCHANGED <<calls, registered>>
    BY <1>3 DEF Diffed, fire_pending, run_callback
  <2>2. matched \subseteq pending
    OBVIOUS
  <2> HIDE DEF matched
  <2>3. QED
    BY <2>1, <2>2
<1>4. ASSUME NEW w \in Watches, on_entity(w) PROVE StartedOnce'
  BY <1>4 DEF on_entity, monitor
<1>5. ASSUME NEW w \in Watches, HandleOnEntity(w) PROVE StartedOnce'
  <2>1. w \in calls /\ calls' = calls \ {w} /\ registered' = registered
    BY <1>5 DEF HandleOnEntity
  <2>2. CASE Present(w, snapshot)
    <3>1. fired' = [v \in Watches |-> IF v \in {w} THEN fired[v] + 1 ELSE fired[v]] /\ pending' = pending
      BY <1>5, <2>2 DEF HandleOnEntity, run_callback
    <3>2. QED
      BY <2>1, <3>1
  <2>3. CASE ~ Present(w, snapshot)
    <3>1. pending' = pending \union {w} /\ fired' = fired
      BY <1>5, <2>3 DEF HandleOnEntity
    <3>2. QED
      BY <2>1, <3>1
  <2>4. QED
    BY <2>2, <2>3
<1>6. CASE \/ GraphChanges \/ Borrow \/ Wakes \/ WaitFails \/ OwnerForwards \/ NodeTellsMonitor
           \/ StartLink \/ Fetch \/ InitDone \/ GraphChanged \/ UNCHANGED vars
  <2>1. UNCHANGED <<calls, pending, fired, registered>>
    BY <1>6 DEF GraphChanges, Borrow, Wakes, WaitFails, OwnerForwards, NodeTellsMonitor, StartLink,
                Fetch, InitDone, GraphChanged, vars, monitor
  <2>2. QED
    BY <2>1, <1>1
<1>7. QED
  BY <1>2, <1>3, <1>4, <1>5, <1>6 DEF Next, NodeStops, QueryFails

(* A new snapshot is what was present before and what joined: a watch that is    *)
(* still pending after fire_pending is in neither.                               *)
LEMMA SnapshotStep == Inv /\ [Next]_vars => PendingAbsent' /\ TelemetryAgrees' /\ Blank'
<1> SUFFICES ASSUME Inv, [Next]_vars PROVE PendingAbsent' /\ TelemetryAgrees' /\ Blank'
  OBVIOUS
<1> USE DEF Inv, PendingAbsent, TelemetryAgrees, Blank
<1>1. CASE StackDies
  BY <1>1 DEF StackDies
<1>2. CASE InitDone
  BY <1>2 DEF InitDone
<1>3. CASE Diffed
  <2>1. told' = fresh /\ snapshot' = fresh /\ phase' = "idle"
    BY <1>3 DEF Diffed, Joined, Left
  <2>2. ASSUME NEW w \in pending' PROVE ~ Present(w, fresh)
    <3>1. w \in pending /\ ~ Present(w, Joined)
      BY <1>3, <2>2 DEF Diffed, fire_pending
    <3>2. ~ Present(w, snapshot)
      BY <3>1
    <3>3. QED
      BY <3>1, <3>2 DEF Present, Joined
  <2>3. QED
    BY <2>1, <2>2 DEF Present
<1>4. ASSUME NEW w \in Watches, HandleOnEntity(w)
      PROVE PendingAbsent' /\ TelemetryAgrees' /\ Blank'
  <2>1. phase = "idle" /\ UNCHANGED <<phase, snapshot, told>>
    BY <1>4 DEF HandleOnEntity
  <2>2. \/ pending' = pending
        \/ pending' = pending \union {w} /\ ~ Present(w, snapshot)
    BY <1>4 DEF HandleOnEntity
  <2>3. QED
    BY <2>1, <2>2 DEF Present
<1>5. CASE \/ GraphChanges \/ Borrow \/ Wakes \/ WaitFails \/ OwnerForwards \/ NodeTellsMonitor
           \/ Fetch \/ UNCHANGED vars \/ \E w \in Watches : on_entity(w)
  <2>1. UNCHANGED <<phase, snapshot, pending, told>>
    BY <1>5 DEF GraphChanges, Borrow, Wakes, WaitFails, OwnerForwards, NodeTellsMonitor, Fetch,
                on_entity, vars, monitor
  <2>2. QED
    BY <2>1 DEF Present
<1>6. CASE StartLink \/ GraphChanged
  <2>1. /\ UNCHANGED <<snapshot, pending, told>>
        /\ \/ phase = "down"
           \/ phase' = "fetching"
    BY <1>6 DEF StartLink, GraphChanged
  <2>2. QED
    BY <2>1 DEF Present
<1>7. QED
  BY <1>1, <1>2, <1>3, <1>4, <1>5, <1>6 DEF Next, NodeStops, QueryFails

-----------------------------------------------------------------------------
(* The invariant holds in every reachable state: the initial states and every *)
(* step of the processes of a node and of rmw.                                *)
THEOREM Invariant == Spec => []Inv
<1>1. Inv /\ [Next]_vars => Inv'
  BY TypeStep, StartedOnceStep, SnapshotStep DEF Inv
<1>2. QED
  BY InitInv, <1>1, PTL DEF Spec

(* Whoever waits in on_entity waits for something the last snapshot lacks *)
THEOREM PendingIsAbsent == Spec => []PendingAbsent
<1>1. Inv => PendingAbsent
  BY DEF Inv
<1>2. QED
  BY Invariant, <1>1, PTL

(* fire_pending and handle_call(:on_entity) start a callback at most once *)
THEOREM CalledBackOnce == Spec => []CallbackOnce
<1>1. Inv => CallbackOnce
  BY DEF Inv, StartedOnce, CallbackOnce
<1>2. QED
  BY Invariant, <1>1, PTL

(* The telemetry of compute_diff adds up to the snapshot *)
THEOREM TelemetryTellsSnapshot == Spec => []TelemetryAgrees
<1>1. Inv => TelemetryAgrees
  BY DEF Inv
<1>2. QED
  BY Invariant, <1>1, PTL
=============================================================================
