------------------------- MODULE SubscriptionProofs -------------------------
(***************************************************************************)
(* Rclex.Subscription hands a message to its callback at most once, runs   *)
(* no more callbacks than its mode allows and keeps the order of delivery  *)
(* in the modes that call back in the server: for any number of messages,  *)
(* any depth of the queue and any max_concurrency.                         *)
(*                                                                         *)
(* The queue is in the order of publication, and all that left it is older *)
(* than what it holds: a message that is taken is none of those taken      *)
(* before.                                                                 *)
(*                                                                         *)
(* And what waits in the queue is announced, about to be announced or      *)
(* being taken.                                                            *)
(***************************************************************************)
EXTENDS Subscription, FiniteSetTheorems, TLAPS

Elements(s)   == {s[i] : i \in 1 .. Len(s)}
Distinct(s)   == \A i, j \in 1 .. Len(s) : s[i] = s[j] => i = j
Increasing(s) == \A i, j \in 1 .. Len(s) : i < j => s[i] < s[j]

\* What waits is newer than all that was taken.
QueueIsNewer ==
  /\ Increasing(queue) /\ \A m \in Elements(queue) : m <= published
  /\ \A m \in Elements(taken) \cup Elements(heard) : m <= published /\ \A n \in Elements(queue) : m < n

\* What was taken and not handed on has not been heard.
TakenIsUnheard == Distinct(taken) /\ Distinct(heard) /\ Elements(taken) \cap Elements(heard) = {}

\* What the handler of each mode keeps.
ModesKeep ==
  /\ mode = "inline" => taken = <<>>
  /\ mode = "latest" => Len(taken) <= 1 /\ \A m \in Elements(taken), n \in Elements(heard) : n < m
  /\ mode # "tasks" => Increasing(heard) /\ step # "streaming"
  /\ mode = "tasks" => step # "calling"

\* Callbacks run only while the handler waits for them.
HandlerWaits ==
  /\ step \in {"idle", "taking"} => running = {}
  /\ step = "calling" => \E m : running = {m}
  /\ IsFiniteSet(running) /\ Cardinality(running) <= Concurrency

IInv == TypeOK /\ QueueIsNewer /\ TakenIsUnheard /\ ModesKeep /\ HandlerWaits

-----------------------------------------------------------------------------
(* Sequences of messages. *)

LEMMA AppendHolds ==
  ASSUME NEW s \in Seq(Messages), NEW m \in Messages
  PROVE  /\ Append(s, m) \in Seq(Messages)
         /\ Elements(Append(s, m)) = Elements(s) \cup {m}
         /\ Distinct(s) /\ m \notin Elements(s) => Distinct(Append(s, m))
         /\ Increasing(s) /\ (\A n \in Elements(s) : n < m) => Increasing(Append(s, m))
<1>1. /\ Append(s, m) \in Seq(Messages) /\ Len(Append(s, m)) = Len(s) + 1 /\ Len(s) \in Nat
      /\ \A i \in 1 .. Len(s) + 1 : Append(s, m)[i] = IF i = Len(s) + 1 THEN m ELSE s[i]
  OBVIOUS
<1>2. Elements(Append(s, m)) = Elements(s) \cup {m}
  BY <1>1 DEF Elements
<1>3. Distinct(s) /\ m \notin Elements(s) => Distinct(Append(s, m))
  BY <1>1 DEF Elements, Distinct
<1>4. Increasing(s) /\ (\A n \in Elements(s) : n < m) => Increasing(Append(s, m))
  BY <1>1 DEF Elements, Increasing
<1> QED
  BY <1>1, <1>2, <1>3, <1>4

LEMMA TailHolds ==
  ASSUME NEW s \in Seq(Messages), s # <<>>
  PROVE  /\ Head(s) \in Messages /\ Head(s) \in Elements(s) /\ Tail(s) \in Seq(Messages)
         /\ Elements(Tail(s)) \subseteq Elements(s)
         /\ Distinct(s) => Distinct(Tail(s)) /\ Head(s) \notin Elements(Tail(s))
         /\ Increasing(s) => Increasing(Tail(s)) /\ \A n \in Elements(Tail(s)) : Head(s) < n
         /\ Len(s) <= 1 => Elements(Tail(s)) = {}
<1>1. /\ Tail(s) \in Seq(Messages) /\ Len(Tail(s)) = Len(s) - 1 /\ Len(s) \in Nat \ {0} /\ Head(s) = s[1]
      /\ \A i \in 1 .. Len(s) - 1 : Tail(s)[i] = s[i + 1]
  OBVIOUS
<1>2. Head(s) \in Messages /\ Head(s) \in Elements(s)
  BY <1>1 DEF Elements
<1>3. Elements(Tail(s)) \subseteq Elements(s)
  BY <1>1 DEF Elements
<1>4. Distinct(s) => Distinct(Tail(s))
  BY <1>1 DEF Distinct
<1>5. Distinct(s) => Head(s) \notin Elements(Tail(s))
  BY <1>1 DEF Distinct, Elements
<1>6. Increasing(s) => Increasing(Tail(s))
  BY <1>1 DEF Increasing
<1>7. Increasing(s) => \A n \in Elements(Tail(s)) : Head(s) < n
  BY <1>1 DEF Increasing, Elements
<1>8. Len(s) <= 1 => Elements(Tail(s)) = {}
  BY <1>1 DEF Elements
<1> QED
  BY <1>1, <1>2, <1>3, <1>4, <1>5, <1>6, <1>7, <1>8

LEMMA ConsHolds ==
  ASSUME NEW s \in Seq(Messages), NEW m \in Messages
  PROVE  /\ <<m>> \o s \in Seq(Messages)
         /\ Elements(<<m>> \o s) = Elements(s) \cup {m}
         /\ Distinct(s) /\ m \notin Elements(s) => Distinct(<<m>> \o s)
<1>1. /\ <<m>> \o s \in Seq(Messages) /\ Len(<<m>> \o s) = Len(s) + 1 /\ Len(s) \in Nat
      /\ \A i \in 1 .. Len(s) + 1 : (<<m>> \o s)[i] = IF i = 1 THEN m ELSE s[i - 1]
  OBVIOUS
<1>2. Elements(<<m>> \o s) = Elements(s) \cup {m}
  <2>1. ASSUME NEW n \in Elements(s) PROVE n \in Elements(<<m>> \o s)
    <3>1. PICK i \in 1 .. Len(s) : n = s[i]
      BY DEF Elements
    <3>2. i + 1 \in 1 .. Len(s) + 1 /\ (<<m>> \o s)[i + 1] = n
      BY <1>1, <3>1
    <3> QED
      BY <1>1, <3>2 DEF Elements
  <2>2. m \in Elements(<<m>> \o s)
    BY <1>1 DEF Elements
  <2>3. Elements(<<m>> \o s) \subseteq Elements(s) \cup {m}
    BY <1>1 DEF Elements
  <2> QED
    BY <2>1, <2>2, <2>3
<1>3. Distinct(s) /\ m \notin Elements(s) => Distinct(<<m>> \o s)
  BY <1>1 DEF Elements, Distinct
<1> QED
  BY <1>1, <1>2, <1>3

-----------------------------------------------------------------------------
(* The inductive invariant. *)

LEMMA InitIInv == Init => IInv
<1> SUFFICES ASSUME Init PROVE IInv
  OBVIOUS
<1>1. Elements(<<>>) = {} /\ Distinct(<<>>) /\ Increasing(<<>>) /\ <<>> \in Seq(Messages) /\ Len(<<>>) = 0
  BY DEF Elements, Distinct, Increasing
<1>2. IsFiniteSet({}) /\ Cardinality({}) = 0
  BY FS_EmptySet
<1>3. TypeOK
  BY <1>1, SubscriptionAssumption DEF Init, TypeOK
<1>4. QueueIsNewer /\ TakenIsUnheard
  BY <1>1 DEF Init, QueueIsNewer, TakenIsUnheard
<1>5. ModesKeep
  BY <1>1 DEF Init, ModesKeep
<1>6. HandlerWaits
  BY <1>2, SubscriptionAssumption DEF Init, HandlerWaits
<1> QED
  BY <1>3, <1>4, <1>5, <1>6 DEF IInv

\* A callback is started for a message that is not in heard, by a handler that may start one.
LEMMA InvokeHolds ==
  ASSUME IInv, NEW m \in Messages, m \notin Elements(heard), Invoke(m),
         \/ running = {}
         \/ Cardinality(running) < Concurrency
  PROVE  /\ heard' \in Seq(Messages) /\ running' \subseteq Messages
         /\ Elements(heard') = Elements(heard) \cup {m} /\ Distinct(heard')
         /\ Increasing(heard) /\ (\A n \in Elements(heard) : n < m) => Increasing(heard')
         /\ IsFiniteSet(running') /\ Cardinality(running') <= Concurrency
         /\ running = {} => running' = {m}
<1>1. heard \in Seq(Messages) /\ running \subseteq Messages /\ Distinct(heard) /\ IsFiniteSet(running)
      /\ Concurrency \in Nat \ {0}
  BY SubscriptionAssumption DEF IInv, TypeOK, TakenIsUnheard, HandlerWaits
<1>2. heard' = Append(heard, m) /\ running' = running \cup {m}
  BY DEF Invoke
<1>3. /\ IsFiniteSet(running \cup {m}) /\ Cardinality(running) \in Nat
      /\ Cardinality(running \cup {m}) = IF m \in running THEN Cardinality(running) ELSE Cardinality(running) + 1
  BY <1>1, FS_AddElement, FS_CardinalityType
<1>4. Cardinality(running) < Concurrency
  <2>1. CASE running = {}
    <3>1. Cardinality(running) = 0
      BY <2>1, FS_EmptySet
    <3> QED
      BY <1>1, <3>1
  <2> QED
    BY <2>1
<1>5. IsFiniteSet(running') /\ Cardinality(running') <= Concurrency
  BY <1>1, <1>2, <1>3, <1>4
<1> QED
  BY <1>1, <1>2, <1>5, AppendHolds

\* The oldest message of the queue is newer than all that was taken.
LEMMA TakeHolds ==
  ASSUME IInv, queue # <<>>, queue' = Tail(queue), NEW m, m = Head(queue)
  PROVE  /\ m \in Messages /\ m <= published /\ queue' \in Seq(Messages) /\ Increasing(queue')
         /\ m \notin Elements(heard) /\ m \notin Elements(taken)
         /\ \A n \in Elements(heard) \cup Elements(taken) : n < m
         /\ \A n \in Elements(queue') : m < n /\ n <= published
         /\ Elements(queue') \subseteq Elements(queue)
<1>1. queue \in Seq(Messages) /\ Increasing(queue)
  BY DEF IInv, TypeOK, QueueIsNewer
<1>2. /\ m \in Messages /\ m \in Elements(queue) /\ queue' \in Seq(Messages) /\ Increasing(queue')
      /\ Elements(queue') \subseteq Elements(queue) /\ \A n \in Elements(queue') : m < n
  BY <1>1, TailHolds
<1>3. \A n \in Elements(heard) \cup Elements(taken) : n < m
  BY <1>2 DEF IInv, QueueIsNewer
<1>4. m \notin Elements(heard) /\ m \notin Elements(taken)
  BY <1>2, <1>3 DEF Messages
<1> QED
  BY <1>2, <1>3, <1>4 DEF IInv, QueueIsNewer

LEMMA Step == IInv /\ [Next]_vars => IInv'
<1> SUFFICES ASSUME IInv, [Next]_vars PROVE IInv'
  OBVIOUS
<1>0. /\ TypeOK /\ QueueIsNewer /\ TakenIsUnheard /\ ModesKeep /\ HandlerWaits
      /\ taken \in Seq(Messages) /\ heard \in Seq(Messages) /\ published \in Nat
  BY SubscriptionAssumption DEF IInv, TypeOK
<1>a. ASSUME UNCHANGED <<published, queue, taken, heard>> PROVE QueueIsNewer' /\ TakenIsUnheard'
  BY <1>a, <1>0 DEF QueueIsNewer, TakenIsUnheard
<1>1. CASE Publish
  <2> DEFINE q == IF Len(queue) < Depth THEN queue ELSE Tail(queue)
  <2>1. /\ published' = published + 1 /\ published' \in Messages /\ queue' = Append(q, published')
        /\ UNCHANGED <<mode, server, events, step, left, taken, running, heard>> /\ unread' \in Nat
    BY <1>0, <1>1, SubscriptionAssumption DEF Publish, TypeOK, Messages
  <2>2. q \in Seq(Messages) /\ Elements(q) \subseteq Elements(queue) /\ Increasing(q)
    <3>1. CASE Len(queue) < Depth
      BY <1>0, <3>1 DEF TypeOK, QueueIsNewer
    <3>2. CASE ~ (Len(queue) < Depth)
      <4>1. queue # <<>> /\ queue \in Seq(Messages)
        BY <1>0, <3>2, SubscriptionAssumption DEF TypeOK
      <4> QED
        BY <1>0, <3>2, <4>1, TailHolds DEF QueueIsNewer
    <3> QED
      BY <3>1, <3>2
  <2>3. \A n \in Elements(q) : n < published'
    <3>1. ASSUME NEW n \in Elements(q) PROVE n \in Messages /\ n <= published
      BY <1>0, <2>2 DEF QueueIsNewer, Elements
    <3> QED
      BY <1>0, <2>1, <3>1 DEF Messages
  <2>4. queue' \in Seq(Messages) /\ Elements(queue') = Elements(q) \cup {published'} /\ Increasing(queue')
    BY <2>1, <2>2, <2>3, AppendHolds
  <2>5. TypeOK'
    BY <1>0, <2>1, <2>4 DEF TypeOK, Messages
  <2>6. QueueIsNewer'
    <3>1. ASSUME NEW m \in Elements(queue') PROVE m <= published'
      <4>1. m \in Messages /\ published' \in Messages /\ (m < published' \/ m = published')
        BY <2>1, <2>3, <2>4 DEF Elements
      <4> QED
        BY <4>1 DEF Messages
    <3>2. ASSUME NEW m \in Elements(taken) \cup Elements(heard)
          PROVE  m <= published' /\ \A n \in Elements(queue') : m < n
      <4>1. m \in Messages /\ m <= published /\ \A n \in Elements(queue) : m < n
        BY <1>0 DEF QueueIsNewer, Elements
      <4> QED
        BY <1>0, <2>1, <2>2, <2>4, <4>1 DEF Messages
    <3> QED
      BY <2>1, <2>4, <3>1, <3>2 DEF QueueIsNewer
  <2>7. TakenIsUnheard' /\ ModesKeep' /\ HandlerWaits'
    BY <1>0, <2>1 DEF TakenIsUnheard, ModesKeep, HandlerWaits
  <2> QED
    BY <2>5, <2>6, <2>7 DEF IInv
<1>2. CASE Notify
  <2>1. TypeOK'
    BY <1>0, <1>2 DEF Notify, TypeOK
  <2> QED
    BY <1>0, <1>a, <1>2, <2>1 DEF Notify, ModesKeep, HandlerWaits, IInv
<1>3. CASE HandleContinue
  BY <1>0, <1>a, <1>3 DEF HandleContinue, middleware, TypeOK, ModesKeep, HandlerWaits, IInv
<1>4. CASE HandleNewMessage \/ HandleLatest
  <2>1. /\ events # <<>> /\ events \in Seq(Nat \ {0}) /\ step' = "taking" /\ server = "up"
        /\ \/ events' = Tail(events) /\ left' = Head(events)
           \/ events' = <<>> /\ left' = left
        /\ UNCHANGED <<middleware, mode, server, taken, running, heard>>
    <3>1. events \in Seq(Nat \ {0})
      BY <1>0 DEF TypeOK
    <3>2. CASE HandleNewMessage
      <4>1. events # <<>> /\ step' = "taking" /\ server = "up" /\ events' = Tail(events) /\ left' = Head(events)
        BY <3>2 DEF HandleNewMessage
      <4>2. UNCHANGED <<middleware, mode, server, taken, running, heard>>
        BY <3>2 DEF HandleNewMessage, middleware
      <4> QED
        BY <3>1, <4>1, <4>2
    <3>3. CASE HandleLatest
      BY <3>1, <3>3 DEF HandleLatest
    <3> QED
      BY <1>4, <3>2, <3>3
  <2>4. Head(events) \in Nat /\ Tail(events) \in Seq(Nat \ {0}) /\ <<>> \in Seq(Nat \ {0})
    BY <2>1
  <2>5. TypeOK'
    BY <1>0, <2>1, <2>4 DEF middleware, TypeOK
  <2>2. ModesKeep'
    BY <1>0, <1>4 DEF HandleNewMessage, HandleLatest, ModesKeep
  <2>3. HandlerWaits'
    BY <1>0, <1>4 DEF HandleNewMessage, HandleLatest, HandlerWaits
  <2> QED
    BY <1>a, <2>1, <2>2, <2>3, <2>5 DEF middleware, IInv
<1>5. CASE TakeAndInvoke
  <2>0. PICK m : m = Head(queue)
    OBVIOUS
  <2>1. /\ queue' = Tail(queue) /\ queue # <<>> /\ Invoke(m) /\ step = "taking" /\ mode = "inline" /\ step' = "calling"
        /\ left' = left - 1 /\ left > 0 /\ UNCHANGED <<published, unread, mode, server, events, taken>>
    BY <1>5, <2>0 DEF TakeAndInvoke, Taking
  <2>2. running = {} /\ Elements(taken) = {} /\ Increasing(heard)
    BY <1>0, <2>1 DEF ModesKeep, HandlerWaits, Elements
  <2>3. /\ m \in Messages /\ m <= published /\ queue' \in Seq(Messages) /\ Increasing(queue') /\ m \notin Elements(heard)
        /\ \A n \in Elements(heard) : n < m
        /\ \A n \in Elements(queue') : m < n /\ n <= published
        /\ Elements(queue') \subseteq Elements(queue)
    BY <2>0, <2>1, TakeHolds
  <2>4. /\ heard' \in Seq(Messages) /\ running' \subseteq Messages
        /\ Elements(heard') = Elements(heard) \cup {m} /\ Distinct(heard') /\ Increasing(heard')
        /\ IsFiniteSet(running') /\ Cardinality(running') <= Concurrency /\ running' = {m}
    BY <2>1, <2>2, <2>3, InvokeHolds
  <2>5. TypeOK'
    BY <1>0, <2>1, <2>3, <2>4 DEF TypeOK
  <2>6. QueueIsNewer' /\ TakenIsUnheard'
    BY <1>0, <2>1, <2>2, <2>3, <2>4 DEF QueueIsNewer, TakenIsUnheard
  <2>7. ModesKeep' /\ HandlerWaits'
    BY <1>0, <2>1, <2>4 DEF ModesKeep, HandlerWaits
  <2> QED
    BY <2>5, <2>6, <2>7 DEF IInv
<1>6. CASE TakeOne
  <2>0. PICK m : m = Head(queue)
    OBVIOUS
  <2>1. /\ queue' = Tail(queue) /\ queue # <<>> /\ step = "taking" /\ mode = "tasks" /\ taken' = <<m>> \o taken
        /\ left' = left - 1 /\ left > 0
        /\ UNCHANGED <<published, unread, mode, server, events, step, running, heard>>
    BY <1>6, <2>0 DEF TakeOne, Taking
  <2>2. /\ m \in Messages /\ m <= published /\ queue' \in Seq(Messages) /\ Increasing(queue')
        /\ m \notin Elements(heard) /\ m \notin Elements(taken)
        /\ \A n \in Elements(queue') : m < n /\ n <= published
        /\ Elements(queue') \subseteq Elements(queue)
    BY <2>0, <2>1, TakeHolds
  <2>3. taken' \in Seq(Messages) /\ Elements(taken') = Elements(taken) \cup {m} /\ Distinct(taken')
    BY <1>0, <2>1, <2>2, ConsHolds DEF TakenIsUnheard
  <2>4. TypeOK'
    BY <1>0, <2>1, <2>2, <2>3 DEF TypeOK
  <2>5. QueueIsNewer' /\ TakenIsUnheard'
    BY <1>0, <2>1, <2>2, <2>3 DEF QueueIsNewer, TakenIsUnheard
  <2>6. ModesKeep' /\ HandlerWaits'
    BY <1>0, <2>1 DEF ModesKeep, HandlerWaits
  <2> QED
    BY <2>4, <2>5, <2>6 DEF IInv
<1>7. CASE TakeFails
  <2>1. TypeOK'
    BY <1>0, <1>7 DEF TakeFails, Taking, TypeOK
  <2> QED
    BY <1>0, <1>a, <1>7, <2>1 DEF TakeFails, Taking, ModesKeep, HandlerWaits, IInv
<1>8. CASE TakeLatest
  <2>0. PICK m : m = Head(queue)
    OBVIOUS
  <2>1. /\ queue' = Tail(queue) /\ queue # <<>> /\ step = "taking" /\ mode = "latest" /\ taken' = <<m>>
        /\ UNCHANGED <<published, unread, mode, server, events, step, left, running, heard>>
    BY <1>8, <2>0 DEF TakeLatest, Taking
  <2>2. /\ m \in Messages /\ m <= published /\ queue' \in Seq(Messages) /\ Increasing(queue')
        /\ m \notin Elements(heard) /\ \A n \in Elements(heard) : n < m
        /\ \A n \in Elements(queue') : m < n /\ n <= published
        /\ Elements(queue') \subseteq Elements(queue)
    BY <2>0, <2>1, TakeHolds
  <2>3. taken' \in Seq(Messages) /\ Elements(taken') = {m} /\ Distinct(taken') /\ Len(taken') = 1
    BY <2>1, <2>2 DEF Elements, Distinct
  <2>4. TypeOK'
    BY <1>0, <2>1, <2>2, <2>3 DEF TypeOK
  <2>5. QueueIsNewer' /\ TakenIsUnheard'
    BY <1>0, <2>1, <2>2, <2>3 DEF QueueIsNewer, TakenIsUnheard
  <2>6. ModesKeep' /\ HandlerWaits'
    BY <1>0, <2>1, <2>2, <2>3 DEF ModesKeep, HandlerWaits
  <2> QED
    BY <2>4, <2>5, <2>6 DEF IInv
<1>9. CASE InvokeLatest
  <2>1. /\ step = "taking" /\ mode = "latest" /\ queue = <<>> /\ taken' = <<>> /\ running = {}
        /\ UNCHANGED <<published, unread, mode, server, events, queue, left>>
    BY <1>0, <1>9 DEF InvokeLatest, Taking, HandlerWaits
  <2>2. Elements(taken') = {} /\ Distinct(taken') /\ taken' \in Seq(Messages) /\ Len(taken') = 0 /\ Elements(queue') = {}
        /\ Increasing(queue')
    BY <2>1 DEF Elements, Distinct, Increasing
  <2>3. CASE taken = <<>>
    <3>1. step' = "idle" /\ UNCHANGED <<running, heard>>
      BY <1>9, <2>3 DEF InvokeLatest
    <3>2. TypeOK' /\ ModesKeep' /\ HandlerWaits'
      BY <1>0, <2>1, <2>2, <3>1 DEF TypeOK, ModesKeep, HandlerWaits
    <3> QED
      BY <1>a, <2>1, <2>3, <3>1, <3>2 DEF IInv
  <2>4. CASE taken # <<>>
    <3>0. PICK m : m = Head(taken)
      OBVIOUS
    <3>1. m \in Messages /\ m \in Elements(taken) /\ Invoke(m) /\ step' = "calling"
      BY <1>0, <1>9, <2>4, <3>0, TailHolds DEF InvokeLatest
    <3>2. m \notin Elements(heard) /\ m <= published /\ (\A n \in Elements(heard) : n < m) /\ Increasing(heard)
      BY <1>0, <2>1, <3>1 DEF TakenIsUnheard, QueueIsNewer, ModesKeep
    <3>3. /\ heard' \in Seq(Messages) /\ running' \subseteq Messages
          /\ Elements(heard') = Elements(heard) \cup {m} /\ Distinct(heard') /\ Increasing(heard')
          /\ IsFiniteSet(running') /\ Cardinality(running') <= Concurrency /\ running' = {m}
      BY <2>1, <3>1, <3>2, InvokeHolds
    <3>4. TypeOK'
      BY <1>0, <2>1, <2>2, <3>1, <3>3 DEF TypeOK
    <3>5. QueueIsNewer' /\ TakenIsUnheard'
      BY <1>0, <2>1, <2>2, <3>2, <3>3 DEF QueueIsNewer, TakenIsUnheard
    <3>6. ModesKeep' /\ HandlerWaits'
      BY <2>1, <2>2, <3>1, <3>3 DEF ModesKeep, HandlerWaits
    <3> QED
      BY <3>4, <3>5, <3>6 DEF IInv
  <2> QED
    BY <2>3, <2>4
<1>10. CASE Taken
  <2>1. TypeOK'
    BY <1>0, <1>10 DEF Taken, Taking, TypeOK
  <2>2. ModesKeep' /\ HandlerWaits'
    BY <1>0, <1>10 DEF Taken, Taking, ModesKeep, HandlerWaits
  <2> QED
    BY <1>a, <1>10, <2>1, <2>2 DEF Taken, Taking, IInv
<1>11. CASE StartTask
  <2>0. PICK m : m = Head(taken)
    OBVIOUS
  <2>1. /\ taken # <<>> /\ taken' = Tail(taken) /\ Invoke(m) /\ step = "streaming" /\ Cardinality(running) < Concurrency
        /\ UNCHANGED <<published, queue, unread, mode, server, events, step, left>>
    BY <1>11, <2>0 DEF StartTask, middleware
  <2>2. /\ m \in Messages /\ m \in Elements(taken) /\ taken' \in Seq(Messages) /\ Elements(taken') \subseteq Elements(taken)
        /\ Distinct(taken') /\ m \notin Elements(taken')
    BY <1>0, <2>0, <2>1, TailHolds DEF TakenIsUnheard
  <2>3. m \notin Elements(heard) /\ m <= published /\ \A n \in Elements(queue) : m < n
    BY <1>0, <2>2 DEF TakenIsUnheard, QueueIsNewer
  <2>4. /\ heard' \in Seq(Messages) /\ running' \subseteq Messages
        /\ Elements(heard') = Elements(heard) \cup {m} /\ Distinct(heard')
        /\ IsFiniteSet(running') /\ Cardinality(running') <= Concurrency
    BY <2>1, <2>2, <2>3, InvokeHolds
  <2>5. TypeOK'
    BY <1>0, <2>1, <2>2, <2>4 DEF TypeOK
  <2>6. QueueIsNewer' /\ TakenIsUnheard'
    BY <1>0, <2>1, <2>2, <2>3, <2>4 DEF QueueIsNewer, TakenIsUnheard
  <2>7. mode = "tasks"
    BY <1>0, <2>1, SubscriptionAssumption DEF ModesKeep, TypeOK
  <2>8. ModesKeep' /\ HandlerWaits'
    BY <1>0, <2>1, <2>4, <2>7 DEF ModesKeep, HandlerWaits
  <2> QED
    BY <2>5, <2>6, <2>8 DEF IInv
<1>12. ASSUME NEW m \in Messages, CallbackEnds(m) PROVE IInv'
  <2>1. /\ m \in running /\ running' = running \ {m} /\ UNCHANGED <<published, queue, unread, mode, server, events, left, taken, heard>>
        /\ step' = CASE mode = "inline" -> "taking" [] mode = "latest" -> "idle" [] OTHER -> step
    BY <1>12 DEF CallbackEnds, middleware
  <2>2. IsFiniteSet(running') /\ Cardinality(running') <= Concurrency
    <3>1. IsFiniteSet(running) /\ IsFiniteSet(running') /\ Cardinality(running') <= Cardinality(running)
          /\ Cardinality(running) \in Nat /\ Cardinality(running') \in Nat
      BY <1>0, <2>1, FS_Subset, FS_CardinalityType DEF HandlerWaits
    <3> QED
      BY <1>0, <2>1, <3>1, SubscriptionAssumption DEF HandlerWaits
  <2>3. step \in {"calling", "streaming"} /\ (step = "calling" => running' = {})
    BY <1>0, <2>1 DEF HandlerWaits, TypeOK
  <2>4. mode \in {"inline", "latest", "tasks"} /\ (mode # "tasks" => step = "calling") /\ (mode = "tasks" => step = "streaming")
    BY <1>0, <2>3, SubscriptionAssumption DEF ModesKeep, TypeOK
  <2>5. TypeOK' /\ ModesKeep' /\ HandlerWaits'
    BY <1>0, <2>1, <2>2, <2>3, <2>4 DEF TypeOK, ModesKeep, HandlerWaits
  <2> QED
    BY <1>a, <2>1, <2>5 DEF IInv
<1>13. CASE StreamEnds
  <2>1. TypeOK' /\ ModesKeep' /\ HandlerWaits'
    BY <1>0, <1>13 DEF StreamEnds, middleware, TypeOK, ModesKeep, HandlerWaits
  <2> QED
    BY <1>a, <1>13, <2>1 DEF StreamEnds, middleware, IInv
<1>14. CASE TakeRaises \/ Stop
  <2>1. /\ queue' = <<>> /\ taken' = <<>> /\ events' = <<>> /\ left' = 0 /\ step' = "idle" /\ server' = "down" /\ running = {}
        /\ UNCHANGED <<published, unread, mode, running, heard>>
    BY <1>0, <1>14 DEF TakeRaises, Stop, Down, HandlerWaits
  <2>2. Elements(<<>>) = {} /\ Distinct(<<>>) /\ Increasing(<<>>) /\ <<>> \in Seq(Messages) /\ Len(<<>>) = 0
    BY DEF Elements, Distinct, Increasing
  <2>3. TypeOK'
    BY <1>0, <2>1, <2>2 DEF TypeOK
  <2>4. QueueIsNewer' /\ TakenIsUnheard' /\ ModesKeep' /\ HandlerWaits'
    BY <1>0, <2>1, <2>2 DEF QueueIsNewer, TakenIsUnheard, ModesKeep, HandlerWaits
  <2> QED
    BY <2>3, <2>4 DEF IInv
<1>15. CASE UNCHANGED vars
  BY <1>0, <1>a, <1>15 DEF vars, middleware, TypeOK, ModesKeep, HandlerWaits, IInv
<1> QED
  BY <1>1, <1>2, <1>3, <1>4, <1>5, <1>6, <1>7, <1>8, <1>9, <1>10, <1>11, <1>12, <1>13, <1>14, <1>15 DEF Next, Handler

-----------------------------------------------------------------------------
(* The theorem. *)

\* For any number of messages, any depth of the queue and any max_concurrency, no message is handed
\* to the callback twice, no more callbacks run than the mode allows, and the modes that call back
\* in the server follow the order of publication.
THEOREM MessagesOnce == Spec => []DeliveredOnce
<1>1. IInv => DeliveredOnce
  <2> SUFFICES ASSUME IInv PROVE DeliveredOnce
    OBVIOUS
  <2>1. heard \in Seq(Messages) /\ Distinct(heard)
    BY DEF IInv, TypeOK, TakenIsUnheard
  <2>2. IsInjective(heard)
    BY <2>1 DEF Distinct, IsInjective
  <2>3. mode # "tasks" => InOrder
    BY <2>1 DEF IInv, ModesKeep, Increasing, InOrder
  <2>4. mode # "tasks" => Cardinality(running) <= 1
    <3>1. CASE running = {}
      <4>1. Cardinality(running) = 0
        BY <3>1, FS_EmptySet
      <4> QED
        BY <4>1
    <3>2. ASSUME mode # "tasks", running # {} PROVE Cardinality(running) <= 1
      <4>1. PICK m : running = {m}
        BY <3>2 DEF IInv, ModesKeep, HandlerWaits, TypeOK
      <4>2. Cardinality(running) = 1
        BY <4>1, FS_Singleton
      <4> QED
        BY <4>2
    <3> QED
      BY <3>1, <3>2
  <2> QED
    BY <2>2, <2>3, <2>4 DEF IInv, HandlerWaits, DeliveredOnce
<1> QED
  BY <1>1, InitIInv, Step, PTL DEF Spec

-----------------------------------------------------------------------------
(* The announcements. *)

\* Behind(i): what the events from the i-th on announce, counted from the back, so that an event is
\* added and the first one handled without an induction over the sequence.
Behind(f) ==
  /\ f \in [0 .. Len(events) -> Nat] /\ f[Len(events)] = 0
  /\ \A i \in 1 .. Len(events) : f[i - 1] = f[i] + events[i]

\* In the modes that count: the queue is no longer than what is announced, or will be, or is to be taken.
CountsCover ==
  /\ mode # "latest" => \E f : Behind(f) /\ Len(queue) <= unread + left + f[0]
  /\ mode # "latest" /\ step \in {"idle", "streaming"} => left = 0

\* In latest: a pass is under way or to come.
PassToCome == mode = "latest" /\ queue # <<>> => unread > 0 \/ events # <<>> \/ step = "taking"

NoticeInv == CountsCover /\ PassToCome

LEMMA InitNoticeInv == Init => NoticeInv
<1> SUFFICES ASSUME Init PROVE NoticeInv
  OBVIOUS
<1>1. queue = <<>> /\ events = <<>> /\ unread = 0 /\ left = 0
  BY DEF Init
<1>2. Behind([i \in 0 .. 0 |-> 0])
  BY <1>1 DEF Behind
<1>3. PICK f : f = [i \in 0 .. 0 |-> 0]
  OBVIOUS
<1>4. f[0] = 0 /\ Len(queue) <= unread + left + f[0]
  BY <1>1, <1>3
<1>5. \E g : Behind(g) /\ Len(queue) <= unread + left + g[0]
  BY <1>2, <1>3, <1>4
<1> QED
  BY <1>1, <1>5 DEF NoticeInv, CountsCover, PassToCome

\* What is announced is no concern of a step that leaves the events alone.
LEMMA SameEvents ==
  ASSUME events' = events, NEW f, Behind(f)
  PROVE  Behind(f)' /\ f[0] \in Nat
BY DEF Behind

\* What the step leaves of the queue is covered by what it leaves of the counts.
LEMMA CountsStep ==
  ASSUME NoticeInv, mode' = mode, events' = events, Len(queue) \in Nat, unread \in Nat, left \in Nat,
         Len(queue') \in Nat, unread' \in Nat, left' \in Nat,
         Len(queue') - (unread' + left') <= Len(queue) - (unread + left),
         mode # "latest" /\ step' \in {"idle", "streaming"} => left' = 0
  PROVE  CountsCover'
<1>1. CASE mode = "latest"
  BY <1>1 DEF CountsCover
<1>2. CASE mode # "latest"
  <2>1. PICK f : Behind(f) /\ Len(queue) <= unread + left + f[0]
    BY <1>2 DEF NoticeInv, CountsCover
  <2>2. PICK n : n = f[0]
    OBVIOUS
  <2>3. Behind(f)' /\ n \in Nat
    BY <2>1, <2>2, SameEvents
  <2>4. PICK q, p, u, v, l, k : q = Len(queue) /\ p = Len(queue') /\ u = unread /\ v = unread' /\ l = left /\ k = left'
    OBVIOUS
  <2>5. p - (v + k) <= q - (u + l) /\ q <= u + l + n
        /\ p \in Nat /\ q \in Nat /\ u \in Nat /\ v \in Nat /\ l \in Nat /\ k \in Nat /\ n \in Nat
    BY <2>1, <2>2, <2>3, <2>4
  <2>6. Len(queue') <= unread' + left' + n
    <3>1. p <= v + k + n
      BY <2>5
    <3> QED
      BY <2>4, <3>1
  <2>7. \E g : Behind(g)' /\ Len(queue') <= unread' + left' + g[0]
    BY <2>2, <2>3, <2>6
  <2> QED
    BY <1>2, <2>7 DEF CountsCover
<1> QED
  BY <1>1, <1>2

\* A queue that drops its oldest message grows by no more than the count.
LEMMA PublishNotices == ASSUME IInv, NoticeInv, Publish PROVE NoticeInv'
<1>1. /\ queue \in Seq(Messages) /\ unread \in Nat /\ left \in Nat /\ unread' = unread + 1 /\ left' = left
      /\ UNCHANGED <<mode, events, step>>
  BY DEF IInv, TypeOK, Publish
<1>2. Len(queue') <= Len(queue) + 1 /\ Len(queue') \in Nat /\ Len(queue) \in Nat
  <2>1. PICK q : q = IF Len(queue) < Depth THEN queue ELSE Tail(queue)
    OBVIOUS
  <2>2. q \in Seq(Messages) /\ Len(q) <= Len(queue)
    <3>1. CASE Len(queue) < Depth
      BY <1>1, <2>1, <3>1
    <3>2. CASE ~ (Len(queue) < Depth)
      <4>1. queue # <<>>
        BY <1>1, <3>2, SubscriptionAssumption
      <4> QED
        BY <1>1, <2>1, <3>2, <4>1
    <3> QED
      BY <3>1, <3>2
  <2>3. queue' = Append(q, published')
    BY <2>1 DEF Publish
  <2> QED
    BY <1>1, <2>2, <2>3
<1>3. CountsCover'
  <2>1. mode # "latest" /\ step' \in {"idle", "streaming"} => left' = 0
    BY <1>1 DEF NoticeInv, CountsCover
  <2>2. Len(queue') - (unread' + left') <= Len(queue) - (unread + left)
    BY <1>1, <1>2
  <2> QED
    BY <1>1, <1>2, <2>1, <2>2, CountsStep
<1>4. PassToCome'
  BY <1>1 DEF PassToCome
<1> QED
  BY <1>3, <1>4 DEF NoticeInv

\* The middleware counts what it announces as announced.
LEMMA NotifyNotices == ASSUME IInv, NoticeInv, Notify PROVE NoticeInv'
<1>1. /\ events \in Seq(Nat \ {0}) /\ unread \in Nat \ {0} /\ unread' = 0 /\ events' = Append(events, unread)
      /\ left \in Nat /\ UNCHANGED <<queue, mode, left, step>> /\ Len(queue) \in Nat
  BY DEF IInv, TypeOK, Notify
<1>2. /\ Len(events') = Len(events) + 1 /\ Len(events) \in Nat /\ events' # <<>>
      /\ \A i \in 1 .. Len(events) + 1 : events'[i] = IF i = Len(events) + 1 THEN unread ELSE events[i]
      /\ \A i \in 1 .. Len(events) : events[i] \in Nat
  BY <1>1
<1>3. CountsCover'
  <2>1. CASE mode = "latest"
    BY <1>1, <2>1 DEF CountsCover
  <2>2. CASE mode # "latest"
    <3>1. PICK f : Behind(f) /\ Len(queue) <= unread + left + f[0]
      BY <2>2 DEF NoticeInv, CountsCover
    <3>2. PICK g : g = [i \in 0 .. Len(events) + 1 |-> IF i = Len(events) + 1 THEN 0 ELSE f[i] + unread]
      OBVIOUS
    <3>3. f \in [0 .. Len(events) -> Nat] /\ f[Len(events)] = 0 /\ \A i \in 1 .. Len(events) : f[i - 1] = f[i] + events[i]
      BY <3>1 DEF Behind
    <3>4. g \in [0 .. Len(events) + 1 -> Nat] /\ g[Len(events) + 1] = 0
      BY <1>1, <1>2, <3>2, <3>3
    <3>5. ASSUME NEW i \in 1 .. Len(events) + 1 PROVE g[i - 1] = g[i] + events'[i]
      <4>1. CASE i = Len(events) + 1
        BY <1>1, <1>2, <3>2, <3>3, <4>1
      <4>2. CASE i # Len(events) + 1
        <5>1. i \in 1 .. Len(events) /\ i - 1 \in 0 .. Len(events) + 1 /\ i - 1 # Len(events) + 1 /\ i - 1 \in 0 .. Len(events)
          BY <1>2, <4>2
        <5>2. g[i - 1] = f[i - 1] + unread /\ g[i] = f[i] + unread /\ f[i - 1] = f[i] + events[i] /\ events'[i] = events[i]
          BY <1>2, <3>2, <3>3, <4>2, <5>1
        <5>3. f[i] \in Nat /\ events[i] \in Nat
          BY <1>2, <3>3, <5>1
        <5> QED
          BY <1>1, <5>2, <5>3
      <4> QED
        BY <4>1, <4>2
    <3>6. Behind(g)'
      BY <1>2, <3>4, <3>5 DEF Behind
    <3>7. g[0] = f[0] + unread /\ f[0] \in Nat
      BY <1>2, <3>2, <3>3
    <3>8. Len(queue') <= unread' + left' + g[0]
      BY <1>1, <3>1, <3>7
    <3> QED
      BY <1>1, <2>2, <3>6, <3>8 DEF NoticeInv, CountsCover
  <2> QED
    BY <2>1, <2>2
<1>4. PassToCome'
  BY <1>2 DEF PassToCome
<1> QED
  BY <1>3, <1>4 DEF NoticeInv

\* A server that is idle has no takes left, so it loses none when it starts on the next event.
LEMMA HandleNotices == ASSUME IInv, NoticeInv, HandleNewMessage PROVE NoticeInv'
<1>1. /\ events \in Seq(Nat \ {0}) /\ events # <<>> /\ mode # "latest" /\ step = "idle" /\ step' = "taking"
      /\ events' = Tail(events) /\ left' = Head(events) /\ Len(queue) \in Nat /\ unread \in Nat
      /\ UNCHANGED <<queue, unread, mode>>
  BY DEF IInv, TypeOK, HandleNewMessage, middleware
<1>2. /\ Len(events) \in Nat \ {0} /\ Len(events') = Len(events) - 1 /\ Head(events) = events[1]
      /\ \A i \in 1 .. Len(events) - 1 : events'[i] = events[i + 1]
      /\ \A i \in 1 .. Len(events) : events[i] \in Nat
  BY <1>1
<1>3. PICK f : Behind(f) /\ Len(queue) <= unread + left + f[0]
  BY <1>1 DEF NoticeInv, CountsCover
<1>4. left = 0
  BY <1>1 DEF NoticeInv, CountsCover
<1>5. PICK g : g = [i \in 0 .. Len(events) - 1 |-> f[i + 1]]
  OBVIOUS
<1>6. f \in [0 .. Len(events) -> Nat] /\ f[Len(events)] = 0 /\ \A i \in 1 .. Len(events) : f[i - 1] = f[i] + events[i]
  BY <1>3 DEF Behind
<1>7. g \in [0 .. Len(events) - 1 -> Nat] /\ g[Len(events) - 1] = 0 /\ g[0] = f[1]
  BY <1>2, <1>5, <1>6
<1>8. ASSUME NEW i \in 1 .. Len(events) - 1 PROVE g[i - 1] = g[i] + events'[i]
  <2>1. i \in 0 .. Len(events) - 1 /\ i - 1 \in 0 .. Len(events) - 1 /\ i + 1 \in 1 .. Len(events) /\ (i + 1) - 1 = i
    BY <1>2
  <2>2. g[i - 1] = f[i] /\ g[i] = f[i + 1]
    BY <1>5, <2>1
  <2>3. f[i] = f[i + 1] + events[i + 1]
    BY <1>6, <2>1
  <2> QED
    BY <1>2, <2>2, <2>3
<1>9. Behind(g)'
  BY <1>2, <1>7, <1>8 DEF Behind
<1>10. f[0] = f[1] + events[1] /\ f[1] \in Nat /\ events[1] \in Nat
  <2>1. 1 \in 1 .. Len(events) /\ 1 - 1 = 0
    BY <1>2
  <2>2. f[1 - 1] = f[1] + events[1]
    BY <1>6, <2>1
  <2> QED
    BY <1>2, <1>6, <2>1, <2>2
<1>11. Len(queue') <= unread' + left' + g[0]
  BY <1>1, <1>2, <1>3, <1>4, <1>7, <1>10
<1> QED
  BY <1>1, <1>9, <1>11 DEF NoticeInv, CountsCover, PassToCome

\* A take removes at least as much from the queue as it counts, or finds the queue empty.
LEMMA TakesNotice ==
  ASSUME IInv, NoticeInv, TakeAndInvoke \/ TakeOne \/ TakeFails \/ TakeLatest \/ InvokeLatest \/ Taken
  PROVE  NoticeInv'
<1>1. /\ queue \in Seq(Messages) /\ Len(queue) \in Nat /\ unread \in Nat /\ left \in Nat
      /\ events' = events /\ unread' = unread /\ mode' = mode
  BY DEF IInv, TypeOK, TakeAndInvoke, TakeOne, TakeFails, TakeLatest, InvokeLatest, Taken, Taking
<1>2. CASE TakeAndInvoke \/ TakeOne
  <2>1. mode # "latest" /\ queue # <<>> /\ queue' = Tail(queue) /\ left > 0 /\ left' = left - 1
        /\ step' \in {"calling", "taking"}
    BY <1>2 DEF TakeAndInvoke, TakeOne, Taking
  <2>2. Len(queue') = Len(queue) - 1 /\ Len(queue') \in Nat /\ left' \in Nat
    BY <1>1, <2>1
  <2>3. CountsCover'
    BY <1>1, <2>1, <2>2, CountsStep
  <2> QED
    BY <1>1, <2>1, <2>3 DEF NoticeInv, PassToCome
<1>3. CASE TakeFails
  <2>1. mode # "latest" /\ queue = <<>> /\ queue' = queue /\ left > 0 /\ left' = left - 1 /\ step' = "taking"
    BY <1>3 DEF TakeFails, Taking
  <2>2. PICK f : Behind(f)
    BY <2>1 DEF NoticeInv, CountsCover
  <2>3. Behind(f)' /\ f[0] \in Nat
    BY <1>1, <2>2, SameEvents
  <2>4. Len(queue') <= unread' + left' + f[0]
    BY <1>1, <2>1, <2>3
  <2> QED
    BY <1>1, <2>1, <2>3, <2>4 DEF NoticeInv, CountsCover, PassToCome
<1>4. CASE TakeLatest
  BY <1>1, <1>4 DEF TakeLatest, Taking, NoticeInv, CountsCover, PassToCome
<1>5. CASE InvokeLatest
  BY <1>1, <1>5 DEF InvokeLatest, Taking, NoticeInv, CountsCover, PassToCome
<1>6. CASE Taken
  <2>1. mode # "latest" /\ queue' = queue /\ left = 0 /\ left' = left
    BY <1>6 DEF Taken, Taking
  <2>2. CountsCover'
    BY <1>1, <2>1, CountsStep
  <2> QED
    BY <1>1, <2>1, <2>2 DEF NoticeInv, PassToCome
<1> QED
  BY <1>2, <1>3, <1>4, <1>5, <1>6

\* A handler that goes on keeps its takes, and one that is idle again in latest has left the queue
\* to the announcements.
LEMMA CallbackNotices == ASSUME IInv, NoticeInv, NEW m \in Messages, CallbackEnds(m) PROVE NoticeInv'
<1>1. /\ Len(queue) \in Nat /\ unread \in Nat /\ left \in Nat /\ step # "taking" /\ step # "idle"
      /\ UNCHANGED <<queue, unread, events, left, mode>>
      /\ mode \in {"inline", "latest", "tasks"}
      /\ step' = CASE mode = "inline" -> "taking" [] mode = "latest" -> "idle" [] OTHER -> step
  BY SubscriptionAssumption DEF IInv, TypeOK, HandlerWaits, CallbackEnds, middleware
<1>2. mode # "latest" /\ step' \in {"idle", "streaming"} => left' = 0
  BY <1>1 DEF NoticeInv, CountsCover
<1>3. CountsCover'
  BY <1>1, <1>2, CountsStep
<1>4. PassToCome'
  BY <1>1 DEF NoticeInv, PassToCome
<1> QED
  BY <1>3, <1>4 DEF NoticeInv

\* The other steps touch neither the queue nor the counts; who goes down takes nothing any more.
LEMMA OthersNotice ==
  ASSUME IInv, NoticeInv,
         HandleContinue \/ HandleLatest \/ StartTask \/ StreamEnds \/ TakeRaises \/ Stop \/ UNCHANGED vars
  PROVE  NoticeInv'
<1>1. Len(queue) \in Nat /\ unread \in Nat /\ left \in Nat
  BY DEF IInv, TypeOK
<1>2. CASE HandleContinue \/ StartTask \/ UNCHANGED vars
  <2>1. UNCHANGED <<queue, unread, events, left, mode, step>>
    BY <1>2 DEF HandleContinue, StartTask, vars, middleware
  <2>2. mode # "latest" /\ step' \in {"idle", "streaming"} => left' = 0
    BY <2>1 DEF NoticeInv, CountsCover
  <2>3. CountsCover'
    BY <1>1, <2>1, <2>2, CountsStep
  <2> QED
    BY <2>1, <2>3 DEF NoticeInv, PassToCome
<1>3. CASE HandleLatest
  BY <1>3 DEF HandleLatest, middleware, NoticeInv, CountsCover, PassToCome
<1>4. CASE StreamEnds
  <2>1. step = "streaming" /\ mode # "latest" /\ UNCHANGED <<queue, unread, events, left, mode>>
    BY <1>4 DEF StreamEnds, middleware, IInv, ModesKeep
  <2>2. left' = 0
    BY <2>1 DEF NoticeInv, CountsCover
  <2>3. CountsCover'
    BY <1>1, <2>1, <2>2, CountsStep
  <2> QED
    BY <2>1, <2>3 DEF NoticeInv, PassToCome
<1>5. CASE TakeRaises \/ Stop
  <2>1. queue' = <<>> /\ events' = <<>> /\ left' = 0 /\ unread' = unread
    BY <1>5 DEF TakeRaises, Stop, Down
  <2>2. PICK f : f = [i \in 0 .. 0 |-> 0]
    OBVIOUS
  <2>3. Behind(f)' /\ f[0] = 0
    BY <2>1, <2>2 DEF Behind
  <2>4. Len(queue') <= unread' + left' + f[0]
    BY <1>1, <2>1, <2>3
  <2> QED
    BY <2>1, <2>3, <2>4 DEF NoticeInv, CountsCover, PassToCome
<1> QED
  BY <1>2, <1>3, <1>4, <1>5

\* For any number of messages, any depth of the queue and any mode, a message that waits in the
\* middleware is announced, about to be, or in the takes of the handler that runs: the takes that
\* ran ahead of an event, and the messages the queue dropped, make no later message wait unnoticed.
THEOREM NothingWaitsUnnoticed == Spec => []QueueIsNoticed
<1>1. IInv /\ NoticeInv /\ [Next]_vars => NoticeInv'
  BY PublishNotices, NotifyNotices, HandleNotices, TakesNotice, CallbackNotices, OthersNotice DEF Next, Handler
<1>2. IInv /\ NoticeInv => QueueIsNoticed
  <2> SUFFICES ASSUME IInv, NoticeInv, queue # <<>>, unread = 0, events = <<>>, mode # "latest" PROVE left > 0
    BY DEF IInv, TypeOK, NoticeInv, PassToCome, QueueIsNoticed
  <2>1. PICK f : Behind(f) /\ Len(queue) <= unread + left + f[0]
    BY DEF NoticeInv, CountsCover
  <2>2. f[0] = 0
    BY <2>1 DEF Behind
  <2>3. Len(queue) \in Nat \ {0} /\ left \in Nat
    BY DEF IInv, TypeOK
  <2> QED
    BY <2>1, <2>2, <2>3
<1> QED
  BY <1>1, <1>2, InitIInv, InitNoticeInv, Step, PTL DEF Spec
=============================================================================
