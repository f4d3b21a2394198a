------------------------- MODULE ActionClientProofs -------------------------
(***************************************************************************)
(* A request of Rclex.ActionClient calls back once, none is forgotten and  *)
(* the goals the client keeps are those it has reported as accepted: for   *)
(* any requests, any depth of the queues and any order of responses and    *)
(* timers.                                                                 *)
(*                                                                         *)
(* A request calls back where it leaves state.*_requests, so what is kept  *)
(* has neither a callback under way nor one that ran.  Feedback is in no   *)
(* map: it calls back once because it lies in its queue once and leaves it *)
(* when it is taken.                                                       *)
(***************************************************************************)
EXTENDS ActionClient, TLAPS

Elements(s) == {s[i] : i \in 1 .. Len(s)}
Distinct(s) == \A i, j \in 1 .. Len(s) : s[i] = s[j] => i = j

Responses == {"accepted", "rejected", "answered"}

\* A queue holds messages of its kind, and responses only of requests that were answered.
QueuesHold ==
  \A k \in Kinds : \A m \in Elements(queue[k]) :
    Kind(m) = k /\ (k # "feedback" => answer[m] \in Responses)

\* The answer of a goal request accepts or rejects.
AnswersFit == \A r \in Reqs : answer[r] # "none" => answer[r] \in Answers(r)

\* m has not called back, and no Task is about to.
Quiet(m) == heard[m] = <<>> /\ About(m) = {}

\* A message of feedback is queued once, and nothing has come of it before it is taken.
FeedbackWaits ==
  /\ Distinct(queue["feedback"])
  /\ \A f \in Elements(queue["feedback"]) : f \in sent /\ Quiet(f)

\* What was not sent has not called back, and neither has a request that is kept.
KeptAreQuiet ==
  /\ \A m \in Messages \ sent : Quiet(m)
  /\ \A r \in requests : r \in sent /\ Quiet(r)

TypeInv == TypeOK /\ QueuesHold /\ AnswersFit
IInv == /\ TypeInv /\ FeedbackWaits /\ KeptAreQuiet
        /\ CalledBackOnce /\ NothingForgotten /\ AcceptedGoalsAreKnown

-----------------------------------------------------------------------------
(* Kinds, and what becomes of a queue. *)

LEMMA KindsApart ==
  ASSUME NEW m \in Messages
  PROVE  /\ Kind(m) \in Kinds
         /\ m \in Reqs <=> Kind(m) # "feedback"
         /\ m \in GoalReqs <=> Kind(m) = "goal"
         /\ m \in Feedbacks <=> Kind(m) = "feedback"
BY RequestsAssumption DEF Messages, Reqs, Kinds, Kind

LEMMA AppendHolds ==
  ASSUME NEW S, NEW s \in Seq(S), NEW m \in S
  PROVE  /\ Append(s, m) \in Seq(S)
         /\ Elements(Append(s, m)) = Elements(s) \cup {m}
         /\ Distinct(s) /\ m \notin Elements(s) => Distinct(Append(s, m))
<1>1. /\ Append(s, m) \in Seq(S) /\ Len(Append(s, m)) = Len(s) + 1 /\ Len(s) \in Nat
      /\ \A i \in 1 .. Len(s) + 1 : Append(s, m)[i] = IF i = Len(s) + 1 THEN m ELSE s[i]
  OBVIOUS
<1> QED
  BY <1>1 DEF Elements, Distinct

LEMMA TailHolds ==
  ASSUME NEW S, NEW s \in Seq(S), s # <<>>
  PROVE  /\ Head(s) \in S /\ Head(s) \in Elements(s) /\ Tail(s) \in Seq(S)
         /\ Elements(Tail(s)) \subseteq Elements(s)
         /\ Distinct(s) => Distinct(Tail(s)) /\ Head(s) \notin Elements(Tail(s))
<1>1. /\ Tail(s) \in Seq(S) /\ Len(Tail(s)) = Len(s) - 1 /\ Len(s) \in Nat \ {0} /\ Head(s) = s[1]
      /\ \A i \in 1 .. Len(s) - 1 : Tail(s)[i] = s[i + 1]
  OBVIOUS
<1>2. Head(s) \in S /\ Head(s) \in Elements(s)
  BY <1>1 DEF Elements
<1>3. Elements(Tail(s)) \subseteq Elements(s)
  BY <1>1 DEF Elements
<1>4. Distinct(s) => Distinct(Tail(s))
  BY <1>1 DEF Distinct
<1>5. Distinct(s) => Head(s) \notin Elements(Tail(s))
  BY <1>1 DEF Distinct, Elements
<1> QED
  BY <1>1, <1>2, <1>3, <1>4, <1>5

\* Enqueue appends, possibly after dropping the oldest element.
Pushed(s, m) == IF Len(s) < QueueDepth THEN Append(s, m) ELSE Append(Tail(s), m)

LEMMA PushedHolds ==
  ASSUME NEW S, NEW s \in Seq(S), NEW m \in S
  PROVE  /\ Pushed(s, m) \in Seq(S)
         /\ Elements(Pushed(s, m)) \subseteq Elements(s) \cup {m}
         /\ Distinct(s) /\ m \notin Elements(s) => Distinct(Pushed(s, m))
<1>1. CASE Len(s) < QueueDepth
  BY <1>1, AppendHolds DEF Pushed
<1>2. CASE ~ (Len(s) < QueueDepth)
  <2>1. s # <<>>
    BY <1>2, OptionsAssumption
  <2>2. /\ Tail(s) \in Seq(S) /\ Elements(Tail(s)) \subseteq Elements(s)
        /\ Distinct(s) => Distinct(Tail(s))
    BY <2>1, TailHolds
  <2>3. Pushed(s, m) = Append(Tail(s), m)
    BY <1>2 DEF Pushed
  <2>4. /\ Append(Tail(s), m) \in Seq(S)
        /\ Elements(Append(Tail(s), m)) = Elements(Tail(s)) \cup {m}
        /\ Distinct(Tail(s)) /\ m \notin Elements(Tail(s)) => Distinct(Append(Tail(s), m))
    BY <2>2, AppendHolds
  <2> QED
    BY <2>2, <2>3, <2>4
<1> QED
  BY <1>1, <1>2

-----------------------------------------------------------------------------
(* Types. *)

LEMMA InitIInv == Init => IInv
<1>1. Elements(<<>>) = {} /\ Distinct(<<>>)
  BY DEF Elements, Distinct
<1> QED
  BY <1>1, RequestsAssumption
   DEF Init, IInv, TypeInv, TypeOK, QueuesHold, AnswersFit, FeedbackWaits, KeptAreQuiet, Quiet, About, CalledBackOnce,
       NothingForgotten, AcceptedGoalsAreKnown, Idle, Kinds, Messages, Reqs

LEMMA EnqueueHolds ==
  ASSUME TypeOK, NEW k \in Kinds, NEW m \in Messages, Enqueue(k, m)
  PROVE  /\ queue' \in [Kinds -> Seq(Messages)] /\ unread' \in [Kinds -> Nat]
         /\ \A j \in Kinds \ {k} : queue'[j] = queue[j]
         /\ Elements(queue'[k]) \subseteq Elements(queue[k]) \cup {m}
         /\ Distinct(queue[k]) /\ m \notin Elements(queue[k]) => Distinct(queue'[k])
<1>1. queue[k] \in Seq(Messages) /\ queue \in [Kinds -> Seq(Messages)] /\ unread \in [Kinds -> Nat]
  BY DEF TypeOK
<1>2. queue' = [queue EXCEPT ![k] = Pushed(queue[k], m)]
  BY <1>1 DEF Enqueue, Pushed
<1>3. unread' \in [Kinds -> Nat]
  BY <1>1 DEF Enqueue
<1>4. /\ Pushed(queue[k], m) \in Seq(Messages)
      /\ Elements(Pushed(queue[k], m)) \subseteq Elements(queue[k]) \cup {m}
      /\ Distinct(queue[k]) /\ m \notin Elements(queue[k]) => Distinct(Pushed(queue[k], m))
  BY <1>1, PushedHolds
<1> QED
  BY <1>1, <1>2, <1>3, <1>4

LEMMA TookTyped ==
  ASSUME TypeOK, NEW k \in Kinds, Taking(k), Took
  PROVE  batch' \in {Idle} \cup [kind : Kinds, left : Nat \ {0}]
<1>1. batch \in [kind : Kinds, left : Nat \ {0}]
  BY DEF TypeOK, Taking, Idle, Kinds
<1>2. CASE batch.left = 1
  BY <1>2 DEF Took
<1>3. CASE batch.left # 1
  <2>1. batch.left \in Nat \ {0} /\ batch.left - 1 \in Nat \ {0}
    BY <1>1, <1>3
  <2>2. batch' = [batch EXCEPT !.left = @ - 1]
    BY <1>3 DEF Took
  <2> QED
    BY <1>1, <2>1, <2>2
<1> QED
  BY <1>2, <1>3

LEMMA TakeHolds ==
  ASSUME TypeOK, NEW k \in Kinds, TakeFirst(k)
  PROVE  /\ queue' \in [Kinds -> Seq(Messages)] /\ batch' \in {Idle} \cup [kind : Kinds, left : Nat \ {0}]
         /\ Head(queue[k]) \in Messages /\ Head(queue[k]) \in Elements(queue[k])
         /\ \A j \in Kinds \ {k} : queue'[j] = queue[j]
         /\ Elements(queue'[k]) \subseteq Elements(queue[k])
         /\ Distinct(queue[k]) => Distinct(queue'[k]) /\ Head(queue[k]) \notin Elements(queue'[k])
<1>1. queue[k] \in Seq(Messages) /\ queue \in [Kinds -> Seq(Messages)] /\ queue[k] # <<>>
      /\ queue' = [queue EXCEPT ![k] = Tail(queue[k])]
  BY DEF TypeOK, TakeFirst
<1>2. batch' \in {Idle} \cup [kind : Kinds, left : Nat \ {0}]
  BY TookTyped DEF TakeFirst
<1>3. /\ Head(queue[k]) \in Messages /\ Head(queue[k]) \in Elements(queue[k])
      /\ Tail(queue[k]) \in Seq(Messages)
      /\ Elements(Tail(queue[k])) \subseteq Elements(queue[k])
      /\ Distinct(queue[k]) => Distinct(Tail(queue[k])) /\ Head(queue[k]) \notin Elements(Tail(queue[k]))
  BY <1>1, TailHolds
<1> QED
  BY <1>1, <1>2, <1>3

\* What a client that ends keeps in order, and what it forgets.
LEMMA DownType ==
  ASSUME TypeOK, NEW how \in {"crashed", "stopped"}, Down(how), heard' \in [Messages -> Seq(Responses \cup {"expired"} \cup GoalReqs)]
  PROVE  TypeOK'
BY DEF TypeOK, Down, Idle, Reqs, Kinds, Responses

LEMMA TypeStep == TypeInv /\ [Next]_vars => TypeInv'
<1> SUFFICES ASSUME TypeInv, [Next]_vars PROVE TypeInv'
  OBVIOUS
<1> USE DEF TypeInv
<1>a. ASSUME UNCHANGED <<queue, answer>> PROVE QueuesHold' /\ AnswersFit'
  BY <1>a DEF QueuesHold, AnswersFit
<1>1. ASSUME NEW r \in Reqs, Request(r) PROVE TypeInv'
  BY <1>a, <1>1 DEF TypeOK, Request, Messages
<1>2. ASSUME NEW r \in Reqs, NEW a \in Answers(r), ServerAnswers(r, a) PROVE TypeInv'
  <2>1. Kind(r) \in Kinds /\ r \in Messages /\ a \in Responses /\ a # "none"
    BY KindsApart DEF Messages, Answers, Responses
  <2>2. /\ queue' \in [Kinds -> Seq(Messages)] /\ unread' \in [Kinds -> Nat]
        /\ \A j \in Kinds \ {Kind(r)} : queue'[j] = queue[j]
        /\ Elements(queue'[Kind(r)]) \subseteq Elements(queue[Kind(r)]) \cup {r}
    BY <1>2, <2>1, EnqueueHolds DEF ServerAnswers
  <2>3. answer' = [answer EXCEPT ![r] = a] /\ answer \in [Reqs -> Responses \cup {"none"}] /\ answer[r] = "none"
    BY <1>2 DEF ServerAnswers, TypeOK, Responses
  <2>4. TypeOK'
    BY <1>2, <2>1, <2>2, <2>3 DEF ServerAnswers, TypeOK, Responses
  <2>5. AnswersFit'
    BY <2>3 DEF AnswersFit
  <2>6. ASSUME NEW k \in Kinds, NEW m \in Elements(queue'[k])
        PROVE  Kind(m) = k /\ (k # "feedback" => answer'[m] \in Responses)
    <3>1. CASE m = r /\ k = Kind(r)
      BY <3>1, <2>1, <2>3
    <3>2. CASE m \in Elements(queue[k])
      <4>1. Kind(m) = k /\ (k # "feedback" => answer[m] \in Responses)
        BY <3>2 DEF QueuesHold
      <4> QED
        BY <4>1, <2>1, <2>3 DEF Responses
    <3> QED
      BY <3>1, <3>2, <2>2
  <2> QED
    BY <2>4, <2>5, <2>6 DEF QueuesHold
<1>3. ASSUME NEW f \in Feedbacks, ServerPublishes(f) PROVE TypeInv'
  <2>1. Kind(f) = "feedback" /\ f \in Messages /\ "feedback" \in Kinds
    BY KindsApart DEF Messages, Kinds
  <2>2. /\ queue' \in [Kinds -> Seq(Messages)] /\ unread' \in [Kinds -> Nat]
        /\ \A j \in Kinds \ {"feedback"} : queue'[j] = queue[j]
        /\ Elements(queue'["feedback"]) \subseteq Elements(queue["feedback"]) \cup {f}
    BY <1>3, <2>1, EnqueueHolds DEF ServerPublishes
  <2>3. TypeOK'
    BY <1>3, <2>1, <2>2 DEF ServerPublishes, TypeOK
  <2> QED
    BY <1>3, <2>1, <2>2, <2>3 DEF QueuesHold, AnswersFit, ServerPublishes
<1>4. ASSUME NEW k \in Kinds, Notify(k) PROVE TypeInv'
  <2>1. events' \in [Kinds -> Seq(Nat \ {0})] /\ unread' \in [Kinds -> Nat]
    BY <1>4 DEF Notify, TypeOK
  <2> QED
    BY <1>a, <1>4, <2>1 DEF Notify, TypeOK
<1>5. ASSUME NEW r \in Reqs, TimerFires(r) PROVE TypeInv'
  BY <1>a, <1>5 DEF TypeOK, TimerFires
<1>6. ASSUME NEW t \in tasks, RunTask(t) PROVE TypeInv'
  <2>1. t[1] \in Messages /\ t[2] \in Responses \cup GoalReqs
    BY DEF TypeOK, Messages, Responses
  <2>2. heard' \in [Messages -> Seq(Responses \cup {"expired"} \cup GoalReqs)]
    BY <1>6, <2>1 DEF RunTask, TypeOK, Responses
  <2> QED
    BY <1>a, <1>6, <2>2 DEF RunTask, TypeOK, Responses
<1>7. ASSUME NEW k \in Kinds, StartBatch(k) PROVE TypeInv'
  <2>1. Head(events[k]) \in Nat \ {0} /\ Tail(events[k]) \in Seq(Nat \ {0})
    BY <1>7 DEF StartBatch, TypeOK
  <2> QED
    BY <1>a, <1>7, <2>1 DEF StartBatch, TypeOK
<1>8. ASSUME NEW k \in Kinds, TakeFails(k) PROVE TypeInv'
  <2>1. batch' \in {Idle} \cup [kind : Kinds, left : Nat \ {0}]
    BY <1>8, TookTyped DEF TakeFails
  <2> QED
    BY <1>a, <1>8, <2>1 DEF TakeFails, TypeOK
<1>9. ASSUME NEW k \in Kinds, TakeFirst(k), UNCHANGED answer PROVE QueuesHold' /\ AnswersFit'
  BY <1>9, TakeHolds DEF QueuesHold, AnswersFit
<1>10. ASSUME NEW k \in Kinds, TakeResponse(k) PROVE TypeInv'
  <2> DEFINE r == Head(queue[k])
  <2>1. /\ queue' \in [Kinds -> Seq(Messages)] /\ batch' \in {Idle} \cup [kind : Kinds, left : Nat \ {0}]
        /\ r \in Messages /\ r \in Elements(queue[k])
    BY <1>10, TakeHolds DEF TakeResponse
  <2>2. Kind(r) = k /\ answer[r] \in Responses /\ r \in Reqs /\ (k = "goal" => r \in GoalReqs)
    BY <1>10, <2>1, KindsApart DEF TakeResponse, QueuesHold
  <2>3. /\ tasks' \subseteq tasks \cup {<<r, answer[r]>>} /\ requests' \subseteq requests
        /\ timer' = [timer EXCEPT ![r] = IF @ = "set" THEN "none" ELSE @]
    BY <1>10 DEF TakeResponse, Pop
  <2>4. goals' \in [Goals -> GoalReqs \cup {NoReq}]
    BY <1>10, <2>2, RequestsAssumption DEF TakeResponse, KeepGoal, TypeOK
  <2>5. TypeOK'
    BY <1>10, <2>1, <2>2, <2>3, <2>4 DEF TakeResponse, TypeOK, Responses
  <2> QED
    BY <1>9, <1>10, <2>5 DEF TakeResponse
<1>11. CASE TakeFeedback
  <2> DEFINE f == Head(queue["feedback"])
  <2>1. "feedback" \in Kinds
    BY DEF Kinds
  <2>2. /\ queue' \in [Kinds -> Seq(Messages)] /\ batch' \in {Idle} \cup [kind : Kinds, left : Nat \ {0}]
        /\ f \in Messages /\ f \in Elements(queue["feedback"])
    BY <1>11, <2>1, TakeHolds DEF TakeFeedback
  <2>3. f \in Feedbacks
    BY <2>1, <2>2, KindsApart DEF QueuesHold
  <2>4. tasks' \subseteq (Reqs \X Responses) \cup (Feedbacks \X GoalReqs)
    BY <1>11, <2>3, RequestsAssumption DEF TakeFeedback, TypeOK, Responses
  <2>5. TypeOK'
    BY <1>11, <2>2, <2>4 DEF TakeFeedback, TypeOK, Responses
  <2> QED
    BY <1>9, <1>11, <2>1, <2>5 DEF TakeFeedback
<1>12. ASSUME NEW r \in Reqs, "expired" \in Responses \cup {"expired"} \cup GoalReqs,
              heard' = [heard EXCEPT ![r] = Append(@, "expired")]
       PROVE  heard' \in [Messages -> Seq(Responses \cup {"expired"} \cup GoalReqs)]
  BY <1>12 DEF TypeOK, Responses, Messages
<1>13. ASSUME NEW r \in Reqs, Expire(r) \/ ExpireAnswered(r) PROVE TypeInv'
  BY <1>a, <1>12, <1>13 DEF Expire, ExpireAnswered, TypeOK, Responses
<1>14. ASSUME NEW r \in Reqs, ExpireCrashes(r) PROVE TypeInv'
  BY <1>a, <1>12, <1>14, DownType DEF ExpireCrashes, Down
<1>15. CASE Stop
  BY <1>a, <1>15, DownType DEF Stop, Down, TypeOK, Responses
<1>16. CASE UNCHANGED vars
  BY <1>a, <1>16 DEF vars, TypeOK
<1> QED
  BY <1>1, <1>2, <1>3, <1>4, <1>5, <1>6, <1>7, <1>8, <1>10, <1>11, <1>13, <1>14, <1>15, <1>16 DEF Next, Handlers

-----------------------------------------------------------------------------
(* Callbacks. *)

Once == FeedbackWaits /\ KeptAreQuiet /\ CalledBackOnce /\ NothingForgotten /\ AcceptedGoalsAreKnown

\* A step that starts no Task and runs no callback, and drops no request.
LEMMA OnceKept ==
  ASSUME Once, UNCHANGED <<requests, goals, sent, tasks, heard>>, client' = client,
         queue'["feedback"] = queue["feedback"]
  PROVE  Once'
<1>1. \A m \in Messages : About(m)' = About(m) /\ (Quiet(m)' <=> Quiet(m))
  BY DEF About, Quiet
<1>2. FeedbackWaits'
  BY <1>1 DEF Once, FeedbackWaits, Quiet, About
<1>3. KeptAreQuiet'
  BY DEF Once, KeptAreQuiet, Quiet, About
<1>4. CalledBackOnce'
  BY DEF Once, CalledBackOnce, About
<1>5. NothingForgotten'
  BY DEF Once, NothingForgotten, About
<1>6. AcceptedGoalsAreKnown'
  BY DEF Once, AcceptedGoalsAreKnown
<1> QED
  BY <1>2, <1>3, <1>4, <1>5, <1>6 DEF Once

LEMMA RequestOnce ==
  ASSUME TypeInv, Once, NEW r \in Reqs, Request(r)
  PROVE  Once'
<1>1. /\ sent' = sent \cup {r} /\ requests' = requests \cup {r} /\ r \notin sent /\ r \in Messages
      /\ UNCHANGED <<client, goals, queue, tasks, heard>>
  BY DEF Request, Messages
<1>2. Quiet(r)
  BY <1>1 DEF Once, KeptAreQuiet
<1>3. FeedbackWaits'
  BY <1>1 DEF Once, FeedbackWaits, Quiet, About
<1>4. KeptAreQuiet'
  BY <1>1, <1>2 DEF Once, KeptAreQuiet, Quiet, About
<1>5. CalledBackOnce' /\ AcceptedGoalsAreKnown'
  BY <1>1 DEF Once, CalledBackOnce, AcceptedGoalsAreKnown, About
<1>6. NothingForgotten'
  BY <1>1, <1>2 DEF Once, NothingForgotten, Quiet, About
<1> QED
  BY <1>3, <1>4, <1>5, <1>6 DEF Once

LEMMA PublishOnce ==
  ASSUME TypeInv, Once, NEW f \in Feedbacks, ServerPublishes(f)
  PROVE  Once'
<1>1. /\ sent' = sent \cup {f} /\ f \notin sent /\ f \in Messages /\ f \notin Reqs
      /\ UNCHANGED <<client, requests, goals, tasks, heard>>
  BY RequestsAssumption DEF ServerPublishes, Messages
<1>2. Quiet(f) /\ f \notin Elements(queue["feedback"]) /\ "feedback" \in Kinds
  BY <1>1 DEF Once, KeptAreQuiet, FeedbackWaits, Kinds
<1>3. Elements(queue'["feedback"]) \subseteq Elements(queue["feedback"]) \cup {f} /\ Distinct(queue'["feedback"])
  BY <1>1, <1>2, EnqueueHolds DEF ServerPublishes, TypeInv, Once, FeedbackWaits
<1>4. \A m \in Messages : (Quiet(m)' <=> Quiet(m))
  BY <1>1 DEF Quiet, About
<1>5. FeedbackWaits'
  <2>1. ASSUME NEW m \in Elements(queue'["feedback"])
        PROVE  m \in sent' /\ heard'[m] = <<>> /\ {t \in tasks' : t[1] = m} = {}
    BY <1>1, <1>2, <1>3 DEF Once, FeedbackWaits, Quiet, About
  <2> QED
    BY <1>3, <2>1 DEF FeedbackWaits, Quiet, About
<1>6. KeptAreQuiet'
  BY <1>1 DEF Once, KeptAreQuiet, Quiet, About
<1>7. CalledBackOnce' /\ AcceptedGoalsAreKnown'
  BY <1>1 DEF Once, CalledBackOnce, AcceptedGoalsAreKnown, About
<1>8. NothingForgotten'
  BY <1>1 DEF Once, NothingForgotten, About
<1> QED
  BY <1>5, <1>6, <1>7, <1>8 DEF Once

\* A Task that runs was the only callback of its message.
LEMMA RunOnce ==
  ASSUME TypeInv, Once, NEW t \in tasks, RunTask(t)
  PROVE  Once'
<1> DEFINE m == t[1]
<1>1. m \in Messages /\ t = <<m, t[2]>> /\ t \in About(m)
  BY DEF TypeInv, TypeOK, Messages, About
<1>2. heard[m] = <<>> /\ (\A s \in About(m) : s = t) /\ ~ Quiet(m)
  BY <1>1 DEF Once, CalledBackOnce, Quiet
<1>3. heard' = [heard EXCEPT ![m] = <<t[2]>>] /\ heard \in [Messages -> Seq(Responses \cup {"expired"} \cup GoalReqs)]
  BY <1>2 DEF RunTask, TypeInv, TypeOK, Responses
<1>4. /\ About(m)' = {} /\ \A n \in Messages : n # m => About(n)' = About(n) /\ heard'[n] = heard[n]
      /\ heard'[m] = <<t[2]>>
  BY <1>1, <1>2, <1>3 DEF RunTask, About
<1>5. \A n \in Messages : n # m => (Quiet(n)' <=> Quiet(n))
  BY <1>4 DEF Quiet
<1>6. UNCHANGED <<client, requests, goals, sent, queue>>
  BY DEF RunTask
<1>7. FeedbackWaits'
  <2>1. ASSUME NEW n \in Elements(queue["feedback"])
        PROVE  n \in sent /\ Quiet(n)'
    <3>1. n \in sent /\ Quiet(n) /\ n \in Messages
      BY DEF Once, FeedbackWaits, TypeInv, TypeOK
    <3> QED
      BY <3>1, <1>2, <1>5
  <2> QED
    BY <2>1, <1>6 DEF Once, FeedbackWaits, Quiet, About
<1>8. KeptAreQuiet'
  <2>1. \A n \in Messages \ sent : Quiet(n)'
    BY <1>2, <1>5 DEF Once, KeptAreQuiet
  <2>2. \A r \in requests : r \in sent /\ Quiet(r)'
    BY <1>2, <1>5 DEF Once, KeptAreQuiet, TypeInv, TypeOK
  <2> QED
    BY <2>1, <2>2, <1>6 DEF KeptAreQuiet, Quiet, About
<1>9. CalledBackOnce'
  <2>1. Len(<<t[2]>>) <= 1
    OBVIOUS
  <2>2. ASSUME NEW n \in Messages
        PROVE  /\ Len(heard'[n]) <= 1
               /\ About(n)' # {} => heard'[n] = <<>>
               /\ \A s, u \in About(n)' : s = u
    <3>1. CASE n = m
      BY <1>4, <2>1, <3>1
    <3>2. CASE n # m
      BY <1>4, <3>2 DEF Once, CalledBackOnce
    <3> QED
      BY <3>1, <3>2
  <2> QED
    BY <2>2 DEF CalledBackOnce, About
<1>10. NothingForgotten'
  <2>1. ASSUME NEW r \in sent \cap Reqs PROVE Quiet(r)' <=> Quiet(r)
    <3>1. ~ Quiet(m)'
      BY <1>4 DEF Quiet
    <3>2. r \in Messages
      BY DEF Messages
    <3> QED
      BY <1>2, <1>5, <3>1, <3>2
  <2> QED
    BY <2>1, <1>6 DEF Once, NothingForgotten, Quiet, About
<1>11. AcceptedGoalsAreKnown'
  <2>1. ASSUME NEW r \in GoalReqs
        PROVE  (<<r, "accepted">> \in tasks' \/ heard'[r] = <<"accepted">>)
                 <=> (<<r, "accepted">> \in tasks \/ heard[r] = <<"accepted">>)
    <3>1. CASE r = m
      <4>1. (<<r, "accepted">> \in tasks <=> t[2] = "accepted") /\ heard[r] # <<"accepted">>
        BY <1>1, <1>2, <3>1 DEF About
      <4>2. heard'[r] = <<"accepted">> <=> t[2] = "accepted"
        BY <1>4, <3>1
      <4>3. <<r, "accepted">> \notin tasks'
        BY <1>4, <3>1 DEF About
      <4> QED
        BY <4>1, <4>2, <4>3
    <3>2. CASE r # m
      <4>1. heard'[r] = heard[r]
        BY <1>4, <3>2 DEF Messages, Reqs
      <4>2. <<r, "accepted">> \in tasks' <=> <<r, "accepted">> \in tasks
        BY <1>1, <3>2 DEF RunTask
      <4> QED
        BY <4>1, <4>2
    <3> QED
      BY <3>1, <3>2
  <2> QED
    BY <2>1, <1>6 DEF Once, AcceptedGoalsAreKnown
<1> QED
  BY <1>7, <1>8, <1>9, <1>10, <1>11 DEF Once

\* A response that is known leaves the map as it starts its callback.
LEMMA ResponseOnce ==
  ASSUME TypeInv, Once, NEW k \in Kinds, TakeResponse(k)
  PROVE  Once'
<1>0. PICK r : r = Head(queue[k])
  OBVIOUS
<1>1. r \in Messages /\ r \in Elements(queue[k]) /\ k # "feedback" /\ "feedback" \in Kinds
      /\ queue'["feedback"] = queue["feedback"]
  BY <1>0, TakeHolds DEF TakeResponse, TypeInv, Kinds
<1>2. Kind(r) = k /\ r \in Reqs /\ (r \in GoalReqs <=> k = "goal")
  BY <1>1, KindsApart DEF TypeInv, QueuesHold
<1>3. UNCHANGED <<client, sent, heard>> /\ requests' = requests \ {r}
  BY <1>0 DEF TakeResponse, Pop
<1>4. CASE r \notin requests
  <2>1. UNCHANGED <<requests, goals, sent, tasks, heard, client>>
    BY <1>0, <1>3, <1>4 DEF TakeResponse, KeepGoal
  <2> QED
    BY <1>1, <2>1, OnceKept
<1>5. CASE r \in requests
  <2>1. Quiet(r) /\ r \in sent
    BY <1>5 DEF Once, KeptAreQuiet
  <2>2. tasks' = tasks \cup {<<r, answer[r]>>}
    BY <1>0, <1>5 DEF TakeResponse
  <2>3. About(r)' = {<<r, answer[r]>>} /\ \A n : n # r => About(n)' = About(n)
    <3>1. About(r)' = About(r) \cup {<<r, answer[r]>>}
      BY <2>2 DEF About
    <3>2. ASSUME NEW n, n # r PROVE About(n)' = About(n)
      BY <2>2, <3>2 DEF About
    <3> QED
      BY <2>1, <3>1, <3>2 DEF Quiet
  <2>4. (\A n : n # r => (Quiet(n)' <=> Quiet(n))) /\ ~ Quiet(r)'
    BY <1>3, <2>3 DEF Quiet
  <2>5. FeedbackWaits'
    <3>1. ASSUME NEW n \in Elements(queue["feedback"])
          PROVE  n \in sent /\ Quiet(n)'
      <4>1. n # r
        BY <1>1, <1>2 DEF TypeInv, QueuesHold
      <4> QED
        BY <4>1, <2>4 DEF Once, FeedbackWaits
    <3> QED
      BY <3>1, <1>1, <1>3 DEF Once, FeedbackWaits, Quiet, About
  <2>6. KeptAreQuiet'
    <3>1. \A n \in Messages \ sent : Quiet(n)'
      BY <2>1, <2>4 DEF Once, KeptAreQuiet
    <3>2. \A n \in requests \ {r} : n \in sent /\ Quiet(n)'
      BY <2>4 DEF Once, KeptAreQuiet
    <3> QED
      BY <3>1, <3>2, <1>3 DEF KeptAreQuiet, Quiet, About
  <2>7. CalledBackOnce'
    <3>1. ASSUME NEW n \in Messages
          PROVE  /\ Len(heard[n]) <= 1
                 /\ About(n)' # {} => heard[n] = <<>>
                 /\ \A s, u \in About(n)' : s = u
      <4>1. CASE n = r
        BY <2>1, <2>3, <4>1 DEF Once, CalledBackOnce, Quiet
      <4>2. CASE n # r
        BY <2>3, <4>2 DEF Once, CalledBackOnce
      <4> QED
        BY <4>1, <4>2
    <3> QED
      BY <3>1, <1>3 DEF CalledBackOnce, About
  <2>8. NothingForgotten'
    <3>1. ASSUME client = "up", NEW n \in sent \cap Reqs
          PROVE  n \in requests \ {r} <=> Quiet(n)'
      <4>1. n \in requests <=> Quiet(n)
        BY <3>1 DEF Once, NothingForgotten, Quiet
      <4>2. CASE n = r
        BY <2>4, <4>2
      <4>3. CASE n # r
        BY <2>4, <4>1, <4>3
      <4> QED
        BY <4>2, <4>3
    <3> QED
      BY <3>1, <1>3 DEF NothingForgotten, Quiet, About
  <2>9. AcceptedGoalsAreKnown'
    <3>1. CASE r \in GoalReqs /\ answer[r] = "accepted"
      <4>1. goals' = [goals EXCEPT ![GoalOf[r]] = r] /\ goals \in [Goals -> GoalReqs \cup {NoReq}] /\ GoalOf[r] \in Goals
            /\ r # NoReq
        BY <1>0, <1>2, <1>5, <3>1, RequestsAssumption DEF TakeResponse, KeepGoal, TypeInv, TypeOK, Messages, Reqs
      <4>2. ASSUME client = "up", NEW g \in Goals
            PROVE  goals'[g] # NoReq <=>
                     \E q \in GoalReqs : GoalOf[q] = g /\ (<<q, "accepted">> \in tasks' \/ heard[q] = <<"accepted">>)
        <5>1. CASE g = GoalOf[r]
          BY <2>2, <3>1, <4>1, <5>1
        <5>2. CASE g # GoalOf[r]
          <6>1. goals'[g] = goals[g]
            BY <4>1, <5>2
          <6>2. \A q \in GoalReqs : GoalOf[q] = g => (<<q, "accepted">> \in tasks' <=> <<q, "accepted">> \in tasks)
            BY <2>2, <5>2
          <6> QED
            BY <4>2, <6>1, <6>2 DEF Once, AcceptedGoalsAreKnown
        <5> QED
          BY <5>1, <5>2
      <4> QED
        BY <4>2, <1>3 DEF AcceptedGoalsAreKnown
    <3>2. CASE ~ (r \in GoalReqs /\ answer[r] = "accepted")
      <4>1. goals' = goals
        BY <1>0, <1>2, <3>2 DEF TakeResponse, KeepGoal
      <4>2. \A q \in GoalReqs : <<q, "accepted">> \in tasks' <=> <<q, "accepted">> \in tasks
        BY <2>2, <3>2
      <4> QED
        BY <4>1, <4>2, <1>3 DEF Once, AcceptedGoalsAreKnown
    <3> QED
      BY <3>1, <3>2
  <2> QED
    BY <2>5, <2>6, <2>7, <2>8, <2>9 DEF Once
<1> QED
  BY <1>4, <1>5

\* Feedback is out of its queue as it starts its callback.
LEMMA FeedbackOnce ==
  ASSUME TypeInv, Once, TakeFeedback
  PROVE  Once'
<1>0. PICK f, q : f = Head(queue["feedback"]) /\ q = goals[FeedbackOf[f]]
  OBVIOUS
<1>1. /\ "feedback" \in Kinds /\ f \in Elements(queue["feedback"]) /\ f \in Messages /\ Kind(f) = "feedback"
      /\ Elements(queue'["feedback"]) \subseteq Elements(queue["feedback"])
      /\ Distinct(queue'["feedback"]) /\ f \notin Elements(queue'["feedback"])
  <2>1. "feedback" \in Kinds
    BY DEF Kinds
  <2>2. TakeFirst("feedback") /\ TypeOK /\ Distinct(queue["feedback"])
    BY DEF TakeFeedback, TypeInv, Once, FeedbackWaits
  <2>3. Kind(f) = "feedback"
    BY <1>0, <2>1, <2>2, TakeHolds DEF TypeInv, QueuesHold
  <2> QED
    BY <1>0, <2>1, <2>2, <2>3, TakeHolds
<1>2. f \notin Reqs /\ Quiet(f) /\ f \in sent
  BY <1>1, KindsApart DEF Once, FeedbackWaits
<1>3. UNCHANGED <<client, requests, goals, sent, heard>> /\ tasks' \in {tasks, tasks \cup {<<f, q>>}}
  BY <1>0 DEF TakeFeedback
<1>4. \A n : n # f => About(n)' = About(n)
  BY <1>3 DEF About
<1>5. About(f)' \subseteq {<<f, q>>}
  BY <1>2, <1>3 DEF About, Quiet
<1>6. \A n : n # f => (Quiet(n)' <=> Quiet(n))
  BY <1>3, <1>4 DEF Quiet
<1>7. FeedbackWaits'
  <2>1. \A n \in Elements(queue'["feedback"]) : n \in sent /\ Quiet(n)'
    BY <1>1, <1>6 DEF Once, FeedbackWaits
  <2> QED
    BY <2>1, <1>1, <1>3 DEF FeedbackWaits, Quiet, About
<1>8. KeptAreQuiet'
  <2>1. \A n \in Messages \ sent : Quiet(n)'
    BY <1>2, <1>6 DEF Once, KeptAreQuiet
  <2>2. \A n \in requests : n \in sent /\ Quiet(n)'
    BY <1>2, <1>6 DEF Once, KeptAreQuiet, TypeInv, TypeOK
  <2> QED
    BY <2>1, <2>2, <1>3 DEF KeptAreQuiet, Quiet, About
<1>9. CalledBackOnce'
  <2>1. ASSUME NEW n \in Messages
        PROVE  /\ Len(heard[n]) <= 1
               /\ About(n)' # {} => heard[n] = <<>>
               /\ \A s, u \in About(n)' : s = u
    <3>1. CASE n = f
      BY <1>2, <1>5, <3>1 DEF Once, CalledBackOnce, Quiet
    <3>2. CASE n # f
      BY <1>4, <3>2 DEF Once, CalledBackOnce
    <3> QED
      BY <3>1, <3>2
  <2> QED
    BY <2>1, <1>3 DEF CalledBackOnce, About
<1>10. NothingForgotten'
  <2>1. ASSUME client = "up", NEW n \in sent \cap Reqs PROVE n \in requests <=> Quiet(n)'
    BY <1>2, <1>6, <2>1 DEF Once, NothingForgotten, Quiet
  <2> QED
    BY <2>1, <1>3 DEF NothingForgotten, Quiet, About
<1>11. AcceptedGoalsAreKnown'
  <2>1. \A n \in GoalReqs : <<n, "accepted">> \in tasks' <=> <<n, "accepted">> \in tasks
    BY <1>2, <1>3 DEF Reqs
  <2> QED
    BY <2>1, <1>3 DEF Once, AcceptedGoalsAreKnown
<1> QED
  BY <1>7, <1>8, <1>9, <1>10, <1>11 DEF Once

\* A request that expires has not called back; the server that ends keeps none.
LEMMA ExpiryOnce ==
  ASSUME TypeInv, Once, NEW r \in requests, tasks' = tasks, sent' = sent, queue' = queue,
         heard' = [heard EXCEPT ![r] = Append(@, "expired")],
         \/ requests' = requests \ {r} /\ UNCHANGED <<client, goals>>
         \/ requests' = {} /\ client' # "up"
  PROVE  Once'
<1>1. Quiet(r) /\ r \in sent /\ r \in Reqs /\ r \in Messages
  BY DEF Once, KeptAreQuiet, TypeInv, TypeOK, Messages
<1>2. heard'[r] = <<"expired">> /\ \A n \in Messages : n # r => heard'[n] = heard[n]
  BY <1>1 DEF TypeInv, TypeOK, Quiet
<1>3. \A n : About(n)' = About(n)
  BY DEF About
<1>4. (\A n \in Messages : n # r => (Quiet(n)' <=> Quiet(n))) /\ ~ Quiet(r)'
  BY <1>2, <1>3 DEF Quiet
<1>5. FeedbackWaits'
  <2>1. ASSUME NEW n \in Elements(queue["feedback"]) PROVE n \in sent /\ Quiet(n)'
    <3>1. n \in Messages /\ Kind(n) = "feedback"
      BY DEF TypeInv, TypeOK, QueuesHold, Kinds, Elements
    <3>2. n # r
      BY <1>1, <3>1, KindsApart
    <3> QED
      BY <1>4, <3>1, <3>2 DEF Once, FeedbackWaits
  <2> QED
    BY <2>1 DEF Once, FeedbackWaits, Quiet, About
<1>6. KeptAreQuiet'
  <2>1. \A n \in Messages \ sent : Quiet(n)'
    BY <1>1, <1>4 DEF Once, KeptAreQuiet
  <2>2. \A n \in requests' : n \in sent /\ Quiet(n)'
    BY <1>4 DEF Once, KeptAreQuiet, TypeInv, TypeOK, Messages
  <2> QED
    BY <2>1, <2>2 DEF KeptAreQuiet, Quiet, About
<1>7. CalledBackOnce'
  <2>1. Len(<<"expired">>) <= 1
    OBVIOUS
  <2>2. ASSUME NEW n \in Messages
        PROVE  /\ Len(heard'[n]) <= 1
               /\ About(n)' # {} => heard'[n] = <<>>
               /\ \A s, u \in About(n)' : s = u
    <3>1. CASE n = r
      BY <1>1, <1>2, <1>3, <2>1, <3>1 DEF Quiet
    <3>2. CASE n # r
      BY <1>2, <1>3, <3>2 DEF Once, CalledBackOnce
    <3> QED
      BY <3>1, <3>2
  <2> QED
    BY <2>2 DEF CalledBackOnce, About
<1>8. NothingForgotten'
  <2>1. ASSUME client' = "up", NEW n \in sent \cap Reqs PROVE n \in requests' <=> Quiet(n)'
    <3>1. requests' = requests \ {r} /\ client = "up" /\ n \in Messages
      BY <2>1 DEF Messages
    <3>2. n \in requests <=> Quiet(n)
      BY <3>1 DEF Once, NothingForgotten, Quiet
    <3>3. CASE n = r
      BY <1>4, <3>1, <3>3
    <3>4. CASE n # r
      BY <1>4, <3>1, <3>2, <3>4
    <3> QED
      BY <3>3, <3>4
  <2> QED
    BY <2>1 DEF NothingForgotten, Quiet, About
<1>9. AcceptedGoalsAreKnown'
  <2>1. <<"expired">> # <<"accepted">>
    OBVIOUS
  <2>2. \A n \in GoalReqs : heard'[n] = <<"accepted">> <=> heard[n] = <<"accepted">>
    BY <1>1, <1>2, <2>1 DEF Quiet, Messages, Reqs
  <2> QED
    BY <2>2 DEF Once, AcceptedGoalsAreKnown
<1> QED
  BY <1>5, <1>6, <1>7, <1>8, <1>9 DEF Once

\* The server ends by itself.
LEMMA StopOnce ==
  ASSUME TypeInv, Once, Stop
  PROVE  Once'
<1>1. UNCHANGED <<sent, queue, tasks, heard>> /\ requests' = {} /\ client' # "up"
  BY DEF Stop, Down
<1>2. FeedbackWaits' /\ KeptAreQuiet'
  BY <1>1 DEF Once, FeedbackWaits, KeptAreQuiet, Quiet, About
<1>3. CalledBackOnce' /\ NothingForgotten' /\ AcceptedGoalsAreKnown'
  BY <1>1 DEF Once, CalledBackOnce, NothingForgotten, AcceptedGoalsAreKnown, About
<1> QED
  BY <1>2, <1>3 DEF Once

LEMMA OnceStep == TypeInv /\ Once /\ [Next]_vars => Once'
<1> SUFFICES ASSUME TypeInv, Once, [Next]_vars PROVE Once'
  OBVIOUS
<1>1. ASSUME NEW r \in Reqs, Request(r) PROVE Once'
  BY <1>1, RequestOnce
<1>2. ASSUME NEW r \in Reqs, NEW a \in Answers(r), ServerAnswers(r, a) PROVE Once'
  <2>1. Kind(r) \in Kinds /\ Kind(r) # "feedback" /\ "feedback" \in Kinds /\ r \in Messages
    BY KindsApart DEF Messages, Kinds
  <2>2. queue'["feedback"] = queue["feedback"]
    BY <1>2, <2>1, EnqueueHolds DEF ServerAnswers, TypeInv
  <2> QED
    BY <1>2, <2>2, OnceKept DEF ServerAnswers
<1>3. ASSUME NEW f \in Feedbacks, ServerPublishes(f) PROVE Once'
  BY <1>3, PublishOnce
<1>4. ASSUME NEW k \in Kinds, Notify(k) \/ StartBatch(k) \/ TakeFails(k) PROVE Once'
  BY <1>4, OnceKept DEF Notify, StartBatch, TakeFails
<1>5. ASSUME NEW r \in Reqs, TimerFires(r) \/ ExpireAnswered(r) PROVE Once'
  BY <1>5, OnceKept DEF TimerFires, ExpireAnswered
<1>6. ASSUME NEW t \in tasks, RunTask(t) PROVE Once'
  BY <1>6, RunOnce
<1>7. ASSUME NEW k \in Kinds, TakeResponse(k) PROVE Once'
  BY <1>7, ResponseOnce
<1>8. CASE TakeFeedback
  BY <1>8, FeedbackOnce
<1>9. ASSUME NEW r \in Reqs, Expire(r) PROVE Once'
  BY <1>9, ExpiryOnce DEF Expire
<1>10. ASSUME NEW r \in Reqs, ExpireCrashes(r) PROVE Once'
  BY <1>10, ExpiryOnce DEF ExpireCrashes, Down
<1>11. CASE Stop
  BY <1>11, StopOnce
<1>12. CASE UNCHANGED vars
  BY <1>12, OnceKept DEF vars
<1> QED
  BY <1>1, <1>2, <1>3, <1>4, <1>5, <1>6, <1>7, <1>8, <1>9, <1>10, <1>11, <1>12 DEF Next, Handlers

-----------------------------------------------------------------------------
(* The theorems. *)

LEMMA Always == Spec => []IInv
<1>1. Init => IInv
  BY InitIInv
<1>2. IInv /\ [Next]_vars => IInv'
  <2> SUFFICES ASSUME IInv, [Next]_vars PROVE IInv'
    OBVIOUS
  <2>1. TypeInv /\ Once
    BY DEF IInv, Once
  <2>2. TypeInv' /\ Once'
    BY <2>1, TypeStep, OnceStep
  <2> QED
    BY <2>2 DEF IInv, Once
<1> QED
  BY <1>1, <1>2, PTL DEF Spec

\* For any number of requests and any depth of the queues, every request and every message of
\* feedback calls back at most once, by its response or by its expiry whatever their order.
THEOREM OneCallback == Spec => []CalledBackOnce
BY Always, PTL DEF IInv

\* While the client lives, a request is kept exactly as long as it has not called back: no handler
\* drops one.
THEOREM NoneForgotten == Spec => []NothingForgotten
BY Always, PTL DEF IInv

\* The client keeps the feedback callback of exactly the goals whose acceptance it has reported or
\* is about to.
THEOREM AcceptedAreKept == Spec => []AcceptedGoalsAreKnown
BY Always, PTL DEF IInv
=============================================================================
