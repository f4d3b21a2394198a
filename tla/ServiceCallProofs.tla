-------------------------- MODULE ServiceCallProofs --------------------------
(***************************************************************************)
(* A call of Rclex.Client ends with the response to its own request, once, *)
(* and its entry is dropped: for any processes, any requests, any depth of *)
(* the queues, whoever ends.                                               *)
(*                                                                         *)
(* The client handles the call of a request once, so that a request whose  *)
(* response was handed on (Map.pop) is never kept again.  What lies in a   *)
(* queue never exceeds what is announced: a message adds one to what is    *)
(* announced and at most one to the queue, an event of n becomes n takes   *)
(* that a handler has left, and a take that finds nothing finds the queue  *)
(* empty.  The sums are a recursive function; its laws follow from the     *)
(* least index at which they would fail.                                   *)
(***************************************************************************)
EXTENDS ServiceCall, FiniteSetTheorems, SequenceTheorems, WellFoundedInduction, TLAPS

Elements(s) == {s[i] : i \in 1 .. Len(s)}
AtMostOnce(x, s) == \A i, j \in 1 .. Len(s) : s[i] = x /\ s[j] = x => i = j

MailboxMessages ==
  {Call(r) : r \in Requests} \cup {RemovePending(r) : r \in Sync} \cup {News(n) : n \in Nat}

Typed ==
  /\ client \in {"up", "stopped"} /\ pending \subseteq Requests /\ mailbox \in Seq(MailboxMessages) /\ newResponses \in Nat
  /\ phase \in [Requests -> Phases] /\ heard \in [Requests -> Seq(Requests)]
  /\ inbox \subseteq {<<r, r>> : r \in Sync} /\ callbacks \subseteq {<<r, r>> : r \in Async}

CallWaits(r) == Call(r) \in Elements(mailbox)
Delivered(r) == <<r, r>> \in inbox \/ <<r, r>> \in callbacks

\* Where a request is: not made, in the mailbox, kept, or handed on.
Progress ==
  \A r \in Requests :
    /\ phase[r] = "new" => ~ CallWaits(r) /\ r \notin pending /\ ~ Delivered(r)
    /\ CallWaits(r) => /\ phase[r] \in {"calling", "killed"} /\ AtMostOnce(Call(r), mailbox)
                       /\ r \notin pending /\ ~ Delivered(r)
    /\ r \in pending => ~ Delivered(r)
    /\ r \in Async /\ (r \in pending \/ CallWaits(r) \/ Delivered(r)) => heard[r] = <<>>

\* A blocking call that has heard is over; nobody heard before asking.
HeardIsOver ==
  \A r \in Requests :
    /\ heard[r] # <<>> => phase[r] = "answered"
    /\ heard[r] \in {<<>>, <<r>>}

\* An entry of the client is one of a call that waits or whose remove_pending is on its way.
EntriesEnd ==
  /\ \A r \in pending \cap Sync : phase[r] \in {"waiting", "killed"} \/ RemovePending(r) \in Elements(mailbox)
  /\ client = "stopped" => pending = {} /\ mailbox = <<>>

IInv == Typed /\ Progress /\ HeardIsOver /\ EntriesEnd

-----------------------------------------------------------------------------
(* The mailbox. *)

LEMMA AppendHolds ==
  ASSUME NEW S, NEW s \in Seq(S), NEW m \in S
  PROVE  /\ Append(s, m) \in Seq(S)
         /\ Elements(Append(s, m)) = Elements(s) \cup {m}
         /\ \A x : AtMostOnce(x, s) /\ (x # m \/ x \notin Elements(s)) => AtMostOnce(x, Append(s, m))
<1>1. /\ Append(s, m) \in Seq(S) /\ Len(Append(s, m)) = Len(s) + 1 /\ Len(s) \in Nat
      /\ \A i \in 1 .. Len(s) + 1 : Append(s, m)[i] = IF i = Len(s) + 1 THEN m ELSE s[i]
  OBVIOUS
<1>2. Elements(Append(s, m)) = Elements(s) \cup {m}
  BY <1>1 DEF Elements
<1>3. ASSUME NEW x, AtMostOnce(x, s), x # m \/ x \notin Elements(s) PROVE AtMostOnce(x, Append(s, m))
  BY <1>1, <1>3 DEF Elements, AtMostOnce
<1> QED
  BY <1>1, <1>2, <1>3

LEMMA TailHolds ==
  ASSUME NEW S, NEW s \in Seq(S), s # <<>>
  PROVE  /\ Head(s) \in S /\ Tail(s) \in Seq(S)
         /\ Elements(s) = Elements(Tail(s)) \cup {Head(s)}
         /\ \A x : AtMostOnce(x, s) => AtMostOnce(x, Tail(s)) /\ (x = Head(s) => x \notin Elements(Tail(s)))
<1>1. /\ Tail(s) \in Seq(S) /\ Len(Tail(s)) = Len(s) - 1 /\ Len(s) \in Nat \ {0} /\ Head(s) = s[1]
      /\ \A i \in 1 .. Len(s) - 1 : Tail(s)[i] = s[i + 1]
  OBVIOUS
<1>2. Head(s) \in S
  BY <1>1
<1>3. Elements(Tail(s)) \cup {Head(s)} \subseteq Elements(s)
  BY <1>1 DEF Elements
<1>4. ASSUME NEW x \in Elements(s) PROVE x \in Elements(Tail(s)) \cup {Head(s)}
  <2>1. PICK i \in 1 .. Len(s) : x = s[i]
    BY DEF Elements
  <2>2. CASE i = 1
    BY <1>1, <2>1, <2>2
  <2>3. CASE i # 1
    <3>1. i - 1 \in 1 .. Len(Tail(s)) /\ Tail(s)[i - 1] = x
      BY <1>1, <2>1, <2>3
    <3> QED
      BY <3>1 DEF Elements
  <2> QED
    BY <2>2, <2>3
<1>5. ASSUME NEW x, AtMostOnce(x, s) PROVE AtMostOnce(x, Tail(s))
  BY <1>1, <1>5 DEF AtMostOnce
<1>6. ASSUME NEW x, AtMostOnce(x, s), x = Head(s) PROVE x \notin Elements(Tail(s))
  BY <1>1, <1>6 DEF AtMostOnce, Elements
<1> QED
  BY <1>1, <1>2, <1>3, <1>4, <1>5, <1>6

\* The messages of the mailbox are told apart by what they say.
LEMMA MessagesApart ==
  /\ \A r, s : /\ Call(r) = Call(s) <=> r = s
               /\ RemovePending(r) = RemovePending(s) <=> r = s
               /\ Call(r) # RemovePending(s) /\ \A n : Call(r) # News(n) /\ RemovePending(r) # News(n)
  /\ \A m \in MailboxMessages :
       /\ m.is = "call" => m.of \in Requests /\ m = Call(m.of)
       /\ m.is = "remove" => m.of \in Sync /\ m = RemovePending(m.of)
       /\ m.is = "new_response" => \E n \in Nat : m = News(n)
BY DEF MailboxMessages, Call, RemovePending, News

LEMMA HandlesHolds ==
  ASSUME Typed, NEW is, Handles(is), NEW m, m = Head(mailbox)
  PROVE  /\ m \in MailboxMessages /\ m.is = is /\ client = "up" /\ mailbox' \in Seq(MailboxMessages)
         /\ Elements(mailbox) = Elements(mailbox') \cup {m}
         /\ \A x : AtMostOnce(x, mailbox) => AtMostOnce(x, mailbox') /\ (x = m => x \notin Elements(mailbox'))
BY TailHolds DEF Typed, Handles

-----------------------------------------------------------------------------
(* The inductive invariant. *)

LEMMA InitIInv == Init => IInv
<1> SUFFICES ASSUME Init PROVE IInv
  OBVIOUS
<1>1. Elements(<<>>) = {} /\ <<>> \in Seq(MailboxMessages) /\ <<>> \in Seq(Requests)
  BY DEF Elements
<1>2. Typed
  BY <1>1 DEF Init, Typed, Phases
<1>3. Progress /\ HeardIsOver /\ EntriesEnd
  BY <1>1 DEF Init, Progress, CallWaits, Delivered, HeardIsOver, EntriesEnd
<1> QED
  BY <1>2, <1>3 DEF IInv

\* A step of the service, or one that only counts responses.
LEMMA Elsewhere ==
  ASSUME IInv, UNCHANGED <<client, pending, mailbox, callerVars>>, newResponses' \in Nat
  PROVE  IInv'
<1>1. Typed'
  BY DEF IInv, Typed, callerVars
<1>2. Progress'
  BY DEF IInv, Progress, CallWaits, Delivered, callerVars
<1>3. HeardIsOver' /\ EntriesEnd'
  BY DEF IInv, HeardIsOver, EntriesEnd, callerVars
<1> QED
  BY <1>1, <1>2, <1>3 DEF IInv

LEMMA AskHolds ==
  ASSUME IInv, NEW r \in Requests, Ask(r)
  PROVE  IInv'
<1>1. /\ phase[r] = "new" /\ UNCHANGED <<client, pending, newResponses, inbox, callbacks, heard>>
      /\ phase \in [Requests -> Phases] /\ mailbox \in Seq(MailboxMessages) /\ Typed
  BY DEF Ask, IInv, Typed
<1>2. CASE client = "up"
  <2>1. phase' = [phase EXCEPT ![r] = "calling"] /\ mailbox' = Append(mailbox, Call(r))
    BY <1>2 DEF Ask
  <2>2. Call(r) \in MailboxMessages /\ Call(r) \notin Elements(mailbox)
    BY <1>1 DEF MailboxMessages, IInv, Progress, CallWaits
  <2>3. /\ mailbox' \in Seq(MailboxMessages) /\ Elements(mailbox') = Elements(mailbox) \cup {Call(r)}
        /\ \A x : AtMostOnce(x, mailbox) /\ (x # Call(r) \/ x \notin Elements(mailbox)) => AtMostOnce(x, mailbox')
    BY <1>1, <2>1, <2>2, AppendHolds
  <2>4. AtMostOnce(Call(r), mailbox)
    BY <2>2 DEF AtMostOnce, Elements
  <2>5. Typed'
    BY <1>1, <2>1, <2>3 DEF Typed, Phases
  <2>6. Progress'
    <3>1. ASSUME NEW s \in Requests, s # r
          PROVE  /\ phase'[s] = phase[s] /\ (Call(s) \in Elements(mailbox') <=> Call(s) \in Elements(mailbox))
                 /\ AtMostOnce(Call(s), mailbox) => AtMostOnce(Call(s), mailbox')
      BY <1>1, <2>1, <2>3, <3>1, MessagesApart
    <3>2. phase'[r] = "calling" /\ AtMostOnce(Call(r), mailbox')
      BY <1>1, <2>1, <2>2, <2>3, <2>4
    <3>3. heard[r] = <<>>
      BY <1>1 DEF IInv, HeardIsOver
    <3> QED
      BY <1>1, <3>1, <3>2, <3>3 DEF IInv, Progress, CallWaits, Delivered
  <2>7. HeardIsOver' /\ EntriesEnd'
    BY <1>1, <1>2, <2>1, <2>3 DEF IInv, HeardIsOver, EntriesEnd, Progress
  <2> QED
    BY <2>5, <2>6, <2>7 DEF IInv
<1>3. CASE client # "up"
  <2>1. phase' = [phase EXCEPT ![r] = "failed"] /\ mailbox' = mailbox
    BY <1>3 DEF Ask
  <2>2. Typed'
    BY <1>1, <2>1 DEF Typed, Phases
  <2>3. Progress'
    BY <1>1, <2>1 DEF IInv, Progress, CallWaits, Delivered
  <2>4. HeardIsOver' /\ EntriesEnd'
    BY <1>1, <2>1 DEF IInv, HeardIsOver, EntriesEnd, Progress
  <2> QED
    BY <2>2, <2>3, <2>4 DEF IInv
<1> QED
  BY <1>2, <1>3

LEMMA ReceiveHolds ==
  ASSUME IInv, NEW r \in Requests, Receive(r)
  PROVE  IInv'
<1>1. PICK m \in Mine(r) : inbox' = inbox \ {m} /\ heard' = [heard EXCEPT ![r] = Append(@, m[2])]
  BY DEF Receive
<1>2. m = <<r, r>> /\ m \in inbox
  BY DEF Mine, IInv, Typed
<1>3. /\ phase' = [phase EXCEPT ![r] = "answered"] /\ phase[r] = "waiting" /\ r \in Sync
      /\ UNCHANGED <<client, pending, mailbox, newResponses, callbacks>>
  BY DEF Receive, clientVars
<1>4. heard[r] = <<>> /\ r \notin pending /\ ~ CallWaits(r) /\ r \notin Async
  BY <1>2, <1>3, CallsAssumption DEF IInv, HeardIsOver, Progress, Delivered
<1>5. heard' = [heard EXCEPT ![r] = <<r>>]
  BY <1>1, <1>2, <1>4
<1>6. Typed'
  BY <1>1, <1>3, <1>5 DEF IInv, Typed, Phases
<1>7. Progress'
  BY <1>1, <1>2, <1>3, <1>4, <1>5 DEF IInv, Typed, Progress, CallWaits, Delivered
<1>8. HeardIsOver' /\ EntriesEnd'
  BY <1>3, <1>4, <1>5 DEF IInv, Typed, HeardIsOver, EntriesEnd
<1> QED
  BY <1>6, <1>7, <1>8 DEF IInv

LEMMA TimeoutHolds ==
  ASSUME IInv, NEW r \in Requests, Timeout(r)
  PROVE  IInv'
<1>1. /\ phase' = [phase EXCEPT ![r] = "timeout"] /\ phase[r] = "waiting" /\ r \in Sync
      /\ UNCHANGED <<client, pending, newResponses, inbox, callbacks, heard>> /\ Typed
  BY CallsAssumption DEF Timeout, IInv
<1>2. /\ mailbox' \in Seq(MailboxMessages) /\ Elements(mailbox) \subseteq Elements(mailbox')
      /\ Elements(mailbox') \subseteq Elements(mailbox) \cup {RemovePending(r)}
      /\ client = "up" => RemovePending(r) \in Elements(mailbox')
      /\ client # "up" => mailbox' = mailbox
      /\ \A s : AtMostOnce(Call(s), mailbox) => AtMostOnce(Call(s), mailbox')
  <2>1. CASE client = "up"
    <3>1. mailbox' = Append(mailbox, RemovePending(r)) /\ RemovePending(r) \in MailboxMessages
      BY <1>1, <2>1 DEF Timeout, MailboxMessages
    <3> QED
      BY <1>1, <2>1, <3>1, AppendHolds, MessagesApart DEF Typed
  <2>2. CASE client # "up"
    BY <1>1, <2>2 DEF Timeout, Typed
  <2> QED
    BY <2>1, <2>2
<1>3. \A s : CallWaits(s)' <=> CallWaits(s)
  BY <1>2, MessagesApart DEF CallWaits
<1>4. Typed'
  BY <1>1, <1>2 DEF Typed, Phases
<1>5. Progress'
  <2>1. ~ CallWaits(r)
    BY <1>1 DEF IInv, Progress
  <2> QED
    BY <1>1, <1>2, <1>3, <2>1 DEF IInv, Typed, Progress, Delivered
<1>6. HeardIsOver' /\ EntriesEnd'
  BY <1>1, <1>2 DEF IInv, Typed, HeardIsOver, EntriesEnd
<1> QED
  BY <1>4, <1>5, <1>6 DEF IInv

LEMMA KilledHolds ==
  ASSUME IInv, NEW p \in Procs, Killed(p)
  PROVE  IInv'
<1>1. /\ UNCHANGED <<client, pending, mailbox, newResponses, callbacks, heard>> /\ inbox' \subseteq inbox
      /\ phase' = [r \in Requests |-> IF r \in Sync /\ CallerOf[r] = p /\ phase[r] \in {"new", "calling", "waiting"}
                                        THEN "killed" ELSE phase[r]]
  BY DEF Killed, clientVars
<1>0. /\ phase' \in [Requests -> Phases]
      /\ \A r \in Requests :
           \/ phase'[r] = phase[r]
           \/ phase[r] \in {"new", "calling", "waiting"} /\ phase'[r] = "killed"
  BY <1>1 DEF IInv, Typed, Phases
<1>2. Typed'
  BY <1>0, <1>1 DEF IInv, Typed
<1>3. Progress'
  BY <1>0, <1>1 DEF IInv, Progress, CallWaits, Delivered
<1>4. HeardIsOver' /\ EntriesEnd'
  <2>1. HeardIsOver'
    BY <1>0, <1>1 DEF IInv, HeardIsOver
  <2>2. \A r \in pending \cap Sync : phase[r] \in {"waiting", "killed"} => phase'[r] \in {"waiting", "killed"}
    BY <1>0 DEF Requests
  <2> QED
    BY <1>1, <2>1, <2>2 DEF IInv, EntriesEnd
<1> QED
  BY <1>2, <1>3, <1>4 DEF IInv

LEMMA RunCallbackHolds ==
  ASSUME IInv, NEW t \in callbacks, RunCallback(t)
  PROVE  IInv'
<1>1. PICK r \in Async : t = <<r, r>>
  BY DEF IInv, Typed
<1>2. r \in Requests /\ r \notin Sync
  BY CallsAssumption DEF Requests
<1>3. heard[r] = <<>> /\ r \notin pending /\ ~ CallWaits(r)
  BY <1>1, <1>2 DEF IInv, Progress, Delivered
<1>4. /\ callbacks' = callbacks \ {<<r, r>>} /\ heard' = [heard EXCEPT ![r] = <<r>>]
      /\ phase' = [phase EXCEPT ![r] = "answered"] /\ UNCHANGED <<client, pending, mailbox, newResponses, inbox>>
  <2>1. /\ callbacks' = callbacks \ {<<r, r>>} /\ heard' = [heard EXCEPT ![r] = Append(@, r)]
        /\ phase' = [phase EXCEPT ![r] = "answered"] /\ UNCHANGED <<client, pending, mailbox, newResponses, inbox>>
    BY <1>1 DEF RunCallback, clientVars
  <2> QED
    BY <1>3, <2>1
<1>5. Typed'
  BY <1>2, <1>4 DEF IInv, Typed, Phases
<1>6. Progress'
  <2>1. <<r, r>> \notin inbox
    BY <1>2 DEF IInv, Typed
  <2> QED
    BY <1>2, <1>3, <1>4, <2>1 DEF IInv, Typed, Progress, CallWaits, Delivered
<1>7. HeardIsOver' /\ EntriesEnd'
  BY <1>2, <1>3, <1>4 DEF IInv, Typed, HeardIsOver, EntriesEnd
<1> QED
  BY <1>5, <1>6, <1>7 DEF IInv

\* The call leaves the mailbox for good as its request is kept.
LEMMA HandleCallHolds ==
  ASSUME IInv, HandleCall
  PROVE  IInv'
<1>0. PICK m, r : m = Head(mailbox) /\ r = m.of
  OBVIOUS
<1>1. /\ r \in Requests /\ m = Call(r) /\ client = "up" /\ mailbox' \in Seq(MailboxMessages)
      /\ Elements(mailbox) = Elements(mailbox') \cup {Call(r)}
      /\ \A x : AtMostOnce(x, mailbox) => AtMostOnce(x, mailbox') /\ (x = m => x \notin Elements(mailbox'))
  BY <1>0, HandlesHolds, MessagesApart DEF HandleCall, IInv
<1>2. /\ pending' = pending \cup {r} /\ phase' = [phase EXCEPT ![r] = IF @ = "calling" THEN "waiting" ELSE @]
      /\ UNCHANGED <<client, newResponses, inbox, callbacks, heard>>
  BY <1>0 DEF HandleCall
<1>3. /\ phase[r] \in {"calling", "killed"} /\ Call(r) \notin Elements(mailbox') /\ ~ Delivered(r) /\ r \notin pending
      /\ r \in Async => heard[r] = <<>>
  BY <1>1 DEF IInv, Progress, CallWaits
<1>4. Typed'
  BY <1>1, <1>2, <1>3 DEF IInv, Typed, Phases
<1>5. \A s \in Requests : s # r => (Call(s) \in Elements(mailbox') <=> Call(s) \in Elements(mailbox)) /\ phase'[s] = phase[s]
  BY <1>1, <1>2, MessagesApart DEF IInv, Typed
<1>6. phase'[r] \in {"waiting", "killed"}
  BY <1>1, <1>2, <1>3 DEF IInv, Typed
<1>7. Progress'
  <2>1. ASSUME NEW s \in Requests
        PROVE  /\ phase'[s] = "new" => Call(s) \notin Elements(mailbox') /\ s \notin pending' /\ ~ Delivered(s)
               /\ Call(s) \in Elements(mailbox') =>
                    /\ phase'[s] \in {"calling", "killed"} /\ AtMostOnce(Call(s), mailbox')
                    /\ s \notin pending' /\ ~ Delivered(s)
               /\ s \in pending' => ~ Delivered(s)
               /\ s \in Async /\ (s \in pending' \/ Call(s) \in Elements(mailbox') \/ Delivered(s)) => heard[s] = <<>>
    <3>1. CASE s = r
      BY <1>3, <1>6, <3>1
    <3>2. CASE s # r
      BY <1>1, <1>2, <1>5, <3>2 DEF IInv, Progress, CallWaits
    <3> QED
      BY <3>1, <3>2
  <2> QED
    BY <2>1, <1>2 DEF Progress, CallWaits, Delivered
<1>8. HeardIsOver'
  BY <1>2, <1>3, <1>5, <1>6 DEF IInv, HeardIsOver
<1>9. EntriesEnd'
  <2>1. \A s : RemovePending(s) \in Elements(mailbox') <=> RemovePending(s) \in Elements(mailbox)
    BY <1>1, MessagesApart
  <2>2. ASSUME NEW s \in pending' \cap Sync
        PROVE  phase'[s] \in {"waiting", "killed"} \/ RemovePending(s) \in Elements(mailbox')
    BY <1>2, <1>5, <1>6, <2>1 DEF IInv, EntriesEnd, Requests
  <2> QED
    BY <1>1, <1>2, <2>2 DEF EntriesEnd
<1> QED
  BY <1>4, <1>7, <1>8, <1>9 DEF IInv

LEMMA HandleRemoveHolds ==
  ASSUME IInv, HandleRemove
  PROVE  IInv'
<1>0. PICK m, r : m = Head(mailbox) /\ r = m.of
  OBVIOUS
<1>1. /\ r \in Sync /\ m = RemovePending(r) /\ client = "up" /\ mailbox' \in Seq(MailboxMessages)
      /\ Elements(mailbox) = Elements(mailbox') \cup {RemovePending(r)}
      /\ \A x : AtMostOnce(x, mailbox) => AtMostOnce(x, mailbox')
  BY <1>0, HandlesHolds, MessagesApart DEF HandleRemove, IInv
<1>2. /\ pending' = pending \ {r} /\ UNCHANGED <<client, newResponses, phase, inbox, callbacks, heard>>
  BY <1>0 DEF HandleRemove, callerVars
<1>3. \A s : /\ CallWaits(s)' <=> CallWaits(s)
             /\ s # r => (RemovePending(s) \in Elements(mailbox') <=> RemovePending(s) \in Elements(mailbox))
  BY <1>1, MessagesApart DEF CallWaits
<1>4. Typed'
  BY <1>1, <1>2 DEF IInv, Typed
<1>5. Progress'
  BY <1>1, <1>2, <1>3 DEF IInv, Progress, Delivered
<1>6. HeardIsOver' /\ EntriesEnd'
  BY <1>1, <1>2, <1>3 DEF IInv, HeardIsOver, EntriesEnd
<1> QED
  BY <1>4, <1>5, <1>6 DEF IInv

LEMMA ClientNotifiedHolds ==
  ASSUME IInv, ClientNotified
  PROVE  IInv'
<1>1. /\ client = "up" /\ mailbox' = Append(mailbox, News(newResponses)) /\ newResponses' = 0
      /\ UNCHANGED <<client, pending, phase, inbox, callbacks, heard>>
      /\ News(newResponses) \in MailboxMessages /\ mailbox \in Seq(MailboxMessages)
  BY DEF ClientNotified, callerVars, MailboxMessages, IInv, Typed
<1>2. /\ mailbox' \in Seq(MailboxMessages) /\ Elements(mailbox') = Elements(mailbox) \cup {News(newResponses)}
      /\ \A s : AtMostOnce(Call(s), mailbox) => AtMostOnce(Call(s), mailbox')
  BY <1>1, AppendHolds, MessagesApart
<1>3. \A s : CallWaits(s)' <=> CallWaits(s)
  BY <1>2, MessagesApart DEF CallWaits
<1>4. Typed'
  BY <1>1, <1>2 DEF IInv, Typed
<1>5. Progress'
  BY <1>1, <1>2, <1>3 DEF IInv, Progress, Delivered
<1>6. HeardIsOver' /\ EntriesEnd'
  BY <1>1, <1>2 DEF IInv, HeardIsOver, EntriesEnd
<1> QED
  BY <1>4, <1>5, <1>6 DEF IInv

LEMMA HandleResponsesHolds ==
  ASSUME IInv, HandleResponses
  PROVE  IInv'
<1>0. PICK m : m = Head(mailbox)
  OBVIOUS
<1>1. Handles("new_response") /\ UNCHANGED <<client, pending, newResponses, phase, inbox, callbacks, heard>>
  BY DEF HandleResponses, callerVars
<1>2. /\ client = "up" /\ mailbox' \in Seq(MailboxMessages) /\ \E n \in Nat : m = News(n)
      /\ Elements(mailbox) = Elements(mailbox') \cup {m}
      /\ \A x : AtMostOnce(x, mailbox) => AtMostOnce(x, mailbox')
  BY <1>0, <1>1, HandlesHolds, MessagesApart DEF IInv
<1>3. \A s : /\ CallWaits(s)' <=> CallWaits(s)
             /\ RemovePending(s) \in Elements(mailbox') <=> RemovePending(s) \in Elements(mailbox)
  BY <1>2, MessagesApart DEF CallWaits
<1>4. Typed'
  BY <1>1, <1>2 DEF IInv, Typed
<1>5. Progress'
  BY <1>1, <1>2, <1>3 DEF IInv, Progress, Delivered
<1>6. HeardIsOver' /\ EntriesEnd'
  BY <1>1, <1>2, <1>3 DEF IInv, HeardIsOver, EntriesEnd
<1> QED
  BY <1>4, <1>5, <1>6 DEF IInv

\* What is handed on was kept and is no more.
LEMMA TakeResponseHolds ==
  ASSUME IInv, TakeResponse
  PROVE  IInv'
<1>0. PICK r : r = Head(responses)
  OBVIOUS
<1>1. /\ client = "up" /\ pending' = pending \ {r}
      /\ inbox' = inbox \cup {<<q, q>> : q \in {r} \cap pending \cap {s \in Sync : phase[s] # "killed"}}
      /\ callbacks' = callbacks \cup {<<q, q>> : q \in {r} \cap pending \cap Async}
      /\ UNCHANGED <<client, mailbox, newResponses, phase, heard>>
  BY <1>0 DEF TakeResponse
<1>2. Typed'
  BY <1>1 DEF IInv, Typed
<1>3. \A s \in Requests : Delivered(s)' => Delivered(s) \/ (s \in pending /\ s \notin pending')
  BY <1>1 DEF Delivered
<1>4. Progress'
  BY <1>1, <1>3 DEF IInv, Progress, CallWaits
<1>5. HeardIsOver' /\ EntriesEnd'
  BY <1>1 DEF IInv, HeardIsOver, EntriesEnd
<1> QED
  BY <1>2, <1>4, <1>5 DEF IInv

LEMMA ClientStopsHolds ==
  ASSUME IInv, ClientStops
  PROVE  IInv'
<1>1. /\ client' = "stopped" /\ pending' = {} /\ mailbox' = <<>> /\ newResponses' = 0
      /\ phase' = [r \in Requests |-> IF phase[r] = "calling" THEN "failed" ELSE phase[r]]
      /\ UNCHANGED <<inbox, callbacks, heard>>
  BY DEF ClientStops
<1>2. Elements(<<>>) = {} /\ <<>> \in Seq(MailboxMessages)
  BY DEF Elements
<1>3. Typed'
  BY <1>1, <1>2 DEF IInv, Typed, Phases
<1>4. Progress'
  BY <1>1, <1>2 DEF IInv, Progress, CallWaits, Delivered
<1>5. HeardIsOver' /\ EntriesEnd'
  BY <1>1 DEF IInv, HeardIsOver, EntriesEnd
<1> QED
  BY <1>3, <1>4, <1>5 DEF IInv

LEMMA Step == IInv /\ [Next]_vars => IInv'
<1> SUFFICES ASSUME IInv, [Next]_vars PROVE IInv'
  OBVIOUS
<1>1. ASSUME NEW r \in Requests, Ask(r) \/ Receive(r) \/ Timeout(r) PROVE IInv'
  BY <1>1, AskHolds, ReceiveHolds, TimeoutHolds
<1>2. ASSUME NEW r \in Requests, Responds(r) PROVE IInv'
  <2>1. newResponses' \in Nat /\ UNCHANGED <<client, pending, mailbox, callerVars>>
    BY <1>2 DEF Responds, Respond, IInv, Typed
  <2> QED
    BY <2>1, Elsewhere
<1>3. ASSUME NEW r \in Requests, CallbackRaises(r) PROVE IInv'
  BY <1>3, Elsewhere DEF CallbackRaises, clientVars, IInv, Typed
<1>4. ASSUME NEW p \in Procs, Killed(p) PROVE IInv'
  BY <1>4, KilledHolds
<1>5. ASSUME NEW t \in callbacks, RunCallback(t) PROVE IInv'
  BY <1>5, RunCallbackHolds
<1>6. CASE HandleCall
  BY <1>6, HandleCallHolds
<1>7. CASE HandleRemove \/ ClientNotified \/ HandleResponses \/ TakeResponse \/ ClientStops
  BY <1>7, HandleRemoveHolds, ClientNotifiedHolds, HandleResponsesHolds, TakeResponseHolds, ClientStopsHolds
<1>8. CASE ResponseTakeFails
  BY <1>8, Elsewhere DEF ResponseTakeFails, IInv, Typed
<1>10. CASE ServiceNotified \/ HandleRequests \/ TakeRequest \/ RequestTakeFails \/ ServiceStops
  BY <1>10, Elsewhere DEF ServiceNotified, HandleRequests, TakeRequest, RequestTakeFails, ServiceStops, clientVars,
       IInv, Typed
<1>9. CASE UNCHANGED vars
  BY <1>9, Elsewhere DEF vars, clientVars, IInv, Typed
<1> QED
  BY <1>1, <1>2, <1>3, <1>4, <1>5, <1>6, <1>7, <1>8, <1>9, <1>10 DEF Next

-----------------------------------------------------------------------------
(* What the events announce: sums of counts. *)

LEMMA Least ==
  ASSUME NEW S, S \subseteq Nat, S # {}
  PROVE  \E m \in S : \A j \in S : ~ (j < m)
<1>1. PICK m \in S : \A j \in S : ~ (<<j, m>> \in OpToRel(<, Nat))
  BY NatLessThanWellFounded, WFMin
<1> QED
  BY <1>1 DEF OpToRel

\* f gives the partial sums of the first n counts.
Sums(f, s, n) == f \in [0 .. n -> Nat] /\ f[0] = 0 /\ \A i \in 1 .. n : f[i] = f[i - 1] + s[i]

LEMMA SumsExist ==
  ASSUME NEW s \in Seq(Nat)
  PROVE  \E f : Sums(f, s, Len(s))
<1> DEFINE S == {n \in Nat : n <= Len(s) /\ ~ \E f : Sums(f, s, n)}
<1>1. SUFFICES ASSUME S # {} PROVE FALSE
  <2>1. ASSUME Len(s) \notin S PROVE \E f : Sums(f, s, Len(s))
    <3>1. Len(s) \in Nat /\ Len(s) <= Len(s)
      OBVIOUS
    <3> QED
      BY <2>1, <3>1, Zenon
  <2> QED
    BY <2>1, Zenon
<1>2. PICK n \in S : \A j \in S : ~ (j < n)
  BY <1>1, Least
<1>3. CASE n = 0
  <2>1. Sums([i \in 0 .. 0 |-> 0], s, 0)
    BY DEF Sums
  <2> QED
    BY <1>2, <1>3, <2>1
<1>4. CASE n # 0
  <2>0. n \in Nat /\ n <= Len(s)
    BY <1>2
  <2>1. n - 1 \in Nat /\ n - 1 < n /\ n - 1 <= Len(s) /\ n \in 1 .. Len(s) /\ s[n] \in Nat
    BY <1>4, <2>0
  <2>2. PICK f : Sums(f, s, n - 1)
    <3>1. n - 1 \notin S
      <4> HIDE DEF S
      <4> QED
        BY <1>2, <2>1
    <3> QED
      BY <2>1, <3>1, Zenon
  <2> DEFINE g == [i \in 0 .. n |-> IF i = n THEN f[n - 1] + s[n] ELSE f[i]]
  <2>3. /\ f \in [0 .. n - 1 -> Nat] /\ f[0] = 0
        /\ \A i \in 1 .. n - 1 : f[i] = f[i - 1] + s[i] /\ g[i - 1] = f[i - 1] /\ g[i] = f[i]
    <3>1. f \in [0 .. n - 1 -> Nat] /\ f[0] = 0 /\ \A i \in 1 .. n - 1 : f[i] = f[i - 1] + s[i]
      BY <2>2 DEF Sums
    <3>2. \A i \in 1 .. n - 1 : /\ i \in 0 .. n /\ i - 1 \in 0 .. n /\ i # n /\ i - 1 # n
      BY <2>1
    <3>3. \A i \in 1 .. n - 1 : g[i - 1] = f[i - 1] /\ g[i] = f[i]
      BY <3>2
    <3> HIDE DEF g
    <3> QED
      BY <3>1, <3>3
  <2>4. g[n] = g[n - 1] + s[n] /\ g[0] = 0
    BY <2>1, <2>3
  <2>5. g \in [0 .. n -> Nat]
    BY <2>1, <2>3
  <2>6. Sums(g, s, n)
    <3> HIDE DEF g
    <3>1. \A i \in 1 .. n : i = n \/ i \in 1 .. n - 1
      BY <2>1
    <3> QED
      BY <2>3, <2>4, <2>5, <3>1 DEF Sums
  <2> QED
    BY <1>2, <2>6
<1> QED
  BY <1>3, <1>4

\* The recursive definition is the last of the partial sums.
LEMMA SumIs ==
  ASSUME NEW s \in Seq(Nat), NEW f, Sums(f, s, Len(s))
  PROVE  Sum(s) = f[Len(s)]
<1> DEFINE g == CHOOSE h : h = [i \in 0 .. Len(s) |-> IF i = 0 THEN 0 ELSE h[i - 1] + s[i]]
<1>1. f = [i \in 0 .. Len(s) |-> IF i = 0 THEN 0 ELSE f[i - 1] + s[i]]
  BY DEF Sums
<1>2. g = [i \in 0 .. Len(s) |-> IF i = 0 THEN 0 ELSE g[i - 1] + s[i]]
  BY <1>1
<1>3. Sum(s) = g[Len(s)]
  BY DEF Sum
<1> HIDE DEF g
<1>4. g[0] = 0 /\ \A i \in 1 .. Len(s) : g[i] = g[i - 1] + s[i]
  BY <1>2
<1> DEFINE S == {i \in Nat : i <= Len(s) /\ g[i] # f[i]}
<1>5. S = {}
  <2>1. SUFFICES ASSUME S # {} PROVE FALSE
    OBVIOUS
  <2>2. PICK n \in S : \A j \in S : ~ (j < n)
    BY <2>1, Least
  <2>3. n # 0
    BY <1>4 DEF Sums
  <2>4. n - 1 \in Nat /\ n - 1 \notin S /\ n \in 1 .. Len(s)
    BY <2>2, <2>3
  <2>5. g[n - 1] = f[n - 1]
    BY <2>4
  <2> QED
    BY <1>4, <2>4, <2>5 DEF Sums
<1> QED
  BY <1>3, <1>5

LEMMA SumOfNone == Sum(<<>>) = 0
<1>1. Sums([i \in 0 .. 0 |-> 0], <<>>, Len(<<>>)) /\ <<>> \in Seq(Nat)
  BY DEF Sums
<1> QED
  BY <1>1, SumIs

LEMMA SumOfMore ==
  ASSUME NEW s \in Seq(Nat), NEW k \in Nat
  PROVE  Sum(s) \in Nat /\ Sum(Append(s, k)) = Sum(s) + k
<1>0. PICK t : t = Append(s, k)
  OBVIOUS
<1>2. /\ t \in Seq(Nat) /\ Len(t) = Len(s) + 1 /\ t[Len(s) + 1] = k /\ Len(s) \in Nat
      /\ \A i \in 1 .. Len(s) : t[i] = s[i]
  BY <1>0
<1>1. PICK f : Sums(f, t, Len(t))
  BY <1>2, SumsExist
<1>3. Sum(t) = f[Len(s) + 1] /\ f[Len(s) + 1] = f[Len(s)] + k /\ f[Len(s)] \in Nat
  <2>1. Sum(t) = f[Len(t)]
    BY <1>1, <1>2, SumIs
  <2>2. f[Len(t)] = f[Len(t) - 1] + t[Len(t)] /\ f[Len(s)] \in Nat
    BY <1>1, <1>2 DEF Sums
  <2> QED
    BY <1>2, <2>1, <2>2
<1> DEFINE g == [i \in 0 .. Len(s) |-> f[i]]
<1>4. Sums(g, s, Len(s))
  BY <1>1, <1>2 DEF Sums
<1>5. Sum(s) = f[Len(s)]
  <2> HIDE DEF g
  <2>1. Sum(s) = g[Len(s)]
    BY <1>4, SumIs
  <2> QED
    BY <1>2, <2>1 DEF g
<1> QED
  BY <1>0, <1>3, <1>5

LEMMA SumOfLess ==
  ASSUME NEW s \in Seq(Nat), s # <<>>
  PROVE  Head(s) \in Nat /\ Sum(Tail(s)) \in Nat /\ Sum(s) = Head(s) + Sum(Tail(s))
<1>1. PICK t : t = Tail(s)
  OBVIOUS
<1>3. /\ t \in Seq(Nat) /\ Len(t) = Len(s) - 1 /\ Len(s) \in Nat \ {0} /\ Head(s) = s[1] /\ s[1] \in Nat
      /\ \A i \in 1 .. Len(s) - 1 : t[i] = s[i + 1]
  BY <1>1
<1>2. PICK g : Sums(g, t, Len(t))
  BY <1>3, SumsExist
<1> DEFINE h == [i \in 0 .. Len(s) |-> IF i = 0 THEN 0 ELSE s[1] + g[i - 1]]
<1>4. Sums(h, s, Len(s))
  <2>1. h \in [0 .. Len(s) -> Nat] /\ h[0] = 0
    BY <1>2, <1>3 DEF Sums
  <2>2. ASSUME NEW i \in 1 .. Len(s) PROVE h[i] = h[i - 1] + s[i]
    <3>1. CASE i = 1
      BY <1>2, <1>3, <3>1 DEF Sums
    <3>2. CASE i # 1
      <4>0. i - 1 \in 1 .. Len(t) /\ i - 1 - 1 \in 0 .. Len(t) /\ i - 1 + 1 = i
        BY <1>3, <3>2
      <4>1. g[i - 1] = g[i - 1 - 1] + t[i - 1] /\ t[i - 1] = s[i]
        BY <1>2, <1>3, <4>0 DEF Sums
      <4>2. g[i - 1 - 1] \in Nat /\ s[i] \in Nat /\ g[i - 1] \in Nat
        <5>1. s[i] \in Nat
          OBVIOUS
        <5>2. i - 1 \in 0 .. Len(t)
          BY <1>3, <4>0
        <5>3. g \in [0 .. Len(t) -> Nat]
          BY <1>2 DEF Sums
        <5> QED
          BY <4>0, <5>1, <5>2, <5>3
      <4>3. h[i] = s[1] + g[i - 1] /\ h[i - 1] = s[1] + g[i - 1 - 1]
        BY <1>3, <3>2
      <4> HIDE DEF h
      <4> QED
        BY <1>3, <4>1, <4>2, <4>3
    <3> QED
      BY <3>1, <3>2
  <2> QED
    BY <2>1, <2>2 DEF Sums
<1>5. Sum(t) = g[Len(s) - 1] /\ g[Len(s) - 1] \in Nat
  <2>1. Sum(t) = g[Len(t)]
    BY <1>2, <1>3, SumIs
  <2>2. g[Len(t)] \in Nat
    <3>1. g \in [0 .. Len(t) -> Nat] /\ Len(t) \in 0 .. Len(t)
      BY <1>2, <1>3 DEF Sums
    <3> QED
      BY <3>1
  <2> QED
    BY <1>3, <2>1, <2>2
<1>6. Sum(s) = h[Len(s)]
  <2> HIDE DEF h
  <2> QED
    BY <1>4, SumIs
<1> QED
  BY <1>1, <1>3, <1>5, <1>6

-----------------------------------------------------------------------------
(* What lies in the queues is announced. *)

ToClient ==
  /\ responses \in Seq(Requests) /\ newResponses \in Nat /\ left \in Nat
  /\ Len(responses) <= newResponses + Sum(Counts) + left
ToService ==
  /\ requests \in Seq(Requests) /\ newRequests \in Nat /\ events \in Seq(Nat) /\ takes \in Nat
  /\ Len(requests) <= newRequests + Sum(events) + takes
Announced == ToClient /\ ToService

\* The counts of a mailbox that grows or is handled.
LEMMA CountsOf ==
  ASSUME Typed
  PROVE  /\ Counts \in Seq(Nat)
         /\ \A m \in MailboxMessages : mailbox' = Append(mailbox, m) => m.n \in Nat /\ Counts' = Append(Counts, m.n)
         /\ \A is : Handles(is) => Counts # <<>> /\ Head(Counts) = Head(mailbox).n /\ Counts' = Tail(Counts)
<1>1. \A m \in MailboxMessages : m.n \in Nat
  BY DEF MailboxMessages, Call, RemovePending, News
<1>2. mailbox \in Seq(MailboxMessages)
  BY DEF Typed
<1>3. Counts \in Seq(Nat) /\ Len(Counts) = Len(mailbox) /\ \A i \in 1 .. Len(mailbox) : Counts[i] = mailbox[i].n
  BY <1>1, <1>2 DEF Counts
<1>4. ASSUME NEW m \in MailboxMessages, mailbox' = Append(mailbox, m) PROVE Counts' = Append(Counts, m.n)
  <2>1. /\ Len(mailbox') = Len(mailbox) + 1 /\ DOMAIN mailbox' = 1 .. Len(mailbox) + 1
        /\ \A i \in 1 .. Len(mailbox) + 1 : mailbox'[i] = IF i = Len(mailbox) + 1 THEN m ELSE mailbox[i]
    BY <1>2, <1>4
  <2>2. Counts' = [i \in 1 .. Len(mailbox) + 1 |-> IF i = Len(mailbox) + 1 THEN m.n ELSE Counts[i]]
    BY <1>2, <1>3, <2>1 DEF Counts
  <2>3. m.n \in Nat
    BY <1>1
  <2> QED
    BY <1>3, <2>2, <2>3
<1>5. ASSUME NEW is, Handles(is) PROVE Counts # <<>> /\ Head(Counts) = Head(mailbox).n /\ Counts' = Tail(Counts)
  <2>1. mailbox # <<>> /\ mailbox' = Tail(mailbox)
    BY <1>5 DEF Handles
  <2>2. /\ Len(mailbox) \in Nat \ {0} /\ Head(mailbox) = mailbox[1] /\ DOMAIN mailbox' = 1 .. Len(mailbox) - 1
        /\ \A i \in 1 .. Len(mailbox) - 1 : mailbox'[i] = mailbox[i + 1]
    BY <1>2, <2>1
  <2>3. Counts' = [i \in 1 .. Len(mailbox) - 1 |-> Counts[i + 1]]
    BY <1>2, <1>3, <2>2 DEF Counts
  <2>4. PICK c, d : c = Counts /\ d = Counts'
    OBVIOUS
  <2>5. c \in Seq(Nat) /\ c # <<>> /\ Len(c) = Len(mailbox) /\ Head(c) = c[1] /\ c[1] = Head(mailbox).n
    BY <1>3, <2>2, <2>4
  <2>6. d \in Seq(Nat) /\ Len(d) = Len(c) - 1 /\ \A i \in 1 .. Len(c) - 1 : d[i] = c[i + 1]
    BY <2>2, <2>3, <2>4, <2>5
  <2>7. Tail(c) \in Seq(Nat) /\ Len(Tail(c)) = Len(c) - 1 /\ \A i \in 1 .. Len(Tail(c)) : Tail(c)[i] = c[i + 1]
    BY <2>5, HeadTailProperties
  <2>8. d = Tail(c)
    <3>1. PICK e : e = Tail(c)
      OBVIOUS
    <3>2. e \in Seq(Nat) /\ Len(d) = Len(e) /\ \A i \in 1 .. Len(d) : d[i] = e[i]
      BY <2>6, <2>7, <3>1
    <3> QED
      BY <2>6, <3>1, <3>2, SeqEqual
  <2> QED
    BY <2>4, <2>5, <2>8
<1> QED
  BY <1>1, <1>3, <1>4, <1>5

\* A full queue drops its oldest element: it grows by one at most.
LEMMA PushHolds ==
  ASSUME NEW q \in Seq(Requests), NEW r \in Requests
  PROVE  Push(q, r) \in Seq(Requests) /\ Len(Push(q, r)) <= Len(q) + 1
<1>1. CASE Len(q) < Depth
  BY <1>1 DEF Push
<1>2. CASE ~ (Len(q) < Depth)
  <2>1. q # <<>> /\ Tail(q) \in Seq(Requests) /\ Len(Tail(q)) = Len(q) - 1
    BY <1>2, CallsAssumption
  <2> QED
    BY <1>2, <2>1 DEF Push
<1> QED
  BY <1>1, <1>2

\* A take shortens its queue by one, or finds it empty.
LEMMA TakeHolds ==
  ASSUME NEW q \in Seq(Requests), NEW p, (q # <<>> /\ p = Tail(q)) \/ (q = <<>> /\ p = q)
  PROVE  /\ p \in Seq(Requests) /\ Len(q) \in Nat /\ Len(p) \in Nat
         /\ Len(p) = Len(q) - 1 \/ Len(p) = 0
<1>1. CASE q # <<>> /\ p = Tail(q)
  <2>1. Tail(q) \in Seq(Requests) /\ Len(Tail(q)) = Len(q) - 1 /\ Len(q) \in Nat
    BY <1>1
  <2> QED
    BY <1>1, <2>1, LenProperties
<1>2. CASE q = <<>> /\ p = q
  BY <1>2
<1> QED
  BY <1>1, <1>2

LEMMA InitAnnounced == Init => Announced
<1> SUFFICES ASSUME Init PROVE Announced
  OBVIOUS
<1>1. PICK c : c = Counts
  OBVIOUS
<1>2. c = <<>>
  BY <1>1 DEF Counts, Init
<1>3. Sum(Counts) = 0
  BY <1>1, <1>2, SumOfNone
<1> QED
  BY <1>3, SumOfNone DEF Init, Announced, ToClient, ToService

\* A message that is no event announces nothing.
LEMMA NoNews ==
  ASSUME Typed,
         \/ mailbox' = mailbox
         \/ \E m \in MailboxMessages : m.n = 0 /\ mailbox' = Append(mailbox, m)
         \/ \E is : Handles(is) /\ Head(mailbox).n = 0
  PROVE  Sum(Counts)' = Sum(Counts) /\ Sum(Counts) \in Nat
<1>1. PICK c, d : c = Counts /\ d = Counts'
  OBVIOUS
<1>2. c \in Seq(Nat) /\ (d = c \/ d = Append(c, 0) \/ (c # <<>> /\ Head(c) = 0 /\ d = Tail(c)))
  <2>1. c \in Seq(Nat)
    BY <1>1, CountsOf
  <2>2. CASE mailbox' = mailbox
    BY <1>1, <2>1, <2>2 DEF Counts
  <2>3. CASE \E m \in MailboxMessages : m.n = 0 /\ mailbox' = Append(mailbox, m)
    BY <1>1, <2>1, <2>3, CountsOf
  <2>4. CASE \E is : Handles(is) /\ Head(mailbox).n = 0
    BY <1>1, <2>1, <2>4, CountsOf
  <2> QED
    BY <2>2, <2>3, <2>4
<1>3. Sum(c) \in Nat
  BY <1>2, SumOfMore
<1>4. Sum(d) = Sum(c)
  <2>1. CASE d = Append(c, 0)
    BY <1>2, <1>3, <2>1, SumOfMore
  <2>2. CASE c # <<>> /\ Head(c) = 0 /\ d = Tail(c)
    BY <1>2, <1>3, <2>2, SumOfLess
  <2>3. CASE d = c
    BY <2>3
  <2> QED
    BY <1>2, <2>1, <2>2, <2>3
<1> QED
  BY <1>1, <1>3, <1>4 DEF Sum

\* Steps that leave the client's queue alone, and those that leave the service's alone.
LEMMA ClientUnmoved ==
  ASSUME Typed, ToClient, UNCHANGED <<responses, newResponses, left>>,
         \/ mailbox' = mailbox
         \/ \E m \in MailboxMessages : m.n = 0 /\ mailbox' = Append(mailbox, m)
         \/ \E is : Handles(is) /\ Head(mailbox).n = 0
  PROVE  ToClient'
BY NoNews DEF ToClient

LEMMA ServiceUnmoved ==
  ASSUME ToService, UNCHANGED <<requests, newRequests, events, takes>>
  PROVE  ToService'
BY DEF ToService, Sum

LEMMA AnnouncedKept ==
  ASSUME IInv, Announced, [Next]_vars
  PROVE  Announced'
<1>0. Typed /\ ToClient /\ ToService /\ Progress
  BY DEF IInv, Announced
<1>1. ASSUME NEW r \in Requests, Ask(r) PROVE Announced'
  <2>1. Call(r) \in MailboxMessages /\ Call(r).n = 0
    BY DEF MailboxMessages, Call
  <2>2. /\ mailbox' = mailbox \/ mailbox' = Append(mailbox, Call(r))
        /\ UNCHANGED <<responses, newResponses, left, requests, newRequests, events, takes>>
    BY <1>1 DEF Ask, serviceVars
  <2> QED
    BY <1>0, <2>1, <2>2, ClientUnmoved, ServiceUnmoved DEF Announced
<1>2. ASSUME NEW r \in Requests, Timeout(r) PROVE Announced'
  <2>1. RemovePending(r) \in MailboxMessages /\ RemovePending(r).n = 0
    BY <1>2, CallsAssumption DEF MailboxMessages, RemovePending, Timeout
  <2>2. /\ mailbox' = mailbox \/ mailbox' = Append(mailbox, RemovePending(r))
        /\ UNCHANGED <<responses, newResponses, left, requests, newRequests, events, takes>>
    BY <1>2 DEF Timeout, serviceVars
  <2> QED
    BY <1>0, <2>1, <2>2, ClientUnmoved, ServiceUnmoved DEF Announced
<1>3. ASSUME UNCHANGED <<mailbox, responses, newResponses, left, requests, newRequests, events, takes>> PROVE Announced'
  BY <1>0, <1>3, ClientUnmoved, ServiceUnmoved DEF Announced
<1>4. ASSUME NEW r \in Requests, Receive(r) \/ CallbackRaises(r) PROVE Announced'
  BY <1>3, <1>4 DEF Receive, CallbackRaises, clientVars, serviceVars
<1>5. ASSUME \/ UNCHANGED vars
             \/ \E p \in Procs : Killed(p)
             \/ \E t \in callbacks : RunCallback(t)
      PROVE  Announced'
  BY <1>3, <1>5 DEF Killed, RunCallback, vars, clientVars, serviceVars
<1>6. ASSUME NEW r \in Requests, Responds(r) PROVE Announced'
  <2>1. UNCHANGED <<mailbox, left, requests, newRequests, events, takes>> /\ r \in Requests
    BY <1>6 DEF Responds
  <2>2. Sum(Counts)' = Sum(Counts) /\ Sum(Counts) \in Nat
    BY <1>0, <2>1, NoNews
  <2>3. CASE UNCHANGED <<responses, newResponses>>
    BY <1>0, <2>1, <2>3, ClientUnmoved, ServiceUnmoved DEF Announced
  <2>4. CASE responses' = Push(responses, r) /\ newResponses' = newResponses + 1
    <3>1. responses' \in Seq(Requests) /\ Len(responses') <= Len(responses) + 1
      BY <1>0, <2>4, PushHolds DEF ToClient
    <3>2. ToClient'
      BY <1>0, <2>1, <2>2, <2>4, <3>1 DEF ToClient
    <3> QED
      BY <1>0, <2>1, <3>2, ServiceUnmoved DEF Announced
  <2> QED
    BY <1>6, <2>3, <2>4 DEF Responds, Respond
<1>7. CASE HandleCall
  <2>1. PICK m, r : m = Head(mailbox) /\ r = m.of
    OBVIOUS
  <2>2. Handles("call") /\ r \in Requests /\ m.n = 0
    BY <1>0, <1>7, <2>1, HandlesHolds, MessagesApart DEF HandleCall, Call
  <2>3. ToClient'
    BY <1>0, <1>7, <2>1, <2>2, ClientUnmoved DEF HandleCall
  <2>4. CASE UNCHANGED <<requests, newRequests>>
    BY <1>0, <1>7, <2>3, <2>4, ServiceUnmoved DEF Announced, HandleCall
  <2>5. CASE requests' = Push(requests, r) /\ newRequests' = newRequests + 1
    <3>1. requests' \in Seq(Requests) /\ Len(requests') <= Len(requests) + 1 /\ events' = events /\ takes' = takes
      BY <1>0, <1>7, <2>2, <2>5, PushHolds DEF ToService, HandleCall
    <3>2. Sum(events)' = Sum(events) /\ Sum(events) \in Nat
      <4>1. Sum(events) \in Nat
        <5>1. events \in Seq(Nat) /\ 0 \in Nat
          BY <1>0 DEF ToService
        <5> QED
          BY <5>1, SumOfMore
      <4>2. Sum(events)' = Sum(events)
        BY <3>1 DEF Sum
      <4> QED
        BY <4>1, <4>2
    <3>3. ToService'
      BY <1>0, <2>5, <3>1, <3>2 DEF ToService
    <3> QED
      BY <2>3, <3>3 DEF Announced
  <2> QED
    BY <1>7, <2>1, <2>4, <2>5 DEF HandleCall
<1>8. CASE HandleRemove
  <2>1. Handles("remove") /\ Head(mailbox).n = 0
    BY <1>0, <1>8, HandlesHolds, MessagesApart DEF HandleRemove, RemovePending
  <2> QED
    BY <1>0, <1>8, <2>1, ClientUnmoved, ServiceUnmoved DEF Announced, HandleRemove, serviceVars
<1>9. CASE ClientNotified
  <2>1. /\ mailbox' = Append(mailbox, News(newResponses)) /\ newResponses' = 0 /\ UNCHANGED <<responses, left>>
        /\ News(newResponses) \in MailboxMessages /\ News(newResponses).n = newResponses
        /\ UNCHANGED <<requests, newRequests, events, takes>>
    BY <1>0, <1>9 DEF ClientNotified, serviceVars, MailboxMessages, News, ToClient
  <2>2. PICK c, d : c = Counts /\ d = Counts'
    OBVIOUS
  <2>3. c \in Seq(Nat) /\ d = Append(c, newResponses)
    BY <1>0, <2>1, <2>2, CountsOf
  <2>4. Sum(d) = Sum(c) + newResponses /\ Sum(c) \in Nat
    BY <1>0, <2>3, SumOfMore DEF ToClient
  <2>5. Sum(Counts)' = Sum(d)
    BY <2>2 DEF Sum
  <2>6. ToClient'
    BY <1>0, <2>1, <2>2, <2>4, <2>5 DEF ToClient
  <2> QED
    BY <1>0, <2>1, <2>6, ServiceUnmoved DEF Announced
<1>10. CASE HandleResponses
  <2>1. PICK n : n = Head(mailbox).n
    OBVIOUS
  <2>2. Handles("new_response") /\ n \in Nat
    BY <1>0, <1>10, <2>1, HandlesHolds, MessagesApart DEF HandleResponses, News
  <2>3. /\ left = 0 /\ left' = n /\ UNCHANGED <<responses, newResponses>>
        /\ UNCHANGED <<requests, newRequests, events, takes>>
    BY <1>10, <2>1 DEF HandleResponses, Handles, serviceVars
  <2>5. PICK c, d : c = Counts /\ d = Counts'
    OBVIOUS
  <2>6. c \in Seq(Nat) /\ c # <<>> /\ Head(c) = n /\ d = Tail(c)
    BY <1>0, <2>1, <2>2, <2>5, CountsOf
  <2>7. Sum(c) = n + Sum(d) /\ Sum(d) \in Nat
    BY <2>6, SumOfLess
  <2>8. Sum(Counts)' = Sum(d)
    BY <2>5 DEF Sum
  <2>9. ToClient'
    BY <1>0, <2>2, <2>3, <2>5, <2>7, <2>8 DEF ToClient
  <2> QED
    BY <1>0, <2>3, <2>9, ServiceUnmoved DEF Announced
<1>15. CASE TakeResponse \/ ResponseTakeFails
  <2>1. /\ left > 0 /\ left' = left - 1 /\ UNCHANGED <<mailbox, newResponses, requests, newRequests, events, takes>>
        /\ \/ responses # <<>> /\ responses' = Tail(responses)
           \/ responses = <<>> /\ responses' = responses
    BY <1>15 DEF TakeResponse, ResponseTakeFails, serviceVars
  <2>2. Sum(Counts)' = Sum(Counts) /\ Sum(Counts) \in Nat
    BY <1>0, <2>1, NoNews
  <2>3. /\ responses' \in Seq(Requests) /\ Len(responses) \in Nat /\ Len(responses') \in Nat
        /\ Len(responses') = Len(responses) - 1 \/ Len(responses') = 0
    <3>1. PICK p, q : p = responses' /\ q = responses
      OBVIOUS
    <3>2. q \in Seq(Requests) /\ ((q # <<>> /\ p = Tail(q)) \/ (q = <<>> /\ p = q))
      BY <1>0, <2>1, <3>1 DEF ToClient
    <3> QED
      BY <3>1, <3>2, TakeHolds
  <2>5. ToClient'
    <3>1. PICK l, k : l = Len(responses) /\ k = Len(responses')
      OBVIOUS
    <3>2. /\ left \in Nat /\ newResponses \in Nat /\ l \in Nat /\ k \in Nat /\ l <= newResponses + Sum(Counts) + left
          /\ (k = l - 1 \/ k = 0)
      BY <1>0, <2>3, <3>1 DEF ToClient
    <3>3. left - 1 \in Nat /\ k <= newResponses + Sum(Counts) + (left - 1)
      BY <2>1, <2>2, <3>2
    <3> QED
      BY <2>1, <2>2, <2>3, <3>1, <3>2, <3>3 DEF ToClient
  <2> QED
    BY <1>0, <2>1, <2>5, ServiceUnmoved DEF Announced
<1>11. CASE ClientStops
  <2>1. mailbox' = <<>> /\ responses' = <<>> /\ newResponses' = 0 /\ left' = 0
        /\ UNCHANGED <<requests, newRequests, events, takes>>
    BY <1>11 DEF ClientStops, serviceVars
  <2>2. PICK d : d = Counts'
    OBVIOUS
  <2>3. d = <<>>
    BY <2>1, <2>2 DEF Counts
  <2>4. Sum(Counts)' = 0
    BY <2>2, <2>3, SumOfNone DEF Sum
  <2>5. ToClient'
    BY <2>1, <2>4 DEF ToClient
  <2> QED
    BY <1>0, <2>1, <2>5, ServiceUnmoved DEF Announced
<1>12. CASE ServiceNotified
  <2>1. /\ events' = Append(events, newRequests) /\ newRequests' = 0
        /\ UNCHANGED <<mailbox, responses, newResponses, left, requests, takes>>
    BY <1>12 DEF ServiceNotified, clientVars
  <2>2. PICK e : e = events'
    OBVIOUS
  <2>3. e \in Seq(Nat) /\ Sum(e) = Sum(events) + newRequests /\ Sum(events) \in Nat
    BY <1>0, <2>1, <2>2, SumOfMore DEF ToService
  <2>4. Sum(events)' = Sum(e)
    BY <2>2 DEF Sum
  <2>5. ToService'
    BY <1>0, <2>1, <2>2, <2>3, <2>4 DEF ToService
  <2> QED
    BY <1>0, <2>1, <2>5, ClientUnmoved DEF Announced
<1>13. CASE HandleRequests
  <2>1. PICK n, e : n = Head(events) /\ e = events'
    OBVIOUS
  <2>2. /\ events # <<>> /\ e = Tail(events) /\ takes = 0 /\ takes' = n /\ UNCHANGED <<requests, newRequests>>
        /\ UNCHANGED <<mailbox, responses, newResponses, left>>
    BY <1>13, <2>1 DEF HandleRequests, clientVars
  <2>3. n \in Nat /\ Sum(e) \in Nat /\ Sum(events) = n + Sum(e) /\ e \in Seq(Nat)
    BY <1>0, <2>1, <2>2, SumOfLess DEF ToService
  <2>4. Sum(events)' = Sum(e)
    BY <2>1 DEF Sum
  <2>5. ToService'
    BY <1>0, <2>1, <2>2, <2>3, <2>4 DEF ToService
  <2> QED
    BY <1>0, <2>2, <2>5, ClientUnmoved DEF Announced
<1>16. CASE TakeRequest \/ RequestTakeFails
  <2>1. /\ takes > 0 /\ takes' = takes - 1 /\ UNCHANGED <<newRequests, events, mailbox, responses, newResponses, left>>
        /\ \/ requests # <<>> /\ requests' = Tail(requests)
           \/ requests = <<>> /\ requests' = requests
    BY <1>16 DEF TakeRequest, RequestTakeFails, clientVars
  <2>2. Sum(events)' = Sum(events) /\ Sum(events) \in Nat
    <3>1. Sum(events) \in Nat
      <4>1. events \in Seq(Nat) /\ 0 \in Nat
        BY <1>0 DEF ToService
      <4> QED
        BY <4>1, SumOfMore
    <3>2. Sum(events)' = Sum(events)
      BY <2>1 DEF Sum
    <3> QED
      BY <3>1, <3>2
  <2>3. /\ requests' \in Seq(Requests) /\ Len(requests) \in Nat /\ Len(requests') \in Nat
        /\ Len(requests') = Len(requests) - 1 \/ Len(requests') = 0
    <3>1. PICK p, q : p = requests' /\ q = requests
      OBVIOUS
    <3>2. q \in Seq(Requests) /\ ((q # <<>> /\ p = Tail(q)) \/ (q = <<>> /\ p = q))
      BY <1>0, <2>1, <3>1 DEF ToService
    <3> QED
      BY <3>1, <3>2, TakeHolds
  <2>5. ToService'
    <3>1. PICK l, k : l = Len(requests) /\ k = Len(requests')
      OBVIOUS
    <3>2. /\ takes \in Nat /\ newRequests \in Nat /\ l \in Nat /\ k \in Nat /\ l <= newRequests + Sum(events) + takes
          /\ (k = l - 1 \/ k = 0)
      BY <1>0, <2>3, <3>1 DEF ToService
    <3>3. takes - 1 \in Nat /\ k <= newRequests + Sum(events) + (takes - 1)
      BY <2>1, <2>2, <3>2
    <3> QED
      BY <1>0, <2>1, <2>2, <2>3, <3>1, <3>2, <3>3 DEF ToService
  <2> QED
    BY <1>0, <2>1, <2>5, ClientUnmoved DEF Announced
<1>14. CASE ServiceStops
  <2>1. events' = <<>> /\ requests' = <<>> /\ newRequests' = 0 /\ takes' = 0
        /\ UNCHANGED <<mailbox, responses, newResponses, left>>
    BY <1>14 DEF ServiceStops, clientVars
  <2>2. PICK e : e = events'
    OBVIOUS
  <2>3. Sum(events)' = 0
    BY <2>1, <2>2, SumOfNone DEF Sum
  <2>4. ToService'
    BY <2>1, <2>3 DEF ToService
  <2> QED
    BY <1>0, <2>1, <2>4, ClientUnmoved DEF Announced
<1> QED
  BY <1>1, <1>2, <1>4, <1>5, <1>6, <1>7, <1>8, <1>9, <1>10, <1>11, <1>12, <1>13, <1>14, <1>15, <1>16
  DEF Next

-----------------------------------------------------------------------------
(* The theorems. *)

\* For any processes and requests and any depth of the queues: a call ends with the response to its
\* own request, at most once, though responses come late and callers, client and service may end.
THEOREM OwnAnswers == Spec => []OwnAnswerOnce
<1>1. IInv => OwnAnswerOnce
  BY DEF IInv, HeardIsOver, OwnAnswerOnce
<1> QED
  BY <1>1, InitIInv, Step, PTL DEF Spec

\* Nothing is left behind, for any depth of the queues, however the middleware groups what it
\* announces and whatever happens between two takes of a batch (an inline callback included): an
\* entry of the client is always one of a call that waits, of a caller that was killed, or one whose
\* remove_pending is in the mailbox; and what lies in the queue of the client or of the service is
\* about to be taken by the batch under way or announced, by an event or by the count that will
\* raise one.
THEOREM NothingIsLeft == Spec => []NothingLeftBehind
<1>1. IInv => CallsAreDropped
  BY DEF IInv, EntriesEnd, CallsAreDropped, Elements, Typed
<1>2. IInv /\ Announced => NothingLeftBehind
  BY <1>1 DEF Announced, ToClient, ToService, QueuesAreAnnounced, NothingLeftBehind
<1>3. Init => IInv /\ Announced
  BY InitIInv, InitAnnounced
<1>4. IInv /\ Announced /\ [Next]_vars => (IInv /\ Announced)'
  BY Step, AnnouncedKept
<1> QED
  BY <1>2, <1>3, <1>4, PTL DEF Spec
=============================================================================
