----------------------- MODULE ParameterServerProofs -----------------------
(***************************************************************************)
(* Whatever is declared and set, in whatever way and with whatever         *)
(* callbacks, the events of Rclex.ParameterServer tell its parameters, the *)
(* stored values can be encoded, declarations hold and the replies tell    *)
(* what was set: for any parameters, values and lists.                     *)
(*                                                                         *)
(* Every way of setting puts a list of accepted entries into the           *)
(* parameters and tells the observers that list; the last entry of a name  *)
(* is its new value. A post-set callback is told the same, except that an  *)
(* atomic set tells it in reverse.                                         *)
(***************************************************************************)
EXTENDS ParameterServer, WellFoundedInduction, Integers, TLAPS

IInv == TypeOK /\ EventsTellState /\ StoredIsSound

\* A list of entries, or what is left of one.
Listing(list) ==
  /\ \E k \in Nat : DOMAIN list \subseteq 1 .. k
  /\ \A i \in DOMAIN list : list[i] \in Entry

\* What every set that succeeds does: with a list of which every entry was accepted.
Sets(list) ==
  /\ Listing(list) /\ Publishable(list) /\ \A i \in DOMAIN list : Accepts(list[i])
  /\ parameters' = Put(parameters, list) /\ mirror' = Put(mirror, list)
  /\ UNCHANGED server

\* The bodies of DeclarationsHold and ResultsTell.
Holds(n) ==
  server' = "up" /\ Declared(n) =>
    /\ parameters'[n] # Undeclared
    /\ n \in ReadOnly => parameters'[n] = parameters[n]
    /\ n \notin Dynamic => parameters'[n].type = parameters[n].type
    /\ "on" \in callbacks =>
         \/ parameters'[n] = parameters[n]
         \/ <<n, parameters'[n].raw>> \notin Refused

Tells == EachResultsTell /\ AtomicResultTells /\ AskedIsSet

Good == IInv' /\ (\A n \in Names : Holds(n)) /\ Tells

\* A list with nothing but what was asked for, up to the conversion of the application's values.
FromAsked(op, asked, list) ==
  IF op = "local" THEN /\ DOMAIN list = DOMAIN asked
                       /\ \A i \in DOMAIN asked : list[i][1] = asked[i][1] /\ Becomes(asked[i][2], list[i][2])
                  ELSE list = asked

----------------------------------------------------------------------------
(* Lists *)

\* A list has a last place and a first one for every name it touches.
LEMMA LastOf ==
  ASSUME NEW k \in Nat, NEW S, S \subseteq 1 .. k, S # {}
  PROVE  \E i \in S : \A j \in S : j <= i
<1> DEFINE T == {k - i : i \in S}
<1>1. T \subseteq Nat /\ T # {}
  <2>1. \A i \in S : k - i \in Nat
    OBVIOUS
  <2> QED
    BY <2>1
<1>2. PICK m \in T : \A y \in T : ~ (<<y, m>> \in OpToRel(<, Nat))
  BY <1>1, NatLessThanWellFounded, WFMin
<1>3. PICK i \in S : m = k - i
  OBVIOUS
<1>4. \A j \in S : k - j \in T
  OBVIOUS
<1>5. \A j \in S : ~ (k - j < m)
  BY <1>1, <1>2, <1>4 DEF OpToRel
<1> QED
  BY <1>3, <1>5

LEMMA FirstOf ==
  ASSUME NEW S, S \subseteq Nat, S # {}
  PROVE  \E i \in S : \A j \in S : i <= j
<1>1. PICK i \in S : \A j \in S : ~ (<<j, i>> \in OpToRel(<, Nat))
  BY NatLessThanWellFounded, WFMin
<1>2. \A j \in S : ~ (j < i)
  BY <1>1 DEF OpToRel
<1> QED
  BY <1>2

LEMMA LastIsThere ==
  ASSUME NEW list, Listing(list), NEW n \in Touched(list)
  PROVE  /\ LastFor(list, n) \in Stored
         /\ \E i \in DOMAIN list : /\ list[i] = <<n, LastFor(list, n)>>
                                   /\ \A j \in DOMAIN list : list[j][1] = n => j <= i
<1> DEFINE S == At(list, n)
           i == CHOOSE i \in S : \A j \in S : j <= i
<1>1. PICK k \in Nat : S \subseteq 1 .. k
  BY DEF Listing, At
<1>2. S # {}
  BY DEF Touched
<1>3. i \in S /\ \A j \in S : j <= i
  BY <1>1, <1>2, LastOf
<1>4. i \in DOMAIN list /\ list[i][1] = n /\ list[i] \in Entry
  BY <1>3 DEF At, Listing
<1>5. LastFor(list, n) = list[i][2]
  BY DEF LastFor
<1>6. list[i] = <<n, LastFor(list, n)>> /\ LastFor(list, n) \in Stored
  BY <1>4, <1>5 DEF Entry
<1> QED
  BY <1>3, <1>4, <1>6 DEF At

LEMMA FirstIsStored ==
  ASSUME NEW list, Listing(list), NEW n \in Touched(list)
  PROVE  FirstFor(list, n) \in Stored
<1> DEFINE S == At(list, n)
           i == CHOOSE i \in S : \A j \in S : i <= j
<1>1. S \subseteq Nat /\ S # {}
  BY DEF Listing, At, Touched
<1>2. i \in S
  BY <1>1, FirstOf
<1>3. list[i] \in Entry /\ FirstFor(list, n) = list[i][2]
  BY <1>2 DEF At, Listing, FirstFor
<1> QED
  BY <1>3 DEF Entry

LEMMA SequencesAreListings ==
  ASSUME NEW list \in Seq(Entry)
  PROVE  Listing(list)
BY DEF Listing

\* What the pre-set callbacks make of a list is a list.
LEMMA RewrittenAreLists ==
  ASSUME NEW asked \in Seq(Entry), NEW list \in Rewritten(asked)
  PROVE  /\ list \in Seq(Entry) /\ Listing(list)
         /\ "pre" \notin callbacks => list = asked
<1>1. list \in Seq(Entry) /\ ("pre" \notin callbacks => list = asked)
  BY ListsAssumption DEF Rewritten
<1> QED
  BY <1>1, SequencesAreListings

LEMMA AcceptedAreLists ==
  ASSUME NEW list, Listing(list)
  PROVE  /\ Listing(Accepted(list))
         /\ DOMAIN Accepted(list) \subseteq DOMAIN list
         /\ \A i \in DOMAIN Accepted(list) : Accepted(list)[i] = list[i] /\ Accepts(Accepted(list)[i])
BY DEF Listing, Accepted

\* A name of a list is touched, and a touched name is one.
LEMMA TouchedNames ==
  ASSUME NEW list, Listing(list)
  PROVE  /\ Touched(list) \subseteq Names
         /\ \A i \in DOMAIN list : list[i][1] \in Touched(list)
BY DEF Listing, Touched, At, Entry

\* The values the application gives, converted or not, are of the struct's shape.
LEMMA Labels ==
  ASSUME NEW v \in Values, NEW t \in Types \cup {"not_set"}
  PROVE  Label(v, t) \in Stored /\ Infer(v) \in Stored
<1>1. Infer(v) \in Stored
  BY ValuesAssumption DEF Infer, Stored
<1>2. CASE t = "not_set"
  BY <1>1, <1>2 DEF Label, Stored
<1>3. CASE t = "string"
  BY <1>1, <1>3, ValuesAssumption DEF Label, Stored
<1>4. CASE t # "not_set" /\ t # "string"
  BY <1>1, <1>4 DEF Label, Stored
<1> QED
  BY <1>2, <1>3, <1>4

LEMMA ConvertedAreLists ==
  ASSUME TypeOK, NEW raws \in RawLists
  PROVE  Convert(raws) \in Seq(Entry)
<1>1. raws \in Seq(Names \X Values)
  BY ListsAssumption
<1>2. \A i \in 1 .. Len(raws) : Convert(raws)[i] \in Entry
  <2> SUFFICES ASSUME NEW i \in 1 .. Len(raws) PROVE Convert(raws)[i] \in Entry
    OBVIOUS
  <2>1. raws[i][1] \in Names /\ raws[i][2] \in Values
    BY <1>1
  <2>2. types[raws[i][1]] \in Types \cup {"not_set"}
    BY <2>1 DEF TypeOK
  <2>3. Label(raws[i][2], types[raws[i][1]]) \in Stored /\ Infer(raws[i][2]) \in Stored
    BY <2>1, <2>2, Labels
  <2> QED
    BY <1>1, <2>1, <2>3 DEF Convert, Entry
<1>3. Convert(raws) = [i \in 1 .. Len(raws) |-> Convert(raws)[i]]
  BY <1>1 DEF Convert
<1> QED
  BY <1>1, <1>2, <1>3

\* A converted list names the same parameters, with what became of their values.
LEMMA ConvertedIsAsked ==
  ASSUME NEW raws
  PROVE  FromAsked("local", raws, Convert(raws))
<1>1. \A v, t : Becomes(v, Label(v, t)) /\ Becomes(v, Infer(v))
  BY DEF Becomes, Label, Infer
<1>2. DOMAIN Convert(raws) = DOMAIN raws
  BY DEF Convert
<1>3. ASSUME NEW i \in DOMAIN raws
      PROVE  Convert(raws)[i][1] = raws[i][1] /\ Becomes(raws[i][2], Convert(raws)[i][2])
  <2>1. Convert(raws)[i] = << raws[i][1], IF Declared(raws[i][1]) THEN Label(raws[i][2], types[raws[i][1]])
                                                                 ELSE Infer(raws[i][2]) >>
    BY DEF Convert
  <2> QED
    BY <1>1, <2>1
<1> QED
  BY <1>2, <1>3 DEF FromAsked

LEMMA GivenAreStored == Given \subseteq Stored
BY Labels DEF Given

----------------------------------------------------------------------------
(* The steps of the server. *)

LEMMA InitIInv == Init => IInv
BY DEF Init, IInv, TypeOK, EventsTellState, StoredIsSound, Declared

\* Without a reply there is nothing to tell.
LEMMA NoAnswer ==
  ASSUME last' = NoCall \/ \E op, asked : NoReply(op, asked)
  PROVE  Tells
<1>1. CASE last' = NoCall
  BY <1>1 DEF NoCall, Tells, EachResultsTell, AtomicResultTells, AskedIsSet, Answered
<1>2. CASE \E op, asked : NoReply(op, asked)
  <2>1. last'.answered = FALSE
    BY <1>2 DEF NoReply
  <2> QED
    BY <2>1 DEF Tells, EachResultsTell, AtomicResultTells, AskedIsSet, Answered
<1> QED
  BY <1>1, <1>2

\* The list of a reply is the one asked for unless a pre-set callback rewrote it.
LEMMA RepliesAreAsked ==
  ASSUME NEW op \in {"each", "atomic", "local"}, NEW asked, NEW list, NEW results, Reply(op, asked, list, results),
         "pre" \notin callbacks => FromAsked(op, asked, list)
  PROVE  AskedIsSet
<1>1. last'.op = op /\ last'.asked = asked /\ last'.list = list
  BY DEF Reply
<1>2. CASE op = "local"
  BY <1>1, <1>2 DEF AskedIsSet, Answered, FromAsked
<1>3. CASE op # "local"
  BY <1>1, <1>3 DEF AskedIsSet, Answered, FromAsked
<1> QED
  BY <1>2, <1>3

LEMMA Told ==
  ASSUME TypeOK, NEW news, Tell(news), \A n \in DOMAIN news : news[n] \in Stored
  PROVE  told' \in [Names -> Stored \cup {Undeclared}]
BY DEF TypeOK, Tell

LEMMA NewsAreStored ==
  ASSUME NEW list, Listing(list)
  PROVE  /\ \A n \in DOMAIN LastNews(list) : LastNews(list)[n] \in Stored
         /\ \A n \in DOMAIN FirstNews(list) : FirstNews(list)[n] \in Stored
<1>1. Touched(list) \subseteq Names
  BY DEF Touched
<1>2. \A n \in Touched(list) : LastFor(list, n) \in Stored /\ FirstFor(list, n) \in Stored
  BY LastIsThere, FirstIsStored
<1> QED
  BY <1>2 DEF LastNews, FirstNews

\* A server that ends keeps nothing.
LEMMA DownKeeps ==
  ASSUME IInv, \E how \in {"crashed", "stopped"} : Down(how),
         told' \in [Names -> Stored \cup {Undeclared}]
  PROVE  IInv' /\ \A n \in Names : Holds(n)
BY DEF IInv, TypeOK, EventsTellState, StoredIsSound, Down, Declared, Holds

LEMMA BreaksKeeps ==
  ASSUME IInv, NEW list, NEW news, NEW op, NEW asked, Breaks(list, news, op, asked),
         \A n \in DOMAIN news : news[n] \in Stored
  PROVE  Good
<1>1. told' \in [Names -> Stored \cup {Undeclared}]
  BY Told DEF Breaks, IInv
<1>2. Tells
  BY NoAnswer DEF Breaks
<1> QED
  BY <1>1, <1>2, DownKeeps DEF Breaks, Good

\* What a set with a list of accepted entries does to the parameters.
LEMMA SetsKeep ==
  ASSUME IInv, server = "up", NEW list, Sets(list)
  PROVE  /\ parameters' \in [Names -> Stored \cup {Undeclared}]
         /\ mirror' \in [Names -> Stored \cup {Undeclared}]
         /\ EventsTellState'
         /\ \A n \in Names \ Touched(list) : parameters'[n] = parameters[n]
         /\ \A n \in Touched(list) :
              /\ parameters'[n] = LastFor(list, n) /\ parameters'[n] \in Stored /\ parameters'[n] # Undeclared
              /\ Sound(parameters'[n])
              /\ Declared(n) /\ Valid(n, parameters'[n])
              /\ \E i \in DOMAIN list : /\ list[i] = <<n, parameters'[n]>>
                                        /\ \A j \in DOMAIN list : list[j][1] = n => j <= i
<1>1. Touched(list) \subseteq Names
  BY DEF Touched
<1>2. \A n \in Touched(list) :
         /\ LastFor(list, n) \in Stored
         /\ \E i \in DOMAIN list : /\ list[i] = <<n, LastFor(list, n)>>
                                   /\ \A j \in DOMAIN list : list[j][1] = n => j <= i
  BY LastIsThere DEF Sets
<1>3. parameters = mirror /\ parameters \in [Names -> Stored \cup {Undeclared}]
  BY DEF IInv, EventsTellState, TypeOK
<1>4. parameters' = mirror' /\ parameters' \in [Names -> Stored \cup {Undeclared}]
  BY <1>2, <1>3 DEF Sets, Put
<1>5. \A n \in Names : parameters'[n] = IF n \in Touched(list) THEN LastFor(list, n) ELSE parameters[n]
  BY DEF Sets, Put
<1>6. \A n \in Touched(list) : Sound(LastFor(list, n))
  BY DEF Sets, Publishable
<1>7. \A n \in Touched(list) : Declared(n) /\ Valid(n, LastFor(list, n))
  BY <1>2 DEF Sets, Accepts
<1> QED
  BY <1>1, <1>2, <1>4, <1>5, <1>6, <1>7, ValuesAssumption DEF EventsTellState

\* Declarations hold over a set with accepted entries, of which none is refused.
LEMMA SetsHold ==
  ASSUME IInv, server = "up", NEW list, Sets(list),
         "on" \in callbacks => \A i \in DOMAIN list : <<list[i][1], list[i][2].raw>> \notin Refused
  PROVE  \A n \in Names : Holds(n)
<1> SUFFICES ASSUME NEW n \in Names, Declared(n) PROVE Holds(n)
  BY DEF Holds
<1>1. CASE n \notin Touched(list)
  BY <1>1, SetsKeep DEF Holds, Declared
<1>2. CASE n \in Touched(list)
  <2>1. parameters'[n] # Undeclared /\ Valid(n, parameters'[n])
    BY <1>2, SetsKeep
  <2>2. PICK i \in DOMAIN list : list[i] = <<n, parameters'[n]>>
    BY <1>2, SetsKeep
  <2>3. "on" \in callbacks => <<n, parameters'[n].raw>> \notin Refused
    BY <2>2
  <2>4. n \notin Dynamic => types[n] = parameters[n].type
    BY DEF IInv, StoredIsSound
  <2> QED
    BY <2>1, <2>3, <2>4 DEF Holds, Valid
<1> QED
  BY <1>1, <1>2

\* One by one: the type of the descriptor follows the value.
LEMMA CommitEachKeeps ==
  ASSUME IInv, server = "up", NEW list, NEW done, Listing(done), Publishable(done),
         \A i \in DOMAIN done : Accepts(done[i]), CommitEach(list, done)
  PROVE  Sets(done) /\ IInv'
<1>1. Sets(done)
  BY DEF Sets, CommitEach, Publish
<1>2. told' \in [Names -> Stored \cup {Undeclared}]
  <2>1. Touched(done) \subseteq Touched(done) /\ Tell(LastNews(done))
    BY DEF CommitEach
  <2> QED
    BY <2>1, NewsAreStored, Told DEF IInv
<1>3. \A n \in Names : types'[n] = IF n \in Touched(done) THEN LastFor(done, n).type ELSE types[n]
  BY DEF CommitEach
<1>4. types' \in [Names -> Types \cup {"not_set"}]
  <2>1. \A n \in Touched(done) : LastFor(done, n).type \in Types \cup {"not_set"}
    BY LastIsThere DEF Stored, NotSet
  <2> QED
    BY <2>1 DEF CommitEach, IInv, TypeOK
<1>5. StoredIsSound'
  <2> SUFFICES ASSUME NEW n \in Names, parameters'[n] # Undeclared
               PROVE  Sound(parameters'[n]) /\ (n \in Dynamic \/ types'[n] = parameters'[n].type)
    BY DEF StoredIsSound, Declared, Sound
  <2>1. CASE n \in Touched(done)
    BY <1>1, <1>3, <2>1, SetsKeep
  <2>2. CASE n \notin Touched(done)
    BY <1>1, <1>3, <2>2, SetsKeep DEF IInv, StoredIsSound, Declared
  <2> QED
    BY <2>1, <2>2
<1>6. TypeOK'
  BY <1>1, <1>2, <1>4, SetsKeep DEF CommitEach, IInv, TypeOK
<1> QED
  BY <1>1, <1>5, <1>6, SetsKeep DEF IInv

\* Atomically: the descriptors stay, whose types the accepted values have.
LEMMA CommitAtomicKeeps ==
  ASSUME IInv, server = "up", NEW list, Listing(list), Publishable(list), AtomicAccepts(list), CommitAtomic(list)
  PROVE  Sets(list) /\ IInv'
<1>1. Sets(list)
  BY DEF Sets, CommitAtomic, Publish, AtomicAccepts
<1>2. told' \in [Names -> Stored \cup {Undeclared}]
  BY NewsAreStored, Told DEF IInv, CommitAtomic
<1>3. StoredIsSound'
  <2> SUFFICES ASSUME NEW n \in Names, parameters'[n] # Undeclared
               PROVE  Sound(parameters'[n]) /\ (n \in Dynamic \/ types'[n] = parameters'[n].type)
    BY DEF StoredIsSound, Declared, Sound
  <2>1. CASE n \in Touched(list)
    BY <1>1, <2>1, SetsKeep DEF CommitAtomic, Valid
  <2>2. CASE n \notin Touched(list)
    BY <1>1, <2>2, SetsKeep DEF CommitAtomic, IInv, StoredIsSound, Declared
  <2> QED
    BY <2>1, <2>2
<1>4. TypeOK'
  BY <1>1, <1>2, SetsKeep DEF CommitAtomic, IInv, TypeOK
<1> QED
  BY <1>1, <1>3, <1>4, SetsKeep DEF IInv

----------------------------------------------------------------------------
(* The actions. *)

LEMMA DeclareKeeps ==
  ASSUME IInv, NEW n \in Names, NEW p \in Stored, Declare(n, p) \/ DeclareBreaks(n, p)
  PROVE  Good
<1> DEFINE list == << <<n, p>> >>
<1>1. Tells
  BY NoAnswer DEF Declare, DeclareBreaks
<1>2. told' \in [Names -> Stored \cup {Undeclared}]
  <2>1. Tell([x \in {n} |-> p])
    BY DEF Declare, DeclareBreaks
  <2> QED
    BY <2>1, Told DEF IInv
<1>3. CASE DeclareBreaks(n, p)
  BY <1>1, <1>2, <1>3, DownKeeps DEF DeclareBreaks, Good
<1>4. CASE Declare(n, p)
  <2>1. Touched(list) = {n} /\ LastFor(list, n) = p
    <3>1. At(list, n) = {1} /\ \A x \in Names \ {n} : At(list, x) = {}
      BY DEF At
    <3>2. LastFor(list, n) = list[1][2]
      BY <3>1 DEF LastFor
    <3> QED
      BY <3>1, <3>2 DEF Touched
  <2>2. parameters' = [parameters EXCEPT ![n] = p] /\ mirror' = [mirror EXCEPT ![n] = p]
    BY <1>4, <2>1 DEF Declare, Publish, Put, IInv, TypeOK
  <2>3. IInv'
    <3>1. types' = [types EXCEPT ![n] = p.type] /\ p.type \in Types \cup {"not_set"} /\ Sound(p)
      BY <1>4 DEF Declare, Stored, NotSet
    <3>2. StoredIsSound'
      BY <2>2, <3>1 DEF IInv, TypeOK, StoredIsSound, Declared, Sound
    <3> QED
      BY <1>2, <1>4, <2>2, <3>1, <3>2 DEF Declare, IInv, TypeOK, EventsTellState
  <2>4. \A x \in Names : Holds(x)
    BY <1>4, <2>2 DEF Declare, Holds, Declared, IInv, TypeOK
  <2> QED
    BY <1>1, <2>3, <2>4 DEF Good
<1> QED
  BY <1>3, <1>4

LEMMA SetParameterKeeps ==
  ASSUME IInv, NEW n \in Names, NEW p \in Stored, SetParameter(n, p)
  PROVE  Good
<1>1. << <<n, p>> >> \in Seq(Entry)
  BY DEF Entry
<1>2. PICK list \in Rewritten(<< <<n, p>> >>) :
        /\ Approved(list) /\ Len(list) = 1 /\ Accepts(list[1])
        /\ \/ Publishable(list) /\ CommitEach(list, list) /\ last' = NoCall
           \/ Breaks(list, LastNews(list), "single", <<>>)
  BY DEF SetParameter
<1>3. Listing(list) /\ list \in Seq(Entry)
  BY <1>1, RewrittenAreLists
<1>4. \A i \in DOMAIN list : Accepts(list[i])
  BY <1>2, <1>3
<1>5. CASE Publishable(list) /\ CommitEach(list, list) /\ last' = NoCall
  <2>1. Sets(list) /\ IInv'
    BY <1>3, <1>4, <1>5, CommitEachKeeps DEF SetParameter
  <2>2. \A x \in Names : Holds(x)
    BY <1>2, <2>1, SetsHold DEF Approved, SetParameter
  <2> QED
    BY <1>5, <2>1, <2>2, NoAnswer DEF Good
<1>6. CASE Breaks(list, LastNews(list), "single", <<>>)
  BY <1>3, <1>6, BreaksKeeps, NewsAreStored
<1> QED
  BY <1>2, <1>5, <1>6

LEMMA SetEachKeeps ==
  ASSUME IInv, NEW asked \in Seq(Entry), SetEach(asked)
  PROVE  Good
<1>1. PICK list \in Rewritten(asked) :
        /\ server = "up" /\ Approved(list)
        /\ \/ /\ Publishable(Accepted(list))
              /\ CommitEach(list, Accepted(list))
              /\ Reply("each", asked, list, [i \in DOMAIN list |-> Accepts(list[i])])
           \/ Breaks(Accepted(list), LastNews(Accepted(list)), "each", asked)
  BY DEF SetEach
<1> DEFINE done == Accepted(list)
<1>2. Listing(list) /\ ("pre" \notin callbacks => list = asked)
  BY RewrittenAreLists
<1>3. /\ Listing(done) /\ DOMAIN done \subseteq DOMAIN list
      /\ \A i \in DOMAIN done : done[i] = list[i] /\ Accepts(done[i])
  BY <1>2, AcceptedAreLists
<1>4. CASE Breaks(done, LastNews(done), "each", asked)
  BY <1>3, <1>4, BreaksKeeps, NewsAreStored
<1>5. CASE /\ Publishable(done) /\ CommitEach(list, done)
           /\ Reply("each", asked, list, [i \in DOMAIN list |-> Accepts(list[i])])
  <2>1. Sets(done) /\ IInv'
    BY <1>1, <1>3, <1>5, CommitEachKeeps
  <2>2. \A n \in Names : Holds(n)
    BY <1>1, <1>3, <2>1, SetsHold DEF Approved
  <2>3. last' = [op |-> "each", asked |-> asked, answered |-> TRUE, list |-> list,
                results |-> [i \in DOMAIN list |-> Accepts(list[i])]]
    BY <1>5 DEF Reply
  <2>4. AtomicResultTells
    BY <2>3 DEF AtomicResultTells, Answered
  <2>5. EachResultsTell
    <3> DEFINE ok == {i \in DOMAIN last'.list : last'.results[i]}
    <3>1. DOMAIN last'.results = DOMAIN list /\ last'.list = list
      BY <2>3
    <3>2. ok = DOMAIN done
      BY <2>3, <3>1 DEF Accepted
    <3>3. \A n \in Names :
            \/ (\A i \in ok : last'.list[i][1] # n) /\ parameters'[n] = parameters[n]
            \/ \E i \in ok : /\ last'.list[i] = <<n, parameters'[n]>>
                             /\ \A j \in ok : last'.list[j][1] = n => j <= i
      <4> SUFFICES ASSUME NEW n \in Names
                   PROVE  \/ (\A i \in ok : list[i][1] # n) /\ parameters'[n] = parameters[n]
                          \/ \E i \in ok : /\ list[i] = <<n, parameters'[n]>>
                                           /\ \A j \in ok : list[j][1] = n => j <= i
        BY <3>1
      <4>1. CASE n \in Touched(done)
        <5>1. PICK i \in DOMAIN done : /\ done[i] = <<n, parameters'[n]>>
                                       /\ \A j \in DOMAIN done : done[j][1] = n => j <= i
          BY <1>1, <2>1, <4>1, SetsKeep
        <5> QED
          BY <1>3, <3>2, <5>1
      <4>2. CASE n \notin Touched(done)
        <5>1. parameters'[n] = parameters[n]
          BY <1>1, <2>1, <4>2, SetsKeep
        <5>2. \A i \in DOMAIN done : done[i][1] # n
          BY <1>3, <4>2, TouchedNames
        <5> QED
          BY <1>3, <3>2, <5>1, <5>2
      <4> QED
        BY <4>1, <4>2
    <3> QED
      BY <3>1, <3>3 DEF EachResultsTell
  <2>6. AskedIsSet
    BY <1>2, <1>5, RepliesAreAsked DEF FromAsked
  <2> QED
    BY <2>1, <2>2, <2>4, <2>5, <2>6 DEF Good, Tells
<1> QED
  BY <1>1, <1>4, <1>5

\* A list that was refused changes nothing: the replies say so, or there is none.
LEMMA RefusedKeeps ==
  ASSUME IInv, NEW asked \in Seq(Entry), SetEachRefused(asked)
  PROVE  Good
<1>1. PICK list \in Rewritten(asked) :
        /\ server = "up"
        /\ \/ /\ Reply("each", asked, list, [i \in DOMAIN list |-> FALSE])
              /\ UNCHANGED <<server, parameters, types, callbacks, told, mirror>>
           \/ Down("crashed") /\ NoReply("each", asked) /\ UNCHANGED told
  BY DEF SetEachRefused
<1>2. CASE Down("crashed") /\ NoReply("each", asked) /\ UNCHANGED told
  BY <1>2, DownKeeps, NoAnswer DEF IInv, TypeOK, Good
<1>3. CASE /\ Reply("each", asked, list, [i \in DOMAIN list |-> FALSE])
           /\ UNCHANGED <<server, parameters, types, callbacks, told, mirror>>
  <2>1. IInv' /\ \A n \in Names : Holds(n)
    BY <1>3 DEF IInv, TypeOK, EventsTellState, StoredIsSound, Declared, Sound, Holds
  <2>2. last' = [op |-> "each", asked |-> asked, answered |-> TRUE, list |-> list,
                results |-> [i \in DOMAIN list |-> FALSE]]
    BY <1>3 DEF Reply
  <2>3. AtomicResultTells
    BY <2>2 DEF AtomicResultTells, Answered
  <2>4. EachResultsTell
    <3>1. {i \in DOMAIN last'.list : last'.results[i]} = {} /\ DOMAIN last'.results = DOMAIN last'.list
      BY <2>2
    <3> QED
      BY <1>3, <3>1 DEF EachResultsTell
  <2>5. AskedIsSet
    BY <1>3, RewrittenAreLists, RepliesAreAsked DEF FromAsked
  <2> QED
    BY <2>1, <2>3, <2>4, <2>5 DEF Good, Tells
<1> QED
  BY <1>1, <1>2, <1>3

\* The reply of an atomic set tells what became of its list.
LEMMA AtomicTells ==
  ASSUME NEW asked, NEW list, NEW results, NEW op \in {"atomic", "local"}, Reply(op, asked, list, results),
         "pre" \notin callbacks => FromAsked(op, asked, list),
         \/ results = <<TRUE>> /\ parameters' = Put(parameters, list)
         \/ results = <<FALSE>> /\ parameters' = parameters
  PROVE  Tells
<1>1. last'.op = op /\ last'.list = list /\ last'.results = results
  BY DEF Reply
<1>2. <<FALSE>> # <<TRUE>>
  <2>1. <<FALSE>>[1] # <<TRUE>>[1]
    OBVIOUS
  <2> QED
    BY <2>1
<1>3. EachResultsTell
  BY <1>1 DEF EachResultsTell, Answered
<1>4. AtomicResultTells
  BY <1>1, <1>2 DEF AtomicResultTells
<1>5. AskedIsSet
  BY RepliesAreAsked
<1> QED
  BY <1>3, <1>4, <1>5 DEF Tells

LEMMA SetAtomicallyKeeps ==
  ASSUME IInv, NEW op \in {"atomic", "local"}, NEW asked, NEW given \in Seq(Entry),
         FromAsked(op, asked, given), SetAtomically(op, asked, given)
  PROVE  Good
<1>1. PICK list \in Rewritten(given) :
        /\ server = "up" /\ Approved(list) /\ AtomicAccepts(list)
        /\ \/ Publishable(list) /\ CommitAtomic(list) /\ Reply(op, asked, list, <<TRUE>>)
           \/ Breaks(list, FirstNews(list), op, asked)
  BY DEF SetAtomically
<1>2. Listing(list) /\ ("pre" \notin callbacks => list = given)
  BY RewrittenAreLists
<1>3. CASE Breaks(list, FirstNews(list), op, asked)
  BY <1>2, <1>3, BreaksKeeps, NewsAreStored
<1>4. CASE Publishable(list) /\ CommitAtomic(list) /\ Reply(op, asked, list, <<TRUE>>)
  <2>1. Sets(list) /\ IInv'
    BY <1>1, <1>2, <1>4, CommitAtomicKeeps
  <2>2. \A n \in Names : Holds(n)
    BY <1>1, <2>1, SetsHold DEF Approved
  <2>3. parameters' = Put(parameters, list)
    BY <2>1 DEF Sets
  <2>4. Tells
    BY <1>2, <1>4, <2>3, AtomicTells
  <2> QED
    BY <2>1, <2>2, <2>4 DEF Good
<1> QED
  BY <1>1, <1>3, <1>4

LEMMA SetAtomicallyRefusedKeeps ==
  ASSUME IInv, NEW op \in {"atomic", "local"}, NEW asked, NEW given,
         FromAsked(op, asked, given), SetAtomicallyRefused(op, asked, given)
  PROVE  Good
<1>1. UNCHANGED <<server, parameters, types, callbacks, told, mirror>>
  BY DEF SetAtomicallyRefused
<1>2. IInv' /\ \A n \in Names : Holds(n)
  BY <1>1 DEF IInv, TypeOK, EventsTellState, StoredIsSound, Declared, Sound, Holds
<1>3. ASSUME NEW list \in Rewritten(given), Reply(op, asked, list, <<FALSE>>) PROVE Good
  <2>1. "pre" \notin callbacks => list = given
    BY DEF Rewritten
  <2>2. Tells
    BY <1>1, <1>3, <2>1, AtomicTells
  <2> QED
    BY <1>2, <2>2 DEF Good
<1>4. CASE NoReply(op, asked)
  BY <1>2, <1>4, NoAnswer DEF Good
<1> QED
  BY <1>3, <1>4 DEF SetAtomicallyRefused

\* Callbacks come and go, the server ends.
LEMMA OtherKeeps ==
  ASSUME IInv, \/ \E k \in {"pre", "on", "post"} : AddCallback(k) \/ RemoveCallback(k)
               \/ CallbackExits \/ Stop
  PROVE  Good
<1>1. Tells
  BY NoAnswer DEF AddCallback, RemoveCallback, CallbackExits, Stop
<1>2. CASE \E k \in {"pre", "on", "post"} : AddCallback(k) \/ RemoveCallback(k)
  <2>1. UNCHANGED <<server, parameters, types, mirror>> /\ callbacks' \subseteq {"pre", "on", "post"}
    BY <1>2 DEF AddCallback, RemoveCallback, IInv, TypeOK
  <2>2. told' \in [Names -> Stored \cup {Undeclared}]
    BY <1>2 DEF AddCallback, RemoveCallback, IInv, TypeOK
  <2> QED
    BY <1>1, <2>1, <2>2 DEF IInv, TypeOK, EventsTellState, StoredIsSound, Declared, Sound, Holds, Good
<1>3. CASE CallbackExits \/ Stop
  <2>1. (Down("crashed") \/ Down("stopped")) /\ UNCHANGED told
    BY <1>3 DEF CallbackExits, Stop
  <2> QED
    BY <1>1, <2>1, DownKeeps DEF IInv, TypeOK, Good
<1> QED
  BY <1>2, <1>3

LEMMA NextKeeps == IInv /\ Next => Good
<1> SUFFICES ASSUME IInv, Next PROVE Good
  OBVIOUS
<1>1. CASE \E n \in Names, p \in Given \cup {NotSet} : Declare(n, p) \/ DeclareBreaks(n, p)
  <2>1. NotSet \in Stored
    BY DEF Stored
  <2> QED
    BY <1>1, <2>1, DeclareKeeps, GivenAreStored
<1>2. CASE \E n \in Names, p \in Given : SetParameter(n, p)
  BY <1>2, SetParameterKeeps, GivenAreStored
<1>3. CASE \E list \in Lists : SetEach(list) \/ SetEachRefused(list)
  BY <1>3, SetEachKeeps, RefusedKeeps, ListsAssumption
<1>4. CASE \E list \in AtomicLists :
             SetAtomically("atomic", list, list) \/ SetAtomicallyRefused("atomic", list, list)
  <2>1. \A list : FromAsked("atomic", list, list)
    BY DEF FromAsked
  <2> QED
    BY <1>4, <2>1, SetAtomicallyKeeps, SetAtomicallyRefusedKeeps, ListsAssumption
<1>5. CASE \E raws \in RawLists :
             SetAtomically("local", raws, Convert(raws)) \/ SetAtomicallyRefused("local", raws, Convert(raws))
  BY <1>5, SetAtomicallyKeeps, SetAtomicallyRefusedKeeps, ConvertedAreLists, ConvertedIsAsked DEF IInv
<1>6. CASE \/ \E k \in {"pre", "on", "post"} : AddCallback(k) \/ RemoveCallback(k)
           \/ CallbackExits \/ Stop
  BY <1>6, OtherKeeps
<1> QED
  BY <1>1, <1>2, <1>3, <1>4, <1>5, <1>6 DEF Next

LEMMA StepIInv == IInv /\ [Next]_vars => IInv'
<1>1. IInv /\ UNCHANGED vars => IInv'
  BY DEF vars, IInv, TypeOK, EventsTellState, StoredIsSound, Declared, Sound
<1> QED
  BY <1>1, NextKeeps DEF Good

LEMMA Always == Spec => []IInv
BY InitIInv, StepIInv, PTL DEF Spec

----------------------------------------------------------------------------
(* What the post-set callback is told. *)

\* An atomic set tells its list in reverse: of two entries of one name the callback hears the
\* first one last. What it heard is current, then, if atomic sets name a parameter once; a set of
\* one by one tells its list in order, and may name a parameter as often as it likes.
NamedOnce(list) == \A i, j \in DOMAIN list : list[i][1] = list[j][1] => i = j
OnceEach == \A list \in AtomicLists \cup RawLists \cup PreOutputs : NamedOnce(list)

\* Without a callback nothing counts as told, and one that is added later starts afresh.
ToldInv ==
  /\ ToldIsCurrent
  /\ server = "up" /\ "post" \notin callbacks => \A n \in Names : told[n] = Undeclared

\* In a list that names a parameter once, the first entry of a name is its last.
LEMMA FirstIsLast ==
  ASSUME NEW list, Listing(list), NamedOnce(list)
  PROVE  FirstNews(list) = LastNews(list)
<1>1. ASSUME NEW n \in Touched(list) PROVE FirstFor(list, n) = LastFor(list, n)
  <2> DEFINE S == At(list, n)
             first == CHOOSE i \in S : \A j \in S : i <= j
             last_ == CHOOSE i \in S : \A j \in S : j <= i
  <2>1. PICK k \in Nat : S \subseteq 1 .. k
    BY DEF Listing, At
  <2>2. S # {}
    BY DEF Touched
  <2>3. first \in S
    BY <2>1, <2>2, FirstOf
  <2>4. last_ \in S
    BY <2>1, <2>2, LastOf
  <2>5. first = last_
    BY <2>3, <2>4 DEF NamedOnce, At
  <2> QED
    BY <2>5 DEF FirstFor, LastFor
<1> QED
  BY <1>1 DEF FirstNews, LastNews

\* A list that was rewritten names a parameter once if it did before.
LEMMA RewrittenOnce ==
  ASSUME OnceEach, NEW given, NamedOnce(given), NEW list \in Rewritten(given)
  PROVE  NamedOnce(list)
BY DEF OnceEach, Rewritten

LEMMA ConvertedOnce ==
  ASSUME OnceEach, NEW raws \in RawLists
  PROVE  NamedOnce(Convert(raws))
<1>1. NamedOnce(raws) /\ raws \in Seq(Names \X Values)
  BY ListsAssumption DEF OnceEach
<1>2. DOMAIN Convert(raws) = DOMAIN raws /\ \A i \in DOMAIN raws : Convert(raws)[i][1] = raws[i][1]
  BY DEF Convert
<1> QED
  BY <1>1, <1>2 DEF NamedOnce

LEMMA InitTold == Init => ToldInv
BY DEF Init, ToldInv, ToldIsCurrent

LEMMA DownTold ==
  ASSUME \E how \in {"crashed", "stopped"} : Down(how)
  PROVE  ToldInv'
BY DEF Down, ToldInv, ToldIsCurrent

LEMMA SameTold ==
  ASSUME ToldInv, UNCHANGED <<server, parameters, callbacks, told>>
  PROVE  ToldInv'
BY DEF ToldInv, ToldIsCurrent

\* A set that tells what it puts.
LEMMA SetsTell ==
  ASSUME IInv, ToldInv, server = "up", NEW list, Sets(list), Tell(LastNews(list)), UNCHANGED callbacks
  PROVE  ToldInv'
<1>1. Touched(list) \subseteq Names
  BY DEF Touched
<1>2. \A n \in Names : parameters'[n] = IF n \in Touched(list) THEN LastFor(list, n) ELSE parameters[n]
  BY DEF Sets, Put
<1>3. CASE "post" \in callbacks
  <2>1. \A n \in Names : told'[n] = IF n \in Touched(list) THEN LastFor(list, n) ELSE told[n]
    BY <1>1, <1>3 DEF Tell, LastNews
  <2> QED
    BY <1>2, <1>3, <2>1 DEF ToldInv, ToldIsCurrent
<1>4. CASE "post" \notin callbacks
  BY <1>4 DEF Tell, ToldInv, ToldIsCurrent
<1> QED
  BY <1>3, <1>4

LEMMA DeclareTells ==
  ASSUME IInv, ToldInv, NEW n \in Names, NEW p \in Stored, Declare(n, p) \/ DeclareBreaks(n, p)
  PROVE  ToldInv'
<1>1. CASE DeclareBreaks(n, p)
  BY <1>1, DownTold DEF DeclareBreaks
<1>2. CASE Declare(n, p)
  <2>1. \A x \in Names : told'[x] = IF x = n /\ "post" \in callbacks THEN p ELSE told[x]
    BY <1>2 DEF Declare, Tell, IInv, TypeOK
  <2>2. \A x \in Names : parameters'[x] = IF x = n THEN p ELSE parameters[x]
    BY <1>2 DEF Declare, IInv, TypeOK
  <2>3. server = "up" /\ ~ Declared(n) /\ UNCHANGED callbacks
    BY <1>2 DEF Declare
  <2> QED
    BY <2>1, <2>2, <2>3 DEF ToldInv, ToldIsCurrent, Declared
<1> QED
  BY <1>1, <1>2

LEMMA SetParameterTells ==
  ASSUME IInv, ToldInv, NEW n \in Names, NEW p \in Stored, SetParameter(n, p)
  PROVE  ToldInv'
<1>1. << <<n, p>> >> \in Seq(Entry)
  BY DEF Entry
<1>2. PICK list \in Rewritten(<< <<n, p>> >>) :
        /\ Len(list) = 1 /\ Accepts(list[1])
        /\ \/ Publishable(list) /\ CommitEach(list, list)
           \/ Breaks(list, LastNews(list), "single", <<>>)
  BY DEF SetParameter
<1>3. Listing(list) /\ \A i \in DOMAIN list : Accepts(list[i])
  BY <1>1, <1>2, RewrittenAreLists
<1>4. CASE Publishable(list) /\ CommitEach(list, list)
  <2>1. Sets(list)
    BY <1>3, <1>4, CommitEachKeeps DEF SetParameter
  <2> QED
    BY <1>4, <2>1, SetsTell DEF CommitEach, SetParameter
<1>5. CASE Breaks(list, LastNews(list), "single", <<>>)
  BY <1>5, DownTold DEF Breaks
<1> QED
  BY <1>2, <1>4, <1>5

LEMMA SetEachTells ==
  ASSUME IInv, ToldInv, NEW asked \in Seq(Entry), SetEach(asked) \/ SetEachRefused(asked)
  PROVE  ToldInv'
<1>1. CASE SetEach(asked)
  <2>1. PICK list \in Rewritten(asked) :
          /\ server = "up"
          /\ \/ Publishable(Accepted(list)) /\ CommitEach(list, Accepted(list))
             \/ Breaks(Accepted(list), LastNews(Accepted(list)), "each", asked)
    BY <1>1 DEF SetEach
  <2> DEFINE done == Accepted(list)
  <2>2. Listing(done) /\ \A i \in DOMAIN done : Accepts(done[i])
    BY RewrittenAreLists, AcceptedAreLists
  <2>3. CASE Publishable(done) /\ CommitEach(list, done)
    <3>1. Sets(done)
      BY <2>1, <2>2, <2>3, CommitEachKeeps
    <3> QED
      BY <2>1, <2>3, <3>1, SetsTell DEF CommitEach
  <2>4. CASE Breaks(done, LastNews(done), "each", asked)
    BY <2>4, DownTold DEF Breaks
  <2> QED
    BY <2>1, <2>3, <2>4
<1>2. CASE SetEachRefused(asked)
  BY <1>2, DownTold, SameTold DEF SetEachRefused
<1> QED
  BY <1>1, <1>2

LEMMA SetAtomicallyTells ==
  ASSUME OnceEach, IInv, ToldInv, NEW op, NEW asked, NEW given \in Seq(Entry), NamedOnce(given),
         SetAtomically(op, asked, given) \/ SetAtomicallyRefused(op, asked, given)
  PROVE  ToldInv'
<1>1. CASE SetAtomically(op, asked, given)
  <2>1. PICK list \in Rewritten(given) :
          /\ server = "up" /\ AtomicAccepts(list)
          /\ \/ Publishable(list) /\ CommitAtomic(list)
             \/ Breaks(list, FirstNews(list), op, asked)
    BY <1>1 DEF SetAtomically
  <2>2. Listing(list) /\ FirstNews(list) = LastNews(list)
    BY RewrittenAreLists, RewrittenOnce, FirstIsLast
  <2>3. CASE Publishable(list) /\ CommitAtomic(list)
    <3>1. Sets(list)
      BY <2>1, <2>2, <2>3, CommitAtomicKeeps
    <3> QED
      BY <2>1, <2>2, <2>3, <3>1, SetsTell DEF CommitAtomic
  <2>4. CASE Breaks(list, FirstNews(list), op, asked)
    BY <2>4, DownTold DEF Breaks
  <2> QED
    BY <2>1, <2>3, <2>4
<1>2. CASE SetAtomicallyRefused(op, asked, given)
  BY <1>2, SameTold DEF SetAtomicallyRefused
<1> QED
  BY <1>1, <1>2

LEMMA OtherTells ==
  ASSUME IInv, ToldInv, \/ \E k \in {"pre", "on", "post"} : AddCallback(k) \/ RemoveCallback(k)
                        \/ CallbackExits \/ Stop
  PROVE  ToldInv'
<1>1. CASE \E k \in {"pre", "on", "post"} : AddCallback(k)
  BY <1>1 DEF AddCallback, ToldInv, ToldIsCurrent
<1>2. CASE \E k \in {"pre", "on", "post"} : RemoveCallback(k)
  <2>1. PICK k \in {"pre", "on", "post"} : RemoveCallback(k)
    BY <1>2
  <2>2. CASE k = "post"
    BY <2>1, <2>2 DEF RemoveCallback, ToldInv, ToldIsCurrent
  <2>3. CASE k # "post"
    BY <2>1, <2>3 DEF RemoveCallback, ToldInv, ToldIsCurrent
  <2> QED
    BY <2>2, <2>3
<1>3. CASE CallbackExits \/ Stop
  BY <1>3, DownTold DEF CallbackExits, Stop
<1> QED
  BY <1>1, <1>2, <1>3

LEMMA StepTold == OnceEach /\ IInv /\ ToldInv /\ [Next]_vars => ToldInv'
<1> SUFFICES ASSUME OnceEach, IInv, ToldInv, [Next]_vars PROVE ToldInv'
  OBVIOUS
<1>1. CASE \E n \in Names, p \in Given \cup {NotSet} : Declare(n, p) \/ DeclareBreaks(n, p)
  <2>1. NotSet \in Stored
    BY DEF Stored
  <2> QED
    BY <1>1, <2>1, DeclareTells, GivenAreStored
<1>2. CASE \E n \in Names, p \in Given : SetParameter(n, p)
  BY <1>2, SetParameterTells, GivenAreStored
<1>3. CASE \E list \in Lists : SetEach(list) \/ SetEachRefused(list)
  BY <1>3, SetEachTells, ListsAssumption
<1>4. CASE \E list \in AtomicLists :
             SetAtomically("atomic", list, list) \/ SetAtomicallyRefused("atomic", list, list)
  BY <1>4, SetAtomicallyTells, ListsAssumption DEF OnceEach
<1>5. CASE \E raws \in RawLists :
             SetAtomically("local", raws, Convert(raws)) \/ SetAtomicallyRefused("local", raws, Convert(raws))
  BY <1>5, SetAtomicallyTells, ConvertedAreLists, ConvertedOnce DEF IInv
<1>6. CASE \/ \E k \in {"pre", "on", "post"} : AddCallback(k) \/ RemoveCallback(k)
           \/ CallbackExits \/ Stop
  BY <1>6, OtherTells
<1>7. CASE UNCHANGED vars
  BY <1>7, SameTold DEF vars
<1> QED
  BY <1>1, <1>2, <1>3, <1>4, <1>5, <1>6, <1>7 DEF Next

----------------------------------------------------------------------------
(* The theorems. *)

\* Who applies every event of publish_parameter_event to an empty map has state.parameters, for any
\* parameters and any lists, also lists that name a parameter twice.
THEOREM EventsAreComplete == Spec => []EventsTellState
BY Always, PTL DEF IInv

\* validate_parameter_update and the publisher keep every stored value of the type it is said to
\* have.
THEOREM StoredStaySound == Spec => []StoredIsSound
BY Always, PTL DEF IInv

\* No way of setting undeclares a parameter, changes a read-only one or the type of one without
\* dynamic typing, or gets a refused value past the on-set callbacks.
THEOREM DeclarationsAlwaysHold == Spec => DeclarationsHold
<1>1. IInv /\ [Next]_vars => [\A n \in Names : Holds(n)]_vars
  BY NextKeeps DEF Good
<1> QED
  BY <1>1, Always, PTL DEF Spec, DeclarationsHold, Holds

\* The results of handle_set_parameters and of handle_set_parameters_atomically, and the reply to
\* Rclex.set_parameters, tell exactly what was set of the list that the pre-set callbacks made; if
\* there are none that is the list asked for, with the application's values converted (to nothing
\* for a parameter of type not_set).
THEOREM ResultsAlwaysTell == Spec => ResultsTell
<1>1. IInv /\ [Next]_vars => [EachResultsTell /\ AtomicResultTells /\ AskedIsSet]_vars
  BY NextKeeps DEF Good, Tells
<1> QED
  BY <1>1, Always, PTL DEF Spec, ResultsTell

\* What a post-set callback heard last of a parameter from notify_parameter_callbacks is its value,
\* with any lists for set_parameters, and for atomic sets with lists that name a parameter once;
\* with others it is not, since apply_parameter_updates conses its changes and tells them in reverse.
THEOREM ToldStaysCurrent ==
  ASSUME OnceEach
  PROVE  Spec => []ToldIsCurrent
<1>1. IInv /\ ToldInv /\ [Next]_vars => ToldInv'
  BY StepTold
<1> QED
  BY <1>1, Always, InitTold, PTL DEF Spec, ToldInv
=============================================================================
