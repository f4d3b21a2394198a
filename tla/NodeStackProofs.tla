--------------------------- MODULE NodeStackProofs ---------------------------
(***************************************************************************)
(* The handles of a node, for any entities, any number of restarts, failures *)
(* and kills: everything native stands on what it needs, no process touches  *)
(* what is finalised, and generations do not meet.                           *)
(*                                                                           *)
(* A program is what a process has still to run.  It leads from the tokens   *)
(* of its process to those the process must have next, and on the way each   *)
(* step finds what it checks and uses, in the hands of the process or held   *)
(* for it by those that live longer.  The invariant (IInv, below) says so of *)
(* every process, in the state it is in, and which process lives when.       *)
(*                                                                           *)
(* The last part is about a single NIF (NifPaths), which NodeStack takes as  *)
(* far as its processes call it: no path of it uses what is gone, or leaves  *)
(* behind what nobody can release.                                           *)
(***************************************************************************)
EXTENDS NodeStack, NifPaths, Integers, WellFoundedInduction, TLAPS

----------------------------------------------------------------------------
(* Programs *)

Listing(N) == Len(N) \in Nat /\ DOMAIN N = 1 .. Len(N)

\* A step of holder o, who has the tokens H and can rely on X, leaves it with G; a holder who is not in D is
\* refused nothing, and leaves what is in B.
Takes(s, o, X, H, G) ==
  /\ Shared(s.uses) \subseteq H \union X
  /\ G = (H \union Shared(s.makes)) \ Shared(s.ends)
  /\ \A x \in Shared(s.makes) \union Shared(s.ends) : HolderOf(x) = o
  /\ Shared(s.undo) = {}
Does(D, s, o, X, B, H, G) ==
  /\ Takes(s, o, X, H, G)
  /\ o \notin D => Shared(s.checks) \subseteq H \union X /\ G \in B

\* A program leads from H to G.
Trace(D, N, o, X, B, H, G, tr) ==
  /\ tr[1] = H /\ tr[Len(N) + 1] = G
  /\ \A i \in 1 .. Len(N) : Does(D, N[i], o, X, B, tr[i], tr[i + 1])
Runs(D, N, o, X, B, H, G) == Listing(N) /\ \E tr : Trace(D, N, o, X, B, H, G, tr)

\* What Touching makes of a step.
Pure(s) ==
  /\ s.checks = Shared(s.checks) /\ s.uses = Shared(s.uses) /\ s.makes = Shared(s.makes)
  /\ s.ends = Shared(s.ends) /\ s.undo = Shared(s.undo)
  /\ s.idle => s.checks = {} /\ s.uses = {} /\ s.makes = {} /\ s.ends = {}
Touched(N) == \A i \in 1 .. Len(N) : Pure(N[i])

LEMMA RunsNothing ==
  ASSUME NEW D, NEW o, NEW X, NEW B, NEW H
  PROVE  Runs(D, <<>>, o, X, B, H, H)
<1> DEFINE tr == [i \in 1 .. 1 |-> H]
<1>1. Trace(D, <<>>, o, X, B, H, H, tr)
  BY DEF Trace
<1> QED
  BY <1>1 DEF Runs, Listing

\* Nothing left to run: what is held is the result.
LEMMA RunsEnd ==
  ASSUME NEW D, NEW o, NEW X, NEW B, NEW H, NEW G, Runs(D, <<>>, o, X, B, H, G)
  PROVE  H = G
BY DEF Runs, Trace

\* A program suits another set of the damaged if it excuses no fewer.
LEMMA RunsStill ==
  ASSUME NEW D, NEW E, NEW N, NEW o, NEW X, NEW B, NEW H, NEW G, Runs(D, N, o, X, B, H, G), o \notin E => o \notin D
  PROVE  Runs(E, N, o, X, B, H, G)
<1>1. PICK tr : Trace(D, N, o, X, B, H, G, tr)
  BY DEF Runs
<1>2. Trace(E, N, o, X, B, H, G, tr)
  BY <1>1 DEF Trace, Does
<1> QED
  BY <1>1, <1>2 DEF Runs

\* One program after the other.
LEMMA RunsBoth ==
  ASSUME NEW D, NEW N, NEW M, NEW o, NEW X, NEW B, NEW H, NEW K, NEW G,
         Runs(D, N, o, X, B, H, K), Runs(D, M, o, X, B, K, G)
  PROVE  Runs(D, N \o M, o, X, B, H, G)
<1>1. PICK a : Trace(D, N, o, X, B, H, K, a)
  BY DEF Runs
<1>2. PICK b : Trace(D, M, o, X, B, K, G, b)
  BY DEF Runs
<1>3. Listing(N) /\ Listing(M)
  BY DEF Runs
<1>4. /\ Listing(N \o M) /\ Len(N \o M) = Len(N) + Len(M)
      /\ \A i \in 1 .. Len(N) + Len(M) : (N \o M)[i] = IF i <= Len(N) THEN N[i] ELSE M[i - Len(N)]
  BY <1>3 DEF Listing
<1> DEFINE tr == [i \in 1 .. Len(N) + Len(M) + 1 |-> IF i <= Len(N) THEN a[i] ELSE b[i - Len(N)]]
<1>5. tr[1] = H /\ tr[Len(N) + Len(M) + 1] = G
  BY <1>1, <1>2, <1>3 DEF Trace, Listing
<1>6. ASSUME NEW i \in 1 .. Len(N) + Len(M)
      PROVE  Does(D, (N \o M)[i], o, X, B, tr[i], tr[i + 1])
  <2>1. CASE i < Len(N)
    <3>1. (N \o M)[i] = N[i] /\ tr[i] = a[i] /\ tr[i + 1] = a[i + 1] /\ i \in 1 .. Len(N)
      BY <1>3, <1>4, <2>1 DEF Listing
    <3> QED
      BY <1>1, <3>1 DEF Trace
  <2>2. CASE i = Len(N)
    <3>1. (N \o M)[i] = N[i] /\ tr[i] = a[i] /\ tr[i + 1] = b[1] /\ i \in 1 .. Len(N)
      BY <1>3, <1>4, <2>2 DEF Listing
    <3>2. a[i + 1] = K /\ b[1] = K
      BY <1>1, <1>2, <2>2 DEF Trace
    <3> QED
      BY <1>1, <3>1, <3>2 DEF Trace
  <2>3. CASE i > Len(N)
    <3> DEFINE j == i - Len(N)
    <3>1. (N \o M)[i] = M[j] /\ tr[i] = b[j] /\ tr[i + 1] = b[j + 1] /\ j \in 1 .. Len(M)
      BY <1>3, <1>4, <2>3 DEF Listing
    <3> QED
      BY <1>2, <3>1 DEF Trace
  <2>4. i \in Int /\ Len(N) \in Int
    BY <1>3 DEF Listing
  <2>5. i < Len(N) \/ i = Len(N) \/ i > Len(N)
    BY <2>4
  <2> QED
    BY <2>1, <2>2, <2>3, <2>5
<1> HIDE DEF tr
<1>7. Trace(D, N \o M, o, X, B, H, G, tr)
  BY <1>4, <1>5, <1>6 DEF Trace
<1> QED
  BY <1>4, <1>7 DEF Runs

\* The first step of a program, and the program that remains.
LEMMA RunsNext ==
  ASSUME NEW D, NEW N, NEW o, NEW X, NEW B, NEW H, NEW G, Runs(D, N, o, X, B, H, G), N # <<>>
  PROVE  \E K : Does(D, Head(N), o, X, B, H, K) /\ Runs(D, Tail(N), o, X, B, K, G)
<1>1. PICK tr : Trace(D, N, o, X, B, H, G, tr)
  BY DEF Runs
<1>2. Listing(N) /\ Len(N) > 0 /\ Head(N) = N[1]
  BY DEF Runs, Listing
<1>3. Listing(Tail(N)) /\ Len(Tail(N)) = Len(N) - 1 /\ \A i \in 1 .. Len(N) - 1 : Tail(N)[i] = N[i + 1]
  BY <1>2 DEF Listing
<1> DEFINE t == [i \in 1 .. Len(N) |-> tr[i + 1]]
<1>4. Does(D, Head(N), o, X, B, H, tr[2])
  BY <1>1, <1>2 DEF Trace, Listing
<1>5. t[1] = tr[2] /\ t[Len(Tail(N)) + 1] = G
  BY <1>1, <1>2, <1>3 DEF Trace, Listing
<1>6. ASSUME NEW i \in 1 .. Len(Tail(N)) PROVE Does(D, Tail(N)[i], o, X, B, t[i], t[i + 1])
  <2>1. i + 1 \in 1 .. Len(N) /\ t[i] = tr[i + 1] /\ t[i + 1] = tr[i + 1 + 1] /\ Tail(N)[i] = N[i + 1]
    BY <1>2, <1>3 DEF Listing
  <2> QED
    BY <1>1, <2>1 DEF Trace
<1> HIDE DEF t
<1>7. Trace(D, Tail(N), o, X, B, tr[2], G, t)
  BY <1>5, <1>6 DEF Trace
<1> QED
  BY <1>3, <1>4, <1>7 DEF Runs

\* The first step of a program that touches something, or its end.
LEMMA FirstOf ==
  ASSUME NEW N, Listing(N)
  PROVE  /\ First(N) \in 1 .. Len(N) + 1
         /\ \A j \in 1 .. First(N) - 1 : N[j].idle
<1> DEFINE S == {i \in Nat : i >= 1 /\ (i = Len(N) + 1 \/ (i <= Len(N) /\ ~ N[i].idle))}
<1>1. S \subseteq Nat /\ Len(N) + 1 \in S
  BY DEF Listing
<1>2. PICK m \in S : \A j \in S : ~ (<<j, m>> \in OpToRel(<, Nat))
  BY <1>1, NatLessThanWellFounded, WFMin
<1>3. \A j \in S : ~ (j < m)
  BY <1>1, <1>2 DEF OpToRel
<1>4. m \in 1 .. Len(N) + 1 /\ (m = Len(N) + 1 \/ ~ N[m].idle)
  BY <1>3 DEF Listing
<1>5. \A j \in 1 .. m - 1 : N[j].idle
  BY <1>3, <1>4 DEF Listing
<1> QED
  BY <1>4, <1>5 DEF First

\* Skip drops steps from the front, and keeps the rest in order.
LEMMA SkipIs ==
  ASSUME NEW N, Listing(N)
  PROVE  /\ Listing(Skip(N)) /\ Len(Skip(N)) = Len(N) + 1 - First(N)
         /\ \A i \in 1 .. Len(Skip(N)) : Skip(N)[i] = N[i + First(N) - 1]
BY FirstOf DEF Skip, Listing

\* Idle steps make no difference.
LEMMA RunsSkip ==
  ASSUME NEW D, NEW N, NEW o, NEW X, NEW B, NEW H, NEW G, Runs(D, N, o, X, B, H, G), Touched(N)
  PROVE  Runs(D, Skip(N), o, X, B, H, G) /\ Touched(Skip(N))
<1> DEFINE n == First(N)
<1>1. PICK tr : Trace(D, N, o, X, B, H, G, tr)
  BY DEF Runs
<1>2. Listing(N) /\ n \in 1 .. Len(N) + 1 /\ \A j \in 1 .. n - 1 : N[j].idle
  BY FirstOf DEF Runs
<1>3. /\ Listing(Skip(N)) /\ Len(Skip(N)) = Len(N) + 1 - n
      /\ \A i \in 1 .. Len(Skip(N)) : Skip(N)[i] = N[i + n - 1]
  BY <1>2, SkipIs
<1>4. \A j \in 1 .. n - 1 : tr[j + 1] = tr[j]
  <2> SUFFICES ASSUME NEW j \in 1 .. n - 1 PROVE tr[j + 1] = tr[j]
    OBVIOUS
  <2>1. j \in 1 .. Len(N) /\ N[j].idle
    BY <1>2 DEF Listing
  <2>2. N[j].makes = {} /\ N[j].ends = {}
    BY <2>1 DEF Touched, Pure
  <2>3. tr[j + 1] = (tr[j] \union Shared(N[j].makes)) \ Shared(N[j].ends)
    BY <1>1, <2>1 DEF Trace, Does, Takes
  <2> QED
    BY <2>2, <2>3 DEF Shared
<1>5. tr[n] = H
  <2> DEFINE S == {i \in Nat : i \in 1 .. n /\ tr[i] # H}
  <2>1. SUFFICES ASSUME S # {} PROVE FALSE
    BY <1>2
  <2>2. PICK m \in S : \A j \in S : ~ (<<j, m>> \in OpToRel(<, Nat))
    BY <2>1, NatLessThanWellFounded, WFMin
  <2>3. \A j \in S : ~ (j < m)
    BY <2>2 DEF OpToRel
  <2>4. m # 1
    BY <1>1 DEF Trace
  <2>5. m - 1 \in 1 .. n - 1 /\ m - 1 \notin S /\ m - 1 + 1 = m /\ tr[m] # H
    BY <1>2, <2>3, <2>4 DEF Listing
  <2>6. tr[m - 1 + 1] = tr[m - 1] /\ tr[m - 1] = H
    BY <1>2, <1>4, <2>5 DEF Listing
  <2> QED
    BY <2>5, <2>6
<1> DEFINE t == [i \in 1 .. Len(N) + 2 - n |-> tr[i + n - 1]]
<1>6. t[1] = H /\ t[Len(Skip(N)) + 1] = G
  <2>1. Len(N) + 2 - n \in 1 .. Len(N) + 1 /\ Len(Skip(N)) + 1 = Len(N) + 2 - n
    BY <1>2, <1>3 DEF Listing
  <2>2. t[1] = tr[1 + n - 1] /\ t[Len(N) + 2 - n] = tr[Len(N) + 2 - n + n - 1]
    BY <1>2, <2>1 DEF Listing
  <2>3. 1 + n - 1 = n /\ Len(N) + 2 - n + n - 1 = Len(N) + 1
    BY <1>2 DEF Listing
  <2> QED
    BY <1>1, <1>5, <2>1, <2>2, <2>3 DEF Trace
<1>7. ASSUME NEW i \in 1 .. Len(Skip(N)) PROVE Does(D, Skip(N)[i], o, X, B, t[i], t[i + 1]) /\ Pure(Skip(N)[i])
  <2> DEFINE j == i + n - 1
  <2>1. j \in 1 .. Len(N) /\ i \in 1 .. Len(N) + 2 - n /\ i + 1 \in 1 .. Len(N) + 2 - n /\ i + 1 + n - 1 = j + 1
    BY <1>2, <1>3 DEF Listing
  <2>2. t[i] = tr[j] /\ t[i + 1] = tr[j + 1]
    BY <2>1
  <2>3. Skip(N)[i] = N[j]
    BY <1>3
  <2> QED
    BY <1>1, <2>1, <2>2, <2>3 DEF Trace, Touched
<1> HIDE DEF t, n
<1>8. Trace(D, Skip(N), o, X, B, H, G, t)
  BY <1>6, <1>7 DEF Trace
<1> QED
  BY <1>3, <1>7, <1>8 DEF Runs, Touched

\* A call, of which only the steps that matter to others are left.
LEMMA TouchingIs ==
  ASSUME NEW nif, Listing(nif.steps)
  PROVE  /\ Listing(Touching(nif)) /\ Len(Touching(nif)) = Len(nif.steps)
         /\ \A i \in 1 .. Len(nif.steps) :
              /\ Touching(nif)[i].checks = Shared(nif.steps[i].checks)
              /\ Touching(nif)[i].uses = Shared(nif.steps[i].uses)
              /\ Touching(nif)[i].makes = Shared(nif.steps[i].makes)
              /\ Touching(nif)[i].ends = Shared(nif.steps[i].ends)
              /\ Touching(nif)[i].undo = Shared(nif.steps[i].undo)
              /\ Touching(nif)[i].idle => ~ Matters(nif.steps[i])
<1> DEFINE M == {i \in 1 .. Len(nif.steps) : Matters(nif.steps[i])}
           at(i) == [checks |-> Shared(nif.steps[i].checks), uses |-> Shared(nif.steps[i].uses),
                     makes |-> Shared(nif.steps[i].makes), ends |-> Shared(nif.steps[i].ends),
                     undo |-> Shared(nif.steps[i].undo), fails |-> nif.steps[i].fails,
                     dirty |-> nif.dirty, idle |-> i \notin M, begun |-> \E j \in M : j < i]
<1>1. Touching(nif) = [i \in 1 .. Len(nif.steps) |-> at(i)]
  BY DEF Touching
<1>2. \A i \in 1 .. Len(nif.steps) :
        /\ at(i).checks = Shared(nif.steps[i].checks)
        /\ at(i).uses = Shared(nif.steps[i].uses)
        /\ at(i).makes = Shared(nif.steps[i].makes)
        /\ at(i).ends = Shared(nif.steps[i].ends)
        /\ at(i).undo = Shared(nif.steps[i].undo)
        /\ at(i).idle => ~ Matters(nif.steps[i])
  OBVIOUS
<1> HIDE DEF at
<1>3. /\ Listing(Touching(nif)) /\ Len(Touching(nif)) = Len(nif.steps)
      /\ \A i \in 1 .. Len(nif.steps) : Touching(nif)[i] = at(i)
  BY <1>1 DEF Listing
<1> QED
  BY <1>2, <1>3

\* Touching keeps a program's effect on what others may touch.
LEMMA TouchingRuns ==
  ASSUME NEW nif, NEW D, NEW o, NEW X, NEW B, NEW H, NEW G, Runs(D, nif.steps, o, X, B, H, G)
  PROVE  Runs(D, Touching(nif), o, X, B, H, G) /\ Touched(Touching(nif))
<1> DEFINE N == Touching(nif)
<1>1. Listing(nif.steps)
  BY DEF Runs
<1>2. \A xs : Shared(Shared(xs)) = Shared(xs)
  BY DEF Shared
<1>3. ASSUME NEW i \in 1 .. Len(nif.steps) PROVE Pure(N[i])
  <2>1. ASSUME ~ Matters(nif.steps[i])
        PROVE  /\ Shared(nif.steps[i].checks) = {} /\ Shared(nif.steps[i].uses) = {}
               /\ Shared(nif.steps[i].makes) = {} /\ Shared(nif.steps[i].ends) = {}
    BY <2>1 DEF Matters, Shared
  <2>2. /\ N[i].checks = Shared(nif.steps[i].checks) /\ N[i].uses = Shared(nif.steps[i].uses)
        /\ N[i].makes = Shared(nif.steps[i].makes) /\ N[i].ends = Shared(nif.steps[i].ends)
        /\ N[i].undo = Shared(nif.steps[i].undo) /\ (N[i].idle => ~ Matters(nif.steps[i]))
    BY <1>1, TouchingIs
  <2> HIDE DEF N
  <2> QED
    BY <1>2, <2>1, <2>2 DEF Pure
<1>4. PICK tr : Trace(D, nif.steps, o, X, B, H, G, tr)
  BY DEF Runs
<1>5. ASSUME NEW i \in 1 .. Len(nif.steps) PROVE Does(D, N[i], o, X, B, tr[i], tr[i + 1])
  <2>1. Does(D, nif.steps[i], o, X, B, tr[i], tr[i + 1])
    BY <1>4 DEF Trace
  <2> QED
    BY <1>1, <1>2, <2>1, TouchingIs DEF Does, Takes
<1>6. Trace(D, N, o, X, B, H, G, tr)
  BY <1>1, <1>4, <1>5, TouchingIs DEF Trace
<1> QED
  BY <1>1, <1>3, <1>6, TouchingIs DEF Runs, Touched

\* Two touched programs, one after the other.
LEMMA TouchedBoth ==
  ASSUME NEW N, NEW M, Listing(N), Listing(M), Touched(N), Touched(M)
  PROVE  Touched(N \o M)
<1>1. /\ Len(N \o M) = Len(N) + Len(M)
      /\ \A i \in 1 .. Len(N) + Len(M) : (N \o M)[i] = IF i <= Len(N) THEN N[i] ELSE M[i - Len(N)]
  BY DEF Listing
<1> QED
  BY <1>1 DEF Touched, Listing

\* Programs of one step to seven, step by step.
LEMMA OneRun ==
  ASSUME NEW D, NEW o, NEW X, NEW B, NEW s1, NEW H1, NEW H2,
         Does(D, s1, o, X, B, H1, H2)
  PROVE  Runs(D, <<s1>>, o, X, B, H1, H2)
<1>1. Trace(D, <<s1>>, o, X, B, H1, H2, <<H1, H2>>)
  BY DEF Trace
<1> QED
  BY <1>1 DEF Runs, Listing

LEMMA TwoRun ==
  ASSUME NEW D, NEW o, NEW X, NEW B, NEW s1, NEW s2, NEW H1, NEW H2, NEW H3,
         Does(D, s1, o, X, B, H1, H2), Does(D, s2, o, X, B, H2, H3)
  PROVE  Runs(D, <<s1, s2>>, o, X, B, H1, H3)
<1>1. Trace(D, <<s1, s2>>, o, X, B, H1, H3, <<H1, H2, H3>>)
  BY DEF Trace
<1> QED
  BY <1>1 DEF Runs, Listing

LEMMA ThreeRun ==
  ASSUME NEW D, NEW o, NEW X, NEW B, NEW s1, NEW s2, NEW s3, NEW H1, NEW H2, NEW H3, NEW H4,
         Does(D, s1, o, X, B, H1, H2), Does(D, s2, o, X, B, H2, H3), Does(D, s3, o, X, B, H3, H4)
  PROVE  Runs(D, <<s1, s2, s3>>, o, X, B, H1, H4)
<1>1. Trace(D, <<s1, s2, s3>>, o, X, B, H1, H4, <<H1, H2, H3, H4>>)
  BY DEF Trace
<1> QED
  BY <1>1 DEF Runs, Listing

LEMMA FourRun ==
  ASSUME NEW D, NEW o, NEW X, NEW B, NEW s1, NEW s2, NEW s3, NEW s4, NEW H1, NEW H2, NEW H3, NEW H4, NEW H5,
         Does(D, s1, o, X, B, H1, H2), Does(D, s2, o, X, B, H2, H3), Does(D, s3, o, X, B, H3, H4),
         Does(D, s4, o, X, B, H4, H5)
  PROVE  Runs(D, <<s1, s2, s3, s4>>, o, X, B, H1, H5)
<1>1. Trace(D, <<s1, s2, s3, s4>>, o, X, B, H1, H5, <<H1, H2, H3, H4, H5>>)
  BY DEF Trace
<1> QED
  BY <1>1 DEF Runs, Listing

LEMMA FiveRun ==
  ASSUME NEW D, NEW o, NEW X, NEW B, NEW s1, NEW s2, NEW s3, NEW s4, NEW s5, NEW H1, NEW H2, NEW H3, NEW H4,
         NEW H5, NEW H6,
         Does(D, s1, o, X, B, H1, H2), Does(D, s2, o, X, B, H2, H3), Does(D, s3, o, X, B, H3, H4),
         Does(D, s4, o, X, B, H4, H5), Does(D, s5, o, X, B, H5, H6)
  PROVE  Runs(D, <<s1, s2, s3, s4, s5>>, o, X, B, H1, H6)
<1>1. Trace(D, <<s1, s2, s3, s4, s5>>, o, X, B, H1, H6, <<H1, H2, H3, H4, H5, H6>>)
  BY DEF Trace
<1> QED
  BY <1>1 DEF Runs, Listing

LEMMA SevenRun ==
  ASSUME NEW D, NEW o, NEW X, NEW B, NEW s1, NEW s2, NEW s3, NEW s4, NEW s5, NEW s6, NEW s7, NEW H1, NEW H2,
         NEW H3, NEW H4, NEW H5, NEW H6, NEW H7, NEW H8,
         Does(D, s1, o, X, B, H1, H2), Does(D, s2, o, X, B, H2, H3), Does(D, s3, o, X, B, H3, H4),
         Does(D, s4, o, X, B, H4, H5), Does(D, s5, o, X, B, H5, H6), Does(D, s6, o, X, B, H6, H7),
         Does(D, s7, o, X, B, H7, H8)
  PROVE  Runs(D, <<s1, s2, s3, s4, s5, s6, s7>>, o, X, B, H1, H8)
<1>1. Trace(D, <<s1, s2, s3, s4, s5, s6, s7>>, o, X, B, H1, H8, <<H1, H2, H3, H4, H5, H6, H7, H8>>)
  BY DEF Trace
<1> QED
  BY <1>1 DEF Runs, Listing

\* The tokens, told apart by their first component, and their holders.
LEMMA Tokens ==
  /\ Context[1] = "context" /\ HolderOf(Context) = <<"context">>
  /\ \A g : /\ Node(g)[1] = "node" /\ HolderOf(Node(g)) = <<"owner", g>>
            /\ Thread(g)[1] = "thread" /\ HolderOf(Thread(g)) = <<"owner", g>>
            /\ ThreadContext(Thread(g))[1] = "thread_context" /\ HolderOf(ThreadContext(Thread(g))) = <<"owner", g>>
            /\ ExitCondition(Thread(g))[1] = "exit_condition" /\ HolderOf(ExitCondition(Thread(g))) = <<"owner", g>>
            /\ ThreadOpts(Thread(g))[1] = "thread_opts" /\ HolderOf(ThreadOpts(Thread(g))) = <<"owner", g>>
            /\ HolderOf(TermOf(Node(g))) = <<"owner", g>> /\ HolderOf(TermOf(Thread(g))) = <<"owner", g>>
  /\ \A e : /\ Handle(e)[1] = "entity" /\ HolderOf(Handle(e)) = <<e>>
            /\ Clock(e)[1] = "clock" /\ HolderOf(Clock(e)) = <<e>>
            /\ WaitSet(e)[1] = "wait_set" /\ HolderOf(WaitSet(e)) = <<e>>
            /\ HolderOf(TermOf(Handle(e))) = <<e>> /\ HolderOf(TermOf(Clock(e))) = <<e>>
            /\ HolderOf(TermOf(WaitSet(e))) = <<e>>
            /\ \A ch : /\ HolderOf(Registered(Handle(e), ch)) = <<e>> /\ HolderOf(Active(Handle(e), ch)) = <<e>>
                       /\ \A r \in {"alloc", "keep", "term"} : HolderOf(Ref(r, Handle(e), ch)) = <<e>>
  /\ \A h : TermOf(h)[1] = "term"
  /\ \A h, ch : Registered(h, ch)[1] = "registered" /\ Active(h, ch)[1] = "active"
  /\ \A r, h, ch : Ref(r, h, ch)[1] = r
  /\ \A b : Block(b)[1] = "block"
<1> USE DEF HolderOf, Base, Context, Node, Thread, ThreadContext, ExitCondition, ThreadOpts, TermOf, Handle,
            Clock, WaitSet, Registered, Active, Ref, Block
<1>1. Context[1] = "context" /\ HolderOf(Context) = <<"context">>
  OBVIOUS
<1>2. \A g : /\ Node(g)[1] = "node" /\ HolderOf(Node(g)) = <<"owner", g>>
            /\ Thread(g)[1] = "thread" /\ HolderOf(Thread(g)) = <<"owner", g>>
  OBVIOUS
<1>3. \A g : /\ ThreadContext(Thread(g))[1] = "thread_context" /\ HolderOf(ThreadContext(Thread(g))) = <<"owner", g>>
             /\ ExitCondition(Thread(g))[1] = "exit_condition" /\ HolderOf(ExitCondition(Thread(g))) = <<"owner", g>>
             /\ ThreadOpts(Thread(g))[1] = "thread_opts" /\ HolderOf(ThreadOpts(Thread(g))) = <<"owner", g>>
  OBVIOUS
<1>4. \A g : HolderOf(TermOf(Node(g))) = <<"owner", g>> /\ HolderOf(TermOf(Thread(g))) = <<"owner", g>>
  OBVIOUS
<1>5. \A e : /\ Handle(e)[1] = "entity" /\ HolderOf(Handle(e)) = <<e>>
            /\ Clock(e)[1] = "clock" /\ HolderOf(Clock(e)) = <<e>>
            /\ WaitSet(e)[1] = "wait_set" /\ HolderOf(WaitSet(e)) = <<e>>
  OBVIOUS
<1>6. \A e : /\ HolderOf(TermOf(Handle(e))) = <<e>> /\ HolderOf(TermOf(Clock(e))) = <<e>>
            /\ HolderOf(TermOf(WaitSet(e))) = <<e>>
  OBVIOUS
<1>7. \A e, ch : /\ HolderOf(Registered(Handle(e), ch)) = <<e>> /\ HolderOf(Active(Handle(e), ch)) = <<e>>
                       /\ \A r \in {"alloc", "keep", "term"} : HolderOf(Ref(r, Handle(e), ch)) = <<e>>
  OBVIOUS
<1> QED
  BY <1>1, <1>2, <1>3, <1>4, <1>5, <1>6, <1>7

\* The kinds of steps. H has to be allowed before a step that leaves it as it is.
LEMMA StaysDoes ==
  ASSUME NEW D, NEW o, NEW X, NEW B, NEW H, NEW s, o \notin D => H \in B, Shared(s.uses) \subseteq H \union X,
         o \notin D => Shared(s.checks) \subseteq H \union X, Shared(s.makes) = {}, Shared(s.ends) = {},
         Shared(s.undo) = {}
  PROVE  Does(D, s, o, X, B, H, H)
BY DEF Does, Takes

\* The steps NIFs are made of: what each needs and what it leaves.
LEMMA ArgsDoes ==
  ASSUME NEW D, NEW o, NEW X, NEW B, NEW H, o \notin D => H \in B
  PROVE  /\ Does(D, Args, o, X, B, H, H) /\ Does(D, Name, o, X, B, H, H) /\ Does(D, Qos, o, X, B, H, H)
         /\ \A f : Does(D, Use({}, f), o, X, B, H, H)
BY DEF Does, Takes, Args, Name, Qos, Use, Step, Shared

LEMMA ValidDoes ==
  ASSUME NEW D, NEW o, NEW X, NEW B, NEW H, NEW h, o \notin D => H \in B, o \notin D => h \in H \union X
  PROVE  Does(D, Valid(h), o, X, B, H, H)
BY DEF Does, Takes, Valid, Step, Shared

LEMMA UseDoes ==
  ASSUME NEW D, NEW o, NEW X, NEW B, NEW H, NEW u, NEW f, o \notin D => H \in B, u \subseteq H \union X
  PROVE  Does(D, Use(u, f), o, X, B, H, H)
BY DEF Does, Takes, Use, Step, Shared

LEMMA MakeDoes ==
  ASSUME NEW D, NEW o, NEW X, NEW B, NEW H, NEW u, NEW m, NEW f, NEW G, G = H \union m, o \notin D => G \in B,
         Shared(u) \subseteq H \union X, \A x \in m : x[1] # "block" /\ HolderOf(x) = o
  PROVE  Does(D, Make(u, m, f), o, X, B, H, G)
BY DEF Does, Takes, Make, Step, Shared

LEMMA TermDoes ==
  ASSUME NEW D, NEW o, NEW X, NEW B, NEW H, NEW h, NEW G, G = H \union {TermOf(h)}, o \notin D => G \in B,
         h \in H \union X, HolderOf(TermOf(h)) = o
  PROVE  Does(D, Term(h), o, X, B, H, G)
BY MakeDoes, Tokens DEF Term, Shared

LEMMA EndDoes ==
  ASSUME NEW D, NEW o, NEW X, NEW B, NEW H, NEW u, NEW e, NEW f, NEW G, G = H \ e, o \notin D => G \in B,
         u \subseteq H \union X, \A x \in e : x[1] # "block" /\ HolderOf(x) = o
  PROVE  Does(D, End(u, e, f), o, X, B, H, G)
BY DEF Does, Takes, End, Step, Shared

\* Calls that only look at handles.
LEMMA LookRuns ==
  ASSUME NEW D, NEW o, NEW X, NEW B, NEW H, NEW h, o \notin D => H \in B, h \in H \union X
  PROVE  /\ Runs(D, nif_rcl_take(h).steps, o, X, B, H, H)
         /\ Runs(D, nif_rcl_take_request_with_info(h).steps, o, X, B, H, H)
         /\ Runs(D, nif_rcl_node_get_graph_guard_condition(h).steps, o, X, B, H, H)
         /\ Runs(D, nif_rcl_timer_is_ready(h).steps, o, X, B, H, H)
         /\ Runs(D, nif_rcl_timer_call(h).steps, o, X, B, H, H)
<1>1. /\ Does(D, Args, o, X, B, H, H) /\ Does(D, Valid(h), o, X, B, H, H)
      /\ \A f : Does(D, Use({h}, f), o, X, B, H, H)
  BY ArgsDoes, ValidDoes, UseDoes
<1>2. /\ \A f : Runs(D, <<Args, Use({h}, f)>>, o, X, B, H, H)
      /\ \A f : Runs(D, <<Args, Valid(h), Use({h}, f)>>, o, X, B, H, H)
      /\ \A f : Runs(D, <<Args, Valid(h), Args, Use({h}, f)>>, o, X, B, H, H)
  BY <1>1, TwoRun, ThreeRun, FourRun
<1> QED
  BY <1>2 DEF nif_rcl_take, nif_rcl_take_request_with_info, nif_rcl_node_get_graph_guard_condition,
              nif_rcl_timer_is_ready, nif_rcl_timer_call, Regular, DirtyIo

\* A wait needs its wait set and its timer.
LEMMA WaitRuns ==
  ASSUME NEW D, NEW o, NEW X, NEW B, NEW H, NEW w, NEW t, o \notin D => H \in B, w \in H \union X, t \in H \union X
  PROVE  Runs(D, nif_rcl_wait_timer(w, t).steps, o, X, B, H, H)
<1>1. /\ Does(D, Args, o, X, B, H, H) /\ Does(D, Valid(w), o, X, B, H, H)
      /\ \A f : Does(D, Use({}, f), o, X, B, H, H) /\ Does(D, Use({w}, f), o, X, B, H, H)
                /\ Does(D, Use({w, t}, f), o, X, B, H, H)
  BY ArgsDoes, ValidDoes, UseDoes
<1>2. /\ Runs(D, <<Args, Valid(w), Args, Use({}, {"raise"}), Args>>, o, X, B, H, H)
      /\ Runs(D, <<>>, o, X, B, H, H)
      /\ Runs(D, <<Use({w}, {"raise"}), Use({w, t}, {"raise"}), Use({w, t}, {"timeout", "raise"})>>,
              o, X, B, H, H)
  BY <1>1, FiveRun, ThreeRun, RunsNothing
<1> QED
  BY <1>2, RunsBoth DEF nif_rcl_wait_timer, WaitFor, DirtyIo

\* An argument that is nil, of which a call is refused.
LEMMA NilRuns ==
  ASSUME NEW D, NEW o, NEW X, NEW B, NEW H, o \in D
  PROVE  Runs(D, NilArgument.steps, o, X, B, H, H)
<1>1. Does(D, Valid(<<"nil">>), o, X, B, H, H)
  BY ValidDoes
<1> QED
  BY <1>1, OneRun DEF NilArgument, Regular

\* Calls that finalise a handle.
LEMMA FiniRuns ==
  ASSUME NEW D, NEW o, NEW X, NEW B, NEW H, NEW h, h \in H, h[1] # "block", HolderOf(h) = o,
         o \notin D => H \in B /\ H \ {h} \in B
  PROVE  /\ Runs(D, nif_rcl_fini(h).steps, o, X, B, H, H \ {h})
         /\ Runs(D, nif_rcl_node_fini(h).steps, o, X, B, H, H \ {h})
         /\ Runs(D, nif_rcl_wait_set_fini(h).steps, o, X, B, H, H \ {h})
         /\ Runs(D, nif_rcl_timer_fini(h).steps, o, X, B, H, H \ {h})
         /\ Runs(D, nif_rcl_clock_fini(h).steps, o, X, B, H, H \ {h})
<1>1. /\ Does(D, Args, o, X, B, H, H) /\ Does(D, Valid(h), o, X, B, H, H)
      /\ Does(D, Use({h}, {"raise"}), o, X, B, H, H)
  BY ArgsDoes, ValidDoes, UseDoes
<1>2. \A f : Does(D, End({h}, {h}, f), o, X, B, H, H \ {h})
  BY EndDoes
<1>3. /\ \A f : Runs(D, <<Args, End({h}, {h}, f)>>, o, X, B, H, H \ {h})
      /\ \A f : Runs(D, <<Args, Valid(h), End({h}, {h}, f)>>, o, X, B, H, H \ {h})
      /\ \A f : Runs(D, <<Args, Valid(h), Use({h}, {"raise"}), End({h}, {h}, f)>>, o, X, B, H, H \ {h})
  BY <1>1, <1>2, TwoRun, ThreeRun, FourRun
<1> QED
  BY <1>3 DEF nif_rcl_fini, nif_rcl_node_fini, nif_rcl_wait_set_fini, nif_rcl_timer_fini, nif_rcl_clock_fini,
              DirtyIo

\* What the middleware calls back with.
References(h, ch) == {Ref("alloc", h, ch), Ref("keep", h, ch), Active(h, ch)}

\* An entity is of one kind.
LEMMA Kinds ==
  /\ Subscriptions \intersect Services = {} /\ Subscriptions \intersect Timers = {}
  /\ Services \intersect Timers = {}
BY StackAssumption
----------------------------------------------------------------------------
(* The processes *)

\* Whose the tokens of a process are, and what others hold for it.
HolderAt(p, g) == IF p = "owner" THEN <<"owner", g>> ELSE <<p>>
External(p, g) == IF p = "context" THEN {} ELSE IF p = "owner" THEN {Context} ELSE {Context, Node(g)}

\* What a process has when its init has returned, and when it serves.
Channel(p) == IF p \in Subscriptions THEN "message" ELSE "request"
Made(h) == {h, TermOf(h)}
Started(p, g) ==
  CASE p = "context" -> {Context}
    [] p = "owner"   -> Made(Node(g))
    [] p \in Timers  -> Made(Clock(p)) \union Made(Handle(p)) \union Made(WaitSet(p))
    [] p \in Subscriptions \union Services -> Made(Handle(p))
Added(p, g) ==
  CASE p = "owner" -> {ThreadContext(Thread(g)), ThreadOpts(Thread(g)), ExitCondition(Thread(g))}
         \union Made(Thread(g))
    [] p \in Timers \union {"context"} -> {}
    [] p \in Subscriptions \union Services ->
         References(Handle(p), Channel(p))
         \union {Registered(Handle(p), Channel(p)), Ref("term", Handle(p), Channel(p))}
Working(p, g) == Started(p, g) \union Added(p, g)

\* The tokens of the same process that a token cannot do without.
Requires(x) ==
  CASE x[1] = "thread" -> {Node(x[2]), ThreadContext(x), ExitCondition(x)}
    [] x[1] = "entity" /\ x[2] \in Timers -> {Clock(x[2])}
    [] x[1] = "registered" -> {x[2], Ref("keep", x[2], x[3])}
    [] OTHER -> {}
Stands(H) == \A x \in H : Requires(x) \subseteq H

Standing(p, g) == {G \in SUBSET Working(p, g) : Stands(G)}
Serving(p, g)  == {G \in Standing(p, g) :
                     /\ Started(p, g) \subseteq G
                     /\ Ref("term", Handle(p), Channel(p)) \in G => Ref("keep", Handle(p), Channel(p)) \in G}

\* Requires, token by token.
LEMMA Requirements ==
  /\ \A g : Requires(Thread(g)) = {Node(g), ThreadContext(Thread(g)), ExitCondition(Thread(g))}
  /\ \A e : Requires(Handle(e)) = IF e \in Timers THEN {Clock(e)} ELSE {}
  /\ \A h, ch : Requires(Registered(h, ch)) = {h, Ref("keep", h, ch)}
  /\ \A x : x[1] \notin {"thread", "entity", "registered"} => Requires(x) = {}
<1>1. /\ \A g : Thread(g)[2] = g
      /\ \A e : Handle(e)[2] = e
      /\ \A h, ch : Registered(h, ch)[2] = h /\ Registered(h, ch)[3] = ch
  BY DEF Thread, Handle, Registered
<1>2. /\ \A g : Thread(g)[1] = "thread"
      /\ \A e : Handle(e)[1] = "entity"
      /\ \A h, ch : Registered(h, ch)[1] = "registered"
  BY Tokens
<1>3. \A g : Requires(Thread(g)) = {Node(g), ThreadContext(Thread(g)), ExitCondition(Thread(g))}
  BY <1>1, <1>2 DEF Requires
<1>4. \A e : Requires(Handle(e)) = IF e \in Timers THEN {Clock(e)} ELSE {}
  BY <1>1, <1>2 DEF Requires
<1>5. \A h, ch : Requires(Registered(h, ch)) = {h, Ref("keep", h, ch)}
  BY <1>1, <1>2 DEF Requires
<1>6. \A x : x[1] \notin {"thread", "entity", "registered"} => Requires(x) = {}
  BY DEF Requires
<1> QED
  BY <1>3, <1>4, <1>5, <1>6

\* A program and its steps.
Leads(D, N, p, g, B, H, G) == Runs(D, N, HolderAt(p, g), External(p, g), B, H, G) /\ Touched(N)

LEMMA LeadsBoth ==
  ASSUME NEW D, NEW N, NEW M, NEW p, NEW g, NEW B, NEW H, NEW K, NEW G,
         Leads(D, N, p, g, B, H, K), Leads(D, M, p, g, B, K, G)
  PROVE  Leads(D, N \o M, p, g, B, H, G)
BY RunsBoth, TouchedBoth DEF Leads, Runs

\* A NIF that suits a process does so as Touching has it;
LEMMA LeadsCall ==
  ASSUME NEW D, NEW nif, NEW p, NEW g, NEW B, NEW H, NEW G,
         Runs(D, nif.steps, HolderAt(p, g), External(p, g), B, H, G)
  PROVE  Leads(D, Touching(nif), p, g, B, H, G)
BY TouchingRuns DEF Leads

\* so does nothing at all,
LEMMA LeadsNothing ==
  ASSUME NEW D, NEW p, NEW g, NEW B, NEW H
  PROVE  Leads(D, <<>>, p, g, B, H, H)
BY RunsNothing DEF Leads, Touched

\* and a program whose idle steps are left out.
LEMMA LeadsSkip ==
  ASSUME NEW D, NEW N, NEW p, NEW g, NEW B, NEW H, NEW G, Leads(D, N, p, g, B, H, G)
  PROVE  Leads(D, Skip(N), p, g, B, H, G)
BY RunsSkip DEF Leads
----------------------------------------------------------------------------
(* The owner *)

LEMMA OwnerSets ==
  ASSUME NEW g, NEW G
  PROVE  LET n == Node(g)
             t == Thread(g)
             W == {n, TermOf(n), ThreadContext(t), ThreadOpts(t), ExitCondition(t), t, TermOf(t)}
         IN  /\ Started("owner", g) = {n, TermOf(n)} /\ Working("owner", g) = W
             /\ G \in Standing("owner", g)
                  <=> G \subseteq W /\ (t \in G => n \in G /\ ThreadContext(t) \in G /\ ExitCondition(t) \in G)
             /\ G \in Serving("owner", g) <=> G \in Standing("owner", g) /\ n \in G /\ TermOf(n) \in G
<1> DEFINE n == Node(g)
           t == Thread(g)
           W == {n, TermOf(n), ThreadContext(t), ThreadOpts(t), ExitCondition(t), t, TermOf(t)}
<1>1. "owner" \notin Timers \union Subscriptions \union Services
  BY StackAssumption DEF Entities
<1>2. Started("owner", g) = {n, TermOf(n)}
  BY <1>1 DEF Started, Made
<1>3. Added("owner", g) = {ThreadContext(t), ThreadOpts(t), ExitCondition(t)} \union Made(t)
  BY <1>1 DEF Added
<1>4. Working("owner", g) = W
  BY <1>2, <1>3 DEF Working, Made
<1>5. \A x \in W : Requires(x) = IF x = t THEN {n, ThreadContext(t), ExitCondition(t)} ELSE {}
  BY Requirements, Tokens
<1>6. G \in Standing("owner", g)
        <=> G \subseteq W /\ (t \in G => n \in G /\ ThreadContext(t) \in G /\ ExitCondition(t) \in G)
  BY <1>4, <1>5 DEF Standing, Stands
<1>7. Ref("term", Handle("owner"), Channel("owner")) \notin W
  BY DEF Ref, TermOf, Node, Thread, ThreadContext, ThreadOpts, ExitCondition, Handle
<1>8. G \in Serving("owner", g) <=> G \in Standing("owner", g) /\ n \in G /\ TermOf(n) \in G
  BY <1>2, <1>6, <1>7 DEF Serving
<1> QED
  BY <1>2, <1>4, <1>6, <1>8

\* rcl_node_init makes the node.
LEMMA OwnerInitLeads ==
  ASSUME NEW D, NEW g \in Generations
  PROVE  Leads(D, InitOf["owner"][g], "owner", g, Standing("owner", g), {}, Started("owner", g))
<1> DEFINE c == Context
           n == Node(g)
           o == HolderAt("owner", g)
           X == External("owner", g)
           B == Standing("owner", g)
           H0 == {}
           H1 == H0 \union {n}
           H2 == H1 \union {TermOf(n)}
           args    == Block("ros_args")
           options == Block("node_options")
<1>1. InitOf["owner"][g] = Touching(nif_rcl_node_init(c, n))
  BY StackAssumption DEF InitOf, Entities
<1>2. H0 \in B /\ H1 \in B /\ H2 \in B /\ H2 = Started("owner", g)
  <2>1. \A G : G \subseteq {n, TermOf(n)} /\ Thread(g) \notin G => G \in B
    BY OwnerSets
  <2>2. Thread(g) # n /\ Thread(g) # TermOf(n)
    BY Tokens
  <2>3. H2 = Started("owner", g)
    BY OwnerSets
  <2>4. \A G : G \subseteq {n, TermOf(n)} => G \in B
    BY <2>1, <2>2
  <2> QED
    BY <2>3, <2>4
<1>3. c \in X /\ HolderOf(n) = o /\ HolderOf(TermOf(n)) = o /\ n[1] # "block"
  BY Tokens DEF HolderAt, External
<1>4. H1 = H0 \union {n} /\ H2 = H1 \union {TermOf(n)} /\ n \in H1
  OBVIOUS
<1>5. /\ Shared({args}) = {} /\ Shared({options}) = {} /\ Shared({args, options}) = {}
      /\ Shared({}) = {} /\ Shared({c, options}) \subseteq {c} /\ Shared({n}) = {n}
  BY <1>3, Tokens DEF Shared
<1> HIDE DEF c, n, o, X, B, H0, H1, H2
<1>6. Runs(D, <<Args, Valid(c), Name, Name>>, o, X, B, H0, H0)
  BY <1>2, <1>3, ArgsDoes, ValidDoes, FourRun
<1>7. Runs(D, parse_ros_args, o, X, B, H0, H0) /\ Runs(D, free_ros_args, o, X, B, H0, H0)
  <2>1. Does(D, Make({}, {Block("ros_args")}, {"badarg"}), o, X, B, H0, H0)
    BY <1>2, <1>5, StaysDoes DEF Make, Step
  <2>2. Does(D, End({Block("ros_args")}, {Block("ros_args")}, {}), o, X, B, H0, H0)
    BY <1>2, <1>5, StaysDoes DEF End, Step
  <2> QED
    BY <2>1, <2>2, OneRun DEF parse_ros_args, free_ros_args
<1>8. Runs(D, <<Make({}, {options}, {}), Undo(Use({args, options}, {"raise"}), {args, options})>>, o, X, B, H0, H0)
  <2>1. Does(D, Make({}, {options}, {}), o, X, B, H0, H0)
    BY <1>2, <1>5, StaysDoes DEF Make, Step
  <2>2. Does(D, Undo(Use({args, options}, {"raise"}), {args, options}), o, X, B, H0, H0)
    BY <1>2, <1>5, StaysDoes DEF Use, Undo, Step
  <2> QED
    BY <2>1, <2>2, TwoRun
<1>9. Runs(D, <<Undo(Make({c, options}, {n}, {"raise"}), {options}), End({}, {options}, {"raise"}), Term(n)>>,
           o, X, B, H0, H2)
  <2>1. Does(D, Undo(Make({c, options}, {n}, {"raise"}), {options}), o, X, B, H0, H1)
    BY <1>2, <1>3, <1>4, <1>5 DEF Does, Takes, Make, Undo, Step
  <2>2. Does(D, End({}, {options}, {"raise"}), o, X, B, H1, H1)
    BY <1>2, <1>5, StaysDoes DEF End, Step
  <2>3. Does(D, Term(n), o, X, B, H1, H2)
    BY <1>2, <1>3, <1>4, TermDoes
  <2> QED
    BY <2>1, <2>2, <2>3, ThreeRun
<1>10. Runs(D, nif_rcl_node_init(c, n).steps, o, X, B, H0, H2)
  BY <1>6, <1>7, <1>8, <1>9, RunsBoth DEF nif_rcl_node_init, DirtyIo
<1>11. Leads(D, Touching(nif_rcl_node_init(c, n)), "owner", g, B, H0, H2)
  BY <1>10, LeadsCall DEF o, X
<1> QED
  BY <1>1, <1>2, <1>11 DEF B, H0

\* The borrow starts the wait thread, whose node is there.
LEMMA BorrowedLeads ==
  ASSUME NEW D, NEW g \in Generations
  PROVE  Leads(D, Borrowed[g], "owner", g, Serving("owner", g), Started("owner", g), Working("owner", g))
<1> DEFINE c == Context
           n == Node(g)
           t == Thread(g)
           o == HolderAt("owner", g)
           X == External("owner", g)
           B == Serving("owner", g)
           H0 == Started("owner", g)
           H1 == H0 \union {ThreadContext(t)}
           H2 == H1 \union {ThreadOpts(t)}
           H3 == H2 \union {ExitCondition(t)}
           H4 == H3 \union {t}
           H5 == H4 \union {TermOf(t)}
<1>1. Borrowed[g] = Touching(nif_rcl_node_get_graph_guard_condition(n))
                    \o Touching(nif_node_start_waitset_thread(c, n, t))
  BY DEF Borrowed
<1>2. H0 = {n, TermOf(n)} /\ n \in H0 /\ H5 = Working("owner", g)
  BY OwnerSets
<1>3. t \notin H0 /\ t \notin H1 /\ t \notin H2 /\ t \notin H3
  BY <1>2, Tokens
<1>4. H0 \in B /\ H1 \in B /\ H2 \in B /\ H3 \in B
  BY <1>2, <1>3, OwnerSets
<1>5. H4 \in B /\ H5 \in B
  BY <1>2, OwnerSets
<1>6. /\ HolderOf(ThreadContext(t)) = o /\ HolderOf(ThreadOpts(t)) = o /\ HolderOf(ExitCondition(t)) = o
      /\ HolderOf(t) = o /\ HolderOf(TermOf(t)) = o /\ c \in X
  BY Tokens DEF HolderAt, External
<1>7. /\ ThreadContext(t)[1] # "block" /\ ThreadOpts(t)[1] # "block" /\ ExitCondition(t)[1] # "block"
      /\ t[1] # "block"
  BY Tokens
<1>8. /\ H1 = H0 \union {ThreadContext(t)} /\ H2 = H1 \union {ThreadOpts(t)}
      /\ H3 = H2 \union {ExitCondition(t)} /\ H4 = H3 \union {t} /\ H5 = H4 \union {TermOf(t)}
      /\ n \in H3 /\ ThreadContext(t) \in H3 /\ t \in H4
  BY <1>2
<1> HIDE DEF c, n, t, o, X, B, H0, H1, H2, H3, H4, H5
<1>9. Shared({}) \subseteq {} /\ Shared({c}) \subseteq X /\ Shared({n, ThreadContext(t)}) \subseteq H3
  BY <1>6, <1>8 DEF Shared
<1>10. Does(D, Args, o, X, B, H0, H0) /\ Does(D, Valid(c), o, X, B, H0, H0)
  BY <1>4, <1>6, ArgsDoes, ValidDoes
<1>11. Does(D, Make({}, {ThreadContext(t)}, {"raise"}), o, X, B, H0, H1)
  BY <1>4, <1>6, <1>7, <1>8, <1>9, MakeDoes
<1>12. Does(D, Make({}, {ThreadOpts(t)}, {"raise"}), o, X, B, H1, H2)
  BY <1>4, <1>6, <1>7, <1>8, <1>9, MakeDoes
<1>13. Does(D, Make({c}, {ExitCondition(t)}, {"raise"}), o, X, B, H2, H3)
  BY <1>4, <1>6, <1>7, <1>8, <1>9, MakeDoes
<1>14. Does(D, Make({n, ThreadContext(t)}, {t}, {"raise"}), o, X, B, H3, H4)
  BY <1>5, <1>6, <1>7, <1>8, <1>9, MakeDoes
<1>15. Does(D, Term(t), o, X, B, H4, H5)
  BY <1>5, <1>6, <1>8, TermDoes
<1>16. Runs(D, nif_node_start_waitset_thread(c, n, t).steps, o, X, B, H0, H5)
  BY <1>10, <1>11, <1>12, <1>13, <1>14, <1>15, SevenRun DEF nif_node_start_waitset_thread, Regular
<1>17. Runs(D, nif_rcl_node_get_graph_guard_condition(n).steps, o, X, B, H0, H0)
  BY <1>2, <1>4, LookRuns
<1>18. /\ Leads(D, Touching(nif_rcl_node_get_graph_guard_condition(n)), "owner", g, B, H0, H0)
       /\ Leads(D, Touching(nif_node_start_waitset_thread(c, n, t)), "owner", g, B, H0, H5)
  BY <1>16, <1>17, LeadsCall DEF o, X
<1>19. Leads(D, Borrowed[g], "owner", g, B, H0, H5)
  BY <1>1, <1>18, LeadsBoth
<1> QED
  BY <1>2, <1>19 DEF B, H0

\* The owner's terminate: the thread, if any, is joined before the node goes.
LEMMA OwnerEndsLeads ==
  ASSUME NEW D, NEW g \in Generations, NEW H \in Serving("owner", g),
         HolderAt("owner", g) \notin D => H = Working("owner", g)
  PROVE  \E G : /\ Leads(D, TerminateOf["owner"][g][(Thread(g) \in H)], "owner", g, Standing("owner", g), H, G)
                /\ HolderAt("owner", g) \notin D => \A x \in G : x[1] \in Memory
<1> DEFINE n == Node(g)
           t == Thread(g)
           o == HolderAt("owner", g)
           X == External("owner", g)
           B == Standing("owner", g)
           H1 == H \ {t}
           H2 == H1 \ {ThreadOpts(t)}
           H3 == H2 \ {ExitCondition(t)}
           K == IF t \in H THEN H3 ELSE H
           G == K \ {n}
<1>1. TerminateOf["owner"][g][(t \in H)]
        = (IF t \in H THEN Touching(nif_node_stop_waitset_thread(t)) ELSE <<>>) \o Touching(nif_rcl_node_fini(n))
  <2>1. \A has \in BOOLEAN : TerminateOf["owner"][g][has] = OwnerEnds(g, has)
    BY StackAssumption DEF TerminateOf, Entities, Processes
  <2>2. (t \in H) \in BOOLEAN
    OBVIOUS
  <2>3. TerminateOf["owner"][g][(t \in H)] = OwnerEnds(g, t \in H)
    BY <2>1, <2>2, Zenon
  <2> QED
    BY <2>3, Zenon DEF OwnerEnds
<1>2. /\ H \in B /\ n \in H /\ H \subseteq Working("owner", g)
      /\ t \in H => ThreadContext(t) \in H /\ ExitCondition(t) \in H
  BY OwnerSets
<1>3. n \notin {t, ThreadOpts(t), ExitCondition(t)} /\ ThreadContext(t) # t
  BY Tokens
<1>4. H1 \in B /\ H2 \in B /\ H3 \in B /\ H3 \ {n} \in B
  BY <1>2, OwnerSets
<1>5. o \notin D => t \in H
  BY OwnerSets
<1>6. /\ HolderOf(n) = o /\ HolderOf(ThreadOpts(t)) = o /\ HolderOf(ExitCondition(t)) = o /\ HolderOf(t) = o
  BY Tokens DEF HolderAt
<1>7. n[1] # "block" /\ ThreadOpts(t)[1] # "block" /\ ExitCondition(t)[1] # "block" /\ t[1] # "block"
  BY Tokens
<1>8. H1 = H \ {t} /\ H2 = H1 \ {ThreadOpts(t)} /\ H3 = H2 \ {ExitCondition(t)}
  OBVIOUS
<1>9. o \notin D => \A x \in G : x[1] \in Memory
  <2>1. ASSUME o \notin D PROVE G \subseteq {TermOf(n), TermOf(t), ThreadContext(t)}
    BY <1>5, <2>1, OwnerSets
  <2>2. TermOf(n)[1] \in Memory /\ TermOf(t)[1] \in Memory /\ ThreadContext(t)[1] \in Memory
    BY Tokens DEF Memory
  <2> QED
    BY <2>1, <2>2
<1>10. n \in K /\ (o \notin D => K \in B) /\ (o \notin D => K \ {n} \in B) /\ G = K \ {n}
  BY <1>2, <1>3, <1>4, <1>5
<1>11. (t \in H => K = H3) /\ (t \notin H => K = H)
  OBVIOUS
<1> HIDE DEF n, t, o, X, B, H1, H2, H3, K, G
<1>14. Leads(D, IF t \in H THEN Touching(nif_node_stop_waitset_thread(t)) ELSE <<>>, "owner", g, B, H, K)
  <2>1. CASE t \in H
    <3>1. Does(D, Args, o, X, B, H, H) /\ Does(D, Use({ExitCondition(t)}, {"raise"}), o, X, B, H, H)
      BY <1>2, <2>1, ArgsDoes, UseDoes
    <3>2. Does(D, End({ThreadContext(t)}, {t}, {"raise"}), o, X, B, H, H1)
      BY <1>2, <1>4, <1>6, <1>7, <1>8, <2>1, EndDoes
    <3>3. Does(D, End({}, {ThreadOpts(t)}, {}), o, X, B, H1, H2)
      BY <1>4, <1>6, <1>7, <1>8, EndDoes
    <3>4. Does(D, End({}, {ExitCondition(t)}, {"fini_failed"}), o, X, B, H2, H3)
      BY <1>4, <1>6, <1>7, <1>8, EndDoes
    <3>5. Runs(D, nif_node_stop_waitset_thread(t).steps, o, X, B, H, H3)
      BY <3>1, <3>2, <3>3, <3>4, FiveRun DEF nif_node_stop_waitset_thread, Regular
    <3> QED
      BY <1>11, <2>1, <3>5, LeadsCall DEF o, X
  <2>2. CASE t \notin H
    BY <1>11, <2>2, LeadsNothing
  <2> QED
    BY <2>1, <2>2
<1>15. Runs(D, nif_rcl_node_fini(n).steps, o, X, B, K, G)
  BY <1>6, <1>7, <1>10, FiniRuns
<1>16. Leads(D, Touching(nif_rcl_node_fini(n)), "owner", g, B, K, G)
  BY <1>15, LeadsCall DEF o, X
<1>17. Leads(D, TerminateOf["owner"][g][(t \in H)], "owner", g, B, H, G)
  BY <1>1, <1>14, <1>16, LeadsBoth
<1> QED
  BY <1>9, <1>17 DEF o, B, t

----------------------------------------------------------------------------
(* Subscriptions and services *)

Talkers == Subscriptions \union Services

\* What a subscription or a service has.
LEMMA TalkerSets ==
  ASSUME NEW p \in Talkers, NEW g, NEW G
  PROVE  LET h  == Handle(p)
             ch == Channel(p)
             W  == {h, TermOf(h), Ref("alloc", h, ch), Ref("keep", h, ch), Active(h, ch), Registered(h, ch),
                    Ref("term", h, ch)}
         IN  /\ Started(p, g) = {h, TermOf(h)} /\ Working(p, g) = W
             /\ G \in Standing(p, g)
                  <=> G \subseteq W /\ (Registered(h, ch) \in G => h \in G /\ Ref("keep", h, ch) \in G)
             /\ G \in Serving(p, g)
                  <=> /\ G \in Standing(p, g) /\ h \in G /\ TermOf(h) \in G
                      /\ Ref("term", h, ch) \in G => Ref("keep", h, ch) \in G
<1> DEFINE h  == Handle(p)
           ch == Channel(p)
           W  == {h, TermOf(h), Ref("alloc", h, ch), Ref("keep", h, ch), Active(h, ch), Registered(h, ch),
                  Ref("term", h, ch)}
<1>1. p \notin Timers /\ p # "owner" /\ p # "context" /\ p \in Subscriptions \union Services
  BY StackAssumption, Kinds DEF Entities, Talkers
<1>2. Started(p, g) = {h, TermOf(h)}
  BY <1>1 DEF Started, Made
<1>3. Added(p, g) = References(h, ch) \union {Registered(h, ch), Ref("term", h, ch)}
  BY <1>1 DEF Added
<1>4. Working(p, g) = W
  BY <1>2, <1>3 DEF Working, References
<1>5. \A x \in W : Requires(x) = IF x = Registered(h, ch) THEN {h, Ref("keep", h, ch)} ELSE {}
  BY <1>1, Requirements, Tokens
<1>6. G \in Standing(p, g)
        <=> G \subseteq W /\ (Registered(h, ch) \in G => h \in G /\ Ref("keep", h, ch) \in G)
  BY <1>4, <1>5 DEF Standing, Stands
<1>7. G \in Serving(p, g)
        <=> /\ G \in Standing(p, g) /\ h \in G /\ TermOf(h) \in G
            /\ Ref("term", h, ch) \in G => Ref("keep", h, ch) \in G
  BY <1>2 DEF Serving
<1> QED
  BY <1>2, <1>4, <1>6, <1>7

\* Its tokens differ, a resource term and the reference of a term too.
LEMMA TalkerTokens ==
  ASSUME NEW p
  PROVE  LET h  == Handle(p)
             ch == Channel(p)
         IN  /\ h \notin {TermOf(h), Ref("alloc", h, ch), Ref("keep", h, ch), Active(h, ch), Registered(h, ch),
                          Ref("term", h, ch)}
             /\ TermOf(h) # Ref("term", h, ch)
             /\ Ref("keep", h, ch) \notin {Ref("alloc", h, ch), Active(h, ch), Registered(h, ch), Ref("term", h, ch)}
             /\ Ref("term", h, ch) \notin {Ref("alloc", h, ch), Active(h, ch), Registered(h, ch)}
             /\ Registered(h, ch) \notin {TermOf(h), Ref("alloc", h, ch), Active(h, ch)}
<1>1. TermOf(Handle(p)) # Ref("term", Handle(p), Channel(p))
  BY DEF TermOf, Ref
<1> QED
  BY <1>1, Tokens

\* Its init makes the handle on the node;
LEMMA TalkerInitLeads ==
  ASSUME NEW D, NEW p \in Talkers, NEW g \in Generations
  PROVE  Leads(D, InitOf[p][g], p, g, Standing(p, g), {}, Started(p, g))
<1> DEFINE n == Node(g)
           h == Handle(p)
           o == HolderAt(p, g)
           X == External(p, g)
           B == Standing(p, g)
           H0 == {}
           H1 == H0 \union {h}
           H2 == H1 \union {TermOf(h)}
<1>1. p # "owner" /\ p # "context" /\ p \in Entities
  BY StackAssumption DEF Entities, Talkers
<1>2. InitOf[p][g] \in {Touching(nif_rcl_subscription_init(n, h)), Touching(nif_rcl_service_init(n, h))}
  BY <1>1, Kinds DEF InitOf, Talkers
<1>3. H0 \in B /\ H1 \in B /\ H2 \in B /\ H2 = Started(p, g)
  BY TalkerSets, TalkerTokens
<1>4. n \in X /\ HolderOf(h) = o /\ HolderOf(TermOf(h)) = o /\ h[1] # "block"
  BY <1>1, Tokens DEF HolderAt, External
<1>5. H1 = H0 \union {h} /\ H2 = H1 \union {TermOf(h)} /\ h \in H1
  OBVIOUS
<1> HIDE DEF n, h, o, X, B, H0, H1, H2
<1>6. Shared({n}) \subseteq X
  BY <1>4 DEF Shared
<1>7. /\ Does(D, Args, o, X, B, H0, H0) /\ Does(D, Name, o, X, B, H0, H0) /\ Does(D, Qos, o, X, B, H0, H0)
      /\ Does(D, Valid(n), o, X, B, H0, H0)
  BY <1>3, <1>4, ArgsDoes, ValidDoes
<1>8. Does(D, Make({n}, {h}, {"raise"}), o, X, B, H0, H1)
  BY <1>3, <1>4, <1>5, <1>6, MakeDoes
<1>9. Does(D, Term(h), o, X, B, H1, H2)
  BY <1>3, <1>4, <1>5, TermDoes
<1>10. Runs(D, EntityInit(n, h), o, X, B, H0, H2)
  BY <1>7, <1>8, <1>9, SevenRun DEF EntityInit
<1>11. /\ Runs(D, nif_rcl_subscription_init(n, h).steps, o, X, B, H0, H2)
       /\ Runs(D, nif_rcl_service_init(n, h).steps, o, X, B, H0, H2)
  BY <1>10 DEF nif_rcl_subscription_init, nif_rcl_service_init, DirtyIo
<1>12. /\ Leads(D, Touching(nif_rcl_subscription_init(n, h)), p, g, B, H0, H2)
       /\ Leads(D, Touching(nif_rcl_service_init(n, h)), p, g, B, H0, H2)
  BY <1>11, LeadsCall DEF o, X
<1> QED
  BY <1>2, <1>3, <1>12 DEF B, H0

\* handle_continue registers the callback, whose references come first;
LEMMA TalkerContinueLeads ==
  ASSUME NEW D, NEW p \in Talkers, NEW g
  PROVE  Leads(D, ContinueOf[p], p, g, Serving(p, g), Started(p, g), Working(p, g))
<1> DEFINE h  == Handle(p)
           ch == Channel(p)
           keep == Ref("keep", h, ch)
           o == HolderAt(p, g)
           X == External(p, g)
           B == Serving(p, g)
           H0 == Started(p, g)
           H1 == H0 \union {Ref("alloc", h, ch), keep, Active(h, ch)}
           H2 == H1 \union {Registered(h, ch)}
           H3 == H2 \union {Ref("term", h, ch)}
<1>1. p # "owner" /\ p # "context" /\ p \in Entities
  BY StackAssumption DEF Entities, Talkers
<1>2. /\ p \in Subscriptions
           => ContinueOf[p] = Touching(nif_rcl_subscription_set_on_new_message_callback(h)) /\ ch = "message"
      /\ p \in Services
           => ContinueOf[p] = Touching(nif_rcl_service_set_on_new_request_callback(h)) /\ ch = "request"
  BY <1>1, Kinds DEF ContinueOf, Talkers, Channel
<1>3. H0 = {h, TermOf(h)} /\ H3 = Working(p, g)
  BY TalkerSets
<1>4. H0 \in B /\ H1 \in B
  BY <1>3, TalkerSets, TalkerTokens
<1>5. H2 \in B /\ H3 \in B
  BY <1>3, TalkerSets, TalkerTokens
<1>6. /\ HolderOf(Ref("alloc", h, ch)) = o /\ HolderOf(keep) = o /\ HolderOf(Active(h, ch)) = o
      /\ HolderOf(Registered(h, ch)) = o /\ HolderOf(Ref("term", h, ch)) = o
  BY <1>1, Tokens DEF HolderAt
<1>7. /\ Ref("alloc", h, ch)[1] # "block" /\ keep[1] # "block" /\ Active(h, ch)[1] # "block"
      /\ Registered(h, ch)[1] # "block" /\ Ref("term", h, ch)[1] # "block"
  BY Tokens
<1>8. /\ H1 = H0 \union {Ref("alloc", h, ch), keep, Active(h, ch)}
      /\ H2 = H1 \union {Registered(h, ch)} /\ H3 = H2 \union {Ref("term", h, ch)}
      /\ h \in H0 /\ h \in H1 /\ keep \in H1 /\ keep \in H2
  BY <1>3
<1>9. keep = Ref("keep", h, ch)
  OBVIOUS
<1> HIDE DEF h, ch, keep, o, X, B, H0, H1, H2, H3
<1>10. Shared({h}) \subseteq H0 /\ Shared({h, keep}) \subseteq H1 /\ Shared({keep}) \subseteq H2
  BY <1>8 DEF Shared
<1>11. Does(D, Args, o, X, B, H0, H0) /\ Does(D, Valid(h), o, X, B, H0, H0)
  BY <1>4, <1>8, ArgsDoes, ValidDoes
<1>12. Does(D, Make({h}, {Ref("alloc", h, ch), keep, Active(h, ch)}, {}), o, X, B, H0, H1)
  BY <1>4, <1>6, <1>7, <1>8, <1>10, MakeDoes
<1>13. Does(D, Make({h, keep}, {Registered(h, ch)}, {"raise"}), o, X, B, H1, H2)
  BY <1>5, <1>6, <1>7, <1>8, <1>10, MakeDoes
<1>14. Does(D, Make({keep}, {Ref("term", h, ch)}, {}), o, X, B, H2, H3)
  BY <1>5, <1>6, <1>7, <1>8, <1>10, MakeDoes
<1>15. Runs(D, SetCallback(h, ch), o, X, B, H0, H3)
  BY <1>9, <1>11, <1>12, <1>13, <1>14, FiveRun DEF SetCallback
<1>16. Leads(D, ContinueOf[p], p, g, B, H0, H3)
  <2>1. CASE p \in Subscriptions
    <3>1. Runs(D, nif_rcl_subscription_set_on_new_message_callback(h).steps, o, X, B, H0, H3)
      BY <1>2, <1>15, <2>1 DEF nif_rcl_subscription_set_on_new_message_callback, Regular
    <3> QED
      BY <1>2, <2>1, <3>1, LeadsCall DEF o, X
  <2>2. CASE p \in Services
    <3>1. Runs(D, nif_rcl_service_set_on_new_request_callback(h).steps, o, X, B, H0, H3)
      BY <1>2, <1>15, <2>2 DEF nif_rcl_service_set_on_new_request_callback, Regular
    <3> QED
      BY <1>2, <2>2, <3>1, LeadsCall DEF o, X
  <2> QED
    BY <2>1, <2>2 DEF Talkers
<1> QED
  BY <1>3, <1>16 DEF B, H0

\* a message is taken from the handle;
LEMMA TalkerWorkLeads ==
  ASSUME NEW D, NEW p \in Talkers, NEW g
  PROVE  Leads(D, WorkOf[p], p, g, Serving(p, g), Working(p, g), Working(p, g))
<1> DEFINE h == Handle(p)
           W == Working(p, g)
<1>1. WorkOf[p] \in {Touching(nif_rcl_take(h)), Touching(nif_rcl_take_request_with_info(h))}
  BY StackAssumption, Kinds DEF WorkOf, Talkers, Entities
<1>2. W \in Serving(p, g) /\ h \in W
  BY TalkerSets
<1> HIDE DEF h, W
<1>3. /\ Runs(D, nif_rcl_take(h).steps, HolderAt(p, g), External(p, g), Serving(p, g), W, W)
      /\ Runs(D, nif_rcl_take_request_with_info(h).steps, HolderAt(p, g), External(p, g), Serving(p, g), W, W)
  BY <1>2, LookRuns
<1> QED
  BY <1>1, <1>3, LeadsCall DEF W

\* its terminate clears the callback, and the reference of the callback is kept.
LEMMA TalkerEndsLeads ==
  ASSUME NEW D, NEW p \in Talkers, NEW g \in Generations, NEW H \in Serving(p, g),
         HolderAt(p, g) \notin D => H = Working(p, g)
  PROVE  \E G : /\ Leads(D, TerminateOf[p][g][(Ref("term", Handle(p), Channel(p)) \in H)], p, g, Standing(p, g), H, G)
                /\ HolderAt(p, g) \notin D => \A x \in G : x[1] \in Memory
<1> DEFINE n == Node(g)
           h == Handle(p)
           ch == Channel(p)
           keep == Ref("keep", h, ch)
           term == Ref("term", h, ch)
           o == HolderAt(p, g)
           X == External(p, g)
           B == Standing(p, g)
           H1 == H \ {Active(h, ch)}
           H2 == H1 \ {Registered(h, ch)}
           H3 == H2 \ {keep}
           K == IF term \in H THEN H3 ELSE H
           K1 == K \ {Registered(h, ch)}
           G == K1 \ {h}
           clear == Touching(IF term \in H THEN Regular(ClearCallback(h, ch)) ELSE NilArgument)
<1>1. p # "owner" /\ p # "context" /\ p # "node" /\ p \in Entities
  BY StackAssumption DEF Entities, Talkers
<1>2. TerminateOf[p][g][(term \in H)] = clear \o Touching(DirtyIo(EntityFini(n, h, <<ch>>)))
  <2>1. CASE p \in Subscriptions
    <3>1. ch = "message" /\ p \notin Services /\ p \notin Timers /\ p \in Processes \ {"node"}
      BY <1>1, <2>1, Kinds DEF Channel, Processes
    <3>2. \A has \in BOOLEAN : TerminateOf[p][g][has]
            = Touching(IF has THEN nif_rcl_subscription_clear_message_callback(Handle(p)) ELSE NilArgument)
              \o Touching(nif_rcl_subscription_fini(Node(g), Handle(p)))
      BY <1>1, <2>1, <3>1 DEF TerminateOf
    <3>3. (term \in H) \in BOOLEAN
      OBVIOUS
    <3>4. TerminateOf[p][g][(term \in H)]
            = Touching(IF term \in H THEN nif_rcl_subscription_clear_message_callback(Handle(p)) ELSE NilArgument)
              \o Touching(nif_rcl_subscription_fini(Node(g), Handle(p)))
      BY <3>2, <3>3, Zenon
    <3> QED
      BY <3>1, <3>4, Zenon DEF nif_rcl_subscription_clear_message_callback, nif_rcl_subscription_fini
  <2>2. CASE p \in Services
    <3>1. ch = "request" /\ p \notin Subscriptions /\ p \notin Timers /\ p \in Processes \ {"node"}
      BY <1>1, <2>2, Kinds DEF Channel, Processes
    <3>2. \A has \in BOOLEAN : TerminateOf[p][g][has]
            = Touching(IF has THEN nif_rcl_service_clear_request_callback(Handle(p)) ELSE NilArgument)
              \o Touching(nif_rcl_service_fini(Node(g), Handle(p)))
      BY <1>1, <2>2, <3>1 DEF TerminateOf
    <3>3. (term \in H) \in BOOLEAN
      OBVIOUS
    <3>4. TerminateOf[p][g][(term \in H)]
            = Touching(IF term \in H THEN nif_rcl_service_clear_request_callback(Handle(p)) ELSE NilArgument)
              \o Touching(nif_rcl_service_fini(Node(g), Handle(p)))
      BY <3>2, <3>3, Zenon
    <3> QED
      BY <3>1, <3>4, Zenon DEF nif_rcl_service_clear_request_callback, nif_rcl_service_fini
  <2> QED
    BY <2>1, <2>2 DEF Talkers
<1>3. /\ H \in B /\ h \in H /\ H \subseteq Working(p, g) /\ (term \in H => keep \in H)
  BY TalkerSets
<1>4. h \notin {keep, Active(h, ch), Registered(h, ch)} /\ keep \notin {Active(h, ch), Registered(h, ch)}
  BY TalkerTokens
<1>5. H1 \in B /\ H2 \in B /\ H3 \in B
  BY <1>3, <1>4, TalkerSets
<1>6. o \notin D => term \in H
  BY TalkerSets
<1>7. /\ HolderOf(h) = o /\ HolderOf(keep) = o /\ HolderOf(Active(h, ch)) = o /\ HolderOf(Registered(h, ch)) = o
      /\ n \in X
  BY <1>1, Tokens DEF HolderAt, External
<1>8. h[1] # "block" /\ keep[1] # "block" /\ Active(h, ch)[1] # "block" /\ Registered(h, ch)[1] # "block"
  BY Tokens
<1>9. H1 = H \ {Active(h, ch)} /\ H2 = H1 \ {Registered(h, ch)} /\ H3 = H2 \ {keep}
  OBVIOUS
<1>10. o \notin D => \A x \in G : x[1] \in Memory
  <2>1. ASSUME o \notin D PROVE G \subseteq {TermOf(h), Ref("alloc", h, ch), term}
    BY <1>3, <1>6, <2>1, TalkerSets
  <2>2. TermOf(h)[1] \in Memory /\ Ref("alloc", h, ch)[1] \in Memory /\ term[1] \in Memory
    BY Tokens DEF Memory
  <2> QED
    BY <2>1, <2>2
<1>11. h \in K /\ (o \notin D => K \in B) /\ (o \notin D => K1 \in B) /\ (o \notin D => G \in B)
  <2>1. K1 \in B /\ G \in B
    BY <1>3, <1>4, TalkerSets
  <2> QED
    BY <1>3, <1>4, <1>5, <1>6, <2>1
<1>12. (term \in H => K = H3) /\ (term \notin H => K = H) /\ K1 = K \ {Registered(h, ch)} /\ G = K1 \ {h}
       /\ {h} \subseteq K /\ {h, n} \subseteq K1 \union X
  BY <1>3, <1>4, <1>7, <1>11
<1>13. keep = Ref("keep", h, ch) /\ term = Ref("term", h, ch)
  OBVIOUS
<1>14. /\ term \in H => clear = Touching(Regular(ClearCallback(h, ch)))
       /\ term \notin H => clear = Touching(NilArgument)
  OBVIOUS
<1> HIDE DEF n, h, ch, keep, term, o, X, B, H1, H2, H3, K, K1, G, clear
<1>15. Leads(D, clear, p, g, B, H, K)
  <2>1. CASE term \in H
    <3>1. Does(D, Args, o, X, B, H, H) /\ Does(D, Valid(h), o, X, B, H, H)
      BY <1>3, ArgsDoes, ValidDoes
    <3>2. {term} \subseteq H \union X /\ {h} \subseteq H1 \union X /\ {keep} \subseteq H2 \union X
      BY <1>3, <1>4, <1>9, <2>1
    <3>3. Does(D, End({term}, {Active(h, ch)}, {}), o, X, B, H, H1)
      BY <1>5, <1>7, <1>8, <1>9, <3>2, EndDoes
    <3>4. Does(D, End({h}, {Registered(h, ch)}, {"raise"}), o, X, B, H1, H2)
      BY <1>5, <1>7, <1>8, <1>9, <3>2, EndDoes
    <3>5. Does(D, End({keep}, {keep}, {}), o, X, B, H2, H3)
      BY <1>5, <1>7, <1>8, <1>9, <3>2, EndDoes
    <3>6. Runs(D, ClearCallback(h, ch), o, X, B, H, H3)
      BY <1>13, <3>1, <3>3, <3>4, <3>5, FiveRun DEF ClearCallback
    <3>7. Runs(D, Regular(ClearCallback(h, ch)).steps, o, X, B, H, H3)
      BY <3>6 DEF Regular
    <3> QED
      BY <1>12, <1>14, <2>1, <3>7, LeadsCall DEF o, X
  <2>2. CASE term \notin H
    <3>1. Runs(D, NilArgument.steps, o, X, B, H, H)
      BY <1>6, <2>2, NilRuns
    <3> QED
      BY <1>12, <1>14, <2>2, <3>1, LeadsCall DEF o, X
  <2> QED
    BY <2>1, <2>2
<1>16. Runs(D, EntityFini(n, h, <<ch>>), o, X, B, K, G)
  <2>1. Does(D, Args, o, X, B, K, K) /\ Does(D, Valid(h), o, X, B, K, K) /\ Does(D, Valid(n), o, X, B, K, K)
    BY <1>7, <1>11, ArgsDoes, ValidDoes
  <2>2. Runs(D, <<Args, Valid(h), Args, Valid(n)>>, o, X, B, K, K)
    BY <2>1, FourRun
  <2>3. Does(D, End({h}, {Registered(h, ch)}, {"raise"}), o, X, B, K, K1)
    BY <1>7, <1>8, <1>11, <1>12, EndDoes
  <2>4. Unregister(h, <<ch>>) = <<End({h}, {Registered(h, ch)}, {"raise"})>>
    BY DEF Unregister
  <2>5. Does(D, End({h, n}, {h}, {"raise"}), o, X, B, K1, G)
    BY <1>7, <1>8, <1>11, <1>12, EndDoes
  <2> QED
    BY <2>2, <2>3, <2>4, <2>5, OneRun, RunsBoth DEF EntityFini
<1>17. Runs(D, DirtyIo(EntityFini(n, h, <<ch>>)).steps, o, X, B, K, G)
  BY <1>16 DEF DirtyIo
<1>18. Leads(D, Touching(DirtyIo(EntityFini(n, h, <<ch>>))), p, g, B, K, G)
  BY <1>17, LeadsCall DEF o, X
<1>19. Leads(D, TerminateOf[p][g][(term \in H)], p, g, B, H, G)
  BY <1>2, <1>15, <1>18, LeadsBoth
<1> QED
  BY <1>10, <1>19 DEF o, B, h, ch, term

----------------------------------------------------------------------------
(* Timers *)

LEMMA TimerSets ==
  ASSUME NEW p \in Timers, NEW g, NEW G
  PROVE  LET k == Clock(p)
             t == Handle(p)
             w == WaitSet(p)
             W == {k, TermOf(k), t, TermOf(t), w, TermOf(w)}
         IN  /\ Started(p, g) = W /\ Working(p, g) = W
             /\ G \in Standing(p, g) <=> G \subseteq W /\ (t \in G => k \in G)
             /\ G \in Serving(p, g) <=> G = W
<1> DEFINE k == Clock(p)
           t == Handle(p)
           w == WaitSet(p)
           W == {k, TermOf(k), t, TermOf(t), w, TermOf(w)}
           term == Ref("term", Handle(p), Channel(p))
<1>1. p # "owner" /\ p # "context" /\ p \notin Subscriptions \union Services
  BY StackAssumption, Kinds DEF Entities
<1>2. Started(p, g) = W
  BY <1>1 DEF Started, Made
<1>3. Added(p, g) = {}
  BY <1>1 DEF Added
<1>4. Working(p, g) = W
  BY <1>2, <1>3 DEF Working
<1>5. \A x \in W : Requires(x) = IF x = t THEN {k} ELSE {}
  BY Requirements, Tokens
<1>6. G \in Standing(p, g) <=> G \subseteq W /\ (t \in G => k \in G)
  BY <1>4, <1>5 DEF Standing, Stands
<1>7. term \notin W
  BY DEF Ref, TermOf, Clock, Handle, WaitSet
<1>8. G \in Serving(p, g) <=> G = W
  BY <1>2, <1>6, <1>7 DEF Serving
<1> QED
  BY <1>2, <1>4, <1>6, <1>8

\* The init of a timer makes clock, timer and wait set;
LEMMA TimerInitLeads ==
  ASSUME NEW D, NEW p \in Timers, NEW g \in Generations
  PROVE  Leads(D, InitOf[p][g], p, g, Standing(p, g), {}, Started(p, g))
<1> DEFINE c == Context
           k == Clock(p)
           t == Handle(p)
           w == WaitSet(p)
           o == HolderAt(p, g)
           X == External(p, g)
           B == Standing(p, g)
           H0 == {}
           H1 == H0 \union {k}
           H2 == H1 \union {TermOf(k)}
           H3 == H2 \union {t}
           H4 == H3 \union {TermOf(t)}
           H5 == H4 \union {w}
           H6 == H5 \union {TermOf(w)}
<1>1. p # "owner" /\ p # "context" /\ p \in Entities
  BY StackAssumption DEF Entities
<1>2. InitOf[p][g] = Touching(nif_rcl_clock_init(k)) \o Touching(nif_rcl_timer_init(c, k, t))
                     \o Touching(nif_rcl_wait_set_init_timer(c, w))
  BY <1>1, Kinds DEF InitOf
<1>3. t \notin H0 /\ t \notin H1 /\ t \notin H2
  BY Tokens
<1>4. H0 \in B /\ H1 \in B /\ H2 \in B
  BY <1>3, TimerSets
<1>5. H3 \in B /\ H4 \in B /\ H5 \in B /\ H6 \in B /\ H6 = Started(p, g)
  BY TimerSets
<1>6. /\ HolderOf(k) = o /\ HolderOf(TermOf(k)) = o /\ HolderOf(t) = o /\ HolderOf(TermOf(t)) = o
      /\ HolderOf(w) = o /\ HolderOf(TermOf(w)) = o /\ c \in X
  BY <1>1, Tokens DEF HolderAt, External
<1>7. k[1] # "block" /\ t[1] # "block" /\ w[1] # "block"
  BY Tokens
<1>8. /\ H1 = H0 \union {k} /\ H2 = H1 \union {TermOf(k)} /\ H3 = H2 \union {t} /\ H4 = H3 \union {TermOf(t)}
      /\ H5 = H4 \union {w} /\ H6 = H5 \union {TermOf(w)} /\ k \in H1 /\ k \in H2 /\ t \in H3 /\ w \in H5
  OBVIOUS
<1> HIDE DEF c, k, t, w, o, X, B, H0, H1, H2, H3, H4, H5, H6
<1>9. Shared({}) = {} /\ Shared({c, k}) \subseteq H2 \union X /\ Shared({c}) \subseteq X
  BY <1>6, <1>8 DEF Shared
<1>10. Runs(D, nif_rcl_clock_init(k).steps, o, X, B, H0, H2)
  <2>1. Does(D, Args, o, X, B, H0, H0) /\ Does(D, Use({}, {"raise"}), o, X, B, H0, H0)
    BY <1>4, ArgsDoes
  <2>2. Does(D, Make({}, {k}, {"badarg"}), o, X, B, H0, H1)
    BY <1>4, <1>6, <1>7, <1>8, <1>9, MakeDoes
  <2>3. Does(D, Term(k), o, X, B, H1, H2)
    BY <1>4, <1>6, <1>8, TermDoes
  <2> QED
    BY <2>1, <2>2, <2>3, FourRun DEF nif_rcl_clock_init, DirtyIo
<1>11. Runs(D, nif_rcl_timer_init(c, k, t).steps, o, X, B, H2, H4)
  <2>1. /\ Does(D, Args, o, X, B, H2, H2) /\ Does(D, Valid(c), o, X, B, H2, H2)
        /\ Does(D, Valid(k), o, X, B, H2, H2)
    BY <1>4, <1>6, <1>8, ArgsDoes, ValidDoes
  <2>2. Does(D, Make({c, k}, {t}, {"badarg"}), o, X, B, H2, H3)
    BY <1>5, <1>6, <1>7, <1>8, <1>9, MakeDoes
  <2>3. Does(D, Term(t), o, X, B, H3, H4)
    BY <1>5, <1>6, <1>8, TermDoes
  <2> QED
    BY <2>1, <2>2, <2>3, SevenRun DEF nif_rcl_timer_init, DirtyIo
<1>12. Runs(D, nif_rcl_wait_set_init_timer(c, w).steps, o, X, B, H4, H6)
  <2>1. Does(D, Args, o, X, B, H4, H4) /\ Does(D, Valid(c), o, X, B, H4, H4)
    BY <1>5, <1>6, ArgsDoes, ValidDoes
  <2>2. Does(D, Make({c}, {w}, {"raise"}), o, X, B, H4, H5)
    BY <1>5, <1>6, <1>7, <1>8, <1>9, MakeDoes
  <2>3. Does(D, Term(w), o, X, B, H5, H6)
    BY <1>5, <1>6, <1>8, TermDoes
  <2> QED
    BY <2>1, <2>2, <2>3, FourRun DEF nif_rcl_wait_set_init_timer, WaitSetInit, DirtyIo
<1>13. /\ Leads(D, Touching(nif_rcl_clock_init(k)), p, g, B, H0, H2)
       /\ Leads(D, Touching(nif_rcl_timer_init(c, k, t)), p, g, B, H2, H4)
       /\ Leads(D, Touching(nif_rcl_wait_set_init_timer(c, w)), p, g, B, H4, H6)
  BY <1>10, <1>11, <1>12, LeadsCall DEF o, X
<1>14. Leads(D, InitOf[p][g], p, g, B, H0, H6)
  BY <1>2, <1>13, LeadsBoth
<1> QED
  BY <1>5, <1>14 DEF B, H0

\* it has no handle_continue,
LEMMA TimerContinueLeads ==
  ASSUME NEW D, NEW p \in Timers, NEW g
  PROVE  Leads(D, ContinueOf[p], p, g, Serving(p, g), Started(p, g), Working(p, g))
<1>1. ContinueOf[p] = <<>>
  BY Kinds DEF ContinueOf, Entities
<1>2. Started(p, g) = Working(p, g)
  BY TimerSets
<1> QED
  BY <1>1, <1>2, LeadsNothing

\* it waits, asks and calls,
LEMMA TimerWorkLeads ==
  ASSUME NEW D, NEW p \in Timers, NEW g
  PROVE  Leads(D, WorkOf[p], p, g, Serving(p, g), Working(p, g), Working(p, g))
<1> DEFINE t == Handle(p)
           w == WaitSet(p)
           o == HolderAt(p, g)
           X == External(p, g)
           B == Serving(p, g)
           W == Working(p, g)
<1>1. WorkOf[p] = Touching(nif_rcl_wait_timer(w, t)) \o Touching(nif_rcl_timer_is_ready(t))
                  \o Touching(nif_rcl_timer_call(t))
  BY Kinds DEF WorkOf, Entities
<1>2. W \in B /\ t \in W /\ w \in W
  BY TimerSets
<1> HIDE DEF t, w, o, X, B, W
<1>3. /\ Runs(D, nif_rcl_wait_timer(w, t).steps, o, X, B, W, W)
      /\ Runs(D, nif_rcl_timer_is_ready(t).steps, o, X, B, W, W)
      /\ Runs(D, nif_rcl_timer_call(t).steps, o, X, B, W, W)
  BY <1>2, LookRuns, WaitRuns
<1>4. /\ Leads(D, Touching(nif_rcl_wait_timer(w, t)), p, g, B, W, W)
      /\ Leads(D, Touching(nif_rcl_timer_is_ready(t)), p, g, B, W, W)
      /\ Leads(D, Touching(nif_rcl_timer_call(t)), p, g, B, W, W)
  BY <1>3, LeadsCall DEF o, X
<1>5. Leads(D, WorkOf[p], p, g, B, W, W)
  BY <1>1, <1>4, LeadsBoth
<1> QED
  BY <1>5 DEF B, W

\* and its terminate goes the way back: the wait set, the timer, the clock.
LEMMA TimerEndsLeads ==
  ASSUME NEW D, NEW p \in Timers, NEW g \in Generations, NEW H \in Serving(p, g), NEW has \in BOOLEAN
  PROVE  \E G : /\ Leads(D, TerminateOf[p][g][has], p, g, Standing(p, g), H, G)
                /\ HolderAt(p, g) \notin D => \A x \in G : x[1] \in Memory
<1> DEFINE k == Clock(p)
           t == Handle(p)
           w == WaitSet(p)
           o == HolderAt(p, g)
           X == External(p, g)
           B == Standing(p, g)
           H1 == H \ {w}
           H2 == H1 \ {t}
           H3 == H2 \ {k}
<1>1. p # "owner" /\ p # "context" /\ p # "node" /\ p \in Processes \ {"node"}
  BY StackAssumption DEF Entities, Processes
<1>2. TerminateOf[p][g][has] = Touching(nif_rcl_wait_set_fini(w)) \o Touching(nif_rcl_timer_fini(t))
                               \o Touching(nif_rcl_clock_fini(k))
  <2>1. TerminateOf[p][g][has] = TimerEnds(p)
    BY <1>1, Kinds DEF TerminateOf
  <2> QED
    BY <2>1 DEF TimerEnds
<1>3. H = {k, TermOf(k), t, TermOf(t), w, TermOf(w)}
  BY TimerSets
<1>4. w # t /\ w # k /\ t # k
  BY Tokens
<1>5. H \in B /\ H1 \in B /\ H2 \in B /\ H3 \in B
  BY <1>3, <1>4, TimerSets
<1>6. HolderOf(k) = o /\ HolderOf(t) = o /\ HolderOf(w) = o
  BY <1>1, Tokens DEF HolderAt
<1>7. k[1] # "block" /\ t[1] # "block" /\ w[1] # "block"
  BY Tokens
<1>8. \A x \in H3 : x[1] \in Memory
  <2>1. H3 \subseteq {TermOf(k), TermOf(t), TermOf(w)}
    BY <1>3
  <2> QED
    BY <2>1, Tokens DEF Memory
<1>9. w \in H /\ t \in H1 /\ k \in H2 /\ H1 = H \ {w} /\ H2 = H1 \ {t} /\ H3 = H2 \ {k}
  BY <1>3, <1>4
<1> HIDE DEF k, t, w, o, X, B, H1, H2, H3
<1>10. /\ Runs(D, nif_rcl_wait_set_fini(w).steps, o, X, B, H, H1)
       /\ Runs(D, nif_rcl_timer_fini(t).steps, o, X, B, H1, H2)
       /\ Runs(D, nif_rcl_clock_fini(k).steps, o, X, B, H2, H3)
  BY <1>5, <1>6, <1>7, <1>9, FiniRuns
<1>11. /\ Leads(D, Touching(nif_rcl_wait_set_fini(w)), p, g, B, H, H1)
       /\ Leads(D, Touching(nif_rcl_timer_fini(t)), p, g, B, H1, H2)
       /\ Leads(D, Touching(nif_rcl_clock_fini(k)), p, g, B, H2, H3)
  BY <1>10, LeadsCall DEF o, X
<1>12. Leads(D, TerminateOf[p][g][has], p, g, B, H, H3)
  BY <1>2, <1>11, LeadsBoth
<1> QED
  BY <1>8, <1>12 DEF B
----------------------------------------------------------------------------
(* The context *)

LEMMA ContextSets ==
  ASSUME NEW g, NEW G
  PROVE  /\ Started("context", g) = {Context} /\ Working("context", g) = {Context}
         /\ G \in Standing("context", g) <=> G \subseteq {Context}
         /\ G \in Serving("context", g) <=> G = {Context}
<1>1. "context" \notin Timers \union Subscriptions \union Services
  BY StackAssumption DEF Entities
<1>2. Started("context", g) = {Context} /\ Added("context", g) = {}
  BY <1>1 DEF Started, Added
<1>3. Requires(Context) = {}
  BY Requirements, Tokens
<1>4. G \in Standing("context", g) <=> G \subseteq {Context}
  BY <1>2, <1>3 DEF Standing, Stands, Working
<1>5. Ref("term", Handle("context"), Channel("context")) # Context
  BY Tokens
<1>6. G \in Serving("context", g) <=> G = {Context}
  BY <1>2, <1>4, <1>5 DEF Serving
<1> QED
  BY <1>2, <1>4, <1>6 DEF Working

\* rcl_fini ends the context.
LEMMA ContextEndsLeads ==
  ASSUME NEW D, NEW g \in Generations, NEW has \in BOOLEAN
  PROVE  Leads(D, TerminateOf["context"][g][has], "context", g, Standing("context", g), {Context}, {})
<1> DEFINE c == Context
           H == {Context}
           B == Standing("context", g)
<1>1. TerminateOf["context"][g][has] = Touching(nif_rcl_fini(c))
  BY StackAssumption DEF TerminateOf, Processes, Entities
<1>2. H \in B /\ H \ {c} \in B /\ c \in H /\ {} = H \ {c}
  BY ContextSets
<1>3. HolderOf(c) = HolderAt("context", g) /\ c[1] # "block"
  BY Tokens DEF HolderAt
<1> HIDE DEF c, H, B
<1>4. Runs(D, nif_rcl_fini(c).steps, HolderAt("context", g), External("context", g), B, H, H \ {c})
  BY <1>2, <1>3, FiniRuns
<1> QED
  BY <1>1, <1>2, <1>4, LeadsCall DEF B, H

----------------------------------------------------------------------------
(* Any of them *)

Workers == Processes \ {"node"}
HasIn(p, g, H) ==
  CASE p = "owner" -> Thread(g) \in H
    [] p \in Talkers -> Ref("term", Handle(p), Channel(p)) \in H
    [] OTHER -> FALSE

\* The same for any process: init, handle_continue, a message and terminate lead from
\* what a process has to what it must have next.
LEMMA InitLeads ==
  ASSUME NEW D, NEW p \in Entities \union {"owner"}, NEW g \in Generations
  PROVE  Leads(D, InitOf[p][g], p, g, Standing(p, g), {}, Started(p, g)) /\ {} \in Standing(p, g)
<1>1. {} \in Standing(p, g)
  BY DEF Standing, Stands
<1> QED
  BY <1>1, OwnerInitLeads, TalkerInitLeads, TimerInitLeads DEF Entities, Talkers

LEMMA ContinueLeads ==
  ASSUME NEW D, NEW p \in Entities, NEW g
  PROVE  Leads(D, ContinueOf[p], p, g, Serving(p, g), Started(p, g), Working(p, g))
BY TalkerContinueLeads, TimerContinueLeads DEF Entities, Talkers

LEMMA WorkLeads ==
  ASSUME NEW D, NEW p \in Entities, NEW g
  PROVE  Leads(D, WorkOf[p], p, g, Serving(p, g), Working(p, g), Working(p, g))
BY TalkerWorkLeads, TimerWorkLeads DEF Entities, Talkers

LEMMA EndsLeads ==
  ASSUME NEW D, NEW p \in Workers, NEW g \in Generations, NEW H \in Serving(p, g),
         HolderAt(p, g) \notin D => H = Working(p, g)
  PROVE  \E G : /\ Leads(D, TerminateOf[p][g][HasIn(p, g, H)], p, g, Standing(p, g), H, G)
                /\ HolderAt(p, g) \notin D => \A x \in G : x[1] \in Memory
<1>1. CASE p = "owner"
  <2>1. HasIn(p, g, H) = (Thread(g) \in H)
    BY <1>1, StackAssumption, Zenon DEF HasIn, Entities, Talkers
  <2> QED
    BY <1>1, <2>1, OwnerEndsLeads, Zenon
<1>2. CASE p \in Talkers
  <2>1. HasIn(p, g, H) = (Ref("term", Handle(p), Channel(p)) \in H)
    BY <1>2, StackAssumption, Zenon DEF HasIn, Entities, Talkers
  <2> QED
    BY <1>2, <2>1, TalkerEndsLeads, Zenon
<1>3. CASE p \in Timers
  <2>1. HasIn(p, g, H) = FALSE
    BY <1>3, Kinds, StackAssumption, Zenon DEF HasIn, Entities, Talkers
  <2> QED
    BY <1>3, <2>1, TimerEndsLeads, Zenon
<1>4. CASE p = "context"
  <2>1. HasIn(p, g, H) = FALSE
    BY <1>4, StackAssumption, Zenon DEF HasIn, Entities, Talkers
  <2>2. H = {Context}
    BY <1>4, ContextSets
  <2>3. Leads(D, TerminateOf[p][g][FALSE], p, g, Standing(p, g), H, {})
    BY <1>4, <2>2, ContextEndsLeads, Zenon
  <2>4. \A x \in {} : x[1] \in Memory
    OBVIOUS
  <2>5. TerminateOf[p][g][HasIn(p, g, H)] = TerminateOf[p][g][FALSE]
    BY <2>1, Zenon
  <2>6. Leads(D, TerminateOf[p][g][HasIn(p, g, H)], p, g, Standing(p, g), H, {})
    BY <2>3, <2>5, Zenon
  <2> SUFFICES /\ Leads(D, TerminateOf[p][g][HasIn(p, g, H)], p, g, Standing(p, g), H, {})
               /\ HolderAt(p, g) \notin D => \A x \in {} : x[1] \in Memory
    OBVIOUS
  <2> QED
    BY <2>4, <2>6, Zenon
<1> QED
  BY <1>1, <1>2, <1>3, <1>4 DEF Workers, Processes, Entities, Talkers

\* What holds of a process in a state, with N to run and M in its hands.
Proper(st, N, p, g, D, M) ==
  /\ st \in {"none", "init", "up", "closing", "dead"}
  /\ st = "none" => N = <<>> /\ M = {} /\ HolderAt(p, g) \notin D
  /\ st = "init" => /\ HolderAt(p, g) \notin D /\ M \in Standing(p, g)
                    /\ Leads(D, N, p, g, Standing(p, g), M, Started(p, g))
  /\ st = "up" => /\ HolderAt(p, g) \notin D /\ M \in Serving(p, g)
                  /\ Leads(D, N, p, g, Serving(p, g), M, Working(p, g))
  /\ st = "closing" => /\ HolderAt(p, g) \notin D => M \in Standing(p, g)
                       /\ \E G : /\ Leads(D, N, p, g, Standing(p, g), M, G)
                                 /\ HolderAt(p, g) \notin D => \A x \in G : x[1] \in Memory
  /\ st = "dead" => N = <<>> /\ (HolderAt(p, g) \notin D => \A x \in M : x[1] \in Memory)
Live == {"init", "up", "closing"}

\* Leads and Proper suit another set of the damaged.
LEMMA LeadsStill ==
  ASSUME NEW D, NEW E, NEW N, NEW p, NEW g, NEW B, NEW H, NEW G, Leads(D, N, p, g, B, H, G),
         HolderAt(p, g) \notin E => HolderAt(p, g) \notin D
  PROVE  Leads(E, N, p, g, B, H, G)
BY RunsStill DEF Leads

LEMMA ProperStill ==
  ASSUME NEW st, NEW N, NEW p, NEW g, NEW D, NEW E, NEW M, Proper(st, N, p, g, D, M),
         HolderAt(p, g) \notin E <=> HolderAt(p, g) \notin D
  PROVE  Proper(st, N, p, g, E, M)
BY LeadsStill DEF Proper

\* A step.
LEMMA LeadsNext ==
  ASSUME NEW D, NEW N, NEW p, NEW g, NEW B, NEW H, NEW G, Leads(D, N, p, g, B, H, G), N # <<>>
  PROVE  LET s == Head(N)
             K == (H \union s.makes) \ s.ends
         IN  /\ Leads(D, Skip(Tail(N)), p, g, B, K, G) /\ (HolderAt(p, g) \notin D => K \in B)
             /\ s.uses \subseteq H \union External(p, g) /\ s.undo = {}
             /\ HolderAt(p, g) \notin D => s.checks \subseteq H \union External(p, g)
             /\ \A x \in s.makes \union s.ends : HolderOf(x) = HolderAt(p, g)
<1> DEFINE s == Head(N)
           K == (H \union s.makes) \ s.ends
<1>1. Listing(N) /\ Touched(N) /\ Len(N) > 0 /\ s = N[1]
  BY DEF Leads, Runs, Listing
<1>2. Pure(s)
  BY <1>1 DEF Touched, Listing
<1>3. PICK K1 : /\ Does(D, s, HolderAt(p, g), External(p, g), B, H, K1)
                /\ Runs(D, Tail(N), HolderAt(p, g), External(p, g), B, K1, G)
  BY RunsNext DEF Leads
<1>4. K1 = K
  BY <1>2, <1>3 DEF Does, Takes, Pure
<1>5. Touched(Tail(N))
  <2>1. Len(Tail(N)) = Len(N) - 1 /\ \A i \in 1 .. Len(N) - 1 : Tail(N)[i] = N[i + 1]
    BY <1>1 DEF Listing
  <2> QED
    BY <1>1, <2>1 DEF Touched, Listing
<1>6. Leads(D, Skip(Tail(N)), p, g, B, K, G)
  BY <1>3, <1>4, <1>5, LeadsSkip DEF Leads
<1> HIDE DEF s, K
<1>7. /\ HolderAt(p, g) \notin D => K \in B
      /\ s.uses \subseteq H \union External(p, g) /\ s.undo = {}
      /\ HolderAt(p, g) \notin D => s.checks \subseteq H \union External(p, g)
      /\ \A x \in s.makes \union s.ends : HolderOf(x) = HolderAt(p, g)
  BY <1>2, <1>3, <1>4 DEF Does, Takes, Pure
<1> QED
  BY <1>6, <1>7 DEF s, K

\* A step of a process: it is refused nothing, touches what is there, and stays proper.
LEMMA ProperStep ==
  ASSUME NEW st, NEW N, NEW p, NEW g, NEW D, NEW M, Proper(st, N, p, g, D, M), N # <<>>
  PROVE  LET s == Head(N)
             K == (M \union s.makes) \ s.ends
         IN  /\ st \in Live /\ Proper(st, Skip(Tail(N)), p, g, D, K)
             /\ s.uses \subseteq M \union External(p, g) /\ s.undo = {}
             /\ HolderAt(p, g) \notin D => s.checks \subseteq M \union External(p, g)
             /\ \A x \in s.makes \union s.ends : HolderOf(x) = HolderAt(p, g)
<1>1. st \in Live
  BY DEF Proper, Live
<1>2. CASE st = "init"
  BY <1>2, LeadsNext DEF Proper, Live
<1>3. CASE st = "up"
  <2>1. Leads(D, N, p, g, Serving(p, g), M, Working(p, g)) /\ HolderAt(p, g) \notin D
    BY <1>3 DEF Proper
  <2> QED
    BY <1>3, <2>1, LeadsNext DEF Proper, Live
<1>4. CASE st = "closing"
  <2>1. PICK G : /\ Leads(D, N, p, g, Standing(p, g), M, G)
                 /\ HolderAt(p, g) \notin D => \A x \in G : x[1] \in Memory
    BY <1>4 DEF Proper
  <2> QED
    BY <1>4, <2>1, LeadsNext DEF Proper, Live
<1> QED
  BY <1>1, <1>2, <1>3, <1>4 DEF Live

\* The moves between states.
LEMMA ProperDead ==
  ASSUME NEW p, NEW g, NEW D, NEW M, HolderAt(p, g) \in D
  PROVE  Proper("dead", <<>>, p, g, D, M)
BY DEF Proper

\* A program at its end.
LEMMA LeadsEnd ==
  ASSUME NEW D, NEW p, NEW g, NEW B, NEW H, NEW G, Leads(D, <<>>, p, g, B, H, G)
  PROVE  H = G
BY RunsEnd DEF Leads

\* init is called with nothing in hand,
LEMMA ProperInit ==
  ASSUME NEW p \in Entities \union {"owner"}, NEW g \in Generations, NEW D, HolderAt(p, g) \notin D
  PROVE  Proper("init", Skip(InitOf[p][g]), p, g, D, {})
BY InitLeads, LeadsSkip DEF Proper

\* what it leaves is enough to serve,
LEMMA StartedServes ==
  ASSUME NEW p \in Entities \union {"owner"}, NEW g
  PROVE  Started(p, g) \in Serving(p, g) /\ Working(p, g) \in Serving(p, g)
<1>1. CASE p = "owner"
  <2>1. Thread(g) \notin {Node(g), TermOf(Node(g))}
    BY Tokens
  <2> QED
    BY <1>1, <2>1, OwnerSets
<1>2. CASE p \in Talkers
  BY <1>2, TalkerSets, TalkerTokens
<1>3. CASE p \in Timers
  BY <1>3, TimerSets
<1> QED
  BY <1>1, <1>2, <1>3 DEF Entities, Talkers

\* and so handle_continue is;
LEMMA ProperUp ==
  ASSUME NEW p \in Entities, NEW g, NEW D, NEW M, Proper("init", <<>>, p, g, D, M)
  PROVE  Proper("up", Skip(ContinueOf[p]), p, g, D, M)
<1>1. M = Started(p, g) /\ HolderAt(p, g) \notin D
  BY LeadsEnd DEF Proper
<1>2. M \in Serving(p, g)
  BY <1>1, StartedServes
<1> QED
  BY <1>1, <1>2, ContinueLeads, LeadsSkip DEF Proper

\* so is the owner, when the Node borrows;
LEMMA ProperBorrowed ==
  ASSUME NEW g \in Generations, NEW D, NEW M, Proper("init", <<>>, "owner", g, D, M)
  PROVE  Proper("up", Skip(Borrowed[g]), "owner", g, D, M)
<1>1. M = Started("owner", g) /\ HolderAt("owner", g) \notin D
  BY LeadsEnd DEF Proper
<1>2. M \in Serving("owner", g)
  BY <1>1, StartedServes
<1> QED
  BY <1>1, <1>2, BorrowedLeads, LeadsSkip DEF Proper

\* a process that has nothing to do has everything it works with,
LEMMA ProperWorks ==
  ASSUME NEW p, NEW g, NEW D, NEW M, Proper("up", <<>>, p, g, D, M)
  PROVE  M = Working(p, g)
BY LeadsEnd DEF Proper

\* and takes a message.
LEMMA ProperWork ==
  ASSUME NEW p \in Entities, NEW g, NEW D, NEW M, Proper("up", <<>>, p, g, D, M)
  PROVE  Proper("up", Skip(WorkOf[p]), p, g, D, M)
BY ProperWorks, WorkLeads, LeadsSkip DEF Proper

\* A process that ends, after its work or because of a failure.
LEMMA ProperEnds ==
  ASSUME NEW p \in Workers, NEW g \in Generations, NEW D, NEW E, NEW N, NEW M, Proper("up", N, p, g, D, M),
         HolderAt(p, g) \notin E => N = <<>>
  PROVE  Proper("closing", Skip(TerminateOf[p][g][HasIn(p, g, M)]), p, g, E, M)
<1>1. M \in Serving(p, g) /\ (HolderAt(p, g) \notin E => M = Working(p, g))
  BY ProperWorks DEF Proper
<1>2. PICK G : /\ Leads(E, TerminateOf[p][g][HasIn(p, g, M)], p, g, Standing(p, g), M, G)
               /\ HolderAt(p, g) \notin E => \A x \in G : x[1] \in Memory
  BY <1>1, EndsLeads
<1>3. Leads(E, Skip(TerminateOf[p][g][HasIn(p, g, M)]), p, g, Standing(p, g), M, G)
  BY <1>2, LeadsSkip, Zenon
<1>4. M \in Standing(p, g)
  BY <1>1 DEF Serving
<1> QED
  BY <1>2, <1>3, <1>4, Zenon DEF Proper

\* A process that has terminated is dead, and left memory only.
LEMMA ProperEnded ==
  ASSUME NEW p, NEW g, NEW D, NEW M, Proper("closing", <<>>, p, g, D, M)
  PROVE  Proper("dead", <<>>, p, g, D, M)
BY LeadsEnd DEF Proper

\* The context is the same in every generation.
LEMMA ContextStill ==
  ASSUME NEW st, NEW N, NEW g, NEW h, NEW D, NEW M, Proper(st, N, "context", g, D, M)
  PROVE  Proper(st, N, "context", h, D, M)
<1>1. /\ HolderAt("context", g) = HolderAt("context", h) /\ External("context", g) = External("context", h)
  BY DEF HolderAt, External
<1>2. /\ Started("context", g) = Started("context", h) /\ Working("context", g) = Working("context", h)
  BY ContextSets
<1>3. Standing("context", g) = Standing("context", h) /\ Serving("context", g) = Serving("context", h)
  BY <1>2 DEF Standing, Serving
<1> QED
  BY <1>1, <1>2, <1>3 DEF Proper, Leads

----------------------------------------------------------------------------
(* Steps that go on without their process *)

Owned(N, o) == Listing(N) /\ \A i \in 1 .. Len(N) : \A x \in N[i].makes \union N[i].ends : HolderOf(x) = o

\* The steps of a process make and end its own tokens only;
LEMMA ProperOwned ==
  ASSUME NEW st, NEW N, NEW p, NEW g, NEW D, NEW M, Proper(st, N, p, g, D, M), N # <<>>
  PROVE  Owned(N, HolderAt(p, g))
<1>1. PICK B, G : Leads(D, N, p, g, B, M, G)
  BY DEF Proper
<1>2. Listing(N) /\ Touched(N)
  BY <1>1 DEF Leads, Runs
<1>3. PICK tr : Trace(D, N, HolderAt(p, g), External(p, g), B, M, G, tr)
  BY <1>1 DEF Leads, Runs
<1>4. ASSUME NEW i \in 1 .. Len(N) PROVE \A x \in N[i].makes \union N[i].ends : HolderOf(x) = HolderAt(p, g)
  <2>1. Does(D, N[i], HolderAt(p, g), External(p, g), B, tr[i], tr[i + 1]) /\ Pure(N[i])
    BY <1>2, <1>3 DEF Trace, Touched
  <2> QED
    BY <2>1 DEF Does, Takes, Pure
<1> QED
  BY <1>2, <1>4 DEF Owned

\* so do those that remain after a step,
LEMMA SkipOwned ==
  ASSUME NEW N, NEW o, Owned(N, o), N # <<>>
  PROVE  Owned(Skip(Tail(N)), o) /\ \A x \in Head(N).makes \union Head(N).ends : HolderOf(x) = o
<1>1. Listing(N) /\ Len(N) > 0 /\ Head(N) = N[1]
  BY DEF Owned, Listing
<1>2. Listing(Tail(N)) /\ Len(Tail(N)) = Len(N) - 1 /\ \A i \in 1 .. Len(N) - 1 : Tail(N)[i] = N[i + 1]
  BY <1>1 DEF Listing
<1>3. /\ Listing(Skip(Tail(N))) /\ Len(Skip(Tail(N))) = Len(Tail(N)) + 1 - First(Tail(N))
      /\ First(Tail(N)) \in 1 .. Len(Tail(N)) + 1
      /\ \A i \in 1 .. Len(Skip(Tail(N))) : Skip(Tail(N))[i] = Tail(N)[i + First(Tail(N)) - 1]
  BY <1>2, SkipIs, FirstOf
<1>4. ASSUME NEW i \in 1 .. Len(Skip(Tail(N))) PROVE \E j \in 1 .. Len(N) : Skip(Tail(N))[i] = N[j]
  <2> DEFINE m == i + First(Tail(N)) - 1
  <2>1. m \in 1 .. Len(N) - 1 /\ m + 1 \in 1 .. Len(N)
    BY <1>1, <1>2, <1>3 DEF Listing
  <2>2. Skip(Tail(N))[i] = Tail(N)[m]
    BY <1>3
  <2>3. Tail(N)[m] = N[m + 1]
    BY <1>2, <2>1
  <2> QED
    BY <2>1, <2>2, <2>3
<1>5. \A x \in N[1].makes \union N[1].ends : HolderOf(x) = o
  BY <1>1 DEF Owned, Listing
<1> QED
  BY <1>1, <1>3, <1>4, <1>5 DEF Owned

\* and those a killed process leaves to run.
LEMMA BegunOwned ==
  ASSUME NEW N, NEW o, Owned(N, o)
  PROVE  Owned(Begun(N), o)
<1>1. Listing(N)
  BY DEF Owned
<1> DEFINE good(i) == /\ i = Len(N) + 1 \/ ~ N[i].begun
                      /\ \A j \in 1 .. i - 1 : N[j].begun
           n == CHOOSE i \in 1 .. Len(N) + 1 : good(i)
           S == {i \in Nat : i >= 1 /\ (i = Len(N) + 1 \/ (i <= Len(N) /\ ~ N[i].begun))}
<1>2. \E m \in 1 .. Len(N) + 1 : good(m)
  <2>1. S \subseteq Nat /\ Len(N) + 1 \in S
    BY <1>1 DEF Listing
  <2>2. PICK m \in S : \A j \in S : ~ (<<j, m>> \in OpToRel(<, Nat))
    BY <2>1, NatLessThanWellFounded, WFMin
  <2>3. \A j \in S : ~ (j < m)
    BY <2>1, <2>2 DEF OpToRel
  <2>4. m \in 1 .. Len(N) + 1 /\ (m = Len(N) + 1 \/ ~ N[m].begun)
    BY <1>1, <2>3 DEF Listing
  <2>5. \A j \in 1 .. m - 1 : N[j].begun
    BY <1>1, <2>3, <2>4 DEF Listing
  <2> QED
    BY <2>4, <2>5
<1>3. n \in 1 .. Len(N) + 1
  <2> HIDE DEF good
  <2> QED
    BY <1>2
<1>4. Begun(N) = SubSeq(N, 1, n - 1)
  BY DEF Begun
<1> HIDE DEF n
<1>5. /\ Listing(SubSeq(N, 1, n - 1)) /\ Len(SubSeq(N, 1, n - 1)) = n - 1
      /\ \A i \in 1 .. n - 1 : SubSeq(N, 1, n - 1)[i] = N[i] /\ i \in 1 .. Len(N)
  BY <1>1, <1>3 DEF Listing
<1> QED
  BY <1>4, <1>5 DEF Owned
----------------------------------------------------------------------------
(* The invariant *)

States == {"none", "init", "up", "closing", "dead"}
GenOf(p) == IF p \in Entities THEN born[p] ELSE gen
Mine(o)  == {x \in held : HolderOf(x) = o}
Known    == {<<p>> : p \in Entities \union {"context"}} \union {<<"owner", g>> : g \in 1 .. gen}

TypeInv ==
  /\ gen \in Generations
  /\ state \in [Processes -> States] /\ state["node"] # "closing"
  /\ todo = [p \in Processes |-> todo[p]]
  /\ born \in [Entities -> Generations \union {0}]

\* Which process lives in which stage.
Phases ==
  /\ stage # "down" => state["context"] = "up"
  /\ state["context"] = "up" => todo["context"] = <<>>
  /\ stage \in {"up", "stop_entities", "stop_node"} => state["owner"] = "up" /\ todo["owner"] = <<>>
  /\ stage = "down" => state["owner"] = "dead"
  /\ \A e \in Entities : state[e] \in Live => stage \in {"up", "stop_entities"} /\ born[e] = gen
  /\ \A e \in Entities : state[e] = "none" <=> born[e] = 0
  /\ todo["node"] = <<>>

\* Whose tokens there are, and what owners of old have left.
Ownership ==
  /\ \A x \in held : HolderOf(x) \in Known
  /\ damaged \subseteq Known \union {<<"node">>}
  /\ \A g \in 1 .. gen - 1 : <<"owner", g>> \notin damaged => \A x \in Mine(<<"owner", g>>) : x[1] \in Memory

\* A NIF that goes on disturbs nobody but its process, which is dead.
GhostApart == ghost # <<>> => \E e \in Entities : state[e] = "dead" /\ <<e>> \in damaged /\ Owned(ghost, <<e>>)

Procs == \A p \in Workers : Proper(state[p], todo[p], p, GenOf(p), damaged, Mine(Holder(p)))

IInv == TypeInv /\ Phases /\ Ownership /\ GhostApart /\ Procs /\ UsesAreLive

\* Every process has a holder of its own.
LEMMA Holders ==
  /\ \A p \in Workers : HolderAt(p, GenOf(p)) = Holder(p)
  /\ \A p \in Processes, q \in Processes : p # q => Holder(p) # Holder(q)
  /\ \A e \in Entities : \A g : e \notin {"owner", "context", "node"} /\ Holder(e) = <<e>> /\ <<e>> # <<"owner", g>>
  /\ Holder("owner") = <<"owner", gen>> /\ Holder("context") = <<"context">> /\ Holder("node") = <<"node">>
  /\ "owner" \in Workers /\ "context" \in Workers /\ "owner" \notin Entities /\ "context" \notin Entities
  /\ "node" \notin Workers /\ "node" \notin Entities
  /\ Workers = Entities \union {"owner", "context"} /\ Processes = Workers \union {"node"}
<1>1. /\ {"owner", "context", "node"} \intersect Entities = {}
  BY StackAssumption
<1>2. \A a, b, c : <<a>> # <<b, c>>
  OBVIOUS
<1>3. Workers = Entities \union {"owner", "context"} /\ Processes = Workers \union {"node"}
  BY <1>1 DEF Workers, Processes
<1>4. \A p \in Workers : HolderAt(p, GenOf(p)) = Holder(p)
  BY <1>1, <1>3 DEF HolderAt, Holder, Owner, GenOf
<1>5. \A p \in Processes, q \in Processes : p # q => Holder(p) # Holder(q)
  BY <1>2 DEF Holder, Owner
<1> QED
  BY <1>1, <1>2, <1>3, <1>4, <1>5 DEF Holder, Owner

\* The holder of a process is known.
LEMMA HoldersKnown == ASSUME TypeInv PROVE \A p \in Workers : Holder(p) \in Known
BY Holders DEF TypeInv, Known, Generations

\* A live process has what it needs of others.
LEMMA ExternalHeld ==
  ASSUME IInv, NEW p \in Workers, state[p] \in Live
  PROVE  External(p, GenOf(p)) \subseteq held
<1>1. ASSUME stage # "down" PROVE Context \in held
  <2>1. state["context"] = "up" /\ todo["context"] = <<>>
    BY <1>1 DEF IInv, Phases
  <2>2. Proper("up", <<>>, "context", GenOf("context"), damaged, Mine(Holder("context")))
    BY <2>1, Holders DEF IInv, Procs
  <2>3. Mine(Holder("context")) = {Context}
    BY <2>2, ProperWorks, ContextSets
  <2> QED
    BY <2>3 DEF Mine
<1>2. ASSUME stage \in {"up", "stop_entities", "stop_node"} PROVE Node(gen) \in held
  <2>1. state["owner"] = "up" /\ todo["owner"] = <<>>
    BY <1>2 DEF IInv, Phases
  <2>2. Proper("up", <<>>, "owner", gen, damaged, Mine(Holder("owner")))
    BY <2>1, Holders DEF IInv, Procs, GenOf
  <2>3. Mine(Holder("owner")) = Working("owner", gen)
    BY <2>2, ProperWorks
  <2> QED
    BY <2>3, OwnerSets DEF Mine
<1>3. CASE p = "context"
  BY <1>3 DEF External
<1>4. CASE p = "owner"
  BY <1>1, <1>4 DEF External, IInv, Phases, Live
<1>5. CASE p \in Entities
  <2>1. stage \in {"up", "stop_entities"} /\ GenOf(p) = gen
    BY <1>5 DEF IInv, Phases, GenOf
  <2> QED
    BY <1>1, <1>2, <1>5, <2>1, Holders DEF External
<1> QED
  BY <1>3, <1>4, <1>5, Holders

\* One process moves.
LEMMA Moved ==
  ASSUME TypeInv, Procs, NEW p \in Workers, NEW st, NEW N,
         state' = [state EXCEPT ![p] = st], todo' = [todo EXCEPT ![p] = N], gen' = gen,
         \A e \in Entities : e # p => born'[e] = born[e],
         \A q \in Workers : q # p => (Holder(q) \in damaged' <=> Holder(q) \in damaged),
         \A o : o # Holder(p) => Mine(o)' = Mine(o),
         Proper(st, N, p, GenOf(p)', damaged', Mine(Holder(p))')
  PROVE  Procs'
<1> SUFFICES ASSUME NEW q \in Workers
             PROVE  Proper(state'[q], todo'[q], q, GenOf(q)', damaged', Mine(Holder(q))')
  BY DEF Procs
<1>1. \A r \in Processes : /\ state'[r] = IF r = p THEN st ELSE state[r]
                           /\ todo'[r] = IF r = p THEN N ELSE todo[r]
  BY Holders DEF TypeInv
<1>2. \A r : Holder(r)' = Holder(r)
  BY DEF Holder, Owner
<1>3. CASE q = p
  BY <1>1, <1>2, <1>3, Holders DEF Mine
<1>4. CASE q # p
  <2>1. state'[q] = state[q] /\ todo'[q] = todo[q]
    BY <1>1, <1>4, Holders
  <2>2. GenOf(q)' = GenOf(q)
    BY <1>4 DEF GenOf
  <2>3. Mine(Holder(q))' = Mine(Holder(q))
    BY <1>2, <1>4, Holders DEF Mine
  <2>4. HolderAt(q, GenOf(q)) \in damaged' <=> HolderAt(q, GenOf(q)) \in damaged
    BY <1>4, Holders
  <2>5. Proper(state[q], todo[q], q, GenOf(q), damaged, Mine(Holder(q)))
    BY DEF Procs
  <2> QED
    BY <2>1, <2>2, <2>3, <2>4, <2>5, ProperStill
<1> QED
  BY <1>3, <1>4

\* Nobody moves, but perhaps the node.
LEMMA NobodyMoved ==
  ASSUME TypeInv, Procs, UNCHANGED <<gen, todo, born, held, damaged>>,
         \A q \in Workers : state'[q] = state[q]
  PROVE  Procs'
<1> SUFFICES ASSUME NEW q \in Workers
             PROVE  Proper(state'[q], todo'[q], q, GenOf(q)', damaged', Mine(Holder(q))')
  BY DEF Procs
<1>1. GenOf(q)' = GenOf(q) /\ Mine(Holder(q))' = Mine(Holder(q))
  BY DEF GenOf, Mine, Holder, Owner
<1> QED
  BY <1>1 DEF Procs

----------------------------------------------------------------------------
(* The steps of the processes *)

LEMMA OwnStep ==
  ASSUME IInv, NEW p \in Processes, todo[p] # <<>>
  PROVE  LET s == Head(todo[p]) IN
         /\ p \in Workers /\ state[p] \in Live /\ s.uses \subseteq held /\ s.undo = {}
         /\ Holder(p) \notin damaged => s.checks \subseteq held
         /\ \A x \in s.makes \union s.ends : HolderOf(x) = Holder(p)
         /\ Proper(state[p], Skip(Tail(todo[p])), p, GenOf(p), damaged, (Mine(Holder(p)) \union s.makes) \ s.ends)
         /\ state[p] \in {"init", "up"} => Holder(p) \notin damaged
         /\ p = "context" => state[p] # "up"
         /\ p = "owner" => stage \notin {"up", "stop_entities", "stop_node"}
<1> DEFINE s == Head(todo[p])
<1>1. p \in Workers
  BY Holders DEF IInv, Phases
<1>2. /\ Proper(state[p], todo[p], p, GenOf(p), damaged, Mine(Holder(p)))
      /\ HolderAt(p, GenOf(p)) = Holder(p)
  BY <1>1, Holders DEF IInv, Procs
<1> DEFINE M == Mine(Holder(p))
<1>3. /\ state[p] \in Live /\ s.undo = {} /\ s.uses \subseteq M \union External(p, GenOf(p))
      /\ Holder(p) \notin damaged => s.checks \subseteq M \union External(p, GenOf(p))
      /\ \A x \in s.makes \union s.ends : HolderOf(x) = Holder(p)
      /\ Proper(state[p], Skip(Tail(todo[p])), p, GenOf(p), damaged, (M \union s.makes) \ s.ends)
  <2> HIDE DEF M
  <2>1. HolderAt(p, GenOf(p)) = Holder(p) /\ Proper(state[p], todo[p], p, GenOf(p), damaged, M)
    BY <1>2 DEF M
  <2>2. /\ state[p] \in Live /\ s.undo = {} /\ s.uses \subseteq M \union External(p, GenOf(p))
        /\ HolderAt(p, GenOf(p)) \notin damaged => s.checks \subseteq M \union External(p, GenOf(p))
        /\ \A x \in s.makes \union s.ends : HolderOf(x) = HolderAt(p, GenOf(p))
        /\ Proper(state[p], Skip(Tail(todo[p])), p, GenOf(p), damaged, (M \union s.makes) \ s.ends)
    <3>1. PICK st, N, g, D, K : st = state[p] /\ N = todo[p] /\ g = GenOf(p) /\ D = damaged /\ K = M
      OBVIOUS
    <3>2. Proper(st, N, p, g, D, K) /\ N # <<>>
      BY <2>1, <3>1
    <3> DEFINE t == Head(N)
    <3>3. /\ st \in Live /\ t.undo = {} /\ t.uses \subseteq K \union External(p, g)
          /\ HolderAt(p, g) \notin D => t.checks \subseteq K \union External(p, g)
      BY <3>2, ProperStep
    <3>4. /\ \A x \in t.makes \union t.ends : HolderOf(x) = HolderAt(p, g)
      <4>1. Owned(N, HolderAt(p, g))
        BY <3>2, ProperOwned
      <4> QED
        BY <3>2, <4>1, SkipOwned
    <3>5. Proper(st, Skip(Tail(N)), p, g, D, (K \union t.makes) \ t.ends)
      BY <3>2, ProperStep
    <3> QED
      BY <3>1, <3>3, <3>4, <3>5
  <2> QED
    BY <2>1, <2>2
<1>4. Mine(Holder(p)) \union External(p, GenOf(p)) \subseteq held
  BY <1>1, <1>3, ExternalHeld DEF Mine
<1>5. state[p] \in {"init", "up"} => Holder(p) \notin damaged
  BY <1>2 DEF Proper
<1> HIDE DEF s
<1>6. s.uses \subseteq held /\ (Holder(p) \notin damaged => s.checks \subseteq held)
  BY <1>3, <1>4
<1>7. /\ p = "context" => state[p] # "up"
      /\ p = "owner" => stage \notin {"up", "stop_entities", "stop_node"}
  BY DEF IInv, Phases
<1> QED
  BY <1>1, <1>3, <1>5, <1>6, <1>7 DEF s

\* A step runs.
LEMMA RunStepKeeps ==
  ASSUME IInv, NEW p \in Processes, RunStep(p)
  PROVE  IInv'
<1> DEFINE s == Head(todo[p])
<1>1. PICK o : o = Holder(p)
  OBVIOUS
<1>2. todo[p] # <<>> /\ held' = (held \union s.makes) \ s.ends /\ todo' = [todo EXCEPT ![p] = Skip(Tail(todo[p]))]
  BY DEF RunStep, NextStep, Effect
<1>3. UNCHANGED <<stage, again, gen, stopping, state, born, ghost, damaged>>
  BY DEF RunStep, sup, others
<1>4. /\ p \in Workers /\ state[p] \in Live /\ s.uses \subseteq held
      /\ \A x \in s.makes \union s.ends : HolderOf(x) = o
      /\ Proper(state[p], Skip(Tail(todo[p])), p, GenOf(p), damaged, (Mine(o) \union s.makes) \ s.ends)
      /\ p = "context" => state[p] # "up"
      /\ p = "owner" => stage \notin {"up", "stop_entities", "stop_node"}
  BY <1>2, <1>1, OwnStep
<1>5. late' = late
  BY <1>4 DEF RunStep, Touch, NextStep
<1> HIDE DEF s
<1>6. Mine(o)' = (Mine(o) \union s.makes) \ s.ends /\ \A q : q # o => Mine(q)' = Mine(q)
  <2>1. PICK m, e : m = s.makes /\ e = s.ends
    OBVIOUS
  <2>2. (\A x \in m \union e : HolderOf(x) = o) /\ held' = (held \union m) \ e
    BY <1>2, <1>4, <2>1 DEF s
  <2>3. Mine(o)' = (Mine(o) \union m) \ e /\ \A q : q # o => Mine(q)' = Mine(q)
    BY <2>2 DEF Mine
  <2> QED
    BY <2>1, <2>3
<1>7. TypeInv' /\ Phases'
  <2>1. \A q \in Processes : todo'[q] = IF q = p THEN Skip(Tail(todo[p])) ELSE todo[q]
    BY <1>2 DEF IInv, TypeInv
  <2>2. todo' = [q \in Processes |-> todo'[q]]
    BY <1>2 DEF IInv, TypeInv
  <2>3. TypeInv'
    BY <1>3, <2>2 DEF IInv, TypeInv
  <2>4. p # "node" /\ {"context", "owner", "node"} \subseteq Processes
    BY <1>4, Holders
  <2>5. Phases'
    BY <1>3, <1>4, <2>1, <2>4 DEF IInv, Phases
  <2> QED
    BY <2>3, <2>5
<1>8. Ownership'
  <2>1. Known' = Known
    BY <1>3 DEF Known
  <2>2. \A x \in held' : HolderOf(x) \in Known
    BY <1>2, <1>4, <1>1, HoldersKnown DEF IInv, Ownership
  <2>3. \A g \in 1 .. gen - 1 : <<"owner", g>> # o
    <3>1. \A g \in 1 .. gen - 1 : g # gen
      BY DEF IInv, TypeInv, Generations
    <3> QED
      BY <1>4, <1>1, <3>1, Holders DEF Holder, Owner
  <2> QED
    BY <1>3, <1>6, <2>1, <2>2, <2>3 DEF IInv, Ownership
<1>9. GhostApart' /\ UsesAreLive'
  BY <1>3, <1>5 DEF IInv, GhostApart, UsesAreLive
<1>10. Procs'
  <2>1. state' = [state EXCEPT ![p] = state[p]]
    BY <1>3 DEF IInv, TypeInv
  <2>2. GenOf(p)' = GenOf(p) /\ Holder(p)' = o
    BY <1>3, <1>1 DEF GenOf, Holder, Owner
  <2>3. Mine(Holder(p))' = (Mine(o) \union s.makes) \ s.ends
    BY <1>6, <2>2 DEF Mine
  <2>4. Proper(state[p], Skip(Tail(todo[p])), p, GenOf(p)', damaged', Mine(Holder(p))')
    BY <1>3, <1>4, <2>2, <2>3
  <2> QED
    BY <1>2, <1>3, <1>4, <1>6, <1>1, <2>1, <2>4, Moved DEF IInv
<1> QED
  BY <1>7, <1>8, <1>9, <1>10 DEF IInv

\* A process goes to another state, and what is held stays as it is.
LEMMA GoesTo ==
  ASSUME IInv, NEW p \in Workers, NEW st \in States, NEW N, Goto(p, st, N),
         UNCHANGED <<gen, held, late>>, damaged' \in {damaged, damaged \union {Holder(p)}},
         \A e \in Entities : e # p => born'[e] = born[e],
         Proper(st, Skip(N), p, GenOf(p)', damaged', Mine(Holder(p)))
  PROVE  /\ Procs' /\ Ownership' /\ UsesAreLive'
         /\ state' \in [Processes -> States] /\ state'["node"] = state["node"]
         /\ todo' = [q \in Processes |-> todo'[q]]
         /\ \A q \in Processes : /\ state'[q] = IF q = p THEN st ELSE state[q]
                                 /\ todo'[q] = IF q = p THEN Skip(N) ELSE todo[q]
<1>1. state' = [state EXCEPT ![p] = st] /\ todo' = [todo EXCEPT ![p] = Skip(N)]
  BY DEF Goto
<1>2. p \in Processes /\ "node" \in Processes /\ p # "node"
  BY Holders
<1>3. /\ state' \in [Processes -> States] /\ state'["node"] = state["node"]
      /\ todo' = [q \in Processes |-> todo'[q]]
      /\ \A q \in Processes : /\ state'[q] = IF q = p THEN st ELSE state[q]
                              /\ todo'[q] = IF q = p THEN Skip(N) ELSE todo[q]
  BY <1>1, <1>2 DEF IInv, TypeInv
<1>4. Known' = Known /\ \A o : Mine(o)' = Mine(o)
  BY DEF Known, Mine
<1>5. Ownership'
  <2>1. Holder(p) \in Known
    BY HoldersKnown DEF IInv
  <2> QED
    BY <1>4, <2>1 DEF IInv, Ownership
<1>6. \A q \in Workers : q # p => (Holder(q) \in damaged' <=> Holder(q) \in damaged)
  BY <1>2, Holders
<1>7. Mine(Holder(p))' = Mine(Holder(p))
  BY DEF Mine, Holder, Owner
<1>8. Proper(st, Skip(N), p, GenOf(p)', damaged', Mine(Holder(p))')
  BY <1>7
<1>9. Procs'
  <2> HIDE DEF Procs
  <2> QED
    BY <1>1, <1>4, <1>6, <1>8, Moved DEF IInv
<1>10. UsesAreLive'
  BY DEF IInv, UsesAreLive
<1> QED
  BY <1>3, <1>5, <1>9, <1>10

\* The same for what becomes of the ghost.
LEMMA GhostStays ==
  ASSUME IInv, UNCHANGED ghost, damaged \subseteq damaged',
         \A e \in Entities : state[e] = "dead" => state'[e] = "dead"
  PROVE  GhostApart'
BY DEF IInv, GhostApart

\* Skip of nothing is nothing.
LEMMA SkipNothing == Skip(<<>>) = <<>>
<1>1. First(<<>>) \in 1 .. 1
  BY FirstOf DEF Listing
<1> QED
  BY <1>1 DEF Skip

\* What Has asks of all that is held is asked of what the process holds.
LEMMA HasIsHasIn ==
  ASSUME NEW p \in Workers
  PROVE  Has(p) = HasIn(p, GenOf(p), Mine(Holder(p)))
<1>1. CASE p = "owner"
  <2>1. p \notin Entities /\ p \notin Talkers /\ p \notin Subscriptions /\ p \notin Services
    BY <1>1, StackAssumption DEF Entities, Talkers
  <2>2. Has(p) = (Thread(gen) \in held)
    BY <1>1, <2>1, Zenon DEF Has, OwnsThread
  <2>3. HasIn(p, GenOf(p), Mine(Holder(p))) = (Thread(gen) \in Mine(Holder(p)))
    BY <1>1, <2>1, Zenon DEF HasIn, GenOf
  <2>4. Thread(gen) \in held <=> Thread(gen) \in Mine(Holder(p))
    BY <1>1, Tokens, Holders DEF Mine
  <2>5. (Thread(gen) \in held) = (Thread(gen) \in Mine(Holder(p)))
    BY <2>4
  <2> QED
    BY <2>2, <2>3, <2>5, Zenon
<1>2. CASE p \in Talkers
  <2>1. p \in Entities /\ p # "owner" /\ Holder(p) = <<p>>
    BY <1>2, Holders DEF Entities, Talkers
  <2>2. Has(p) = (Ref("term", Handle(p), Channel(p)) \in held)
    <3>1. CASE p \in Subscriptions
      <4>1. Channel(p) = "message"
        BY <3>1 DEF Channel
      <4>2. Has(p) = (Ref("term", Handle(p), "message") \in held)
        BY <2>1, <3>1, Kinds, Zenon DEF Has
      <4> QED
        BY <4>1, <4>2, Zenon
    <3>2. CASE p \in Services
      <4>1. p \notin Subscriptions
        BY <3>2, Kinds
      <4>2. Channel(p) = "request"
        BY <4>1 DEF Channel
      <4>3. Has(p) = (Ref("term", Handle(p), "request") \in held)
        BY <2>1, <3>2, <4>1, Zenon DEF Has
      <4> QED
        BY <4>2, <4>3, Zenon
    <3> QED
      BY <1>2, <3>1, <3>2 DEF Talkers
  <2>3. HasIn(p, GenOf(p), Mine(Holder(p))) = (Ref("term", Handle(p), Channel(p)) \in Mine(Holder(p)))
    BY <1>2, <2>1, Zenon DEF HasIn
  <2>4. Ref("term", Handle(p), Channel(p)) \in held <=> Ref("term", Handle(p), Channel(p)) \in Mine(Holder(p))
    BY <2>1, Tokens DEF Mine
  <2>5. (Ref("term", Handle(p), Channel(p)) \in held) = (Ref("term", Handle(p), Channel(p)) \in Mine(Holder(p)))
    BY <2>4
  <2> QED
    BY <2>2, <2>3, <2>5, Zenon
<1>3. CASE p \in Timers \union {"context"}
  <2>1. p # "owner" /\ p \notin Talkers /\ p \notin Subscriptions /\ p \notin Services
    BY <1>3, Holders, Kinds DEF Entities, Talkers
  <2>2. Has(p) = FALSE
    BY <2>1, Zenon DEF Has
  <2>3. HasIn(p, GenOf(p), Mine(Holder(p))) = FALSE
    BY <2>1, Zenon DEF HasIn
  <2> QED
    BY <2>2, <2>3, Zenon
<1> QED
  BY <1>1, <1>2, <1>3, Holders DEF Entities, Talkers

\* terminate is called with its work done, or by a process that is damaged.
LEMMA EndsProperly ==
  ASSUME IInv, NEW p \in Workers, state[p] = "up", NEW E, Holder(p) \notin E => todo[p] = <<>>
  PROVE  Proper("closing", Skip(Terminating(p)), p, GenOf(p), E, Mine(Holder(p)))
<1>1. GenOf(p) \in Generations /\ HolderAt(p, GenOf(p)) = Holder(p)
  BY Holders DEF IInv, TypeInv, Phases, GenOf, Live
<1>2. Proper("up", todo[p], p, GenOf(p), damaged, Mine(Holder(p)))
  BY DEF IInv, Procs
<1>3. Terminating(p) = TerminateOf[p][GenOf(p)][HasIn(p, GenOf(p), Mine(Holder(p)))]
  BY HasIsHasIn, Zenon DEF Terminating, GenOf
<1>4. HolderAt(p, GenOf(p)) \notin E => todo[p] = <<>>
  BY <1>1
<1> QED
  BY <1>1, <1>2, <1>3, <1>4, ProperEnds, Zenon

\* The phases do not mind a process that ends.
LEMMA EndsPhases ==
  ASSUME IInv, NEW p \in Workers, state[p] \in Live, p = "context" => stage = "down",
         p = "owner" => stage \notin {"up", "stop_entities", "stop_node"}, UNCHANGED <<stage, born, gen>>,
         NEW st \in {"closing", "dead"}, NEW N,
         \A q \in Processes : /\ state'[q] = IF q = p THEN st ELSE state[q]
                              /\ todo'[q] = IF q = p THEN N ELSE todo[q]
  PROVE  Phases'
<1>1. /\ \A e \in Entities : e \in Processes
      /\ {"context", "owner", "node"} \subseteq Processes /\ p # "node"
  BY Holders
<1>2. /\ stage' # "down" => state'["context"] = "up"
      /\ state'["context"] = "up" => todo'["context"] = <<>>
      /\ stage' \in {"up", "stop_entities", "stop_node"} => state'["owner"] = "up" /\ todo'["owner"] = <<>>
      /\ stage' = "down" => state'["owner"] = "dead"
      /\ todo'["node"] = <<>>
  BY <1>1 DEF IInv, Phases, Live
<1>3. ASSUME NEW e \in Entities
      PROVE  /\ state'[e] \in Live => stage' \in {"up", "stop_entities"} /\ born'[e] = gen'
             /\ state'[e] = "none" <=> born'[e] = 0
  BY <1>1 DEF IInv, Phases, Live
<1> QED
  BY <1>2, <1>3 DEF Phases

\* A process ends.
LEMMA EndsKeep ==
  ASSUME IInv, NEW p \in Workers, state[p] \in Live, p = "context" => stage = "down",
         p = "owner" => stage \notin {"up", "stop_entities", "stop_node"},
         UNCHANGED <<stage, born, gen, held, late>>, damaged' \in {damaged, damaged \union {Holder(p)}},
         NEW st \in {"closing", "dead"}, NEW N, Goto(p, st, N),
         Proper(st, Skip(N), p, GenOf(p), damaged', Mine(Holder(p)))
  PROVE  /\ TypeInv' /\ Phases' /\ Ownership' /\ Procs' /\ UsesAreLive'
         /\ UNCHANGED ghost => GhostApart'
         /\ state'[p] = st
<1>1. GenOf(p)' = GenOf(p) /\ st \in States
  BY DEF GenOf, States
<1>2. /\ Procs' /\ Ownership' /\ UsesAreLive'
      /\ state' \in [Processes -> States] /\ state'["node"] = state["node"]
      /\ todo' = [q \in Processes |-> todo'[q]]
      /\ \A q \in Processes : /\ state'[q] = IF q = p THEN st ELSE state[q]
                              /\ todo'[q] = IF q = p THEN Skip(N) ELSE todo[q]
  BY <1>1, GoesTo
<1>3. TypeInv'
  BY <1>2 DEF IInv, TypeInv
<1>4. Phases'
  BY <1>2, EndsPhases
<1>5. /\ \A e \in Entities : e \in Processes
      /\ p \in Processes
  BY Holders
<1>6. \A e \in Entities : state[e] = "dead" => state'[e] = "dead"
  BY <1>2, <1>5 DEF Live
<1>7. UNCHANGED ghost => GhostApart'
  BY <1>6, GhostStays
<1> QED
  BY <1>2, <1>3, <1>4, <1>5, <1>7

\* Who is refused is damaged, and dies;
LEMMA RefusedKeeps ==
  ASSUME IInv, NEW p \in Processes, Refused(p)
  PROVE  IInv'
<1>1. todo[p] # <<>> /\ ~ (Head(todo[p]).checks \subseteq held) /\ Crash(p)
  BY DEF Refused, NextStep
<1>2. UNCHANGED <<stage, gen, born, held, damaged, ghost>>
  BY DEF Refused, sup, others
<1>3. /\ p \in Workers /\ state[p] = "closing" /\ Holder(p) \in damaged
      /\ p = "owner" => stage \notin {"up", "stop_entities", "stop_node"}
  BY <1>1, OwnStep DEF Live
<1>4. Goto(p, "dead", <<>>) /\ late' = late
  BY <1>1, <1>3 DEF Crash, Refused
<1>5. Proper("dead", Skip(<<>>), p, GenOf(p), damaged', Mine(Holder(p)))
  BY <1>2, <1>3, Holders, SkipNothing, ProperDead
<1>6. p = "context" => stage = "down"
  BY <1>3 DEF IInv, Phases
<1> QED
  BY <1>2, <1>3, <1>4, <1>5, <1>6, EndsKeep DEF IInv, Live

\* whose rcl call fails becomes damaged, and raises;
LEMMA RclFailsKeeps ==
  ASSUME IInv, NEW p \in Processes, RclFails(p)
  PROVE  IInv'
<1>1. todo[p] # <<>> /\ held' = held \ Head(todo[p]).undo /\ Crash(p) /\ damaged' = damaged \union {Holder(p)}
  BY DEF RclFails, NextStep
<1>2. /\ p \in Workers /\ state[p] \in Live /\ Head(todo[p]).undo = {}
      /\ p = "owner" => stage \notin {"up", "stop_entities", "stop_node"}
      /\ p = "context" => state[p] # "up"
  BY <1>1, OwnStep
<1>3. UNCHANGED <<stage, gen, born, late, ghost, held>>
  BY <1>1, <1>2 DEF RclFails, sup, others
<1>4. p = "context" => stage = "down"
  BY <1>2 DEF IInv, Phases
<1>5. CASE state[p] = "up"
  <2>1. Goto(p, "closing", Terminating(p))
    BY <1>1, <1>5 DEF Crash
  <2>2. Proper("closing", Skip(Terminating(p)), p, GenOf(p), damaged', Mine(Holder(p)))
    BY <1>1, <1>2, <1>5, EndsProperly
  <2> QED
    BY <1>1, <1>2, <1>3, <1>4, <2>1, <2>2, EndsKeep DEF IInv
<1>6. CASE state[p] # "up"
  <2>1. Goto(p, "dead", <<>>)
    BY <1>1, <1>6 DEF Crash
  <2>2. Proper("dead", Skip(<<>>), p, GenOf(p), damaged', Mine(Holder(p)))
    BY <1>1, <1>2, Holders, SkipNothing, ProperDead
  <2> QED
    BY <1>1, <1>2, <1>3, <1>4, <2>1, <2>2, EndsKeep DEF IInv
<1> QED
  BY <1>5, <1>6

\* who has terminated dies.
LEMMA TerminatedKeeps ==
  ASSUME IInv, NEW p \in Processes, Terminated(p)
  PROVE  IInv'
<1>1. state[p] = "closing" /\ todo[p] = <<>> /\ Goto(p, "dead", <<>>)
  BY DEF Terminated
<1>2. UNCHANGED <<stage, gen, born, held, late, damaged, ghost>>
  BY DEF Terminated, sup, others
<1>3. /\ p \in Workers
      /\ p = "context" => stage = "down"
      /\ p = "owner" => stage \notin {"up", "stop_entities", "stop_node"}
  BY <1>1, Holders DEF IInv, TypeInv, Phases
<1>4. Proper("dead", Skip(<<>>), p, GenOf(p), damaged', Mine(Holder(p)))
  <2>1. Proper("closing", <<>>, p, GenOf(p), damaged, Mine(Holder(p)))
    BY <1>1, <1>3 DEF IInv, Procs
  <2> QED
    BY <1>2, <2>1, SkipNothing, ProperEnded
<1> QED
  BY <1>1, <1>2, <1>3, <1>4, EndsKeep DEF IInv, Live

\* An entity begins to terminate.
LEMMA TerminateKeeps ==
  ASSUME IInv, NEW e \in Entities, Terminate(e)
  PROVE  IInv'
<1>1. state[e] = "up" /\ todo[e] = <<>> /\ Goto(e, "closing", Terminating(e))
  BY DEF Terminate, Idle
<1>2. UNCHANGED <<stage, gen, born, held, late, damaged, ghost>>
  BY DEF Terminate, sup, others
<1>3. e \in Workers /\ e \notin {"context", "owner"}
  BY Holders
<1>4. Proper("closing", Skip(Terminating(e)), e, GenOf(e), damaged', Mine(Holder(e)))
  BY <1>1, <1>3, EndsProperly
<1> QED
  BY <1>1, <1>2, <1>3, <1>4, EndsKeep DEF IInv, Live

\* A kill damages the process, and may leave a ghost.
LEMMA KillKeeps ==
  ASSUME IInv, NEW p \in Entities \union {"node"}, Kill(p)
  PROVE  IInv'
<1>1. /\ state[p] \in Live /\ Goto(p, "dead", <<>>) /\ damaged' = damaged \union {Holder(p)}
      /\ ghost' = ghost \/ (todo[p] # <<>> /\ ghost' = Begun(todo[p]))
  BY DEF Kill, Live
<1>2. UNCHANGED <<stage, gen, born, held, late>>
  BY DEF Kill, sup
<1>3. CASE p \in Entities
  <2>1. p \in Workers /\ p \notin {"context", "owner"} /\ HolderAt(p, GenOf(p)) = Holder(p) /\ Holder(p) = <<p>>
    BY <1>3, Holders
  <2>2. Proper("dead", Skip(<<>>), p, GenOf(p), damaged', Mine(Holder(p)))
    BY <1>1, <2>1, SkipNothing, ProperDead
  <2>3. /\ TypeInv' /\ Phases' /\ Ownership' /\ Procs' /\ UsesAreLive' /\ state'[p] = "dead"
        /\ UNCHANGED ghost => GhostApart'
    BY <1>1, <1>2, <2>1, <2>2, EndsKeep
  <2>4. ASSUME todo[p] # <<>>, ghost' = Begun(todo[p]) PROVE GhostApart'
    <3>1. Owned(todo[p], <<p>>)
      BY <2>1, <2>4, ProperOwned DEF IInv, Procs
    <3>2. Owned(ghost', <<p>>)
      BY <2>4, <3>1, BegunOwned
    <3> QED
      BY <1>1, <1>3, <2>1, <2>3, <3>2 DEF GhostApart
  <2> QED
    BY <1>1, <2>3, <2>4 DEF IInv
<1>4. CASE p = "node"
  <2>1. todo[p] = <<>> /\ Holder(p) = <<"node">>
    BY <1>4, Holders DEF IInv, Phases
  <2>2. state' = [state EXCEPT !["node"] = "dead"] /\ todo' = todo
    <3>1. todo' = [todo EXCEPT !["node"] = todo["node"]]
      BY <1>1, <1>4, <2>1, SkipNothing DEF Goto
    <3> QED
      BY <1>1, <1>4, <3>1 DEF Goto, IInv, TypeInv
  <2>3. ghost' = ghost
    BY <1>1, <2>1
  <2>4. \A q \in Processes : state'[q] = IF q = "node" THEN "dead" ELSE state[q]
    BY <2>2 DEF IInv, TypeInv
  <2>5. TypeInv' /\ Phases'
    <3>1. TypeInv'
      BY <1>2, <2>2, Holders DEF IInv, TypeInv, States
    <3>2. {"context", "owner"} \subseteq Processes /\ "node" \notin {"context", "owner"}
      BY Holders
    <3>3. \A e \in Entities : state'[e] = state[e]
      BY <2>4, Holders
    <3> QED
      BY <1>2, <2>2, <2>4, <3>1, <3>2, <3>3 DEF IInv, Phases
  <2>6. Ownership' /\ UsesAreLive'
    <3>1. Known' = Known /\ \A o : Mine(o)' = Mine(o)
      BY <1>2 DEF Known, Mine
    <3> QED
      BY <1>1, <1>2, <2>1, <3>1 DEF IInv, Ownership, UsesAreLive
  <2>7. GhostApart'
    <3>1. \A e \in Entities : state[e] = "dead" => state'[e] = "dead"
      BY <2>4, Holders
    <3> QED
      BY <1>1, <2>3, <3>1, GhostStays
  <2>8. Procs'
    <3> SUFFICES ASSUME NEW q \in Workers
                 PROVE  Proper(state'[q], todo'[q], q, GenOf(q)', damaged', Mine(Holder(q))')
      BY DEF Procs
    <3>1. GenOf(q)' = GenOf(q) /\ Mine(Holder(q))' = Mine(Holder(q)) /\ state'[q] = state[q] /\ todo'[q] = todo[q]
      BY <1>2, <2>2, <2>4, Holders DEF GenOf, Mine, Holder, Owner
    <3>2. HolderAt(q, GenOf(q)) # <<"node">>
      BY <2>1, Holders
    <3>3. Proper(state[q], todo[q], q, GenOf(q), damaged, Mine(Holder(q)))
      BY DEF IInv, Procs
    <3>4. HolderAt(q, GenOf(q)) \notin damaged' <=> HolderAt(q, GenOf(q)) \notin damaged
      BY <1>1, <2>1, <3>2
    <3> QED
      BY <3>1, <3>3, <3>4, ProperStill
  <2> QED
    BY <2>5, <2>6, <2>7, <2>8 DEF IInv
<1> QED
  BY <1>3, <1>4

----------------------------------------------------------------------------
(* The steps of the supervisor, the thread and the Task of a callback *)

\* A step that moves nobody but the node.
LEMMA QuietKeeps ==
  ASSUME IInv, UNCHANGED <<gen, todo, born, held, damaged, ghost>>, UsesAreLive', Phases',
         state' \in [Processes -> States], state'["node"] # "closing",
         \A q \in Workers : state'[q] = state[q]
  PROVE  IInv'
<1>1. TypeInv'
  BY DEF IInv, TypeInv
<1>2. Known' = Known /\ \A o : Mine(o)' = Mine(o)
  BY DEF Known, Mine
<1>3. Ownership'
  BY <1>2 DEF IInv, Ownership
<1>4. Procs'
  <2> HIDE DEF Procs
  <2> QED
    BY NobodyMoved DEF IInv
<1>5. GhostApart'
  <2>1. \A e \in Entities : state[e] = "dead" => state'[e] = "dead"
    BY Holders
  <2> QED
    BY <2>1, GhostStays
<1> QED
  BY <1>1, <1>3, <1>4, <1>5 DEF IInv

\* A step that moves nobody at all.
LEMMA StillKeeps ==
  ASSUME IInv, UNCHANGED <<gen, procs, held, damaged, ghost, late>>, Phases'
  PROVE  IInv'
<1>1. UNCHANGED <<gen, todo, born, held, damaged, ghost, late, state>>
  BY DEF procs
<1>2. UsesAreLive' /\ state' \in [Processes -> States] /\ state'["node"] # "closing"
  BY <1>1 DEF IInv, TypeInv, UsesAreLive
<1> QED
  BY <1>1, <1>2, QuietKeeps

\* The Task touches, and is excused.
LEMMA TaskKeeps ==
  ASSUME IInv, TaskStep \/ \E e \in Services : StartTask(e)
  PROVE  IInv'
<1>1. UNCHANGED <<gen, stage, todo, born, held, damaged, ghost, state>>
  BY DEF TaskStep, StartTask, procs, sup
<1>2. late' \in {late, late \union {"task"}}
  BY DEF TaskStep, StartTask, Touch
<1>3. UsesAreLive' /\ Phases'
  BY <1>1, <1>2 DEF IInv, UsesAreLive, Phases
<1>4. state' \in [Processes -> States] /\ state'["node"] # "closing"
  BY <1>1 DEF IInv, TypeInv
<1> QED
  BY <1>1, <1>3, <1>4, QuietKeeps

\* The thread ends.
LEMMA ThreadKeeps ==
  ASSUME IInv, ThreadEnds \/ WaitFails
  PROVE  IInv'
<1>1. UNCHANGED <<gen, procs, held, damaged, ghost, late, stage>>
  BY DEF ThreadEnds, WaitFails, sup, others
<1>2. Phases'
  BY <1>1 DEF IInv, Phases, procs
<1> QED
  BY <1>1, <1>2, StillKeeps

\* The supervisor goes on.
LEMMA StageKeeps ==
  ASSUME IInv, \/ ChildDied \/ HelperDied \/ StopNode \/ StopApplication \/ EntitiesStopped \/ Down
  PROVE  IInv'
<1>1. UNCHANGED <<gen, procs, held, damaged, ghost, late>>
  BY DEF ChildDied, HelperDied, StopNode, StopApplication, Teardown, EntitiesStopped, Down, others
<1>2. UNCHANGED <<state, todo, born>>
  BY <1>1 DEF procs
<1>3. CASE ChildDied \/ HelperDied \/ StopNode \/ StopApplication
  <2>1. (stage = "up" /\ stage' = "stop_entities") \/ stage' = stage
    BY <1>3 DEF ChildDied, HelperDied, StopNode, StopApplication, Teardown
  <2>2. Phases'
    BY <1>1, <1>2, <2>1 DEF IInv, Phases
  <2> QED
    BY <1>1, <2>2, StillKeeps
<1>4. CASE EntitiesStopped
  <2>1. Phases'
    BY <1>1, <1>2, <1>4 DEF IInv, Phases, EntitiesStopped, Live
  <2> QED
    BY <1>1, <2>1, StillKeeps
<1>5. CASE Down
  <2>1. Phases'
    BY <1>1, <1>2, <1>5 DEF IInv, Phases, Down
  <2> QED
    BY <1>1, <2>1, StillKeeps
<1> QED
  BY <1>3, <1>4, <1>5

\* The supervisor and the Node.
LEMMA NodeKeeps ==
  ASSUME IInv, NodeStarted \/ StartFails \/ NodeStopped \/ NodeHears
  PROVE  IInv'
<1>1. UNCHANGED <<gen, born, held, damaged, ghost, late>>
  BY DEF NodeStarted, StartFails, NodeStopped, NodeHears, sup, others
<1>2. todo' = todo
  <2>1. CASE NodeHears
    <3>1. todo' = [todo EXCEPT !["node"] = todo["node"]]
      BY <2>1, SkipNothing DEF NodeHears, Goto, IInv, Phases
    <3> QED
      BY <3>1 DEF IInv, TypeInv
  <2> QED
    BY <2>1 DEF NodeStarted, StartFails, NodeStopped
<1>3. /\ state' = [state EXCEPT !["node"] = "dead"] \/ state' = [state EXCEPT !["node"] = "up"]
      /\ \/ stage' = stage
         \/ stage = "start_node" /\ stage' = "up" /\ state["owner"] = "up" /\ todo["owner"] = <<>>
         \/ stage \in {"start_owner", "start_node", "stop_node"} /\ stage' = "stop_owner"
  BY DEF NodeStarted, StartFails, NodeStopped, NodeHears, Goto, sup
<1>4. /\ state' \in [Processes -> States] /\ state'["node"] # "closing"
      /\ \A q \in Workers : state'[q] = state[q]
  BY <1>3, Holders DEF IInv, TypeInv, States
<1>5. /\ state'["owner"] = state["owner"] /\ state'["context"] = state["context"]
      /\ \A e \in Entities : state'[e] = state[e]
  BY <1>4, Holders
<1>6. UsesAreLive' /\ Phases'
  BY <1>1, <1>2, <1>3, <1>5 DEF IInv, UsesAreLive, Phases
<1> QED
  BY <1>1, <1>2, <1>4, <1>6, QuietKeeps

----------------------------------------------------------------------------
(* Processes that start, serve and stop *)

LEMMA StartEntityKeeps ==
  ASSUME IInv, NEW e \in Entities, StartEntity(e)
  PROVE  IInv'
<1>1. /\ stage = "up" /\ born[e] = 0 /\ born' = [born EXCEPT ![e] = gen] /\ Goto(e, "init", InitOf[e][gen])
      /\ UNCHANGED <<stage, gen, held, late, damaged, ghost>>
  BY DEF StartEntity, sup, others
<1>2. /\ e \in Workers /\ e \in Processes
      /\ Holder(e) = <<e>> /\ HolderAt(e, GenOf(e)) = <<e>> /\ HolderAt(e, gen) = <<e>>
  BY Holders DEF HolderAt
<1>3. state[e] = "none"
  BY <1>1 DEF IInv, Phases
<1>4. Proper("none", todo[e], e, GenOf(e), damaged, Mine(Holder(e)))
  BY <1>2, <1>3 DEF IInv, Procs
<1>5. Mine(Holder(e)) = {} /\ <<e>> \notin damaged
  BY <1>2, <1>4 DEF Proper
<1>6. gen \in Generations /\ gen # 0 /\ GenOf(e)' = gen
  BY <1>1 DEF IInv, TypeInv, GenOf, Generations
<1>7. Proper("init", Skip(InitOf[e][gen]), e, gen, damaged, {})
  BY <1>2, <1>5, <1>6, ProperInit
<1>8. Proper("init", Skip(InitOf[e][gen]), e, GenOf(e)', damaged', Mine(Holder(e)))
  BY <1>1, <1>5, <1>6, <1>7
<1>9. /\ \A f \in Entities : born'[f] = IF f = e THEN gen ELSE born[f]
      /\ born' \in [Entities -> Generations \union {0}]
  BY <1>1, <1>6 DEF IInv, TypeInv
<1>10. /\ Procs' /\ Ownership' /\ UsesAreLive'
       /\ state' \in [Processes -> States] /\ state'["node"] = state["node"]
       /\ todo' = [q \in Processes |-> todo'[q]]
       /\ \A q \in Processes : /\ state'[q] = IF q = e THEN "init" ELSE state[q]
                               /\ todo'[q] = IF q = e THEN Skip(InitOf[e][gen]) ELSE todo[q]
  <2>1. /\ "init" \in States /\ \A f \in Entities : f # e => born'[f] = born[f]
        /\ damaged' \in {damaged, damaged \union {Holder(e)}}
    BY <1>1, <1>9 DEF States
  <2> QED
    BY <1>1, <1>2, <1>8, <2>1, GoesTo
<1>11. TypeInv'
  BY <1>1, <1>9, <1>10 DEF IInv, TypeInv
<1>12. Phases'
  <2>1. /\ e \notin {"owner", "context", "node"} /\ {"owner", "context", "node"} \subseteq Processes
        /\ \A f \in Entities : f \in Processes
    BY Holders
  <2> QED
    BY <1>1, <1>6, <1>9, <1>10, <2>1 DEF IInv, Phases
<1>13. GhostApart'
  <2>1. \A f \in Entities : state[f] = "dead" => state'[f] = "dead"
    BY <1>3, <1>10, Holders
  <2> QED
    BY <1>1, <2>1, GhostStays
<1> QED
  BY <1>10, <1>11, <1>12, <1>13 DEF IInv

\* An entity that lives goes on.
LEMMA ServeKeeps ==
  ASSUME IInv, NEW e \in Entities, Initialized(e) \/ Work(e)
  PROVE  IInv'
<1>1. UNCHANGED <<stage, gen, held, late, damaged, ghost, born>>
  BY DEF Initialized, Work, sup, others
<1>2. e \in Workers /\ e \in Processes
  BY Holders
<1>3. PICK N : /\ Goto(e, "up", N) /\ Proper("up", Skip(N), e, GenOf(e), damaged, Mine(Holder(e)))
               /\ state[e] \in Live
  <2>1. Proper(state[e], todo[e], e, GenOf(e), damaged, Mine(Holder(e)))
    BY <1>2 DEF IInv, Procs
  <2>2. CASE Initialized(e)
    <3>1. state[e] = "init" /\ todo[e] = <<>> /\ Goto(e, "up", ContinueOf[e])
      BY <2>2 DEF Initialized
    <3>2. Proper("up", Skip(ContinueOf[e]), e, GenOf(e), damaged, Mine(Holder(e)))
      BY <2>1, <3>1, ProperUp
    <3> QED
      BY <3>1, <3>2 DEF Live
  <2>3. CASE Work(e)
    <3>1. state[e] = "up" /\ todo[e] = <<>> /\ Goto(e, "up", WorkOf[e])
      BY <2>3 DEF Work, Idle
    <3>2. Proper("up", Skip(WorkOf[e]), e, GenOf(e), damaged, Mine(Holder(e)))
      BY <2>1, <3>1, ProperWork
    <3> QED
      BY <3>1, <3>2 DEF Live
  <2> QED
    BY <2>2, <2>3
<1>4. /\ Procs' /\ Ownership' /\ UsesAreLive'
      /\ state' \in [Processes -> States] /\ state'["node"] = state["node"]
      /\ todo' = [q \in Processes |-> todo'[q]]
      /\ \A q \in Processes : /\ state'[q] = IF q = e THEN "up" ELSE state[q]
                              /\ todo'[q] = IF q = e THEN Skip(N) ELSE todo[q]
  <2>1. /\ "up" \in States /\ (\A f \in Entities : f # e => born'[f] = born[f])
        /\ damaged' \in {damaged, damaged \union {Holder(e)}} /\ GenOf(e)' = GenOf(e)
    BY <1>1 DEF States, GenOf
  <2>2. Proper("up", Skip(N), e, GenOf(e)', damaged', Mine(Holder(e)))
    BY <1>1, <1>3, <2>1
  <2> QED
    BY <1>1, <1>2, <1>3, <2>1, <2>2, GoesTo
<1>5. TypeInv'
  BY <1>1, <1>4 DEF IInv, TypeInv
<1>6. Phases'
  <2>1. /\ e \notin {"owner", "context", "node"} /\ {"owner", "context", "node"} \subseteq Processes
        /\ \A f \in Entities : f \in Processes
    BY Holders
  <2> QED
    BY <1>1, <1>3, <1>4, <2>1 DEF IInv, Phases, Live
<1>7. GhostApart'
  <2>1. \A f \in Entities : state[f] = "dead" => state'[f] = "dead"
    BY <1>3, <1>4, Holders DEF Live
  <2> QED
    BY <1>1, <2>1, GhostStays
<1> QED
  BY <1>4, <1>5, <1>6, <1>7 DEF IInv

\* The owner and the context stop.
LEMMA RootsKeep ==
  ASSUME IInv, OwnerStops \/ ContextStops
  PROVE  IInv'
<1>1. PICK p \in {"owner", "context"} :
        /\ state[p] = "up" /\ todo[p] = <<>> /\ Goto(p, "closing", Terminating(p))
        /\ p = "owner" => stage = "stop_owner"
        /\ p = "context" => stage = "down"
  BY DEF OwnerStops, ContextStops, Idle
<1>2. UNCHANGED <<stage, gen, born, held, late, damaged, ghost>>
  BY DEF OwnerStops, ContextStops, sup, others
<1>3. p \in Workers
  BY Holders
<1>4. Proper("closing", Skip(Terminating(p)), p, GenOf(p), damaged', Mine(Holder(p)))
  BY <1>1, <1>3, EndsProperly
<1> QED
  BY <1>1, <1>2, <1>3, <1>4, EndsKeep DEF IInv, Live

\* The owner has started, and the Node borrows.
LEMMA OwnerStartedKeeps ==
  ASSUME IInv, OwnerStarted
  PROVE  IInv'
<1>1. /\ stage = "start_owner" /\ stage' = "start_node" /\ state["owner"] = "init" /\ todo["owner"] = <<>>
      /\ state' = [state EXCEPT !["owner"] = "up", !["node"] = "init"]
      /\ todo' = [todo EXCEPT !["owner"] = Skip(Borrowed[gen])]
      /\ UNCHANGED <<gen, born, held, late, damaged, ghost>>
  BY DEF OwnerStarted, others
<1>2. "owner" \in Processes /\ "node" \in Processes /\ "context" \in Processes /\ \A e \in Entities : e \in Processes
  BY Holders
<1>3. \A q \in Processes : /\ state'[q] = IF q = "node" THEN "init" ELSE IF q = "owner" THEN "up" ELSE state[q]
                           /\ todo'[q] = IF q = "owner" THEN Skip(Borrowed[gen]) ELSE todo[q]
  BY <1>1 DEF IInv, TypeInv
<1>4. TypeInv'
  BY <1>1, <1>2, <1>3 DEF IInv, TypeInv, States
<1>5. Phases'
  <2>1. (\A e \in Entities : state'[e] = state[e]) /\ state'["context"] = state["context"]
    BY <1>2, <1>3, Holders
  <2>2. todo'["context"] = todo["context"] /\ todo'["node"] = todo["node"]
    BY <1>2, <1>3, Holders
  <2> QED
    BY <1>1, <2>1, <2>2 DEF IInv, Phases, Live
<1>6. Known' = Known /\ \A o : Mine(o)' = Mine(o)
  BY <1>1 DEF Known, Mine
<1>7. Ownership' /\ UsesAreLive'
  BY <1>1, <1>6 DEF IInv, Ownership, UsesAreLive
<1>8. GhostApart'
  <2>1. \A f \in Entities : state[f] = "dead" => state'[f] = "dead"
    BY <1>3, Holders
  <2> QED
    BY <1>1, <2>1, GhostStays
<1>9. Procs'
  <2> SUFFICES ASSUME NEW q \in Workers
               PROVE  Proper(state'[q], todo'[q], q, GenOf(q)', damaged', Mine(Holder(q))')
    BY DEF Procs
  <2>1. GenOf(q)' = GenOf(q) /\ Mine(Holder(q))' = Mine(Holder(q))
    BY <1>1 DEF GenOf, Mine, Holder, Owner
  <2>2. Proper(state[q], todo[q], q, GenOf(q), damaged, Mine(Holder(q)))
    BY DEF IInv, Procs
  <2>3. CASE q = "owner"
    <3>1. Proper("init", <<>>, "owner", gen, damaged, Mine(Holder(q)))
      BY <1>1, <2>2, <2>3, Holders DEF GenOf
    <3>2. Proper("up", Skip(Borrowed[gen]), "owner", gen, damaged, Mine(Holder(q)))
      BY <3>1, ProperBorrowed DEF IInv, TypeInv
    <3> QED
      BY <1>1, <1>3, <2>1, <2>3, <3>2, Holders DEF GenOf
  <2>4. CASE q # "owner"
    <3>1. q \in Processes /\ q # "node"
      BY Holders
    <3>2. state'[q] = state[q] /\ todo'[q] = todo[q]
      BY <1>3, <2>4, <3>1
    <3> QED
      BY <1>1, <2>1, <2>2, <3>2
  <2> QED
    BY <2>3, <2>4
<1> QED
  BY <1>4, <1>5, <1>7, <1>8, <1>9 DEF IInv

\* A NIF that goes on without its process.
LEMMA GhostKeeps ==
  ASSUME IInv, GhostStep
  PROVE  IInv'
<1> DEFINE s == Head(ghost)
<1>1. /\ ghost # <<>> /\ UNCHANGED <<stage, gen, state, todo, born, damaged>>
      /\ \/ /\ held' = (held \union s.makes) \ s.ends /\ ghost' = Skip(Tail(ghost))
            /\ late' \in {late, late \union {"ghost"}}
         \/ ghost' = <<>> /\ UNCHANGED <<held, late>>
  BY DEF GhostStep, sup, procs, Effect, Touch
<1>2. PICK e \in Entities : state[e] = "dead" /\ <<e>> \in damaged /\ Owned(ghost, <<e>>)
  BY <1>1 DEF IInv, GhostApart
<1>3. PICK o : o = <<e>>
  OBVIOUS
<1>4. PICK m, n : held' = (held \union m) \ n /\ \A x \in m \union n : HolderOf(x) = o
  <2>1. CASE held' = (held \union s.makes) \ s.ends
    <3>1. \A x \in s.makes \union s.ends : HolderOf(x) = o
      BY <1>1, <1>2, <1>3, SkipOwned
    <3> HIDE DEF s
    <3> QED
      BY <2>1, <3>1
  <2>2. CASE held' = held
    <3>1. PICK k : k = {}
      OBVIOUS
    <3>2. held' = (held \union k) \ k /\ \A x \in k \union k : HolderOf(x) = o
      BY <2>2, <3>1
    <3> QED
      BY <3>2
  <2> QED
    BY <1>1, <2>1, <2>2
<1>5. GhostApart'
  <2>1. ghost' = <<>> \/ Owned(Skip(Tail(ghost)), <<e>>)
    BY <1>1, <1>2, SkipOwned
  <2> QED
    BY <1>1, <1>2, <2>1 DEF GhostApart
<1>6. UsesAreLive'
  BY <1>1 DEF IInv, UsesAreLive
<1>7. TypeInv' /\ Phases'
  BY <1>1 DEF IInv, TypeInv, Phases
<1>8. \A q : q # o => Mine(q)' = Mine(q)
  BY <1>4 DEF Mine
<1>9. e \in Workers /\ Holder(e) = o /\ HolderAt(e, GenOf(e)) = o /\ (\A g : o # <<"owner", g>>)
  BY <1>3, Holders
<1>10. Ownership'
  <2>1. Known' = Known /\ o \in Known
    BY <1>1, <1>3 DEF Known
  <2>2. \A x \in held' : HolderOf(x) \in Known
    BY <1>4, <2>1 DEF IInv, Ownership
  <2> QED
    BY <1>1, <1>8, <1>9, <2>1, <2>2 DEF IInv, Ownership
<1>11. Procs'
  <2> SUFFICES ASSUME NEW q \in Workers
               PROVE  Proper(state'[q], todo'[q], q, GenOf(q)', damaged', Mine(Holder(q))')
    BY DEF Procs
  <2>1. GenOf(q)' = GenOf(q) /\ Holder(q)' = Holder(q)
    BY <1>1 DEF GenOf, Holder, Owner
  <2>2. Proper(state[q], todo[q], q, GenOf(q), damaged, Mine(Holder(q)))
    BY DEF IInv, Procs
  <2>3. CASE q = e
    <3>1. todo[q] = <<>> /\ state[q] = "dead"
      BY <1>2, <2>2, <2>3 DEF Proper
    <3>2. Proper("dead", <<>>, q, GenOf(q), damaged, Mine(Holder(q))')
      BY <1>2, <1>3, <1>9, <2>3, ProperDead
    <3> QED
      BY <1>1, <2>1, <3>1, <3>2
  <2>4. CASE q # e
    <3>1. Holder(q) # o
      BY <1>9, <2>4, Holders
    <3>2. Mine(Holder(q))' = Mine(Holder(q))
      BY <1>8, <2>1, <3>1 DEF Mine
    <3> QED
      BY <1>1, <2>1, <2>2, <3>2
  <2> QED
    BY <2>3, <2>4
<1> QED
  BY <1>5, <1>6, <1>7, <1>10, <1>11 DEF IInv

\* The node starts anew: the owner of old is dead and the entities are.
LEMMA RestartKeeps ==
  ASSUME IInv, Restart
  PROVE  IInv'
<1>1. /\ stage = "stop_owner" /\ state["owner"] = "dead" /\ gen < MaxGenerations
      /\ gen' = gen + 1 /\ stage' = "start_owner"
      /\ state' = [state EXCEPT !["owner"] = "init", !["node"] = "none"]
      /\ todo' = [todo EXCEPT !["owner"] = Skip(InitOf["owner"][gen + 1])]
      /\ UNCHANGED <<born, held, late, damaged, ghost>>
  BY DEF Restart, Start, others
<1>2. gen \in Nat /\ gen >= 1 /\ gen + 1 \in Generations /\ 1 .. gen \subseteq 1 .. (gen + 1)
      /\ \A g \in 1 .. gen : g # gen + 1 /\ (g = gen \/ g \in 1 .. gen - 1)
  BY <1>1, StackAssumption DEF IInv, TypeInv, Generations
<1>3. "owner" \in Processes /\ "node" \in Processes /\ "context" \in Processes /\ \A e \in Entities : e \in Processes
  BY Holders
<1>4. \A q \in Processes :
        /\ state'[q] = IF q = "node" THEN "none" ELSE IF q = "owner" THEN "init" ELSE state[q]
        /\ todo'[q] = IF q = "owner" THEN Skip(InitOf["owner"][gen + 1]) ELSE todo[q]
  BY <1>1 DEF IInv, TypeInv
<1>5. TypeInv'
  BY <1>1, <1>2, <1>3, <1>4 DEF IInv, TypeInv, States
<1>6. (\A e \in Entities : state'[e] = state[e]) /\ state'["context"] = state["context"]
  BY <1>3, <1>4, Holders
<1>7. Phases'
  <2>1. todo'["context"] = todo["context"] /\ todo'["node"] = todo["node"]
    BY <1>3, <1>4, Holders
  <2>2. \A e \in Entities : state[e] \notin Live
    BY <1>1 DEF IInv, Phases
  <2> QED
    BY <1>1, <1>6, <2>1, <2>2 DEF IInv, Phases
<1>8. \A o : Mine(o)' = Mine(o)
  BY <1>1 DEF Mine
<1>9. Known \subseteq Known' /\ <<"owner", gen + 1>> \notin Known /\ <<"owner", gen + 1>> # <<"node">>
  <2>1. Known' = {<<p>> : p \in Entities \union {"context"}} \union {<<"owner", g>> : g \in 1 .. gen + 1}
    BY <1>1 DEF Known
  <2>2. (\A p : <<p>> # <<"owner", gen + 1>>) /\ \A g \in 1 .. gen : <<"owner", g>> # <<"owner", gen + 1>>
    BY <1>2
  <2> QED
    BY <1>2, <2>1, <2>2 DEF Known
<1>10. Mine(<<"owner", gen + 1>>) = {} /\ <<"owner", gen + 1>> \notin damaged
  BY <1>9 DEF IInv, Ownership, Mine
<1>11. Ownership'
  <2>1. Proper("dead", todo["owner"], "owner", gen, damaged, Mine(<<"owner", gen>>))
    BY <1>1, Holders DEF IInv, Procs, GenOf
  <2>2. <<"owner", gen>> \notin damaged => \A x \in Mine(<<"owner", gen>>) : x[1] \in Memory
    BY <2>1, Holders DEF Proper, HolderAt
  <2>3. \A g \in 1 .. gen : <<"owner", g>> \notin damaged => \A x \in Mine(<<"owner", g>>) : x[1] \in Memory
    BY <1>2, <2>2 DEF IInv, Ownership
  <2>4. gen' - 1 = gen
    BY <1>1, <1>2
  <2>5. (\A x \in held' : HolderOf(x) \in Known') /\ damaged' \subseteq Known' \union {<<"node">>}
    BY <1>1, <1>9 DEF IInv, Ownership
  <2> QED
    BY <1>1, <1>8, <2>3, <2>4, <2>5 DEF Ownership
<1>12. UsesAreLive' /\ GhostApart'
  <2>1. \A e \in Entities : state[e] = "dead" => state'[e] = "dead"
    BY <1>6
  <2> QED
    BY <1>1, <2>1, GhostStays DEF IInv, UsesAreLive
<1>13. Procs'
  <2> SUFFICES ASSUME NEW q \in Workers
               PROVE  Proper(state'[q], todo'[q], q, GenOf(q)', damaged', Mine(Holder(q))')
    BY DEF Procs
  <2>1. Proper(state[q], todo[q], q, GenOf(q), damaged, Mine(Holder(q)))
    BY DEF IInv, Procs
  <2>2. CASE q = "owner"
    <3>1. GenOf(q)' = gen + 1 /\ Mine(Holder(q))' = {} /\ HolderAt(q, gen + 1) = <<"owner", gen + 1>>
      BY <1>1, <1>10, <2>2, Holders DEF GenOf, Mine, Holder, Owner, HolderAt
    <3>2. Proper("init", Skip(InitOf[q][gen + 1]), q, gen + 1, damaged, {})
      BY <1>2, <1>10, <2>2, <3>1, ProperInit
    <3> QED
      BY <1>1, <1>3, <1>4, <2>2, <3>1, <3>2, Holders
  <2>3. CASE q # "owner"
    <3>1. state'[q] = state[q] /\ todo'[q] = todo[q]
      BY <1>4, <2>3, Holders
    <3>2. Holder(q)' = Holder(q) /\ Mine(Holder(q))' = Mine(Holder(q))
      BY <1>1, <2>3 DEF Holder, Mine
    <3>3. CASE q \in Entities
      <4>1. GenOf(q)' = GenOf(q)
        BY <1>1, <3>3 DEF GenOf
      <4> QED
        BY <1>1, <2>1, <3>1, <3>2, <4>1
    <3>4. CASE q = "context"
      <4>1. Proper(state["context"], todo["context"], "context", GenOf("context"), damaged, Mine(Holder("context")))
        BY <2>1, <3>4
      <4>2. \A h : Proper(state["context"], todo["context"], "context", h, damaged, Mine(Holder("context")))
        BY <4>1, ContextStill
      <4> QED
        BY <1>1, <3>1, <3>2, <3>4, <4>2
    <3> QED
      BY <2>3, <3>3, <3>4, Holders
  <2> QED
    BY <2>2, <2>3
<1> QED
  BY <1>5, <1>7, <1>11, <1>12, <1>13 DEF IInv

----------------------------------------------------------------------------
(* The invariant holds, and what follows from it *)

LEMMA InitKeeps == Init => IInv
<1> SUFFICES ASSUME Init PROVE IInv
  OBVIOUS
<1>1. /\ "owner" \in Processes /\ "node" \in Processes /\ "context" \in Processes
      /\ \A e \in Entities : e \in Processes
  BY Holders
<1>2. /\ stage = "start_owner" /\ gen = 1 /\ held = {Context} /\ late = {} /\ damaged = {} /\ ghost = <<>>
      /\ born = [e \in Entities |-> 0]
      /\ todo = [p \in Processes |-> IF p = "owner" THEN Skip(InitOf[p][1]) ELSE <<>>]
  BY DEF Init
<1>3. /\ state = [p \in Processes |-> IF p = "context" THEN "up" ELSE IF p = "owner" THEN "init" ELSE "none"]
  BY DEF Init
<1>4. 1 \in Generations
  BY StackAssumption DEF Generations
<1>5. TypeInv
  BY <1>1, <1>2, <1>3, <1>4, Holders DEF TypeInv, States
<1>6. Phases
  BY <1>1, <1>2, <1>3, Holders DEF Phases, Live
<1>7. HolderOf(Context) = <<"context">>
  BY Tokens
<1>8. Ownership
  <2>1. <<"context">> \in Known
    BY DEF Known
  <2>2. 1 .. gen - 1 = {}
    BY <1>2
  <2> QED
    BY <1>2, <1>7, <2>1, <2>2 DEF Ownership
<1>9. GhostApart /\ UsesAreLive
  BY <1>2 DEF GhostApart, UsesAreLive
<1>10. Procs
  <2> SUFFICES ASSUME NEW q \in Workers
               PROVE  Proper(state[q], todo[q], q, GenOf(q), damaged, Mine(Holder(q)))
    BY DEF Procs
  <2>1. CASE q = "context"
    <3>1. Mine(Holder(q)) = {Context}
      BY <1>2, <1>7, <2>1, Holders DEF Mine
    <3>2. Working(q, gen) = {Context} /\ {Context} \in Serving(q, gen)
      BY <2>1, ContextSets
    <3>3. Leads({}, <<>>, q, gen, Serving(q, gen), {Context}, Working(q, gen))
      BY <3>2, LeadsNothing
    <3>4. GenOf(q) = gen /\ state[q] = "up" /\ todo[q] = <<>>
      BY <1>1, <1>2, <1>3, <2>1, Holders DEF GenOf
    <3> QED
      BY <1>2, <3>1, <3>2, <3>3, <3>4 DEF Proper
  <2>2. CASE q = "owner"
    <3>1. Mine(Holder(q)) = {} /\ GenOf(q) = 1
      BY <1>2, <1>7, <2>2, Holders DEF Mine, GenOf
    <3>2. Proper("init", Skip(InitOf[q][1]), q, 1, {}, {})
      BY <1>4, <2>2, ProperInit
    <3>3. state[q] = "init" /\ todo[q] = Skip(InitOf[q][1])
      BY <1>1, <1>2, <1>3, <2>2
    <3> QED
      BY <1>2, <3>1, <3>2, <3>3
  <2>3. CASE q \in Entities
    <3>1. state[q] = "none" /\ todo[q] = <<>>
      BY <1>1, <1>2, <1>3, <2>3, Holders
    <3>2. Holder(q) # <<"context">>
      BY <2>3, Holders
    <3>3. Mine(Holder(q)) = {}
      BY <1>2, <1>7, <3>2 DEF Mine
    <3> QED
      BY <1>2, <3>1, <3>3 DEF Proper
  <2> QED
    BY <2>1, <2>2, <2>3, Holders
<1> QED
  BY <1>5, <1>6, <1>8, <1>9, <1>10 DEF IInv

\* Every step keeps the invariant.
LEMMA NextKeeps == IInv /\ [Next]_vars => IInv'
<1> SUFFICES ASSUME IInv, [Next]_vars PROVE IInv'
  OBVIOUS
<1>1. CASE UNCHANGED vars
  <2>1. UNCHANGED <<gen, procs, held, damaged, ghost, late, stage>>
    BY <1>1 DEF vars, sup, others
  <2>2. Phases'
    BY <2>1 DEF IInv, Phases, procs
  <2> QED
    BY <2>1, <2>2, StillKeeps
<1>2. ASSUME NEW p \in Processes, RunStep(p) \/ Refused(p) \/ RclFails(p) \/ Terminated(p)
      PROVE  IInv'
  BY <1>2, RunStepKeeps, RefusedKeeps, RclFailsKeeps, TerminatedKeeps
<1>3. ASSUME NEW p \in Entities \union {"node"}, Kill(p) PROVE IInv'
  BY <1>3, KillKeeps
<1>4. ASSUME NEW e \in Entities, StartEntity(e) \/ Initialized(e) \/ Work(e) \/ StopEntity(e) \/ ShutDown(e)
      PROVE  IInv'
  BY <1>4, StartEntityKeeps, ServeKeeps, TerminateKeeps DEF StopEntity, ShutDown
<1>5. CASE TaskStep \/ \E e \in Services : StartTask(e)
  BY <1>5, TaskKeeps
<1>6. CASE GhostStep \/ ThreadEnds \/ WaitFails
  BY <1>6, GhostKeeps, ThreadKeeps
<1>7. CASE OwnerStarted \/ NodeStarted \/ StartFails \/ NodeStopped \/ NodeHears
  BY <1>7, OwnerStartedKeeps, NodeKeeps
<1>8. CASE ChildDied \/ HelperDied \/ StopNode \/ StopApplication \/ EntitiesStopped \/ Down
  BY <1>8, StageKeeps
<1>9. CASE OwnerStops \/ ContextStops \/ Restart
  BY <1>9, RootsKeep, RestartKeeps
<1> QED
  BY <1>1, <1>2, <1>3, <1>4, <1>5, <1>6, <1>7, <1>8, <1>9 DEF Next

\* What a token needs is its process's own, or held for it by others.
LEMMA NeedsMet ==
  ASSUME NEW p \in Workers, NEW x \in Working(p, GenOf(p))
  PROVE  Needs(x) \subseteq Requires(x) \union External(p, GenOf(p))
<1> DEFINE g == GenOf(p)
<1>1. \A h : /\ Node(h)[2] = h /\ Thread(h)[2] = h
  BY DEF Node, Thread
<1>2. CASE p = "owner"
  <2>1. g = gen /\ External(p, g) = {Context}
    BY <1>2, Holders DEF GenOf, External
  <2>2. PICK k : k = g
    OBVIOUS
  <2>3. x \in Working("owner", k)
    BY <1>2, <2>2
  <2>4. x \in {Node(k), TermOf(Node(k)), ThreadContext(Thread(k)), ThreadOpts(Thread(k)), ExitCondition(Thread(k)),
              Thread(k), TermOf(Thread(k))}
    BY <2>3, OwnerSets
  <2>5. x[1] \in {"node", "term", "thread_context", "thread_opts", "exit_condition", "thread"}
    BY <2>4, Tokens
  <2>6. x[1] = "thread" => x = Thread(g)
    <3>1. x[1] = "thread" => x = Thread(k)
      BY <2>4, Tokens
    <3> QED
      BY <2>2, <3>1
  <2>7. CASE x = Thread(g)
    <3>1. Needs(x) = {Context, Node(g), ThreadContext(x), ExitCondition(x)}
      BY <1>1, <2>7, Tokens DEF Needs
    <3>2. Requires(x) = {Node(g), ThreadContext(x), ExitCondition(x)}
      BY <2>7, Requirements
    <3> QED
      BY <2>1, <3>1, <3>2
  <2>8. CASE x # Thread(g)
    <3>1. Needs(x) \subseteq {Context}
      BY <2>5, <2>6, <2>8 DEF Needs
    <3> QED
      BY <2>1, <3>1
  <2> QED
    BY <2>7, <2>8
<1>3. CASE p \in Talkers
  <2>1. p \in Entities /\ p # "owner" /\ p # "context" /\ p \notin Timers
    BY <1>3, Holders, Kinds DEF Entities, Talkers
  <2>2. g = born[p] /\ External(p, g) = {Context, Node(born[p])}
    BY <2>1 DEF GenOf, External
  <2> DEFINE h == Handle(p)
             ch == Channel(p)
  <2>3. x \in {h, TermOf(h), Ref("alloc", h, ch), Ref("keep", h, ch),
              Active(h, ch), Registered(h, ch), Ref("term", h, ch)}
    BY <1>3, TalkerSets
  <2>4. CASE x = h
    <3>1. Needs(x) = {Node(born[p])}
      BY <2>1, <2>4, Tokens DEF Needs, Handle
    <3> QED
      BY <2>2, <3>1
  <2>5. CASE x = Registered(h, ch)
    <3>1. Needs(x) = {h, Ref("keep", h, ch)}
      BY <2>5 DEF Needs, Registered
    <3> QED
      BY <2>5, <3>1, Requirements
  <2>6. CASE x \notin {h, Registered(h, ch)}
    <3>1. x[1] \in {"term", "alloc", "keep", "active"}
      BY <2>3, <2>6, Tokens
    <3>2. Needs(x) = {}
      BY <3>1 DEF Needs
    <3> QED
      BY <3>2
  <2> QED
    BY <2>4, <2>5, <2>6
<1>4. CASE p \in Timers
  <2>1. p # "owner" /\ p # "context"
    BY <1>4, Holders DEF Entities
  <2>2. Context \in External(p, g)
    BY <2>1 DEF External
  <2>3. x \in {Clock(p), TermOf(Clock(p)), Handle(p), TermOf(Handle(p)), WaitSet(p), TermOf(WaitSet(p))}
    BY <1>4, TimerSets
  <2>4. CASE x = Handle(p)
    <3>1. Needs(x) = {Context, Clock(p)}
      BY <1>4, <2>4, Tokens DEF Needs, Handle
    <3>2. Requires(x) = {Clock(p)}
      BY <1>4, <2>4, Requirements
    <3> QED
      BY <2>2, <3>1, <3>2
  <2>5. CASE x # Handle(p)
    <3>1. x[1] \in {"clock", "wait_set", "term"}
      BY <2>3, <2>5, Tokens
    <3>2. Needs(x) \subseteq {Context}
      BY <3>1 DEF Needs
    <3> QED
      BY <2>2, <3>2
  <2> QED
    BY <2>4, <2>5
<1>5. CASE p = "context"
  <2>1. x[1] = "context"
    BY <1>5, ContextSets, Tokens
  <2> QED
    BY <2>1 DEF Needs
<1> QED
  BY <1>2, <1>3, <1>4, <1>5, Holders DEF Entities, Talkers

\* What is held, but for memory and for what the damaged left, belongs to a process
\* that lives.
LEMMA SoundIsLive ==
  ASSUME IInv, NEW x \in Sound, x[1] \notin Memory
  PROVE  \E p \in Workers : /\ state[p] \in Live /\ HolderOf(x) = Holder(p)
                            /\ Mine(Holder(p)) \in Standing(p, GenOf(p))
                            /\ x \in Mine(Holder(p))
<1>1. x \in held /\ HolderOf(x) \in Known /\ HolderOf(x) \notin damaged /\ x \in Mine(HolderOf(x))
  BY DEF IInv, Ownership, Sound, Mine
<1>2. PICK p \in Workers : HolderOf(x) = Holder(p)
  <2>1. CASE \E p \in Entities \union {"context"} : HolderOf(x) = <<p>>
    <3>1. PICK p \in Entities \union {"context"} : HolderOf(x) = <<p>>
      BY <2>1
    <3> QED
      BY <3>1, Holders
  <2>2. CASE \E g \in 1 .. gen : HolderOf(x) = <<"owner", g>>
    <3>1. PICK g \in 1 .. gen : HolderOf(x) = <<"owner", g>>
      BY <2>2
    <3>2. g \notin 1 .. gen - 1
      BY <1>1, <3>1 DEF IInv, Ownership
    <3>3. g = gen
      BY <3>2 DEF IInv, TypeInv, Generations
    <3> QED
      BY <3>1, <3>3, Holders
  <2> QED
    BY <1>1, <2>1, <2>2 DEF Known
<1>3. Proper(state[p], todo[p], p, GenOf(p), damaged, Mine(Holder(p)))
  BY DEF IInv, Procs
<1>4. HolderAt(p, GenOf(p)) \notin damaged /\ x \in Mine(Holder(p))
  BY <1>1, <1>2, Holders
<1>5. state[p] \in Live
  BY <1>3, <1>4 DEF Proper, Live
<1>6. Mine(Holder(p)) \in Standing(p, GenOf(p))
  BY <1>3, <1>4, <1>5 DEF Proper, Live, Serving
<1> QED
  BY <1>2, <1>4, <1>5, <1>6

\* What a sound token needs is held: its process lives, and holds it or is held for.
LEMMA HandlesStandThen == IInv => HandlesStand
<1> SUFFICES ASSUME IInv, NEW x \in Sound PROVE Needs(x) \subseteq held
  BY DEF HandlesStand
<1>1. CASE x[1] \in Memory
  BY <1>1 DEF Needs, Memory
<1>2. CASE x[1] \notin Memory
  <2>1. PICK p \in Workers : /\ state[p] \in Live /\ Mine(Holder(p)) \in Standing(p, GenOf(p))
                             /\ x \in Mine(Holder(p))
    BY <1>2, SoundIsLive
  <2>2. x \in Working(p, GenOf(p)) /\ Requires(x) \subseteq Mine(Holder(p))
    BY <2>1 DEF Standing, Stands
  <2>3. External(p, GenOf(p)) \subseteq held
    BY <2>1, ExternalHeld
  <2> QED
    BY <2>2, <2>3, NeedsMet DEF Mine
<1> QED
  BY <1>1, <1>2

\* What is sound and native is of this generation.
LEMMA GenerationsApartThen == IInv => GenerationsApart
<1> SUFFICES ASSUME IInv PROVE GenerationsApart
  OBVIOUS
<1>1. \A e \in Entities : state[e] \in {"init", "up", "closing"} => born[e] = gen
  BY DEF IInv, Phases, Live
<1>2. ASSUME NEW x \in Sound, x[1] \notin Memory
      PROVE  GenerationOf(x) = gen /\ state["context"] # "dead"
  <2>1. PICK p \in Workers : /\ state[p] \in Live /\ HolderOf(x) = Holder(p)
                             /\ Mine(Holder(p)) \in Standing(p, GenOf(p)) /\ x \in Mine(Holder(p))
    BY <1>2, SoundIsLive
  <2>2. state["context"] # "dead"
    BY <2>1, Holders DEF IInv, Phases, Live
  <2>3. CASE p = "context"
    <3>1. x = Context
      BY <2>1, <2>3, ContextSets
    <3> QED
      BY <2>2, <3>1 DEF GenerationOf, Base, Context
  <2>4. CASE p = "owner"
    <3>1. HolderOf(x) = <<"owner", gen>>
      BY <2>1, <2>4, Holders
    <3>2. \A a : <<a>> # <<"owner", gen>>
      OBVIOUS
    <3>3. Base(x)[1] \in {"node", "thread"} /\ Base(x)[2] = gen
      <4>1. Base(x)[1] \in {"node", "thread"}
        BY <3>1, <3>2 DEF HolderOf
      <4>2. HolderOf(x) = <<"owner", Base(x)[2]>>
        BY <4>1 DEF HolderOf
      <4> QED
        BY <3>1, <4>1, <4>2
    <3> QED
      BY <2>2, <3>3 DEF GenerationOf
  <2>5. CASE p \in Entities
    <3>1. HolderOf(x) = <<p>> /\ p # "context" /\ born[p] = gen
      BY <1>1, <2>1, <2>5, Holders DEF Live
    <3>2. \A a : <<"owner", a>> # <<p>>
      OBVIOUS
    <3>3. Base(x)[1] \notin {"node", "thread"}
      BY <3>1, <3>2 DEF HolderOf
    <3>4. Base(x)[1] # "context"
      <4>1. <<"context">> # <<p>>
        BY <3>1
      <4> QED
        BY <3>1, <3>3, <4>1 DEF HolderOf
    <3>5. HolderOf(x) = <<Base(x)[2]>>
      BY <3>3, <3>4 DEF HolderOf
    <3>6. Base(x)[2] = p
      BY <3>1, <3>5
    <3> QED
      BY <2>2, <3>1, <3>3, <3>4, <3>6 DEF GenerationOf
  <2> QED
    BY <2>3, <2>4, <2>5, Holders
<1> QED
  BY <1>1, <1>2 DEF GenerationsApart

\* The invariant holds always.
LEMMA Invariance == Spec => []IInv
BY InitKeeps, NextKeeps, PTL DEF Spec

\* Everything native stands on what it needs, in every state: the node goes after its
\* entities and its joined wait thread, a clock after its timer, the context last, and what
\* the middleware calls back with is kept (the terminate callbacks and the supervisors' order).
THEOREM HandlesAlwaysStand == Spec => []HandlesStand
BY Invariance, HandlesStandThen, PTL

\* No process is refused a handle or touches a finalised one, whatever the interleaving
\* of stops, kills, failures and restarts.
THEOREM UsesAreAlwaysLive == Spec => []UsesAreLive
<1>1. IInv => UsesAreLive
  BY DEF IInv
<1> QED
  BY Invariance, <1>1, PTL

\* A replacement never meets what is left of the old node, and a stopped application has
\* no native handle.
THEOREM GenerationsStayApart == Spec => []GenerationsApart
BY Invariance, GenerationsApartThen, PTL

----------------------------------------------------------------------------
(* One call on its own, along all its paths: NifPaths.  A call is written with   *)
(* discipline (Careful) if its text, read step by step, covers every use and     *)
(* every failure; here that is shown to be enough, whatever fails, whichever     *)
(* handles are gone and whatever the profiles are.                               *)

(* The calls are lists of steps, and TLC found each one careful (CallIsCareful)  *)
Disciplined == \A c \in Calls : Len(c.steps) \in Nat /\ Careful(c)

-----------------------------------------------------------------------------
(* What may and what must exist, from a step to the next. *)

\* What lasts to the next step lasted to this one and is not ended by it.
LEMMA LastsOneMore ==
  ASSUME NEW c, NEW x, NEW j \in Nat, NEW i \in Nat, j <= i
  PROVE  Lasts(c, x, j, i + 1) <=> Lasts(c, x, j, i) /\ x \notin c.steps[i].ends
<1>1. \A k : k \in j .. (i + 1 - 1) <=> k \in j .. (i - 1) \/ k = i
  OBVIOUS
<1> QED
  BY <1>1 DEF Lasts

\* Before the first step: what the call is given, surely so where it does not ask.
LEMMA AtFirst ==
  ASSUME NEW c
  PROVE  /\ May(c, 1) = GivenTo(c)
         /\ Must(c, 1) = GivenTo(c) \ (CheckedBy(c) \intersect c.given)
BY DEF May, Must, MadeBefore, Lasts

\* Made and not ended: MadeBefore, MayNext and MustNext follow Succeed.
LEMMA MadeNext ==
  ASSUME NEW c, Len(c.steps) \in Nat, NEW i \in 1 .. Len(c.steps)
  PROVE  MadeBefore(c, i + 1) = (MadeBefore(c, i) \union c.steps[i].makes) \ c.steps[i].ends
<1>1. ASSUME NEW x \in MadeBefore(c, i + 1)
      PROVE  x \in (MadeBefore(c, i) \union c.steps[i].makes) \ c.steps[i].ends
  <2>1. PICK j \in 1 .. (i + 1 - 1) : x \in c.steps[j].makes /\ Lasts(c, x, j, i + 1)
    BY DEF MadeBefore
  <2>2. Lasts(c, x, j, i) /\ x \notin c.steps[i].ends
    BY <2>1, LastsOneMore
  <2>3. CASE j = i
    BY <2>1, <2>2, <2>3
  <2>4. CASE j # i
    <3>1. j \in 1 .. (i - 1)
      BY <2>1, <2>4
    <3> QED
      BY <2>1, <2>2, <3>1 DEF MadeBefore
  <2> QED
    BY <2>3, <2>4
<1>2. ASSUME NEW x \in MadeBefore(c, i), x \notin c.steps[i].ends PROVE x \in MadeBefore(c, i + 1)
  <2>1. PICK j \in 1 .. (i - 1) : x \in c.steps[j].makes /\ Lasts(c, x, j, i)
    BY DEF MadeBefore
  <2>2. j \in 1 .. (i + 1 - 1) /\ Lasts(c, x, j, i + 1)
    BY <1>2, <2>1, LastsOneMore
  <2> QED
    BY <2>1, <2>2 DEF MadeBefore
<1>3. ASSUME NEW x \in c.steps[i].makes, x \notin c.steps[i].ends PROVE x \in MadeBefore(c, i + 1)
  <2>1. Lasts(c, x, i, i)
    BY DEF Lasts
  <2>2. i \in 1 .. (i + 1 - 1) /\ Lasts(c, x, i, i + 1)
    BY <1>3, <2>1, LastsOneMore
  <2>3. x \in MadeBy(c)
    BY DEF MadeBy
  <2> QED
    BY <2>2, <2>3 DEF MadeBefore
<1> QED
  BY <1>1, <1>2, <1>3

LEMMA MayNext ==
  ASSUME NEW c, Len(c.steps) \in Nat, NEW i \in 1 .. Len(c.steps)
  PROVE  May(c, i + 1) = (May(c, i) \union c.steps[i].makes) \ c.steps[i].ends
<1>1. \A x : Lasts(c, x, 1, i + 1) <=> Lasts(c, x, 1, i) /\ x \notin c.steps[i].ends
  BY LastsOneMore
<1> QED
  BY <1>1, MadeNext DEF May

LEMMA MustNext ==
  ASSUME NEW c, Len(c.steps) \in Nat, NEW i \in 1 .. Len(c.steps)
  PROVE  Must(c, i + 1) \subseteq
           (Must(c, i) \union c.steps[i].checks \union c.steps[i].makes) \ c.steps[i].ends
<1>1. \A x : Lasts(c, x, 1, i + 1) <=> Lasts(c, x, 1, i) /\ x \notin c.steps[i].ends
  BY LastsOneMore
<1>2. ASSUME NEW x, NEW j \in 1 .. (i + 1 - 1), x \in CheckedBy(c), x \in c.steps[j].checks,
             Lasts(c, x, j, i + 1)
      PROVE  x \in (Must(c, i) \union c.steps[i].checks) \ c.steps[i].ends
  <2>1. Lasts(c, x, j, i) /\ x \notin c.steps[i].ends
    BY <1>2, LastsOneMore
  <2>2. CASE j = i
    BY <1>2, <2>1, <2>2
  <2>3. CASE j # i
    <3>1. j \in 1 .. (i - 1)
      BY <2>3
    <3> QED
      BY <1>2, <2>1, <3>1 DEF Must
  <2> QED
    BY <2>2, <2>3
<1>3. ASSUME NEW x \in Must(c, i + 1)
      PROVE  x \in (Must(c, i) \union c.steps[i].checks \union c.steps[i].makes) \ c.steps[i].ends
  <2>1. CASE x \in GivenTo(c) \ (CheckedBy(c) \intersect c.given) /\ Lasts(c, x, 1, i + 1)
    BY <1>1, <2>1 DEF Must
  <2>2. CASE x \in MadeBefore(c, i + 1)
    BY <2>2, MadeNext DEF Must
  <2>3. CASE x \in CheckedBy(c) /\ \E j \in 1 .. (i + 1 - 1) : x \in c.steps[j].checks /\ Lasts(c, x, j, i + 1)
    BY <1>2, <2>3
  <2> QED
    BY <2>1, <2>2, <2>3 DEF Must
<1> QED
  BY <1>3

-----------------------------------------------------------------------------
(* The inductive invariant. *)

\* A call that has not returned has not failed, or goes on to clean up.
Typed ==
  /\ call \in Calls /\ pc \in 1 .. Len(steps) + 1 /\ returned \in BOOLEAN /\ ~ tooLate
  /\ ~ returned => outcome \in {"ok"} \union GoesOn

\* No step has failed: what exists is what the text says.
OnTheWay == ~ returned /\ outcome = "ok" => Must(call, pc) \subseteq tokens /\ tokens \subseteq May(call, pc)

\* Step i has failed, and the clean-ups up to pc have run.
LeftSince(c, i, k) ==
  LeftBy(c, i) \ UNION {c.steps[n].ends : n \in {m \in (i + 1) .. (k - 1) : c.steps[m].cleanup}}
CleaningUp ==
  ~ returned /\ outcome \in GoesOn =>
    \E i \in 1 .. pc - 1 : outcome \in steps[i].fails /\ tokens \subseteq LeftSince(call, i, pc)

PathInv == Typed /\ OnTheWay /\ CleaningUp /\ RegisteredIsKept /\ LeavesNothing

\* A call starts with what it is given.
LEMMA PathInit ==
  ASSUME Disciplined, CallInit
  PROVE  PathInv
<1>1. /\ call \in Calls /\ Len(steps) \in Nat /\ Careful(call)
      /\ pc = 1 /\ outcome = "ok" /\ returned = FALSE /\ tooLate = FALSE
  BY DEF CallInit, Disciplined, steps
<1>2. PICK gone \in SUBSET (CheckedBy(call) \intersect call.given) : tokens = GivenTo(call) \ gone
  BY DEF CallInit
<1>3. Must(call, 1) \subseteq tokens /\ tokens \subseteq May(call, 1)
  BY <1>2, AtFirst
<1>4. Typed
  <2>1. pc \in 1 .. Len(steps) + 1
    BY <1>1
  <2> QED
    BY <1>1, <2>1 DEF Typed
<1>5. OnTheWay
  BY <1>1, <1>3 DEF OnTheWay
<1>6. CleaningUp
  BY <1>1 DEF CleaningUp, GoesOn
<1>7. RegisteredIsKept
  BY <1>1, <1>3 DEF RegisteredIsKept, Careful, KeepsUserData, steps
<1>8. LeavesNothing
  BY <1>1 DEF LeavesNothing
<1> QED
  BY <1>4, <1>5, <1>6, <1>7, <1>8 DEF PathInv

-----------------------------------------------------------------------------
(* What a step finds. *)

\* The three kinds of outcomes do not overlap.
LEMMA OutcomesDiffer ==
  /\ Exceptions \intersect GoesOn = {} /\ "ok" \notin GoesOn /\ "ok" \notin Exceptions
  /\ "qos" \notin Exceptions /\ "badarg_late" \in GoesOn /\ "raise_late" \in GoesOn
BY DEF Exceptions, GoesOn

\* What every step can rely on.
LEMMA Setting ==
  ASSUME Disciplined, PathInv
  PROVE  /\ call \in Calls /\ Len(call.steps) \in Nat /\ Careful(call) /\ pc \in Nat
         /\ pc \in 1 .. Len(call.steps) + 1 /\ ~ tooLate
BY DEF Disciplined, PathInv, Typed, steps

\* A step that runs is the next one, or a clean-up after a failure.
LEMMA RunsOnTheWay ==
  ASSUME Disciplined, PathInv, Running, outcome = "ok"
  PROVE  /\ pc \in 1 .. Len(call.steps) /\ IsCovered(call, pc) /\ Current = call.steps[pc]
         /\ Must(call, pc) \subseteq tokens /\ tokens \subseteq May(call, pc)
<1>1. pc \in 1 .. Len(call.steps)
  BY Setting DEF Running, steps
<1> QED
  BY <1>1, Setting DEF Running, PathInv, OnTheWay, Careful, Current, steps

LEMMA RunsCleanUp ==
  ASSUME Disciplined, PathInv, Running, outcome # "ok"
  PROVE  /\ pc \in 1 .. Len(call.steps) /\ Current = call.steps[pc] /\ Current.cleanup
         /\ CleansUp(Current)
         /\ outcome \in GoesOn
<1>1. pc \in 1 .. Len(call.steps)
  BY Setting DEF Running, steps
<1>2. outcome \in GoesOn /\ Current.cleanup
  BY DEF Running, Skipped, PathInv, Typed
<1> QED
  BY <1>1, <1>2, Setting DEF Careful, IsCovered, Current, steps

\* A clean-up ends its tokens, a step that is passed over none.
LEMMA LeftSinceNext ==
  ASSUME NEW c, NEW i \in Nat, NEW k \in Nat, i < k
  PROVE  /\ c.steps[k].cleanup   => LeftSince(c, i, k + 1) = LeftSince(c, i, k) \ c.steps[k].ends
         /\ ~ c.steps[k].cleanup => LeftSince(c, i, k + 1) = LeftSince(c, i, k)
<1>1. \A m : m \in (i + 1) .. (k + 1 - 1) <=> m \in (i + 1) .. (k - 1) \/ m = k
  OBVIOUS
<1>2. CASE c.steps[k].cleanup
  <2>1. {m \in (i + 1) .. (k + 1 - 1) : c.steps[m].cleanup} =
        {m \in (i + 1) .. (k - 1) : c.steps[m].cleanup} \union {k}
    BY <1>1, <1>2
  <2> QED
    BY <1>2, <2>1 DEF LeftSince
<1>3. CASE ~ c.steps[k].cleanup
  <2>1. {m \in (i + 1) .. (k + 1 - 1) : c.steps[m].cleanup} = {m \in (i + 1) .. (k - 1) : c.steps[m].cleanup}
    BY <1>1, <1>3
  <2> QED
    BY <1>3, <2>1 DEF LeftSince
<1> QED
  BY <1>2, <1>3

\* What is left is lost or not, whatever else the return does.
LEMMA NothingLost ==
  ASSUME call' = call, NEW may, NEW must, LosesNothing(call, may, must),
         tokens' \subseteq may, must \subseteq tokens'
  PROVE  Blocks' = {} /\ Orphans' = {}
<1>1. Blocks' = {}
  BY DEF Blocks, LosesNothing
<1>2. Orphans' = {}
  BY DEF Orphans, Given, LosesNothing
<1> QED
  BY <1>1, <1>2

LEMMA LeftAsFound ==
  ASSUME call' = call, pc' = pc, pc \in 1 .. Len(call.steps), Len(call.steps) \in Nat,
         NEW may, LeavesAsFound(call, pc, may), tokens' \subseteq may
  PROVE  (tokens \subseteq Given \/ FailedRelease \/ Leaky(call))'
BY DEF LeavesAsFound, Given, FailedRelease, Current, steps

\* Releasing something other than user data keeps what the callbacks need.
LEMMA KeptAfter ==
  ASSUME RegisteredIsKept, call' = call, KeepsUserData(call), NEW gone, tokens' = tokens \ gone,
         NEW i \in 1 .. Len(call.steps),
         gone = call.steps[i].undo \/ (call.steps[i].cleanup /\ gone = call.steps[i].ends)
  PROVE  RegisteredIsKept'
<1> SUFFICES ASSUME NEW j \in 1 .. Len(call.steps), NEW x \in call.steps[j].makes \union call.steps[j].ends,
                    x \in tokens', x[1] = "registered"
             PROVE  Ref("keep", x[2], x[3]) \in tokens'
  BY DEF RegisteredIsKept, steps
<1>1. Ref("keep", x[2], x[3]) \in tokens
  BY DEF RegisteredIsKept, steps
<1>2. Ref("keep", x[2], x[3]) \notin gone
  BY DEF KeepsUserData
<1> QED
  BY <1>1, <1>2

-----------------------------------------------------------------------------
(* The steps. *)

\* A call that cleans up passes over the other steps.
LEMMA SkipStep == ASSUME Disciplined, PathInv, PassOver PROVE PathInv'
<1>1. /\ ~ returned /\ ~ returned' /\ pc \in Nat /\ pc \in 1 .. Len(steps) /\ outcome \in GoesOn
      /\ outcome' = outcome
      /\ ~ call.steps[pc].cleanup /\ pc' = pc + 1 /\ tokens' = tokens /\ call' = call /\ tooLate' = tooLate
  BY Setting DEF PassOver, Skipped, Current, steps
<1>2. Typed'
  <2>1. pc' \in 1 .. Len(call'.steps) + 1
    BY <1>1, Setting DEF steps
  <2>2. ~ tooLate' /\ returned' \in BOOLEAN
    BY <1>1, Setting DEF PassOver, PathInv, Typed
  <2>3. call' \in Calls /\ outcome' \in {"ok"} \union GoesOn
    BY <1>1, Setting
  <2> QED
    BY <2>1, <2>2, <2>3 DEF Typed, steps
<1>3. OnTheWay'
  BY <1>1, OutcomesDiffer DEF OnTheWay
<1>4. CleaningUp'
  <2>1. PICK i \in 1 .. pc - 1 : outcome \in steps[i].fails /\ tokens \subseteq LeftSince(call, i, pc)
    BY <1>1 DEF PathInv, CleaningUp
  <2>2. LeftSince(call, i, pc + 1) = LeftSince(call, i, pc)
    <3>1. i \in Nat /\ i < pc
      BY <1>1, <2>1
    <3>2. PICK c : c = call
      OBVIOUS
    <3> QED
      BY <1>1, <3>1, <3>2, LeftSinceNext
  <2>3. i \in 1 .. pc' - 1
    BY <1>1, <2>1
  <2> QED
    BY <1>1, <2>1, <2>2, <2>3 DEF CleaningUp, steps
<1>5. RegisteredIsKept'
  BY <1>1 DEF PathInv, RegisteredIsKept, steps
<1>6. LeavesNothing'
  BY <1>1 DEF LeavesNothing
<1> QED
  BY <1>2, <1>3, <1>4, <1>5, <1>6 DEF PathInv

\* A call that has returned.
LEMMA ReturnStep ==
  ASSUME Disciplined, PathInv, returned', call' = call, pc' = pc, ~ tooLate',
         RegisteredIsKept', LeavesNothing', returned' \in BOOLEAN
  PROVE  PathInv'
BY DEF PathInv, Typed, OnTheWay, CleaningUp, steps

\* A handle is gone: nothing was used, and the answer of tf2 loses nothing.
LEMMA CheckFailsStep == ASSUME Disciplined, PathInv, CheckFails PROVE PathInv'
<1>1. /\ returned' = TRUE /\ call' = call /\ pc' = pc /\ tokens' = tokens /\ tooLate' = tooLate
      /\ outcome' = Refusal
      /\ ~ (Current.checks \subseteq tokens) /\ Running
  BY DEF CheckFails, Return
<1>2. outcome = "ok"
  <2>1. ASSUME outcome # "ok" PROVE FALSE
    BY <1>1, <2>1, RunsCleanUp DEF CleansUp
  <2> QED
    BY <2>1
<1>3. /\ pc \in 1 .. Len(call.steps) /\ IsCovered(call, pc) /\ Current = call.steps[pc]
      /\ Must(call, pc) \subseteq tokens /\ tokens \subseteq May(call, pc)
  BY <1>1, <1>2, RunsOnTheWay
<1>4. RegisteredIsKept'
  BY <1>1 DEF PathInv, RegisteredIsKept, steps
<1>5. LeavesNothing'
  <2>1. CASE "error" \in Current.fails
    <3>1. LosesNothing(call, May(call, pc), Must(call, pc))
      BY <1>1, <1>3, <2>1 DEF IsCovered
    <3>2. PICK may, must : may = May(call, pc) /\ must = Must(call, pc)
      OBVIOUS
    <3>3. Blocks' = {} /\ Orphans' = {}
      BY <1>1, <1>3, <3>1, <3>2, NothingLost
    <3>4. outcome' = "error" /\ ~ Raised'
      BY <1>1, <2>1 DEF Refusal, Raised, Exceptions
    <3> QED
      BY <3>3, <3>4 DEF LeavesNothing
  <2>2. CASE "error" \notin Current.fails
    <3>1. LeavesAsFound(call, pc, May(call, pc))
      BY <1>1, <1>3, <2>2 DEF IsCovered
    <3>2. PICK may : may = May(call, pc)
      OBVIOUS
    <3>3. (tokens \subseteq Given \/ FailedRelease \/ Leaky(call))'
      BY <1>1, <1>3, <3>1, <3>2, LeftAsFound, Setting
    <3>4. Raised'
      BY <1>1, <2>2 DEF Refusal, Raised, Exceptions
    <3> QED
      BY <3>3, <3>4 DEF LeavesNothing
  <2> QED
    BY <2>1, <2>2
<1> QED
  BY <1>1, <1>4, <1>5, ReturnStep, Setting

\* A step or a clean-up succeeds: what may and must exist advances with it.
LEMMA SucceedStep == ASSUME Disciplined, PathInv, Succeed PROVE PathInv'
<1>1. /\ Running /\ Current.checks \subseteq tokens
      /\ tokens' = (tokens \union Current.makes) \ Current.ends /\ pc' = pc + 1
      /\ call' = call /\ outcome' = outcome /\ returned' = returned /\ ~ returned /\ ~ returned'
      /\ tooLate' = (tooLate \/ ~ (Current.uses \subseteq tokens))
  BY DEF Succeed, Touches, Running
<1>2. pc \in 1 .. Len(call.steps) /\ pc \in Nat /\ pc' \in 1 .. Len(call.steps) + 1
  BY <1>1, Setting DEF Running, steps
<1>3. CASE outcome = "ok"
  <2>1. /\ IsCovered(call, pc) /\ Current = call.steps[pc]
        /\ Must(call, pc) \subseteq tokens /\ tokens \subseteq May(call, pc)
    BY <1>1, <1>3, RunsOnTheWay
  <2>2. ~ tooLate'
    BY <1>1, <2>1, Setting DEF IsCovered
  <2>3. Must(call, pc + 1) \subseteq tokens' /\ tokens' \subseteq May(call, pc + 1)
    BY <1>1, <1>2, <2>1, MayNext, MustNext, Setting
  <2>4. Typed'
    BY <1>1, <1>2, <1>3, <2>2 DEF Typed, PathInv, steps
  <2>5. OnTheWay'
    BY <1>1, <2>3 DEF OnTheWay
  <2>6. CleaningUp'
    BY <1>1, <1>3, OutcomesDiffer DEF CleaningUp
  <2>7. RegisteredIsKept'
    <3> SUFFICES ASSUME NEW j \in 1 .. Len(call.steps), NEW x \in call.steps[j].makes \union call.steps[j].ends,
                        x \in tokens', x[1] = "registered"
                 PROVE  Ref("keep", x[2], x[3]) \in tokens'
      BY <1>1 DEF RegisteredIsKept, steps
    <3>1. pc + 1 \in 1 .. (Len(call.steps) + 1) /\ x \in May(call, pc + 1)
      BY <1>1, <1>2, <2>3
    <3>2. Ref("keep", x[2], x[3]) \in Must(call, pc + 1)
      BY <3>1, Setting DEF Careful, KeepsUserData
    <3> QED
      BY <2>3, <3>2
  <2>8. LeavesNothing'
    BY <1>1 DEF LeavesNothing
  <2> QED
    BY <2>4, <2>5, <2>6, <2>7, <2>8 DEF PathInv
<1>4. CASE outcome # "ok"
  <2>1. /\ Current = call.steps[pc] /\ Current.cleanup /\ CleansUp(Current)
        /\ outcome \in GoesOn
    BY <1>1, <1>4, RunsCleanUp
  <2>2. tokens' = tokens \ Current.ends /\ ~ tooLate'
    BY <1>1, <2>1, Setting DEF CleansUp
  <2>3. Typed'
    BY <1>1, <1>2, <2>1, <2>2 DEF Typed, PathInv, steps
  <2>4. OnTheWay'
    BY <1>1, <1>4 DEF OnTheWay
  <2>5. CleaningUp'
    <3>1. PICK i \in 1 .. pc - 1 : outcome \in steps[i].fails /\ tokens \subseteq LeftSince(call, i, pc)
      BY <1>1, <2>1 DEF PathInv, CleaningUp
    <3>2. LeftSince(call, i, pc + 1) = LeftSince(call, i, pc) \ call.steps[pc].ends
      <4>1. i \in Nat /\ i < pc
        BY <1>2, <3>1
      <4>2. PICK c : c = call
        OBVIOUS
      <4> QED
        BY <1>2, <2>1, <4>1, <4>2, LeftSinceNext
    <3>3. i \in 1 .. pc' - 1 /\ tokens' \subseteq LeftSince(call, i, pc + 1)
      BY <1>1, <1>2, <2>1, <2>2, <3>1, <3>2
    <3> QED
      BY <1>1, <3>1, <3>3 DEF CleaningUp, steps
  <2>6. RegisteredIsKept'
    <3>1. PICK gone : gone = Current.ends
      OBVIOUS
    <3> QED
      BY <1>1, <1>2, <2>1, <2>2, <3>1, KeptAfter, Setting DEF PathInv, Careful
  <2>7. LeavesNothing'
    BY <1>1 DEF LeavesNothing
  <2> QED
    BY <2>3, <2>4, <2>5, <2>6, <2>7 DEF PathInv
<1> QED
  BY <1>3, <1>4

\* A refused profile is an exception, before anything was made.
LEMMA QosRefusedStep == ASSUME Disciplined, PathInv, QosRefused PROVE PathInv'
<1>1. /\ returned' = TRUE /\ call' = call /\ pc' = pc /\ tokens' = tokens /\ tooLate' = tooLate
      /\ outcome' = check_qos_profile(profile) /\ Running /\ "qos" \in Current.fails
      /\ check_qos_profile(profile) # "ok"
  BY DEF QosRefused, Return
<1>2. outcome = "ok"
  <2>1. ASSUME outcome # "ok" PROVE FALSE
    BY <1>1, <2>1, RunsCleanUp, OutcomesDiffer DEF CleansUp
  <2> QED
    BY <2>1
<1>3. /\ pc \in 1 .. Len(call.steps) /\ IsCovered(call, pc) /\ Current = call.steps[pc]
      /\ Must(call, pc) \subseteq tokens /\ tokens \subseteq May(call, pc)
  BY <1>1, <1>2, RunsOnTheWay
<1>4. RegisteredIsKept'
  BY <1>1 DEF PathInv, RegisteredIsKept, steps
<1>5. LeavesNothing'
  <2>1. check_qos_profile(profile) \in {"ok", "badarg", "raise"}
    BY DEF check_qos_profile
  <2>2. Raised'
    BY <1>1, <2>1 DEF Raised, Exceptions
  <2>3. LeavesAsFound(call, pc, May(call, pc))
    BY <1>1, <1>3 DEF IsCovered
  <2>4. PICK may : may = May(call, pc)
    OBVIOUS
  <2>5. (tokens \subseteq Given \/ FailedRelease \/ Leaky(call))'
    BY <1>1, <1>3, <2>3, <2>4, LeftAsFound, Setting
  <2> QED
    BY <2>2, <2>5 DEF LeavesNothing
<1> QED
  BY <1>1, <1>4, <1>5, ReturnStep, Setting

\* A failure that returns at once: what its undo leaves is what the caller had, or is lost by nobody.
LEMMA FailStep == ASSUME Disciplined, PathInv, Fail PROVE PathInv'
<1>1. /\ returned' = TRUE /\ call' = call /\ pc' = pc /\ tokens' = tokens \ Current.undo /\ Running
      /\ Current.checks \subseteq tokens /\ outcome' \in Current.fails
      /\ outcome' \notin GoesOn /\ outcome' # "qos"
      /\ tooLate' = (tooLate \/ ~ ((Current.uses \union Current.undo) \subseteq tokens))
  BY DEF Fail, Return
<1>2. CASE outcome = "ok"
  <2>1. /\ pc \in 1 .. Len(call.steps) /\ IsCovered(call, pc) /\ Current = call.steps[pc]
        /\ Must(call, pc) \subseteq tokens /\ tokens \subseteq May(call, pc)
    BY <1>1, <1>2, RunsOnTheWay
  <2>2. ~ tooLate'
    BY <1>1, <2>1, Setting DEF IsCovered
  <2>3. RegisteredIsKept'
    <3>1. PICK gone : gone = Current.undo
      OBVIOUS
    <3> QED
      BY <1>1, <2>1, <3>1, KeptAfter, Setting DEF PathInv, Careful
  <2>4. tokens' \subseteq LeftBy(call, pc)
    BY <1>1, <2>1 DEF LeftBy
  <2>5. CASE outcome' \in Exceptions
    <3>1. LeavesAsFound(call, pc, LeftBy(call, pc))
      BY <1>1, <2>1, <2>5 DEF IsCovered
    <3>2. PICK may : may = LeftBy(call, pc)
      OBVIOUS
    <3>3. (tokens \subseteq Given \/ FailedRelease \/ Leaky(call))'
      BY <1>1, <2>1, <2>4, <3>1, <3>2, LeftAsFound, Setting
    <3>4. Raised'
      BY <2>5 DEF Raised
    <3>5. LeavesNothing'
      BY <3>3, <3>4 DEF LeavesNothing
    <3> QED
      BY <1>1, <2>2, <2>3, <3>5, ReturnStep, Setting
  <2>6. CASE outcome' \notin Exceptions
    <3>1. LosesNothing(call, LeftBy(call, pc),
                             (Must(call, pc) \union Current.checks) \ Current.undo)
      BY <1>1, <2>1, <2>6 DEF IsCovered
    <3>2. PICK may, must : /\ may = LeftBy(call, pc)
                           /\ must = (Must(call, pc) \union Current.checks) \ Current.undo
      OBVIOUS
    <3>3. must \subseteq tokens'
      BY <1>1, <2>1, <3>2
    <3>4. Blocks' = {} /\ Orphans' = {}
      BY <1>1, <2>4, <3>1, <3>2, <3>3, NothingLost
    <3>5. ~ Raised'
      BY <1>1, <2>6, OutcomesDiffer DEF Raised
    <3>6. LeavesNothing'
      BY <3>4, <3>5 DEF LeavesNothing
    <3> QED
      BY <1>1, <2>2, <2>3, <3>6, ReturnStep, Setting
  <2> QED
    BY <2>5, <2>6
<1>3. CASE outcome # "ok"
  <2>1. /\ pc \in 1 .. Len(call.steps) /\ Current = call.steps[pc] /\ Current.cleanup
        /\ CleansUp(Current)
    BY <1>1, <1>3, RunsCleanUp
  <2>2. ~ tooLate' /\ tokens' = tokens
    BY <1>1, <2>1, Setting DEF CleansUp
  <2>3. RegisteredIsKept'
    BY <1>1, <2>2 DEF PathInv, RegisteredIsKept, steps
  <2>4. Raised' /\ FailedRelease'
    BY <1>1, <2>1, Setting DEF CleansUp, Raised, FailedRelease, Current, steps
  <2>5. LeavesNothing'
    BY <2>4 DEF LeavesNothing
  <2> QED
    BY <1>1, <2>2, <2>3, <2>5, ReturnStep, Setting
<1> QED
  BY <1>2, <1>3

\* A failure that goes on: what is left is for the clean-ups.
LEMMA FailAndCleanUpStep == ASSUME Disciplined, PathInv, FailAndCleanUp PROVE PathInv'
<1>1. /\ ~ returned /\ returned' = returned /\ call' = call /\ pc' = pc + 1
      /\ tokens' = tokens \ Current.undo /\ Running
      /\ Current.checks \subseteq tokens /\ outcome' \in Current.fails /\ outcome' \in GoesOn
      /\ tooLate' = (tooLate \/ ~ ((Current.uses \union Current.undo) \subseteq tokens))
  BY DEF FailAndCleanUp, Running
<1>2. outcome = "ok"
  <2>1. ASSUME outcome # "ok" PROVE FALSE
    BY <1>1, <2>1, RunsCleanUp, OutcomesDiffer DEF CleansUp
  <2> QED
    BY <2>1
<1>3. /\ pc \in 1 .. Len(call.steps) /\ IsCovered(call, pc) /\ Current = call.steps[pc]
      /\ Must(call, pc) \subseteq tokens /\ tokens \subseteq May(call, pc)
  BY <1>1, <1>2, RunsOnTheWay
<1>4. ~ tooLate'
  BY <1>1, <1>3, Setting DEF IsCovered
<1>5. Typed'
  BY <1>1, <1>3, <1>4, Setting DEF Typed, PathInv, steps
<1>6. OnTheWay'
  BY <1>1, OutcomesDiffer DEF OnTheWay
<1>7. CleaningUp'
  <2>1. \A m : m \notin (pc + 1) .. (pc + 1 - 1)
    BY Setting
  <2>2. tokens' \subseteq LeftSince(call, pc, pc + 1)
    BY <1>1, <1>3, <2>1 DEF LeftBy, LeftSince
  <2>3. pc \in 1 .. pc' - 1
    BY <1>1, <1>3, Setting
  <2> QED
    BY <1>1, <1>3, <2>2, <2>3 DEF CleaningUp, steps
<1>8. RegisteredIsKept'
  <2>1. PICK gone : gone = Current.undo
    OBVIOUS
  <2> QED
    BY <1>1, <1>3, <2>1, KeptAfter, Setting DEF PathInv, Careful
<1>9. LeavesNothing'
  BY <1>1 DEF LeavesNothing
<1> QED
  BY <1>5, <1>6, <1>7, <1>8, <1>9 DEF PathInv

\* The end of the text: all is as it says, or the clean-ups have run.
LEMMA FinishStep == ASSUME Disciplined, PathInv, Finish PROVE PathInv'
<1>1. /\ ~ returned /\ returned' = TRUE /\ call' = call /\ pc' = pc /\ tokens' = tokens /\ tooLate' = tooLate
      /\ pc = Len(call.steps) + 1
      /\ outcome' = outcome \/ (outcome' = "raise" /\ call.name \in Reports)
  BY Setting DEF Finish, Return, steps
<1>2. RegisteredIsKept'
  BY <1>1 DEF PathInv, RegisteredIsKept, steps
<1>3. CASE outcome = "ok"
  <2>1. Must(call, pc) \subseteq tokens /\ tokens \subseteq May(call, pc)
    BY <1>1, <1>3 DEF PathInv, OnTheWay
  <2>2. CASE outcome' = "raise"
    <3>1. call.name \in Reports
      BY <1>1, <1>3, <2>2
    <3>2. MadeBy(call) = {}
      BY <3>1, Setting DEF Careful
    <3>3. tokens' \subseteq Given'
      BY <1>1, <2>1, <3>2 DEF May, MadeBefore, Given
    <3>4. Raised'
      BY <2>2 DEF Raised, Exceptions
    <3> QED
      BY <1>1, <1>2, <3>3, <3>4, ReturnStep, Setting DEF LeavesNothing
  <2>3. CASE outcome' # "raise"
    <3>1. ~ Raised'
      BY <1>1, <1>3, <2>3 DEF Raised, Exceptions
    <3>2. LosesNothing(call, May(call, pc), Must(call, pc))
      BY <1>1, Setting DEF Careful
    <3>3. PICK may, must : may = May(call, pc) /\ must = Must(call, pc)
      OBVIOUS
    <3>4. Blocks' = {} /\ Orphans' = {}
      BY <1>1, <2>1, <3>2, <3>3, NothingLost
    <3> QED
      BY <1>1, <1>2, <3>1, <3>4, ReturnStep, Setting DEF LeavesNothing
  <2> QED
    BY <2>2, <2>3
<1>4. CASE outcome # "ok"
  <2>1. outcome \in GoesOn
    BY <1>1, <1>4 DEF PathInv, Typed
  <2>2. PICK i \in 1 .. pc - 1 : outcome \in steps[i].fails /\ tokens \subseteq LeftSince(call, i, pc)
    BY <1>1, <2>1 DEF PathInv, CleaningUp
  <2>3. i \in 1 .. Len(call.steps) /\ outcome \in call.steps[i].fails \intersect GoesOn
    BY <1>1, <2>1, <2>2, Setting DEF steps
  <2>4. tokens' \subseteq Neglected(call, i)
    <3>1. pc - 1 = Len(call.steps)
      BY <1>1, Setting
    <3>2. tokens \subseteq Neglected(call, i)
      BY <2>2, <3>1 DEF LeftSince, Neglected
    <3> QED
      BY <1>1, <3>2
  <2>5. /\ LosesNothing(call, Neglected(call, i), {})
        /\ (Neglected(call, i) \subseteq GivenTo(call) \/ Leaky(call))
    BY <2>3, Setting DEF Careful, IsCovered
  <2>6. PICK may, must : may = Neglected(call, i) /\ must = {}
    OBVIOUS
  <2>7. Blocks' = {} /\ Orphans' = {}
    BY <1>1, <2>4, <2>5, <2>6, NothingLost
  <2>8. tokens' \subseteq Given' \/ Leaky(call')
    BY <1>1, <2>4, <2>5 DEF Given
  <2> QED
    BY <1>1, <1>2, <2>7, <2>8, ReturnStep, Setting DEF LeavesNothing
<1> QED
  BY <1>3, <1>4

\* Nothing changes.
LEMMA Stuttering == ASSUME PathInv, UNCHANGED callVars PROVE PathInv'
<1>1. UNCHANGED <<call, pc, tokens, outcome, returned, tooLate>>
  BY DEF callVars
<1>2. Typed' /\ OnTheWay' /\ CleaningUp'
  BY <1>1 DEF PathInv, Typed, OnTheWay, CleaningUp, steps
<1>3. RegisteredIsKept' /\ LeavesNothing'
  BY <1>1 DEF PathInv, RegisteredIsKept, LeavesNothing, Blocks, Orphans, Given,
     Raised, FailedRelease, Current, steps
<1> QED
  BY <1>2, <1>3 DEF PathInv

\* Every step keeps the invariant.
LEMMA PathStep == ASSUME Disciplined, PathInv, [CallNext]_callVars PROVE PathInv'
<1>1. CASE CallNext
  BY <1>1, SkipStep, CheckFailsStep, SucceedStep, QosRefusedStep, FailStep, FailAndCleanUpStep,
     FinishStep DEF CallNext
<1>2. CASE UNCHANGED callVars
  BY <1>2, Stuttering
<1> QED
  BY <1>1, <1>2

\* The invariant holds along every path of every call.
THEOREM PathInvariance == ASSUME Disciplined PROVE CallSpec => []PathInv
<1>1. CallInit => PathInv
  BY PathInit
<1>2. PathInv /\ [CallNext]_callVars => PathInv'
  BY PathStep
<1> QED
  BY <1>1, <1>2, PTL DEF CallSpec

\* In a NIF whose text is careful no path uses or releases what is gone, and the middleware
\* is never left with user data that is: the checks, uses and frees of src/*.c in their order.
THEOREM NoneUsedLate == ASSUME Disciplined PROVE CallSpec => []NothingUsedLate
<1>1. PathInv => NothingUsedLate
  BY DEF PathInv, Typed, NothingUsedLate
<1> QED
  BY PathInvariance, <1>1, PTL

\* In a NIF whose text is careful every return, on whichever error path, leaves no memory of
\* the call and no native object without its term, but for failing finalisers and the Leaky.
THEOREM CallsLeaveNothing == ASSUME Disciplined PROVE CallSpec => []LeavesNothing
<1>1. PathInv => LeavesNothing
  BY DEF PathInv
<1> QED
  BY PathInvariance, <1>1, PTL
=============================================================================
