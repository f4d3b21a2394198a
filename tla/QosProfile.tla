----------------------------- MODULE QosProfile -----------------------------
(***************************************************************************)
(* src/qos.c: a QoS profile is a map of ten keys in Elixir, a structure of  *)
(* enumerations, a depth and three durations in rmw.  The Elixir durations  *)
(* are doubles, those of rmw are seconds and nanoseconds, so the two        *)
(* conversions round.  Doubles are written as integers, in units of         *)
(* 2^-Fraction: those with at most Mantissa significant bits exist.  The C  *)
(* constants 2^32, 10^9 and the 53 bits of a double are the parameters.     *)
(***************************************************************************)
EXTENDS Integers, FiniteSets, Sequences

CONSTANTS NsPerSec,   \* nanoseconds in a second
          Mantissa,   \* significant bits of a double
          Fraction,   \* bits after the point, enough for NsPerSec
          UIntMax     \* the largest unsigned int

ASSUME QosAssumption ==
  /\ NsPerSec \in Nat \ {0} /\ Mantissa \in Nat \ {0} /\ UIntMax \in Nat
  /\ Fraction \in Nat /\ 2^Fraction >= NsPerSec

One == 2^Fraction

(* The double nearest to num / den units, to even when there are two *)
Nearest(num, den) ==
  LET whole == num \div den
      ulp   == 2^(CHOOSE u \in 0..30 : /\ whole \div 2^u < 2^Mantissa
                                       /\ \A v \in 0..(u - 1) : whole \div 2^v >= 2^Mantissa)
      n     == num \div (den * ulp)
      twice == 2 * (num - n * den * ulp)
  IN  IF twice < den * ulp \/ (twice = den * ulp /\ n % 2 = 0) THEN n * ulp ELSE (n + 1) * ulp

(* (double)sec + (double)nsec / 1000000000 *)
ToDouble(t) == Nearest(Nearest(t.sec * One, 1) + Nearest(t.nsec * One, NsPerSec), 1)
\* Mutant: the nanoseconds of the whole duration.
FromDoubleWhole(d) == [sec |-> d \div One, nsec |-> Nearest(d * NsPerSec, 1) \div One]
(* modf, then truncation of the fraction times 1000000000 *)
FromDouble(d) ==
  [sec |-> d \div One, nsec |-> Nearest((d % One) * NsPerSec, 1) \div One]

-----------------------------------------------------------------------------
(* Elixir terms are tagged with their type *)
Atom(a)   == <<"atom", a>>
Uint(n)   == <<"int", n>>
Double(d) == <<"double", d>>

Policies == [history     |-> {"system_default", "keep_last", "keep_all", "unknown"},
             reliability |-> {"system_default", "reliable", "best_effort", "unknown"},
             durability  |-> {"system_default", "transient_local", "volatile", "unknown"},
             liveliness  |-> {"system_default", "automatic", "manual_by_topic", "unknown"},
             avoid_ros_namespace_conventions |-> {"true", "false"}]
Durations == {"deadline", "lifespan", "liveliness_lease_duration"}

(* The order in which get_c_qos_profile looks the keys up *)
Keys == <<"history", "depth", "reliability", "durability", "deadline", "lifespan",
          "liveliness", "liveliness_lease_duration", "avoid_ros_namespace_conventions">>

ValueOf(map, k) == map[k][2]
Legal(k, v) ==
  CASE k \in DOMAIN Policies -> v[1] = "atom" /\ v[2] \in Policies[k]
    [] k = "depth"           -> v[1] = "int" /\ v[2] \in 0..UIntMax
    [] k \in Durations       -> v[1] = "double"

(* "ok", or the exception: a map of another size or without a key is a bad      *)
(* argument, a value that is not legal raises, the first of the keys in order.  *)
check_qos_profile(map) ==
  LET Fault(k) == CASE k \notin DOMAIN map  -> "badarg"
                    [] ~ Legal(k, map[k])   -> "raise"
                    [] OTHER                -> "ok"
      faulty  == {i \in 1..Len(Keys) : Fault(Keys[i]) # "ok"}
      first   == CHOOSE i \in faulty : \A j \in faulty : i <= j
  IN  CASE Cardinality(DOMAIN map) # 10 -> "badarg"
        [] faulty # {}                  -> Fault(Keys[first])
        [] OTHER                        -> "ok"

get_c_qos_profile(map) ==
  [k \in {Keys[i] : i \in 1..Len(Keys)} |->
     IF k \in Durations THEN FromDouble(ValueOf(map, k)) ELSE ValueOf(map, k)]

(* The depth of rmw is a size_t, enif_make_uint takes an unsigned int *)
ex_value(k, v) ==
  CASE k \in DOMAIN Policies -> Atom(v)
    [] k = "depth"           -> Uint(v % (UIntMax + 1))
    [] k \in Durations       -> Double(ToDouble(v))
get_ex_qos_profile(qos) ==
  [k \in DOMAIN qos \union {"__struct__"} |->
     IF k = "__struct__" THEN Atom("Elixir.Rclex.QoS") ELSE ex_value(k, qos[k])]
(* rmw has policies Elixir has no atom for, as best_available *)
ex_raises(qos) == \E k \in DOMAIN Policies : qos[k] \notin Policies[k]

=============================================================================
