------------------------- MODULE MCParameterServer -------------------------
(* Instances of ParameterServer for TLC. *)
EXTENDS ParameterServer, TLC

CONSTANTS o, p, q, i1, i2, s1

MCTypeOf == [v \in Values |-> IF v = s1 THEN "string" ELSE "integer"]
MCTextOf == [v \in Values |-> s1]

\* Entries of lists: values of both types, and one that is not set.
Int(n, v) == <<n, [type |-> "integer", raw |-> v]>>
Str(n)    == <<n, [type |-> "string", raw |-> s1]>>
Non(n)    == <<n, NotSet>>

\* Lists with valid and invalid entries in either order, and lists that name a parameter twice.
MCLists ==
  { << Int(q, i1), Str(p) >>, << Int(p, i1), Int(p, i2) >>,
    << Str(p), Int(q, i2), Int(p, i2), Int(q, i1) >> }
MCAtomicLists ==
  { <<>>, << Int(p, i1), Int(o, i2) >>, << Int(q, i1), Str(p) >>, << Str(q), Int(p, i2) >>, << Non(p), Str(q) >> }
MCRawLists == { << <<p, i1>> >>, << <<p, s1>>, <<q, i2>> >> }
\* A pre-set callback that drops everything, one that changes a value and one that adds an entry.
MCPreOutputs == { <<>>, << Int(p, i2) >>, << Int(q, i2), Int(p, i1) >> }

MCRefused == { <<p, i2>> }
=============================================================================
