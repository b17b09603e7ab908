------------------------------- MODULE VectorSet -------------------------------
(* What vset-lib/vector_set.h promises of a vector set: sets of vectors over a   *)
(* domain, relations on projections of it, and the operations on them, stated on *)
(* mathematical sets.  A call c is a record; c.op names the operation, c.dst the *)
(* set it writes, c.src and c.arg its operands, c.proj and c.vec a projection    *)
(* (positions counted from 0, as in the code) and a vector.                      *)
EXTENDS Projections

CONSTANTS
    Calls,   \* the calls a client may make
    RelProj, \* the projection of each relation
    Trans    \* the transitions <<src, dst>> the expand callback of a relation knows

VARIABLES
    value,   \* the vectors of every existing set
    pairs,   \* the pairs of every relation
    shape,   \* the projection of every existing set, All when it has none
    call     \* the call made last

avars == <<value, pairs, shape, call>>

All == <<-1>>

\* The smallest superset of S closed under the relations R.
RECURSIVE Closure(_, _)
Closure(S, R) ==
    LET T == S \cup UNION {Image(S, RelProj[g], R[g]) : g \in DOMAIN R}
    IN  IF T = S THEN S ELSE Closure(T, R)

\* The relations a least fixpoint from S uses: what they hold and what is expanded.
Known(R, T) == [g \in DOMAIN R |-> R[g] \cup {t \in Trans[g] : \E v \in T : t[1] = Projected(v, RelProj[g])}]

Total(R) == [g \in DOMAIN R |-> R[g] \cup Trans[g]]

\* The set a call leaves in its destination.
Result(c) ==
    CASE c.op = "create"    -> {}
      [] c.op = "clear"     -> {}
      [] c.op = "add"       -> value[c.dst] \cup {c.vec}
      [] c.op = "copy"      -> value[c.src]
      [] c.op = "union"     -> value[c.dst] \cup value[c.src]
      [] c.op = "minus"     -> value[c.dst] \ value[c.src]
      [] c.op = "intersect" -> value[c.dst] \cap value[c.src]
      [] c.op = "match"     -> {v \in value[c.src] : Projected(v, c.proj) = c.vec}
      [] c.op = "project"   -> {Projected(v, shape[c.dst]) : v \in value[c.src]}
      [] c.op = "next"      -> Image(value[c.src], RelProj[c.arg], pairs[c.arg])
      [] c.op = "prev"      -> PreImage(value[c.src], RelProj[c.arg], pairs[c.arg])
                                   \cap value[c.univ]
      [] c.op = "least"     -> Closure(value[c.src], Total(pairs))

Create(c) ==
    /\ c.op = "create" /\ c.dst \notin DOMAIN value
    /\ value' = [x \in DOMAIN value \cup {c.dst} |-> IF x = c.dst THEN {} ELSE value[x]]
    /\ shape' = [x \in DOMAIN value \cup {c.dst} |-> IF x = c.dst THEN c.proj ELSE shape[x]]
    /\ UNCHANGED pairs

Destroy(c) ==
    /\ c.op = "destroy" /\ c.dst \in DOMAIN value
    /\ value' = [x \in DOMAIN value \ {c.dst} |-> value[x]]
    /\ shape' = [x \in DOMAIN value \ {c.dst} |-> shape[x]]
    /\ UNCHANGED pairs

Relate(c) ==
    /\ c.op = "relate"
    /\ pairs' = [pairs EXCEPT ![c.arg] = @ \cup {<<c.src, c.dst>>}]
    /\ UNCHANGED <<value, shape>>

Least(c) ==
    /\ c.op = "least"
    /\ value' = [value EXCEPT ![c.dst] = Result(c)]
    /\ pairs' = Known(pairs, Result(c))
    /\ UNCHANGED shape

Assign(c) ==
    /\ c.op \notin {"create", "destroy", "relate", "least", "count"}
    /\ value' = [value EXCEPT ![c.dst] = Result(c)]
    /\ UNCHANGED <<pairs, shape>>

Count(c) == c.op = "count" /\ UNCHANGED <<value, pairs, shape>>

AInit ==
    /\ call = [op |-> "none"]
    /\ value = <<>> /\ shape = <<>>
    /\ pairs = [g \in DOMAIN RelProj |-> {}]

ANext ==
    \E c \in Calls :
        /\ call' = c
        /\ Create(c) \/ Destroy(c) \/ Relate(c) \/ Least(c) \/ Assign(c) \/ Count(c)

ASpec == AInit /\ [][ANext]_avars
================================================================================
