------------------------------ MODULE Projections -------------------------------
(* State vectors and their projections, as vset-lib/vector_set.h speaks of them: *)
(* a vector is a sequence, a projection the sequence of the positions it keeps,  *)
(* counted from 0 as in the code; a relation is a set of pairs of short vectors. *)
EXTENDS Integers, Sequences

\* B of the value of E, which is computed once.
Then(E, B(_)) == CHOOSE r \in {B(v) : v \in {E}} : TRUE

\* The values of vector v at the positions of projection proj.
Projected(v, proj) == [i \in 1..Len(proj) |-> v[proj[i] + 1]]

\* v with the positions of proj overwritten by d.
Written(v, proj, d) ==
    [k \in 1..Len(v) |-> IF \E i \in 1..Len(proj) : proj[i] + 1 = k
                         THEN d[CHOOSE i \in 1..Len(proj) : proj[i] + 1 = k]
                         ELSE v[k]]

Project(S, proj) == {Projected(v, proj) : v \in S}

\* The vectors of S whose projection is in L: the join of a set with a projected one.
Join(S, proj, L) == {v \in S : Projected(v, proj) \in L}

Image(S, proj, R) ==
    UNION {{Written(v, proj, t[2]) : t \in {u \in R : u[1] = Projected(v, proj)}} : v \in S}

PreImage(S, proj, R) ==
    UNION {{Written(v, proj, t[1]) : t \in {u \in R : u[2] = Projected(v, proj)}} : v \in S}
================================================================================
