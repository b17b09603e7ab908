----------------------------- MODULE MCTreeDbsLL -----------------------------
(***************************************************************************)
(* Vectors of three slots: the root is the pair of an inner node and the   *)
(* first slot.  Slots have five bits, the tables are small enough to fill  *)
(* up, and all hashes collide in a few buckets.                            *)
(***************************************************************************)
EXTENDS TreeDbsLL, TLC

CONSTANTS t1, t2, t3

Threads == {t1, t2, t3}
V(a, b, c) == [s \in 0 .. 2 |-> <<a, b, c>>[s + 1]]
MCVectors == {V(0, 0, 0), V(0, 0, 1), V(1, 0, 1), V(0, 1, 1), V(1, 1, 1)}
HighVectors == {V(0, 0, 0), V(9, 0, 0), V(9, 0, 1)}

MCMix(word) == word \div 2
MCPrime(h) == 2 * (h % 2) + 3

\* The slots a group may change.
MCDM == 0 :> {0} @@ 1 :> {2} @@ 2 :> {1, 2}

Call(op, v, prev, group, arg) ==
    [op |-> op, v |-> v, prev |-> prev, group |-> group, arg |-> arg]
First(v) == Call("lookup", v, <<>>, -1, 0)
Lookup(v, prev, group) == Call("lookup", v, prev, group, 0)
Find(v, prev, group) == Call("find", v, prev, group, 0)
Sat(op, v, arg) == Call(op, v, <<>>, -1, arg)

\* The same successors by the dependency matrix, incrementally and in full;
\* finds while the vector is put in; and workers on the satellite bits while
\* others look the state up; and more vectors than there are buckets.
MCScripts ==
    {t1 :> <<First(V(0, 0, 0)), Lookup(V(0, 0, 1), V(0, 0, 0), 1),
             Lookup(V(1, 0, 1), V(0, 0, 1), 0)>> @@
     t2 :> <<First(V(0, 0, 0)), Lookup(V(1, 0, 1), V(0, 0, 0), -1)>> @@
     t3 :> <<First(V(1, 0, 1))>>,
     t1 :> <<First(V(0, 0, 1)), Lookup(V(0, 0, 1), V(0, 0, 1), 1),
             Lookup(V(1, 1, 1), V(0, 0, 1), -1), First(V(1, 0, 1))>> @@
     t2 :> <<First(V(0, 0, 1)), Find(V(0, 1, 1), V(0, 0, 1), 2), First(V(0, 0, 0)),
             Find(V(0, 0, 1), V(0, 0, 0), 1)>> @@
     t3 :> <<>>,
     t1 :> <<First(V(0, 0, 0)), Sat("color", V(0, 0, 0), 2), First(V(0, 0, 0))>> @@
     t2 :> <<First(V(0, 0, 0)), Sat("inc", V(0, 0, 0), 0), Sat("dec", V(0, 0, 0), 0)>> @@
     t3 :> <<First(V(0, 0, 0)), Sat("inc", V(0, 0, 0), 0), Sat("color", V(0, 0, 0), 2),
             Sat("dec", V(0, 0, 0), 0)>>,
     t1 :> <<First(V(0, 0, 0)), First(V(1, 1, 1)), First(V(0, 1, 1)), First(V(0, 0, 0))>> @@
     t2 :> <<First(V(0, 0, 1)), First(V(1, 0, 1)), First(V(0, 1, 1))>> @@
     t3 :> <<>>}

\* The first slot has a value whose next-to-top bit is set, where the left half
\* of a root holds a satellite bit (the top one is free when their number is
\* odd).  In the code the small negative numbers are such values.
HighScripts ==
    {t1 :> <<First(V(0, 0, 0)), Lookup(V(9, 0, 0), V(0, 0, 0), 0)>> @@
     t2 :> <<First(V(9, 0, 1)), Lookup(V(9, 0, 0), V(9, 0, 1), 1)>> @@
     t3 :> <<>>}
=============================================================================
