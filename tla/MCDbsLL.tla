------------------------------- MODULE MCDbsLL -------------------------------
(***************************************************************************)
(* Three workers and five vectors in a table of two lines of two buckets.  *)
(* "a" and "b" start in the same bucket with the same memoised hash, "c"   *)
(* starts in the same line, "d" and "e" in the other one.                  *)
(***************************************************************************)
EXTENDS DbsLL, TLC

CONSTANTS t1, t2, t3

Threads == {t1, t2, t3}
Vectors == {"a", "b", "c", "d", "e"}
Hashes ==
    "a" :> [ref |-> 1, prime |-> 3, memo |-> 3, lost |-> 1] @@
    "b" :> [ref |-> 1, prime |-> 3, memo |-> 2, lost |-> 1] @@
    "c" :> [ref |-> 4, prime |-> 5, memo |-> 2, lost |-> 0] @@
    "d" :> [ref |-> 7, prime |-> 3, memo |-> 1, lost |-> 0] @@
    "e" :> [ref |-> 2, prime |-> 3, memo |-> 1, lost |-> 3]

Call(op, v) == [op |-> op, v |-> v, arg |-> [exp |-> 0, new |-> 0]]
Lookup(v) == Call("lookup", v)
Find(v) == Call("find", v)
Paint(v, c) == [op |-> "color", v |-> v, arg |-> [exp |-> 0, new |-> 2 ^ c]]
Set(v, e, n) == [op |-> "set", v |-> v, arg |-> [exp |-> e, new |-> n]]

\* Lookups and finds of the same vectors; more vectors than buckets; workers
\* that count themselves in and out; and workers that set colours.
MCScripts ==
    {t1 :> <<Lookup("a"), Lookup("b")>> @@
     t2 :> <<Lookup("b"), Lookup("a")>> @@
     t3 :> <<Find("a"), Lookup("b")>>,
     t1 :> <<Lookup("a"), Lookup("c"), Lookup("e"), Find("b")>> @@
     t2 :> <<Lookup("b"), Lookup("d"), Lookup("a")>> @@
     t3 :> <<>>,
     t1 :> <<Lookup("a"), Call("inc", "a"), Call("dec", "a")>> @@
     t2 :> <<Lookup("a"), Call("inc", "a"), Call("dec", "a")>> @@
     t3 :> <<Lookup("a"), Call("inc", "a"), Paint("a", 0), Call("dec", "a")>>,
     t1 :> <<Lookup("a"), Call("inc", "a"), Paint("a", 0), Set("a", 1, 3)>> @@
     t2 :> <<Lookup("a"), Call("inc", "a"), Set("a", 0, 3), Call("dec", "a")>> @@
     t3 :> <<Lookup("a"), Paint("a", 0), Paint("a", 1)>>}
=============================================================================
