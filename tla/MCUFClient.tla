----------------------------- MODULE MCUFClient -----------------------------
(***************************************************************************)
(* An instance of UFClient: the calls are of the forest alone, of the      *)
(* lists, of claims, or of marks.  From the start they name three of the   *)
(* four states; all four take part from a later state on, in which some    *)
(* states of a list have been removed.                                     *)
(***************************************************************************)
EXTENDS UFClient, TLC

\* Threads are interchangeable.
Symmetry == Permutations(Thread)

Bound(s) == [op \in Operation |-> IF op \in DOMAIN s THEN s[op] ELSE 0]

MCBudgets ==
    {Bound([find |-> 1, same |-> 1, union |-> 2]),
     Bound([union |-> 3]),
     Bound([union |-> 2, pick |-> 1, remove |-> 1]),
     Bound([union |-> 1, pick |-> 1, remove |-> 2]),
     Bound([union |-> 2, claim |-> 1]),
     Bound([union |-> 1, claim |-> 3]),
     Bound([union |-> 2, acc |-> 1]),
     Bound([union |-> 1, acc |-> 3])}

\* What is left of a budget when the state Grown(k) has been reached.
GrownBudgets ==
    <<{Bound([union |-> 1, pick |-> 1, remove |-> 1])},
      {Bound([union |-> 2, pick |-> 1]),
       Bound([union |-> 1, pick |-> 1, remove |-> 1])}>>

\* The state after uf_union(1, 2), uf_union(2, 3) and the removal of 1 .. k by
\* one thread: a pick in the list 1, 2, 3 makes it shorter and leaves 3, while
\* a union may swap the successors of 3 and 4.
Grown(k) ==
    /\ parent = <<2, 3, 0, 0>>
    /\ uf_status = [s \in State |-> "UF_LIVE"]
    /\ list_status = [s \in State |-> IF s <= k THEN "LIST_TOMB" ELSE "LIST_LIVE"]
    /\ list_next = <<2, 3, 1, 0>>
    /\ p_set = [s \in State |-> {}]
    /\ acc_set = [s \in State |-> {}]
    /\ pc = [t \in Thread |-> "ready"]
    /\ \E t \in Thread :
          /\ loc = [u \in Thread |-> [NoLocal EXCEPT !.v = (u = t)]]
          /\ call = [u \in Thread |->
                IF u = t THEN [op |-> "remove", a |-> k, b |-> k,
                               same |-> TRUE, gone |-> 1 .. k - 1]
                ELSE [op |-> "none", a |-> 0, b |-> 0,
                      same |-> TRUE, gone |-> {}]]
    /\ left \in GrownBudgets[k]
    /\ claimed = [t \in Thread |-> {}]
    /\ marked = [s \in State |-> {}]
    /\ removed = 1 .. k
    /\ merges = 2
    /\ deaths = 0

\* Bound: state 1 is named by no call unless it was united before.
Named ==
    parent[1] # 0 \/ \A t \in Thread : 1 \notin {call[t].a, call[t].b}

MCInit == Init \/ \E k \in DOMAIN GrownBudgets : Grown(k)

MCNext == Next /\ Named'

MCSpec == MCInit /\ [][MCNext]_vars
=============================================================================
