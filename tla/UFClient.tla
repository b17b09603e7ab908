------------------------------ MODULE UFClient ------------------------------
(***************************************************************************)
(* Threads that call the operations of the union-find structure in any     *)
(* order, and what the structure promises them.  The only discipline is    *)
(* the one the SCC algorithm keeps: a set is emptied of its listed states  *)
(* only when nobody unites it any more (the set of the highest state,      *)
(* which is never the side uf_union locks, may be emptied at any time).    *)
(***************************************************************************)
EXTENDS UnionFind

Operation == {"find", "same", "union", "claim", "acc", "pick", "remove"}

CONSTANT
    Budgets   \* bound: how often each operation may be called

ASSUME BudgetAssumption == Budgets \subseteq [Operation -> Nat]

VARIABLES
    left,    \* the number of calls left of each operation
    call,    \* its last call: operation, arguments, and the past at that time
    claimed, \* history: the states each worker has claimed
    marked,  \* history: the marks added to each state
    removed, \* history: the states uf_remove_from_list was called for
    merges,  \* history: the unions that returned true
    deaths   \* history: the picks that returned PICK_MARK_DEAD

history == <<claimed, marked, removed, merges, deaths>>
vars == <<ufvars, left, call, history>>

\* same: were a and b in one set when the call was made?  gone: the states
\* that were off their list by then.
CallRecord == [op : Operation \cup {"none"}, a : Ref, b : Ref, same : BOOLEAN,
               gone : SUBSET State]

Init ==
    /\ UFInit
    /\ left \in Budgets
    /\ call = [t \in Thread |->
                 [op |-> "none", a |-> 0, b |-> 0, same |-> TRUE, gone |-> {}]]
    /\ claimed = [t \in Thread |-> {}]
    /\ marked = [s \in State |-> {}]
    /\ removed = {}
    /\ merges = 0
    /\ deaths = 0

-----------------------------------------------------------------------------
(* The calls                                                               *)

Uniting(s) ==
    \E t \in Thread : /\ pc[t] # "ready"
                      /\ call[t].op = "union"
                      /\ SameSet(s, call[t].a) \/ SameSet(s, call[t].b)

\* Will the set of s, without the states of gone, still have a listed state?
Listed(s, gone) == SetOf(s) \ gone # {} \/ SameSet(s, N)

MayUnite(s, u) == Listed(s, removed) /\ Listed(u, removed)
MayRemove(s) == Listed(s, removed \cup {s}) \/ ~Uniting(s)

MayCall(t, op) == pc[t] = "ready" /\ left[op] > 0

Invoke(t, op, a, b) ==
    /\ left' = [left EXCEPT ![op] = @ - 1]
    /\ call' = [call EXCEPT ![t] =
                  [op |-> op, a |-> a, b |-> b, same |-> SameSet(a, b),
                   gone |-> {s \in State : list_status[s] = "LIST_TOMB"}]]
    /\ removed' = IF op = "remove" THEN removed \cup {a} ELSE removed
    /\ UNCHANGED <<claimed, marked, merges, deaths>>

CallFind(t) ==
    /\ MayCall(t, "find")
    /\ \E s \in State : uf_find(t, s) /\ Invoke(t, "find", s, s)

CallSameSet(t) ==
    /\ MayCall(t, "same")
    /\ \E a, b \in State : uf_sameset(t, a, b) /\ Invoke(t, "same", a, b)

CallUnion(t) ==
    /\ MayCall(t, "union")
    /\ \E a, b \in State :
          MayUnite(a, b) /\ uf_union(t, a, b) /\ Invoke(t, "union", a, b)

CallClaim(t) ==
    /\ MayCall(t, "claim")
    /\ \E s \in State : uf_make_claim(t, s) /\ Invoke(t, "claim", s, s)

CallAddAcc(t) ==
    /\ MayCall(t, "acc")
    /\ \E s \in State, m \in Mark :
          uf_add_acc(t, s, {m}) /\ Invoke(t, "acc", s, s)

CallPick(t) ==
    /\ MayCall(t, "pick")
    /\ \E s \in State : uf_pick_from_list(t, s) /\ Invoke(t, "pick", s, s)

CallRemove(t) ==
    /\ MayCall(t, "remove")
    /\ \E s \in State :
          /\ MayRemove(s)
          /\ uf_remove_from_list(t, s)
          /\ Invoke(t, "remove", s, s)

Call(t) ==
    \/ CallFind(t) \/ CallSameSet(t) \/ CallUnion(t) \/ CallClaim(t)
    \/ CallAddAcc(t) \/ CallPick(t) \/ CallRemove(t)

-----------------------------------------------------------------------------
\* A step of the operation; the history grows when it returns.
Returns(t, op) == pc'[t] = "ready" /\ call[t].op = op

Step(t) ==
    /\ UFStep(t)
    /\ claimed' = IF Returns(t, "claim") /\ loc'[t].code # "CLAIM_DEAD"
                  THEN [claimed EXCEPT ![t] = @ \cup {call[t].a}] ELSE claimed
    /\ marked' = IF Returns(t, "acc")
                 THEN [marked EXCEPT ![call[t].a] = @ \cup loc[t].bits]
                 ELSE marked
    /\ merges' = IF Returns(t, "union") /\ loc'[t].v THEN merges + 1
                 ELSE merges
    /\ deaths' = IF pc[t] = "dead_check" /\ loc[t].v THEN deaths + 1
                 ELSE deaths
    /\ UNCHANGED <<left, call, removed>>

\* No operation is running; none need be called.
Quiet ==
    /\ \A t \in Thread : pc[t] = "ready"
    /\ UNCHANGED vars

Next == (\E t \in Thread : Call(t) \/ Step(t)) \/ Quiet

Spec == Init /\ [][Next]_vars

-----------------------------------------------------------------------------
(* Properties                                                              *)

\* Where t is, not counting the uf_find or uf_pick_from_list it has called.
At(t) ==
    LET l == IF pc[t] \in {"find", "find_y", "find_write"} THEN loc[t].fret
             ELSE pc[t]
    IN  IF loc[t].pret # "" THEN loc[t].pret ELSE l

\* t has linked its q and not yet unlocked it.
Propagating(t) ==
    At(t) \in {"union_acc_r", "union_acc_q", "union_or_acc", "union_up_acc",
               "union_acc", "union_set_q", "union_set_r", "union_or_set",
               "union_up_set", "union_set", "union_unlist_a",
               "union_unlist_b", "union_unlock"}

\* t has locked its q and knows that it is a root, but has not linked it.
Linking(t) ==
    At(t) \in {"union_list_a", "union_cas_a", "union_list_b", "union_cas_b",
               "union_unlist", "union_fail", "union_swap", "union_link"}

\* The forest has no cycle, whatever the plain writes of the path halving do:
\* a parent has a higher number than its child (uf_find, uf_union).
ParentHigher == \A s \in State : parent[s] # 0 => parent[s] > s

\* A representative that a union has locked, and found to be a root, stays a
\* root until that union links it, and no other union has it (uf_lock_uf).
LockedRoot ==
    \A t \in Thread : Linking(t) =>
       /\ parent[loc[t].q] = 0
       /\ uf_status[loc[t].q] = "UF_LOCK"
       /\ \A u \in Thread \ {t} :
             Linking(u) \/ Propagating(u) => loc[u].q # loc[t].q

\* Each union that returns true removed exactly one representative: no two
\* threads both claim to have merged the same two sets (uf_union).
MergesCounted ==
    Cardinality({s \in State : parent[s] # 0})
       = merges + Cardinality({t \in Thread : Propagating(t)})

\* What the operations answer about the sets.  Sets only grow, so a true answer
\* must hold when the call returns and a false one must have held when it was
\* made (uf_find, uf_sameset, uf_union).
SetAnswers ==
    \A t \in Thread : pc[t] = "ready" =>
       LET c == call[t]
       IN  /\ c.op = "find" => SameSet(c.a, loc[t].ret)
           /\ c.op = "same" => IF loc[t].v THEN SameSet(c.a, c.b) ELSE ~c.same
           /\ c.op = "union" /\ loc[t].v => SameSet(c.a, c.b)

\* What all operations answer.  After uf_union the arguments are in one set
\* whoever united them, unless one of the sets is dead; a picked state is in
\* the set asked for and was not off the list at the call; PICK_DEAD,
\* PICK_MARK_DEAD and CLAIM_DEAD are only said of a dead set.
AnswersRight ==
    /\ MergesCounted
    /\ SetAnswers
    /\ \A t \in Thread : pc[t] = "ready" =>
       LET c == call[t]
           Dead(s) == uf_status[Root[s]] = "UF_DEAD"
       IN  /\ c.op = "union" => SameSet(c.a, c.b) \/ Dead(c.a) \/ Dead(c.b)
           /\ c.op = "claim" /\ loc[t].code = "CLAIM_DEAD" => Dead(c.a)
           /\ c.op = "pick" =>
                 IF loc[t].code = "PICK_SUCCESS"
                 THEN SameSet(c.a, loc[t].ret) /\ loc[t].ret \notin c.gone
                 ELSE Dead(c.a)

\* The states on the list that starts at s.
ListFrom(s) ==
    LET at[n \in 0 .. N] == IF n = 0 THEN s
                            ELSE IF at[n - 1] = 0 THEN 0
                            ELSE list_next[at[n - 1]]
    IN  {at[n] : n \in 0 .. N} \ {0}

\* While no union is between its swap and its link, the cyclic list that starts
\* at a state has only states of its set, and all of those not yet removed: no
\* plain write of uf_pick_from_list drops a state still to be explored.  A set
\* is declared dead only when each of its states has been removed, by one pick
\* only, and it then stays as it is (uf_mark_dead and its assertions).
ListIsSet ==
    /\ (\A t \in Thread : pc[t] # "union_link") =>
          \A s \in State :
             LET list == ListFrom(s)
             IN  /\ list \subseteq SetOf(s)
                 /\ {u \in SetOf(s) : list_status[u] # "LIST_TOMB"} \subseteq list
    /\ \A s \in State : uf_status[s] = "UF_DEAD" =>
          /\ parent[s] = 0
          /\ \A u \in SetOf(s) : list_status[u] = "LIST_TOMB"
    /\ \A t \in Thread :
          /\ pc[t] = "dead_root" => parent[loc[t].f] = 0
          /\ pc[t] = "dead_check" => uf_status[loc[t].f] = "UF_DEAD"
    /\ deaths + Cardinality({t \in Thread : loc[t].v /\ At(t) # "ready"})
          = Cardinality({s \in State : uf_status[s] = "UF_DEAD"})

\* A state that follows another one on a list has a follower itself, so
\* uf_pick_from_list, which goes two states at a time, never comes to entry 0
\* (the assertions on a and c that are commented out there).
ListClosed ==
    /\ \A s \in State : list_next[s] # 0 => list_next[list_next[s]] # 0
    /\ \A t \in Thread :
          /\ pc[t] \in {"pick_a", "pick_next", "pick_b", "pick_c",
                        "pick_write"} => loc[t].pa # 0
          /\ pc[t] = "pick_write" => loc[t].pn # 0

\* No claim and no acceptance mark is lost.  Once uf_make_claim returned, the
\* worker is in the worker set of the representative, except while a union is
\* propagating or while its own next claim is on its way up (which relieves the
\* union of it).  Once uf_add_acc returned, the mark is in the acceptance set
\* of the representative, except while a union is propagating or another call
\* is still on its way up (which one call may rely on: it returns early when it
\* sees the marks on a state that has got a parent).
NothingLost ==
    (\A t \in Thread : ~Propagating(t)) =>
       /\ \A t \in Thread :
             \/ At(t) \in {"claim_or", "claim_up", "claim_set"}
             \/ \A s \in claimed[t] : t \in p_set[Root[s]]
       /\ (\A t \in Thread : At(t) \notin {"acc", "acc_or", "acc_up"}) =>
             \A s \in State : marked[s] \subseteq acc_set[Root[s]]

\* Sets that were merged stay merged: the halving writes of uf_find never
\* detach a state.
SetsOnlyGrow ==
    [][\A s, u \in State : SameSet(s, u) => SameSet(s, u)']_vars
=============================================================================
