-------------------------- MODULE UFPassingProofs ---------------------------
(***************************************************************************)
(* Proofs that no claim and no acceptance mark is lost (NothingLost), for  *)
(* any number of states and threads and any calls: what is written at a    *)
(* state that is no root, or becomes none, is passed on to the root by the *)
(* union, the claim or the call that is responsible for it.  An operation  *)
(* may stop early when it sees what it carries at a state that is no root  *)
(* any more; somebody who is higher up is then responsible for it, which   *)
(* is why the argument is not circular.                                    *)
(***************************************************************************)
EXTENDS UFSetsProofs

-----------------------------------------------------------------------------
(* Bits on their way to the root                                           *)

\* Thread u carries the bits c[u] from the state n[u] to the root, in a forest
\* with roots g.  Every bit of S at a state is at its root, or carried there
\* from a state that is not lower.
Passed(g, S, n, c) ==
    \A y \in State : \A b \in S[y] :
       \/ b \in S[g[y]]
       \/ \E u \in Thread : b \in c[u] /\ Same(g, y, n[u]) /\ y <= n[u]

\* The others carry what they did; bits may have been added to it.
OthersCarry(t, n, c, o, d) ==
    \A u \in Thread : u # t => o[u] = n[u] /\ c[u] \subseteq d[u]

\* t goes on carrying, possibly from a higher state.
LEMMA Carrying ==
    ASSUME NEW g, NEW S, NEW n, NEW c, NEW o, NEW d, NEW t \in Thread,
           Passed(g, S, n, c), OthersCarry(t, n, c, o, d),
           \/ c[t] = {}
           \/ c[t] \subseteq d[t] /\ Same(g, n[t], o[t]) /\ n[t] <= o[t]
    PROVE  Passed(g, S, o, d)
<1> SUFFICES ASSUME NEW y \in State, NEW b \in S[y], b \notin S[g[y]]
             PROVE  \E u \in Thread : b \in d[u] /\ Same(g, y, o[u]) /\ y <= o[u]
      BY Zenon DEF Passed
<1>1. PICK u \in Thread : b \in c[u] /\ Same(g, y, n[u]) /\ y <= n[u]
      BY Zenon DEF Passed
<1>2. CASE u = t
  <2>1. b \in d[t] /\ Same(g, y, o[t])
        BY <1>1, <1>2, Zenon DEF Same
  <2>2. y <= o[t]
        BY <1>1, <1>2, NAssumption DEF Same, State
  <2> QED BY <2>1, <2>2, Zenon
<1>3. CASE u # t
  <2>1. b \in d[u] /\ Same(g, y, o[u]) /\ y <= o[u]
        BY <1>1, <1>3, Zenon DEF OthersCarry
  <2> QED BY <2>1, Zenon
<1> QED BY <1>2, <1>3, Zenon

\* The bits b are written at the state x.
Adds(S, T, x, b) == \A y \in State : T[y] = IF y = x THEN S[y] \cup b ELSE S[y]

\* t writes what it carries, and possibly more, at a state that is not lower,
\* and carries it on from there.
LEMMA Writing ==
    ASSUME NEW g, NEW S, NEW n, NEW c, NEW o, NEW d, NEW t \in Thread, NEW T,
           Passed(g, S, n, c), OthersCarry(t, n, c, o, d), o[t] \in State,
           \A y \in State : g[y] \in State, Adds(S, T, o[t], d[t]),
           \/ c[t] = {}
           \/ c[t] \subseteq d[t] /\ Same(g, n[t], o[t]) /\ n[t] <= o[t]
    PROVE  Passed(g, T, o, d)
<1> SUFFICES ASSUME NEW y \in State, NEW b \in T[y], b \notin T[g[y]]
             PROVE  \E u \in Thread : b \in d[u] /\ Same(g, y, o[u]) /\ y <= o[u]
      BY Zenon DEF Passed
<1>1. CASE y = o[t] /\ b \in d[t]
  <2>1. b \in d[t] /\ Same(g, y, o[t]) /\ y <= o[t]
        BY <1>1, NAssumption DEF Same, State
  <2> QED BY <2>1, Zenon
<1>2. CASE ~(y = o[t] /\ b \in d[t])
  <2>1. b \in S[y] /\ b \notin S[g[y]]
        BY <1>2, Zenon DEF Adds
  <2>2. Passed(g, S, o, d)
        BY Carrying, Zenon
  <2> QED BY <2>1, <2>2, Zenon DEF Passed
<1> QED BY <1>1, <1>2, Zenon

\* t stops: what it carries is at a state s of the set that is higher than
\* where it carries it from, or the root.
LEMMA Stopping ==
    ASSUME NEW g, NEW S, NEW n, NEW c, NEW o, NEW d, NEW t \in Thread,
           NEW s \in State, Passed(g, S, n, c), OthersCarry(t, n, c, o, d),
           c[t] \subseteq S[s], Same(g, n[t], s), g[s] = s \/ n[t] < s
    PROVE  Passed(g, S, o, d)
<1> SUFFICES ASSUME NEW y \in State, NEW b \in S[y], b \notin S[g[y]]
             PROVE  \E u \in Thread : b \in d[u] /\ Same(g, y, o[u]) /\ y <= o[u]
      BY Zenon DEF Passed
<1>1. PICK u \in Thread : b \in c[u] /\ Same(g, y, n[u]) /\ y <= n[u]
      BY Zenon DEF Passed
<1>2. CASE u = t
  <2>1. b \in S[s] /\ g[s] = g[y]
        BY <1>1, <1>2, Zenon DEF Same
  <2>2. g[s] # s
        BY <2>1, Zenon
  <2>3. PICK v \in Thread : b \in c[v] /\ Same(g, s, n[v]) /\ s <= n[v]
        BY <2>1, Zenon DEF Passed
  <2>4. v # t
        BY <2>2, <2>3, <1>1, <1>2, NAssumption DEF Same, State
  <2>5. b \in d[v] /\ Same(g, y, o[v])
        BY <2>1, <2>3, <2>4, Zenon DEF OthersCarry, Same
  <2>6. y <= o[v]
        BY <2>2, <2>3, <2>4, <1>1, <1>2, NAssumption
        DEF OthersCarry, Same, State
  <2> QED BY <2>5, <2>6, Zenon
<1>3. CASE u # t
  <2>1. b \in d[u] /\ Same(g, y, o[u]) /\ y <= o[u]
        BY <1>1, <1>3, Zenon DEF OthersCarry
  <2> QED BY <2>1, Zenon
<1> QED BY <1>2, <1>3, Zenon

\* The root q gets a parent in the set of r, and t, who carried nothing, carries
\* the bits of q.
LEMMA Joining ==
    ASSUME NEW g, NEW h, NEW S, NEW n, NEW c, NEW o, NEW d, NEW t \in Thread,
           NEW q \in State, NEW r \in State, Passed(g, S, n, c),
           OthersCarry(t, n, c, o, d), c[t] = {}, d[t] = S[q], o[t] = q,
           \A y \in State : g[y] \in State /\ y <= g[y],
           g[q] = q,
           \A y \in State : h[y] = IF g[y] = q THEN g[r] ELSE g[y]
    PROVE  Passed(h, S, o, d)
<1> SUFFICES ASSUME NEW y \in State, NEW b \in S[y], b \notin S[h[y]]
             PROVE  \E u \in Thread : b \in d[u] /\ Same(h, y, o[u]) /\ y <= o[u]
      BY Zenon DEF Passed
<1>1. CASE b \in S[g[y]]
  <2>1. g[y] = q
        BY <1>1, Zenon
  <2>2. b \in d[t] /\ Same(h, y, o[t]) /\ y <= o[t]
        BY <1>1, <2>1, Zenon DEF Same
  <2> QED BY <2>2, Zenon
<1>2. CASE b \notin S[g[y]]
  <2>1. PICK u \in Thread : b \in c[u] /\ Same(g, y, n[u]) /\ y <= n[u]
        BY <1>2, Zenon DEF Passed
  <2>2. u # t
        BY <2>1, Zenon
  <2>3. b \in d[u] /\ Same(h, y, o[u]) /\ y <= o[u]
        BY <2>1, <2>2 DEF OthersCarry, Same
  <2> QED BY <2>3, Zenon
<1> QED BY <1>1, <1>2, Zenon

-----------------------------------------------------------------------------
(* Who carries what                                                        *)

UnionPasses == {"union_acc_r", "union_acc_q", "union_or_acc", "union_up_acc",
                "union_acc", "union_set_q", "union_set_r", "union_or_set",
                "union_up_set", "union_set"}
ClaimOp == {"claim", "claim_found", "claim_or", "claim_up", "claim_set"}
AccOp == {"acc", "acc_or", "acc_up"}
Tracked == UnionPasses \cup ClaimOp \cup AccOp

\* The state from which a thread at w with locals l carries marks, and the
\* marks: those of q until uf_union has written them at r, then those it has
\* read; and those uf_add_acc has written once.
MarkNode(w, l) ==
    IF w \in {"union_acc_r", "union_acc_q", "union_or_acc"} THEN l.q ELSE l.r

MarkCargo(S, w, l) ==
    IF w \in {"union_acc_r", "union_acc_q"} THEN S[l.q]
    ELSE IF \/ w \in {"union_or_acc", "union_up_acc", "union_acc"}
            \/ w \in AccOp /\ l.r # 0
    THEN l.bits ELSE {}

\* The same for the workers; uf_make_claim carries the worker itself.
WorkerNode(w, l) ==
    IF w \in UnionPasses \ {"union_up_set", "union_set"} THEN l.q ELSE l.r

WorkerRead == {"union_set_r", "union_or_set", "union_up_set", "union_set"}
WorkerCargo(S, t, w, l) ==
    IF w \in UnionPasses \ WorkerRead THEN S[l.q]
    ELSE IF w \in WorkerRead THEN l.bits
    ELSE IF w \in {"claim_up", "claim_set"} THEN {t} ELSE {}

MarkNodes(p, l) == [u \in Thread |-> MarkNode(Outer(p[u], l[u]), l[u])]
MarkCargos(S, p, l) == [u \in Thread |-> MarkCargo(S, Outer(p[u], l[u]), l[u])]
WorkerNodes(p, l) == [u \in Thread |-> WorkerNode(Outer(p[u], l[u]), l[u])]
WorkerCargos(S, p, l) ==
    [u \in Thread |-> WorkerCargo(S, u, Outer(p[u], l[u]), l[u])]

\* Where uf_find returns to in these operations, and the state it was asked
\* about.
FromFind == {"union_acc", "union_set", "claim_set", "claim", "acc"}
From(w, l) == IF w \in {"claim", "acc"} THEN l.a ELSE l.r

\* What thread t at p with locals l knows of what it carries: the states it has
\* are of one set and ever higher, and what it has written is there.
Tracks(t, g, k, ps, as, p, l) ==
    /\ p \in InFind /\ Outer(p, l) \in FromFind
          => Same(g, From(Outer(p, l), l), l.x)
    /\ p \in FromFind => Same(g, From(p, l), l.f)
    /\ p \in {"union_acc", "union_set", "claim_set"} => l.r <= l.f
    /\ p = "acc_or" => Same(g, l.a, l.f)
    /\ Outer(p, l) \in UnionPasses => Same(g, l.q, l.r) /\ l.q < l.r
    /\ Outer(p, l) \in ClaimOp \ {"claim"} => Same(g, l.a, l.r)
    /\ Outer(p, l) \in AccOp /\ l.r # 0
          => Same(g, l.a, l.r) /\ l.bits \subseteq as[l.r]
    /\ Outer(p, l) \in AccOp \ {"acc_up"} /\ l.r # 0 => k[l.r] # 0
    /\ p \in {"acc", "acc_or"} /\ l.r # 0 => l.r < l.f
    /\ p = "union_acc_q" => l.seen \subseteq as[l.r]
    /\ Outer(p, l) \in {"union_up_acc", "union_acc"} => l.bits \subseteq as[l.r]
    /\ Outer(p, l) \in {"union_up_set", "union_set"} => l.bits \subseteq ps[l.r]
    /\ Outer(p, l) \in {"claim_up", "claim_set"} => t \in ps[l.r]

\* The steps of the operations that carry something.
PassStep(t) ==
    \/ FindX(t) \/ FindY(t) \/ FindWrite(t) \/ UnionLink(t)
    \/ UnionAccR(t) \/ UnionAccQ(t) \/ UnionOrAcc(t) \/ UnionUpAcc(t)
    \/ UnionAcc(t) \/ UnionSetQ(t) \/ UnionSetR(t) \/ UnionOrSet(t)
    \/ UnionUpSet(t) \/ UnionSet(t)
    \/ Claim(t) \/ ClaimFound(t) \/ ClaimOr(t) \/ ClaimUp(t) \/ ClaimSet(t)
    \/ Acc(t) \/ AccOr(t) \/ AccUp(t)

\* The other places of the operations.
Untracked ==
    {"got", "same_a", "same_b", "same_check", "pick_a", "pick_next",
     "pick_b", "pick_c", "pick_write", "dead", "dead_cas", "dead_root",
     "dead_check", "picked", "remove", "remove_cas", "union_a", "union_b",
     "union_lock", "union_root", "union_retry", "union_list_a",
     "union_cas_a", "union_list_b", "union_cas_b", "union_unlist",
     "union_fail", "union_swap", "union_unlist_a", "union_unlist_b",
     "union_unlock", "union_link", "ready"}

\* The other steps carry nothing, and write to neither the forest nor the sets.
LEMMA AsideStep ==
    ASSUME IInv, NEW t \in Thread, UFStep(t), ~PassStep(t)
    PROVE  /\ Outer(pc[t], loc[t]) \notin Tracked
           /\ Outer(pc'[t], loc'[t]) \notin Tracked
           /\ parent' = parent /\ p_set' = p_set /\ acc_set' = acc_set
<1>a. loc \in [Thread -> Local] /\ pc \in [Thread -> Label] /\ loc[t] \in Local
      BY Zenon DEF IInv, Typed
<1>b. Untracked \cap (Tracked \cup InFind) = {}
      BY Zenon DEF Untracked, Tracked, UnionPasses, ClaimOp, AccOp, InFind
<1>c. ASSUME NEW q \in Untracked, Goto(t, q)
      PROVE  Outer(pc'[t], loc'[t]) \notin Tracked
  <2>1. pc'[t] = q
        BY <1>a, <1>c, Zenon DEF Goto
  <2> QED BY <2>1, <1>b, Zenon DEF Outer
<1>d. ASSUME NEW m, Return(t, m)
      PROVE  Outer(pc'[t], loc'[t]) \notin Tracked
      BY <1>c, <1>d, Zenon DEF Return, Untracked
<1>e. ASSUME NEW m, NEW q \in Untracked, Assign(t, m), Goto(t, "find"),
             m.fret = q
      PROVE  Outer(pc'[t], loc'[t]) \notin Tracked
  <2>1. pc'[t] = "find" /\ loc'[t] = m
        BY <1>a, <1>e, Zenon DEF Goto, Assign
  <2> QED BY <2>1, <1>b, <1>e, Zenon DEF Outer, InFind
<1>f. ASSUME NEW x, NEW q \in Untracked, Find(t, x, q)
      PROVE  Outer(pc'[t], loc'[t]) \notin Tracked
  <2>1. [loc[t] EXCEPT !.x = x, !.fret = q].fret = q
        BY <1>a, Zenon DEF Local
  <2> QED BY <2>1, <1>e, <1>f, Zenon DEF Find
<1>g. ASSUME NEW c, NEW x, PickResult(t, c, x)
      PROVE  Outer(pc'[t], loc'[t]) \notin Tracked
  <2>1. pc'[t] = loc[t].pret /\ loc[t].pret \in PickReturn
        BY <1>a, <1>g, Zenon DEF PickResult, Goto, Local
  <2> QED BY <2>1, Zenon
          DEF PickReturn, Outer, InFind, Tracked, UnionPasses, ClaimOp, AccOp
<1>h. /\ \A x : [loc[t] EXCEPT !.a_r = loc[t].f, !.x = x,
                                 !.fret = "same_b"].fret = "same_b"
      /\ \A x : [loc[t] EXCEPT !.a_r = loc[t].f, !.x = x,
                                 !.fret = "union_b"].fret = "union_b"
      /\ \A x, y : [loc[t] EXCEPT !.a = x, !.b = y, !.x = x,
                                    !.fret = "same_a"].fret = "same_a"
      BY <1>a, Zenon DEF Local
<1> DEFINE Good == Outer(pc'[t], loc'[t]) \notin Tracked
<1>i. ASSUME pc[t] \in Untracked
      PROVE  Outer(pc[t], loc[t]) \notin Tracked
      BY <1>b, <1>i, Zenon DEF Outer
<1> DEFINE Was == Outer(pc[t], loc[t]) \notin Tracked
<1> SUFFICES Was /\ Good
      BY Zenon, Writers DEF PassStep, Was, Good
<1> HIDE DEF Good, Was
<1>1. CASE Got(t)
  <2>1. Was
        BY <1>1, <1>i, Zenon DEF Got, Untracked, Was
  <2>2. Good
        BY <1>1, <1>d, Zenon DEF Got, ReturnCode, Untracked, Good
  <2> QED BY <2>1, <2>2, Zenon
<1>2. CASE SameA(t)
  <2>1. Was
        BY <1>2, <1>i, Zenon DEF SameA, Untracked, Was
  <2>2. Good
        BY <1>2, <1>e, <1>h, Zenon DEF SameA, Untracked, Good
  <2> QED BY <2>1, <2>2, Zenon
<1>3. CASE SameB(t)
  <2>1. Was
        BY <1>3, <1>i, Zenon DEF SameB, Untracked, Was
  <2>2. Good
        BY <1>3, <1>d, <1>c, Zenon DEF SameB, ReturnBool, Untracked, Good
  <2> QED BY <2>1, <2>2, Zenon
<1>4. CASE SameCheck(t)
  <2>1. Was
        BY <1>4, <1>i, Zenon DEF SameCheck, Untracked, Was
  <2>2. CASE parent[loc[t].a_r] = 0
        BY <1>4, <1>d, <2>1, <2>2, Zenon DEF SameCheck, ReturnBool, Good
  <2>3. CASE parent[loc[t].a_r] # 0
    <3> DEFINE m == [loc[t] EXCEPT !.a = loc[t].a_r, !.b = loc[t].f,
                                   !.x = loc[t].a_r, !.fret = "same_a"]
    <3>1. Assign(t, m) /\ Goto(t, "find") /\ m.fret = "same_a"
          BY <1>4, <1>h, <2>3, Zenon DEF SameCheck
    <3> HIDE DEF m
    <3> QED BY <3>1, <1>e, <2>1, Zenon DEF Good, Untracked
  <2> QED BY <2>2, <2>3, Zenon
<1>5. CASE PickA(t)
  <2>1. Was
        BY <1>5, <1>i, Zenon DEF PickA, Untracked, Was
  <2>2. Good
        BY <1>5, <1>c, <1>g, Zenon DEF PickA, Untracked, Good
  <2> QED BY <2>1, <2>2, Zenon
<1>6. CASE PickNext(t)
  <2>1. Was
        BY <1>6, <1>i, Zenon DEF PickNext, Untracked, Was
  <2>2. Good
        BY <1>6, <1>c, <1>f, Zenon DEF PickNext, Untracked, Good
  <2> QED BY <2>1, <2>2, Zenon
<1>7. CASE PickB(t)
  <2>1. Was
        BY <1>7, <1>i, Zenon DEF PickB, Untracked, Was
  <2>2. Good
        BY <1>7, <1>c, <1>g, Zenon DEF PickB, Untracked, Good
  <2> QED BY <2>1, <2>2, Zenon
<1>8. CASE PickC(t)
  <2>1. Was
        BY <1>8, <1>i, Zenon DEF PickC, Untracked, Was
  <2>2. Good
        BY <1>8, <1>c, Zenon DEF PickC, Untracked, Good
  <2> QED BY <2>1, <2>2, Zenon
<1>9. CASE PickWrite(t)
  <2>1. Was
        BY <1>9, <1>i, Zenon DEF PickWrite, Untracked, Was
  <2>2. Good
        BY <1>9, <1>c, Zenon DEF PickWrite, Untracked, Good
  <2> QED BY <2>1, <2>2, Zenon
<1>10. CASE MarkDead(t)
  <2>1. Was
        BY <1>10, <1>i, Zenon DEF MarkDead, Untracked, Was
  <2>2. Good
        BY <1>10, <1>c, Zenon DEF MarkDead, Untracked, Good
  <2> QED BY <2>1, <2>2, Zenon
<1>11. CASE MarkDeadCas(t)
  <2>1. Was
        BY <1>11, <1>i, Zenon DEF MarkDeadCas, Untracked, Was
  <2>2. Good
        BY <1>11, <1>c, Zenon DEF MarkDeadCas, Untracked, Good
  <2> QED BY <2>1, <2>2, Zenon
<1>12. CASE MarkDeadRoot(t)
  <2>1. Was
        BY <1>12, <1>i, Zenon DEF MarkDeadRoot, Untracked, Was
  <2>2. Good
        BY <1>12, <1>f, Zenon DEF MarkDeadRoot, Untracked, Good
  <2> QED BY <2>1, <2>2, Zenon
<1>13. CASE MarkDeadCheck(t)
  <2>1. Was
        BY <1>13, <1>i, Zenon DEF MarkDeadCheck, Untracked, Was
  <2>2. Good
        BY <1>13, <1>g, Zenon DEF MarkDeadCheck, Untracked, Good
  <2> QED BY <2>1, <2>2, Zenon
<1>14. CASE Picked(t)
  <2>1. Was
        BY <1>14, <1>i, Zenon DEF Picked, Untracked, Was
  <2>2. Good
        BY <1>14, <1>d, Zenon DEF Picked, ReturnCode, Untracked, Good
  <2> QED BY <2>1, <2>2, Zenon
<1>15. CASE RemoveRead(t)
  <2>1. Was
        BY <1>15, <1>i, Zenon DEF RemoveRead, Untracked, Was
  <2>2. Good
        BY <1>15, <1>d, <1>c, Zenon DEF RemoveRead, ReturnBool, Untracked, Good
  <2> QED BY <2>1, <2>2, Zenon
<1>16. CASE RemoveCas(t)
  <2>1. Was
        BY <1>16, <1>i, Zenon DEF RemoveCas, Untracked, Was
  <2>2. Good
        BY <1>16, <1>d, <1>c, Zenon DEF RemoveCas, ReturnBool, Untracked, Good
  <2> QED BY <2>1, <2>2, Zenon
<1>17. CASE UnionA(t)
  <2>1. Was
        BY <1>17, <1>i, Zenon DEF UnionA, Untracked, Was
  <2>2. Good
        BY <1>17, <1>e, <1>h, Zenon DEF UnionA, Untracked, Good
  <2> QED BY <2>1, <2>2, Zenon
<1>18. CASE UnionB(t)
  <2>1. Was
        BY <1>18, <1>i, Zenon DEF UnionB, Untracked, Was
  <2>2. Good
        BY <1>18, <1>d, <1>c, Zenon DEF UnionB, ReturnBool, Untracked, Good
  <2> QED BY <2>1, <2>2, Zenon
<1>19. CASE UnionLock(t)
  <2>1. Was
        BY <1>19, <1>i, Zenon DEF UnionLock, Untracked, Was
  <2>2. Good
        BY <1>19, <1>c, <1>f, Zenon DEF UnionLock, Untracked, Good
  <2> QED BY <2>1, <2>2, Zenon
<1>20. CASE UnionRoot(t)
  <2>1. Was
        BY <1>20, <1>i, Zenon DEF UnionRoot, Untracked, Was
  <2>2. Good
        BY <1>20, <1>c, Zenon DEF UnionRoot, Pick, Untracked, Good
  <2> QED BY <2>1, <2>2, Zenon
<1>21. CASE UnionRetry(t)
  <2>1. Was
        BY <1>21, <1>i, Zenon DEF UnionRetry, Untracked, Was
  <2>2. Good
        BY <1>21, <1>f, Zenon DEF UnionRetry, Untracked, Good
  <2> QED BY <2>1, <2>2, Zenon
<1>22. CASE UnionListA(t)
  <2>1. Was
        BY <1>22, <1>i, Zenon DEF UnionListA, Untracked, Was
  <2>2. Good
        BY <1>22, <1>c, Zenon DEF UnionListA, Untracked, Good
  <2> QED BY <2>1, <2>2, Zenon
<1>23. CASE UnionCasA(t)
  <2>1. Was
        BY <1>23, <1>i, Zenon DEF UnionCasA, Untracked, Was
  <2>2. Good
        BY <1>23, <1>c, Zenon DEF UnionCasA, Pick, Untracked, Good
  <2> QED BY <2>1, <2>2, Zenon
<1>24. CASE UnionListB(t)
  <2>1. Was
        BY <1>24, <1>i, Zenon DEF UnionListB, Untracked, Was
  <2>2. Good
        BY <1>24, <1>c, Zenon DEF UnionListB, Untracked, Good
  <2> QED BY <2>1, <2>2, Zenon
<1>25. CASE UnionCasB(t)
  <2>1. Was
        BY <1>25, <1>i, Zenon DEF UnionCasB, Untracked, Was
  <2>2. Good
        BY <1>25, <1>c, Zenon DEF UnionCasB, Pick, Untracked, Good
  <2> QED BY <2>1, <2>2, Zenon
<1>26. CASE UnionUnlist(t)
  <2>1. Was
        BY <1>26, <1>i, Zenon DEF UnionUnlist, Untracked, Was
  <2>2. Good
        BY <1>26, <1>c, Zenon DEF UnionUnlist, Untracked, Good
  <2> QED BY <2>1, <2>2, Zenon
<1>27. CASE UnionFail(t)
  <2>1. Was
        BY <1>27, <1>i, Zenon DEF UnionFail, Untracked, Was
  <2>2. Good
        BY <1>27, <1>d, Zenon DEF UnionFail, ReturnBool, Untracked, Good
  <2> QED BY <2>1, <2>2, Zenon
<1>28. CASE UnionSwap(t)
  <2>1. Was
        BY <1>28, <1>i, Zenon DEF UnionSwap, Untracked, Was
  <2>2. Good
        BY <1>28, <1>c, Zenon DEF UnionSwap, Untracked, Good
  <2> QED BY <2>1, <2>2, Zenon
<1>29. CASE UnionUnlistA(t)
  <2>1. Was
        BY <1>29, <1>i, Zenon DEF UnionUnlistA, Untracked, Was
  <2>2. Good
        BY <1>29, <1>c, Zenon DEF UnionUnlistA, Untracked, Good
  <2> QED BY <2>1, <2>2, Zenon
<1>30. CASE UnionUnlistB(t)
  <2>1. Was
        BY <1>30, <1>i, Zenon DEF UnionUnlistB, Untracked, Was
  <2>2. Good
        BY <1>30, <1>c, Zenon DEF UnionUnlistB, Untracked, Good
  <2> QED BY <2>1, <2>2, Zenon
<1>31. CASE UnionUnlock(t)
  <2>1. Was
        BY <1>31, <1>i, Zenon DEF UnionUnlock, Untracked, Was
  <2>2. Good
        BY <1>31, <1>d, Zenon DEF UnionUnlock, ReturnBool, Untracked, Good
  <2> QED BY <2>1, <2>2, Zenon
<1> QED BY Zenon, <1>1, <1>2, <1>3, <1>4, <1>5, <1>6, <1>7, <1>8, <1>9, <1>10, <1>11, <1>12,
        <1>13, <1>14, <1>15, <1>16, <1>17, <1>18, <1>19, <1>20, <1>21, <1>22,
        <1>23, <1>24, <1>25, <1>26, <1>27, <1>28, <1>29, <1>30, <1>31 DEF UFStep, PassStep

-----------------------------------------------------------------------------
(* One step of the thread that carries                                     *)

\* From carrying c from n, with bits S, a thread comes to carrying d from o,
\* with bits T: it has carried nothing, or goes on, or stops because what it
\* carries is at a root or at a higher state, or writes it.
PassMove(g, S, T, n, c, o, d) ==
    \/ T = S /\ c = {}
    \/ T = S /\ c \subseteq d /\ Same(g, n, o) /\ n <= o
    \/ /\ T = S
       /\ \E s \in State : c \subseteq S[s] /\ Same(g, n, s) /\ (g[s] = s \/ n < s)
    \/ /\ o \in State /\ T = [S EXCEPT ![o] = @ \cup d]
       /\ \/ c = {}
          \/ c \subseteq d /\ Same(g, n, o) /\ n <= o

MarkMove(g, as, AS, p, l, q, m) ==
    PassMove(g, as, AS, MarkNode(Outer(p, l), l), MarkCargo(as, Outer(p, l), l),
             MarkNode(Outer(q, m), m), MarkCargo(AS, Outer(q, m), m))

WorkerMove(t, g, ps, PS, p, l, q, m) ==
    PassMove(g, ps, PS,
             WorkerNode(Outer(p, l), l), WorkerCargo(ps, t, Outer(p, l), l),
             WorkerNode(Outer(q, m), m), WorkerCargo(PS, t, Outer(q, m), m))

\* When uf_make_claim or uf_add_acc returns, the worker or the marks are at a
\* state of the set.
HandsIn(t, g, PS, AS, p, l, q, m) ==
    /\ Outer(p, l) \in ClaimOp =>
          IF q = "ready"
          THEN \/ m.code = "CLAIM_DEAD"
               \/ \E y \in State : Same(g, l.a, y) /\ t \in PS[y]
          ELSE Outer(q, m) \in ClaimOp /\ m.a = l.a
    /\ Outer(p, l) \in AccOp =>
          IF q = "ready"
          THEN \E y \in State : Same(g, l.a, y) /\ l.bits \subseteq AS[y]
          ELSE Outer(q, m) \in AccOp /\ m.a = l.a

\* A step from p and l to q and m, with the workers ps and marks as becoming PS
\* and AS.
Handles(t, g, k, ps, as, PS, AS, p, l, q, m) ==
    /\ Tracks(t, g, k, PS, AS, q, m)
    /\ MarkMove(g, as, AS, p, l, q, m)
    /\ WorkerMove(t, g, ps, PS, p, l, q, m)
    /\ HandsIn(t, g, PS, AS, p, l, q, m)


LEMMA AccCargo ==
    ASSUME NEW S, NEW l, NEW w \in AccOp
    PROVE  /\ MarkNode(w, l) = l.r
           /\ MarkCargo(S, w, l) = (IF l.r # 0 THEN l.bits ELSE {})
    BY Zenon DEF MarkNode, MarkCargo, AccOp

\* uf_union reads the marks of r.
LEMMA HandAccR ==
    ASSUME NEW t \in Thread, NEW g, NEW k, NEW ps, NEW as, NEW l \in Local,
           Tracks(t, g, k, ps, as, "union_acc_r", l), NEW m,
           m = [l EXCEPT !.seen = as[l.r]]
    PROVE  Handles(t, g, k, ps, as, ps, as, "union_acc_r", l, "union_acc_q", m)
<1>2. m.q = l.q /\ m.r = l.r /\ m.seen = as[l.r]
      BY Zenon DEF Local
<1>1. /\ Outer("union_acc_r", l) = "union_acc_r"
      /\ Outer("union_acc_q", m) = "union_acc_q"
      BY Zenon, <1>2 DEF Outer, InFind
<1>3. /\ Same(g, l.q, l.r)
      /\ l.q < l.r
      BY Zenon, <1>1 DEF Tracks, From, UnionPasses, ClaimOp, AccOp, FromFind, InFind
<1>i. \A x \in State : x \in Int /\ x # 0 /\ x <= x
      BY NAssumption DEF State
<1>4. Tracks(t, g, k, ps, as, "union_acc_q", m)
      BY Zenon, <1>1, <1>2, <1>3 DEF Tracks, From, UnionPasses, ClaimOp, AccOp, FromFind, InFind
<1>5. /\ MarkNode("union_acc_r", l) = l.q
      /\ MarkCargo(as, "union_acc_r", l) = as[l.q]
      /\ MarkNode("union_acc_q", m) = m.q
      /\ MarkCargo(as, "union_acc_q", m) = as[m.q]
      BY Zenon DEF MarkNode, MarkCargo, UnionPasses, AccOp
<1>v. /\ WorkerNode("union_acc_r", l) = l.q
      /\ WorkerCargo(ps, t, "union_acc_r", l) = ps[l.q]
      /\ WorkerNode("union_acc_q", m) = m.q
      /\ WorkerCargo(ps, t, "union_acc_q", m) = ps[m.q]
      BY Zenon DEF WorkerNode, WorkerRead, WorkerCargo, UnionPasses
<1>6. MarkMove(g, as, as, "union_acc_r", l, "union_acc_q", m)
  <2>1. as[l.q] \subseteq as[m.q] /\ Same(g, l.q, m.q) /\ l.q <= m.q
        BY <1>2, <1>3, <1>i, Zenon DEF Same
  <2>2. PassMove(g, as, as, l.q, as[l.q], m.q, as[m.q])
        BY <2>1, Zenon DEF PassMove
  <2> QED BY <2>1, <2>2, <1>1, <1>5, Zenon DEF MarkMove
<1>7. WorkerMove(t, g, ps, ps, "union_acc_r", l, "union_acc_q", m)
  <2>1. ps[l.q] \subseteq ps[m.q] /\ Same(g, l.q, m.q) /\ l.q <= m.q
        BY <1>2, <1>3, <1>i, Zenon DEF Same
  <2>2. PassMove(g, ps, ps, l.q, ps[l.q], m.q, ps[m.q])
        BY <2>1, Zenon DEF PassMove
  <2> QED BY <2>1, <2>2, <1>1, <1>v, Zenon DEF WorkerMove
<1>8. HandsIn(t, g, ps, as, "union_acc_r", l, "union_acc_q", m)
      BY Zenon, <1>1, <1>2, <1>3 DEF HandsIn, UnionPasses, ClaimOp, AccOp
<1> QED BY <1>4, <1>6, <1>7, <1>8, Zenon DEF Handles

\* It sees the marks of q at r.
LEMMA HandAccQ ==
    ASSUME NEW t \in Thread, NEW g, NEW k, NEW ps, NEW as, NEW l \in Local,
           Tracks(t, g, k, ps, as, "union_acc_q", l),
           as[l.q] \subseteq l.seen, NEW m, m = [l EXCEPT !.bits = as[l.q]]
    PROVE  Handles(t, g, k, ps, as, ps, as, "union_acc_q", l, "union_set_q", m)
<1>2. m.q = l.q /\ m.r = l.r /\ m.bits = as[l.q]
      BY Zenon DEF Local
<1>1. /\ Outer("union_acc_q", l) = "union_acc_q"
      /\ Outer("union_set_q", m) = "union_set_q"
      BY Zenon, <1>2 DEF Outer, InFind
<1>3. /\ Same(g, l.q, l.r)
      /\ l.q < l.r
      /\ l.seen \subseteq as[l.r]
      BY Zenon, <1>1 DEF Tracks, From, UnionPasses, ClaimOp, AccOp, FromFind, InFind
<1>i. \A x \in State : x \in Int /\ x # 0 /\ x <= x
      BY NAssumption DEF State
<1>n. /\ as[l.q] \subseteq as[l.r]
      /\ l.r \in State
      BY <1>2, <1>3, <1>i, Zenon DEF Same
<1>4. Tracks(t, g, k, ps, as, "union_set_q", m)
      BY Zenon, <1>1, <1>2, <1>3, <1>n DEF Tracks, From, UnionPasses, ClaimOp, AccOp, FromFind, InFind
<1>5. /\ MarkNode("union_acc_q", l) = l.q
      /\ MarkCargo(as, "union_acc_q", l) = as[l.q]
      /\ MarkCargo(as, "union_set_q", m) = {}
      BY Zenon DEF MarkNode, MarkCargo, UnionPasses, AccOp
<1>v. /\ WorkerNode("union_acc_q", l) = l.q
      /\ WorkerCargo(ps, t, "union_acc_q", l) = ps[l.q]
      /\ WorkerNode("union_set_q", m) = m.q
      /\ WorkerCargo(ps, t, "union_set_q", m) = ps[m.q]
      BY Zenon DEF WorkerNode, WorkerRead, WorkerCargo, UnionPasses
<1>6. MarkMove(g, as, as, "union_acc_q", l, "union_set_q", m)
  <2>1. /\ l.r \in State
        /\ as[l.q] \subseteq as[l.r] /\ Same(g, l.q, l.r)
        /\ g[l.r] = l.r \/ l.q < l.r
        BY <1>2, <1>3, <1>n, <1>i, Zenon DEF Same
  <2>2. PassMove(g, as, as, l.q, as[l.q], MarkNode("union_set_q", m), {})
        BY <2>1, Zenon DEF PassMove
  <2> QED BY <2>1, <2>2, <1>1, <1>5, Zenon DEF MarkMove
<1>7. WorkerMove(t, g, ps, ps, "union_acc_q", l, "union_set_q", m)
  <2>1. ps[l.q] \subseteq ps[m.q] /\ Same(g, l.q, m.q) /\ l.q <= m.q
        BY <1>2, <1>3, <1>n, <1>i, Zenon DEF Same
  <2>2. PassMove(g, ps, ps, l.q, ps[l.q], m.q, ps[m.q])
        BY <2>1, Zenon DEF PassMove
  <2> QED BY <2>1, <2>2, <1>1, <1>v, Zenon DEF WorkerMove
<1>8. HandsIn(t, g, ps, as, "union_acc_q", l, "union_set_q", m)
      BY Zenon, <1>1, <1>2, <1>3, <1>n DEF HandsIn, UnionPasses, ClaimOp, AccOp
<1> QED BY <1>4, <1>6, <1>7, <1>8, Zenon DEF Handles

\* It has marks of q to write at r.
LEMMA HandAccQOn ==
    ASSUME NEW t \in Thread, NEW g, NEW k, NEW ps, NEW as, NEW l \in Local,
           Tracks(t, g, k, ps, as, "union_acc_q", l), NEW m,
           m = [l EXCEPT !.bits = as[l.q]]
    PROVE  Handles(t, g, k, ps, as, ps, as, "union_acc_q", l, "union_or_acc", m)
<1>2. m.q = l.q /\ m.r = l.r /\ m.bits = as[l.q]
      BY Zenon DEF Local
<1>1. /\ Outer("union_acc_q", l) = "union_acc_q"
      /\ Outer("union_or_acc", m) = "union_or_acc"
      BY Zenon, <1>2 DEF Outer, InFind
<1>3. /\ Same(g, l.q, l.r)
      /\ l.q < l.r
      BY Zenon, <1>1 DEF Tracks, From, UnionPasses, ClaimOp, AccOp, FromFind, InFind
<1>i. \A x \in State : x \in Int /\ x # 0 /\ x <= x
      BY NAssumption DEF State
<1>4. Tracks(t, g, k, ps, as, "union_or_acc", m)
      BY Zenon, <1>1, <1>2, <1>3 DEF Tracks, From, UnionPasses, ClaimOp, AccOp, FromFind, InFind
<1>5. /\ MarkNode("union_acc_q", l) = l.q
      /\ MarkCargo(as, "union_acc_q", l) = as[l.q]
      /\ MarkNode("union_or_acc", m) = m.q
      /\ MarkCargo(as, "union_or_acc", m) = m.bits
      BY Zenon DEF MarkNode, MarkCargo, UnionPasses, AccOp
<1>v. /\ WorkerNode("union_acc_q", l) = l.q
      /\ WorkerCargo(ps, t, "union_acc_q", l) = ps[l.q]
      /\ WorkerNode("union_or_acc", m) = m.q
      /\ WorkerCargo(ps, t, "union_or_acc", m) = ps[m.q]
      BY Zenon DEF WorkerNode, WorkerRead, WorkerCargo, UnionPasses
<1>6. MarkMove(g, as, as, "union_acc_q", l, "union_or_acc", m)
  <2>1. as[l.q] \subseteq m.bits /\ Same(g, l.q, m.q) /\ l.q <= m.q
        BY <1>2, <1>3, <1>i, Zenon DEF Same
  <2>2. PassMove(g, as, as, l.q, as[l.q], m.q, m.bits)
        BY <2>1, Zenon DEF PassMove
  <2> QED BY <2>1, <2>2, <1>1, <1>5, Zenon DEF MarkMove
<1>7. WorkerMove(t, g, ps, ps, "union_acc_q", l, "union_or_acc", m)
  <2>1. ps[l.q] \subseteq ps[m.q] /\ Same(g, l.q, m.q) /\ l.q <= m.q
        BY <1>2, <1>3, <1>i, Zenon DEF Same
  <2>2. PassMove(g, ps, ps, l.q, ps[l.q], m.q, ps[m.q])
        BY <2>1, Zenon DEF PassMove
  <2> QED BY <2>1, <2>2, <1>1, <1>v, Zenon DEF WorkerMove
<1>8. HandsIn(t, g, ps, as, "union_acc_q", l, "union_or_acc", m)
      BY Zenon, <1>1, <1>2, <1>3 DEF HandsIn, UnionPasses, ClaimOp, AccOp
<1> QED BY <1>4, <1>6, <1>7, <1>8, Zenon DEF Handles

\* It writes them at r.
LEMMA HandOrAcc ==
    ASSUME NEW t \in Thread, NEW g, NEW k, NEW ps, NEW as, NEW l \in Local,
           Tracks(t, g, k, ps, as, "union_or_acc", l), NEW AS,
           AS = [as EXCEPT ![l.r] = @ \cup l.bits], DOMAIN as = State, NEW m,
           m = l
    PROVE  Handles(t, g, k, ps, as, ps, AS, "union_or_acc", l, "union_up_acc", m)
<1>1. /\ Outer("union_or_acc", l) = "union_or_acc"
      /\ Outer("union_up_acc", m) = "union_up_acc"
      BY Zenon DEF Outer, InFind
<1>3. /\ Same(g, l.q, l.r)
      /\ l.q < l.r
      BY Zenon, <1>1 DEF Tracks, From, UnionPasses, ClaimOp, AccOp, FromFind, InFind
<1>i. \A x \in State : x \in Int /\ x # 0 /\ x <= x
      BY NAssumption DEF State
<1>n. /\ l.r \in State
      /\ l.q <= l.r
      BY <1>3, <1>i DEF Same
<1>w. l.bits \subseteq AS[l.r]
  <2>1. AS[l.r] = as[l.r] \cup l.bits
        BY <1>n, Zenon
  <2> QED BY <2>1, Zenon
<1>4. Tracks(t, g, k, ps, AS, "union_up_acc", m)
      BY Zenon, <1>1, <1>3, <1>n, <1>w DEF Tracks, From, UnionPasses, ClaimOp, AccOp, FromFind, InFind
<1>5. /\ MarkNode("union_or_acc", l) = l.q
      /\ MarkCargo(as, "union_or_acc", l) = l.bits
      /\ MarkNode("union_up_acc", m) = m.r
      /\ MarkCargo(AS, "union_up_acc", m) = m.bits
      BY Zenon DEF MarkNode, MarkCargo, UnionPasses, AccOp
<1>v. /\ WorkerNode("union_or_acc", l) = l.q
      /\ WorkerCargo(ps, t, "union_or_acc", l) = ps[l.q]
      /\ WorkerNode("union_up_acc", m) = m.q
      /\ WorkerCargo(ps, t, "union_up_acc", m) = ps[m.q]
      BY Zenon DEF WorkerNode, WorkerRead, WorkerCargo, UnionPasses
<1>6. MarkMove(g, as, AS, "union_or_acc", l, "union_up_acc", m)
  <2>1. /\ m.r \in State
        /\ AS = [as EXCEPT ![m.r] = @ \cup m.bits]
        /\ l.bits \subseteq m.bits /\ Same(g, l.q, m.r) /\ l.q <= m.r
        BY <1>3, <1>n, <1>w, <1>i, Zenon DEF Same
  <2>2. PassMove(g, as, AS, l.q, l.bits, m.r, m.bits)
        BY <2>1, Zenon DEF PassMove
  <2> QED BY <2>1, <2>2, <1>1, <1>5, Zenon DEF MarkMove
<1>7. WorkerMove(t, g, ps, ps, "union_or_acc", l, "union_up_acc", m)
  <2>1. ps[l.q] \subseteq ps[m.q] /\ Same(g, l.q, m.q) /\ l.q <= m.q
        BY <1>3, <1>n, <1>w, <1>i, Zenon DEF Same
  <2>2. PassMove(g, ps, ps, l.q, ps[l.q], m.q, ps[m.q])
        BY <2>1, Zenon DEF PassMove
  <2> QED BY <2>1, <2>2, <1>1, <1>v, Zenon DEF WorkerMove
<1>8. HandsIn(t, g, ps, AS, "union_or_acc", l, "union_up_acc", m)
      BY Zenon, <1>1, <1>3, <1>n, <1>w DEF HandsIn, UnionPasses, ClaimOp, AccOp
<1> QED BY <1>4, <1>6, <1>7, <1>8, Zenon DEF Handles

\* r is a root.
LEMMA HandUpAcc ==
    ASSUME NEW t \in Thread, NEW g, NEW k, NEW ps, NEW as, NEW l \in Local,
           Tracks(t, g, k, ps, as, "union_up_acc", l),
           l.r \in State => g[l.r] = l.r, NEW m, m = l
    PROVE  Handles(t, g, k, ps, as, ps, as, "union_up_acc", l, "union_set_q", m)
<1>1. /\ Outer("union_up_acc", l) = "union_up_acc"
      /\ Outer("union_set_q", m) = "union_set_q"
      BY Zenon DEF Outer, InFind
<1>3. /\ Same(g, l.q, l.r)
      /\ l.q < l.r
      /\ l.bits \subseteq as[l.r]
      /\ m = l
      BY Zenon, <1>1 DEF Tracks, From, UnionPasses, ClaimOp, AccOp, FromFind, InFind
<1>i. \A x \in State : x \in Int /\ x # 0 /\ x <= x
      BY NAssumption DEF State
<1>4. Tracks(t, g, k, ps, as, "union_set_q", m)
      BY Zenon, <1>1, <1>3 DEF Tracks, From, UnionPasses, ClaimOp, AccOp, FromFind, InFind
<1>5. /\ MarkNode("union_up_acc", l) = l.r
      /\ MarkCargo(as, "union_up_acc", l) = l.bits
      /\ MarkCargo(as, "union_set_q", m) = {}
      BY Zenon DEF MarkNode, MarkCargo, UnionPasses, AccOp
<1>v. /\ WorkerNode("union_up_acc", l) = l.q
      /\ WorkerCargo(ps, t, "union_up_acc", l) = ps[l.q]
      /\ WorkerNode("union_set_q", m) = m.q
      /\ WorkerCargo(ps, t, "union_set_q", m) = ps[m.q]
      BY Zenon DEF WorkerNode, WorkerRead, WorkerCargo, UnionPasses
<1>6. MarkMove(g, as, as, "union_up_acc", l, "union_set_q", m)
  <2>1. /\ l.r \in State
        /\ l.bits \subseteq as[l.r] /\ Same(g, l.r, l.r)
        /\ g[l.r] = l.r \/ l.r < l.r
        BY <1>3, <1>i, Zenon DEF Same
  <2>2. PassMove(g, as, as, l.r, l.bits, MarkNode("union_set_q", m), {})
        BY <2>1, Zenon DEF PassMove
  <2> QED BY <2>1, <2>2, <1>1, <1>5, Zenon DEF MarkMove
<1>7. WorkerMove(t, g, ps, ps, "union_up_acc", l, "union_set_q", m)
  <2>1. ps[l.q] \subseteq ps[m.q] /\ Same(g, l.q, m.q) /\ l.q <= m.q
        BY <1>3, <1>i, Zenon DEF Same
  <2>2. PassMove(g, ps, ps, l.q, ps[l.q], m.q, ps[m.q])
        BY <2>1, Zenon DEF PassMove
  <2> QED BY <2>1, <2>2, <1>1, <1>v, Zenon DEF WorkerMove
<1>8. HandsIn(t, g, ps, as, "union_up_acc", l, "union_set_q", m)
      BY Zenon, <1>1, <1>3 DEF HandsIn, UnionPasses, ClaimOp, AccOp
<1> QED BY <1>4, <1>6, <1>7, <1>8, Zenon DEF Handles

\* r has got a parent.
LEMMA HandUpAccOn ==
    ASSUME NEW t \in Thread, NEW g, NEW k, NEW ps, NEW as, NEW l \in Local,
           Tracks(t, g, k, ps, as, "union_up_acc", l), NEW m,
           m = [l EXCEPT !.x = l.r, !.fret = "union_acc"]
    PROVE  Handles(t, g, k, ps, as, ps, as, "union_up_acc", l, "find", m)
<1>2. /\ m.q = l.q /\ m.r = l.r /\ m.bits = l.bits /\ m.x = l.r
      /\ m.fret = "union_acc"
      BY Zenon DEF Local
<1>1. /\ Outer("union_up_acc", l) = "union_up_acc"
      /\ Outer("find", m) = "union_acc"
      BY Zenon, <1>2 DEF Outer, InFind
<1>3. /\ Same(g, l.q, l.r)
      /\ l.q < l.r
      /\ l.bits \subseteq as[l.r]
      BY Zenon, <1>1 DEF Tracks, From, UnionPasses, ClaimOp, AccOp, FromFind, InFind
<1>i. \A x \in State : x \in Int /\ x # 0 /\ x <= x
      BY NAssumption DEF State
<1>n. Same(g, l.r, l.r)
      BY <1>2, <1>3, <1>i, Zenon DEF Same
<1>4. Tracks(t, g, k, ps, as, "find", m)
      BY Zenon, <1>1, <1>2, <1>3, <1>n DEF Tracks, From, UnionPasses, ClaimOp, AccOp, FromFind, InFind
<1>5. /\ MarkNode("union_up_acc", l) = l.r
      /\ MarkCargo(as, "union_up_acc", l) = l.bits
      /\ MarkNode("union_acc", m) = m.r
      /\ MarkCargo(as, "union_acc", m) = m.bits
      BY Zenon DEF MarkNode, MarkCargo, UnionPasses, AccOp
<1>v. /\ WorkerNode("union_up_acc", l) = l.q
      /\ WorkerCargo(ps, t, "union_up_acc", l) = ps[l.q]
      /\ WorkerNode("union_acc", m) = m.q
      /\ WorkerCargo(ps, t, "union_acc", m) = ps[m.q]
      BY Zenon DEF WorkerNode, WorkerRead, WorkerCargo, UnionPasses
<1>6. MarkMove(g, as, as, "union_up_acc", l, "find", m)
  <2>1. l.bits \subseteq m.bits /\ Same(g, l.r, m.r) /\ l.r <= m.r
        BY <1>2, <1>3, <1>n, <1>i, Zenon DEF Same
  <2>2. PassMove(g, as, as, l.r, l.bits, m.r, m.bits)
        BY <2>1, Zenon DEF PassMove
  <2> QED BY <2>1, <2>2, <1>1, <1>5, Zenon DEF MarkMove
<1>7. WorkerMove(t, g, ps, ps, "union_up_acc", l, "find", m)
  <2>1. ps[l.q] \subseteq ps[m.q] /\ Same(g, l.q, m.q) /\ l.q <= m.q
        BY <1>2, <1>3, <1>n, <1>i, Zenon DEF Same
  <2>2. PassMove(g, ps, ps, l.q, ps[l.q], m.q, ps[m.q])
        BY <2>1, Zenon DEF PassMove
  <2> QED BY <2>1, <2>2, <1>1, <1>v, Zenon DEF WorkerMove
<1>8. HandsIn(t, g, ps, as, "union_up_acc", l, "find", m)
      BY Zenon, <1>1, <1>2, <1>3, <1>n DEF HandsIn, UnionPasses, ClaimOp, AccOp
<1> QED BY <1>4, <1>6, <1>7, <1>8, Zenon DEF Handles

\* The marks go to the root.
LEMMA HandAcc ==
    ASSUME NEW t \in Thread, NEW g, NEW k, NEW ps, NEW as, NEW l \in Local,
           Tracks(t, g, k, ps, as, "union_acc", l), NEW AS,
           AS = [as EXCEPT ![l.f] = @ \cup l.bits], DOMAIN as = State, NEW m,
           m = [l EXCEPT !.r = l.f]
    PROVE  Handles(t, g, k, ps, as, ps, AS, "union_acc", l, "union_up_acc", m)
<1>2. m.q = l.q /\ m.bits = l.bits /\ m.r = l.f
      BY Zenon DEF Local
<1>1. /\ Outer("union_acc", l) = "union_acc"
      /\ Outer("union_up_acc", m) = "union_up_acc"
      BY Zenon, <1>2 DEF Outer, InFind
<1>3. /\ Same(g, l.q, l.r)
      /\ l.q < l.r
      /\ Same(g, l.r, l.f)
      /\ l.r <= l.f
      BY Zenon, <1>1 DEF Tracks, From, UnionPasses, ClaimOp, AccOp, FromFind, InFind
<1>i. \A x \in State : x \in Int /\ x # 0 /\ x <= x
      BY NAssumption DEF State
<1>n. /\ l.f \in State /\ Same(g, l.q, l.f)
      /\ l.q < l.f
      BY <1>2, <1>3, <1>i DEF Same
<1>w. l.bits \subseteq AS[l.f]
  <2>1. AS[l.f] = as[l.f] \cup l.bits
        BY <1>n, Zenon
  <2> QED BY <2>1, Zenon
<1>4. Tracks(t, g, k, ps, AS, "union_up_acc", m)
      BY Zenon, <1>1, <1>2, <1>3, <1>n, <1>w DEF Tracks, From, UnionPasses, ClaimOp, AccOp, FromFind, InFind
<1>5. /\ MarkNode("union_acc", l) = l.r
      /\ MarkCargo(as, "union_acc", l) = l.bits
      /\ MarkNode("union_up_acc", m) = m.r
      /\ MarkCargo(AS, "union_up_acc", m) = m.bits
      BY Zenon DEF MarkNode, MarkCargo, UnionPasses, AccOp
<1>v. /\ WorkerNode("union_acc", l) = l.q
      /\ WorkerCargo(ps, t, "union_acc", l) = ps[l.q]
      /\ WorkerNode("union_up_acc", m) = m.q
      /\ WorkerCargo(ps, t, "union_up_acc", m) = ps[m.q]
      BY Zenon DEF WorkerNode, WorkerRead, WorkerCargo, UnionPasses
<1>6. MarkMove(g, as, AS, "union_acc", l, "union_up_acc", m)
  <2>1. /\ m.r \in State
        /\ AS = [as EXCEPT ![m.r] = @ \cup m.bits]
        /\ l.bits \subseteq m.bits /\ Same(g, l.r, m.r) /\ l.r <= m.r
        BY <1>2, <1>3, <1>n, <1>w, <1>i, Zenon DEF Same
  <2>2. PassMove(g, as, AS, l.r, l.bits, m.r, m.bits)
        BY <2>1, Zenon DEF PassMove
  <2> QED BY <2>1, <2>2, <1>1, <1>5, Zenon DEF MarkMove
<1>7. WorkerMove(t, g, ps, ps, "union_acc", l, "union_up_acc", m)
  <2>1. ps[l.q] \subseteq ps[m.q] /\ Same(g, l.q, m.q) /\ l.q <= m.q
        BY <1>2, <1>3, <1>n, <1>w, <1>i, Zenon DEF Same
  <2>2. PassMove(g, ps, ps, l.q, ps[l.q], m.q, ps[m.q])
        BY <2>1, Zenon DEF PassMove
  <2> QED BY <2>1, <2>2, <1>1, <1>v, Zenon DEF WorkerMove
<1>8. HandsIn(t, g, ps, AS, "union_acc", l, "union_up_acc", m)
      BY Zenon, <1>1, <1>2, <1>3, <1>n, <1>w DEF HandsIn, UnionPasses, ClaimOp, AccOp
<1> QED BY <1>4, <1>6, <1>7, <1>8, Zenon DEF Handles

\* uf_union reads the workers of q.
LEMMA HandSetQ ==
    ASSUME NEW t \in Thread, NEW g, NEW k, NEW ps, NEW as, NEW l \in Local,
           Tracks(t, g, k, ps, as, "union_set_q", l), NEW m,
           m = [l EXCEPT !.bits = ps[l.q]]
    PROVE  Handles(t, g, k, ps, as, ps, as, "union_set_q", l, "union_set_r", m)
<1>2. m.q = l.q /\ m.r = l.r /\ m.bits = ps[l.q]
      BY Zenon DEF Local
<1>1. /\ Outer("union_set_q", l) = "union_set_q"
      /\ Outer("union_set_r", m) = "union_set_r"
      BY Zenon, <1>2 DEF Outer, InFind
<1>3. /\ Same(g, l.q, l.r)
      /\ l.q < l.r
      BY Zenon, <1>1 DEF Tracks, From, UnionPasses, ClaimOp, AccOp, FromFind, InFind
<1>i. \A x \in State : x \in Int /\ x # 0 /\ x <= x
      BY NAssumption DEF State
<1>4. Tracks(t, g, k, ps, as, "union_set_r", m)
      BY Zenon, <1>1, <1>2, <1>3 DEF Tracks, From, UnionPasses, ClaimOp, AccOp, FromFind, InFind
<1>5. /\ MarkCargo(as, "union_set_q", l) = {}
      /\ MarkCargo(as, "union_set_r", m) = {}
      BY Zenon DEF MarkNode, MarkCargo, UnionPasses, AccOp
<1>v. /\ WorkerNode("union_set_q", l) = l.q
      /\ WorkerCargo(ps, t, "union_set_q", l) = ps[l.q]
      /\ WorkerNode("union_set_r", m) = m.q
      /\ WorkerCargo(ps, t, "union_set_r", m) = m.bits
      BY Zenon DEF WorkerNode, WorkerRead, WorkerCargo, UnionPasses
<1>6. MarkMove(g, as, as, "union_set_q", l, "union_set_r", m)
      BY <1>1, <1>5, Zenon DEF MarkMove, PassMove
<1>7. WorkerMove(t, g, ps, ps, "union_set_q", l, "union_set_r", m)
  <2>1. ps[l.q] \subseteq m.bits /\ Same(g, l.q, m.q) /\ l.q <= m.q
        BY <1>2, <1>3, <1>i, Zenon DEF Same
  <2>2. PassMove(g, ps, ps, l.q, ps[l.q], m.q, m.bits)
        BY <2>1, Zenon DEF PassMove
  <2> QED BY <2>1, <2>2, <1>1, <1>v, Zenon DEF WorkerMove
<1>8. HandsIn(t, g, ps, as, "union_set_q", l, "union_set_r", m)
      BY Zenon, <1>1, <1>2, <1>3 DEF HandsIn, UnionPasses, ClaimOp, AccOp
<1> QED BY <1>4, <1>6, <1>7, <1>8, Zenon DEF Handles

\* It sees them at r.
LEMMA HandSetR ==
    ASSUME NEW t \in Thread, NEW g, NEW k, NEW ps, NEW as, NEW l \in Local,
           Tracks(t, g, k, ps, as, "union_set_r", l),
           l.bits \subseteq ps[l.r], NEW m, m = l
    PROVE  Handles(t, g, k, ps, as, ps, as, "union_set_r", l, "union_unlist_a", m)
<1>1. /\ Outer("union_set_r", l) = "union_set_r"
      /\ Outer("union_unlist_a", m) = "union_unlist_a"
      BY Zenon DEF Outer, InFind
<1>3. /\ Same(g, l.q, l.r)
      /\ l.q < l.r
      /\ m = l
      BY Zenon, <1>1 DEF Tracks, From, UnionPasses, ClaimOp, AccOp, FromFind, InFind
<1>i. \A x \in State : x \in Int /\ x # 0 /\ x <= x
      BY NAssumption DEF State
<1>n. l.r \in State
      BY <1>3, <1>i, Zenon DEF Same
<1>4. Tracks(t, g, k, ps, as, "union_unlist_a", m)
      BY Zenon, <1>1, <1>3, <1>n DEF Tracks, From, UnionPasses, ClaimOp, AccOp, FromFind, InFind
<1>5. /\ MarkCargo(as, "union_set_r", l) = {}
      /\ MarkCargo(as, "union_unlist_a", m) = {}
      BY Zenon DEF MarkNode, MarkCargo, UnionPasses, AccOp
<1>v. /\ WorkerNode("union_set_r", l) = l.q
      /\ WorkerCargo(ps, t, "union_set_r", l) = l.bits
      /\ WorkerCargo(ps, t, "union_unlist_a", m) = {}
      BY Zenon DEF WorkerNode, WorkerRead, WorkerCargo, UnionPasses
<1>6. MarkMove(g, as, as, "union_set_r", l, "union_unlist_a", m)
      BY <1>1, <1>5, Zenon DEF MarkMove, PassMove
<1>7. WorkerMove(t, g, ps, ps, "union_set_r", l, "union_unlist_a", m)
  <2>1. /\ l.r \in State
        /\ l.bits \subseteq ps[l.r] /\ Same(g, l.q, l.r)
        /\ g[l.r] = l.r \/ l.q < l.r
        BY <1>3, <1>n, <1>i, Zenon DEF Same
  <2>2. PassMove(g, ps, ps, l.q, l.bits, WorkerNode("union_unlist_a", m), {})
        BY <2>1, Zenon DEF PassMove
  <2> QED BY <2>1, <2>2, <1>1, <1>v, Zenon DEF WorkerMove
<1>8. HandsIn(t, g, ps, as, "union_set_r", l, "union_unlist_a", m)
      BY Zenon, <1>1, <1>3, <1>n DEF HandsIn, UnionPasses, ClaimOp, AccOp
<1> QED BY <1>4, <1>6, <1>7, <1>8, Zenon DEF Handles

\* It has workers to write at r.
LEMMA HandSetROn ==
    ASSUME NEW t \in Thread, NEW g, NEW k, NEW ps, NEW as, NEW l \in Local,
           Tracks(t, g, k, ps, as, "union_set_r", l), NEW m, m = l
    PROVE  Handles(t, g, k, ps, as, ps, as, "union_set_r", l, "union_or_set", m)
<1>1. /\ Outer("union_set_r", l) = "union_set_r"
      /\ Outer("union_or_set", m) = "union_or_set"
      BY Zenon DEF Outer, InFind
<1>3. /\ Same(g, l.q, l.r)
      /\ l.q < l.r
      /\ m = l
      BY Zenon, <1>1 DEF Tracks, From, UnionPasses, ClaimOp, AccOp, FromFind, InFind
<1>i. \A x \in State : x \in Int /\ x # 0 /\ x <= x
      BY NAssumption DEF State
<1>4. Tracks(t, g, k, ps, as, "union_or_set", m)
      BY Zenon, <1>1, <1>3 DEF Tracks, From, UnionPasses, ClaimOp, AccOp, FromFind, InFind
<1>5. /\ MarkCargo(as, "union_set_r", l) = {}
      /\ MarkCargo(as, "union_or_set", m) = {}
      BY Zenon DEF MarkNode, MarkCargo, UnionPasses, AccOp
<1>v. /\ WorkerNode("union_set_r", l) = l.q
      /\ WorkerCargo(ps, t, "union_set_r", l) = l.bits
      /\ WorkerNode("union_or_set", m) = m.q
      /\ WorkerCargo(ps, t, "union_or_set", m) = m.bits
      BY Zenon DEF WorkerNode, WorkerRead, WorkerCargo, UnionPasses
<1>6. MarkMove(g, as, as, "union_set_r", l, "union_or_set", m)
      BY <1>1, <1>5, Zenon DEF MarkMove, PassMove
<1>7. WorkerMove(t, g, ps, ps, "union_set_r", l, "union_or_set", m)
  <2>1. l.bits \subseteq m.bits /\ Same(g, l.q, m.q) /\ l.q <= m.q
        BY <1>3, <1>i, Zenon DEF Same
  <2>2. PassMove(g, ps, ps, l.q, l.bits, m.q, m.bits)
        BY <2>1, Zenon DEF PassMove
  <2> QED BY <2>1, <2>2, <1>1, <1>v, Zenon DEF WorkerMove
<1>8. HandsIn(t, g, ps, as, "union_set_r", l, "union_or_set", m)
      BY Zenon, <1>1, <1>3 DEF HandsIn, UnionPasses, ClaimOp, AccOp
<1> QED BY <1>4, <1>6, <1>7, <1>8, Zenon DEF Handles

\* It writes them at r.
LEMMA HandOrSet ==
    ASSUME NEW t \in Thread, NEW g, NEW k, NEW ps, NEW as, NEW l \in Local,
           Tracks(t, g, k, ps, as, "union_or_set", l), NEW PS,
           PS = [ps EXCEPT ![l.r] = @ \cup l.bits], DOMAIN ps = State, NEW m,
           m = l
    PROVE  Handles(t, g, k, ps, as, PS, as, "union_or_set", l, "union_up_set", m)
<1>1. /\ Outer("union_or_set", l) = "union_or_set"
      /\ Outer("union_up_set", m) = "union_up_set"
      BY Zenon DEF Outer, InFind
<1>3. /\ Same(g, l.q, l.r)
      /\ l.q < l.r
      /\ m = l
      BY Zenon, <1>1 DEF Tracks, From, UnionPasses, ClaimOp, AccOp, FromFind, InFind
<1>i. \A x \in State : x \in Int /\ x # 0 /\ x <= x
      BY NAssumption DEF State
<1>n. /\ l.r \in State
      /\ l.q <= l.r
      BY <1>3, <1>i DEF Same
<1>w. l.bits \subseteq PS[l.r]
  <2>1. PS[l.r] = ps[l.r] \cup l.bits
        BY <1>n, Zenon
  <2> QED BY <2>1, Zenon
<1>4. Tracks(t, g, k, PS, as, "union_up_set", m)
      BY Zenon, <1>1, <1>3, <1>n, <1>w DEF Tracks, From, UnionPasses, ClaimOp, AccOp, FromFind, InFind
<1>5. /\ MarkCargo(as, "union_or_set", l) = {}
      /\ MarkCargo(as, "union_up_set", m) = {}
      BY Zenon DEF MarkNode, MarkCargo, UnionPasses, AccOp
<1>v. /\ WorkerNode("union_or_set", l) = l.q
      /\ WorkerCargo(ps, t, "union_or_set", l) = l.bits
      /\ WorkerNode("union_up_set", m) = m.r
      /\ WorkerCargo(PS, t, "union_up_set", m) = m.bits
      BY Zenon DEF WorkerNode, WorkerRead, WorkerCargo, UnionPasses
<1>6. MarkMove(g, as, as, "union_or_set", l, "union_up_set", m)
      BY <1>1, <1>5, Zenon DEF MarkMove, PassMove
<1>7. WorkerMove(t, g, ps, PS, "union_or_set", l, "union_up_set", m)
  <2>1. /\ m.r \in State
        /\ PS = [ps EXCEPT ![m.r] = @ \cup m.bits]
        /\ l.bits \subseteq m.bits /\ Same(g, l.q, m.r) /\ l.q <= m.r
        BY <1>3, <1>n, <1>w, <1>i, Zenon DEF Same
  <2>2. PassMove(g, ps, PS, l.q, l.bits, m.r, m.bits)
        BY <2>1, Zenon DEF PassMove
  <2> QED BY <2>1, <2>2, <1>1, <1>v, Zenon DEF WorkerMove
<1>8. HandsIn(t, g, PS, as, "union_or_set", l, "union_up_set", m)
      BY Zenon, <1>1, <1>3, <1>n, <1>w DEF HandsIn, UnionPasses, ClaimOp, AccOp
<1> QED BY <1>4, <1>6, <1>7, <1>8, Zenon DEF Handles

\* r is a root.
LEMMA HandUpSet ==
    ASSUME NEW t \in Thread, NEW g, NEW k, NEW ps, NEW as, NEW l \in Local,
           Tracks(t, g, k, ps, as, "union_up_set", l),
           l.r \in State => g[l.r] = l.r, NEW m, m = l
    PROVE  Handles(t, g, k, ps, as, ps, as, "union_up_set", l, "union_unlist_a", m)
<1>1. /\ Outer("union_up_set", l) = "union_up_set"
      /\ Outer("union_unlist_a", m) = "union_unlist_a"
      BY Zenon DEF Outer, InFind
<1>3. /\ Same(g, l.q, l.r)
      /\ l.q < l.r
      /\ l.bits \subseteq ps[l.r]
      /\ m = l
      BY Zenon, <1>1 DEF Tracks, From, UnionPasses, ClaimOp, AccOp, FromFind, InFind
<1>i. \A x \in State : x \in Int /\ x # 0 /\ x <= x
      BY NAssumption DEF State
<1>4. Tracks(t, g, k, ps, as, "union_unlist_a", m)
      BY Zenon, <1>1, <1>3 DEF Tracks, From, UnionPasses, ClaimOp, AccOp, FromFind, InFind
<1>5. /\ MarkCargo(as, "union_up_set", l) = {}
      /\ MarkCargo(as, "union_unlist_a", m) = {}
      BY Zenon DEF MarkNode, MarkCargo, UnionPasses, AccOp
<1>v. /\ WorkerNode("union_up_set", l) = l.r
      /\ WorkerCargo(ps, t, "union_up_set", l) = l.bits
      /\ WorkerCargo(ps, t, "union_unlist_a", m) = {}
      BY Zenon DEF WorkerNode, WorkerRead, WorkerCargo, UnionPasses
<1>6. MarkMove(g, as, as, "union_up_set", l, "union_unlist_a", m)
      BY <1>1, <1>5, Zenon DEF MarkMove, PassMove
<1>7. WorkerMove(t, g, ps, ps, "union_up_set", l, "union_unlist_a", m)
  <2>1. /\ l.r \in State
        /\ l.bits \subseteq ps[l.r] /\ Same(g, l.r, l.r)
        /\ g[l.r] = l.r \/ l.r < l.r
        BY <1>3, <1>i, Zenon DEF Same
  <2>2. PassMove(g, ps, ps, l.r, l.bits, WorkerNode("union_unlist_a", m), {})
        BY <2>1, Zenon DEF PassMove
  <2> QED BY <2>1, <2>2, <1>1, <1>v, Zenon DEF WorkerMove
<1>8. HandsIn(t, g, ps, as, "union_up_set", l, "union_unlist_a", m)
      BY Zenon, <1>1, <1>3 DEF HandsIn, UnionPasses, ClaimOp, AccOp
<1> QED BY <1>4, <1>6, <1>7, <1>8, Zenon DEF Handles

\* r has got a parent.
LEMMA HandUpSetOn ==
    ASSUME NEW t \in Thread, NEW g, NEW k, NEW ps, NEW as, NEW l \in Local,
           Tracks(t, g, k, ps, as, "union_up_set", l), NEW m,
           m = [l EXCEPT !.x = l.r, !.fret = "union_set"]
    PROVE  Handles(t, g, k, ps, as, ps, as, "union_up_set", l, "find", m)
<1>2. /\ m.q = l.q /\ m.r = l.r /\ m.bits = l.bits /\ m.x = l.r
      /\ m.fret = "union_set"
      BY Zenon DEF Local
<1>1. /\ Outer("union_up_set", l) = "union_up_set"
      /\ Outer("find", m) = "union_set"
      BY Zenon, <1>2 DEF Outer, InFind
<1>3. /\ Same(g, l.q, l.r)
      /\ l.q < l.r
      /\ l.bits \subseteq ps[l.r]
      BY Zenon, <1>1 DEF Tracks, From, UnionPasses, ClaimOp, AccOp, FromFind, InFind
<1>i. \A x \in State : x \in Int /\ x # 0 /\ x <= x
      BY NAssumption DEF State
<1>n. Same(g, l.r, l.r)
      BY <1>2, <1>3, <1>i, Zenon DEF Same
<1>4. Tracks(t, g, k, ps, as, "find", m)
      BY Zenon, <1>1, <1>2, <1>3, <1>n DEF Tracks, From, UnionPasses, ClaimOp, AccOp, FromFind, InFind
<1>5. /\ MarkCargo(as, "union_up_set", l) = {}
      /\ MarkCargo(as, "union_set", m) = {}
      BY Zenon DEF MarkNode, MarkCargo, UnionPasses, AccOp
<1>v. /\ WorkerNode("union_up_set", l) = l.r
      /\ WorkerCargo(ps, t, "union_up_set", l) = l.bits
      /\ WorkerNode("union_set", m) = m.r
      /\ WorkerCargo(ps, t, "union_set", m) = m.bits
      BY Zenon DEF WorkerNode, WorkerRead, WorkerCargo, UnionPasses
<1>6. MarkMove(g, as, as, "union_up_set", l, "find", m)
      BY <1>1, <1>5, Zenon DEF MarkMove, PassMove
<1>7. WorkerMove(t, g, ps, ps, "union_up_set", l, "find", m)
  <2>1. l.bits \subseteq m.bits /\ Same(g, l.r, m.r) /\ l.r <= m.r
        BY <1>2, <1>3, <1>n, <1>i, Zenon DEF Same
  <2>2. PassMove(g, ps, ps, l.r, l.bits, m.r, m.bits)
        BY <2>1, Zenon DEF PassMove
  <2> QED BY <2>1, <2>2, <1>1, <1>v, Zenon DEF WorkerMove
<1>8. HandsIn(t, g, ps, as, "union_up_set", l, "find", m)
      BY Zenon, <1>1, <1>2, <1>3, <1>n DEF HandsIn, UnionPasses, ClaimOp, AccOp
<1> QED BY <1>4, <1>6, <1>7, <1>8, Zenon DEF Handles

\* The workers go to the root.
LEMMA HandSet ==
    ASSUME NEW t \in Thread, NEW g, NEW k, NEW ps, NEW as, NEW l \in Local,
           Tracks(t, g, k, ps, as, "union_set", l), NEW PS,
           PS = [ps EXCEPT ![l.f] = @ \cup l.bits], DOMAIN ps = State, NEW m,
           m = [l EXCEPT !.r = l.f]
    PROVE  Handles(t, g, k, ps, as, PS, as, "union_set", l, "union_up_set", m)
<1>2. m.q = l.q /\ m.bits = l.bits /\ m.r = l.f
      BY Zenon DEF Local
<1>1. /\ Outer("union_set", l) = "union_set"
      /\ Outer("union_up_set", m) = "union_up_set"
      BY Zenon, <1>2 DEF Outer, InFind
<1>3. /\ Same(g, l.q, l.r)
      /\ l.q < l.r
      /\ Same(g, l.r, l.f)
      /\ l.r <= l.f
      BY Zenon, <1>1 DEF Tracks, From, UnionPasses, ClaimOp, AccOp, FromFind, InFind
<1>i. \A x \in State : x \in Int /\ x # 0 /\ x <= x
      BY NAssumption DEF State
<1>n. /\ l.f \in State /\ Same(g, l.q, l.f)
      /\ l.q < l.f
      BY <1>2, <1>3, <1>i DEF Same
<1>w. l.bits \subseteq PS[l.f]
  <2>1. PS[l.f] = ps[l.f] \cup l.bits
        BY <1>n, Zenon
  <2> QED BY <2>1, Zenon
<1>4. Tracks(t, g, k, PS, as, "union_up_set", m)
      BY Zenon, <1>1, <1>2, <1>3, <1>n, <1>w DEF Tracks, From, UnionPasses, ClaimOp, AccOp, FromFind, InFind
<1>5. /\ MarkCargo(as, "union_set", l) = {}
      /\ MarkCargo(as, "union_up_set", m) = {}
      BY Zenon DEF MarkNode, MarkCargo, UnionPasses, AccOp
<1>v. /\ WorkerNode("union_set", l) = l.r
      /\ WorkerCargo(ps, t, "union_set", l) = l.bits
      /\ WorkerNode("union_up_set", m) = m.r
      /\ WorkerCargo(PS, t, "union_up_set", m) = m.bits
      BY Zenon DEF WorkerNode, WorkerRead, WorkerCargo, UnionPasses
<1>6. MarkMove(g, as, as, "union_set", l, "union_up_set", m)
      BY <1>1, <1>5, Zenon DEF MarkMove, PassMove
<1>7. WorkerMove(t, g, ps, PS, "union_set", l, "union_up_set", m)
  <2>1. /\ m.r \in State
        /\ PS = [ps EXCEPT ![m.r] = @ \cup m.bits]
        /\ l.bits \subseteq m.bits /\ Same(g, l.r, m.r) /\ l.r <= m.r
        BY <1>2, <1>3, <1>n, <1>w, <1>i, Zenon DEF Same
  <2>2. PassMove(g, ps, PS, l.r, l.bits, m.r, m.bits)
        BY <2>1, Zenon DEF PassMove
  <2> QED BY <2>1, <2>2, <1>1, <1>v, Zenon DEF WorkerMove
<1>8. HandsIn(t, g, PS, as, "union_set", l, "union_up_set", m)
      BY Zenon, <1>1, <1>2, <1>3, <1>n, <1>w DEF HandsIn, UnionPasses, ClaimOp, AccOp
<1> QED BY <1>4, <1>6, <1>7, <1>8, Zenon DEF Handles

\* The set is dead.
LEMMA HandClaimDead ==
    ASSUME NEW t \in Thread, NEW g, NEW k, NEW ps, NEW as, NEW l \in Local,
           Tracks(t, g, k, ps, as, "claim", l), NEW m,
           m = [NoLocal EXCEPT !.code = "CLAIM_DEAD", !.ret = 0]
    PROVE  Handles(t, g, k, ps, as, ps, as, "claim", l, "ready", m)
<1>2. m.code = "CLAIM_DEAD"
      BY Zenon DEF Local, NoLocal
<1>1. /\ Outer("claim", l) = "claim"
      /\ Outer("ready", m) = "ready"
      BY Zenon, <1>2 DEF Outer, InFind
<1>i. \A x \in State : x \in Int /\ x # 0 /\ x <= x
      BY NAssumption DEF State
<1>4. Tracks(t, g, k, ps, as, "ready", m)
      BY Zenon, <1>1, <1>2 DEF Tracks, From, UnionPasses, ClaimOp, AccOp, FromFind, InFind
<1>5. /\ MarkCargo(as, "claim", l) = {}
      /\ MarkCargo(as, "ready", m) = {}
      BY Zenon DEF MarkNode, MarkCargo, UnionPasses, AccOp
<1>v. /\ WorkerCargo(ps, t, "claim", l) = {}
      /\ WorkerCargo(ps, t, "ready", m) = {}
      BY Zenon DEF WorkerNode, WorkerRead, WorkerCargo, UnionPasses
<1>6. MarkMove(g, as, as, "claim", l, "ready", m)
      BY <1>1, <1>5, Zenon DEF MarkMove, PassMove
<1>7. WorkerMove(t, g, ps, ps, "claim", l, "ready", m)
      BY <1>1, <1>v, Zenon DEF WorkerMove, PassMove
<1>8. HandsIn(t, g, ps, as, "claim", l, "ready", m)
      BY Zenon, <1>1, <1>2 DEF HandsIn, UnionPasses, ClaimOp, AccOp
<1> QED BY <1>4, <1>6, <1>7, <1>8, Zenon DEF Handles

\* uf_make_claim has its root.
LEMMA HandClaim ==
    ASSUME NEW t \in Thread, NEW g, NEW k, NEW ps, NEW as, NEW l \in Local,
           Tracks(t, g, k, ps, as, "claim", l), NEW m,
           m = [l EXCEPT !.r = l.f]
    PROVE  Handles(t, g, k, ps, as, ps, as, "claim", l, "claim_found", m)
<1>2. m.a = l.a /\ m.r = l.f
      BY Zenon DEF Local
<1>1. /\ Outer("claim", l) = "claim"
      /\ Outer("claim_found", m) = "claim_found"
      BY Zenon, <1>2 DEF Outer, InFind
<1>3. Same(g, l.a, l.f)
      BY Zenon, <1>1 DEF Tracks, From, UnionPasses, ClaimOp, AccOp, FromFind, InFind
<1>i. \A x \in State : x \in Int /\ x # 0 /\ x <= x
      BY NAssumption DEF State
<1>4. Tracks(t, g, k, ps, as, "claim_found", m)
      BY Zenon, <1>1, <1>2, <1>3 DEF Tracks, From, UnionPasses, ClaimOp, AccOp, FromFind, InFind
<1>5. /\ MarkCargo(as, "claim", l) = {}
      /\ MarkCargo(as, "claim_found", m) = {}
      BY Zenon DEF MarkNode, MarkCargo, UnionPasses, AccOp
<1>v. /\ WorkerCargo(ps, t, "claim", l) = {}
      /\ WorkerCargo(ps, t, "claim_found", m) = {}
      BY Zenon DEF WorkerNode, WorkerRead, WorkerCargo, UnionPasses
<1>6. MarkMove(g, as, as, "claim", l, "claim_found", m)
      BY <1>1, <1>5, Zenon DEF MarkMove, PassMove
<1>7. WorkerMove(t, g, ps, ps, "claim", l, "claim_found", m)
      BY <1>1, <1>v, Zenon DEF WorkerMove, PassMove
<1>8. HandsIn(t, g, ps, as, "claim", l, "claim_found", m)
      BY Zenon, <1>1, <1>2, <1>3 DEF HandsIn, UnionPasses, ClaimOp, AccOp
<1> QED BY <1>4, <1>6, <1>7, <1>8, Zenon DEF Handles

\* The worker is there.
LEMMA HandFound ==
    ASSUME NEW t \in Thread, NEW g, NEW k, NEW ps, NEW as, NEW l \in Local,
           Tracks(t, g, k, ps, as, "claim_found", l), t \in ps[l.r], NEW m,
           m = [NoLocal EXCEPT !.code = "CLAIM_FOUND", !.ret = 0]
    PROVE  Handles(t, g, k, ps, as, ps, as, "claim_found", l, "ready", m)
<1>1. /\ Outer("claim_found", l) = "claim_found"
      /\ Outer("ready", m) = "ready"
      BY Zenon DEF Outer, InFind
<1>3. Same(g, l.a, l.r)
      BY Zenon, <1>1 DEF Tracks, From, UnionPasses, ClaimOp, AccOp, FromFind, InFind
<1>i. \A x \in State : x \in Int /\ x # 0 /\ x <= x
      BY NAssumption DEF State
<1>4. Tracks(t, g, k, ps, as, "ready", m)
      BY Zenon, <1>1, <1>3 DEF Tracks, From, UnionPasses, ClaimOp, AccOp, FromFind, InFind
<1>5. /\ MarkCargo(as, "claim_found", l) = {}
      /\ MarkCargo(as, "ready", m) = {}
      BY Zenon DEF MarkNode, MarkCargo, UnionPasses, AccOp
<1>v. /\ WorkerCargo(ps, t, "claim_found", l) = {}
      /\ WorkerCargo(ps, t, "ready", m) = {}
      BY Zenon DEF WorkerNode, WorkerRead, WorkerCargo, UnionPasses
<1>6. MarkMove(g, as, as, "claim_found", l, "ready", m)
      BY <1>1, <1>5, Zenon DEF MarkMove, PassMove
<1>7. WorkerMove(t, g, ps, ps, "claim_found", l, "ready", m)
      BY <1>1, <1>v, Zenon DEF WorkerMove, PassMove
<1>8. HandsIn(t, g, ps, as, "claim_found", l, "ready", m)
      BY Zenon, <1>1, <1>3 DEF HandsIn, Same, ClaimOp, AccOp
<1> QED BY <1>4, <1>6, <1>7, <1>8, Zenon DEF Handles

\* The worker is not there.
LEMMA HandFoundOn ==
    ASSUME NEW t \in Thread, NEW g, NEW k, NEW ps, NEW as, NEW l \in Local,
           Tracks(t, g, k, ps, as, "claim_found", l), NEW m, m = l
    PROVE  Handles(t, g, k, ps, as, ps, as, "claim_found", l, "claim_or", m)
<1>1. /\ Outer("claim_found", l) = "claim_found"
      /\ Outer("claim_or", m) = "claim_or"
      BY Zenon DEF Outer, InFind
<1>3. /\ Same(g, l.a, l.r)
      /\ m = l
      BY Zenon, <1>1 DEF Tracks, From, UnionPasses, ClaimOp, AccOp, FromFind, InFind
<1>i. \A x \in State : x \in Int /\ x # 0 /\ x <= x
      BY NAssumption DEF State
<1>4. Tracks(t, g, k, ps, as, "claim_or", m)
      BY Zenon, <1>1, <1>3 DEF Tracks, From, UnionPasses, ClaimOp, AccOp, FromFind, InFind
<1>5. /\ MarkCargo(as, "claim_found", l) = {}
      /\ MarkCargo(as, "claim_or", m) = {}
      BY Zenon DEF MarkNode, MarkCargo, UnionPasses, AccOp
<1>v. /\ WorkerCargo(ps, t, "claim_found", l) = {}
      /\ WorkerCargo(ps, t, "claim_or", m) = {}
      BY Zenon DEF WorkerNode, WorkerRead, WorkerCargo, UnionPasses
<1>6. MarkMove(g, as, as, "claim_found", l, "claim_or", m)
      BY <1>1, <1>5, Zenon DEF MarkMove, PassMove
<1>7. WorkerMove(t, g, ps, ps, "claim_found", l, "claim_or", m)
      BY <1>1, <1>v, Zenon DEF WorkerMove, PassMove
<1>8. HandsIn(t, g, ps, as, "claim_found", l, "claim_or", m)
      BY Zenon, <1>1, <1>3 DEF HandsIn, UnionPasses, ClaimOp, AccOp
<1> QED BY <1>4, <1>6, <1>7, <1>8, Zenon DEF Handles

\* It is added.
LEMMA HandClaimOr ==
    ASSUME NEW t \in Thread, NEW g, NEW k, NEW ps, NEW as, NEW l \in Local,
           Tracks(t, g, k, ps, as, "claim_or", l), NEW PS,
           PS = [ps EXCEPT ![l.r] = @ \cup {t}], DOMAIN ps = State, NEW m,
           m = [l EXCEPT !.first = (ps[l.r] = {})]
    PROVE  Handles(t, g, k, ps, as, PS, as, "claim_or", l, "claim_up", m)
<1>2. m.a = l.a /\ m.r = l.r
      BY Zenon DEF Local
<1>1. /\ Outer("claim_or", l) = "claim_or"
      /\ Outer("claim_up", m) = "claim_up"
      BY Zenon, <1>2 DEF Outer, InFind
<1>3. Same(g, l.a, l.r)
      BY Zenon, <1>1 DEF Tracks, From, UnionPasses, ClaimOp, AccOp, FromFind, InFind
<1>i. \A x \in State : x \in Int /\ x # 0 /\ x <= x
      BY NAssumption DEF State
<1>n. l.r \in State
      BY <1>2, <1>3, <1>i, Zenon DEF Same
<1>w. {t} \subseteq PS[l.r]
  <2>1. PS[l.r] = ps[l.r] \cup {t}
        BY <1>n, Zenon
  <2> QED BY <2>1, Zenon
<1>4. Tracks(t, g, k, PS, as, "claim_up", m)
      BY Zenon, <1>1, <1>2, <1>3, <1>n, <1>w DEF Tracks, From, UnionPasses, ClaimOp, AccOp, FromFind, InFind
<1>5. /\ MarkCargo(as, "claim_or", l) = {}
      /\ MarkCargo(as, "claim_up", m) = {}
      BY Zenon DEF MarkNode, MarkCargo, UnionPasses, AccOp
<1>v. /\ WorkerCargo(ps, t, "claim_or", l) = {}
      /\ WorkerNode("claim_up", m) = m.r
      /\ WorkerCargo(PS, t, "claim_up", m) = {t}
      BY Zenon DEF WorkerNode, WorkerRead, WorkerCargo, UnionPasses
<1>6. MarkMove(g, as, as, "claim_or", l, "claim_up", m)
      BY <1>1, <1>5, Zenon DEF MarkMove, PassMove
<1>7. WorkerMove(t, g, ps, PS, "claim_or", l, "claim_up", m)
  <2>1. /\ m.r \in State
        /\ PS = [ps EXCEPT ![m.r] = @ \cup {t}]
        BY <1>2, <1>3, <1>n, <1>w, <1>i, Zenon DEF Same
  <2>2. PassMove(g, ps, PS, WorkerNode("claim_or", l), {}, m.r, {t})
        BY <2>1, Zenon DEF PassMove
  <2> QED BY <2>1, <2>2, <1>1, <1>v, Zenon DEF WorkerMove
<1>8. HandsIn(t, g, PS, as, "claim_or", l, "claim_up", m)
      BY Zenon, <1>1, <1>2, <1>3, <1>n, <1>w DEF HandsIn, UnionPasses, ClaimOp, AccOp
<1> QED BY <1>4, <1>6, <1>7, <1>8, Zenon DEF Handles

\* It is at a root.
LEMMA HandClaimUp ==
    ASSUME NEW t \in Thread, NEW g, NEW k, NEW ps, NEW as, NEW l \in Local,
           Tracks(t, g, k, ps, as, "claim_up", l), NEW c,
           l.r \in State => g[l.r] = l.r, NEW m,
           m = [NoLocal EXCEPT !.code = c, !.ret = 0]
    PROVE  Handles(t, g, k, ps, as, ps, as, "claim_up", l, "ready", m)
<1>1. /\ Outer("claim_up", l) = "claim_up"
      /\ Outer("ready", m) = "ready"
      BY Zenon DEF Outer, InFind
<1>3. /\ Same(g, l.a, l.r)
      /\ t \in ps[l.r]
      BY Zenon, <1>1 DEF Tracks, From, UnionPasses, ClaimOp, AccOp, FromFind, InFind
<1>i. \A x \in State : x \in Int /\ x # 0 /\ x <= x
      BY NAssumption DEF State
<1>n. /\ l.r \in State
      /\ Same(g, l.r, l.r)
      BY <1>3, <1>i, Zenon DEF Same
<1>4. Tracks(t, g, k, ps, as, "ready", m)
      BY Zenon, <1>1, <1>3, <1>n DEF Tracks, From, UnionPasses, ClaimOp, AccOp, FromFind, InFind
<1>5. /\ MarkCargo(as, "claim_up", l) = {}
      /\ MarkCargo(as, "ready", m) = {}
      BY Zenon DEF MarkNode, MarkCargo, UnionPasses, AccOp
<1>v. /\ WorkerNode("claim_up", l) = l.r
      /\ WorkerCargo(ps, t, "claim_up", l) = {t}
      /\ WorkerCargo(ps, t, "ready", m) = {}
      BY Zenon DEF WorkerNode, WorkerRead, WorkerCargo, UnionPasses
<1>6. MarkMove(g, as, as, "claim_up", l, "ready", m)
      BY <1>1, <1>5, Zenon DEF MarkMove, PassMove
<1>7. WorkerMove(t, g, ps, ps, "claim_up", l, "ready", m)
  <2>1. /\ l.r \in State
        /\ {t} \subseteq ps[l.r] /\ Same(g, l.r, l.r)
        /\ g[l.r] = l.r \/ l.r < l.r
        BY <1>3, <1>n, <1>i, Zenon DEF Same
  <2>2. PassMove(g, ps, ps, l.r, {t}, WorkerNode("ready", m), {})
        BY <2>1, Zenon DEF PassMove
  <2> QED BY <2>1, <2>2, <1>1, <1>v, Zenon DEF WorkerMove
<1>8. HandsIn(t, g, ps, as, "claim_up", l, "ready", m)
      BY Zenon, <1>1, <1>3 DEF HandsIn, Same, ClaimOp, AccOp
<1> QED BY <1>4, <1>6, <1>7, <1>8, Zenon DEF Handles

\* r has got a parent.
LEMMA HandClaimUpOn ==
    ASSUME NEW t \in Thread, NEW g, NEW k, NEW ps, NEW as, NEW l \in Local,
           Tracks(t, g, k, ps, as, "claim_up", l), NEW m,
           m = [l EXCEPT !.x = l.r, !.fret = "claim_set"]
    PROVE  Handles(t, g, k, ps, as, ps, as, "claim_up", l, "find", m)
<1>2. m.a = l.a /\ m.r = l.r /\ m.x = l.r /\ m.fret = "claim_set"
      BY Zenon DEF Local
<1>1. /\ Outer("claim_up", l) = "claim_up"
      /\ Outer("find", m) = "claim_set"
      BY Zenon, <1>2 DEF Outer, InFind
<1>3. /\ Same(g, l.a, l.r)
      /\ t \in ps[l.r]
      BY Zenon, <1>1 DEF Tracks, From, UnionPasses, ClaimOp, AccOp, FromFind, InFind
<1>i. \A x \in State : x \in Int /\ x # 0 /\ x <= x
      BY NAssumption DEF State
<1>n. Same(g, l.r, l.r)
      BY <1>2, <1>3, <1>i, Zenon DEF Same
<1>4. Tracks(t, g, k, ps, as, "find", m)
      BY Zenon, <1>1, <1>2, <1>3, <1>n DEF Tracks, From, UnionPasses, ClaimOp, AccOp, FromFind, InFind
<1>5. /\ MarkCargo(as, "claim_up", l) = {}
      /\ MarkCargo(as, "claim_set", m) = {}
      BY Zenon DEF MarkNode, MarkCargo, UnionPasses, AccOp
<1>v. /\ WorkerNode("claim_up", l) = l.r
      /\ WorkerCargo(ps, t, "claim_up", l) = {t}
      /\ WorkerNode("claim_set", m) = m.r
      /\ WorkerCargo(ps, t, "claim_set", m) = {t}
      BY Zenon DEF WorkerNode, WorkerRead, WorkerCargo, UnionPasses
<1>6. MarkMove(g, as, as, "claim_up", l, "find", m)
      BY <1>1, <1>5, Zenon DEF MarkMove, PassMove
<1>7. WorkerMove(t, g, ps, ps, "claim_up", l, "find", m)
  <2>1. {t} \subseteq {t} /\ Same(g, l.r, m.r) /\ l.r <= m.r
        BY <1>2, <1>3, <1>n, <1>i, Zenon DEF Same
  <2>2. PassMove(g, ps, ps, l.r, {t}, m.r, {t})
        BY <2>1, Zenon DEF PassMove
  <2> QED BY <2>1, <2>2, <1>1, <1>v, Zenon DEF WorkerMove
<1>8. HandsIn(t, g, ps, as, "claim_up", l, "find", m)
      BY Zenon, <1>1, <1>2, <1>3, <1>n DEF HandsIn, UnionPasses, ClaimOp, AccOp
<1> QED BY <1>4, <1>6, <1>7, <1>8, Zenon DEF Handles

\* It is added at the root.
LEMMA HandClaimSet ==
    ASSUME NEW t \in Thread, NEW g, NEW k, NEW ps, NEW as, NEW l \in Local,
           Tracks(t, g, k, ps, as, "claim_set", l), NEW PS,
           PS = [ps EXCEPT ![l.f] = @ \cup {t}], DOMAIN ps = State, NEW m,
           m = [l EXCEPT !.r = l.f]
    PROVE  Handles(t, g, k, ps, as, PS, as, "claim_set", l, "claim_up", m)
<1>2. m.a = l.a /\ m.r = l.f
      BY Zenon DEF Local
<1>1. /\ Outer("claim_set", l) = "claim_set"
      /\ Outer("claim_up", m) = "claim_up"
      BY Zenon, <1>2 DEF Outer, InFind
<1>3. /\ Same(g, l.a, l.r)
      /\ Same(g, l.r, l.f)
      /\ l.r <= l.f
      BY Zenon, <1>1 DEF Tracks, From, UnionPasses, ClaimOp, AccOp, FromFind, InFind
<1>i. \A x \in State : x \in Int /\ x # 0 /\ x <= x
      BY NAssumption DEF State
<1>n. l.f \in State /\ Same(g, l.a, l.f)
      BY <1>2, <1>3, <1>i, Zenon DEF Same
<1>w. {t} \subseteq PS[l.f]
  <2>1. PS[l.f] = ps[l.f] \cup {t}
        BY <1>n, Zenon
  <2> QED BY <2>1, Zenon
<1>4. Tracks(t, g, k, PS, as, "claim_up", m)
      BY Zenon, <1>1, <1>2, <1>3, <1>n, <1>w DEF Tracks, From, UnionPasses, ClaimOp, AccOp, FromFind, InFind
<1>5. /\ MarkCargo(as, "claim_set", l) = {}
      /\ MarkCargo(as, "claim_up", m) = {}
      BY Zenon DEF MarkNode, MarkCargo, UnionPasses, AccOp
<1>v. /\ WorkerNode("claim_set", l) = l.r
      /\ WorkerCargo(ps, t, "claim_set", l) = {t}
      /\ WorkerNode("claim_up", m) = m.r
      /\ WorkerCargo(PS, t, "claim_up", m) = {t}
      BY Zenon DEF WorkerNode, WorkerRead, WorkerCargo, UnionPasses
<1>6. MarkMove(g, as, as, "claim_set", l, "claim_up", m)
      BY <1>1, <1>5, Zenon DEF MarkMove, PassMove
<1>7. WorkerMove(t, g, ps, PS, "claim_set", l, "claim_up", m)
  <2>1. /\ m.r \in State
        /\ PS = [ps EXCEPT ![m.r] = @ \cup {t}]
        /\ {t} \subseteq {t} /\ Same(g, l.r, m.r) /\ l.r <= m.r
        BY <1>2, <1>3, <1>n, <1>w, <1>i, Zenon DEF Same
  <2>2. PassMove(g, ps, PS, l.r, {t}, m.r, {t})
        BY <2>1, Zenon DEF PassMove
  <2> QED BY <2>1, <2>2, <1>1, <1>v, Zenon DEF WorkerMove
<1>8. HandsIn(t, g, PS, as, "claim_set", l, "claim_up", m)
      BY Zenon, <1>1, <1>2, <1>3, <1>n, <1>w DEF HandsIn, UnionPasses, ClaimOp, AccOp
<1> QED BY <1>4, <1>6, <1>7, <1>8, Zenon DEF Handles

\* uf_add_acc sees its marks.
LEMMA HandMarked ==
    ASSUME NEW t \in Thread, NEW g, NEW k, NEW ps, NEW as, NEW l \in Local,
           Tracks(t, g, k, ps, as, "acc", l), l.bits \subseteq as[l.f],
           NEW m, m = [NoLocal EXCEPT !.bits = as[l.f]]
    PROVE  Handles(t, g, k, ps, as, ps, as, "acc", l, "ready", m)
<1>1. /\ Outer("acc", l) = "acc"
      /\ Outer("ready", m) = "ready"
      BY Zenon DEF Outer, InFind
<1>3. /\ Same(g, l.a, l.f)
      /\ l.r # 0 => Same(g, l.a, l.r) /\ l.r < l.f
      BY Zenon, <1>1 DEF Tracks, From, UnionPasses, ClaimOp, AccOp, FromFind, InFind
<1>i. \A x \in State : x \in Int /\ x # 0 /\ x <= x
      BY NAssumption DEF State
<1>n. /\ l.f \in State
      /\ l.r # 0 => Same(g, l.r, l.f)
      BY <1>3, <1>i, Zenon DEF Same
<1>4. Tracks(t, g, k, ps, as, "ready", m)
      BY Zenon, <1>1, <1>3, <1>n DEF Tracks, From, UnionPasses, ClaimOp, AccOp, FromFind, InFind
<1>5. /\ MarkNode("acc", l) = l.r
      /\ MarkCargo(as, "acc", l) = (IF l.r # 0 THEN l.bits ELSE {})
      /\ MarkCargo(as, "ready", m) = {}
      BY AccCargo, Zenon DEF MarkCargo, AccOp
<1>v. /\ WorkerCargo(ps, t, "acc", l) = {}
      /\ WorkerCargo(ps, t, "ready", m) = {}
      BY Zenon DEF WorkerNode, WorkerRead, WorkerCargo, UnionPasses
<1>6. MarkMove(g, as, as, "acc", l, "ready", m)
  <2>1. CASE l.r = 0
        BY <1>1, <1>5, <1>3, <1>n, <2>1, Zenon DEF MarkMove, PassMove
  <2>2. CASE l.r # 0
    <3>1. /\ MarkCargo(as, "acc", l) = l.bits
          /\ l.f \in State
          /\ l.bits \subseteq as[l.f] /\ Same(g, l.r, l.f)
          /\ g[l.f] = l.f \/ l.r < l.f
          BY <2>2, <1>5, <1>3, <1>n, <1>i, Zenon DEF Same
    <3>2. PassMove(g, as, as, l.r, l.bits, MarkNode("ready", m), {})
          BY <3>1, Zenon DEF PassMove
    <3> QED BY <3>1, <3>2, <1>1, <1>5, Zenon DEF MarkMove
  <2> QED BY <2>1, <2>2, Zenon
<1>7. WorkerMove(t, g, ps, ps, "acc", l, "ready", m)
      BY <1>1, <1>v, Zenon DEF WorkerMove, PassMove
<1>8. HandsIn(t, g, ps, as, "acc", l, "ready", m)
      BY Zenon, <1>1, <1>3 DEF HandsIn, Same, ClaimOp, AccOp
<1> QED BY <1>4, <1>6, <1>7, <1>8, Zenon DEF Handles

\* It does not see all of them.
LEMMA HandMarkedOn ==
    ASSUME NEW t \in Thread, NEW g, NEW k, NEW ps, NEW as, NEW l \in Local,
           Tracks(t, g, k, ps, as, "acc", l), NEW m, m = l
    PROVE  Handles(t, g, k, ps, as, ps, as, "acc", l, "acc_or", m)
<1>1. /\ Outer("acc", l) = "acc"
      /\ Outer("acc_or", m) = "acc_or"
      BY Zenon DEF Outer, InFind
<1>3. /\ Same(g, l.a, l.f)
      /\ l.r # 0 => Same(g, l.a, l.r) /\ l.r < l.f /\ l.bits \subseteq as[l.r] /\ k[l.r] # 0
      /\ m = l
      BY Zenon, <1>1 DEF Tracks, From, UnionPasses, ClaimOp, AccOp, FromFind, InFind
<1>i. \A x \in State : x \in Int /\ x # 0 /\ x <= x
      BY NAssumption DEF State
<1>4. Tracks(t, g, k, ps, as, "acc_or", m)
      BY Zenon, <1>1, <1>3 DEF Tracks, From, UnionPasses, ClaimOp, AccOp, FromFind, InFind
<1>5. /\ MarkNode("acc", l) = l.r
      /\ MarkCargo(as, "acc", l) = (IF l.r # 0 THEN l.bits ELSE {})
      /\ MarkNode("acc_or", m) = m.r
      /\ MarkCargo(as, "acc_or", m) = (IF m.r # 0 THEN m.bits ELSE {})
      BY AccCargo, Zenon DEF AccOp
<1>v. /\ WorkerCargo(ps, t, "acc", l) = {}
      /\ WorkerCargo(ps, t, "acc_or", m) = {}
      BY Zenon DEF WorkerNode, WorkerRead, WorkerCargo, UnionPasses
<1>6. MarkMove(g, as, as, "acc", l, "acc_or", m)
  <2>1. CASE l.r = 0
        BY <1>1, <1>5, <1>3, <2>1, Zenon DEF MarkMove, PassMove
  <2>2. CASE l.r # 0
    <3>1. /\ MarkCargo(as, "acc", l) = l.bits
          /\ l.bits \subseteq m.bits /\ Same(g, l.r, m.r) /\ l.r <= m.r
          /\ MarkCargo(as, "acc_or", m) = m.bits
          BY <2>2, <1>5, <1>3, <1>i, Zenon DEF Same
    <3>2. PassMove(g, as, as, l.r, l.bits, m.r, m.bits)
          BY <3>1, Zenon DEF PassMove
    <3> QED BY <3>1, <3>2, <1>1, <1>5, Zenon DEF MarkMove
  <2> QED BY <2>1, <2>2, Zenon
<1>7. WorkerMove(t, g, ps, ps, "acc", l, "acc_or", m)
      BY <1>1, <1>v, Zenon DEF WorkerMove, PassMove
<1>8. HandsIn(t, g, ps, as, "acc", l, "acc_or", m)
      BY Zenon, <1>1, <1>3 DEF HandsIn, UnionPasses, ClaimOp, AccOp
<1> QED BY <1>4, <1>6, <1>7, <1>8, Zenon DEF Handles

\* It writes them.
LEMMA HandAccOr ==
    ASSUME NEW t \in Thread, NEW g, NEW k, NEW ps, NEW as, NEW l \in Local,
           Tracks(t, g, k, ps, as, "acc_or", l), NEW b, NEW AS,
           AS = [as EXCEPT ![l.f] = @ \cup l.bits], DOMAIN as = State, NEW m,
           m = [l EXCEPT !.r = l.f, !.seen = b]
    PROVE  Handles(t, g, k, ps, as, ps, AS, "acc_or", l, "acc_up", m)
<1>2. m.a = l.a /\ m.bits = l.bits /\ m.r = l.f
      BY Zenon DEF Local
<1>1. /\ Outer("acc_or", l) = "acc_or"
      /\ Outer("acc_up", m) = "acc_up"
      BY Zenon, <1>2 DEF Outer, InFind
<1>3. /\ Same(g, l.a, l.f)
      /\ l.r # 0 => Same(g, l.a, l.r) /\ l.r < l.f
      BY Zenon, <1>1 DEF Tracks, From, UnionPasses, ClaimOp, AccOp, FromFind, InFind
<1>i. \A x \in State : x \in Int /\ x # 0 /\ x <= x
      BY NAssumption DEF State
<1>n. /\ l.f \in State
      /\ l.f # 0
      /\ l.r # 0 => Same(g, l.r, l.f) /\ l.r <= l.f
      BY <1>2, <1>3, <1>i DEF Same
<1>w. l.bits \subseteq AS[l.f]
  <2>1. AS[l.f] = as[l.f] \cup l.bits
        BY <1>n, Zenon
  <2> QED BY <2>1, Zenon
<1>4. Tracks(t, g, k, ps, AS, "acc_up", m)
      BY Zenon, <1>1, <1>2, <1>3, <1>n, <1>w DEF Tracks, From, UnionPasses, ClaimOp, AccOp, FromFind, InFind
<1>5. /\ MarkNode("acc_or", l) = l.r
      /\ MarkCargo(as, "acc_or", l) = (IF l.r # 0 THEN l.bits ELSE {})
      /\ MarkNode("acc_up", m) = m.r
      /\ MarkCargo(AS, "acc_up", m) = (IF m.r # 0 THEN m.bits ELSE {})
      BY AccCargo, Zenon DEF AccOp
<1>v. /\ WorkerCargo(ps, t, "acc_or", l) = {}
      /\ WorkerCargo(ps, t, "acc_up", m) = {}
      BY Zenon DEF WorkerNode, WorkerRead, WorkerCargo, UnionPasses
<1>6. MarkMove(g, as, AS, "acc_or", l, "acc_up", m)
  <2>1. CASE l.r = 0
        BY <1>1, <1>5, <1>2, <1>3, <1>n, <1>w, <2>1, Zenon DEF MarkMove, PassMove
  <2>2. CASE l.r # 0
    <3>1. /\ MarkCargo(as, "acc_or", l) = l.bits
          /\ m.r \in State
          /\ AS = [as EXCEPT ![m.r] = @ \cup m.bits]
          /\ l.bits \subseteq m.bits /\ Same(g, l.r, m.r) /\ l.r <= m.r
          /\ MarkCargo(AS, "acc_up", m) = m.bits
          BY <2>2, <1>5, <1>2, <1>3, <1>n, <1>w, <1>i, Zenon DEF Same
    <3>2. PassMove(g, as, AS, l.r, l.bits, m.r, m.bits)
          BY <3>1, Zenon DEF PassMove
    <3> QED BY <3>1, <3>2, <1>1, <1>5, Zenon DEF MarkMove
  <2> QED BY <2>1, <2>2, Zenon
<1>7. WorkerMove(t, g, ps, ps, "acc_or", l, "acc_up", m)
      BY <1>1, <1>v, Zenon DEF WorkerMove, PassMove
<1>8. HandsIn(t, g, ps, AS, "acc_or", l, "acc_up", m)
      BY Zenon, <1>1, <1>2, <1>3, <1>n, <1>w DEF HandsIn, UnionPasses, ClaimOp, AccOp
<1> QED BY <1>4, <1>6, <1>7, <1>8, Zenon DEF Handles

\* They are at a root.
LEMMA HandAccUp ==
    ASSUME NEW t \in Thread, NEW g, NEW k, NEW ps, NEW as, NEW l \in Local,
           Tracks(t, g, k, ps, as, "acc_up", l), l.r \in State, g[l.r] = l.r,
           NEW m, m = [NoLocal EXCEPT !.bits = l.seen]
    PROVE  Handles(t, g, k, ps, as, ps, as, "acc_up", l, "ready", m)
<1>1. /\ Outer("acc_up", l) = "acc_up"
      /\ Outer("ready", m) = "ready"
      BY Zenon DEF Outer, InFind
<1>3. l.r # 0 => Same(g, l.a, l.r) /\ l.bits \subseteq as[l.r]
      BY Zenon, <1>1 DEF Tracks, From, UnionPasses, ClaimOp, AccOp, FromFind, InFind
<1>i. \A x \in State : x \in Int /\ x # 0 /\ x <= x
      BY NAssumption DEF State
<1>n. /\ l.r # 0
      /\ Same(g, l.r, l.r)
      BY <1>3, <1>i, Zenon DEF Same
<1>4. Tracks(t, g, k, ps, as, "ready", m)
      BY Zenon, <1>1, <1>3, <1>n DEF Tracks, From, UnionPasses, ClaimOp, AccOp, FromFind, InFind
<1>5. /\ MarkNode("acc_up", l) = l.r
      /\ MarkCargo(as, "acc_up", l) = (IF l.r # 0 THEN l.bits ELSE {})
      /\ MarkCargo(as, "ready", m) = {}
      BY AccCargo, Zenon DEF MarkCargo, AccOp
<1>v. /\ WorkerCargo(ps, t, "acc_up", l) = {}
      /\ WorkerCargo(ps, t, "ready", m) = {}
      BY Zenon DEF WorkerNode, WorkerRead, WorkerCargo, UnionPasses
<1>6. MarkMove(g, as, as, "acc_up", l, "ready", m)
  <2>1. CASE l.r = 0
        BY <1>1, <1>5, <1>3, <1>n, <2>1, Zenon DEF MarkMove, PassMove
  <2>2. CASE l.r # 0
    <3>1. /\ MarkCargo(as, "acc_up", l) = l.bits
          /\ l.r \in State
          /\ l.bits \subseteq as[l.r] /\ Same(g, l.r, l.r)
          /\ g[l.r] = l.r \/ l.r < l.r
          BY <2>2, <1>5, <1>3, <1>n, <1>i, Zenon DEF Same
    <3>2. PassMove(g, as, as, l.r, l.bits, MarkNode("ready", m), {})
          BY <3>1, Zenon DEF PassMove
    <3> QED BY <3>1, <3>2, <1>1, <1>5, Zenon DEF MarkMove
  <2> QED BY <2>1, <2>2, Zenon
<1>7. WorkerMove(t, g, ps, ps, "acc_up", l, "ready", m)
      BY <1>1, <1>v, Zenon DEF WorkerMove, PassMove
<1>8. HandsIn(t, g, ps, as, "acc_up", l, "ready", m)
      BY Zenon, <1>1, <1>3, <1>n DEF HandsIn, Same, ClaimOp, AccOp
<1> QED BY <1>4, <1>6, <1>7, <1>8, Zenon DEF Handles

\* r has got a parent.
LEMMA HandAccUpOn ==
    ASSUME NEW t \in Thread, NEW g, NEW k, NEW ps, NEW as, NEW l \in Local,
           Tracks(t, g, k, ps, as, "acc_up", l), l.r \in State, k[l.r] # 0,
           NEW m, m = [l EXCEPT !.x = l.a, !.fret = "acc"]
    PROVE  Handles(t, g, k, ps, as, ps, as, "acc_up", l, "find", m)
<1>2. /\ m.a = l.a /\ m.r = l.r /\ m.bits = l.bits /\ m.x = l.a
      /\ m.fret = "acc"
      BY Zenon DEF Local
<1>1. /\ Outer("acc_up", l) = "acc_up"
      /\ Outer("find", m) = "acc"
      BY Zenon, <1>2 DEF Outer, InFind
<1>3. l.r # 0 => Same(g, l.a, l.r) /\ l.bits \subseteq as[l.r]
      BY Zenon, <1>1 DEF Tracks, From, UnionPasses, ClaimOp, AccOp, FromFind, InFind
<1>i. \A x \in State : x \in Int /\ x # 0 /\ x <= x
      BY NAssumption DEF State
<1>n. /\ l.r # 0
      /\ Same(g, l.a, l.a)
      /\ Same(g, l.r, l.r)
      BY <1>2, <1>3, <1>i, Zenon DEF Same
<1>4. Tracks(t, g, k, ps, as, "find", m)
      BY Zenon, <1>1, <1>2, <1>3, <1>n DEF Tracks, From, UnionPasses, ClaimOp, AccOp, FromFind, InFind
<1>5. /\ MarkNode("acc_up", l) = l.r
      /\ MarkCargo(as, "acc_up", l) = (IF l.r # 0 THEN l.bits ELSE {})
      /\ MarkNode("acc", m) = m.r
      /\ MarkCargo(as, "acc", m) = (IF m.r # 0 THEN m.bits ELSE {})
      BY AccCargo, Zenon DEF AccOp
<1>v. /\ WorkerCargo(ps, t, "acc_up", l) = {}
      /\ WorkerCargo(ps, t, "acc", m) = {}
      BY Zenon DEF WorkerNode, WorkerRead, WorkerCargo, UnionPasses
<1>6. MarkMove(g, as, as, "acc_up", l, "find", m)
  <2>1. CASE l.r = 0
        BY <1>1, <1>5, <1>2, <1>3, <1>n, <2>1, Zenon DEF MarkMove, PassMove
  <2>2. CASE l.r # 0
    <3>1. /\ MarkCargo(as, "acc_up", l) = l.bits
          /\ l.bits \subseteq m.bits /\ Same(g, l.r, m.r) /\ l.r <= m.r
          /\ MarkCargo(as, "acc", m) = m.bits
          BY <2>2, <1>5, <1>2, <1>3, <1>n, <1>i, Zenon DEF Same
    <3>2. PassMove(g, as, as, l.r, l.bits, m.r, m.bits)
          BY <3>1, Zenon DEF PassMove
    <3> QED BY <3>1, <3>2, <1>1, <1>5, Zenon DEF MarkMove
  <2> QED BY <2>1, <2>2, Zenon
<1>7. WorkerMove(t, g, ps, ps, "acc_up", l, "find", m)
      BY <1>1, <1>v, Zenon DEF WorkerMove, PassMove
<1>8. HandsIn(t, g, ps, as, "acc_up", l, "find", m)
      BY Zenon, <1>1, <1>2, <1>3, <1>n DEF HandsIn, UnionPasses, ClaimOp, AccOp
<1> QED BY <1>4, <1>6, <1>7, <1>8, Zenon DEF Handles

\* The locals of l that a carrier uses are those of m.
SameCargo(l, m) ==
    m.a = l.a /\ m.r = l.r /\ m.q = l.q /\ m.bits = l.bits /\ m.seen = l.seen

\* A thread in a call of uf_find goes on carrying.
LEMMA Standing ==
    ASSUME NEW t \in Thread, NEW g, NEW k, NEW ps, NEW as, NEW p, NEW l, NEW q,
           NEW m, Tracks(t, g, k, ps, as, p, l), SameCargo(l, m),
           Outer(q, m) = Outer(p, l)
    PROVE  /\ MarkMove(g, as, as, p, l, q, m)
           /\ WorkerMove(t, g, ps, ps, p, l, q, m)
<1>i. \A x \in State : x <= x
      BY NAssumption DEF State
<1> DEFINE w == Outer(p, l)
<1>1. /\ w \in UnionPasses => Same(g, l.q, l.q) /\ Same(g, l.r, l.r)
      /\ w \in AccOp /\ l.r # 0 => Same(g, l.r, l.r)
      /\ w \in {"claim_up", "claim_set"} => Same(g, l.r, l.r)
      BY Zenon DEF Tracks, Same, ClaimOp
<1>2. Outer(q, m) = w
      BY Zenon
<1> HIDE DEF w
<1>3. /\ MarkNode(w, m) = MarkNode(w, l)
      /\ MarkCargo(as, w, m) = MarkCargo(as, w, l)
      /\ WorkerNode(w, m) = WorkerNode(w, l)
      /\ WorkerCargo(ps, t, w, m) = WorkerCargo(ps, t, w, l)
      BY Zenon DEF SameCargo, MarkNode, MarkCargo, WorkerNode, WorkerCargo
<1>4. \/ MarkCargo(as, w, l) = {}
      \/ MarkNode(w, l) \in State
      BY Zenon, <1>1 DEF MarkCargo, MarkNode, UnionPasses, AccOp, Same
<1>5. \/ WorkerCargo(ps, t, w, l) = {}
      \/ WorkerNode(w, l) \in State
      BY Zenon, <1>1 DEF WorkerCargo, WorkerNode, WorkerRead, UnionPasses, Same
<1>6. MarkMove(g, as, as, p, l, q, m)
      BY <1>2, <1>3, <1>4, <1>i, Zenon DEF MarkMove, PassMove, Same, w
<1>7. WorkerMove(t, g, ps, ps, p, l, q, m)
      BY <1>2, <1>3, <1>5, <1>i, Zenon DEF WorkerMove, PassMove, Same, w
<1> QED BY <1>6, <1>7, Zenon

\* uf_find goes on from a state of the same set.
LEMMA HandFindOn ==
    ASSUME NEW t \in Thread, NEW g, NEW k, NEW ps, NEW as, NEW l, NEW m,
           NEW p \in InFind, NEW q \in InFind, Tracks(t, g, k, ps, as, p, l),
           SameCargo(l, m), m.fret = l.fret, Same(g, l.x, m.x)
    PROVE  Handles(t, g, k, ps, as, ps, as, p, l, q, m)
<1>1. Outer(q, m) = Outer(p, l)
      BY Zenon DEF Outer
<1>2. /\ q \notin FromFind \cup AccOp
      /\ q # "union_acc_q" /\ q # "ready"
      BY Zenon DEF InFind, FromFind, AccOp
<1>3. Outer(p, l) \in FromFind => Same(g, From(Outer(q, m), m), m.x)
  <2>1. From(Outer(q, m), m) = From(Outer(p, l), l)
        BY Zenon, <1>1 DEF From, SameCargo
  <2> QED BY <2>1, Zenon DEF Tracks, Same
<1>4. Tracks(t, g, k, ps, as, q, m)
      BY Zenon, <1>1, <1>2, <1>3 DEF Tracks, SameCargo, FromFind, AccOp
<1>5. MarkMove(g, as, as, p, l, q, m) /\ WorkerMove(t, g, ps, ps, p, l, q, m)
      BY <1>1, Standing, Zenon
<1>6. HandsIn(t, g, ps, as, p, l, q, m)
      BY Zenon, <1>1, <1>2 DEF HandsIn, SameCargo
<1> QED BY <1>4, <1>5, <1>6, Zenon DEF Handles

\* uf_find returns the root s.
LEMMA HandFindReturn ==
    ASSUME NEW t \in Thread, NEW g, NEW k, NEW ps, NEW as, NEW l \in Local,
           NEW p \in InFind, Tracks(t, g, k, ps, as, p, l), FindOK(p, l),
           \A y \in State : y <= g[y], NEW s \in State, Same(g, l.x, s),
           g[s] = s, k[s] = 0, NEW m,
           m = [l EXCEPT !.f = s, !.x = 0, !.y = 0, !.fret = ""]
    PROVE  Handles(t, g, k, ps, as, ps, as, p, l, l.fret, m)
<1> DEFINE q == l.fret
<1>i. \A x \in State : x \in Int
      BY NAssumption DEF State
<1>1. SameCargo(l, m) /\ m.f = s
      BY Zenon DEF Local, SameCargo
<1>2. q \in FindReturn \ {""}
      BY Zenon DEF FindOK, Local
<1>3. q \notin InFind \cup {"ready", "acc_or", "union_acc_q"}
      BY Zenon, <1>2 DEF InFind, FindReturn
<1>4. Outer(q, m) = q /\ Outer(p, l) = q
      BY Zenon, <1>3 DEF Outer
<1> HIDE DEF q
<1>5. q \in FromFind => Same(g, From(q, l), s)
  <2>1. q \in FromFind => Same(g, From(q, l), l.x)
        BY Zenon, <1>4 DEF Tracks
  <2> QED BY <2>1, Zenon DEF Same
<1>6. From(q, m) = From(q, l)
      BY Zenon, <1>1 DEF From, SameCargo
<1>7. q \in {"union_acc", "union_set", "claim_set"} => l.r <= s
  <2>1. q \in {"union_acc", "union_set", "claim_set"} => Same(g, l.r, s)
        BY <1>5, Zenon DEF From, FromFind
  <2> QED BY <2>1, Zenon DEF Same
<1>8. q = "acc" /\ l.r # 0 => l.r < s
  <2> SUFFICES ASSUME q = "acc", l.r # 0 PROVE l.r < s
        BY Zenon
  <2>1. Same(g, l.a, l.r) /\ k[l.r] # 0
        BY Zenon, <1>4 DEF Tracks, AccOp
  <2>2. Same(g, l.a, s)
        BY <1>5, Zenon DEF From, FromFind
  <2>3. l.r \in State /\ l.r <= s
        BY <2>1, <2>2, Zenon DEF Same
  <2>4. l.r # s
        BY <2>1, Zenon
  <2> QED BY <2>3, <2>4, <1>i
<1>a. /\ q \in FromFind => Same(g, From(q, m), m.f)
      /\ q \in {"union_acc", "union_set", "claim_set"} => m.r <= m.f
      /\ q \in {"acc", "acc_or"} /\ m.r # 0 => m.r < m.f
      BY Zenon, <1>1, <1>3, <1>5, <1>6, <1>7, <1>8 DEF SameCargo
<1>b. q \notin InFind /\ q # "acc_or" /\ q # "union_acc_q"
      BY Zenon, <1>3
<1>9. Tracks(t, g, k, ps, as, q, m)
      BY Zenon, <1>1, <1>4, <1>a, <1>b DEF Tracks, SameCargo
<1>10. MarkMove(g, as, as, p, l, q, m) /\ WorkerMove(t, g, ps, ps, p, l, q, m)
      BY <1>1, <1>4, Standing, Zenon
<1>11. HandsIn(t, g, ps, as, p, l, q, m)
      BY Zenon, <1>1, <1>3, <1>4 DEF HandsIn, SameCargo
<1>12. Handles(t, g, k, ps, as, ps, as, p, l, q, m)
      BY <1>9, <1>10, <1>11, Zenon DEF Handles
<1> QED BY <1>12, Zenon DEF q

\* Every step of an operation that carries something.
LEMMA OwnStep ==
    ASSUME IInv, NEW t \in Thread, PassStep(t), ~UnionLink(t),
           Knows(Root, pc[t], loc[t]),
           Tracks(t, Root, parent, p_set, acc_set, pc[t], loc[t])
    PROVE  Handles(t, Root, parent, p_set, acc_set, p_set', acc_set',
                   pc[t], loc[t], pc'[t], loc'[t])
<1> DEFINE l == loc[t]
<1>a. /\ loc \in [Thread -> Local] /\ pc \in [Thread -> Label] /\ l \in Local
      /\ DOMAIN p_set = State /\ DOMAIN acc_set = State
      BY Zenon DEF IInv, Typed
<1>b. FindOK(pc[t], l)
      BY Zenon DEF IInv, LocalOK
<1>c. \A y \in State : /\ y <= Root[y]
                       /\ parent[y] = 0 => Root[y] = y
                       /\ parent[y] # 0 => Same(Root, y, parent[y])
  <2>1. Forest(parent) /\ Roots(Root, parent)
        BY IsForest, RootDef, Zenon
  <2> TAKE y \in State
  <2>2. /\ Root[y] \in State /\ Root[y] >= y
        /\ parent[y] = 0 => Root[y] = y
        /\ parent[y] # 0 => parent[y] \in State /\ Root[y] = Root[parent[y]]
        BY <2>1, RootFacts
  <2>3. y <= Root[y]
        BY <2>2, NAssumption, Zenon DEF State
  <2> QED BY <2>2, <2>3, Zenon DEF Same
<1>d. /\ pc[t] \in InFind => l.x \in State
      /\ pc[t] \in {"find_y", "find_write"} => Same(Root, l.x, l.y)
      BY Zenon, <1>b DEF FindOK, Knows
<1>e. {"find", "find_y", "find_write"} = InFind
      BY Zenon DEF InFind
<1>r. pc[t] = "acc_up" => l.r \in State
  <2>1. PickOK(pc[t], l) /\ CallOK(Where(pc[t], l), l)
        BY Zenon DEF IInv, LocalOK
  <2> QED BY Zenon, <2>1 DEF PickOK, CallOK, Where, Outer, InFind, InPick
<1>t. Tracks(t, Root, parent, p_set, acc_set, pc[t], l)
      BY Zenon
<1>1. CASE FindX(t)
  <2>1. p_set' = p_set /\ acc_set' = acc_set /\ pc[t] = "find"
        BY Zenon, <1>1 DEF FindX, sets
  <2>2. CASE parent[l.x] = 0
    <3> DEFINE m == [l EXCEPT !.f = l.x, !.x = 0, !.y = 0, !.fret = ""]
    <3>1. loc'[t] = m /\ pc'[t] = l.fret
          BY Zenon, <1>1, <2>2, <1>a DEF FindX, FindResult, Goto, Assign
    <3>2. l.x \in State /\ Same(Root, l.x, l.x) /\ Root[l.x] = l.x
          BY Zenon, <1>c, <1>d, <1>e, <2>1, <2>2 DEF Same
    <3> HIDE DEF l
    <3>3. Handles(t, Root, parent, p_set, acc_set, p_set, acc_set, "find", l,
                  l.fret, m)
          BY <1>a, <1>b, <1>c, <1>e, <1>t, <2>1, <2>2, <3>2, HandFindReturn, Zenon
    <3> QED BY <2>1, <3>1, <3>3, Zenon DEF l
  <2>3. CASE parent[l.x] # 0
    <3> DEFINE m == [l EXCEPT !.y = parent[l.x]]
    <3>1. loc'[t] = m /\ pc'[t] = "find_y"
          BY Zenon, <1>1, <2>3, <1>a DEF FindX, Goto, Assign
    <3>2. SameCargo(l, m) /\ m.fret = l.fret /\ m.x = l.x
          BY Zenon, <1>a DEF Local, SameCargo
    <3>3. Same(Root, l.x, m.x)
          BY Zenon, <3>2, <2>1, <1>d, <1>e DEF Same
    <3> HIDE DEF m
    <3>4. Handles(t, Root, parent, p_set, acc_set, p_set, acc_set, "find", l,
                  "find_y", m)
          BY <3>2, <3>3, <1>e, <1>t, <2>1, Zenon, HandFindOn
    <3> QED BY <2>1, <3>1, <3>4, Zenon
  <2> QED BY <2>2, <2>3, Zenon
<1>2. CASE FindY(t)
  <2>1. p_set' = p_set /\ acc_set' = acc_set /\ pc[t] = "find_y"
        BY Zenon, <1>2 DEF FindY, sets
  <2>2. CASE parent[l.y] = 0
    <3> DEFINE m == [l EXCEPT !.f = l.y, !.x = 0, !.y = 0, !.fret = ""]
    <3>1. loc'[t] = m /\ pc'[t] = l.fret
          BY Zenon, <1>2, <2>2, <1>a DEF FindY, FindResult, Goto, Assign
    <3>2. l.y \in State /\ Same(Root, l.x, l.y) /\ Root[l.y] = l.y
          BY Zenon, <1>c, <1>d, <2>1, <2>2 DEF Same
    <3> HIDE DEF l
    <3>3. Handles(t, Root, parent, p_set, acc_set, p_set, acc_set, "find_y", l,
                  l.fret, m)
          BY <1>a, <1>b, <1>c, <1>e, <1>t, <2>1, <2>2, <3>2, HandFindReturn, Zenon
    <3> QED BY <2>1, <3>1, <3>3, Zenon DEF l
  <2>3. CASE parent[l.y] # 0
    <3> DEFINE m == [l EXCEPT !.y = parent[l.y]]
    <3>1. loc'[t] = m /\ pc'[t] = "find_write"
          BY Zenon, <1>2, <2>3, <1>a DEF FindY, Goto, Assign
    <3>2. SameCargo(l, m) /\ m.fret = l.fret /\ m.x = l.x
          BY Zenon, <1>a DEF Local, SameCargo
    <3>3. Same(Root, l.x, m.x)
          BY Zenon, <3>2, <2>1, <1>d, <1>e DEF Same
    <3> HIDE DEF m
    <3>4. Handles(t, Root, parent, p_set, acc_set, p_set, acc_set, "find_y", l,
                  "find_write", m)
          BY <3>2, <3>3, <1>e, <1>t, <2>1, Zenon, HandFindOn
    <3> QED BY <2>1, <3>1, <3>4, Zenon
  <2> QED BY <2>2, <2>3, Zenon
<1>3. CASE FindWrite(t)
  <2> DEFINE m == [l EXCEPT !.x = l.y, !.y = 0]
  <2>1. /\ p_set' = p_set /\ acc_set' = acc_set /\ pc[t] = "find_write"
        /\ loc'[t] = m /\ pc'[t] = "find"
        BY Zenon, <1>3, <1>a DEF FindWrite, Goto, Assign, sets
  <2>2. SameCargo(l, m) /\ m.fret = l.fret /\ m.x = l.y
        BY Zenon, <1>a DEF Local, SameCargo
  <2>3. Same(Root, l.x, m.x)
        BY Zenon, <2>1, <2>2, <1>d
  <2> HIDE DEF m
  <2>4. Handles(t, Root, parent, p_set, acc_set, p_set, acc_set, "find_write",
                l, "find", m)
        BY <2>1, <2>2, <2>3, <1>e, <1>t, Zenon, HandFindOn
  <2> QED BY <2>1, <2>4, Zenon
<1>4. CASE UnionAccR(t)
  <2> DEFINE m == [l EXCEPT !.seen = acc_set[l.r]]
  <2>1. /\ loc'[t] = m /\ pc[t] = "union_acc_r" /\ pc'[t] = "union_acc_q"
        /\ acc_set' = acc_set
        /\ p_set' = p_set
        BY Zenon, <1>4, <1>a DEF UnionAccR, Goto, Assign, sets
  <2>2. Tracks(t, Root, parent, p_set, acc_set, "union_acc_r", l)
        BY <2>1, <1>t, Zenon
  <2> HIDE DEF l
  <2>3. Handles(t, Root, parent, p_set, acc_set, p_set, acc_set,
                "union_acc_r", l, "union_acc_q", m)
        BY <2>2, <1>a, HandAccR, Zenon
  <2> QED BY <2>1, <2>3, Zenon DEF l
<1>5. CASE UnionAccQ(t)
  <2>1. CASE acc_set[l.q] \subseteq l.seen
    <3> DEFINE m == [l EXCEPT !.bits = acc_set[l.q]]
    <3>1. /\ loc'[t] = m /\ pc[t] = "union_acc_q" /\ pc'[t] = "union_set_q"
          /\ acc_set' = acc_set
          /\ p_set' = p_set
          BY Zenon, <1>5, <1>a, <2>1 DEF UnionAccQ, Goto, Assign, sets
    <3>2. Tracks(t, Root, parent, p_set, acc_set, "union_acc_q", l)
          BY <3>1, <1>t, Zenon
    <3> HIDE DEF l
    <3>3. Handles(t, Root, parent, p_set, acc_set, p_set, acc_set,
                  "union_acc_q", l, "union_set_q", m)
          BY <3>2, <1>a, <2>1, HandAccQ, Zenon
    <3> QED BY <3>1, <3>3, Zenon DEF l
  <2>2. CASE ~(acc_set[l.q] \subseteq l.seen)
    <3> DEFINE m == [l EXCEPT !.bits = acc_set[l.q]]
    <3>1. /\ loc'[t] = m /\ pc[t] = "union_acc_q" /\ pc'[t] = "union_or_acc"
          /\ acc_set' = acc_set
          /\ p_set' = p_set
          BY Zenon, <1>5, <1>a, <2>2 DEF UnionAccQ, Goto, Assign, sets
    <3>2. Tracks(t, Root, parent, p_set, acc_set, "union_acc_q", l)
          BY <3>1, <1>t, Zenon
    <3> HIDE DEF l
    <3>3. Handles(t, Root, parent, p_set, acc_set, p_set, acc_set,
                  "union_acc_q", l, "union_or_acc", m)
          BY <3>2, <1>a, <2>2, HandAccQOn, Zenon
    <3> QED BY <3>1, <3>3, Zenon DEF l
  <2> QED BY <2>1, <2>2, Zenon
<1>6. CASE UnionOrAcc(t)
  <2> DEFINE m == l
  <2>1. /\ loc'[t] = m /\ pc[t] = "union_or_acc" /\ pc'[t] = "union_up_acc"
        /\ acc_set' = [acc_set EXCEPT ![l.r] = @ \cup l.bits]
        /\ p_set' = p_set
        BY Zenon, <1>6, <1>a DEF UnionOrAcc, Goto, Assign, sets
  <2>2. Tracks(t, Root, parent, p_set, acc_set, "union_or_acc", l)
        BY <2>1, <1>t, Zenon
  <2> HIDE DEF l
  <2>3. Handles(t, Root, parent, p_set, acc_set, p_set, acc_set',
                "union_or_acc", l, "union_up_acc", m)
        BY <2>1, <2>2, <1>a, HandOrAcc, Zenon
  <2> QED BY <2>1, <2>3, Zenon DEF l
<1>7. CASE UnionUpAcc(t)
  <2>1. CASE parent[l.r] = 0
    <3> DEFINE m == l
    <3>1. /\ loc'[t] = m /\ pc[t] = "union_up_acc" /\ pc'[t] = "union_set_q"
          /\ acc_set' = acc_set
          /\ p_set' = p_set
          BY Zenon, <1>7, <1>a, <2>1 DEF UnionUpAcc, Goto, Assign, sets, Find
    <3>2. Tracks(t, Root, parent, p_set, acc_set, "union_up_acc", l)
          BY <3>1, <1>t, Zenon
    <3> HIDE DEF l
    <3>3. Handles(t, Root, parent, p_set, acc_set, p_set, acc_set,
                  "union_up_acc", l, "union_set_q", m)
          BY <3>2, <1>a, <2>1, <1>c, HandUpAcc, Zenon
    <3> QED BY <3>1, <3>3, Zenon DEF l
  <2>2. CASE parent[l.r] # 0
    <3> DEFINE m == [l EXCEPT !.x = l.r, !.fret = "union_acc"]
    <3>1. /\ loc'[t] = m /\ pc[t] = "union_up_acc" /\ pc'[t] = "find"
          /\ acc_set' = acc_set
          /\ p_set' = p_set
          BY Zenon, <1>7, <1>a, <2>2 DEF UnionUpAcc, Goto, Assign, sets, Find
    <3>2. Tracks(t, Root, parent, p_set, acc_set, "union_up_acc", l)
          BY <3>1, <1>t, Zenon
    <3> HIDE DEF l
    <3>3. Handles(t, Root, parent, p_set, acc_set, p_set, acc_set,
                  "union_up_acc", l, "find", m)
          BY <3>2, <1>a, <2>2, HandUpAccOn, Zenon
    <3> QED BY <3>1, <3>3, Zenon DEF l
  <2> QED BY <2>1, <2>2, Zenon
<1>8. CASE UnionAcc(t)
  <2> DEFINE m == [l EXCEPT !.r = l.f]
  <2>1. /\ loc'[t] = m /\ pc[t] = "union_acc" /\ pc'[t] = "union_up_acc"
        /\ acc_set' = [acc_set EXCEPT ![l.f] = @ \cup l.bits]
        /\ p_set' = p_set
        BY Zenon, <1>8, <1>a DEF UnionAcc, Goto, Assign, sets
  <2>2. Tracks(t, Root, parent, p_set, acc_set, "union_acc", l)
        BY <2>1, <1>t, Zenon
  <2> HIDE DEF l
  <2>3. Handles(t, Root, parent, p_set, acc_set, p_set, acc_set',
                "union_acc", l, "union_up_acc", m)
        BY <2>1, <2>2, <1>a, HandAcc, Zenon
  <2> QED BY <2>1, <2>3, Zenon DEF l
<1>9. CASE UnionSetQ(t)
  <2> DEFINE m == [l EXCEPT !.bits = p_set[l.q]]
  <2>1. /\ loc'[t] = m /\ pc[t] = "union_set_q" /\ pc'[t] = "union_set_r"
        /\ acc_set' = acc_set
        /\ p_set' = p_set
        BY Zenon, <1>9, <1>a DEF UnionSetQ, Goto, Assign, sets
  <2>2. Tracks(t, Root, parent, p_set, acc_set, "union_set_q", l)
        BY <2>1, <1>t, Zenon
  <2> HIDE DEF l
  <2>3. Handles(t, Root, parent, p_set, acc_set, p_set, acc_set,
                "union_set_q", l, "union_set_r", m)
        BY <2>2, <1>a, HandSetQ, Zenon
  <2> QED BY <2>1, <2>3, Zenon DEF l
<1>10. CASE UnionSetR(t)
  <2>1. CASE l.bits \subseteq p_set[l.r]
    <3> DEFINE m == l
    <3>1. /\ loc'[t] = m /\ pc[t] = "union_set_r" /\ pc'[t] = "union_unlist_a"
          /\ acc_set' = acc_set
          /\ p_set' = p_set
          BY Zenon, <1>10, <1>a, <2>1 DEF UnionSetR, Goto, Assign, sets
    <3>2. Tracks(t, Root, parent, p_set, acc_set, "union_set_r", l)
          BY <3>1, <1>t, Zenon
    <3> HIDE DEF l
    <3>3. Handles(t, Root, parent, p_set, acc_set, p_set, acc_set,
                  "union_set_r", l, "union_unlist_a", m)
          BY <3>2, <1>a, <2>1, HandSetR, Zenon
    <3> QED BY <3>1, <3>3, Zenon DEF l
  <2>2. CASE ~(l.bits \subseteq p_set[l.r])
    <3> DEFINE m == l
    <3>1. /\ loc'[t] = m /\ pc[t] = "union_set_r" /\ pc'[t] = "union_or_set"
          /\ acc_set' = acc_set
          /\ p_set' = p_set
          BY Zenon, <1>10, <1>a, <2>2 DEF UnionSetR, Goto, Assign, sets
    <3>2. Tracks(t, Root, parent, p_set, acc_set, "union_set_r", l)
          BY <3>1, <1>t, Zenon
    <3> HIDE DEF l
    <3>3. Handles(t, Root, parent, p_set, acc_set, p_set, acc_set,
                  "union_set_r", l, "union_or_set", m)
          BY <3>2, <1>a, <2>2, HandSetROn, Zenon
    <3> QED BY <3>1, <3>3, Zenon DEF l
  <2> QED BY <2>1, <2>2, Zenon
<1>11. CASE UnionOrSet(t)
  <2> DEFINE m == l
  <2>1. /\ loc'[t] = m /\ pc[t] = "union_or_set" /\ pc'[t] = "union_up_set"
        /\ acc_set' = acc_set
        /\ p_set' = [p_set EXCEPT ![l.r] = @ \cup l.bits]
        BY Zenon, <1>11, <1>a DEF UnionOrSet, Goto, Assign, sets
  <2>2. Tracks(t, Root, parent, p_set, acc_set, "union_or_set", l)
        BY <2>1, <1>t, Zenon
  <2> HIDE DEF l
  <2>3. Handles(t, Root, parent, p_set, acc_set, p_set', acc_set,
                "union_or_set", l, "union_up_set", m)
        BY <2>1, <2>2, <1>a, HandOrSet, Zenon
  <2> QED BY <2>1, <2>3, Zenon DEF l
<1>12. CASE UnionUpSet(t)
  <2>1. CASE parent[l.r] = 0
    <3> DEFINE m == l
    <3>1. /\ loc'[t] = m /\ pc[t] = "union_up_set" /\ pc'[t] = "union_unlist_a"
          /\ acc_set' = acc_set
          /\ p_set' = p_set
          BY Zenon, <1>12, <1>a, <2>1 DEF UnionUpSet, Goto, Assign, sets, Find
    <3>2. Tracks(t, Root, parent, p_set, acc_set, "union_up_set", l)
          BY <3>1, <1>t, Zenon
    <3> HIDE DEF l
    <3>3. Handles(t, Root, parent, p_set, acc_set, p_set, acc_set,
                  "union_up_set", l, "union_unlist_a", m)
          BY <3>2, <1>a, <2>1, <1>c, HandUpSet, Zenon
    <3> QED BY <3>1, <3>3, Zenon DEF l
  <2>2. CASE parent[l.r] # 0
    <3> DEFINE m == [l EXCEPT !.x = l.r, !.fret = "union_set"]
    <3>1. /\ loc'[t] = m /\ pc[t] = "union_up_set" /\ pc'[t] = "find"
          /\ acc_set' = acc_set
          /\ p_set' = p_set
          BY Zenon, <1>12, <1>a, <2>2 DEF UnionUpSet, Goto, Assign, sets, Find
    <3>2. Tracks(t, Root, parent, p_set, acc_set, "union_up_set", l)
          BY <3>1, <1>t, Zenon
    <3> HIDE DEF l
    <3>3. Handles(t, Root, parent, p_set, acc_set, p_set, acc_set,
                  "union_up_set", l, "find", m)
          BY <3>2, <1>a, <2>2, HandUpSetOn, Zenon
    <3> QED BY <3>1, <3>3, Zenon DEF l
  <2> QED BY <2>1, <2>2, Zenon
<1>13. CASE UnionSet(t)
  <2> DEFINE m == [l EXCEPT !.r = l.f]
  <2>1. /\ loc'[t] = m /\ pc[t] = "union_set" /\ pc'[t] = "union_up_set"
        /\ acc_set' = acc_set
        /\ p_set' = [p_set EXCEPT ![l.f] = @ \cup l.bits]
        BY Zenon, <1>13, <1>a DEF UnionSet, Goto, Assign, sets
  <2>2. Tracks(t, Root, parent, p_set, acc_set, "union_set", l)
        BY <2>1, <1>t, Zenon
  <2> HIDE DEF l
  <2>3. Handles(t, Root, parent, p_set, acc_set, p_set', acc_set,
                "union_set", l, "union_up_set", m)
        BY <2>1, <2>2, <1>a, HandSet, Zenon
  <2> QED BY <2>1, <2>3, Zenon DEF l
<1>14. CASE Claim(t)
  <2>1. CASE uf_status[l.f] = "UF_DEAD"
    <3> DEFINE m == [NoLocal EXCEPT !.code = "CLAIM_DEAD", !.ret = 0]
    <3>1. /\ loc'[t] = m /\ pc[t] = "claim" /\ pc'[t] = "ready"
          /\ acc_set' = acc_set
          /\ p_set' = p_set
          BY Zenon, <1>14, <1>a, <2>1 DEF Claim, Goto, Assign, sets, ReturnCode, Return
    <3>2. Tracks(t, Root, parent, p_set, acc_set, "claim", l)
          BY <3>1, <1>t, Zenon
    <3> HIDE DEF l
    <3>3. Handles(t, Root, parent, p_set, acc_set, p_set, acc_set,
                  "claim", l, "ready", m)
          BY <3>2, <1>a, <2>1, HandClaimDead, Zenon
    <3> QED BY <3>1, <3>3, Zenon DEF l
  <2>2. CASE uf_status[l.f] # "UF_DEAD"
    <3> DEFINE m == [l EXCEPT !.r = l.f]
    <3>1. /\ loc'[t] = m /\ pc[t] = "claim" /\ pc'[t] = "claim_found"
          /\ acc_set' = acc_set
          /\ p_set' = p_set
          BY Zenon, <1>14, <1>a, <2>2 DEF Claim, Goto, Assign, sets, ReturnCode, Return
    <3>2. Tracks(t, Root, parent, p_set, acc_set, "claim", l)
          BY <3>1, <1>t, Zenon
    <3> HIDE DEF l
    <3>3. Handles(t, Root, parent, p_set, acc_set, p_set, acc_set,
                  "claim", l, "claim_found", m)
          BY <3>2, <1>a, <2>2, HandClaim, Zenon
    <3> QED BY <3>1, <3>3, Zenon DEF l
  <2> QED BY <2>1, <2>2, Zenon
<1>15. CASE ClaimFound(t)
  <2>1. CASE t \in p_set[l.r]
    <3> DEFINE m == [NoLocal EXCEPT !.code = "CLAIM_FOUND", !.ret = 0]
    <3>1. /\ loc'[t] = m /\ pc[t] = "claim_found" /\ pc'[t] = "ready"
          /\ acc_set' = acc_set
          /\ p_set' = p_set
          BY Zenon, <1>15, <1>a, <2>1 DEF ClaimFound, Goto, Assign, sets, ReturnCode, Return
    <3>2. Tracks(t, Root, parent, p_set, acc_set, "claim_found", l)
          BY <3>1, <1>t, Zenon
    <3> HIDE DEF l
    <3>3. Handles(t, Root, parent, p_set, acc_set, p_set, acc_set,
                  "claim_found", l, "ready", m)
          BY <3>2, <1>a, <2>1, HandFound, Zenon
    <3> QED BY <3>1, <3>3, Zenon DEF l
  <2>2. CASE t \notin p_set[l.r]
    <3> DEFINE m == l
    <3>1. /\ loc'[t] = m /\ pc[t] = "claim_found" /\ pc'[t] = "claim_or"
          /\ acc_set' = acc_set
          /\ p_set' = p_set
          BY Zenon, <1>15, <1>a, <2>2 DEF ClaimFound, Goto, Assign, sets, ReturnCode, Return
    <3>2. Tracks(t, Root, parent, p_set, acc_set, "claim_found", l)
          BY <3>1, <1>t, Zenon
    <3> HIDE DEF l
    <3>3. Handles(t, Root, parent, p_set, acc_set, p_set, acc_set,
                  "claim_found", l, "claim_or", m)
          BY <3>2, <1>a, <2>2, HandFoundOn, Zenon
    <3> QED BY <3>1, <3>3, Zenon DEF l
  <2> QED BY <2>1, <2>2, Zenon
<1>16. CASE ClaimOr(t)
  <2> DEFINE m == [l EXCEPT !.first = (p_set[l.r] = {})]
  <2>1. /\ loc'[t] = m /\ pc[t] = "claim_or" /\ pc'[t] = "claim_up"
        /\ acc_set' = acc_set
        /\ p_set' = [p_set EXCEPT ![l.r] = @ \cup {t}]
        BY Zenon, <1>16, <1>a DEF ClaimOr, Goto, Assign, sets
  <2>2. Tracks(t, Root, parent, p_set, acc_set, "claim_or", l)
        BY <2>1, <1>t, Zenon
  <2> HIDE DEF l
  <2>3. Handles(t, Root, parent, p_set, acc_set, p_set', acc_set,
                "claim_or", l, "claim_up", m)
        BY <2>1, <2>2, <1>a, HandClaimOr, Zenon
  <2> QED BY <2>1, <2>3, Zenon DEF l
<1>17. CASE ClaimUp(t)
  <2>1. CASE parent[l.r] = 0
    <3> DEFINE m == [NoLocal EXCEPT !.code = IF l.first THEN "CLAIM_FIRST"
                                               ELSE "CLAIM_SUCCESS",
                                      !.ret = 0]
    <3>1. /\ loc'[t] = m /\ pc[t] = "claim_up" /\ pc'[t] = "ready"
          /\ acc_set' = acc_set
          /\ p_set' = p_set
          BY Zenon, <1>17, <1>a, <2>1 DEF ClaimUp, Goto, Assign, sets, ReturnCode, Return, Find
    <3>2. Tracks(t, Root, parent, p_set, acc_set, "claim_up", l)
          BY <3>1, <1>t, Zenon
    <3> HIDE DEF l
    <3>3. Handles(t, Root, parent, p_set, acc_set, p_set, acc_set,
                  "claim_up", l, "ready", m)
          BY <3>2, <1>a, <2>1, <1>c, HandClaimUp, Zenon
    <3> QED BY <3>1, <3>3, Zenon DEF l
  <2>2. CASE parent[l.r] # 0
    <3> DEFINE m == [l EXCEPT !.x = l.r, !.fret = "claim_set"]
    <3>1. /\ loc'[t] = m /\ pc[t] = "claim_up" /\ pc'[t] = "find"
          /\ acc_set' = acc_set
          /\ p_set' = p_set
          BY Zenon, <1>17, <1>a, <2>2 DEF ClaimUp, Goto, Assign, sets, ReturnCode, Return, Find
    <3>2. Tracks(t, Root, parent, p_set, acc_set, "claim_up", l)
          BY <3>1, <1>t, Zenon
    <3> HIDE DEF l
    <3>3. Handles(t, Root, parent, p_set, acc_set, p_set, acc_set,
                  "claim_up", l, "find", m)
          BY <3>2, <1>a, <2>2, HandClaimUpOn, Zenon
    <3> QED BY <3>1, <3>3, Zenon DEF l
  <2> QED BY <2>1, <2>2, Zenon
<1>18. CASE ClaimSet(t)
  <2> DEFINE m == [l EXCEPT !.r = l.f]
  <2>1. /\ loc'[t] = m /\ pc[t] = "claim_set" /\ pc'[t] = "claim_up"
        /\ acc_set' = acc_set
        /\ p_set' = [p_set EXCEPT ![l.f] = @ \cup {t}]
        BY Zenon, <1>18, <1>a DEF ClaimSet, Goto, Assign, sets
  <2>2. Tracks(t, Root, parent, p_set, acc_set, "claim_set", l)
        BY <2>1, <1>t, Zenon
  <2> HIDE DEF l
  <2>3. Handles(t, Root, parent, p_set, acc_set, p_set', acc_set,
                "claim_set", l, "claim_up", m)
        BY <2>1, <2>2, <1>a, HandClaimSet, Zenon
  <2> QED BY <2>1, <2>3, Zenon DEF l
<1>19. CASE Acc(t)
  <2>1. CASE l.bits \subseteq acc_set[l.f]
    <3> DEFINE m == [NoLocal EXCEPT !.bits = acc_set[l.f]]
    <3>1. /\ loc'[t] = m /\ pc[t] = "acc" /\ pc'[t] = "ready"
          /\ acc_set' = acc_set
          /\ p_set' = p_set
          BY Zenon, <1>19, <1>a, <2>1 DEF Acc, Goto, Assign, sets, ReturnBits, Return
    <3>2. Tracks(t, Root, parent, p_set, acc_set, "acc", l)
          BY <3>1, <1>t, Zenon
    <3> HIDE DEF l
    <3>3. Handles(t, Root, parent, p_set, acc_set, p_set, acc_set,
                  "acc", l, "ready", m)
          BY <3>2, <1>a, <2>1, HandMarked, Zenon
    <3> QED BY <3>1, <3>3, Zenon DEF l
  <2>2. CASE ~(l.bits \subseteq acc_set[l.f])
    <3> DEFINE m == l
    <3>1. /\ loc'[t] = m /\ pc[t] = "acc" /\ pc'[t] = "acc_or"
          /\ acc_set' = acc_set
          /\ p_set' = p_set
          BY Zenon, <1>19, <1>a, <2>2 DEF Acc, Goto, Assign, sets, ReturnBits, Return
    <3>2. Tracks(t, Root, parent, p_set, acc_set, "acc", l)
          BY <3>1, <1>t, Zenon
    <3> HIDE DEF l
    <3>3. Handles(t, Root, parent, p_set, acc_set, p_set, acc_set,
                  "acc", l, "acc_or", m)
          BY <3>2, <1>a, <2>2, HandMarkedOn, Zenon
    <3> QED BY <3>1, <3>3, Zenon DEF l
  <2> QED BY <2>1, <2>2, Zenon
<1>20. CASE AccOr(t)
  <2> DEFINE m == [l EXCEPT !.r = l.f, !.seen = acc_set'[l.f]]
  <2>1. /\ loc'[t] = m /\ pc[t] = "acc_or" /\ pc'[t] = "acc_up"
        /\ acc_set' = [acc_set EXCEPT ![l.f] = @ \cup l.bits]
        /\ p_set' = p_set
        BY Zenon, <1>20, <1>a DEF AccOr, Goto, Assign, sets
  <2>2. Tracks(t, Root, parent, p_set, acc_set, "acc_or", l)
        BY <2>1, <1>t, Zenon
  <2> HIDE DEF l
  <2>3. Handles(t, Root, parent, p_set, acc_set, p_set, acc_set',
                "acc_or", l, "acc_up", m)
        BY <2>1, <2>2, <1>a, HandAccOr, Zenon
  <2> QED BY <2>1, <2>3, Zenon DEF l
<1>21. CASE AccUp(t)
  <2>1. CASE parent[l.r] = 0
    <3> DEFINE m == [NoLocal EXCEPT !.bits = l.seen]
    <3>1. /\ loc'[t] = m /\ pc[t] = "acc_up" /\ pc'[t] = "ready"
          /\ acc_set' = acc_set
          /\ p_set' = p_set
          BY Zenon, <1>21, <1>a, <2>1 DEF AccUp, Goto, Assign, sets, ReturnBits, Return, Find
    <3>2. Tracks(t, Root, parent, p_set, acc_set, "acc_up", l)
          BY <3>1, <1>t, Zenon
    <3> HIDE DEF l
    <3>3. Handles(t, Root, parent, p_set, acc_set, p_set, acc_set,
                  "acc_up", l, "ready", m)
          BY <3>1, <3>2, <1>a, <2>1, <1>c, <1>r, HandAccUp, Zenon
    <3> QED BY <3>1, <3>3, Zenon DEF l
  <2>2. CASE parent[l.r] # 0
    <3> DEFINE m == [l EXCEPT !.x = l.a, !.fret = "acc"]
    <3>1. /\ loc'[t] = m /\ pc[t] = "acc_up" /\ pc'[t] = "find"
          /\ acc_set' = acc_set
          /\ p_set' = p_set
          BY Zenon, <1>21, <1>a, <2>2 DEF AccUp, Goto, Assign, sets, ReturnBits, Return, Find
    <3>2. Tracks(t, Root, parent, p_set, acc_set, "acc_up", l)
          BY <3>1, <1>t, Zenon
    <3> HIDE DEF l
    <3>3. Handles(t, Root, parent, p_set, acc_set, p_set, acc_set,
                  "acc_up", l, "find", m)
          BY <3>1, <3>2, <1>a, <2>2, <1>r, HandAccUpOn, Zenon
    <3> QED BY <3>1, <3>3, Zenon DEF l
  <2> QED BY <2>1, <2>2, Zenon
<1> QED BY Zenon, <1>1, <1>2, <1>3, <1>4, <1>5, <1>6, <1>7, <1>8, <1>9, <1>10, <1>11, <1>12,
        <1>13, <1>14, <1>15, <1>16, <1>17, <1>18, <1>19, <1>20, <1>21
        DEF PassStep

-----------------------------------------------------------------------------
(* The invariant                                                           *)

\* Every thread knows what it carries, and what is at no root is carried; a
\* claim or mark that was handed in is at some state of its set; and a thread
\* that claims or marks does so for the state it was called with.
CarriersKnow ==
    \A t \in Thread : Tracks(t, Root, parent, p_set, acc_set, pc[t], loc[t])

MarksPassed ==
    Passed(Root, acc_set, MarkNodes(pc, loc), MarkCargos(acc_set, pc, loc))

WorkersPassed ==
    Passed(Root, p_set, WorkerNodes(pc, loc), WorkerCargos(p_set, pc, loc))

HandedIn ==
    /\ claimed \in [Thread -> SUBSET State]
    /\ marked \in [State -> Bits]
    /\ \A t \in Thread : \A s \in claimed[t] :
          \E y \in State : Same(Root, s, y) /\ t \in p_set[y]
    /\ \A s \in State : \A b \in marked[s] :
          \E y \in State : Same(Root, s, y) /\ b \in acc_set[y]

Calls(c, p, l) ==
    p # "ready" =>
       /\ c.op = "claim" => Outer(p, l) \in ClaimOp /\ l.a = c.a
       /\ c.op = "acc" => Outer(p, l) \in AccOp /\ l.a = c.a

InCalls ==
    /\ call \in [Thread -> CallRecord]
    /\ \A t \in Thread : Calls(call[t], pc[t], loc[t])

PassInv ==
    /\ SetsInv
    /\ CarriersKnow
    /\ MarksPassed
    /\ WorkersPassed
    /\ HandedIn
    /\ InCalls

LEMMA NotReady ==
    ASSUME NEW t \in Thread, UFStep(t)
    PROVE  pc[t] # "ready"
    BY Zenon DEF UFStep, FindX, FindY, FindWrite, Got, SameA, SameB,
           SameCheck, PickA, PickNext, PickB, PickC, PickWrite,
           MarkDead, MarkDeadCas, MarkDeadRoot, MarkDeadCheck, Picked,
           RemoveRead, RemoveCas, UnionA, UnionB, UnionLock, UnionRoot,
           UnionRetry, UnionListA, UnionCasA, UnionListB, UnionCasB,
           UnionUnlist, UnionFail, UnionSwap, UnionLink, UnionAccR,
           UnionAccQ, UnionOrAcc, UnionUpAcc, UnionAcc, UnionSetQ,
           UnionSetR, UnionOrSet, UnionUpSet, UnionSet, UnionUnlistA,
           UnionUnlistB, UnionUnlock, Claim, ClaimFound, ClaimOr,
           ClaimUp, ClaimSet, Acc, AccOr, AccUp

\* A move of one thread keeps the bits on their way.
LEMMA MovePassed ==
    ASSUME NEW g, NEW S, NEW T, NEW n, NEW c, NEW o, NEW d, NEW t \in Thread,
           Passed(g, S, n, c), OthersCarry(t, n, c, o, d), DOMAIN S = State,
           \A y \in State : g[y] \in State,
           PassMove(g, S, T, n[t], c[t], o[t], d[t])
    PROVE  Passed(g, T, o, d)
<1>1. CASE T = S /\ c[t] = {}
      BY <1>1, Carrying, Zenon
<1>2. CASE T = S /\ c[t] \subseteq d[t] /\ Same(g, n[t], o[t]) /\ n[t] <= o[t]
      BY <1>2, Carrying, Zenon
<1>3. CASE T = S /\ \E s \in State : /\ c[t] \subseteq S[s] /\ Same(g, n[t], s)
                                     /\ g[s] = s \/ n[t] < s
      BY <1>3, Stopping, Zenon
<1>4. CASE /\ o[t] \in State /\ T = [S EXCEPT ![o[t]] = @ \cup d[t]]
           /\ \/ c[t] = {}
              \/ c[t] \subseteq d[t] /\ Same(g, n[t], o[t]) /\ n[t] <= o[t]
  <2>1. Adds(S, T, o[t], d[t])
        BY <1>4, Zenon DEF Adds
  <2> QED BY <1>4, <2>1, Writing
<1> QED BY <1>1, <1>2, <1>3, <1>4, Zenon DEF PassMove

\* What a thread knows of what it carries stays true: sets and bits only grow,
\* and a state with a parent keeps one.
LEMMA TracksMore ==
    ASSUME NEW t, NEW g, NEW h, NEW k, NEW n, NEW ps, NEW PS, NEW as, NEW AS,
           NEW p, NEW l, Coarser(g, h), Tracks(t, g, k, ps, as, p, l),
           \A s \in State : /\ k[s] # 0 => n[s] # 0
                            /\ ps[s] \subseteq PS[s]
                            /\ as[s] \subseteq AS[s]
    PROVE  Tracks(t, h, n, PS, AS, p, l)
<1>1. \A s, u : Same(g, s, u) => Same(h, s, u)
      BY Zenon DEF Same, Coarser
<1>2. /\ Outer(p, l) \in UnionPasses \cup (ClaimOp \ {"claim"}) => l.r \in State
      /\ Outer(p, l) \in AccOp /\ l.r # 0 => l.r \in State
      BY Zenon DEF Tracks, Same
<1>3. /\ p = "union_acc_q" => l.r \in State
      /\ Outer(p, l) \in {"union_up_acc", "union_acc", "union_up_set",
                          "union_set", "claim_up", "claim_set"} => l.r \in State
      BY Zenon, <1>2 DEF Outer, InFind, UnionPasses, ClaimOp
<1> QED BY Zenon, <1>1, <1>2, <1>3 DEF Tracks

\* A thread that carries nothing has nothing to know.
LEMMA TracksNothing ==
    ASSUME NEW t, NEW g, NEW k, NEW ps, NEW as, NEW p, NEW l,
           Outer(p, l) \notin Tracked
    PROVE  Tracks(t, g, k, ps, as, p, l)
<1>1. p \notin FromFind /\ p \notin AccOp /\ p # "union_acc_q"
      BY Zenon DEF Outer, Tracked, FromFind, UnionPasses, ClaimOp, AccOp, InFind
<1>2. Outer(p, l) \notin FromFind
      BY Zenon DEF Tracked, FromFind, UnionPasses, ClaimOp, AccOp
<1> QED BY Zenon, <1>1, <1>2
        DEF Tracks, Tracked, UnionPasses, ClaimOp, AccOp, FromFind

LEMMA CarriesNothing ==
    ASSUME NEW S, NEW t, NEW w, NEW l, w \notin Tracked
    PROVE  MarkCargo(S, w, l) = {} /\ WorkerCargo(S, t, w, l) = {}
    BY Zenon DEF MarkCargo, WorkerCargo, WorkerRead, Tracked, UnionPasses,
                 ClaimOp, AccOp

\* What a thread carries only grows with the bits at the states.
LEMMA CargoGrows ==
    ASSUME NEW t, NEW g, NEW k, NEW ps, NEW PS, NEW as, NEW AS, NEW p, NEW l,
           Tracks(t, g, k, ps, as, p, l),
           \A s \in State : ps[s] \subseteq PS[s] /\ as[s] \subseteq AS[s]
    PROVE  /\ MarkCargo(as, Outer(p, l), l) \subseteq MarkCargo(AS, Outer(p, l), l)
           /\ WorkerCargo(ps, t, Outer(p, l), l)
                 \subseteq WorkerCargo(PS, t, Outer(p, l), l)
<1>1. Outer(p, l) \in UnionPasses => l.q \in State
      BY Zenon DEF Tracks, Same
<1>2. /\ Outer(p, l) \in {"union_acc_r", "union_acc_q"} => l.q \in State
      /\ Outer(p, l) \in UnionPasses \ WorkerRead => l.q \in State
      BY Zenon, <1>1 DEF UnionPasses
<1> QED BY Zenon, <1>2 DEF MarkCargo, WorkerCargo

\* A step leaves the roots alone, except the link of a union.
LEMMA RootKept ==
    ASSUME IInv, NEW t \in Thread, UFStep(t), ~UnionLink(t),
           Knows(Root, pc[t], loc[t])
    PROVE  Root' = Root
<1>1. CASE parent' = parent
      BY <1>1, SameParent, Zenon
<1>2. CASE FindWrite(t)
  <2>1. \A s \in State : Root'[s] = Root[s]
        BY <1>2, FindWriteRoots, Zenon
  <2>2. Roots(Root, parent) /\ Roots(Root', parent')
        BY IsForest, RootDef, IsForestNext, RootDefNext, Zenon
  <2>3. /\ Root = [s \in State |-> Root[s]]
        /\ Root' = [s \in State |-> Root'[s]]
        BY <2>2, Zenon DEF Roots
  <2> QED BY <2>1, <2>3, Zenon
<1> QED BY <1>1, <1>2, Writers, Zenon

\* The sets of workers and marks only grow.
LEMMA BitsGrow ==
    ASSUME IInv, NEW t \in Thread, UFStep(t)
    PROVE  \A s \in State : p_set[s] \subseteq p_set'[s] /\ acc_set[s] \subseteq acc_set'[s]
<1>a. DOMAIN p_set = State /\ DOMAIN acc_set = State
      BY Zenon DEF IInv, Typed
<1>b. \A S, x, b : DOMAIN S = State =>
         \A s \in State : S[s] \subseteq [S EXCEPT ![x] = @ \cup b][s]
      BY Zenon
<1>1. p_set' = p_set \/ \E x, b : p_set' = [p_set EXCEPT ![x] = @ \cup b]
      BY Zenon, Writers DEF UnionOrSet, UnionSet, ClaimOr, ClaimSet
<1>2. acc_set' = acc_set \/ \E x, b : acc_set' = [acc_set EXCEPT ![x] = @ \cup b]
      BY Zenon, Writers DEF UnionOrAcc, UnionAcc, AccOr
<1>3. \A s \in State : p_set[s] \subseteq p_set'[s]
      BY <1>a, <1>b, <1>1, Zenon
<1>4. \A s \in State : acc_set[s] \subseteq acc_set'[s]
      BY <1>a, <1>b, <1>2, Zenon
<1> QED BY <1>3, <1>4, Zenon

\* Every step but the link of a union.
LEMMA AnyStep ==
    ASSUME IInv, NEW t \in Thread, UFStep(t), ~UnionLink(t),
           Knows(Root, pc[t], loc[t]),
           Tracks(t, Root, parent, p_set, acc_set, pc[t], loc[t])
    PROVE  Handles(t, Root, parent, p_set, acc_set, p_set', acc_set',
                   pc[t], loc[t], pc'[t], loc'[t])
<1>1. CASE PassStep(t)
      BY <1>1, OwnStep, Zenon
<1>2. CASE ~PassStep(t)
  <2>1. /\ Outer(pc[t], loc[t]) \notin Tracked
        /\ Outer(pc'[t], loc'[t]) \notin Tracked
        /\ p_set' = p_set /\ acc_set' = acc_set
        BY <1>2, AsideStep, Zenon
  <2>2. Tracks(t, Root, parent, p_set', acc_set', pc'[t], loc'[t])
        BY <2>1, TracksNothing, Zenon
  <2>3. MarkMove(Root, acc_set, acc_set', pc[t], loc[t], pc'[t], loc'[t])
        BY <2>1, CarriesNothing, Zenon DEF MarkMove, PassMove
  <2>4. WorkerMove(t, Root, p_set, p_set', pc[t], loc[t], pc'[t], loc'[t])
        BY <2>1, CarriesNothing, Zenon DEF WorkerMove, PassMove
  <2>5. HandsIn(t, Root, p_set', acc_set', pc[t], loc[t], pc'[t], loc'[t])
        BY <2>1, Zenon DEF HandsIn, Tracked
  <2> QED BY <2>2, <2>3, <2>4, <2>5, Zenon DEF Handles
<1> QED BY <1>1, <1>2, Zenon

LEMMA OthersGoOn ==
    ASSUME IInv, CarriersKnow, NEW t \in Thread, UFStep(t)
    PROVE  /\ OthersCarry(t, MarkNodes(pc, loc), MarkCargos(acc_set, pc, loc),
                          MarkNodes(pc', loc'), MarkCargos(acc_set', pc', loc'))
           /\ OthersCarry(t, WorkerNodes(pc, loc), WorkerCargos(p_set, pc, loc),
                          WorkerNodes(pc', loc'),
                          WorkerCargos(p_set', pc', loc'))
<1>1. ASSUME NEW u \in Thread, u # t
      PROVE  /\ MarkNodes(pc', loc')[u] = MarkNodes(pc, loc)[u]
             /\ WorkerNodes(pc', loc')[u] = WorkerNodes(pc, loc)[u]
             /\ MarkCargos(acc_set, pc, loc)[u]
                   \subseteq MarkCargos(acc_set', pc', loc')[u]
             /\ WorkerCargos(p_set, pc, loc)[u]
                   \subseteq WorkerCargos(p_set', pc', loc')[u]
  <2>1. pc'[u] = pc[u] /\ loc'[u] = loc[u]
        BY <1>1, Others, Zenon
  <2>2. Tracks(u, Root, parent, p_set, acc_set, pc[u], loc[u])
        BY Zenon DEF CarriersKnow
  <2>3. /\ MarkCargo(acc_set, Outer(pc[u], loc[u]), loc[u])
              \subseteq MarkCargo(acc_set', Outer(pc[u], loc[u]), loc[u])
        /\ WorkerCargo(p_set, u, Outer(pc[u], loc[u]), loc[u])
              \subseteq WorkerCargo(p_set', u, Outer(pc[u], loc[u]), loc[u])
        BY <2>2, BitsGrow, CargoGrows
  <2> QED BY <2>1, <2>3, Zenon
          DEF MarkNodes, MarkCargos, WorkerNodes, WorkerCargos
<1> QED BY <1>1, Zenon DEF OthersCarry

\* The bits are on their way after every step but the link.
LEMMA StepPassed ==
    ASSUME IInv, NEW t \in Thread, UFStep(t), ~UnionLink(t), CarriersKnow,
           Knows(Root, pc[t], loc[t]), MarksPassed, WorkersPassed
    PROVE  MarksPassed' /\ WorkersPassed'
<1>1. Root' = Root
      BY RootKept, Zenon
<1>2. Handles(t, Root, parent, p_set, acc_set, p_set', acc_set',
              pc[t], loc[t], pc'[t], loc'[t])
      BY AnyStep, Zenon DEF CarriersKnow
<1>3. DOMAIN p_set = State /\ DOMAIN acc_set = State
      BY Zenon DEF IInv, Typed
<1>4. \A y \in State : Root[y] \in State
      BY IsForest, RootDef, RootFacts, Zenon
<1> DEFINE n == MarkNodes(pc, loc)
           o == MarkNodes(pc', loc')
           c == MarkCargos(acc_set, pc, loc)
           d == MarkCargos(acc_set', pc', loc')
<1>5. PassMove(Root, acc_set, acc_set', n[t], c[t], o[t], d[t])
      BY <1>2, Zenon DEF Handles, MarkMove, MarkNodes, MarkCargos
<1>6. OthersCarry(t, n, c, o, d) /\ Passed(Root, acc_set, n, c)
      BY OthersGoOn, Zenon DEF MarksPassed
<1> HIDE DEF n, o, c, d
<1>7. Passed(Root, acc_set', o, d)
      BY <1>3, <1>4, <1>5, <1>6, MovePassed, Zenon
<1> DEFINE wn == WorkerNodes(pc, loc)
           wo == WorkerNodes(pc', loc')
           wc == WorkerCargos(p_set, pc, loc)
           wd == WorkerCargos(p_set', pc', loc')
<1>8. PassMove(Root, p_set, p_set', wn[t], wc[t], wo[t], wd[t])
      BY <1>2, Zenon DEF Handles, WorkerMove, WorkerNodes, WorkerCargos
<1>9. OthersCarry(t, wn, wc, wo, wd) /\ Passed(Root, p_set, wn, wc)
      BY OthersGoOn, Zenon DEF WorkersPassed
<1> HIDE DEF wn, wo, wc, wd
<1>10. Passed(Root, p_set', wo, wd)
      BY <1>3, <1>4, <1>8, <1>9, MovePassed, Zenon
<1>11. MarksPassed'
      BY <1>1, <1>7, Zenon DEF MarksPassed, o, d
<1>12. WorkersPassed'
      BY <1>1, <1>10, Zenon DEF WorkersPassed, wo, wd
<1> QED BY <1>11, <1>12, Zenon

\* The link makes its thread responsible for all that is at q.
LEMMA LinkPassed ==
    ASSUME IInv, NEW t \in Thread, UFStep(t), UnionLink(t), CarriersKnow,
           MarksPassed, WorkersPassed
    PROVE  /\ MarksPassed' /\ WorkersPassed'
           /\ Tracks(t, Root', parent', p_set', acc_set', pc'[t], loc'[t])
           /\ Outer(pc[t], loc[t]) \notin Tracked /\ pc'[t] # "ready"
           /\ Outer(pc'[t], loc'[t]) \notin ClaimOp \cup AccOp
<1> DEFINE l == loc[t]
           q == l.q
           r == l.r
<1>1. /\ pc[t] = "union_link" /\ pc'[t] = "union_acc_r" /\ loc' = loc
      /\ p_set' = p_set /\ acc_set' = acc_set
      BY Zenon DEF UnionLink, Goto, sets, IInv, Typed
<1>2. /\ q \in State /\ r \in State /\ Root[q] = q
      /\ \A y \in State : Root'[y] = IF Root[y] = q THEN Root[r] ELSE Root[y]
      BY LinkRoots, Zenon
<1>3. q < r
      BY Here, Zenon
<1>4. /\ Outer(pc[t], l) = "union_link"
      /\ Outer(pc'[t], l) = "union_acc_r"
      BY <1>1, Zenon DEF Outer, InFind
<1>5. \A y \in State : Root[y] \in State /\ y <= Root[y]
  <2> TAKE y \in State
  <2>1. Root[y] \in State /\ Root[y] >= y
        BY IsForest, RootDef, RootFacts, Zenon
  <2> QED BY <2>1, NAssumption, Zenon DEF State
<1>6. "union_link" \notin Tracked
      BY Zenon DEF Tracked, UnionPasses, ClaimOp, AccOp
<1>7. /\ MarkNodes(pc', loc')[t] = q
      /\ MarkCargos(acc_set', pc', loc')[t] = acc_set[q]
      /\ WorkerNodes(pc', loc')[t] = q
      /\ WorkerCargos(p_set', pc', loc')[t] = p_set[q]
      BY <1>1, <1>4, Zenon DEF MarkNodes, MarkCargos, WorkerNodes, WorkerCargos,
         MarkNode, MarkCargo, WorkerNode, WorkerCargo, UnionPasses, WorkerRead
<1>8. /\ MarkCargos(acc_set, pc, loc)[t] = {}
      /\ WorkerCargos(p_set, pc, loc)[t] = {}
      BY <1>4, <1>6, CarriesNothing, Zenon DEF MarkCargos, WorkerCargos
<1> HIDE DEF q, r
<1>9. Passed(Root', acc_set, MarkNodes(pc', loc'),
             MarkCargos(acc_set', pc', loc'))
      BY <1>2, <1>5, <1>7, <1>8, OthersGoOn, Joining DEF MarksPassed
<1>10. Passed(Root', p_set, WorkerNodes(pc', loc'),
             WorkerCargos(p_set', pc', loc'))
      BY <1>2, <1>5, <1>7, <1>8, OthersGoOn, Joining DEF WorkersPassed
<1>11. MarksPassed' /\ WorkersPassed'
      BY <1>1, <1>9, <1>10, Zenon DEF MarksPassed, WorkersPassed
<1>12. Root'[q] = Root'[r]
      BY <1>2, Zenon
<1>13. Same(Root', l.q, l.r) /\ l.q < l.r
      BY <1>2, <1>3, <1>12, Zenon DEF Same, q, r
<1>14. Tracks(t, Root', parent', p_set', acc_set', "union_acc_r", l)
  <2>1. Outer("union_acc_r", l) = "union_acc_r"
        BY Zenon DEF Outer, InFind
  <2> QED BY Zenon, <1>13, <2>1
          DEF Tracks, UnionPasses, ClaimOp, AccOp, FromFind, InFind
<1> QED BY <1>1, <1>4, <1>6, <1>11, <1>14, Zenon DEF ClaimOp, AccOp

\* What the threads know after a step.
LEMMA StepKnow ==
    ASSUME IInv, NEW t \in Thread, UFStep(t), CarriersKnow,
           Knows(Root, pc[t], loc[t]), MarksPassed, WorkersPassed
    PROVE  CarriersKnow'
<1>1. Coarser(Root, Root')
      BY SetsStep, Zenon
<1>2. \A s \in State : /\ parent[s] # 0 => parent'[s] # 0
                       /\ p_set[s] \subseteq p_set'[s]
                       /\ acc_set[s] \subseteq acc_set'[s]
      BY BitsGrow, Stays, Zenon
<1> SUFFICES ASSUME NEW u \in Thread
             PROVE  Tracks(u, Root', parent', p_set', acc_set', pc'[u], loc'[u])
      BY Zenon DEF CarriersKnow
<1>3. CASE u # t
  <2>1. pc'[u] = pc[u] /\ loc'[u] = loc[u]
        BY <1>3, Others, Zenon
  <2>2. Tracks(u, Root, parent, p_set, acc_set, pc[u], loc[u])
        BY Zenon DEF CarriersKnow
  <2>3. Tracks(u, Root', parent', p_set', acc_set', pc[u], loc[u])
        BY <1>1, <1>2, <2>2, TracksMore, Zenon
  <2> QED BY <2>1, <2>3, Zenon
<1>4. CASE u = t /\ UnionLink(t)
      BY <1>4, LinkPassed, Zenon
<1>5. CASE u = t /\ ~UnionLink(t)
  <2>1. Tracks(t, Root, parent, p_set', acc_set', pc'[t], loc'[t])
        BY <1>5, AnyStep, Zenon DEF CarriersKnow, Handles
  <2>2. \A s \in State : /\ parent[s] # 0 => parent'[s] # 0
                         /\ p_set'[s] \subseteq p_set'[s]
                         /\ acc_set'[s] \subseteq acc_set'[s]
        BY <1>2, Zenon
  <2>3. Tracks(t, Root', parent', p_set', acc_set', pc'[t], loc'[t])
        BY <1>1, <2>1, <2>2, TracksMore, Zenon
  <2> QED BY <1>5, <2>3, Zenon
<1> QED BY <1>3, <1>4, <1>5, Zenon

\* The operation a thread is in, and what it has handed in when it returns.
LEMMA StepCalls ==
    ASSUME IInv, NEW t \in Thread, UFStep(t), CarriersKnow,
           Knows(Root, pc[t], loc[t]), MarksPassed, WorkersPassed,
           Calls(call[t], pc[t], loc[t])
    PROVE  /\ Calls(call[t], pc'[t], loc'[t])
           /\ Returns(t, "claim") /\ loc'[t].code # "CLAIM_DEAD" =>
                 \E y \in State : Same(Root, call[t].a, y) /\ t \in p_set'[y]
           /\ Returns(t, "acc") =>
                 \E y \in State : /\ Same(Root, call[t].a, y)
                                  /\ loc[t].bits \subseteq acc_set'[y]
<1>1. /\ call[t].op = "claim" =>
            Outer(pc[t], loc[t]) \in ClaimOp /\ loc[t].a = call[t].a
      /\ call[t].op = "acc" =>
            Outer(pc[t], loc[t]) \in AccOp /\ loc[t].a = call[t].a
      BY NotReady, Zenon DEF Calls
<1>2. CASE UnionLink(t)
  <2>1. Outer(pc[t], loc[t]) \notin Tracked
        BY <1>2, LinkPassed, Zenon
  <2> QED BY <1>1, <2>1, Zenon DEF Tracked, Calls, Returns
<1>3. CASE ~UnionLink(t)
  <2>1. HandsIn(t, Root, p_set', acc_set', pc[t], loc[t], pc'[t], loc'[t])
        BY <1>3, AnyStep, Zenon DEF CarriersKnow, Handles
  <2> QED BY <1>1, <2>1, Zenon DEF HandsIn, Calls, Returns
<1> QED BY <1>2, <1>3, Zenon

LEMMA StepHandedIn ==
    ASSUME PassInv, NEW t \in Thread, Step(t)
    PROVE  HandedIn' /\ InCalls'
<1>0. UFStep(t)
      BY Zenon DEF Step
<1>1. /\ IInv /\ Knows(Root, pc[t], loc[t]) /\ CarriersKnow
      /\ MarksPassed /\ WorkersPassed /\ HandedIn /\ InCalls
      BY Zenon DEF PassInv, SetsInv
<1>2. /\ Calls(call[t], pc'[t], loc'[t])
      /\ Returns(t, "claim") /\ loc'[t].code # "CLAIM_DEAD" =>
            \E y \in State : Same(Root, call[t].a, y) /\ t \in p_set'[y]
      /\ Returns(t, "acc") =>
            \E y \in State : /\ Same(Root, call[t].a, y)
                             /\ loc[t].bits \subseteq acc_set'[y]
      BY <1>0, <1>1, StepCalls, Zenon DEF InCalls
<1>3. \A s, u : Same(Root, s, u) => Same(Root', s, u)
      BY <1>0, <1>1, SetsStep, Zenon DEF Same, Coarser
<1>4. \A s \in State : p_set[s] \subseteq p_set'[s] /\ acc_set[s] \subseteq acc_set'[s]
      BY <1>0, <1>1, BitsGrow, Zenon
<1>5. /\ claimed \in [Thread -> SUBSET State] /\ marked \in [State -> Bits]
      /\ loc[t].bits \in Bits
      BY <1>1, Zenon DEF HandedIn, IInv, Typed, Local
<1>c. InCalls'
  <2>1. call' = call
        BY Zenon DEF Step
  <2>2. ASSUME NEW u \in Thread
        PROVE  Calls(call[u], pc'[u], loc'[u])
    <3>1. CASE u = t
          BY <3>1, <1>2, Zenon
    <3>2. CASE u # t
          BY <3>2, <1>0, <1>1, Others, Zenon DEF InCalls
    <3> QED BY <3>1, <3>2, Zenon
  <2> QED BY <2>1, <2>2, <1>1, Zenon DEF InCalls
<1>6. CASE Returns(t, "claim") /\ loc'[t].code # "CLAIM_DEAD"
  <2>1. claimed' = [claimed EXCEPT ![t] = @ \cup {call[t].a}] /\ marked' = marked
        BY <1>6, Zenon DEF Step, Returns
  <2>2. PICK y \in State : Same(Root', call[t].a, y) /\ t \in p_set'[y]
        BY <1>2, <1>3, <1>6, Zenon
  <2>3. claimed' \in [Thread -> SUBSET State]
        BY <1>5, <2>1, <2>2, Zenon DEF Same
  <2>4. ASSUME NEW u \in Thread, NEW x \in claimed'[u]
        PROVE  \E z \in State : Same(Root', x, z) /\ u \in p_set'[z]
    <3>1. CASE x \in claimed[u]
          BY <3>1, <1>1, <1>3, <1>4, Zenon DEF HandedIn
    <3>2. CASE x \notin claimed[u]
          BY <3>2, <2>1, <2>2, <2>4, <1>5, Zenon
    <3> QED BY <3>1, <3>2, Zenon
  <2>5. ASSUME NEW x \in State, NEW b \in marked'[x]
        PROVE  \E z \in State : Same(Root', x, z) /\ b \in acc_set'[z]
        BY <2>1, <2>5, <1>1, <1>3, <1>4, Zenon DEF HandedIn
  <2> QED BY <2>1, <2>3, <2>4, <2>5, <1>5, <1>c, Zenon DEF HandedIn
<1>7. CASE ~(Returns(t, "claim") /\ loc'[t].code # "CLAIM_DEAD")
  <2>1. claimed' = claimed
        BY <1>7, Zenon DEF Step
  <2>2. ASSUME NEW u \in Thread, NEW x \in claimed'[u]
        PROVE  \E z \in State : Same(Root', x, z) /\ u \in p_set'[z]
        BY <2>1, <2>2, <1>1, <1>3, <1>4, Zenon DEF HandedIn
  <2>3. CASE Returns(t, "acc")
    <3>1. marked' = [marked EXCEPT ![call[t].a] = @ \cup loc[t].bits]
          BY <2>3, Zenon DEF Step
    <3>2. PICK y \in State : /\ Same(Root', call[t].a, y)
                             /\ loc[t].bits \subseteq acc_set'[y]
          BY <1>2, <1>3, <2>3, Zenon
    <3>3. call[t].a \in State
          BY <3>2, Zenon DEF Same
    <3>4. marked' \in [State -> Bits]
      <4>1. marked[call[t].a] \cup loc[t].bits \in Bits
            BY <1>5, <3>3, Zenon DEF Bits
      <4> QED BY <1>5, <3>1, <3>3, <4>1, Zenon
    <3>5. ASSUME NEW x \in State, NEW b \in marked'[x]
          PROVE  \E z \in State : Same(Root', x, z) /\ b \in acc_set'[z]
      <4>1. CASE b \in marked[x]
            BY <4>1, <1>1, <1>3, <1>4, Zenon DEF HandedIn
      <4>2. CASE b \notin marked[x]
        <5>1. x = call[t].a /\ b \in loc[t].bits
              BY <4>2, <3>1, <3>3, <3>5, <1>5, Zenon
        <5> QED BY <5>1, <3>2, Zenon
      <4> QED BY <4>1, <4>2, Zenon
    <3> QED BY <2>1, <2>2, <3>4, <3>5, <1>5, <1>c, Zenon DEF HandedIn
  <2>4. CASE ~Returns(t, "acc")
    <3>1. marked' = marked
          BY <2>4, Zenon DEF Step
    <3>2. ASSUME NEW x \in State, NEW b \in marked'[x]
          PROVE  \E z \in State : Same(Root', x, z) /\ b \in acc_set'[z]
          BY <3>1, <3>2, <1>1, <1>3, <1>4, Zenon DEF HandedIn
    <3> QED BY <2>1, <2>2, <3>1, <3>2, <1>5, <1>c, Zenon DEF HandedIn
  <2> QED BY <2>3, <2>4, Zenon
<1> QED BY <1>6, <1>7, Zenon

-----------------------------------------------------------------------------
(* The calls                                                               *)

\* An operation starts with nothing to carry.
LEMMA BeginsEmpty ==
    ASSUME NEW op, NEW a \in State, NEW b \in State, NEW p, NEW m,
           Begins(op, a, b, p, m), NEW t, NEW g, NEW k, NEW ps, NEW as
    PROVE  /\ Tracks(t, g, k, ps, as, p, m)
           /\ MarkCargo(as, Outer(p, m), m) = {}
           /\ WorkerCargo(ps, t, Outer(p, m), m) = {}
<1>1. CASE op \in DOMAIN Entry /\ p = "find"
  <2>1. m.fret = Entry[op] /\ m.x = a /\ m.a = a /\ m.r = 0
        BY <1>1, Zenon DEF Begins
  <2>2. Outer(p, m) = Entry[op]
        BY <1>1, <2>1, Zenon DEF Outer, InFind
  <2>3. Entry[op] \in {"got", "same_a", "union_a", "claim", "acc"}
        BY <1>1 DEF Entry
  <2>4. CASE Entry[op] \in {"got", "same_a", "union_a"}
    <3>1. Outer(p, m) \notin Tracked
          BY <2>2, <2>4, Zenon DEF Tracked, UnionPasses, ClaimOp, AccOp
    <3> QED BY <3>1, TracksNothing, CarriesNothing, Zenon
  <2>5. CASE Entry[op] \in {"claim", "acc"}
    <3>1. Same(g, m.a, m.x)
          BY <2>1, Zenon DEF Same
    <3>2. /\ p \notin FromFind /\ p \notin AccOp /\ p # "union_acc_q"
          /\ Outer(p, m) \notin UnionPasses
          /\ Outer(p, m) \notin ClaimOp \ {"claim"}
          /\ From(Outer(p, m), m) = m.a
          BY <1>1, <2>2, <2>5, Zenon
          DEF FromFind, AccOp, ClaimOp, UnionPasses, From
    <3>3. Tracks(t, g, k, ps, as, p, m)
          BY <2>1, <3>1, <3>2, Zenon
          DEF Tracks, FromFind, AccOp, UnionPasses, ClaimOp
    <3>4. MarkCargo(as, Outer(p, m), m) = {}
          BY <2>1, <2>2, <2>5, Zenon DEF MarkCargo
    <3>5. WorkerCargo(ps, t, Outer(p, m), m) = {}
          BY <2>2, <2>5, <3>2, Zenon DEF WorkerCargo, WorkerRead
    <3> QED BY <3>3, <3>4, <3>5, Zenon
  <2> QED BY <2>3, <2>4, <2>5, Zenon
<1>2. CASE p \in {"ready", "pick_a", "remove"}
  <2>1. Outer(p, m) \notin Tracked
        BY <1>2, Zenon DEF Outer, InFind, Tracked, UnionPasses, ClaimOp, AccOp
  <2> QED BY <1>2, <2>1, TracksNothing, CarriesNothing, Zenon
<1> QED BY <1>1, <1>2, Zenon DEF Begins

LEMMA BeginsCall ==
    ASSUME NEW op, NEW a, NEW b, NEW p, NEW m, Begins(op, a, b, p, m)
    PROVE  /\ op = "claim" => Outer(p, m) \in ClaimOp /\ m.a = a
           /\ op = "acc" => Outer(p, m) \in AccOp /\ m.a = a
<1>1. Entry["claim"] = "claim" /\ Entry["acc"] = "acc"
      BY Zenon DEF Entry
<1>2. op \in {"claim", "acc"} =>
         Outer(p, m) = Entry[op] /\ m.a = a
      BY Zenon DEF Begins, Outer, InFind
<1> QED BY <1>1, <1>2, Zenon DEF ClaimOp, AccOp

LEMMA CallPassed ==
    ASSUME PassInv, NEW t \in Thread, Call(t)
    PROVE  CarriersKnow' /\ MarksPassed' /\ WorkersPassed' /\ HandedIn'
           /\ InCalls'
<1>1. IInv /\ CarriersKnow /\ MarksPassed /\ WorkersPassed /\ HandedIn /\ InCalls
      BY Zenon DEF PassInv, SetsInv
<1>2. PICK op \in Operation, a, b \in State :
         Begins(op, a, b, pc'[t], loc'[t]) /\ Invoke(t, op, a, b)
      BY <1>1, CallBegins, Zenon
<1>3. /\ parent' = parent /\ Root' = Root
      /\ \A u \in Thread : u # t => pc'[u] = pc[u] /\ loc'[u] = loc[u]
      BY <1>1, CallFrame, Zenon
<1>4. p_set' = p_set /\ acc_set' = acc_set /\ pc[t] = "ready"
  <2>1. PICK m, p : Enter(t, m, p)
        BY <1>1, CallStarts, Zenon
  <2> QED BY <2>1, Zenon DEF Enter, sets
<1>5. /\ Tracks(t, Root, parent, p_set, acc_set, pc'[t], loc'[t])
      /\ MarkCargo(acc_set, Outer(pc'[t], loc'[t]), loc'[t]) = {}
      /\ WorkerCargo(p_set, t, Outer(pc'[t], loc'[t]), loc'[t]) = {}
      /\ op = "claim" => /\ Outer(pc'[t], loc'[t]) \in ClaimOp
                         /\ loc'[t].a = a
      /\ op = "acc" => /\ Outer(pc'[t], loc'[t]) \in AccOp
                       /\ loc'[t].a = a
  <2> DEFINE p == pc'[t]
             m == loc'[t]
  <2>1. Begins(op, a, b, p, m)
        BY <1>2, Zenon
  <2> HIDE DEF p, m
  <2>2. /\ Tracks(t, Root, parent, p_set, acc_set, p, m)
        /\ MarkCargo(acc_set, Outer(p, m), m) = {}
        /\ WorkerCargo(p_set, t, Outer(p, m), m) = {}
        BY <2>1, BeginsEmpty, Zenon
  <2>3. /\ op = "claim" => Outer(p, m) \in ClaimOp /\ m.a = a
        /\ op = "acc" => Outer(p, m) \in AccOp /\ m.a = a
        BY <2>1, BeginsCall, Zenon
  <2> QED BY <2>2, <2>3, Zenon DEF p, m
<1>6. Outer(pc[t], loc[t]) \notin Tracked
      BY <1>4, Zenon DEF Outer, InFind, Tracked, UnionPasses, ClaimOp, AccOp
<1>7. /\ MarkCargos(acc_set, pc, loc)[t] = {}
      /\ WorkerCargos(p_set, pc, loc)[t] = {}
      BY <1>6, CarriesNothing, Zenon DEF MarkCargos, WorkerCargos
<1>8. /\ OthersCarry(t, MarkNodes(pc, loc), MarkCargos(acc_set, pc, loc),
                     MarkNodes(pc', loc'), MarkCargos(acc_set, pc', loc'))
      /\ OthersCarry(t, WorkerNodes(pc, loc), WorkerCargos(p_set, pc, loc),
                     WorkerNodes(pc', loc'), WorkerCargos(p_set, pc', loc'))
      BY <1>3, Zenon DEF OthersCarry, MarkNodes, MarkCargos, WorkerNodes, WorkerCargos
<1>9. Passed(Root, acc_set, MarkNodes(pc', loc'),
             MarkCargos(acc_set, pc', loc'))
      BY <1>1, <1>7, <1>8, Carrying, Zenon DEF MarksPassed
<1>10. Passed(Root, p_set, WorkerNodes(pc', loc'),
             WorkerCargos(p_set, pc', loc'))
      BY <1>1, <1>7, <1>8, Carrying, Zenon DEF WorkersPassed
<1>11. MarksPassed' /\ WorkersPassed'
      BY <1>3, <1>4, <1>9, <1>10, Zenon DEF MarksPassed, WorkersPassed
<1>12. CarriersKnow'
      BY <1>1, <1>3, <1>4, <1>5, Zenon DEF CarriersKnow
<1>13. HandedIn'
  <2>1. claimed' = claimed /\ marked' = marked
        BY <1>2, Zenon DEF Invoke
  <2> QED BY <1>1, <1>3, <1>4, <2>1, Zenon DEF HandedIn
<1>14. InCalls'
  <2> DEFINE c == [op |-> op, a |-> a, b |-> b, same |-> SameSet(a, b),
                   gone |-> {x \in State : list_status[x] = "LIST_TOMB"}]
  <2>1. call' = [call EXCEPT ![t] = c]
        BY <1>2, Zenon DEF Invoke
  <2>2. c \in CallRecord
        BY Refs, Zenon DEF CallRecord, SameSet
  <2>3. c.op = op /\ c.a = a
        BY Zenon
  <2> HIDE DEF c
  <2>4. /\ call' \in [Thread -> CallRecord] /\ call'[t] = c
        /\ \A u \in Thread : u # t => call'[u] = call[u]
        BY <1>1, <2>1, <2>2, Zenon DEF InCalls
  <2>5. ASSUME NEW u \in Thread
        PROVE  Calls(call'[u], pc'[u], loc'[u])
    <3>1. CASE u = t
          BY <3>1, <1>5, <2>3, <2>4, Zenon DEF Calls
    <3>2. CASE u # t
          BY <3>2, <1>1, <1>3, <2>4, Zenon DEF InCalls
    <3> QED BY <3>1, <3>2, Zenon
  <2> QED BY <2>4, <2>5, Zenon DEF InCalls
<1> QED BY <1>11, <1>12, <1>13, <1>14, Zenon

-----------------------------------------------------------------------------
(* The theorems                                                            *)

LEMMA InitPassed == Init => PassInv
<1> SUFFICES ASSUME Init
             PROVE  PassInv
      BY Zenon
<1>1. SetsInv
      BY InitSets, Zenon
<1>2. \A t \in Thread : pc[t] = "ready" /\ Outer(pc[t], loc[t]) \notin Tracked
      BY Zenon DEF Init, UFInit, Outer, InFind, Tracked, UnionPasses, ClaimOp,
                   AccOp
<1>3. CarriersKnow
      BY <1>2, TracksNothing, Zenon DEF CarriersKnow
<1>4. \A s \in State : p_set[s] = {} /\ acc_set[s] = {}
      BY Zenon DEF Init, UFInit
<1>5. MarksPassed /\ WorkersPassed
      BY <1>4, Zenon DEF MarksPassed, WorkersPassed, Passed
<1>6. HandedIn
      BY Zenon DEF Init, HandedIn, Bits
<1>7. InCalls
  <2>1. [op |-> "none", a |-> 0, b |-> 0, same |-> TRUE, gone |-> {}]
           \in CallRecord
        BY Refs, Zenon DEF CallRecord
  <2> QED BY <1>2, <2>1, Zenon DEF Init, InCalls, Calls
<1> QED BY <1>1, <1>3, <1>5, <1>6, <1>7, Zenon DEF PassInv

LEMMA NextPassed == PassInv /\ [Next]_vars => PassInv'
<1> SUFFICES ASSUME PassInv, [Next]_vars
             PROVE  PassInv'
      BY Zenon
<1>1. SetsInv'
      BY NextSets, Zenon DEF PassInv
<1> DEFINE Rest == /\ CarriersKnow /\ MarksPassed /\ WorkersPassed
                   /\ HandedIn /\ InCalls
<1>2. ASSUME NEW t \in Thread, Call(t)
      PROVE  Rest'
      BY <1>2, CallPassed, Zenon
<1>3. ASSUME NEW t \in Thread, Step(t)
      PROVE  Rest'
  <2>1. /\ UFStep(t) /\ IInv /\ Knows(Root, pc[t], loc[t])
        /\ CarriersKnow /\ MarksPassed /\ WorkersPassed
        BY <1>3, Zenon DEF Step, PassInv, SetsInv
  <2>2. MarksPassed' /\ WorkersPassed'
        BY <2>1, StepPassed, LinkPassed, Zenon
  <2>3. CarriersKnow'
        BY <2>1, StepKnow, Zenon
  <2>4. HandedIn' /\ InCalls'
        BY <1>3, StepHandedIn, Zenon
  <2> QED BY <2>2, <2>3, <2>4, Zenon
<1>4. ASSUME UNCHANGED vars
      PROVE  Rest'
  <2>1. /\ Root' = Root /\ pc' = pc /\ loc' = loc /\ parent' = parent
        /\ p_set' = p_set /\ acc_set' = acc_set /\ claimed' = claimed
        /\ marked' = marked /\ call' = call
        BY <1>4, SameParent, Zenon DEF vars, ufvars, forest, sets, history
  <2> QED BY <2>1, Zenon DEF PassInv, CarriersKnow, MarksPassed, WorkersPassed,
                      HandedIn, InCalls
<1>5. Rest'
      BY <1>2, <1>3, <1>4, Zenon DEF Next, Quiet
<1> QED BY <1>1, <1>5, Zenon DEF PassInv

\* Where nobody carries anything any more, everything is at the root.
LEMMA Arrived ==
    ASSUME NEW g, NEW S, NEW n, NEW c, Passed(g, S, n, c), NEW b,
           \A u \in Thread : b \notin c[u],
           NEW s, NEW y \in State, Same(g, s, y), b \in S[y]
    PROVE  b \in S[g[s]]
    BY Zenon DEF Passed, Same

LEMMA PassedOn == PassInv => NothingLost
<1> SUFFICES ASSUME PassInv, \A t \in Thread : ~Propagating(t)
             PROVE  /\ \A t \in Thread :
                          \/ At(t) \in {"claim_or", "claim_up", "claim_set"}
                          \/ \A s \in claimed[t] : t \in p_set[Root[s]]
                    /\ (\A t \in Thread : At(t) \notin {"acc", "acc_or", "acc_up"})
                          => \A s \in State : marked[s] \subseteq acc_set[Root[s]]
      BY Zenon DEF NothingLost
<1>1. IInv /\ MarksPassed /\ WorkersPassed /\ HandedIn
      BY Zenon DEF PassInv, SetsInv
<1>2. ASSUME NEW u \in Thread, Outer(pc[u], loc[u]) \in Tracked
      PROVE  At(u) = Outer(pc[u], loc[u])
  <2>1. PickOK(pc[u], loc[u])
        BY <1>1, Zenon DEF IInv, LocalOK
  <2>2. loc[u].pret = ""
        BY Zenon, <1>2, <2>1 DEF PickOK, InPick, Tracked, UnionPasses, ClaimOp,
                                 AccOp
  <2> QED BY <2>2, Zenon DEF At, Outer, InFind
<1>3. \A u \in Thread : Outer(pc[u], loc[u]) \notin UnionPasses
      BY Zenon, <1>2 DEF Tracked, Propagating, UnionPasses
<1>4. ASSUME NEW t \in Thread,
             At(t) \notin {"claim_or", "claim_up", "claim_set"},
             NEW s \in claimed[t]
      PROVE  t \in p_set[Root[s]]
  <2>1. PICK y \in State : Same(Root, s, y) /\ t \in p_set[y]
        BY <1>1, <1>4, Zenon DEF HandedIn
  <2>2. ASSUME NEW u \in Thread
        PROVE  t \notin WorkerCargos(p_set, pc, loc)[u]
    <3>1. /\ Outer(pc[u], loc[u]) \notin UnionPasses
          /\ Outer(pc[u], loc[u]) \notin WorkerRead
          BY <1>3, Zenon DEF UnionPasses, WorkerRead
    <3>2. u = t => Outer(pc[u], loc[u]) \notin {"claim_up", "claim_set"}
          BY <1>2, <1>4, Zenon DEF Tracked, ClaimOp
    <3> QED BY <3>1, <3>2, Zenon DEF WorkerCargos, WorkerCargo
  <2> QED BY <1>1, <2>1, <2>2, Arrived, Zenon DEF WorkersPassed
<1>5. ASSUME \A u \in Thread : At(u) \notin {"acc", "acc_or", "acc_up"},
             NEW s \in State, NEW b \in marked[s]
      PROVE  b \in acc_set[Root[s]]
  <2>1. PICK y \in State : Same(Root, s, y) /\ b \in acc_set[y]
        BY <1>1, <1>5, Zenon DEF HandedIn
  <2>2. ASSUME NEW u \in Thread
        PROVE  b \notin MarkCargos(acc_set, pc, loc)[u]
    <3>1. Outer(pc[u], loc[u]) \notin
             {"union_acc_r", "union_acc_q", "union_or_acc", "union_up_acc",
              "union_acc"}
          BY <1>3, Zenon DEF UnionPasses
    <3>2. Outer(pc[u], loc[u]) \notin AccOp
          BY <1>2, <1>5, Zenon DEF Tracked, AccOp
    <3> QED BY <3>1, <3>2, Zenon DEF MarkCargos, MarkCargo
  <2> QED BY <1>1, <2>1, <2>2, Arrived, Zenon DEF MarksPassed
<1> QED BY <1>4, <1>5, Zenon

\* What is not at a root is carried there by a thread, whatever the others do
\* (unionfind.c, uf_union, uf_make_claim and uf_add_acc).
THEOREM PassInductive == Spec => []PassInv
<1> QED BY InitPassed, NextPassed, PTL DEF Spec

\* No claim and no acceptance mark is lost, for any number of states and
\* workers and any calls: once no union passes anything on, each worker is in
\* the worker set of the representative of every state it has claimed, and the
\* acceptance set of the representative has all marks of the set, except for
\* what a call that is still running is about to write (unionfind.c, uf_union,
\* uf_make_claim and uf_add_acc).
THEOREM NothingIsLost == Spec => []NothingLost
<1> QED BY PassInductive, PassedOn, PTL

=============================================================================
