-------------------------- MODULE UFAnswersProofs ---------------------------
(***************************************************************************)
(* Proofs that uf_find, uf_sameset and uf_union answer what the sets say   *)
(* (SetAnswers), for any number of states and threads and any calls, while *)
(* the other threads change the forest between any two accesses.  The      *)
(* sets only grow, so a state found to be in a set stays in it, and a root *)
(* that is still a root was one all the time since it was found: that is   *)
(* why uf_sameset may answer no.  And each union that returns true merged  *)
(* two sets that no other union did (MergesCounted).                       *)
(***************************************************************************)
EXTENDS UFSetsProofs, FiniteSetTheorems

UnionOp == {"union_a", "union_b"} \cup Before \cup AfterLink

\* The operation of call c, at p with locals l, is about the sets of the
\* arguments of c, and answers about them; g are the roots and k the parents.
\* In the second half of uf_sameset, a representative of a that is still a root
\* and not the one of b shows that the sets were different at the call.
Serves(g, k, c, p, l) ==
    /\ c.op = "find" =>
          IF p = "ready" THEN Same(g, c.a, l.ret)
          ELSE Where(p, l) = "got" /\ l.a = c.a
    /\ c.op = "same" =>
          /\ c.same => Same(g, c.a, c.b)
          /\ IF p = "ready" THEN IF l.v THEN Same(g, c.a, c.b) ELSE ~c.same
             ELSE /\ Where(p, l) \in SameOp
                  /\ Same(g, c.a, l.a) /\ Same(g, c.b, l.b)
          /\ p = "same_b" /\ k[l.a_r] = 0 /\ l.a_r # l.f => ~c.same
          /\ p = "same_check" /\ k[l.a_r] = 0 => ~c.same
    /\ c.op = "union" =>
          IF p = "ready" THEN l.v => Same(g, c.a, c.b)
          ELSE Where(p, l) \in UnionOp /\ l.a = c.a /\ l.b = c.b

\* The inductive invariant.
AnswersInv ==
    /\ SetsInv
    /\ call \in [Thread -> CallRecord]
    /\ \A t \in Thread : Serves(Root, parent, call[t], pc[t], loc[t])

-----------------------------------------------------------------------------
(* What an operation has found out stays true                              *)

LEMMA ServesMore ==
    ASSUME NEW g, NEW h, NEW k, NEW n, NEW c, NEW p, NEW l, Coarser(g, h),
           \A s \in State : k[s] # 0 => n[s] # 0,
           p \in {"same_b", "same_check"} => l.a_r \in State,
           Serves(g, k, c, p, l)
    PROVE  Serves(h, n, c, p, l)
<1>1. \A s, u : Same(g, s, u) => Same(h, s, u)
      BY DEF Coarser, Same
<1>2. p \in {"same_b", "same_check"} /\ n[l.a_r] = 0 => k[l.a_r] = 0
      OBVIOUS
<1> QED BY Zenon, <1>1, <1>2 DEF Serves

\* The operations that are not about sets, and uf_union after its last uf_find
\* for a representative.
LEMMA PlainServes ==
    ASSUME NEW g, NEW k, NEW c, NEW p, NEW l, NEW q, NEW m, p # "ready",
           Plain(p, l, q, m), q = "ready" => m.pret = "",
           Knows(g, p, l), Serves(g, k, c, p, l)
    PROVE  Serves(g, k, c, q, m)
<1>1. /\ Where(p, l) \notin FindFrom \cup {"same_check"}
      /\ q \notin {"same_b", "same_check"}
      BY Zenon DEF Plain, FindFrom
<1>2. c.op \notin {"find", "same"}
      BY Zenon, <1>1 DEF Serves, FindFrom, SameOp
<1>3. ASSUME c.op = "union"
      PROVE  IF q = "ready" THEN m.v => Same(g, c.a, c.b)
             ELSE Where(q, m) \in UnionOp /\ m.a = c.a /\ m.b = c.b
  <2>1. /\ Where(p, l) \in Before \cup AfterLink
        /\ l.a = c.a /\ l.b = c.b
        BY Zenon, <1>1, <1>3 DEF Serves, UnionOp, FindFrom
  <2>2. CASE Where(q, m) \in Before \cup AfterLink
    <3>1. m.a = c.a /\ m.b = c.b
          BY Zenon, <2>1, <2>2 DEF Plain
    <3>2. q # "ready"
      <4>1. q = "ready" => Where(q, m) = "ready"
            BY Zenon DEF Where, Outer, InFind
      <4> QED BY Zenon, <2>2, <4>1 DEF Before, BeforeLink, AfterLink
    <3> QED BY <2>2, <3>1, <3>2, Zenon DEF UnionOp
  <2>3. CASE q = "ready" /\ (m.v <=> Where(p, l) \in AfterLink)
        BY Zenon, <2>1, <2>3 DEF Knows
  <2> QED BY Zenon, <2>1, <2>2, <2>3 DEF Plain
<1> QED BY Zenon, <1>2, <1>3 DEF Serves

LEMMA FindGoesOnServes ==
    ASSUME NEW g, NEW k, NEW c, NEW l, NEW m, NEW p \in InFind,
           NEW q \in InFind, SameCall(l, m), m.fret = l.fret,
           Serves(g, k, c, p, l)
    PROVE  Serves(g, k, c, q, m)
<1>1. Where(q, m) = Where(p, l)
      BY Zenon DEF Where, Outer, SameCall
<1>2. /\ p \notin {"ready", "same_b", "same_check"}
      /\ q \notin {"ready", "same_b", "same_check"}
      BY Zenon DEF InFind
<1>3. m.a = l.a /\ m.b = l.b
      BY DEF SameCall
<1> QED BY Zenon, <1>1, <1>2, <1>3 DEF Serves

Tops(g, k) == \A u \in State : k[u] = 0 => g[u] = u

\* uf_find returns s, a root at this moment.  When it is the representative of
\* b and that of a is a root too, the two tell whether the sets are the same.
LEMMA FindReturnServes ==
    ASSUME NEW g, NEW k, NEW c, NEW l \in Local, NEW p \in InFind, NEW s, NEW m,
           m = [l EXCEPT !.f = s, !.x = 0, !.y = 0, !.fret = ""],
           FindOK(p, l), PickOK(p, l), Knows(g, p, l), Same(g, l.x, s),
           k[s] = 0, Tops(g, k),
           Serves(g, k, c, p, l)
    PROVE  Serves(g, k, c, l.fret, m)
<1> DEFINE q == l.fret
<1>1. SameCall(l, m) /\ m.f = s
      BY Zenon DEF Local, SameCall
<1>2. q \in FindReturn \ {""}
      BY Zenon DEF FindOK, Local
<1>3. q \notin InFind \cup {"ready", "same_check"}
      BY Zenon, <1>2 DEF InFind, FindReturn
<1>4. Where(q, m) = Where(p, l)
      BY Zenon, <1>1, <1>3 DEF Where, Outer, SameCall
<1>5. m.a = l.a /\ m.b = l.b /\ m.a_r = l.a_r
      BY <1>1 DEF SameCall
<1>6. p \notin {"ready", "same_b", "same_check"}
      BY Zenon DEF InFind
<1>7. ASSUME c.op = "same", q = "same_b", k[m.a_r] = 0, m.a_r # m.f
      PROVE  ~c.same
  <2>1. Where(p, l) = "same_b"
        BY Zenon, <1>7 DEF PickOK, Where, Outer, InPick
  <2>2. Same(g, l.a, l.a_r) /\ Same(g, l.b, l.x)
        BY Zenon, <2>1 DEF Knows, FindFrom, Arg
  <2>3. /\ Same(g, c.a, l.a) /\ Same(g, c.b, l.b)
        /\ c.same => Same(g, c.a, c.b)
        BY Zenon, <1>6, <1>7 DEF Serves
  <2> QED BY <2>2, <2>3, <1>1, <1>5, <1>7 DEF Same, Tops
<1> HIDE DEF q
<1>8. Serves(g, k, c, q, m)
      BY Zenon, <1>3, <1>4, <1>5, <1>6, <1>7 DEF Serves
<1> QED BY <1>8 DEF q

LEMMA FindServes ==
    ASSUME IInv, NEW t \in Thread, FindX(t) \/ FindY(t) \/ FindWrite(t),
           Knows(Root, pc[t], loc[t]), NEW c,
           Serves(Root, parent, c, pc[t], loc[t])
    PROVE  Serves(Root, parent, c, pc'[t], loc'[t])
<1> DEFINE l == loc[t]
<1>a. loc \in [Thread -> Local] /\ pc \in [Thread -> Label] /\ l \in Local
      BY DEF IInv, Typed
<1>b. /\ FindOK(pc[t], l) /\ PickOK(pc[t], l) /\ Knows(Root, pc[t], l)
      /\ Serves(Root, parent, c, pc[t], l)
      BY DEF IInv, LocalOK
<1>c. /\ pc[t] \in InFind /\ l.x \in State
      /\ pc[t] # "find" => Same(Root, l.x, l.y)
      BY Zenon, <1>b DEF FindX, FindY, FindWrite, FindOK, InFind, Knows
<1>d. Tops(Root, parent)
      BY IsForest, RootDef, RootFacts DEF Tops
<1>e. \A q : q \in {"find", "find_y", "find_write"} => q \in InFind
      BY DEF InFind
<1>1. CASE FindX(t)
  <2>1. CASE parent[l.x] = 0
    <3>1. /\ loc'[t] = [l EXCEPT !.f = l.x, !.x = 0, !.y = 0, !.fret = ""]
          /\ pc'[t] = l.fret
          BY Zenon, <1>1, <2>1, <1>a DEF FindX, FindResult, Goto, Assign
    <3>2. Same(Root, l.x, l.x)
          BY <1>c DEF Same
    <3>3. l \in Local
          BY <1>a
    <3> HIDE DEF l
    <3> QED BY <3>1, <3>2, <3>3, <2>1, <1>b, <1>c, <1>d, FindReturnServes, Zenon
  <2>2. CASE parent[l.x] # 0
    <3> DEFINE m == [l EXCEPT !.y = parent[l.x]]
    <3>1. loc'[t] = m /\ pc'[t] = "find_y"
          BY Zenon, <1>1, <2>2, <1>a DEF FindX, Goto, Assign
    <3>2. SameCall(l, m) /\ m.fret = l.fret
          BY Zenon, <1>a DEF Local, SameCall
    <3> HIDE DEF m, l
    <3> QED BY <3>1, <3>2, <1>b, <1>c, <1>e, FindGoesOnServes
  <2> QED BY <2>1, <2>2
<1>2. CASE FindY(t)
  <2>1. CASE parent[l.y] = 0
    <3>1. /\ loc'[t] = [l EXCEPT !.f = l.y, !.x = 0, !.y = 0, !.fret = ""]
          /\ pc'[t] = l.fret
          BY Zenon, <1>2, <2>1, <1>a DEF FindY, FindResult, Goto, Assign
    <3>2. Same(Root, l.x, l.y)
          BY <1>2, <1>c DEF FindY
    <3>3. l \in Local
          BY <1>a
    <3> HIDE DEF l
    <3> QED BY <3>1, <3>2, <3>3, <2>1, <1>b, <1>c, <1>d, FindReturnServes, Zenon
  <2>2. CASE parent[l.y] # 0
    <3> DEFINE m == [l EXCEPT !.y = parent[l.y]]
    <3>1. loc'[t] = m /\ pc'[t] = "find_write"
          BY Zenon, <1>2, <2>2, <1>a DEF FindY, Goto, Assign
    <3>2. SameCall(l, m) /\ m.fret = l.fret
          BY Zenon, <1>a DEF Local, SameCall
    <3> HIDE DEF m, l
    <3> QED BY <3>1, <3>2, <1>b, <1>c, <1>e, FindGoesOnServes
  <2> QED BY <2>1, <2>2
<1>3. CASE FindWrite(t)
  <2> DEFINE m == [l EXCEPT !.x = l.y, !.y = 0]
  <2>1. loc'[t] = m /\ pc'[t] = "find"
        BY Zenon, <1>3, <1>a DEF FindWrite, Goto, Assign
  <2>2. SameCall(l, m) /\ m.fret = l.fret
        BY Zenon, <1>a DEF Local, SameCall
  <2> HIDE DEF m, l
  <2> QED BY <2>1, <2>2, <1>b, <1>c, <1>e, FindGoesOnServes
<1> QED BY <1>1, <1>2, <1>3

\* The steps of uf_sameset and uf_union between two calls of uf_find, the link
\* included, and the return of uf_find.
LEMMA OpServes ==
    ASSUME IInv, NEW t \in Thread, Knows(Root, pc[t], loc[t]), NEW c,
           Serves(Root, parent, c, pc[t], loc[t]),
           \/ Got(t) \/ SameA(t) \/ SameB(t) \/ SameCheck(t) \/ UnionA(t)
           \/ UnionB(t) \/ UnionLock(t) \/ UnionRetry(t) \/ UnionLink(t)
    PROVE  Serves(Root, parent, c, pc'[t], loc'[t])
<1> DEFINE l == loc[t]
<1>a. loc \in [Thread -> Local] /\ pc \in [Thread -> Label] /\ l \in Local
      BY DEF IInv, Typed
<1>b. l.pret = "" /\ Where(pc[t], l) = pc[t] /\ pc[t] # "ready"
  <2>1. PickOK(pc[t], l)
        BY DEF IInv, LocalOK
  <2> QED BY Zenon, <2>1
          DEF PickOK, Where, Outer, InFind, InPick, Got, SameA, SameB,
              SameCheck, UnionA, UnionB, UnionLock, UnionRetry, UnionLink
<1>c. Knows(Root, pc[t], l) /\ Serves(Root, parent, c, pc[t], l)
      OBVIOUS
<1>1. CASE Got(t)
  <2> DEFINE m == [NoLocal EXCEPT !.code = "", !.ret = l.f]
  <2>1. loc'[t] = m /\ pc'[t] = "ready"
        BY Zenon, <1>1, <1>a DEF Got, Return, ReturnCode, Goto, Assign
  <2>2. m.ret = l.f
        BY Zenon, NoLocalType DEF Local
  <2>3. pc[t] = "got" /\ Same(Root, l.a, l.f)
        BY Zenon, <1>1, <1>c DEF Got, Knows, FindFrom, Arg
  <2>4. c.op \notin {"same", "union"} /\ (c.op = "find" => l.a = c.a)
        BY Zenon, <2>3, <1>b, <1>c
        DEF Serves, SameOp, UnionOp, Before, BeforeLink, AfterLink
  <2> HIDE DEF m, l
  <2> QED BY Zenon, <2>1, <2>2, <2>3, <2>4 DEF Serves
<1>2. ASSUME SameA(t) \/ SameB(t) \/ SameCheck(t)
      PROVE  /\ c.op \notin {"find", "union"}
             /\ c.op = "same" => /\ Same(Root, c.a, l.a) /\ Same(Root, c.b, l.b)
                                 /\ c.same => Same(Root, c.a, c.b)
      BY Zenon, <1>2, <1>b, <1>c
      DEF Serves, SameA, SameB, SameCheck, UnionOp, Before, BeforeLink, AfterLink
<1>3. CASE SameA(t)
  <2> DEFINE m == [l EXCEPT !.a_r = l.f, !.x = l.b, !.fret = "same_b"]
  <2>1. loc'[t] = m /\ pc'[t] = "find"
        BY Zenon, <1>3, <1>a DEF SameA, Goto, Assign
  <2>2. m.pret = "" /\ m.fret = "same_b" /\ m.a = l.a /\ m.b = l.b
        BY Zenon, <1>a, <1>b DEF Local
  <2> HIDE DEF m, l
  <2>3. Where("find", m) = "same_b"
        BY Zenon, <2>2 DEF Where, Outer, InFind
  <2> QED BY Zenon, <2>1, <2>2, <2>3, <1>2, <1>3 DEF Serves, SameOp
<1>4. CASE SameB(t)
  <2>a. Same(Root, l.a, l.a_r) /\ Same(Root, l.b, l.f)
        BY Zenon, <1>4, <1>b, <1>c DEF SameB, Knows, FindFrom, Arg
  <2>1. CASE l.a_r = l.f
    <3> DEFINE m == [NoLocal EXCEPT !.v = TRUE]
    <3>1. loc'[t] = m /\ pc'[t] = "ready"
          BY Zenon, <1>4, <2>1, <1>a DEF SameB, Return, ReturnBool, Goto, Assign
    <3>2. m.v = TRUE
          BY Zenon, NoLocalType DEF Local
    <3>3. c.op = "same" => Same(Root, c.a, c.b)
          BY <1>2, <1>4, <2>a, <2>1 DEF Same
    <3> HIDE DEF m, l
    <3> QED BY Zenon, <3>1, <3>2, <3>3, <1>2, <1>4 DEF Serves
  <2>2. CASE l.a_r # l.f
    <3>1. loc'[t] = l /\ pc'[t] = "same_check" /\ pc[t] = "same_b"
          BY Zenon, <1>4, <2>2, <1>a DEF SameB, Return, ReturnBool, Goto, Assign
    <3>2. Where("same_check", l) = "same_check"
          BY Zenon, <1>b DEF Where, Outer, InFind
    <3>3. c.op = "same" /\ parent[l.a_r] = 0 => ~c.same
          BY Zenon, <1>c, <2>2, <3>1 DEF Serves
    <3> HIDE DEF l
    <3> QED BY Zenon, <3>1, <3>2, <3>3, <1>2, <1>4 DEF Serves, SameOp
  <2> QED BY <2>1, <2>2
<1>5. CASE SameCheck(t)
  <2>1. CASE parent[l.a_r] = 0
    <3> DEFINE m == [NoLocal EXCEPT !.v = FALSE]
    <3>1. loc'[t] = m /\ pc'[t] = "ready" /\ pc[t] = "same_check"
          BY Zenon, <1>5, <2>1, <1>a
          DEF SameCheck, Return, ReturnBool, Goto, Assign
    <3>2. m.v = FALSE
          BY Zenon, NoLocalType DEF Local
    <3>3. c.op = "same" => ~c.same
          BY Zenon, <1>c, <2>1, <3>1 DEF Serves
    <3> HIDE DEF m, l
    <3> QED BY Zenon, <3>1, <3>2, <3>3, <1>2, <1>5 DEF Serves
  <2>2. CASE parent[l.a_r] # 0
    <3> DEFINE m == [l EXCEPT !.a = l.a_r, !.b = l.f, !.x = l.a_r,
                              !.fret = "same_a"]
    <3>1. loc'[t] = m /\ pc'[t] = "find"
          BY Zenon, <1>5, <2>2, <1>a DEF SameCheck, Goto, Assign
    <3>2. m.pret = "" /\ m.fret = "same_a" /\ m.a = l.a_r /\ m.b = l.f
          BY Zenon, <1>a, <1>b DEF Local
    <3>3. Same(Root, l.a, l.a_r) /\ Same(Root, l.b, l.f)
          BY Zenon, <1>5, <1>b, <1>c DEF SameCheck, Knows
    <3> HIDE DEF m, l
    <3>4. Where("find", m) = "same_a"
          BY Zenon, <3>2 DEF Where, Outer, InFind
    <3>5. c.op = "same" => Same(Root, c.a, m.a) /\ Same(Root, c.b, m.b)
          BY <1>2, <1>5, <3>2, <3>3, Zenon DEF Same
    <3> QED BY Zenon, <3>1, <3>4, <3>5, <1>2, <1>5 DEF Serves, SameOp
  <2> QED BY <2>1, <2>2
<1>6. ASSUME UnionA(t) \/ UnionB(t) \/ UnionLock(t) \/ UnionRetry(t) \/ UnionLink(t)
      PROVE  /\ c.op \notin {"find", "same"}
             /\ c.op = "union" => l.a = c.a /\ l.b = c.b
      BY Zenon, <1>6, <1>b, <1>c
      DEF Serves, UnionA, UnionB, UnionLock, UnionRetry, UnionLink, SameOp
<1>7. ASSUME NEW m, NEW w \in UnionOp, loc'[t] = m, m.pret = "", m.a = l.a,
             m.b = l.b, c.op \notin {"find", "same"},
             c.op = "union" => l.a = c.a /\ l.b = c.b,
             \/ pc'[t] = "find" /\ m.fret = w
             \/ pc'[t] = w /\ w \notin InFind
      PROVE  Serves(Root, parent, c, pc'[t], loc'[t])
  <2>1. Where(pc'[t], m) = w
        BY Zenon, <1>7 DEF Where, Outer, InFind
  <2>2. pc'[t] # "ready"
        BY Zenon, <1>7 DEF UnionOp, Before, BeforeLink, AfterLink
  <2> QED BY Zenon, <1>7, <2>1, <2>2 DEF Serves
<1>8. {"union_a", "union_b", "union_lock", "union_root", "union_acc_r"}
         \subseteq UnionOp
      BY DEF UnionOp, Before, AfterLink
<1>9. CASE UnionA(t)
  <2> DEFINE m == [l EXCEPT !.a_r = l.f, !.x = l.b, !.fret = "union_b"]
  <2>1. loc'[t] = m /\ pc'[t] = "find"
        BY Zenon, <1>9, <1>a DEF UnionA, Goto, Assign
  <2>2. m.pret = "" /\ m.fret = "union_b" /\ m.a = l.a /\ m.b = l.b
        BY Zenon, <1>a, <1>b DEF Local
  <2> HIDE DEF m, l
  <2> QED BY <2>1, <2>2, <1>6, <1>7, <1>8, <1>9, Zenon
<1>10. CASE UnionB(t)
  <2>1. CASE l.a_r = l.f
    <3> DEFINE m == [NoLocal EXCEPT !.v = FALSE]
    <3>1. loc'[t] = m /\ pc'[t] = "ready"
          BY Zenon, <1>10, <2>1, <1>a
          DEF UnionB, Return, ReturnBool, Goto, Assign
    <3>2. m.v = FALSE
          BY Zenon, NoLocalType DEF Local
    <3> HIDE DEF m, l
    <3> QED BY Zenon, <3>1, <3>2, <1>6, <1>10 DEF Serves
  <2>2. CASE l.a_r # l.f
    <3> DEFINE m == [l EXCEPT !.r = IF l.a_r < l.f THEN l.f ELSE l.a_r,
                              !.q = IF l.a_r < l.f THEN l.a_r ELSE l.f]
    <3>1. loc'[t] = m /\ pc'[t] = "union_lock"
          BY Zenon, <1>10, <2>2, <1>a DEF UnionB, Goto, Assign
    <3>2. m.pret = "" /\ m.a = l.a /\ m.b = l.b
          BY Zenon, <1>a, <1>b DEF Local
    <3> HIDE DEF m, l
    <3> QED BY <3>1, <3>2, <1>6, <1>7, <1>8, <1>10, Zenon DEF InFind
  <2> QED BY <2>1, <2>2
<1>11. ASSUME loc'[t] = [l EXCEPT !.x = l.a, !.fret = "union_a"],
              pc'[t] = "find", UnionLock(t) \/ UnionRetry(t)
       PROVE  Serves(Root, parent, c, pc'[t], loc'[t])
  <2> DEFINE m == [l EXCEPT !.x = l.a, !.fret = "union_a"]
  <2>1. m.pret = "" /\ m.fret = "union_a" /\ m.a = l.a /\ m.b = l.b
        BY Zenon, <1>a, <1>b DEF Local
  <2>2. loc'[t] = m /\ pc'[t] = "find"
        BY <1>11
  <2> HIDE DEF m, l
  <2> QED BY <2>1, <2>2, <1>6, <1>7, <1>8, <1>11, Zenon
<1>12. CASE UnionLock(t)
  <2>1. CASE uf_status[l.q] = "UF_LIVE"
    <3>1. loc'[t] = l /\ pc'[t] = "union_root"
          BY Zenon, <1>12, <2>1, <1>a DEF UnionLock, Goto, Assign
    <3> HIDE DEF l
    <3> QED BY <3>1, <1>b, <1>6, <1>7, <1>8, <1>12, Zenon DEF InFind
  <2>2. CASE uf_status[l.q] # "UF_LIVE"
    <3>1. /\ loc'[t] = [l EXCEPT !.x = l.a, !.fret = "union_a"]
          /\ pc'[t] = "find"
          BY Zenon, <1>12, <2>2, <1>a DEF UnionLock, Find, Goto, Assign
    <3> QED BY Zenon, <3>1, <1>11, <1>12
  <2> QED BY <2>1, <2>2
<1>13. CASE UnionRetry(t)
  <2>1. /\ loc'[t] = [l EXCEPT !.x = l.a, !.fret = "union_a"]
        /\ pc'[t] = "find"
        BY Zenon, <1>13, <1>a DEF UnionRetry, Find, Goto, Assign
  <2> QED BY Zenon, <2>1, <1>11, <1>13
<1>14. CASE UnionLink(t)
  <2>1. loc'[t] = l /\ pc'[t] = "union_acc_r"
        BY Zenon, <1>14, <1>a DEF UnionLink, Goto
  <2> HIDE DEF l
  <2> QED BY <2>1, <1>b, <1>6, <1>7, <1>8, <1>14, Zenon DEF InFind
<1> QED BY Zenon, <1>1, <1>3, <1>4, <1>5, <1>9, <1>10, <1>12, <1>13, <1>14

-----------------------------------------------------------------------------
(* The steps, the calls and the theorem                                    *)

\* Nobody steps while no operation runs.
LEMMA StepRuns ==
    ASSUME IInv, NEW t \in Thread, UFStep(t)
    PROVE  /\ pc[t] # "ready"
           /\ pc'[t] = "ready" => loc'[t].pret = ""
<1>1. pc[t] # "ready"
      BY Zenon
      DEF UFStep, FindX, FindY, FindWrite, Got, SameA, SameB, SameCheck, PickA,
          PickNext, PickB, PickC, PickWrite, MarkDead, MarkDeadCas,
          MarkDeadRoot, MarkDeadCheck, Picked, RemoveRead, RemoveCas,
          UnionA, UnionB, UnionLock, UnionRoot, UnionRetry, UnionListA,
          UnionCasA, UnionListB, UnionCasB, UnionUnlist, UnionFail,
          UnionSwap, UnionLink, UnionAccR, UnionAccQ, UnionOrAcc,
          UnionUpAcc, UnionAcc, UnionSetQ, UnionSetR, UnionOrSet,
          UnionUpSet, UnionSet, UnionUnlistA, UnionUnlistB, UnionUnlock,
          Claim, ClaimFound, ClaimOr, ClaimUp, ClaimSet, Acc, AccOr, AccUp
<1>2. PickOK(pc'[t], loc'[t])
      BY LocalStep DEF LocalOK
<1>3. pc'[t] = "ready" => loc'[t].pret = ""
      BY Zenon, <1>2 DEF PickOK, Outer, InFind, InPick
<1> QED BY <1>1, <1>3, Zenon

LEMMA OwnServes ==
    ASSUME IInv, NEW t \in Thread, UFStep(t), Knows(Root, pc[t], loc[t]),
           NEW c, Serves(Root, parent, c, pc[t], loc[t])
    PROVE  Serves(Root, parent, c, pc'[t], loc'[t])
<1>1. CASE FindX(t) \/ FindY(t) \/ FindWrite(t)
      BY <1>1, FindServes
<1>2. CASE \/ Got(t) \/ SameA(t) \/ SameB(t) \/ SameCheck(t) \/ UnionA(t)
           \/ UnionB(t) \/ UnionLock(t) \/ UnionRetry(t) \/ UnionLink(t)
      BY <1>2, OpServes
<1>3. CASE ~Learns(t)
      BY <1>3, StepRuns, PlainStep, PlainServes, Zenon
<1> QED BY Zenon, <1>1, <1>2, <1>3 DEF Learns

LEMMA StepServes ==
    ASSUME AnswersInv, NEW t \in Thread, UFStep(t), call' = call
    PROVE  \A u \in Thread : Serves(Root', parent', call'[u], pc'[u], loc'[u])
<1>1. /\ SetsInv /\ IInv
      /\ \A u \in Thread : /\ Knows(Root, pc[u], loc[u])
                           /\ Serves(Root, parent, call[u], pc[u], loc[u])
      BY DEF AnswersInv, SetsInv
<1>2. Coarser(Root, Root')
      BY <1>1, SetsStep
<1>3. \A s \in State : parent[s] # 0 => parent'[s] # 0
      BY <1>1, Stays
<1>4. \A u \in Thread :
         pc'[u] \in {"same_b", "same_check"} => loc'[u].a_r \in State
  <2> TAKE u \in Thread
  <2>1. Knows(Root', pc'[u], loc'[u])
        BY <1>1, StepSets
  <2>2. PickOK(pc'[u], loc'[u])
    <3>1. LocalOK(u)'
          BY <1>1, LocalStep, Others DEF IInv, LocalOK
    <3> QED BY <3>1 DEF LocalOK
  <2>3. pc'[u] \in {"same_b", "same_check"} => Where(pc'[u], loc'[u]) = pc'[u]
        BY Zenon, <2>2 DEF PickOK, Where, Outer, InFind, InPick
  <2> QED BY Zenon, <2>1, <2>3 DEF Knows, Same
<1> TAKE u \in Thread
<1>5. Serves(Root, parent, call[u], pc'[u], loc'[u])
  <2>1. CASE u = t
        BY <1>1, <2>1, OwnServes
  <2>2. CASE u # t
    <3>1. pc'[u] = pc[u] /\ loc'[u] = loc[u]
          BY <1>1, <2>2, Others
    <3> QED BY <3>1, <1>1
  <2> QED BY <2>1, <2>2
<1> QED BY <1>2, <1>3, <1>4, <1>5, ServesMore

LEMMA BeginServes ==
    ASSUME NEW op, NEW a \in State, NEW b \in State, NEW p, NEW m, NEW g,
           NEW k, Begins(op, a, b, p, m), NEW c, c.op = op, c.a = a, c.b = b,
           c.same = (g[a] = g[b])
    PROVE  Serves(g, k, c, p, m)
<1>a. Same(g, a, a) /\ Same(g, b, b) /\ (c.same => Same(g, a, b))
      BY Zenon DEF Same
<1>1. CASE op \in DOMAIN Entry /\ p = "find"
  <2>1. /\ m.pret = "" /\ m.fret = Entry[op] /\ m.a = a
        /\ op \in {"same", "union"} => m.b = b
        BY <1>1, Zenon DEF Begins
  <2>2. Where(p, m) = Entry[op]
        BY <2>1, <1>1, Zenon DEF Where, Outer, InFind
  <2>3. /\ op = "find" => Entry[op] = "got"
        /\ op = "same" => Entry[op] = "same_a"
        /\ op = "union" => Entry[op] = "union_a"
        BY DEF Entry
  <2> QED BY Zenon, <1>a, <1>1, <2>1, <2>2, <2>3 DEF Serves, SameOp, UnionOp
<1>2. CASE op = "union" /\ p = "ready" /\ a = b
      BY Zenon, <1>a, <1>2 DEF Serves
<1>3. CASE op \in {"pick", "remove"}
      BY Zenon, <1>3 DEF Serves
<1> QED BY Zenon, <1>1, <1>2, <1>3 DEF Begins

LEMMA CallServes ==
    ASSUME AnswersInv, NEW t \in Thread, Call(t)
    PROVE  /\ call' \in [Thread -> CallRecord]
           /\ \A u \in Thread :
                 Serves(Root', parent', call'[u], pc'[u], loc'[u])
<1>1. /\ IInv /\ call \in [Thread -> CallRecord]
      /\ \A u \in Thread : Serves(Root, parent, call[u], pc[u], loc[u])
      BY DEF AnswersInv, SetsInv
<1>2. /\ parent' = parent /\ Root' = Root
      /\ \A u \in Thread : u # t => pc'[u] = pc[u] /\ loc'[u] = loc[u]
      BY <1>1, CallFrame
<1>3. PICK op \in Operation, a, b \in State :
         Begins(op, a, b, pc'[t], loc'[t]) /\ Invoke(t, op, a, b)
      BY <1>1, CallBegins
<1> DEFINE gone == {s \in State : list_status[s] = "LIST_TOMB"}
           c == [op |-> op, a |-> a, b |-> b, same |-> SameSet(a, b),
                 gone |-> gone]
<1>4. call' = [call EXCEPT ![t] = c]
      BY <1>3 DEF Invoke
<1>5. c \in CallRecord
  <2>1. a \in Ref /\ b \in Ref /\ gone \in SUBSET State
        BY Refs
  <2>2. SameSet(a, b) \in BOOLEAN
        BY DEF SameSet
  <2> HIDE DEF gone
  <2> QED BY <2>1, <2>2 DEF CallRecord
<1>6. Serves(Root, parent, c, pc'[t], loc'[t])
  <2>1. c.op = op /\ c.a = a /\ c.b = b /\ c.same = (Root[a] = Root[b])
        BY DEF SameSet
  <2> HIDE DEF c
  <2> QED BY <1>3, <2>1, BeginServes
<1> HIDE DEF c
<1>7. /\ call' \in [Thread -> CallRecord] /\ call'[t] = c
      /\ \A u \in Thread : u # t => call'[u] = call[u]
      BY <1>1, <1>4, <1>5
<1>8. \A u \in Thread : Serves(Root', parent', call'[u], pc'[u], loc'[u])
  <2> TAKE u \in Thread
  <2>1. CASE u = t
        BY <2>1, <1>2, <1>6, <1>7
  <2>2. CASE u # t
        BY <2>2, <1>1, <1>2, <1>7
  <2> QED BY <2>1, <2>2
<1> QED BY <1>7, <1>8

LEMMA InitAnswers == Init => AnswersInv
<1> SUFFICES ASSUME Init
             PROVE  AnswersInv
      OBVIOUS
<1>1. SetsInv
      BY InitSets
<1> DEFINE c == [op |-> "none", a |-> 0, b |-> 0, same |-> TRUE, gone |-> {}]
<1>2. call = [t \in Thread |-> c]
      BY DEF Init
<1>3. c \in CallRecord /\ c.op = "none"
  <2>1. 0 \in Ref
        BY Refs
  <2> QED BY <2>1 DEF CallRecord
<1> HIDE DEF c
<1>4. call \in [Thread -> CallRecord] /\ \A t \in Thread : call[t].op = "none"
      BY <1>2, <1>3
<1>5. \A t \in Thread : Serves(Root, parent, call[t], pc[t], loc[t])
      BY Zenon, <1>4 DEF Serves
<1> QED BY <1>1, <1>4, <1>5 DEF AnswersInv

LEMMA NextAnswers == AnswersInv /\ [Next]_vars => AnswersInv'
<1> SUFFICES ASSUME AnswersInv, [Next]_vars
             PROVE  AnswersInv'
      OBVIOUS
<1>1. SetsInv'
      BY NextSets DEF AnswersInv
<1> DEFINE Good ==
             /\ call' \in [Thread -> CallRecord]
             /\ \A u \in Thread :
                   Serves(Root', parent', call'[u], pc'[u], loc'[u])
<1>2. Good
  <2>1. ASSUME NEW t \in Thread, Call(t)
        PROVE  Good
        BY <2>1, CallServes
  <2>2. ASSUME NEW t \in Thread, Step(t)
        PROVE  Good
    <3>1. UFStep(t) /\ call' = call
          BY <2>2 DEF Step
    <3>2. call' \in [Thread -> CallRecord]
          BY <3>1 DEF AnswersInv
    <3> QED BY <3>1, <3>2, StepServes
  <2>3. CASE UNCHANGED vars
    <3>1. /\ Root' = Root /\ pc' = pc /\ loc' = loc /\ call' = call
          /\ parent' = parent
          BY <2>3, SameParent DEF vars, ufvars, forest
    <3> QED BY <3>1 DEF AnswersInv
  <2> QED BY <2>1, <2>2, <2>3 DEF Next, Quiet
<1> QED BY <1>1, <1>2 DEF AnswersInv

\* A state that uf_find returned is in the set asked for; a true answer of
\* uf_sameset or uf_union holds when it is given, and a false answer of
\* uf_sameset held when the question was asked (unionfind.c, uf_find,
\* uf_sameset and uf_union; the part of AnswersRight that is about sets).
THEOREM AnswersSets == Spec => []SetAnswers
<1>1. AnswersInv => SetAnswers
  <2> SUFFICES ASSUME AnswersInv, NEW t \in Thread, pc[t] = "ready"
               PROVE  /\ call[t].op = "find" => SameSet(call[t].a, loc[t].ret)
                      /\ call[t].op = "same" =>
                            IF loc[t].v THEN SameSet(call[t].a, call[t].b)
                            ELSE ~call[t].same
                      /\ call[t].op = "union" /\ loc[t].v =>
                            SameSet(call[t].a, call[t].b)
        BY DEF SetAnswers
  <2>1. Serves(Root, parent, call[t], pc[t], loc[t])
        BY DEF AnswersInv
  <2>2. \A s, u : Same(Root, s, u) => SameSet(s, u)
        BY DEF Same, SameSet
  <2> QED BY Zenon, <2>1, <2>2 DEF Serves
<1> QED BY <1>1, InitAnswers, NextAnswers, PTL DEF Spec

-----------------------------------------------------------------------------
(* Each merge is counted once                                              *)

\* A step of uf_find stays in the operation that called it.
LEMMA FindWhere ==
    ASSUME IInv, NEW t \in Thread, FindX(t) \/ FindY(t) \/ FindWrite(t)
    PROVE  Where(pc'[t], loc'[t]) = Where(pc[t], loc[t]) /\ pc'[t] # "ready"
<1> DEFINE l == loc[t]
<1>a. loc \in [Thread -> Local] /\ pc \in [Thread -> Label] /\ l \in Local
      BY DEF IInv, Typed
<1>b. pc[t] \in InFind
      BY Zenon DEF FindX, FindY, FindWrite, InFind
<1>c. l.fret \in FindReturn \ {""}
      BY Zenon, <1>a, <1>b DEF IInv, LocalOK, FindOK, Local
<1>1. ASSUME NEW m, NEW q \in InFind, loc'[t] = m, pc'[t] = q,
             m.pret = l.pret, m.fret = l.fret
      PROVE  Where(pc'[t], loc'[t]) = Where(pc[t], l) /\ pc'[t] # "ready"
      BY Zenon, <1>1, <1>b DEF Where, Outer, InFind
<1>2. ASSUME NEW m, loc'[t] = m, pc'[t] = l.fret, m.pret = l.pret
      PROVE  Where(pc'[t], loc'[t]) = Where(pc[t], l) /\ pc'[t] # "ready"
  <2>1. l.fret \notin InFind \cup {"ready"}
        BY Zenon, <1>c DEF FindReturn, InFind
  <2> QED BY Zenon, <1>2, <1>b, <2>1 DEF Where, Outer
<1>3. \A q : q \in {"find", "find_y", "find_write"} => q \in InFind
      BY DEF InFind
<1>4. ASSUME NEW s, FindResult(t, s)
      PROVE  Where(pc'[t], loc'[t]) = Where(pc[t], l) /\ pc'[t] # "ready"
  <2> DEFINE m == [l EXCEPT !.f = s, !.x = 0, !.y = 0, !.fret = ""]
  <2>1. loc'[t] = m /\ pc'[t] = l.fret
        BY Zenon, <1>4, <1>a DEF FindResult, Goto, Assign
  <2>2. m.pret = l.pret
        BY Zenon, <1>a DEF Local
  <2> QED BY Zenon, <2>1, <2>2, <1>2
<1>5. ASSUME NEW s, NEW q \in {"find_y", "find_write"},
             Assign(t, [l EXCEPT !.y = s]), Goto(t, q)
      PROVE  Where(pc'[t], loc'[t]) = Where(pc[t], l) /\ pc'[t] # "ready"
  <2> DEFINE m == [l EXCEPT !.y = s]
  <2>1. loc'[t] = m /\ pc'[t] = q
        BY Zenon, <1>5, <1>a DEF Goto, Assign
  <2>2. m.pret = l.pret /\ m.fret = l.fret
        BY Zenon, <1>a DEF Local
  <2> HIDE DEF m
  <2> QED BY <2>1, <2>2, <1>1, <1>3, <1>5
<1>6. CASE FindX(t)
  <2> HIDE DEF l
  <2> QED BY <1>4, <1>5, <1>6 DEF FindX, l
<1>7. CASE FindY(t)
  <2> HIDE DEF l
  <2> QED BY <1>4, <1>5, <1>7 DEF FindY, l
<1>8. CASE FindWrite(t)
  <2> DEFINE m == [l EXCEPT !.x = l.y, !.y = 0]
  <2>1. loc'[t] = m /\ pc'[t] = "find"
        BY Zenon, <1>8, <1>a DEF FindWrite, Goto, Assign
  <2>2. m.pret = l.pret /\ m.fret = l.fret
        BY Zenon, <1>a DEF Local
  <2> HIDE DEF m
  <2> QED BY <2>1, <2>2, <1>1, <1>3
<1> QED BY <1>6, <1>7, <1>8

\* Where the other steps that are not plain go.
LEMMA OpWhere ==
    ASSUME IInv, NEW t \in Thread,
           \/ Got(t) \/ SameA(t) \/ SameB(t) \/ SameCheck(t) \/ UnionA(t)
           \/ UnionB(t) \/ UnionLock(t) \/ UnionRetry(t)
    PROVE  /\ Where(pc[t], loc[t]) \notin AfterLink
           /\ Where(pc'[t], loc'[t]) \notin AfterLink
           /\ Where(pc'[t], loc'[t]) \in UnionOp => Where(pc[t], loc[t]) \in UnionOp
           /\ pc'[t] = "ready" /\ loc'[t].v => Where(pc[t], loc[t]) \notin UnionOp
<1> DEFINE l == loc[t]
<1>a. loc \in [Thread -> Local] /\ pc \in [Thread -> Label] /\ l \in Local
      BY DEF IInv, Typed
<1>b. l.pret = "" /\ Where(pc[t], l) = pc[t]
  <2>1. PickOK(pc[t], l)
        BY DEF IInv, LocalOK
  <2> QED BY Zenon, <2>1
          DEF PickOK, Where, Outer, InFind, InPick, Got, SameA, SameB,
              SameCheck, UnionA, UnionB, UnionLock, UnionRetry
<1>c. pc[t] \notin AfterLink
      BY Zenon DEF Got, SameA, SameB, SameCheck, UnionA, UnionB, UnionLock,
                   UnionRetry, AfterLink
<1>d. UnionA(t) \/ UnionB(t) \/ UnionLock(t) \/ UnionRetry(t) =>
         pc[t] \in UnionOp
      BY Zenon DEF UnionA, UnionB, UnionLock, UnionRetry, UnionOp, Before
<1>e. Got(t) \/ SameA(t) \/ SameB(t) \/ SameCheck(t) => pc[t] \notin UnionOp
      BY Zenon DEF Got, SameA, SameB, SameCheck, UnionOp, Before, BeforeLink,
                   AfterLink
<1>f. ASSUME NEW m, loc'[t] = m, m.pret = "",
             \/ pc'[t] = "ready"
             \/ pc'[t] = "find" /\ m.fret \in {"same_a", "same_b"}
             \/ pc'[t] = "same_check"
      PROVE  Where(pc'[t], loc'[t]) \notin AfterLink \cup UnionOp
      BY Zenon, <1>f DEF Where, Outer, InFind, UnionOp, Before, BeforeLink,
                         AfterLink
<1>g. ASSUME NEW m, loc'[t] = m, m.pret = "",
             \/ pc'[t] = "find" /\ m.fret \in {"union_a", "union_b"}
             \/ pc'[t] \in {"union_lock", "union_root"}
      PROVE  Where(pc'[t], loc'[t]) \notin AfterLink /\ pc'[t] # "ready"
      BY Zenon, <1>g DEF Where, Outer, InFind, AfterLink
<1>h. ASSUME NEW r, \A x \in {r} : x.pret = "", Return(t, r)
      PROVE  /\ loc'[t] = r /\ pc'[t] = "ready"
             /\ Where(pc'[t], loc'[t]) \notin AfterLink \cup UnionOp
  <2>1. loc'[t] = r /\ pc'[t] = "ready"
        BY Zenon, <1>h, <1>a DEF Return, Goto, Assign
  <2> QED BY <2>1, <1>f, <1>h, Zenon
<1>i. /\ \A b : [NoLocal EXCEPT !.v = b].pret = ""
      /\ \A s : [NoLocal EXCEPT !.code = "", !.ret = s].pret = ""
      /\ ~[NoLocal EXCEPT !.v = FALSE].v
      BY Zenon, NoLocalType DEF NoLocal
<1> DEFINE Goal == /\ Where(pc'[t], loc'[t]) \notin AfterLink
                   /\ Where(pc'[t], loc'[t]) \in UnionOp => pc[t] \in UnionOp
                   /\ pc'[t] = "ready" /\ loc'[t].v => pc[t] \notin UnionOp
<1>1. CASE Got(t)
  <2>1. Where(pc'[t], loc'[t]) \notin AfterLink \cup UnionOp
        BY Zenon, <1>1, <1>h, <1>i DEF Got, ReturnCode
  <2>2. Goal
        BY <2>1, <1>e, <1>1
  <2> QED BY <2>2, <1>b, <1>c, Zenon
<1>2. CASE SameA(t)
  <2> DEFINE m == [l EXCEPT !.a_r = l.f, !.x = l.b, !.fret = "same_b"]
  <2>1. loc'[t] = m /\ pc'[t] = "find"
        BY Zenon, <1>2, <1>a DEF SameA, Goto, Assign
  <2>2. m.pret = "" /\ m.fret = "same_b"
        BY Zenon, <1>a, <1>b DEF Local
  <2> HIDE DEF m
  <2>3. Goal
        BY <2>1, <2>2, <1>f, <1>e, <1>2, Zenon
  <2> QED BY <2>3, <1>b, <1>c, Zenon
<1>3. CASE SameB(t)
  <2>1. CASE l.a_r = l.f
    <3>1. Where(pc'[t], loc'[t]) \notin AfterLink \cup UnionOp
          BY Zenon, <1>3, <2>1, <1>h, <1>i DEF SameB, ReturnBool
    <3>2. Goal
          BY <3>1, <1>e, <1>3
    <3> QED BY <3>2, <1>b, <1>c, Zenon
  <2>2. CASE l.a_r # l.f
    <3>1. loc'[t] = l /\ pc'[t] = "same_check"
          BY Zenon, <1>3, <2>2, <1>a DEF SameB, Goto
    <3>2. Goal
          BY <3>1, <1>b, <1>f, <1>e, <1>3, Zenon
    <3> QED BY <3>2, <1>b, <1>c, Zenon
  <2> QED BY <2>1, <2>2
<1>4. CASE SameCheck(t)
  <2>1. CASE parent[l.a_r] = 0
    <3>1. Where(pc'[t], loc'[t]) \notin AfterLink \cup UnionOp
          BY Zenon, <1>4, <2>1, <1>h, <1>i DEF SameCheck, ReturnBool
    <3>2. Goal
          BY <3>1, <1>e, <1>4
    <3> QED BY <3>2, <1>b, <1>c, Zenon
  <2>2. CASE parent[l.a_r] # 0
    <3> DEFINE m == [l EXCEPT !.a = l.a_r, !.b = l.f, !.x = l.a_r,
                              !.fret = "same_a"]
    <3>1. loc'[t] = m /\ pc'[t] = "find"
          BY Zenon, <1>4, <2>2, <1>a DEF SameCheck, Goto, Assign
    <3>2. m.pret = "" /\ m.fret = "same_a"
          BY Zenon, <1>a, <1>b DEF Local
    <3> HIDE DEF m
    <3>3. Goal
          BY <3>1, <3>2, <1>f, <1>e, <1>4, Zenon
    <3> QED BY <3>3, <1>b, <1>c, Zenon
  <2> QED BY <2>1, <2>2
<1>5. CASE UnionA(t)
  <2> DEFINE m == [l EXCEPT !.a_r = l.f, !.x = l.b, !.fret = "union_b"]
  <2>1. loc'[t] = m /\ pc'[t] = "find"
        BY Zenon, <1>5, <1>a DEF UnionA, Goto, Assign
  <2>2. m.pret = "" /\ m.fret = "union_b"
        BY Zenon, <1>a, <1>b DEF Local
  <2> HIDE DEF m
  <2>3. Goal
        BY <2>1, <2>2, <1>g, <1>d, <1>5, Zenon
  <2> QED BY <2>3, <1>b, <1>c, Zenon
<1>6. CASE UnionB(t)
  <2>1. CASE l.a_r = l.f
    <3> DEFINE m == [NoLocal EXCEPT !.v = FALSE]
    <3>a. Return(t, m) /\ m.pret = "" /\ ~m.v
          BY Zenon, <1>6, <2>1, <1>i DEF UnionB, ReturnBool
    <3> HIDE DEF m
    <3>1. /\ Where(pc'[t], loc'[t]) \notin AfterLink \cup UnionOp
          /\ loc'[t] = m
          BY <3>a, <1>h, Zenon
    <3>2. ~loc'[t].v
          BY <3>a, <3>1, Zenon
    <3>3. Goal
          BY <3>1, <3>2, <1>d, <1>6
    <3> QED BY <3>3, <1>b, <1>c, Zenon
  <2>2. CASE l.a_r # l.f
    <3> DEFINE m == [l EXCEPT !.r = IF l.a_r < l.f THEN l.f ELSE l.a_r,
                              !.q = IF l.a_r < l.f THEN l.a_r ELSE l.f]
    <3>1. loc'[t] = m /\ pc'[t] = "union_lock"
          BY Zenon, <1>6, <2>2, <1>a DEF UnionB, Goto, Assign
    <3>2. m.pret = ""
          BY Zenon, <1>a, <1>b DEF Local
    <3> HIDE DEF m
    <3>3. Goal
          BY <3>1, <3>2, <1>g, <1>d, <1>6, Zenon
    <3> QED BY <3>3, <1>b, <1>c, Zenon
  <2> QED BY <2>1, <2>2
<1>7. ASSUME Find(t, l.a, "union_a"), UnionLock(t) \/ UnionRetry(t)
      PROVE  Goal
  <2> DEFINE m == [l EXCEPT !.x = l.a, !.fret = "union_a"]
  <2>1. loc'[t] = m /\ pc'[t] = "find"
        BY Zenon, <1>7, <1>a DEF Find, Goto, Assign
  <2>2. m.pret = "" /\ m.fret = "union_a"
        BY Zenon, <1>a, <1>b DEF Local
  <2> HIDE DEF m
  <2> QED BY <2>1, <2>2, <1>g, <1>d, <1>7, Zenon
<1>8. CASE UnionLock(t)
  <2>1. CASE uf_status[l.q] = "UF_LIVE"
    <3>1. loc'[t] = l /\ pc'[t] = "union_root"
          BY Zenon, <1>8, <2>1, <1>a DEF UnionLock, Goto
    <3>2. Goal
          BY <3>1, <1>b, <1>g, <1>d, <1>8, Zenon
    <3> QED BY <3>2, <1>b, <1>c, Zenon
  <2>2. CASE uf_status[l.q] # "UF_LIVE"
    <3>1. Goal
          BY Zenon, <1>7, <1>8, <2>2 DEF UnionLock
    <3> QED BY <3>1, <1>b, <1>c, Zenon
  <2> QED BY <2>1, <2>2
<1>9. CASE UnionRetry(t)
  <2>1. Goal
        BY Zenon, <1>7, <1>9 DEF UnionRetry
  <2> QED BY <2>1, <1>b, <1>c, Zenon
<1> QED BY Zenon, <1>1, <1>2, <1>3, <1>4, <1>5, <1>6, <1>8, <1>9

\* A step of t: the link of a union, the true answer of a union that has linked,
\* or one that is neither.
LEMMA OwnCount ==
    ASSUME AnswersInv, NEW t \in Thread, UFStep(t),
           Where(pc[t], loc[t]) \in UnionOp => call[t].op = "union"
    PROVE  /\ Where(pc'[t], loc'[t]) \in UnionOp => call[t].op = "union"
           /\ \/ /\ UnionLink(t) /\ pc'[t] # "ready"
                 /\ Where(pc[t], loc[t]) \notin AfterLink
                 /\ Where(pc'[t], loc'[t]) \in AfterLink
              \/ /\ ~UnionLink(t) /\ ~(Returns(t, "union") /\ loc'[t].v)
                 /\ Where(pc[t], loc[t]) \in AfterLink
                       <=> Where(pc'[t], loc'[t]) \in AfterLink
              \/ /\ ~UnionLink(t) /\ Returns(t, "union") /\ loc'[t].v
                 /\ Where(pc[t], loc[t]) \in AfterLink
                 /\ Where(pc'[t], loc'[t]) \notin AfterLink
<1> DEFINE w == Where(pc[t], loc[t])
           z == Where(pc'[t], loc'[t])
<1>a. /\ IInv /\ Knows(Root, pc[t], loc[t])
      /\ Serves(Root, parent, call[t], pc[t], loc[t])
      BY DEF AnswersInv, SetsInv
<1>b. /\ pc[t] # "ready"
      /\ pc'[t] = "ready" => loc'[t].pret = ""
      BY <1>a, StepRuns, Zenon
<1>c. call[t].op = "union" => w \in UnionOp
      BY Zenon, <1>a, <1>b DEF Serves
<1>d. pc'[t] = "ready" => z = "ready"
      BY Zenon, <1>b DEF Where, Outer, InFind
<1>e. /\ "ready" \notin UnionOp /\ AfterLink \subseteq UnionOp
      /\ Before \cap AfterLink = {}
      /\ UnionOp = {"union_a", "union_b"} \cup Before \cup AfterLink
      BY Zenon DEF UnionOp, Before, BeforeLink, AfterLink
<1>f. pc[t] # "union_link" => ~UnionLink(t)
      BY DEF UnionLink
<1>1. CASE UnionLink(t)
  <2>1. /\ loc'[t] = loc[t] /\ pc[t] = "union_link" /\ pc'[t] = "union_acc_r"
        BY Zenon, <1>1, <1>a DEF UnionLink, Goto, IInv, Typed
  <2>2. PickOK(pc[t], loc[t])
        BY <1>a DEF IInv, LocalOK
  <2>3. w = "union_link" /\ z = "union_acc_r"
        BY Zenon, <2>1, <2>2 DEF PickOK, Where, Outer, InFind, InPick
  <2>4. w \in UnionOp /\ w \notin AfterLink /\ z \in AfterLink
        BY Zenon, <2>3 DEF UnionOp, Before, BeforeLink, AfterLink
  <2> HIDE DEF w, z
  <2> QED BY <1>1, <2>1, <2>4 DEF w, z
<1>2. CASE FindX(t) \/ FindY(t) \/ FindWrite(t)
  <2>1. z = w /\ pc'[t] # "ready"
        BY <1>a, <1>2, FindWhere
  <2>2. ~UnionLink(t)
        BY Zenon, <1>2, <1>f DEF FindX, FindY, FindWrite
  <2> HIDE DEF w, z
  <2> QED BY <2>1, <2>2 DEF w, z, Returns
<1>3. CASE \/ Got(t) \/ SameA(t) \/ SameB(t) \/ SameCheck(t) \/ UnionA(t)
           \/ UnionB(t) \/ UnionLock(t) \/ UnionRetry(t)
  <2>1. /\ w \notin AfterLink /\ z \notin AfterLink
        /\ z \in UnionOp => w \in UnionOp
        /\ pc'[t] = "ready" /\ loc'[t].v => w \notin UnionOp
        BY <1>a, <1>3, OpWhere
  <2>2. ~UnionLink(t)
        BY Zenon, <1>3, <1>f DEF Got, SameA, SameB, SameCheck, UnionA, UnionB,
                                 UnionLock, UnionRetry
  <2> HIDE DEF w, z
  <2> QED BY <2>1, <2>2, <1>c DEF w, z, Returns
<1>4. CASE ~Learns(t)
  <2>1. /\ w \notin FindFrom /\ z \notin FindFrom
        /\ z \in Before => w \in Before
        /\ z \in AfterLink => w \in AfterLink
        /\ w \in Before \cup AfterLink =>
              \/ z \in Before \cup AfterLink
              \/ pc'[t] = "ready" /\ (loc'[t].v <=> w \in AfterLink)
        BY <1>a, <1>4, PlainStep DEF Plain
  <2>2. ~UnionLink(t)
        BY <1>4 DEF Learns
  <2>3. {"union_a", "union_b"} \subseteq FindFrom
        BY DEF FindFrom
  <2> HIDE DEF w, z
  <2>4. z \in UnionOp => w \in UnionOp
        BY <2>1, <2>3, <1>e
  <2>5. CASE w \in AfterLink /\ z \notin AfterLink
        BY <2>1, <2>2, <2>5, <1>e DEF w, z, Returns
  <2>6. CASE w \in AfterLink <=> z \in AfterLink
    <3>1. ~(Returns(t, "union") /\ loc'[t].v)
          BY <2>1, <2>3, <2>6, <1>c, <1>d, <1>e DEF Returns
    <3> QED BY <3>1, <2>2, <2>4, <2>6 DEF w, z
  <2> QED BY <2>1, <2>5, <2>6
<1> QED BY Zenon, <1>1, <1>2, <1>3, <1>4 DEF Learns

\* The states that have a parent: a link adds its q, no other step changes them.
Children == {s \in State : parent[s] # 0}

LEMMA ChildrenStep ==
    ASSUME IInv, NEW t \in Thread, UFStep(t)
    PROVE  /\ ~UnionLink(t) => Children' = Children
           /\ UnionLink(t) => /\ loc[t].q \notin Children
                              /\ Children' = Children \cup {loc[t].q}
<1>1. CASE ~UnionLink(t)
      BY <1>1, Stays, RootStep DEF Children
<1>2. CASE UnionLink(t)
  <2> DEFINE q == loc[t].q
             r == loc[t].r
  <2>1. q \in State /\ r \in State /\ Root[q] = q
        BY <1>2, LinkRoots
  <2>2. parent[q] = 0
        BY <2>1, IsForest, RootDef, RootFacts
  <2>3. parent' = [parent EXCEPT ![q] = r] /\ parent \in [State -> Ref]
        BY <1>2 DEF UnionLink, IInv, Typed
  <2>4. 0 \notin State
        BY NAssumption DEF State
  <2> HIDE DEF q, r
  <2>5. q \notin Children /\ Children' = Children \cup {q}
        BY <2>1, <2>2, <2>3, <2>4 DEF Children
  <2> QED BY <1>2, <2>5 DEF q
<1> QED BY <1>1, <1>2

\* The inductive invariant.
CountInv ==
    /\ AnswersInv
    /\ \A t \in Thread : Where(pc[t], loc[t]) \in UnionOp => call[t].op = "union"
    /\ merges \in Nat
    /\ MergesCounted

Linkers(p, l) == {t \in Thread : Where(p[t], l[t]) \in AfterLink}

LEMMA Propagators ==
    /\ {t \in Thread : Propagating(t)} = Linkers(pc, loc)
    /\ {t \in Thread : Propagating(t)'} = Linkers(pc', loc')
<1>1. \A t \in Thread : At(t) = Where(pc[t], loc[t])
      BY DEF At, Where, Outer, InFind
<1>2. \A t \in Thread : At(t)' = Where(pc'[t], loc'[t])
      BY DEF At, Where, Outer, InFind
<1> QED BY <1>1, <1>2 DEF Propagating, Linkers, AfterLink

LEMMA FiniteCounts ==
    /\ IsFiniteSet(Children) /\ Cardinality(Children) \in Nat
    /\ \A p, l : /\ IsFiniteSet(Linkers(p, l))
                 /\ Cardinality(Linkers(p, l)) \in Nat
<1>1. IsFiniteSet(State)
      BY FS_Interval, NAssumption DEF State
<1>2. IsFiniteSet(Children)
      BY <1>1, FS_Subset DEF Children
<1>3. \A p, l : IsFiniteSet(Linkers(p, l))
  <2> TAKE p, l
  <2>1. Linkers(p, l) \in SUBSET Thread
        BY DEF Linkers
  <2> QED BY <2>1, FS_Subset, ThreadAssumption
<1> QED BY <1>2, <1>3, FS_CardinalityType

LEMMA StepCounts ==
    ASSUME CountInv, NEW t \in Thread, Step(t)
    PROVE  merges' \in Nat /\ MergesCounted'
<1> DEFINE U == Linkers(pc, loc)
           V == Linkers(pc', loc')
<1>a. /\ UFStep(t) /\ IInv /\ AnswersInv /\ merges \in Nat
      /\ merges' = IF Returns(t, "union") /\ loc'[t].v THEN merges + 1
                   ELSE merges
      BY DEF Step, CountInv, AnswersInv, SetsInv
<1>b. Cardinality(Children) = merges + Cardinality(U)
      BY Propagators DEF CountInv, MergesCounted, Children
<1>c. /\ IsFiniteSet(Children) /\ Cardinality(Children) \in Nat
      /\ IsFiniteSet(U) /\ Cardinality(U) \in Nat
      BY FiniteCounts
<1>d. \A u \in Thread : u # t => (u \in U <=> u \in V)
      BY <1>a, Others DEF Linkers
<1>e. /\ ~UnionLink(t) => Children' = Children
      /\ UnionLink(t) => /\ loc[t].q \notin Children
                         /\ Children' = Children \cup {loc[t].q}
      BY <1>a, ChildrenStep
<1>f. /\ t \in U <=> Where(pc[t], loc[t]) \in AfterLink
      /\ t \in V <=> Where(pc'[t], loc'[t]) \in AfterLink
      /\ U \subseteq Thread /\ V \subseteq Thread
      BY DEF Linkers
<1>g. SUFFICES Cardinality(Children') = merges' + Cardinality(V)
      BY <1>a, Propagators DEF MergesCounted, Children
<1> HIDE DEF U, V
<1>1. CASE UnionLink(t) /\ pc'[t] # "ready" /\ t \notin U /\ t \in V
  <2>1. V = U \cup {t}
        BY <1>1, <1>d, <1>f
  <2>2. Cardinality(V) = Cardinality(U) + 1
        BY <2>1, <1>1, <1>c, FS_AddElement, Zenon
  <2>3. Cardinality(Children') = Cardinality(Children) + 1
        BY <1>1, <1>c, <1>e, FS_AddElement, Zenon
  <2>4. merges' = merges
        BY <1>a, <1>1 DEF Returns
  <2> QED BY <2>2, <2>3, <2>4, <1>a, <1>b, <1>c
<1>2. CASE /\ ~UnionLink(t) /\ ~(Returns(t, "union") /\ loc'[t].v)
           /\ t \in U <=> t \in V
  <2>1. V = U
        BY <1>2, <1>d, <1>f
  <2>2. merges' = merges /\ Children' = Children
        BY <1>2, <1>a, <1>e
  <2> QED BY <2>1, <2>2, <1>b
<1>3. CASE /\ ~UnionLink(t) /\ Returns(t, "union") /\ loc'[t].v
           /\ t \in U /\ t \notin V
  <2>1. V = U \ {t}
        BY <1>3, <1>d, <1>f
  <2>2. Cardinality(V) = Cardinality(U) - 1
        BY <2>1, <1>3, <1>c, FS_RemoveElement, Zenon
  <2>3. merges' = merges + 1 /\ Children' = Children
        BY <1>3, <1>a, <1>e
  <2> QED BY <2>2, <2>3, <1>a, <1>b, <1>c
<1> QED BY <1>1, <1>2, <1>3, <1>a, <1>f, OwnCount DEF CountInv

LEMMA CallCounts ==
    ASSUME CountInv, NEW t \in Thread, Call(t)
    PROVE  /\ \A u \in Thread : Where(pc'[u], loc'[u]) \in UnionOp
                 => call'[u].op = "union"
           /\ merges' \in Nat /\ MergesCounted'
<1>a. IInv /\ call \in [Thread -> CallRecord] /\ merges \in Nat
      BY DEF CountInv, AnswersInv, SetsInv
<1>1. /\ parent' = parent
      /\ \A u \in Thread : u # t => pc'[u] = pc[u] /\ loc'[u] = loc[u]
      BY <1>a, CallFrame
<1>2. PICK op \in Operation, a, b \in State :
         Begins(op, a, b, pc'[t], loc'[t]) /\ Invoke(t, op, a, b)
      BY <1>a, CallBegins
<1>3. /\ merges' = merges /\ call'[t].op = op
      /\ \A u \in Thread : u # t => call'[u] = call[u]
      BY <1>2, <1>a DEF Invoke
<1>4. /\ Where(pc'[t], loc'[t]) \in UnionOp => op = "union"
      /\ Where(pc'[t], loc'[t]) \notin AfterLink
  <2> DEFINE z == Where(pc'[t], loc'[t])
  <2>1. \/ z \in {"got", "same_a", "claim", "acc", "ready", "picked", "remove"}
        \/ op = "union" /\ z = "union_a"
    <3>1. CASE op \in DOMAIN Entry /\ pc'[t] = "find"
      <4>1. loc'[t].pret = "" /\ loc'[t].fret = Entry[op]
            BY <1>2, <3>1, Zenon DEF Begins
      <4>2. z = Entry[op]
            BY <4>1, <3>1, Zenon DEF Where, Outer, InFind
      <4> QED BY <4>2, <3>1 DEF Entry
    <3>2. CASE pc'[t] \in {"ready", "pick_a", "remove"}
          BY Zenon, <1>2, <3>2 DEF Begins, Where, Outer, InFind
    <3> QED BY Zenon, <1>2, <3>1, <3>2 DEF Begins
  <2> HIDE DEF z
  <2>2. (z \in UnionOp => op = "union") /\ z \notin AfterLink
        BY Zenon, <2>1 DEF UnionOp, Before, BeforeLink, AfterLink
  <2> QED BY <2>2 DEF z
<1>5. Where(pc[t], loc[t]) \notin AfterLink
  <2>1. PICK m, p : Enter(t, m, p)
        BY CallStarts
  <2>2. pc[t] = "ready" /\ PickOK(pc[t], loc[t])
        BY <2>1, <1>a DEF Enter, IInv, LocalOK
  <2> QED BY Zenon, <2>2 DEF PickOK, Where, Outer, InFind, InPick, AfterLink
<1>6. Linkers(pc', loc') = Linkers(pc, loc)
      BY <1>1, <1>4, <1>5 DEF Linkers
<1>7. MergesCounted'
      BY <1>1, <1>3, <1>6, Propagators, Zenon DEF MergesCounted, CountInv
<1>8. \A u \in Thread : Where(pc'[u], loc'[u]) \in UnionOp
         => call'[u].op = "union"
      BY <1>1, <1>3, <1>4 DEF CountInv
<1> QED BY <1>3, <1>7, <1>8, <1>a

LEMMA InitCounts == Init => CountInv
<1> SUFFICES ASSUME Init
             PROVE  CountInv
      OBVIOUS
<1>1. AnswersInv
      BY InitAnswers
<1>2. \A t \in Thread : Where(pc[t], loc[t]) = "ready"
  <2>1. NoLocal.pret = ""
        BY Zenon, NoLocalType DEF NoLocal
  <2>2. \A t \in Thread : pc[t] = "ready" /\ loc[t].pret = ""
        BY <2>1, Zenon DEF Init, UFInit
  <2> QED BY Zenon, <2>2 DEF Where, Outer, InFind
<1>3. "ready" \notin UnionOp /\ "ready" \notin AfterLink
      BY Zenon DEF UnionOp, Before, BeforeLink, AfterLink
<1>4. Linkers(pc, loc) = {} /\ Children = {} /\ merges = 0
      BY <1>2, <1>3 DEF Linkers, Children, Init, UFInit
<1>5. MergesCounted
      BY <1>4, Propagators, FS_EmptySet DEF MergesCounted, Children
<1> QED BY <1>1, <1>2, <1>3, <1>4, <1>5 DEF CountInv

LEMMA NextCounts == CountInv /\ [Next]_vars => CountInv'
<1> SUFFICES ASSUME CountInv, [Next]_vars
             PROVE  CountInv'
      OBVIOUS
<1>1. AnswersInv'
      BY NextAnswers DEF CountInv
<1> DEFINE Good ==
             /\ \A u \in Thread : Where(pc'[u], loc'[u]) \in UnionOp
                   => call'[u].op = "union"
             /\ merges' \in Nat /\ MergesCounted'
<1>2. Good
  <2>1. ASSUME NEW t \in Thread, Call(t)
        PROVE  Good
        BY <2>1, CallCounts
  <2>2. ASSUME NEW t \in Thread, Step(t)
        PROVE  Good
    <3>1. UFStep(t) /\ call' = call /\ IInv /\ AnswersInv
          BY <2>2 DEF Step, CountInv, AnswersInv, SetsInv
    <3>2. \A u \in Thread : Where(pc'[u], loc'[u]) \in UnionOp
             => call'[u].op = "union"
      <4> TAKE u \in Thread
      <4>1. CASE u = t
            BY <3>1, <4>1, OwnCount DEF CountInv
      <4>2. CASE u # t
            BY <3>1, <4>2, Others DEF CountInv
      <4> QED BY <4>1, <4>2
    <3> QED BY <2>2, <3>2, StepCounts
  <2>3. CASE UNCHANGED vars
    <3>1. /\ pc' = pc /\ loc' = loc /\ call' = call /\ parent' = parent
          /\ merges' = merges
          BY <2>3 DEF vars, ufvars, forest, history
    <3>2. MergesCounted'
          BY <3>1, Propagators DEF CountInv, MergesCounted
    <3> QED BY <3>1, <3>2 DEF CountInv
  <2> QED BY <2>1, <2>2, <2>3 DEF Next, Quiet
<1> QED BY <1>1, <1>2 DEF CountInv

\* Each union that returns true has taken away exactly one representative: no
\* two threads both claim to have merged the same two sets, and no merge is
\* done silently (unionfind.c, uf_union and uf_lock_uf; a part of
\* AnswersRight).
THEOREM MergeOnce == Spec => []MergesCounted
<1>1. CountInv => MergesCounted
      BY DEF CountInv
<1> QED BY <1>1, InitCounts, NextCounts, PTL DEF Spec
=============================================================================
