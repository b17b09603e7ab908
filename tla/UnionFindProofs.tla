-------------------------- MODULE UnionFindProofs ---------------------------
(***************************************************************************)
(* Proofs about the union-find structure, for any number of states and     *)
(* threads and any calls: the forest has no cycle (ParentHigher), a locked *)
(* representative belongs to one union until it is linked (LockedRoot),    *)
(* the lists have no loose end (ListClosed), and a state that has a parent *)
(* is never a representative again.                                        *)
(***************************************************************************)
EXTENDS UFClient, TLAPS

\* The arrays and the local variables have values of their types; of the
\* bits only that they are workers and marks.
Typed ==
    /\ parent \in [State -> Ref]
    /\ uf_status \in [State -> {"UF_LIVE", "UF_LOCK", "UF_DEAD"}]
    /\ list_status \in [State -> {"LIST_LIVE", "LIST_LOCK", "LIST_TOMB"}]
    /\ list_next \in [State -> Ref]
    /\ p_set \in [State -> Bits]
    /\ acc_set \in [State -> Bits]
    /\ pc \in [Thread -> Label]
    /\ loc \in [Thread -> Local]

\* Where the local variables hold a state, and what is known of it.
InFind == {"find", "find_y", "find_write"}
InPick == {"pick_a", "pick_next", "pick_b", "pick_c", "pick_write", "dead",
           "dead_cas", "dead_root", "dead_check"}
BeforeLink == {"union_list_a", "union_cas_a", "union_list_b", "union_cas_b",
               "union_unlist", "union_fail", "union_swap", "union_link"}
AfterLink == {"union_acc_r", "union_acc_q", "union_or_acc", "union_up_acc",
              "union_acc", "union_set_q", "union_set_r", "union_or_set",
              "union_up_set", "union_set", "union_unlist_a",
              "union_unlist_b", "union_unlock"}

\* Where a thread with pc p and locals l goes on after uf_find, and after
\* uf_pick_from_list.
Outer(p, l) == IF p \in InFind THEN l.fret ELSE p
Where(p, l) == IF l.pret # "" THEN l.pret ELSE Outer(p, l)

FindOK(p, l) ==
    /\ p \in InFind => l.x \in State /\ l.fret # ""
    /\ p \in {"find_y", "find_write"} => l.y \in State /\ l.x < l.y
    /\ p \in FindReturn \cup {"same_check", "dead_cas", "dead_root", "acc_or"}
          => l.f \in State

PickOK(p, l) ==
    /\ l.pret # "" <=> Outer(p, l) \in InPick
    /\ l.pret # "" => l.pa \in State
    /\ p \in {"pick_b", "pick_c", "pick_write"} => l.pb \in State
    /\ p = "pick_write" => l.pn \in State
    /\ p \in {"union_list_a", "union_list_b"} /\ l.code = "PICK_SUCCESS"
          => l.ret \in State
    /\ p \in {"union_cas_a", "union_cas_b"} => l.ret \in State

CallOK(w, l) ==
    /\ w \in {"same_a", "same_b", "union_a", "union_b", "union_lock",
              "union_root", "union_retry"} \cup BeforeLink
          => l.a \in State /\ l.b \in State
    /\ w \in {"acc", "acc_or", "acc_up", "remove", "remove_cas"}
          => l.a \in State
    /\ w \in {"same_b", "same_check", "union_b"} => l.a_r \in State
    /\ w \in {"claim_found", "claim_or", "claim_up", "claim_set", "acc_up"}
          => l.r \in State
    /\ w \in {"union_lock", "union_root", "union_retry"} \cup BeforeLink
          => l.q \in State /\ l.r \in State /\ l.q < l.r
    /\ w \in AfterLink => l.q \in State /\ l.r \in State
    /\ w \in {"union_list_b", "union_cas_b", "union_unlist", "union_swap",
              "union_link"} \cup AfterLink => l.a_l \in State
    /\ w \in {"union_swap", "union_link"} \cup AfterLink => l.b_l \in State

LocalOK(t) ==
    /\ FindOK(pc[t], loc[t])
    /\ PickOK(pc[t], loc[t])
    /\ CallOK(Where(pc[t], loc[t]), loc[t])

\* uf_find only writes to states that have a parent.
HasParent ==
    \A t \in Thread :
       pc[t] \in {"find_y", "find_write"} => parent[loc[t].x] # 0

\* t holds the lock on its q.
Locked == {"union_root", "union_retry"} \cup BeforeLink \cup AfterLink
Holds(t) == Where(pc[t], loc[t]) \in Locked

Locks ==
    /\ \A t \in Thread : Holds(t) => uf_status[loc[t].q] = "UF_LOCK"
    /\ \A t, u \in Thread :
          Holds(t) /\ Holds(u) /\ t # u => loc[t].q # loc[u].q
    /\ \A t \in Thread :
          Where(pc[t], loc[t]) \in BeforeLink => parent[loc[t].q] = 0

\* The lists, and the place in them of a thread that walks one.
Lists ==
    /\ \A s \in State : list_next[s] # 0 => list_next[list_next[s]] # 0
    /\ \A t \in Thread :
          /\ pc[t] \in {"pick_b", "pick_c", "pick_write"} =>
                list_next[loc[t].pa] # 0 /\ list_next[loc[t].pb] # 0
          /\ pc[t] = "pick_write" => list_next[loc[t].pn] # 0

\* What a step from p and locals l to place q and locals m respects: a lock
\* comes from the cas of uf_lock_uf, the root from the test after it; uf_find
\* and uf_pick_from_list go on only from entries that have a successor.
Keeps(p, l, q, m) ==
    /\ Where(q, m) \in Locked =>
          /\ m.q = l.q
          /\ \/ Where(p, l) \in Locked
             \/ p = "union_lock" /\ uf_status[l.q] = "UF_LIVE"
    /\ Where(q, m) \in BeforeLink =>
          \/ Where(p, l) \in BeforeLink
          \/ p = "union_root" /\ parent[l.q] = 0
    /\ q \in {"find_y", "find_write"} => parent[m.x] # 0
    /\ q \in {"pick_b", "pick_c", "pick_write"} =>
          list_next[m.pa] # 0 /\ list_next[m.pb] # 0
    /\ q = "pick_write" => list_next[m.pn] # 0

\* The inductive invariant.
IInv ==
    /\ Typed
    /\ \A t \in Thread : LocalOK(t)
    /\ ParentHigher
    /\ HasParent
    /\ Locks
    /\ Lists

-----------------------------------------------------------------------------
(* The local variables                                                     *)

LEMMA Refs ==
    /\ 0 \in Ref
    /\ \A s \in State : s \in Ref
    /\ \A s \in Ref : s # 0 => s \in State
    BY NAssumption DEF Ref, State

LEMMA NoLocalType == NoLocal \in Local
<1>1. {} \in Bits
      BY DEF Bits
<1> QED
      BY <1>1, Refs DEF Local, NoLocal, FindReturn, Code, PickReturn

\* What a thread between two calls is left with.
LEMMA ReadyOK ==
    ASSUME NEW m \in Local, m.pret = ""
    PROVE  /\ FindOK("ready", m) /\ PickOK("ready", m)
           /\ CallOK(Where("ready", m), m)
           /\ \A p, l : Keeps(p, l, "ready", m)
    BY Zenon DEF FindOK, PickOK, CallOK, Keeps, Where, Outer, InFind, InPick,
           FindReturn, BeforeLink, AfterLink, Locked

\* The fields that stay as they are when uf_find returns or goes on.
SameCall(l, m) ==
    /\ m.pret = l.pret /\ m.pa = l.pa /\ m.a = l.a /\ m.b = l.b
    /\ m.a_r = l.a_r /\ m.r = l.r /\ m.q = l.q /\ m.a_l = l.a_l
    /\ m.b_l = l.b_l

\* uf_find returns the root s to its caller.
LEMMA FindReturns ==
    ASSUME NEW l \in Local, NEW p \in InFind, NEW s \in State,
           FindOK(p, l), PickOK(p, l), CallOK(Where(p, l), l)
    PROVE  LET m == [l EXCEPT !.f = s, !.x = 0, !.y = 0, !.fret = ""]
           IN  /\ m \in Local /\ FindOK(l.fret, m) /\ PickOK(l.fret, m)
               /\ CallOK(Where(l.fret, m), m) /\ Keeps(p, l, l.fret, m)
<1> DEFINE m == [l EXCEPT !.f = s, !.x = 0, !.y = 0, !.fret = ""]
<1>1. m \in Local
      BY Zenon, Refs DEF Local, FindReturn
<1>2. SameCall(l, m) /\ m.f = s
      BY Zenon DEF Local, SameCall
<1>3. l.fret \in FindReturn \ {""}
      BY Zenon DEF FindOK, Local
<1> HIDE DEF m
<1>4. Outer(l.fret, m) = Outer(p, l) /\ l.fret \notin InFind
      BY Zenon, <1>3 DEF Outer, InFind, FindReturn
<1>5. Where(l.fret, m) = Where(p, l)
      BY Zenon, <1>2, <1>4 DEF Where, SameCall
<1>6. FindOK(l.fret, m)
      BY Zenon, <1>2, <1>3, <1>4 DEF FindOK, FindReturn, InFind
<1>7. PickOK(l.fret, m)
      BY Zenon, <1>2, <1>3, <1>4 DEF PickOK, SameCall, FindReturn
<1>8. CallOK(Where(l.fret, m), m)
      BY Zenon, <1>2, <1>5 DEF CallOK, SameCall
<1>9. Keeps(p, l, l.fret, m)
      BY Zenon, <1>2, <1>3, <1>5 DEF Keeps, SameCall, FindReturn
<1> QED BY <1>1, <1>6, <1>7, <1>8, <1>9 DEF m

\* uf_find goes on.
LEMMA FindGoesOn ==
    ASSUME NEW l \in Local, NEW m \in Local, NEW p \in InFind,
           NEW q \in InFind, SameCall(l, m), m.fret = l.fret,
           FindOK(p, l), PickOK(p, l), CallOK(Where(p, l), l), m.x \in State,
           q # "find" => /\ m.y \in State /\ m.x < m.y
                         /\ parent[m.x] # 0
    PROVE  /\ FindOK(q, m) /\ PickOK(q, m) /\ CallOK(Where(q, m), m)
           /\ Keeps(p, l, q, m)
<1>1. Where(q, m) = Where(p, l) /\ Outer(q, m) = Outer(p, l)
      BY Zenon DEF Where, Outer, SameCall
<1>2. FindOK(q, m)
      BY Zenon DEF FindOK, InFind, FindReturn
<1>3. PickOK(q, m)
      BY Zenon, <1>1 DEF PickOK, InFind, SameCall
<1>4. CallOK(Where(q, m), m)
      BY Zenon, <1>1 DEF CallOK, SameCall
<1>5. Keeps(p, l, q, m)
      BY Zenon, <1>1 DEF Keeps, SameCall, InFind
<1> QED BY <1>2, <1>3, <1>4, <1>5

\* A step leaves the thread with local variables of their types that agree
\* with its place in the operation.
LEMMA LocalStep ==
    ASSUME IInv, NEW t \in Thread, UFStep(t)
    PROVE  /\ loc'[t] \in Local
           /\ LocalOK(t)'
           /\ Keeps(pc[t], loc[t], pc'[t], loc'[t])
<1> DEFINE l == loc[t]
<1>a. loc \in [Thread -> Local] /\ pc \in [Thread -> Label] /\ l \in Local
      BY DEF IInv, Typed
<1>b. /\ FindOK(pc[t], l)
      /\ PickOK(pc[t], l)
      /\ CallOK(Where(pc[t], l), l)
      BY DEF IInv, LocalOK
<1>c. ASSUME NEW m \in Local, NEW p, loc'[t] = m, pc'[t] = p,
             FindOK(p, m), PickOK(p, m), CallOK(Where(p, m), m),
             Keeps(pc[t], l, p, m)
      PROVE  /\ loc'[t] \in Local
             /\ LocalOK(t)'
             /\ Keeps(pc[t], loc[t], pc'[t], loc'[t])
      BY <1>c DEF LocalOK
<1>d. /\ \A s \in State : /\ parent[s] \in Ref
                          /\ parent[s] # 0 => parent[s] \in State /\ s < parent[s]
                          /\ list_next[s] \in Ref
                          /\ list_next[s] # 0 => list_next[s] \in State
                          /\ p_set[s] \in Bits
                          /\ acc_set[s] \in Bits
                          /\ list_next[s] # 0 => list_next[list_next[s]] # 0
      /\ pc[t] \in {"find_y", "find_write"} => parent[l.x] # 0
      /\ pc[t] \in {"pick_b", "pick_c", "pick_write"} =>
            list_next[l.pa] # 0 /\ list_next[l.pb] # 0
      /\ pc[t] = "pick_write" => list_next[l.pn] # 0
      BY Refs DEF IInv, Typed, ParentHigher, HasParent, Lists
<1>e. \A s, u, v \in State : s < u /\ u < v => s < v
      BY DEF State
<1>1. CASE FindX(t)
  <2>a. pc[t] \in InFind /\ l.x \in State
        BY Zenon, <1>1, <1>b DEF FindX, FindOK, InFind
  <2>1. CASE parent[l.x] = 0
    <3>1. /\ loc'[t] = [l EXCEPT !.f = l.x, !.x = 0, !.y = 0, !.fret = ""]
          /\ pc'[t] = l.fret
          BY Zenon, <1>1, <2>1, <1>a DEF FindX, FindResult, Goto, Assign
    <3> QED BY Zenon, <3>1, <2>a, <1>a, <1>b, <1>c, FindReturns
  <2>2. CASE parent[l.x] # 0
    <3> DEFINE m == [l EXCEPT !.y = parent[l.x]]
    <3>1. loc'[t] = m /\ pc'[t] = "find_y"
          BY Zenon, <1>1, <2>2, <1>a DEF FindX, Goto, Assign
    <3>2. /\ m \in Local /\ SameCall(l, m) /\ m.fret = l.fret
          /\ m.x = l.x /\ m.y = parent[l.x]
          BY Zenon, <2>a, <1>a, <1>d DEF Local, SameCall
    <3>3. parent[l.x] \in State /\ l.x < parent[l.x]
          BY <2>2, <2>a, <1>d
    <3>4. "find_y" \in InFind
          BY DEF InFind
    <3> HIDE DEF m
    <3> QED BY <3>1, <3>2, <3>3, <3>4, <2>a, <2>2, <1>a, <1>b, <1>c, FindGoesOn
  <2> QED BY <2>1, <2>2
<1>2. CASE FindY(t)
  <2>a. /\ pc[t] \in InFind /\ l.x \in State /\ l.y \in State /\ l.x < l.y
        /\ parent[l.x] # 0
        BY Zenon, <1>2, <1>b, <1>d DEF FindY, FindOK, InFind
  <2>1. CASE parent[l.y] = 0
    <3>1. /\ loc'[t] = [l EXCEPT !.f = l.y, !.x = 0, !.y = 0, !.fret = ""]
          /\ pc'[t] = l.fret
          BY Zenon, <1>2, <2>1, <1>a DEF FindY, FindResult, Goto, Assign
    <3> QED BY Zenon, <3>1, <2>a, <1>a, <1>b, <1>c, FindReturns
  <2>2. CASE parent[l.y] # 0
    <3> DEFINE m == [l EXCEPT !.y = parent[l.y]]
    <3>1. loc'[t] = m /\ pc'[t] = "find_write"
          BY Zenon, <1>2, <2>2, <1>a DEF FindY, Goto, Assign
    <3>2. /\ m \in Local /\ SameCall(l, m) /\ m.fret = l.fret
          /\ m.x = l.x /\ m.y = parent[l.y]
          BY Zenon, <2>a, <1>a, <1>d DEF Local, SameCall
    <3>3. parent[l.y] \in State /\ l.x < parent[l.y]
          BY <2>2, <2>a, <1>d, <1>e
    <3>4. "find_write" \in InFind
          BY DEF InFind
    <3> HIDE DEF m
    <3> QED BY <3>1, <3>2, <3>3, <3>4, <2>a, <1>a, <1>b, <1>c, FindGoesOn
  <2> QED BY <2>1, <2>2
<1>3. CASE FindWrite(t)
  <2> DEFINE m == [l EXCEPT !.x = l.y, !.y = 0]
  <2>1. loc'[t] = m /\ pc'[t] = "find"
        BY Zenon, <1>3, <1>a DEF FindWrite, Goto, Assign
  <2>2. pc[t] \in InFind /\ l.y \in State
        BY Zenon, <1>3, <1>b DEF FindWrite, FindOK, InFind
  <2>3. m \in Local /\ SameCall(l, m) /\ m.fret = l.fret /\ m.x = l.y
        BY Zenon, <2>2, <1>a, Refs DEF Local, SameCall
  <2>4. "find" \in InFind
        BY DEF InFind
  <2> HIDE DEF m
  <2> QED BY <2>1, <2>2, <2>3, <2>4, <1>a, <1>b, <1>c, FindGoesOn
<1> USE DEF FindOK, PickOK, CallOK, Where, Outer, InFind, InPick, BeforeLink,
            AfterLink, Locked, FindReturn, PickReturn, Local
<1>4. CASE Got(t)
  <2> DEFINE m == [NoLocal EXCEPT !.code = "", !.ret = l.f]
  <2>1. loc'[t] = m /\ pc'[t] = "ready"
        BY Zenon, <1>4, <1>a
        DEF Got, Return, ReturnCode, Goto, forest, lists, sets, Assign
  <2>2. m \in Local
        BY Zenon, <1>4, <1>a, <1>b, <1>d, NoLocalType, Refs DEF Got, Code
  <2>3. m.pret = ""
        BY Zenon, NoLocalType DEF NoLocal
  <2> QED BY Zenon, <2>1, <2>2, <2>3, <1>c, ReadyOK
<1>5. CASE SameA(t)
  <2> DEFINE m == [l EXCEPT !.a_r = l.f, !.x = l.b, !.fret = "same_b"]
  <2>1. loc'[t] = m /\ pc'[t] = "find"
        BY Zenon, <1>5, <1>a DEF SameA, Goto, forest, lists, sets, Assign
  <2>2. m \in Local
        BY Zenon, <1>5, <1>a, <1>b, <1>d, Refs DEF SameA
  <2>3. FindOK("find", m) /\ PickOK("find", m) /\ CallOK(Where("find", m), m)
        BY Zenon, <1>5, <1>a, <1>b, <1>d DEF SameA
  <2>4. Keeps(pc[t], l, "find", m)
        BY Zenon, <1>5, <1>a, <1>b, <1>d DEF SameA, Keeps
  <2> QED BY Zenon, <2>1, <2>2, <2>3, <2>4, <1>a, <1>c
<1>6. CASE SameB(t)
  <2>1. CASE l.a_r = l.f
    <3> DEFINE m == [NoLocal EXCEPT !.v = TRUE]
    <3>1. loc'[t] = m /\ pc'[t] = "ready"
          BY Zenon, <1>6, <2>1, <1>a
          DEF SameB, Return, ReturnBool, Goto, forest, lists, sets, Assign
    <3>2. m \in Local
          BY Zenon, <1>6, <2>1, <1>a, <1>b, <1>d, NoLocalType, Refs DEF SameB
    <3>3. m.pret = ""
          BY Zenon, NoLocalType DEF NoLocal
    <3> QED BY Zenon, <3>1, <3>2, <3>3, <1>c, ReadyOK
  <2>2. CASE l.a_r # l.f
    <3>1. loc'[t] = l /\ pc'[t] = "same_check"
          BY Zenon, <1>6, <2>2, <1>a
          DEF SameB, Return, ReturnBool, Goto, forest, lists, sets, Assign
    <3>3. /\ FindOK("same_check", l) /\ PickOK("same_check", l)
          /\ CallOK(Where("same_check", l), l)
          BY Zenon, <1>6, <2>2, <1>a, <1>b, <1>d DEF SameB
    <3>4. Keeps(pc[t], l, "same_check", l)
          BY Zenon, <1>6, <2>2, <1>a, <1>b, <1>d DEF SameB, Keeps
    <3> QED BY Zenon, <3>1, <3>3, <3>4, <1>a, <1>c
  <2> QED BY Zenon, <1>6, <2>1, <2>2
<1>7. CASE SameCheck(t)
  <2>1. CASE parent[l.a_r] = 0
    <3> DEFINE m == [NoLocal EXCEPT !.v = FALSE]
    <3>1. loc'[t] = m /\ pc'[t] = "ready"
          BY Zenon, <1>7, <2>1, <1>a
          DEF SameCheck, Return, ReturnBool, Goto, forest, lists, sets, Assign
    <3>2. m \in Local
          BY Zenon, <1>7, <2>1, <1>a, <1>b, <1>d, NoLocalType, Refs
          DEF SameCheck
    <3>3. m.pret = ""
          BY Zenon, NoLocalType DEF NoLocal
    <3> QED BY Zenon, <3>1, <3>2, <3>3, <1>c, ReadyOK
  <2>2. CASE parent[l.a_r] # 0
    <3> DEFINE m == [l EXCEPT !.a = l.a_r, !.b = l.f, !.x = l.a_r,
              !.fret = "same_a"]
    <3>1. loc'[t] = m /\ pc'[t] = "find"
          BY Zenon, <1>7, <2>2, <1>a
          DEF SameCheck, Return, ReturnBool, Goto, forest, lists, sets, Assign
    <3>2. m \in Local
          BY Zenon, <1>7, <2>2, <1>a, <1>b, <1>d, Refs DEF SameCheck
    <3>3. /\ FindOK("find", m) /\ PickOK("find", m)
          /\ CallOK(Where("find", m), m)
          BY Zenon, <1>7, <2>2, <1>a, <1>b, <1>d DEF SameCheck
    <3>4. Keeps(pc[t], l, "find", m)
          BY Zenon, <1>7, <2>2, <1>a, <1>b, <1>d DEF SameCheck, Keeps
    <3> QED BY Zenon, <3>1, <3>2, <3>3, <3>4, <1>a, <1>c
  <2> QED BY Zenon, <1>7, <2>1, <2>2
<1>8. CASE PickA(t)
  <2>1. CASE list_status[l.pa] = "LIST_LIVE"
    <3> DEFINE m == [l EXCEPT !.code = "PICK_SUCCESS", !.ret = l.pa, !.pa = 0, !.pb = 0, !.pn = 0,
              !.pret = "", !.v = FALSE]
    <3>1. loc'[t] = m /\ pc'[t] = l.pret
          BY Zenon, <1>8, <2>1, <1>a
          DEF PickA, PickResult, Goto, forest, lists, sets, Assign
    <3>2. m \in Local
          BY Zenon, <1>8, <2>1, <1>a, <1>b, <1>d, Refs DEF PickA, Code
    <3>3. /\ FindOK(l.pret, m) /\ PickOK(l.pret, m)
          /\ CallOK(Where(l.pret, m), m)
          BY Zenon, <1>8, <2>1, <1>a, <1>b, <1>d DEF PickA
    <3>4. Keeps(pc[t], l, l.pret, m)
          BY Zenon, <1>8, <2>1, <1>a, <1>b, <1>d DEF PickA, Keeps
    <3> HIDE DEF FindOK, PickOK, CallOK, Where, Outer, Local
    <3> QED BY <3>1, <3>2, <3>3, <3>4, <1>a, <1>c
  <2>2. CASE list_status[l.pa] # "LIST_LIVE"
    <3>1. loc'[t] = l /\ pc'[t] = "pick_next"
          BY Zenon, <1>8, <2>2, <1>a
          DEF PickA, PickResult, Goto, forest, lists, sets, Assign
    <3>3. /\ FindOK("pick_next", l) /\ PickOK("pick_next", l)
          /\ CallOK(Where("pick_next", l), l)
          BY Zenon, <1>8, <2>2, <1>a, <1>b, <1>d DEF PickA
    <3>4. Keeps(pc[t], l, "pick_next", l)
          BY Zenon, <1>8, <2>2, <1>a, <1>b, <1>d DEF PickA, Keeps
    <3> QED BY Zenon, <3>1, <3>3, <3>4, <1>a, <1>c
  <2> QED BY Zenon, <1>8, <2>1, <2>2
<1>9. CASE PickNext(t)
  <2>1. CASE list_next[l.pa] = l.pa \/ list_next[l.pa] = 0
    <3> DEFINE m == [l EXCEPT !.x = l.pa, !.fret = "dead"]
    <3>1. loc'[t] = m /\ pc'[t] = "find"
          BY Zenon, <1>9, <2>1, <1>a
          DEF PickNext, Find, Goto, forest, lists, sets, Assign
    <3>2. m \in Local
          BY Zenon, <1>9, <2>1, <1>a, <1>b, <1>d, Refs DEF PickNext
    <3>3. FindOK("find", m)
          BY Zenon, <1>9, <1>a, <1>b DEF PickNext
    <3>4. PickOK("find", m)
          BY Zenon, <1>9, <1>a, <1>b DEF PickNext
    <3>5. CallOK(Where("find", m), m)
          BY Zenon, <1>9, <1>a, <1>b DEF PickNext
    <3>6. Keeps(pc[t], l, "find", m)
          BY Zenon, <1>9, <1>a, <1>b DEF PickNext, Keeps
    <3> QED BY Zenon, <3>1, <3>2, <3>3, <3>4, <3>5, <3>6, <1>a, <1>c
  <2>2. CASE ~(list_next[l.pa] = l.pa \/ list_next[l.pa] = 0)
    <3> DEFINE m == [l EXCEPT !.pb = list_next[l.pa]]
    <3>1. loc'[t] = m /\ pc'[t] = "pick_b"
          BY Zenon, <1>9, <2>2, <1>a
          DEF PickNext, Find, Goto, forest, lists, sets, Assign
    <3>2. m \in Local
          BY Zenon, <1>9, <2>2, <1>a, <1>b, <1>d, Refs DEF PickNext
    <3>3. /\ FindOK("pick_b", m) /\ PickOK("pick_b", m)
          /\ CallOK(Where("pick_b", m), m)
          BY Zenon, <1>9, <2>2, <1>a, <1>b, <1>d DEF PickNext
    <3>4. Keeps(pc[t], l, "pick_b", m)
          BY Zenon, <1>9, <2>2, <1>a, <1>b, <1>d DEF PickNext, Keeps
    <3> QED BY Zenon, <3>1, <3>2, <3>3, <3>4, <1>a, <1>c
  <2> QED BY Zenon, <1>9, <2>1, <2>2
<1>10. CASE PickB(t)
  <2>1. CASE list_status[l.pb] = "LIST_LIVE"
    <3> DEFINE m == [l EXCEPT !.code = "PICK_SUCCESS", !.ret = l.pb, !.pa = 0, !.pb = 0, !.pn = 0,
              !.pret = "", !.v = FALSE]
    <3>1. loc'[t] = m /\ pc'[t] = l.pret
          BY Zenon, <1>10, <2>1, <1>a
          DEF PickB, PickResult, Goto, forest, lists, sets, Assign
    <3>2. m \in Local
          BY Zenon, <1>10, <2>1, <1>a, <1>b, <1>d, Refs DEF PickB, Code
    <3>3. /\ FindOK(l.pret, m) /\ PickOK(l.pret, m)
          /\ CallOK(Where(l.pret, m), m)
          BY Zenon, <1>10, <2>1, <1>a, <1>b, <1>d DEF PickB
    <3>4. Keeps(pc[t], l, l.pret, m)
          BY Zenon, <1>10, <2>1, <1>a, <1>b, <1>d DEF PickB, Keeps
    <3> QED BY Zenon, <3>1, <3>2, <3>3, <3>4, <1>a, <1>c
  <2>2. CASE list_status[l.pb] # "LIST_LIVE"
    <3>1. loc'[t] = l /\ pc'[t] = "pick_c"
          BY Zenon, <1>10, <2>2, <1>a
          DEF PickB, PickResult, Goto, forest, lists, sets, Assign
    <3>3. /\ FindOK("pick_c", l) /\ PickOK("pick_c", l)
          /\ CallOK(Where("pick_c", l), l)
          BY Zenon, <1>10, <2>2, <1>a, <1>b, <1>d DEF PickB
    <3>4. Keeps(pc[t], l, "pick_c", l)
          BY Zenon, <1>10, <2>2, <1>a, <1>b, <1>d DEF PickB, Keeps
    <3> QED BY Zenon, <3>1, <3>3, <3>4, <1>a, <1>c
  <2> QED BY Zenon, <1>10, <2>1, <2>2
<1>11. CASE PickC(t)
  <2> DEFINE m == [l EXCEPT !.pn = list_next[l.pb]]
  <2>1. loc'[t] = m /\ pc'[t] = "pick_write"
        BY Zenon, <1>11, <1>a DEF PickC, Goto, forest, lists, sets, Assign
  <2>2. m \in Local
        BY Zenon, <1>11, <1>a, <1>b, <1>d, Refs DEF PickC
  <2>3. /\ FindOK("pick_write", m) /\ PickOK("pick_write", m)
        /\ CallOK(Where("pick_write", m), m)
        BY Zenon, <1>11, <1>a, <1>b, <1>d DEF PickC
  <2>4. Keeps(pc[t], l, "pick_write", m)
        BY Zenon, <1>11, <1>a, <1>b, <1>d DEF PickC, Keeps
  <2> QED BY Zenon, <2>1, <2>2, <2>3, <2>4, <1>a, <1>c
<1>12. CASE PickWrite(t)
  <2> DEFINE m == [l EXCEPT !.pa = l.pn, !.pb = 0, !.pn = 0]
  <2>1. loc'[t] = m /\ pc'[t] = "pick_a"
        BY Zenon, <1>12, <1>a DEF PickWrite, Goto, forest, sets, Assign
  <2>2. m \in Local
        BY Zenon, <1>12, <1>a, <1>b, <1>d, Refs DEF PickWrite
  <2>3. /\ FindOK("pick_a", m) /\ PickOK("pick_a", m)
        /\ CallOK(Where("pick_a", m), m)
        BY Zenon, <1>12, <1>a, <1>b, <1>d DEF PickWrite
  <2>4. Keeps(pc[t], l, "pick_a", m)
        BY Zenon, <1>12, <1>a, <1>b, <1>d DEF PickWrite, Keeps
  <2> QED BY Zenon, <2>1, <2>2, <2>3, <2>4, <1>a, <1>c
<1>13. CASE MarkDead(t)
  <2>1. CASE uf_status[l.f] = "UF_DEAD"
    <3>1. loc'[t] = l /\ pc'[t] = "dead_root"
          BY Zenon, <1>13, <2>1, <1>a DEF MarkDead, Goto, forest, lists, sets
    <3>3. /\ FindOK("dead_root", l) /\ PickOK("dead_root", l)
          /\ CallOK(Where("dead_root", l), l)
          BY Zenon, <1>13, <2>1, <1>a, <1>b, <1>d DEF MarkDead
    <3>4. Keeps(pc[t], l, "dead_root", l)
          BY Zenon, <1>13, <2>1, <1>a, <1>b, <1>d DEF MarkDead, Keeps
    <3> QED BY Zenon, <3>1, <3>3, <3>4, <1>a, <1>c
  <2>2. CASE uf_status[l.f] # "UF_DEAD"
    <3>1. loc'[t] = l /\ pc'[t] = "dead_cas"
          BY Zenon, <1>13, <2>2, <1>a DEF MarkDead, Goto, forest, lists, sets
    <3>3. /\ FindOK("dead_cas", l) /\ PickOK("dead_cas", l)
          /\ CallOK(Where("dead_cas", l), l)
          BY Zenon, <1>13, <2>2, <1>a, <1>b, <1>d DEF MarkDead
    <3>4. Keeps(pc[t], l, "dead_cas", l)
          BY Zenon, <1>13, <2>2, <1>a, <1>b, <1>d DEF MarkDead, Keeps
    <3> QED BY Zenon, <3>1, <3>3, <3>4, <1>a, <1>c
  <2> QED BY Zenon, <1>13, <2>1, <2>2
<1>14. CASE MarkDeadCas(t)
  <2> DEFINE m == [l EXCEPT !.v = (uf_status[l.f] = "UF_LIVE")]
  <2>1. loc'[t] = m /\ pc'[t] = "dead"
        BY Zenon, <1>14, <1>a DEF MarkDeadCas, Goto, lists, sets, Assign
  <2>2. m \in Local
        BY Zenon, <1>14, <1>a, <1>b, <1>d, Refs DEF MarkDeadCas
  <2>3. FindOK("dead", m) /\ PickOK("dead", m) /\ CallOK(Where("dead", m), m)
        BY Zenon, <1>14, <1>a, <1>b, <1>d DEF MarkDeadCas
  <2>4. Keeps(pc[t], l, "dead", m)
        BY Zenon, <1>14, <1>a, <1>b, <1>d DEF MarkDeadCas, Keeps
  <2> HIDE DEF FindOK, PickOK, CallOK, Where, Outer, Local
  <2> QED BY <2>1, <2>2, <2>3, <2>4, <1>a, <1>c
<1>15. CASE MarkDeadRoot(t)
  <2> DEFINE m == [l EXCEPT !.x = l.pa, !.fret = "dead_check"]
  <2>1. loc'[t] = m /\ pc'[t] = "find"
        BY Zenon, <1>15, <1>a
        DEF MarkDeadRoot, Find, Goto, forest, lists, sets, Assign
  <2>2. m \in Local
        BY Zenon, <1>15, <1>a, <1>b, <1>d, Refs DEF MarkDeadRoot
  <2>3. FindOK("find", m)
        BY Zenon, <1>15, <1>a, <1>b, <1>d DEF MarkDeadRoot
  <2>4. PickOK("find", m)
        BY Zenon, <1>15, <1>a, <1>b, <1>d DEF MarkDeadRoot
  <2>5. CallOK(Where("find", m), m)
        BY Zenon, <1>15, <1>a, <1>b, <1>d DEF MarkDeadRoot
  <2>6. Keeps(pc[t], l, "find", m)
        BY Zenon, <1>15, <1>a, <1>b, <1>d DEF MarkDeadRoot, Keeps
  <2> QED BY Zenon, <2>1, <2>2, <2>3, <2>4, <2>5, <2>6, <1>a, <1>c
<1>16. CASE MarkDeadCheck(t)
  <2> DEFINE m == [l EXCEPT !.code = IF l.v THEN "PICK_MARK_DEAD" ELSE "PICK_DEAD", !.ret = 0, !.pa = 0, !.pb = 0, !.pn = 0,
            !.pret = "", !.v = FALSE]
  <2>1. loc'[t] = m /\ pc'[t] = l.pret
        BY Zenon, <1>16, <1>a
        DEF MarkDeadCheck, PickResult, Goto, forest, lists, sets, Assign
  <2>2. m \in Local
        BY Zenon, <1>a, Refs DEF Code
  <2>3. FindOK(l.pret, m) /\ PickOK(l.pret, m) /\ CallOK(Where(l.pret, m), m)
        BY Zenon, <1>16, <1>a, <1>b, <1>d DEF MarkDeadCheck
  <2>4. Keeps(pc[t], l, l.pret, m)
        BY Zenon, <1>16, <1>a, <1>b, <1>d DEF MarkDeadCheck, Keeps
  <2> HIDE DEF FindOK, PickOK, CallOK, Where, Outer, Local
  <2> QED BY <2>1, <2>2, <2>3, <2>4, <1>a, <1>c
<1>17. CASE Picked(t)
  <2> DEFINE m == [NoLocal EXCEPT !.code = l.code, !.ret = l.ret]
  <2>1. loc'[t] = m /\ pc'[t] = "ready"
        BY Zenon, <1>17, <1>a
        DEF Picked, Return, ReturnCode, Goto, forest, lists, sets, Assign
  <2>2. m \in Local
        BY Zenon, <1>17, <1>a, <1>b, <1>d, NoLocalType, Refs DEF Picked, Code
  <2>3. m.pret = ""
        BY Zenon, NoLocalType DEF NoLocal
  <2> HIDE DEF FindOK, PickOK, CallOK, Where, Outer, Local
  <2> QED BY Zenon, <2>1, <2>2, <2>3, <1>c, ReadyOK
<1>18. CASE RemoveRead(t)
  <2>1. CASE list_status[l.a] = "LIST_LIVE"
    <3>1. loc'[t] = l /\ pc'[t] = "remove_cas"
          BY Zenon, <1>18, <2>1, <1>a
          DEF RemoveRead, Return, ReturnBool, Goto, forest, lists, sets,
            Assign
    <3>3. /\ FindOK("remove_cas", l) /\ PickOK("remove_cas", l)
          /\ CallOK(Where("remove_cas", l), l)
          BY Zenon, <1>18, <2>1, <1>a, <1>b, <1>d DEF RemoveRead
    <3>4. Keeps(pc[t], l, "remove_cas", l)
          BY Zenon, <1>18, <2>1, <1>a, <1>b, <1>d DEF RemoveRead, Keeps
    <3> QED BY Zenon, <3>1, <3>3, <3>4, <1>a, <1>c
  <2>2. CASE list_status[l.a] # "LIST_LIVE"
    <3> DEFINE m == [NoLocal EXCEPT !.v = FALSE]
    <3>1. loc'[t] = m /\ pc'[t] = "ready"
          BY Zenon, <1>18, <2>2, <1>a
          DEF RemoveRead, Return, ReturnBool, Goto, forest, lists, sets,
            Assign
    <3>2. m \in Local
          BY Zenon, <1>18, <2>2, <1>a, <1>b, <1>d, NoLocalType, Refs
          DEF RemoveRead
    <3>3. m.pret = ""
          BY Zenon, NoLocalType DEF NoLocal
    <3> QED BY Zenon, <3>1, <3>2, <3>3, <1>c, ReadyOK
  <2> QED BY Zenon, <1>18, <2>1, <2>2
<1>19. CASE RemoveCas(t)
  <2>1. CASE list_status[l.a] = "LIST_LIVE"
    <3> DEFINE m == [NoLocal EXCEPT !.v = TRUE]
    <3>1. loc'[t] = m /\ pc'[t] = "ready"
          BY Zenon, <1>19, <2>1, <1>a
          DEF RemoveCas, Return, ReturnBool, Goto, forest, sets, Assign
    <3>2. m \in Local
          BY Zenon, <1>19, <2>1, <1>a, <1>b, <1>d, NoLocalType, Refs
          DEF RemoveCas
    <3>3. m.pret = ""
          BY Zenon, NoLocalType DEF NoLocal
    <3> QED BY Zenon, <3>1, <3>2, <3>3, <1>c, ReadyOK
  <2>2. CASE list_status[l.a] # "LIST_LIVE"
    <3>1. loc'[t] = l /\ pc'[t] = "remove"
          BY Zenon, <1>19, <2>2, <1>a
          DEF RemoveCas, Return, ReturnBool, Goto, forest, sets, Assign
    <3>3. /\ FindOK("remove", l) /\ PickOK("remove", l)
          /\ CallOK(Where("remove", l), l)
          BY Zenon, <1>19, <2>2, <1>a, <1>b, <1>d DEF RemoveCas
    <3>4. Keeps(pc[t], l, "remove", l)
          BY Zenon, <1>19, <2>2, <1>a, <1>b, <1>d DEF RemoveCas, Keeps
    <3> QED BY Zenon, <3>1, <3>3, <3>4, <1>a, <1>c
  <2> QED BY Zenon, <1>19, <2>1, <2>2
<1>20. CASE UnionA(t)
  <2> DEFINE m == [l EXCEPT !.a_r = l.f, !.x = l.b, !.fret = "union_b"]
  <2>1. loc'[t] = m /\ pc'[t] = "find"
        BY Zenon, <1>20, <1>a DEF UnionA, Goto, forest, lists, sets, Assign
  <2>2. m \in Local
        BY Zenon, <1>20, <1>a, <1>b, <1>d, Refs DEF UnionA
  <2>3. FindOK("find", m) /\ PickOK("find", m) /\ CallOK(Where("find", m), m)
        BY Zenon, <1>20, <1>a, <1>b, <1>d DEF UnionA
  <2>4. Keeps(pc[t], l, "find", m)
        BY Zenon, <1>20, <1>a, <1>b, <1>d DEF UnionA, Keeps
  <2> QED BY Zenon, <2>1, <2>2, <2>3, <2>4, <1>a, <1>c
<1>21. CASE UnionB(t)
  <2>1. CASE l.a_r = l.f
    <3> DEFINE m == [NoLocal EXCEPT !.v = FALSE]
    <3>1. loc'[t] = m /\ pc'[t] = "ready"
          BY Zenon, <1>21, <2>1, <1>a
          DEF UnionB, Return, ReturnBool, Goto, forest, lists, sets, Assign
    <3>2. m \in Local
          BY Zenon, <1>21, <2>1, <1>a, <1>b, <1>d, NoLocalType, Refs
          DEF UnionB
    <3>3. m.pret = ""
          BY Zenon, NoLocalType DEF NoLocal
    <3> QED BY Zenon, <3>1, <3>2, <3>3, <1>c, ReadyOK
  <2>2. CASE l.a_r # l.f
    <3> DEFINE m == [l EXCEPT !.r = IF l.a_r < l.f THEN l.f ELSE l.a_r,
              !.q = IF l.a_r < l.f THEN l.a_r ELSE l.f]
    <3>a. l.a_r \in State /\ l.f \in State
          BY Zenon, <1>21, <1>b DEF UnionB
    <3>b. m.q \in State /\ m.r \in State
          BY Zenon, <3>a, <1>a
    <3>c. m.q = (IF l.a_r < l.f THEN l.a_r ELSE l.f) /\ m.r = (IF l.a_r < l.f THEN l.f ELSE l.a_r)
          BY Zenon, <1>a
    <3> HIDE DEF m
    <3>d. m.q < m.r
          BY ONLY <3>a, <3>c, <2>2, NAssumption DEF State
    <3> USE DEF m
    <3>1. loc'[t] = m /\ pc'[t] = "union_lock"
          BY Zenon, <1>21, <2>2, <1>a
          DEF UnionB, Return, ReturnBool, Goto, forest, lists, sets, Assign
    <3>2. m \in Local
          BY Zenon, <1>21, <2>2, <1>a, <1>b, <1>d, Refs DEF UnionB
    <3>3. /\ FindOK("union_lock", m) /\ PickOK("union_lock", m)
          /\ CallOK(Where("union_lock", m), m)
          BY Zenon, <1>21, <2>2, <3>b, <3>d, <1>a, <1>b, <1>d DEF UnionB
    <3>4. Keeps(pc[t], l, "union_lock", m)
          BY Zenon, <1>21, <2>2, <1>a, <1>b, <1>d DEF UnionB, Keeps
    <3> HIDE DEF FindOK, PickOK, CallOK, Where, Outer, Local
    <3> QED BY <3>1, <3>2, <3>3, <3>4, <1>a, <1>c
  <2> QED BY Zenon, <1>21, <2>1, <2>2 DEF UnionB
<1>22. CASE UnionLock(t)
  <2>1. CASE uf_status[l.q] = "UF_LIVE"
    <3>1. loc'[t] = l /\ pc'[t] = "union_root"
          BY Zenon, <1>22, <2>1, <1>a
          DEF UnionLock, Find, Goto, lists, sets, Assign
    <3>3. /\ FindOK("union_root", l) /\ PickOK("union_root", l)
          /\ CallOK(Where("union_root", l), l)
          BY Zenon, <1>22, <2>1, <1>a, <1>b, <1>d DEF UnionLock
    <3>4. Keeps(pc[t], l, "union_root", l)
          BY Zenon, <1>22, <2>1, <1>a, <1>b, <1>d DEF UnionLock, Keeps
    <3> QED BY Zenon, <3>1, <3>3, <3>4, <1>a, <1>c
  <2>2. CASE uf_status[l.q] # "UF_LIVE"
    <3> DEFINE m == [l EXCEPT !.x = l.a, !.fret = "union_a"]
    <3>1. loc'[t] = m /\ pc'[t] = "find"
          BY Zenon, <1>22, <2>2, <1>a
          DEF UnionLock, Find, Goto, lists, sets, Assign
    <3>2. m \in Local
          BY Zenon, <1>22, <2>2, <1>a, <1>b, <1>d, Refs DEF UnionLock
    <3>3. /\ FindOK("find", m) /\ PickOK("find", m)
          /\ CallOK(Where("find", m), m)
          BY Zenon, <1>22, <2>2, <1>a, <1>b, <1>d DEF UnionLock
    <3>4. Keeps(pc[t], l, "find", m)
          BY Zenon, <1>22, <2>2, <1>a, <1>b, <1>d DEF UnionLock, Keeps
    <3> QED BY Zenon, <3>1, <3>2, <3>3, <3>4, <1>a, <1>c
  <2> QED BY Zenon, <1>22, <2>1, <2>2
<1>23. CASE UnionRoot(t)
  <2>1. CASE parent[l.q] = 0
    <3> DEFINE m == [l EXCEPT !.pa = l.a, !.pret = "union_list_a"]
    <3>1. loc'[t] = m /\ pc'[t] = "pick_a"
          BY Zenon, <1>23, <2>1, <1>a
          DEF UnionRoot, Pick, Goto, forest, lists, sets, Assign
    <3>2. m \in Local
          BY Zenon, <1>23, <2>1, <1>a, <1>b, <1>d, Refs DEF UnionRoot
    <3>3. /\ FindOK("pick_a", m) /\ PickOK("pick_a", m)
          /\ CallOK(Where("pick_a", m), m)
          BY Zenon, <1>23, <2>1, <1>a, <1>b, <1>d DEF UnionRoot
    <3>4. Keeps(pc[t], l, "pick_a", m)
          BY Zenon, <1>23, <2>1, <1>a, <1>b, <1>d DEF UnionRoot, Keeps
    <3> QED BY Zenon, <3>1, <3>2, <3>3, <3>4, <1>a, <1>c
  <2>2. CASE parent[l.q] # 0
    <3>1. loc'[t] = l /\ pc'[t] = "union_retry"
          BY Zenon, <1>23, <2>2, <1>a
          DEF UnionRoot, Pick, Goto, forest, lists, sets, Assign
    <3>3. /\ FindOK("union_retry", l) /\ PickOK("union_retry", l)
          /\ CallOK(Where("union_retry", l), l)
          BY Zenon, <1>23, <2>2, <1>a, <1>b, <1>d DEF UnionRoot
    <3>4. Keeps(pc[t], l, "union_retry", l)
          BY Zenon, <1>23, <2>2, <1>a, <1>b, <1>d DEF UnionRoot, Keeps
    <3> QED BY Zenon, <3>1, <3>3, <3>4, <1>a, <1>c
  <2> QED BY Zenon, <1>23, <2>1, <2>2
<1>24. CASE UnionRetry(t)
  <2> DEFINE m == [l EXCEPT !.x = l.a, !.fret = "union_a"]
  <2>1. loc'[t] = m /\ pc'[t] = "find"
        BY Zenon, <1>24, <1>a DEF UnionRetry, Find, Goto, lists, sets, Assign
  <2>2. m \in Local
        BY Zenon, <1>24, <1>a, <1>b, <1>d, Refs DEF UnionRetry
  <2>3. FindOK("find", m) /\ PickOK("find", m) /\ CallOK(Where("find", m), m)
        BY Zenon, <1>24, <1>a, <1>b, <1>d DEF UnionRetry
  <2>4. Keeps(pc[t], l, "find", m)
        BY Zenon, <1>24, <1>a, <1>b, <1>d DEF UnionRetry, Keeps
  <2> QED BY Zenon, <2>1, <2>2, <2>3, <2>4, <1>a, <1>c
<1>25. CASE UnionListA(t)
  <2>1. CASE l.code = "PICK_SUCCESS"
    <3>1. loc'[t] = l /\ pc'[t] = "union_cas_a"
          BY Zenon, <1>25, <2>1, <1>a
          DEF UnionListA, Goto, forest, lists, sets
    <3>3. /\ FindOK("union_cas_a", l) /\ PickOK("union_cas_a", l)
          /\ CallOK(Where("union_cas_a", l), l)
          BY Zenon, <1>25, <2>1, <1>a, <1>b, <1>d DEF UnionListA
    <3>4. Keeps(pc[t], l, "union_cas_a", l)
          BY Zenon, <1>25, <2>1, <1>a, <1>b, <1>d DEF UnionListA, Keeps
    <3> QED BY Zenon, <3>1, <3>3, <3>4, <1>a, <1>c
  <2>2. CASE l.code # "PICK_SUCCESS"
    <3>1. loc'[t] = l /\ pc'[t] = "union_fail"
          BY Zenon, <1>25, <2>2, <1>a
          DEF UnionListA, Goto, forest, lists, sets
    <3>3. /\ FindOK("union_fail", l) /\ PickOK("union_fail", l)
          /\ CallOK(Where("union_fail", l), l)
          BY Zenon, <1>25, <2>2, <1>a, <1>b, <1>d DEF UnionListA
    <3>4. Keeps(pc[t], l, "union_fail", l)
          BY Zenon, <1>25, <2>2, <1>a, <1>b, <1>d DEF UnionListA, Keeps
    <3> QED BY Zenon, <3>1, <3>3, <3>4, <1>a, <1>c
  <2> QED BY Zenon, <1>25, <2>1, <2>2
<1>26. CASE UnionCasA(t)
  <2>1. CASE list_status[l.ret] = "LIST_LIVE"
    <3> DEFINE m == [l EXCEPT !.a_l = l.ret, !.pa = l.b, !.pret = "union_list_b"]
    <3>1. loc'[t] = m /\ pc'[t] = "pick_a"
          BY Zenon, <1>26, <2>1, <1>a
          DEF UnionCasA, Pick, Goto, forest, sets, Assign
    <3>2. m \in Local
          BY Zenon, <1>26, <2>1, <1>a, <1>b, <1>d, Refs DEF UnionCasA
    <3>3. /\ FindOK("pick_a", m) /\ PickOK("pick_a", m)
          /\ CallOK(Where("pick_a", m), m)
          BY Zenon, <1>26, <2>1, <1>a, <1>b, <1>d DEF UnionCasA
    <3>4. Keeps(pc[t], l, "pick_a", m)
          BY Zenon, <1>26, <2>1, <1>a, <1>b, <1>d DEF UnionCasA, Keeps
    <3> QED BY Zenon, <3>1, <3>2, <3>3, <3>4, <1>a, <1>c
  <2>2. CASE list_status[l.ret] # "LIST_LIVE"
    <3> DEFINE m == [l EXCEPT !.pa = l.a, !.pret = "union_list_a"]
    <3>1. loc'[t] = m /\ pc'[t] = "pick_a"
          BY Zenon, <1>26, <2>2, <1>a
          DEF UnionCasA, Pick, Goto, forest, sets, Assign
    <3>2. m \in Local
          BY Zenon, <1>26, <2>2, <1>a, <1>b, <1>d, Refs DEF UnionCasA
    <3>3. /\ FindOK("pick_a", m) /\ PickOK("pick_a", m)
          /\ CallOK(Where("pick_a", m), m)
          BY Zenon, <1>26, <2>2, <1>a, <1>b, <1>d DEF UnionCasA
    <3>4. Keeps(pc[t], l, "pick_a", m)
          BY Zenon, <1>26, <2>2, <1>a, <1>b, <1>d DEF UnionCasA, Keeps
    <3> QED BY Zenon, <3>1, <3>2, <3>3, <3>4, <1>a, <1>c
  <2> QED BY Zenon, <1>26, <2>1, <2>2
<1>27. CASE UnionListB(t)
  <2>1. CASE l.code = "PICK_SUCCESS"
    <3>1. loc'[t] = l /\ pc'[t] = "union_cas_b"
          BY Zenon, <1>27, <2>1, <1>a
          DEF UnionListB, Goto, forest, lists, sets
    <3>3. /\ FindOK("union_cas_b", l) /\ PickOK("union_cas_b", l)
          /\ CallOK(Where("union_cas_b", l), l)
          BY Zenon, <1>27, <2>1, <1>a, <1>b, <1>d DEF UnionListB
    <3>4. Keeps(pc[t], l, "union_cas_b", l)
          BY Zenon, <1>27, <2>1, <1>a, <1>b, <1>d DEF UnionListB, Keeps
    <3> QED BY Zenon, <3>1, <3>3, <3>4, <1>a, <1>c
  <2>2. CASE l.code # "PICK_SUCCESS"
    <3>1. loc'[t] = l /\ pc'[t] = "union_unlist"
          BY Zenon, <1>27, <2>2, <1>a
          DEF UnionListB, Goto, forest, lists, sets
    <3>3. /\ FindOK("union_unlist", l) /\ PickOK("union_unlist", l)
          /\ CallOK(Where("union_unlist", l), l)
          BY Zenon, <1>27, <2>2, <1>a, <1>b, <1>d DEF UnionListB
    <3>4. Keeps(pc[t], l, "union_unlist", l)
          BY Zenon, <1>27, <2>2, <1>a, <1>b, <1>d DEF UnionListB, Keeps
    <3> QED BY Zenon, <3>1, <3>3, <3>4, <1>a, <1>c
  <2> QED BY Zenon, <1>27, <2>1, <2>2
<1>28. CASE UnionCasB(t)
  <2>1. CASE list_status[l.ret] = "LIST_LIVE"
    <3> DEFINE m == [l EXCEPT !.b_l = l.ret]
    <3>1. loc'[t] = m /\ pc'[t] = "union_swap"
          BY Zenon, <1>28, <2>1, <1>a
          DEF UnionCasB, Pick, Goto, forest, sets, Assign
    <3>2. m \in Local
          BY Zenon, <1>28, <2>1, <1>a, <1>b, <1>d, Refs DEF UnionCasB
    <3>3. /\ FindOK("union_swap", m) /\ PickOK("union_swap", m)
          /\ CallOK(Where("union_swap", m), m)
          BY Zenon, <1>28, <2>1, <1>a, <1>b, <1>d DEF UnionCasB
    <3>4. Keeps(pc[t], l, "union_swap", m)
          BY Zenon, <1>28, <2>1, <1>a, <1>b, <1>d DEF UnionCasB, Keeps
    <3> QED BY Zenon, <3>1, <3>2, <3>3, <3>4, <1>a, <1>c
  <2>2. CASE list_status[l.ret] # "LIST_LIVE"
    <3> DEFINE m == [l EXCEPT !.pa = l.b, !.pret = "union_list_b"]
    <3>1. loc'[t] = m /\ pc'[t] = "pick_a"
          BY Zenon, <1>28, <2>2, <1>a
          DEF UnionCasB, Pick, Goto, forest, sets, Assign
    <3>2. m \in Local
          BY Zenon, <1>28, <2>2, <1>a, <1>b, <1>d, Refs DEF UnionCasB
    <3>3. /\ FindOK("pick_a", m) /\ PickOK("pick_a", m)
          /\ CallOK(Where("pick_a", m), m)
          BY Zenon, <1>28, <2>2, <1>a, <1>b, <1>d DEF UnionCasB
    <3>4. Keeps(pc[t], l, "pick_a", m)
          BY Zenon, <1>28, <2>2, <1>a, <1>b, <1>d DEF UnionCasB, Keeps
    <3> QED BY Zenon, <3>1, <3>2, <3>3, <3>4, <1>a, <1>c
  <2> QED BY Zenon, <1>28, <2>1, <2>2
<1>29. CASE UnionUnlist(t)
  <2>1. loc'[t] = l /\ pc'[t] = "union_fail"
        BY Zenon, <1>29, <1>a DEF UnionUnlist, Goto, forest, sets
  <2>3. /\ FindOK("union_fail", l) /\ PickOK("union_fail", l)
        /\ CallOK(Where("union_fail", l), l)
        BY Zenon, <1>29, <1>a, <1>b, <1>d DEF UnionUnlist
  <2>4. Keeps(pc[t], l, "union_fail", l)
        BY Zenon, <1>29, <1>a, <1>b, <1>d DEF UnionUnlist, Keeps
  <2> QED BY Zenon, <2>1, <2>3, <2>4, <1>a, <1>c
<1>30. CASE UnionFail(t)
  <2> DEFINE m == [NoLocal EXCEPT !.v = FALSE]
  <2>1. loc'[t] = m /\ pc'[t] = "ready"
        BY Zenon, <1>30, <1>a
        DEF UnionFail, Return, ReturnBool, Goto, lists, sets, Assign
  <2>2. m \in Local
        BY Zenon, <1>30, <1>a, <1>b, <1>d, NoLocalType, Refs DEF UnionFail
  <2>3. m.pret = ""
        BY Zenon, NoLocalType DEF NoLocal
  <2> QED BY Zenon, <2>1, <2>2, <2>3, <1>c, ReadyOK
<1>31. CASE UnionSwap(t)
  <2>1. loc'[t] = l /\ pc'[t] = "union_link"
        BY Zenon, <1>31, <1>a DEF UnionSwap, Goto, forest, sets
  <2>3. /\ FindOK("union_link", l) /\ PickOK("union_link", l)
        /\ CallOK(Where("union_link", l), l)
        BY Zenon, <1>31, <1>a, <1>b, <1>d DEF UnionSwap
  <2>4. Keeps(pc[t], l, "union_link", l)
        BY Zenon, <1>31, <1>a, <1>b, <1>d DEF UnionSwap, Keeps
  <2> QED BY Zenon, <2>1, <2>3, <2>4, <1>a, <1>c
<1>32. CASE UnionLink(t)
  <2>1. loc'[t] = l /\ pc'[t] = "union_acc_r"
        BY Zenon, <1>32, <1>a DEF UnionLink, Goto, lists, sets
  <2>3. /\ FindOK("union_acc_r", l) /\ PickOK("union_acc_r", l)
        /\ CallOK(Where("union_acc_r", l), l)
        BY Zenon, <1>32, <1>a, <1>b, <1>d DEF UnionLink
  <2>4. Keeps(pc[t], l, "union_acc_r", l)
        BY Zenon, <1>32, <1>a, <1>b, <1>d DEF UnionLink, Keeps
  <2> QED BY Zenon, <2>1, <2>3, <2>4, <1>a, <1>c
<1>33. CASE UnionAccR(t)
  <2> DEFINE m == [l EXCEPT !.seen = acc_set[l.r]]
  <2>1. loc'[t] = m /\ pc'[t] = "union_acc_q"
        BY Zenon, <1>33, <1>a DEF UnionAccR, Goto, forest, lists, sets, Assign
  <2>2. m \in Local
        BY Zenon, <1>33, <1>a, <1>b, <1>d, Refs DEF UnionAccR
  <2>3. /\ FindOK("union_acc_q", m) /\ PickOK("union_acc_q", m)
        /\ CallOK(Where("union_acc_q", m), m)
        BY Zenon, <1>33, <1>a, <1>b, <1>d DEF UnionAccR
  <2>4. Keeps(pc[t], l, "union_acc_q", m)
        BY Zenon, <1>33, <1>a, <1>b, <1>d DEF UnionAccR, Keeps
  <2> QED BY Zenon, <2>1, <2>2, <2>3, <2>4, <1>a, <1>c
<1>34. CASE UnionAccQ(t)
  <2>1. CASE acc_set[l.q] \subseteq l.seen
    <3> DEFINE m == [l EXCEPT !.bits = acc_set[l.q]]
    <3>1. loc'[t] = m /\ pc'[t] = "union_set_q"
          BY Zenon, <1>34, <2>1, <1>a
          DEF UnionAccQ, Goto, forest, lists, sets, Assign
    <3>2. m \in Local
          BY Zenon, <1>34, <2>1, <1>a, <1>b, <1>d, Refs DEF UnionAccQ
    <3>3. /\ FindOK("union_set_q", m) /\ PickOK("union_set_q", m)
          /\ CallOK(Where("union_set_q", m), m)
          BY Zenon, <1>34, <2>1, <1>a, <1>b, <1>d DEF UnionAccQ
    <3>4. Keeps(pc[t], l, "union_set_q", m)
          BY Zenon, <1>34, <2>1, <1>a, <1>b, <1>d DEF UnionAccQ, Keeps
    <3> QED BY Zenon, <3>1, <3>2, <3>3, <3>4, <1>a, <1>c
  <2>2. CASE ~(acc_set[l.q] \subseteq l.seen)
    <3> DEFINE m == [l EXCEPT !.bits = acc_set[l.q]]
    <3>1. loc'[t] = m /\ pc'[t] = "union_or_acc"
          BY Zenon, <1>34, <2>2, <1>a
          DEF UnionAccQ, Goto, forest, lists, sets, Assign
    <3>2. m \in Local
          BY Zenon, <1>34, <2>2, <1>a, <1>b, <1>d, Refs DEF UnionAccQ
    <3>3. /\ FindOK("union_or_acc", m) /\ PickOK("union_or_acc", m)
          /\ CallOK(Where("union_or_acc", m), m)
          BY Zenon, <1>34, <2>2, <1>a, <1>b, <1>d DEF UnionAccQ
    <3>4. Keeps(pc[t], l, "union_or_acc", m)
          BY Zenon, <1>34, <2>2, <1>a, <1>b, <1>d DEF UnionAccQ, Keeps
    <3> QED BY Zenon, <3>1, <3>2, <3>3, <3>4, <1>a, <1>c
  <2> QED BY Zenon, <1>34, <2>1, <2>2
<1>35. CASE UnionOrAcc(t)
  <2>1. loc'[t] = l /\ pc'[t] = "union_up_acc"
        BY Zenon, <1>35, <1>a DEF UnionOrAcc, Goto, forest, lists
  <2>3. /\ FindOK("union_up_acc", l) /\ PickOK("union_up_acc", l)
        /\ CallOK(Where("union_up_acc", l), l)
        BY Zenon, <1>35, <1>a, <1>b, <1>d DEF UnionOrAcc
  <2>4. Keeps(pc[t], l, "union_up_acc", l)
        BY Zenon, <1>35, <1>a, <1>b, <1>d DEF UnionOrAcc, Keeps
  <2> QED BY Zenon, <2>1, <2>3, <2>4, <1>a, <1>c
<1>36. CASE UnionUpAcc(t)
  <2>1. CASE parent[l.r] # 0
    <3> DEFINE m == [l EXCEPT !.x = l.r, !.fret = "union_acc"]
    <3>1. loc'[t] = m /\ pc'[t] = "find"
          BY Zenon, <1>36, <2>1, <1>a
          DEF UnionUpAcc, Find, Goto, forest, lists, sets, Assign
    <3>2. m \in Local
          BY Zenon, <1>36, <2>1, <1>a, <1>b, <1>d, Refs DEF UnionUpAcc
    <3>3. /\ FindOK("find", m) /\ PickOK("find", m)
          /\ CallOK(Where("find", m), m)
          BY Zenon, <1>36, <2>1, <1>a, <1>b, <1>d DEF UnionUpAcc
    <3>4. Keeps(pc[t], l, "find", m)
          BY Zenon, <1>36, <2>1, <1>a, <1>b, <1>d DEF UnionUpAcc, Keeps
    <3> QED BY Zenon, <3>1, <3>2, <3>3, <3>4, <1>a, <1>c
  <2>2. CASE parent[l.r] = 0
    <3>1. loc'[t] = l /\ pc'[t] = "union_set_q"
          BY Zenon, <1>36, <2>2, <1>a
          DEF UnionUpAcc, Find, Goto, forest, lists, sets, Assign
    <3>3. /\ FindOK("union_set_q", l) /\ PickOK("union_set_q", l)
          /\ CallOK(Where("union_set_q", l), l)
          BY Zenon, <1>36, <2>2, <1>a, <1>b, <1>d DEF UnionUpAcc
    <3>4. Keeps(pc[t], l, "union_set_q", l)
          BY Zenon, <1>36, <2>2, <1>a, <1>b, <1>d DEF UnionUpAcc, Keeps
    <3> QED BY Zenon, <3>1, <3>3, <3>4, <1>a, <1>c
  <2> QED BY Zenon, <1>36, <2>1, <2>2
<1>37. CASE UnionAcc(t)
  <2> DEFINE m == [l EXCEPT !.r = l.f]
  <2>1. loc'[t] = m /\ pc'[t] = "union_up_acc"
        BY Zenon, <1>37, <1>a DEF UnionAcc, Goto, forest, lists, Assign
  <2>2. m \in Local
        BY Zenon, <1>37, <1>a, <1>b, <1>d, Refs DEF UnionAcc
  <2>3. /\ FindOK("union_up_acc", m) /\ PickOK("union_up_acc", m)
        /\ CallOK(Where("union_up_acc", m), m)
        BY Zenon, <1>37, <1>a, <1>b, <1>d DEF UnionAcc
  <2>4. Keeps(pc[t], l, "union_up_acc", m)
        BY Zenon, <1>37, <1>a, <1>b, <1>d DEF UnionAcc, Keeps
  <2> QED BY Zenon, <2>1, <2>2, <2>3, <2>4, <1>a, <1>c
<1>38. CASE UnionSetQ(t)
  <2> DEFINE m == [l EXCEPT !.bits = p_set[l.q]]
  <2>1. loc'[t] = m /\ pc'[t] = "union_set_r"
        BY Zenon, <1>38, <1>a DEF UnionSetQ, Goto, forest, lists, sets, Assign
  <2>2. m \in Local
        BY Zenon, <1>38, <1>a, <1>b, <1>d, Refs DEF UnionSetQ
  <2>3. /\ FindOK("union_set_r", m) /\ PickOK("union_set_r", m)
        /\ CallOK(Where("union_set_r", m), m)
        BY Zenon, <1>38, <1>a, <1>b, <1>d DEF UnionSetQ
  <2>4. Keeps(pc[t], l, "union_set_r", m)
        BY Zenon, <1>38, <1>a, <1>b, <1>d DEF UnionSetQ, Keeps
  <2> QED BY Zenon, <2>1, <2>2, <2>3, <2>4, <1>a, <1>c
<1>39. CASE UnionSetR(t)
  <2>1. CASE l.bits \subseteq p_set[l.r]
    <3>1. loc'[t] = l /\ pc'[t] = "union_unlist_a"
          BY Zenon, <1>39, <2>1, <1>a DEF UnionSetR, Goto, forest, lists, sets
    <3>3. /\ FindOK("union_unlist_a", l) /\ PickOK("union_unlist_a", l)
          /\ CallOK(Where("union_unlist_a", l), l)
          BY Zenon, <1>39, <2>1, <1>a, <1>b, <1>d DEF UnionSetR
    <3>4. Keeps(pc[t], l, "union_unlist_a", l)
          BY Zenon, <1>39, <2>1, <1>a, <1>b, <1>d DEF UnionSetR, Keeps
    <3> QED BY Zenon, <3>1, <3>3, <3>4, <1>a, <1>c
  <2>2. CASE ~(l.bits \subseteq p_set[l.r])
    <3>1. loc'[t] = l /\ pc'[t] = "union_or_set"
          BY Zenon, <1>39, <2>2, <1>a DEF UnionSetR, Goto, forest, lists, sets
    <3>3. /\ FindOK("union_or_set", l) /\ PickOK("union_or_set", l)
          /\ CallOK(Where("union_or_set", l), l)
          BY Zenon, <1>39, <2>2, <1>a, <1>b, <1>d DEF UnionSetR
    <3>4. Keeps(pc[t], l, "union_or_set", l)
          BY Zenon, <1>39, <2>2, <1>a, <1>b, <1>d DEF UnionSetR, Keeps
    <3> QED BY Zenon, <3>1, <3>3, <3>4, <1>a, <1>c
  <2> QED BY Zenon, <1>39, <2>1, <2>2
<1>40. CASE UnionOrSet(t)
  <2>1. loc'[t] = l /\ pc'[t] = "union_up_set"
        BY Zenon, <1>40, <1>a DEF UnionOrSet, Goto, forest, lists
  <2>3. /\ FindOK("union_up_set", l) /\ PickOK("union_up_set", l)
        /\ CallOK(Where("union_up_set", l), l)
        BY Zenon, <1>40, <1>a, <1>b, <1>d DEF UnionOrSet
  <2>4. Keeps(pc[t], l, "union_up_set", l)
        BY Zenon, <1>40, <1>a, <1>b, <1>d DEF UnionOrSet, Keeps
  <2> QED BY Zenon, <2>1, <2>3, <2>4, <1>a, <1>c
<1>41. CASE UnionUpSet(t)
  <2>1. CASE parent[l.r] # 0
    <3> DEFINE m == [l EXCEPT !.x = l.r, !.fret = "union_set"]
    <3>1. loc'[t] = m /\ pc'[t] = "find"
          BY Zenon, <1>41, <2>1, <1>a
          DEF UnionUpSet, Find, Goto, forest, lists, sets, Assign
    <3>2. m \in Local
          BY Zenon, <1>41, <2>1, <1>a, <1>b, <1>d, Refs DEF UnionUpSet
    <3>3. /\ FindOK("find", m) /\ PickOK("find", m)
          /\ CallOK(Where("find", m), m)
          BY Zenon, <1>41, <2>1, <1>a, <1>b, <1>d DEF UnionUpSet
    <3>4. Keeps(pc[t], l, "find", m)
          BY Zenon, <1>41, <2>1, <1>a, <1>b, <1>d DEF UnionUpSet, Keeps
    <3> QED BY Zenon, <3>1, <3>2, <3>3, <3>4, <1>a, <1>c
  <2>2. CASE parent[l.r] = 0
    <3>1. loc'[t] = l /\ pc'[t] = "union_unlist_a"
          BY Zenon, <1>41, <2>2, <1>a
          DEF UnionUpSet, Find, Goto, forest, lists, sets, Assign
    <3>3. /\ FindOK("union_unlist_a", l) /\ PickOK("union_unlist_a", l)
          /\ CallOK(Where("union_unlist_a", l), l)
          BY Zenon, <1>41, <2>2, <1>a, <1>b, <1>d DEF UnionUpSet
    <3>4. Keeps(pc[t], l, "union_unlist_a", l)
          BY Zenon, <1>41, <2>2, <1>a, <1>b, <1>d DEF UnionUpSet, Keeps
    <3> QED BY Zenon, <3>1, <3>3, <3>4, <1>a, <1>c
  <2> QED BY Zenon, <1>41, <2>1, <2>2
<1>42. CASE UnionSet(t)
  <2> DEFINE m == [l EXCEPT !.r = l.f]
  <2>1. loc'[t] = m /\ pc'[t] = "union_up_set"
        BY Zenon, <1>42, <1>a DEF UnionSet, Goto, forest, lists, Assign
  <2>2. m \in Local
        BY Zenon, <1>42, <1>a, <1>b, <1>d, Refs DEF UnionSet
  <2>3. /\ FindOK("union_up_set", m) /\ PickOK("union_up_set", m)
        /\ CallOK(Where("union_up_set", m), m)
        BY Zenon, <1>42, <1>a, <1>b, <1>d DEF UnionSet
  <2>4. Keeps(pc[t], l, "union_up_set", m)
        BY Zenon, <1>42, <1>a, <1>b, <1>d DEF UnionSet, Keeps
  <2> QED BY Zenon, <2>1, <2>2, <2>3, <2>4, <1>a, <1>c
<1>43. CASE UnionUnlistA(t)
  <2>1. loc'[t] = l /\ pc'[t] = "union_unlist_b"
        BY Zenon, <1>43, <1>a DEF UnionUnlistA, Goto, forest, sets
  <2>3. /\ FindOK("union_unlist_b", l) /\ PickOK("union_unlist_b", l)
        /\ CallOK(Where("union_unlist_b", l), l)
        BY Zenon, <1>43, <1>a, <1>b, <1>d DEF UnionUnlistA
  <2>4. Keeps(pc[t], l, "union_unlist_b", l)
        BY Zenon, <1>43, <1>a, <1>b, <1>d DEF UnionUnlistA, Keeps
  <2> QED BY Zenon, <2>1, <2>3, <2>4, <1>a, <1>c
<1>44. CASE UnionUnlistB(t)
  <2>1. loc'[t] = l /\ pc'[t] = "union_unlock"
        BY Zenon, <1>44, <1>a DEF UnionUnlistB, Goto, forest, sets
  <2>3. /\ FindOK("union_unlock", l) /\ PickOK("union_unlock", l)
        /\ CallOK(Where("union_unlock", l), l)
        BY Zenon, <1>44, <1>a, <1>b, <1>d DEF UnionUnlistB
  <2>4. Keeps(pc[t], l, "union_unlock", l)
        BY Zenon, <1>44, <1>a, <1>b, <1>d DEF UnionUnlistB, Keeps
  <2> QED BY Zenon, <2>1, <2>3, <2>4, <1>a, <1>c
<1>45. CASE UnionUnlock(t)
  <2> DEFINE m == [NoLocal EXCEPT !.v = TRUE]
  <2>1. loc'[t] = m /\ pc'[t] = "ready"
        BY Zenon, <1>45, <1>a
        DEF UnionUnlock, Return, ReturnBool, Goto, lists, sets, Assign
  <2>2. m \in Local
        BY Zenon, <1>45, <1>a, <1>b, <1>d, NoLocalType, Refs DEF UnionUnlock
  <2>3. m.pret = ""
        BY Zenon, NoLocalType DEF NoLocal
  <2> QED BY Zenon, <2>1, <2>2, <2>3, <1>c, ReadyOK
<1>46. CASE Claim(t)
  <2>1. CASE uf_status[l.f] = "UF_DEAD"
    <3> DEFINE m == [NoLocal EXCEPT !.code = "CLAIM_DEAD", !.ret = 0]
    <3>1. loc'[t] = m /\ pc'[t] = "ready"
          BY Zenon, <1>46, <2>1, <1>a
          DEF Claim, Return, ReturnCode, Goto, forest, lists, sets, Assign
    <3>2. m \in Local
          BY Zenon, <1>46, <2>1, <1>a, <1>b, <1>d, NoLocalType, Refs
          DEF Claim, Code
    <3>3. m.pret = ""
          BY Zenon, NoLocalType DEF NoLocal
    <3> QED BY Zenon, <3>1, <3>2, <3>3, <1>c, ReadyOK
  <2>2. CASE uf_status[l.f] # "UF_DEAD"
    <3> DEFINE m == [l EXCEPT !.r = l.f]
    <3>1. loc'[t] = m /\ pc'[t] = "claim_found"
          BY Zenon, <1>46, <2>2, <1>a
          DEF Claim, Return, ReturnCode, Goto, forest, lists, sets, Assign
    <3>2. m \in Local
          BY Zenon, <1>46, <2>2, <1>a, <1>b, <1>d, Refs DEF Claim
    <3>3. /\ FindOK("claim_found", m) /\ PickOK("claim_found", m)
          /\ CallOK(Where("claim_found", m), m)
          BY Zenon, <1>46, <2>2, <1>a, <1>b, <1>d DEF Claim
    <3>4. Keeps(pc[t], l, "claim_found", m)
          BY Zenon, <1>46, <2>2, <1>a, <1>b, <1>d DEF Claim, Keeps
    <3> QED BY Zenon, <3>1, <3>2, <3>3, <3>4, <1>a, <1>c
  <2> QED BY Zenon, <1>46, <2>1, <2>2
<1>47. CASE ClaimFound(t)
  <2>1. CASE t \in p_set[l.r]
    <3> DEFINE m == [NoLocal EXCEPT !.code = "CLAIM_FOUND", !.ret = 0]
    <3>1. loc'[t] = m /\ pc'[t] = "ready"
          BY Zenon, <1>47, <2>1, <1>a
          DEF ClaimFound, Return, ReturnCode, Goto, forest, lists, sets,
            Assign
    <3>2. m \in Local
          BY Zenon, <1>47, <2>1, <1>a, <1>b, <1>d, NoLocalType, Refs
          DEF ClaimFound, Code
    <3>3. m.pret = ""
          BY Zenon, NoLocalType DEF NoLocal
    <3> QED BY Zenon, <3>1, <3>2, <3>3, <1>c, ReadyOK
  <2>2. CASE t \notin p_set[l.r]
    <3>1. loc'[t] = l /\ pc'[t] = "claim_or"
          BY Zenon, <1>47, <2>2, <1>a
          DEF ClaimFound, Return, ReturnCode, Goto, forest, lists, sets,
            Assign
    <3>3. /\ FindOK("claim_or", l) /\ PickOK("claim_or", l)
          /\ CallOK(Where("claim_or", l), l)
          BY Zenon, <1>47, <2>2, <1>a, <1>b, <1>d DEF ClaimFound
    <3>4. Keeps(pc[t], l, "claim_or", l)
          BY Zenon, <1>47, <2>2, <1>a, <1>b, <1>d DEF ClaimFound, Keeps
    <3> QED BY Zenon, <3>1, <3>3, <3>4, <1>a, <1>c
  <2> QED BY Zenon, <1>47, <2>1, <2>2
<1>48. CASE ClaimOr(t)
  <2> DEFINE m == [l EXCEPT !.first = (p_set[l.r] = {})]
  <2>1. loc'[t] = m /\ pc'[t] = "claim_up"
        BY Zenon, <1>48, <1>a DEF ClaimOr, Goto, forest, lists, Assign
  <2>2. m \in Local
        BY Zenon, <1>48, <1>a, <1>b, <1>d, Refs DEF ClaimOr
  <2>3. /\ FindOK("claim_up", m) /\ PickOK("claim_up", m)
        /\ CallOK(Where("claim_up", m), m)
        BY Zenon, <1>48, <1>a, <1>b, <1>d DEF ClaimOr
  <2>4. Keeps(pc[t], l, "claim_up", m)
        BY Zenon, <1>48, <1>a, <1>b, <1>d DEF ClaimOr, Keeps
  <2> HIDE DEF FindOK, PickOK, CallOK, Where, Outer, Local
  <2> QED BY <2>1, <2>2, <2>3, <2>4, <1>a, <1>c
<1>49. CASE ClaimUp(t)
  <2>1. CASE parent[l.r] # 0
    <3> DEFINE m == [l EXCEPT !.x = l.r, !.fret = "claim_set"]
    <3>1. loc'[t] = m /\ pc'[t] = "find"
          BY Zenon, <1>49, <2>1, <1>a
          DEF ClaimUp, Find, Return, ReturnCode, Goto, forest, lists, sets,
            Assign
    <3>2. m \in Local
          BY Zenon, <1>49, <2>1, <1>a, <1>b, <1>d, Refs DEF ClaimUp
    <3>3. /\ FindOK("find", m) /\ PickOK("find", m)
          /\ CallOK(Where("find", m), m)
          BY Zenon, <1>49, <2>1, <1>a, <1>b, <1>d DEF ClaimUp
    <3>4. Keeps(pc[t], l, "find", m)
          BY Zenon, <1>49, <2>1, <1>a, <1>b, <1>d DEF ClaimUp, Keeps
    <3> QED BY Zenon, <3>1, <3>2, <3>3, <3>4, <1>a, <1>c
  <2>2. CASE parent[l.r] = 0
    <3> DEFINE m == [NoLocal EXCEPT !.code = IF l.first THEN "CLAIM_FIRST" ELSE "CLAIM_SUCCESS", !.ret = 0]
    <3>1. loc'[t] = m /\ pc'[t] = "ready"
          BY Zenon, <1>49, <2>2, <1>a
          DEF ClaimUp, Find, Return, ReturnCode, Goto, forest, lists, sets,
            Assign
    <3>2. m \in Local
          BY Zenon, NoLocalType, Refs DEF Code
    <3>3. m.pret = ""
          BY Zenon, NoLocalType DEF NoLocal
    <3> HIDE DEF FindOK, PickOK, CallOK, Where, Outer, Local
    <3> QED BY Zenon, <3>1, <3>2, <3>3, <1>c, ReadyOK
  <2> QED BY Zenon, <1>49, <2>1, <2>2
<1>50. CASE ClaimSet(t)
  <2> DEFINE m == [l EXCEPT !.r = l.f]
  <2>1. loc'[t] = m /\ pc'[t] = "claim_up"
        BY Zenon, <1>50, <1>a DEF ClaimSet, Goto, forest, lists, Assign
  <2>2. m \in Local
        BY Zenon, <1>50, <1>a, <1>b, <1>d, Refs DEF ClaimSet
  <2>3. /\ FindOK("claim_up", m) /\ PickOK("claim_up", m)
        /\ CallOK(Where("claim_up", m), m)
        BY Zenon, <1>50, <1>a, <1>b, <1>d DEF ClaimSet
  <2>4. Keeps(pc[t], l, "claim_up", m)
        BY Zenon, <1>50, <1>a, <1>b, <1>d DEF ClaimSet, Keeps
  <2> QED BY Zenon, <2>1, <2>2, <2>3, <2>4, <1>a, <1>c
<1>51. CASE Acc(t)
  <2>1. CASE l.bits \subseteq acc_set[l.f]
    <3> DEFINE m == [NoLocal EXCEPT !.bits = acc_set[l.f]]
    <3>1. loc'[t] = m /\ pc'[t] = "ready"
          BY Zenon, <1>51, <2>1, <1>a
          DEF Acc, Return, ReturnBits, Goto, forest, lists, sets, Assign
    <3>b. acc_set[l.f] \in Bits
          BY Zenon, <1>51, <2>1, <1>b, <1>d DEF Acc
    <3>2. m \in Local
          BY Zenon, <1>51, <2>1, <1>a, <3>b, NoLocalType, Refs
    <3>3. m.pret = ""
          BY Zenon, NoLocalType DEF NoLocal
    <3> QED BY Zenon, <3>1, <3>2, <3>3, <1>c, ReadyOK
  <2>2. CASE ~(l.bits \subseteq acc_set[l.f])
    <3>1. loc'[t] = l /\ pc'[t] = "acc_or"
          BY Zenon, <1>51, <2>2, <1>a
          DEF Acc, Return, ReturnBits, Goto, forest, lists, sets, Assign
    <3>3. /\ FindOK("acc_or", l) /\ PickOK("acc_or", l)
          /\ CallOK(Where("acc_or", l), l)
          BY Zenon, <1>51, <2>2, <1>a, <1>b, <1>d DEF Acc
    <3>4. Keeps(pc[t], l, "acc_or", l)
          BY Zenon, <1>51, <2>2, <1>a, <1>b, <1>d DEF Acc, Keeps
    <3> QED BY Zenon, <3>1, <3>3, <3>4, <1>a, <1>c
  <2> QED BY Zenon, <1>51, <2>1, <2>2
<1>52. CASE AccOr(t)
  <2> DEFINE m == [l EXCEPT !.r = l.f, !.seen = acc_set'[l.f]]
  <2>1. loc'[t] = m /\ pc'[t] = "acc_up"
        BY Zenon, <1>52, <1>a DEF AccOr, Goto, forest, lists, Assign
  <2>b. acc_set'[l.f] \in Bits
    <3>1. l.f \in State /\ l.bits \in Bits /\ acc_set[l.f] \in Bits
          BY Zenon, <1>52, <1>a, <1>b, <1>d DEF AccOr
    <3>2. acc_set'[l.f] = acc_set[l.f] \cup l.bits
          BY Zenon, <1>52, <3>1 DEF AccOr, IInv, Typed
    <3> QED BY <3>1, <3>2 DEF Bits
  <2>2. m \in Local
        BY Zenon, <1>52, <1>a, <2>b, <1>b, Refs DEF AccOr
  <2>3. /\ FindOK("acc_up", m) /\ PickOK("acc_up", m)
        /\ CallOK(Where("acc_up", m), m)
        BY Zenon, <1>52, <1>a, <1>b, <1>d DEF AccOr
  <2>4. Keeps(pc[t], l, "acc_up", m)
        BY Zenon, <1>52, <1>a, <1>b, <1>d DEF AccOr, Keeps
  <2> QED BY Zenon, <2>1, <2>2, <2>3, <2>4, <1>a, <1>c
<1>53. CASE AccUp(t)
  <2>1. CASE parent[l.r] # 0
    <3> DEFINE m == [l EXCEPT !.x = l.a, !.fret = "acc"]
    <3>1. loc'[t] = m /\ pc'[t] = "find"
          BY Zenon, <1>53, <2>1, <1>a
          DEF AccUp, Find, Return, ReturnBits, Goto, forest, lists, sets,
            Assign
    <3>2. m \in Local
          BY Zenon, <1>53, <2>1, <1>a, <1>b, <1>d, Refs DEF AccUp
    <3>3. /\ FindOK("find", m) /\ PickOK("find", m)
          /\ CallOK(Where("find", m), m)
          BY Zenon, <1>53, <2>1, <1>a, <1>b, <1>d DEF AccUp
    <3>4. Keeps(pc[t], l, "find", m)
          BY Zenon, <1>53, <2>1, <1>a, <1>b, <1>d DEF AccUp, Keeps
    <3> QED BY Zenon, <3>1, <3>2, <3>3, <3>4, <1>a, <1>c
  <2>2. CASE parent[l.r] = 0
    <3> DEFINE m == [NoLocal EXCEPT !.bits = l.seen]
    <3>1. loc'[t] = m /\ pc'[t] = "ready"
          BY Zenon, <1>53, <2>2, <1>a
          DEF AccUp, Find, Return, ReturnBits, Goto, forest, lists, sets,
            Assign
    <3>2. m \in Local
          BY Zenon, <1>53, <2>2, <1>a, <1>b, <1>d, NoLocalType, Refs DEF AccUp
    <3>3. m.pret = ""
          BY Zenon, NoLocalType DEF NoLocal
    <3> QED BY Zenon, <3>1, <3>2, <3>3, <1>c, ReadyOK
  <2> QED BY Zenon, <1>53, <2>1, <2>2
<1> QED BY Zenon, <1>1, <1>2, <1>3, <1>4, <1>5, <1>6, <1>7, <1>8, <1>9, <1>10,
         <1>11, <1>12, <1>13, <1>14, <1>15, <1>16, <1>17, <1>18, <1>19,
         <1>20, <1>21, <1>22, <1>23, <1>24, <1>25, <1>26, <1>27, <1>28,
         <1>29, <1>30, <1>31, <1>32, <1>33, <1>34, <1>35, <1>36, <1>37,
         <1>38, <1>39, <1>40, <1>41, <1>42, <1>43, <1>44, <1>45, <1>46,
         <1>47, <1>48, <1>49, <1>50, <1>51, <1>52, <1>53 DEF UFStep

-----------------------------------------------------------------------------
(* Frames                                                                  *)

\* A step of t leaves the other threads where they are.
LEMMA Moves ==
    ASSUME Typed, NEW t \in Thread, UFStep(t)
    PROVE  /\ loc' = [loc EXCEPT ![t] = loc'[t]]
           /\ pc' = [pc EXCEPT ![t] = pc'[t]]
<1>a. /\ \A l : [loc EXCEPT ![t] = l][t] = l
      /\ \A p : [pc EXCEPT ![t] = p][t] = p
      /\ loc = [loc EXCEPT ![t] = loc[t]]
      BY DEF Typed
<1>1. CASE FindX(t)
      BY <1>1, <1>a DEF FindX, FindResult, Goto, Assign
<1>2. CASE FindY(t)
      BY <1>2, <1>a DEF FindY, FindResult, Goto, Assign
<1>3. CASE FindWrite(t)
      BY Zenon, <1>3, <1>a DEF FindWrite, Goto, Assign
<1>4. CASE Got(t)
      BY Zenon, <1>4, <1>a DEF Got, Return, ReturnCode, Goto, Assign
<1>5. CASE SameA(t)
      BY Zenon, <1>5, <1>a DEF SameA, Goto, Assign
<1>6. CASE SameB(t)
      BY <1>6, <1>a DEF SameB, Return, ReturnBool, Goto, Assign
<1>7. CASE SameCheck(t)
      BY <1>7, <1>a DEF SameCheck, Return, ReturnBool, Goto, Assign
<1>8. CASE PickA(t)
      BY <1>8, <1>a DEF PickA, PickResult, Goto, Assign
<1>9. CASE PickNext(t)
      BY <1>9, <1>a DEF PickNext, Find, Goto, Assign
<1>10. CASE PickB(t)
      BY <1>10, <1>a DEF PickB, PickResult, Goto, Assign
<1>11. CASE PickC(t)
      BY Zenon, <1>11, <1>a DEF PickC, Goto, Assign
<1>12. CASE PickWrite(t)
      BY Zenon, <1>12, <1>a DEF PickWrite, Goto, Assign
<1>13. CASE MarkDead(t)
      BY Zenon, <1>13, <1>a DEF MarkDead, Goto
<1>14. CASE MarkDeadCas(t)
      BY Zenon, <1>14, <1>a DEF MarkDeadCas, Goto, Assign
<1>15. CASE MarkDeadRoot(t)
      BY Zenon, <1>15, <1>a DEF MarkDeadRoot, Find, Goto, Assign
<1>16. CASE MarkDeadCheck(t)
      BY Zenon, <1>16, <1>a DEF MarkDeadCheck, PickResult, Goto, Assign
<1>17. CASE Picked(t)
      BY Zenon, <1>17, <1>a DEF Picked, Return, ReturnCode, Goto, Assign
<1>18. CASE RemoveRead(t)
      BY <1>18, <1>a DEF RemoveRead, Return, ReturnBool, Goto, Assign
<1>19. CASE RemoveCas(t)
      BY <1>19, <1>a DEF RemoveCas, Return, ReturnBool, Goto, Assign
<1>20. CASE UnionA(t)
      BY Zenon, <1>20, <1>a DEF UnionA, Goto, Assign
<1>21. CASE UnionB(t)
      BY <1>21, <1>a DEF UnionB, Return, ReturnBool, Goto, Assign
<1>22. CASE UnionLock(t)
      BY <1>22, <1>a DEF UnionLock, Find, Goto, Assign
<1>23. CASE UnionRoot(t)
      BY <1>23, <1>a DEF UnionRoot, Pick, Goto, Assign
<1>24. CASE UnionRetry(t)
      BY Zenon, <1>24, <1>a DEF UnionRetry, Find, Goto, Assign
<1>25. CASE UnionListA(t)
      BY Zenon, <1>25, <1>a DEF UnionListA, Goto
<1>26. CASE UnionCasA(t)
      BY <1>26, <1>a DEF UnionCasA, Pick, Goto, Assign
<1>27. CASE UnionListB(t)
      BY Zenon, <1>27, <1>a DEF UnionListB, Goto
<1>28. CASE UnionCasB(t)
      BY <1>28, <1>a DEF UnionCasB, Pick, Goto, Assign
<1>29. CASE UnionUnlist(t)
      BY Zenon, <1>29, <1>a DEF UnionUnlist, Goto
<1>30. CASE UnionFail(t)
      BY Zenon, <1>30, <1>a DEF UnionFail, Return, ReturnBool, Goto, Assign
<1>31. CASE UnionSwap(t)
      BY Zenon, <1>31, <1>a DEF UnionSwap, Goto
<1>32. CASE UnionLink(t)
      BY Zenon, <1>32, <1>a DEF UnionLink, Goto
<1>33. CASE UnionAccR(t)
      BY Zenon, <1>33, <1>a DEF UnionAccR, Goto, Assign
<1>34. CASE UnionAccQ(t)
      BY Zenon, <1>34, <1>a DEF UnionAccQ, Goto, Assign
<1>35. CASE UnionOrAcc(t)
      BY Zenon, <1>35, <1>a DEF UnionOrAcc, Goto
<1>36. CASE UnionUpAcc(t)
      BY <1>36, <1>a DEF UnionUpAcc, Find, Goto, Assign
<1>37. CASE UnionAcc(t)
      BY Zenon, <1>37, <1>a DEF UnionAcc, Goto, Assign
<1>38. CASE UnionSetQ(t)
      BY Zenon, <1>38, <1>a DEF UnionSetQ, Goto, Assign
<1>39. CASE UnionSetR(t)
      BY Zenon, <1>39, <1>a DEF UnionSetR, Goto
<1>40. CASE UnionOrSet(t)
      BY Zenon, <1>40, <1>a DEF UnionOrSet, Goto
<1>41. CASE UnionUpSet(t)
      BY <1>41, <1>a DEF UnionUpSet, Find, Goto, Assign
<1>42. CASE UnionSet(t)
      BY Zenon, <1>42, <1>a DEF UnionSet, Goto, Assign
<1>43. CASE UnionUnlistA(t)
      BY Zenon, <1>43, <1>a DEF UnionUnlistA, Goto
<1>44. CASE UnionUnlistB(t)
      BY Zenon, <1>44, <1>a DEF UnionUnlistB, Goto
<1>45. CASE UnionUnlock(t)
      BY Zenon, <1>45, <1>a DEF UnionUnlock, Return, ReturnBool, Goto, Assign
<1>46. CASE Claim(t)
      BY <1>46, <1>a DEF Claim, Return, ReturnCode, Goto, Assign
<1>47. CASE ClaimFound(t)
      BY <1>47, <1>a DEF ClaimFound, Return, ReturnCode, Goto, Assign
<1>48. CASE ClaimOr(t)
      BY Zenon, <1>48, <1>a DEF ClaimOr, Goto, Assign
<1>49. CASE ClaimUp(t)
      BY <1>49, <1>a DEF ClaimUp, Find, Return, ReturnCode, Goto, Assign
<1>50. CASE ClaimSet(t)
      BY Zenon, <1>50, <1>a DEF ClaimSet, Goto, Assign
<1>51. CASE Acc(t)
      BY <1>51, <1>a DEF Acc, Return, ReturnBits, Goto, Assign
<1>52. CASE AccOr(t)
      BY Zenon, <1>52, <1>a DEF AccOr, Goto, Assign
<1>53. CASE AccUp(t)
      BY <1>53, <1>a DEF AccUp, Find, Return, ReturnBits, Goto, Assign
<1> QED BY <1>1, <1>2, <1>3, <1>4, <1>5, <1>6, <1>7, <1>8, <1>9, <1>10,
         <1>11, <1>12, <1>13, <1>14, <1>15, <1>16, <1>17, <1>18, <1>19,
         <1>20, <1>21, <1>22, <1>23, <1>24, <1>25, <1>26, <1>27, <1>28,
         <1>29, <1>30, <1>31, <1>32, <1>33, <1>34, <1>35, <1>36, <1>37,
         <1>38, <1>39, <1>40, <1>41, <1>42, <1>43, <1>44, <1>45, <1>46,
         <1>47, <1>48, <1>49, <1>50, <1>51, <1>52, <1>53 DEF UFStep

LEMMA LabelStep ==
    ASSUME IInv, NEW t \in Thread, UFStep(t)
    PROVE  pc'[t] \in Label
<1>a. /\ pc \in [Thread -> Label] /\ loc[t] \in Local
      /\ FindOK(pc[t], loc[t]) /\ PickOK(pc[t], loc[t])
      BY DEF IInv, Typed, LocalOK
<1>b. /\ FindReturn \ {""} \subseteq Label
      /\ PickReturn \ {""} \subseteq Label
      BY Zenon DEF Label
<1>c. /\ pc[t] \in InFind => loc[t].fret \in Label
      /\ pc[t] \in InPick \ FindReturn => loc[t].pret \in Label
      /\ pc[t] = "dead_check" => loc[t].pret \in Label
      BY Zenon, <1>a, <1>b DEF Local, FindOK, PickOK, Outer, InFind, InPick
<1>1. CASE FindX(t)
      BY ZenonT(40), <1>1, <1>a, <1>c DEF FindX, FindResult, Goto, InFind, Label
<1>2. CASE FindY(t)
      BY Zenon, <1>2, <1>a, <1>c DEF FindY, FindResult, Goto, InFind, Label
<1> USE DEF Label, FindReturn, PickReturn, Goto
<1>3. CASE FindWrite(t)
      BY Zenon, <1>3, <1>a DEF FindWrite
<1>4. CASE Got(t)
      BY Zenon, <1>4, <1>a DEF Got, Return, ReturnCode
<1>5. CASE SameA(t)
      BY Zenon, <1>5, <1>a DEF SameA
<1>6. CASE SameB(t)
      BY Zenon, <1>6, <1>a DEF SameB, Return, ReturnBool
<1>7. CASE SameCheck(t)
      BY Zenon, <1>7, <1>a DEF SameCheck, Return, ReturnBool
<1>8. CASE PickA(t)
      BY Zenon, <1>8, <1>a, <1>c DEF PickA, PickResult, InPick
<1>9. CASE PickNext(t)
      BY Zenon, <1>9, <1>a DEF PickNext, Find
<1>10. CASE PickB(t)
      BY Zenon, <1>10, <1>a, <1>c DEF PickB, PickResult, InPick
<1>11. CASE PickC(t)
      BY Zenon, <1>11, <1>a DEF PickC
<1>12. CASE PickWrite(t)
      BY Zenon, <1>12, <1>a DEF PickWrite
<1>13. CASE MarkDead(t)
      BY Zenon, <1>13, <1>a DEF MarkDead
<1>14. CASE MarkDeadCas(t)
      BY Zenon, <1>14, <1>a DEF MarkDeadCas
<1>15. CASE MarkDeadRoot(t)
      BY Zenon, <1>15, <1>a DEF MarkDeadRoot, Find
<1>16. CASE MarkDeadCheck(t)
      BY Zenon, <1>16, <1>a, <1>c DEF MarkDeadCheck, PickResult, InPick
<1>17. CASE Picked(t)
      BY Zenon, <1>17, <1>a DEF Picked, Return, ReturnCode
<1>18. CASE RemoveRead(t)
      BY Zenon, <1>18, <1>a DEF RemoveRead, Return, ReturnBool
<1>19. CASE RemoveCas(t)
      BY Zenon, <1>19, <1>a DEF RemoveCas, Return, ReturnBool
<1>20. CASE UnionA(t)
      BY Zenon, <1>20, <1>a DEF UnionA
<1>21. CASE UnionB(t)
      BY Zenon, <1>21, <1>a DEF UnionB, Return, ReturnBool
<1>22. CASE UnionLock(t)
      BY Zenon, <1>22, <1>a DEF UnionLock, Find
<1>23. CASE UnionRoot(t)
      BY Zenon, <1>23, <1>a DEF UnionRoot, Pick
<1>24. CASE UnionRetry(t)
      BY Zenon, <1>24, <1>a DEF UnionRetry, Find
<1>25. CASE UnionListA(t)
      BY Zenon, <1>25, <1>a DEF UnionListA
<1>26. CASE UnionCasA(t)
      BY Zenon, <1>26, <1>a DEF UnionCasA, Pick
<1>27. CASE UnionListB(t)
      BY Zenon, <1>27, <1>a DEF UnionListB
<1>28. CASE UnionCasB(t)
      BY Zenon, <1>28, <1>a DEF UnionCasB, Pick
<1>29. CASE UnionUnlist(t)
      BY Zenon, <1>29, <1>a DEF UnionUnlist
<1>30. CASE UnionFail(t)
      BY Zenon, <1>30, <1>a DEF UnionFail, Return, ReturnBool
<1>31. CASE UnionSwap(t)
      BY Zenon, <1>31, <1>a DEF UnionSwap
<1>32. CASE UnionLink(t)
      BY Zenon, <1>32, <1>a DEF UnionLink
<1>33. CASE UnionAccR(t)
      BY Zenon, <1>33, <1>a DEF UnionAccR
<1>34. CASE UnionAccQ(t)
      BY Zenon, <1>34, <1>a DEF UnionAccQ
<1>35. CASE UnionOrAcc(t)
      BY Zenon, <1>35, <1>a DEF UnionOrAcc
<1>36. CASE UnionUpAcc(t)
      BY Zenon, <1>36, <1>a DEF UnionUpAcc, Find
<1>37. CASE UnionAcc(t)
      BY Zenon, <1>37, <1>a DEF UnionAcc
<1>38. CASE UnionSetQ(t)
      BY Zenon, <1>38, <1>a DEF UnionSetQ
<1>39. CASE UnionSetR(t)
      BY Zenon, <1>39, <1>a DEF UnionSetR
<1>40. CASE UnionOrSet(t)
      BY Zenon, <1>40, <1>a DEF UnionOrSet
<1>41. CASE UnionUpSet(t)
      BY Zenon, <1>41, <1>a DEF UnionUpSet, Find
<1>42. CASE UnionSet(t)
      BY Zenon, <1>42, <1>a DEF UnionSet
<1>43. CASE UnionUnlistA(t)
      BY Zenon, <1>43, <1>a DEF UnionUnlistA
<1>44. CASE UnionUnlistB(t)
      BY Zenon, <1>44, <1>a DEF UnionUnlistB
<1>45. CASE UnionUnlock(t)
      BY Zenon, <1>45, <1>a DEF UnionUnlock, Return, ReturnBool
<1>46. CASE Claim(t)
      BY Zenon, <1>46, <1>a DEF Claim, Return, ReturnCode
<1>47. CASE ClaimFound(t)
      BY Zenon, <1>47, <1>a DEF ClaimFound, Return, ReturnCode
<1>48. CASE ClaimOr(t)
      BY Zenon, <1>48, <1>a DEF ClaimOr
<1>49. CASE ClaimUp(t)
      BY Zenon, <1>49, <1>a DEF ClaimUp, Find, Return, ReturnCode
<1>50. CASE ClaimSet(t)
      BY Zenon, <1>50, <1>a DEF ClaimSet
<1>51. CASE Acc(t)
      BY Zenon, <1>51, <1>a DEF Acc, Return, ReturnBits
<1>52. CASE AccOr(t)
      BY Zenon, <1>52, <1>a DEF AccOr
<1>53. CASE AccUp(t)
      BY Zenon, <1>53, <1>a DEF AccUp, Find, Return, ReturnBits
<1> QED BY Zenon, <1>1, <1>2, <1>3, <1>4, <1>5, <1>6, <1>7, <1>8, <1>9, <1>10,
         <1>11, <1>12, <1>13, <1>14, <1>15, <1>16, <1>17, <1>18, <1>19,
         <1>20, <1>21, <1>22, <1>23, <1>24, <1>25, <1>26, <1>27, <1>28,
         <1>29, <1>30, <1>31, <1>32, <1>33, <1>34, <1>35, <1>36, <1>37,
         <1>38, <1>39, <1>40, <1>41, <1>42, <1>43, <1>44, <1>45, <1>46,
         <1>47, <1>48, <1>49, <1>50, <1>51, <1>52, <1>53 DEF UFStep

\* Which steps write to which array.
LEMMA Writers ==
    ASSUME NEW t \in Thread, UFStep(t)
    PROVE  /\ parent' = parent \/ FindWrite(t) \/ UnionLink(t)
           /\ uf_status' = uf_status \/ UnionLock(t) \/ UnionRetry(t) \/ UnionFail(t) \/
                    UnionUnlock(t) \/ MarkDeadCas(t)
           /\ list_next' = list_next \/ PickWrite(t) \/ UnionSwap(t)
           /\ list_status' = list_status \/ RemoveCas(t) \/ UnionCasA(t) \/ UnionCasB(t) \/
                    UnionUnlist(t) \/ UnionUnlistA(t) \/ UnionUnlistB(t)
           /\ acc_set' = acc_set \/ UnionOrAcc(t) \/ UnionAcc(t) \/ AccOr(t)
           /\ p_set' = p_set \/ UnionOrSet(t) \/ UnionSet(t) \/ ClaimOr(t) \/
                    ClaimSet(t)
    BY Zenon DEF UFStep, forest, lists, sets,
           FindX, FindY, FindWrite, Got, SameA, SameB, SameCheck, PickA,
           PickNext, PickB, PickC, PickWrite, MarkDead, MarkDeadCas,
           MarkDeadRoot, MarkDeadCheck, Picked, RemoveRead, RemoveCas,
           UnionA, UnionB, UnionLock, UnionRoot, UnionRetry, UnionListA,
           UnionCasA, UnionListB, UnionCasB, UnionUnlist, UnionFail,
           UnionSwap, UnionLink, UnionAccR, UnionAccQ, UnionOrAcc,
           UnionUpAcc, UnionAcc, UnionSetQ, UnionSetR, UnionOrSet,
           UnionUpSet, UnionSet, UnionUnlistA, UnionUnlistB, UnionUnlock,
           Claim, ClaimFound, ClaimOr, ClaimUp, ClaimSet, Acc, AccOr, AccUp

-----------------------------------------------------------------------------
(* The arrays                                                              *)

\* The local facts about the step of t that the rest builds on.
LEMMA Here ==
    ASSUME IInv, NEW t \in Thread
    PROVE  /\ FindWrite(t) => /\ loc[t].x \in State /\ loc[t].y \in State
                              /\ loc[t].x < loc[t].y /\ parent[loc[t].x] # 0
           /\ UnionLink(t) => /\ loc[t].q \in State /\ loc[t].r \in State
                              /\ loc[t].q < loc[t].r
           /\ UnionLock(t) \/ UnionRetry(t) \/ UnionFail(t) \/ UnionUnlock(t)
                 => loc[t].q \in State
           /\ MarkDeadCas(t) => loc[t].f \in State
           /\ PickWrite(t) => /\ loc[t].pa \in State /\ loc[t].pn \in State
                              /\ list_next[loc[t].pa] # 0
                              /\ list_next[loc[t].pn] # 0
           /\ UnionSwap(t) => loc[t].a_l \in State /\ loc[t].b_l \in State
<1>a. FindOK(pc[t], loc[t]) /\ PickOK(pc[t], loc[t])
      /\ CallOK(Where(pc[t], loc[t]), loc[t])
      BY DEF IInv, LocalOK
<1>b. HasParent /\ Lists
      BY DEF IInv
<1> USE DEF FindOK, PickOK, CallOK, Where, Outer, InFind, InPick, BeforeLink,
            AfterLink, FindReturn, PickReturn
<1>1. FindWrite(t) => /\ loc[t].x \in State /\ loc[t].y \in State
                      /\ loc[t].x < loc[t].y /\ parent[loc[t].x] # 0
      BY Zenon, <1>a, <1>b DEF FindWrite, HasParent
<1>2. UnionLink(t) => /\ loc[t].q \in State /\ loc[t].r \in State
                      /\ loc[t].q < loc[t].r
      BY Zenon, <1>a DEF UnionLink
<1>3. UnionLock(t) \/ UnionRetry(t) \/ UnionFail(t) \/ UnionUnlock(t)
         => loc[t].q \in State
      BY Zenon, <1>a DEF UnionLock, UnionRetry, UnionFail, UnionUnlock
<1>4. MarkDeadCas(t) => loc[t].f \in State
      BY Zenon, <1>a DEF MarkDeadCas
<1>5. PickWrite(t) => /\ loc[t].pa \in State /\ loc[t].pn \in State
                      /\ list_next[loc[t].pa] # 0 /\ list_next[loc[t].pn] # 0
      BY Zenon, <1>a, <1>b DEF PickWrite, Lists
<1>6. UnionSwap(t) => loc[t].a_l \in State /\ loc[t].b_l \in State
      BY Zenon, <1>a DEF UnionSwap
<1> QED BY <1>1, <1>2, <1>3, <1>4, <1>5, <1>6

\* A state that has a parent keeps one, and an entry that has a successor
\* keeps one.
LEMMA Stays ==
    ASSUME IInv, NEW t \in Thread, UFStep(t), NEW s \in State
    PROVE  /\ parent[s] # 0 => parent'[s] # 0
           /\ list_next[s] # 0 => list_next'[s] # 0
<1>a. parent \in [State -> Ref] /\ list_next \in [State -> Ref]
      BY DEF IInv, Typed
<1>b. 0 \notin State
      BY NAssumption DEF State
<1>1. parent[s] # 0 => parent'[s] # 0
  <2>1. CASE FindWrite(t)
        BY Zenon, <2>1, <1>a, <1>b, Here DEF FindWrite
  <2>2. CASE UnionLink(t)
        BY Zenon, <2>2, <1>a, <1>b, Here DEF UnionLink
  <2> QED BY <2>1, <2>2, Writers
<1>2. list_next[s] # 0 => list_next'[s] # 0
  <2>1. CASE PickWrite(t)
        BY Zenon, <2>1, <1>a, <1>b, Here DEF PickWrite
  <2>2. CASE UnionSwap(t)
    <3> DEFINE After(u) == IF list_next[u] = 0 THEN u ELSE list_next[u]
    <3>1. /\ loc[t].a_l \in State /\ loc[t].b_l \in State
          /\ list_next' = [list_next EXCEPT
                             ![loc[t].a_l] = After(loc[t].b_l),
                             ![loc[t].b_l] = After(loc[t].a_l)]
          BY Zenon, <2>2, Here DEF UnionSwap
    <3>2. After(loc[t].a_l) # 0 /\ After(loc[t].b_l) # 0
          BY <3>1, <1>b
    <3> HIDE DEF After
    <3> QED BY <3>1, <3>2, <1>a
  <2> QED BY <2>1, <2>2, Writers
<1> QED BY <1>1, <1>2

LEMMA TypeStep ==
    ASSUME IInv, NEW t \in Thread, UFStep(t)
    PROVE  Typed'
<1>a. Typed
      BY DEF IInv
<1>b. FindOK(pc[t], loc[t]) /\ PickOK(pc[t], loc[t])
      /\ CallOK(Where(pc[t], loc[t]), loc[t])
      BY DEF IInv, LocalOK
<1>1. parent' \in [State -> Ref]
  <2>1. CASE FindWrite(t)
        BY Zenon, <2>1, <1>a, Here, Refs DEF FindWrite, Typed
  <2>2. CASE UnionLink(t)
        BY Zenon, <2>2, <1>a, Here, Refs DEF UnionLink, Typed
  <2> QED BY <2>1, <2>2, <1>a, Writers DEF Typed
<1>2. uf_status' \in [State -> {"UF_LIVE", "UF_LOCK", "UF_DEAD"}]
  <2>1. CASE UnionLock(t)
        BY <2>1, <1>a DEF UnionLock, Typed
  <2>2. CASE UnionRetry(t) \/ UnionFail(t) \/ UnionUnlock(t)
        BY Zenon, <2>2, <1>a DEF UnionRetry, UnionFail, UnionUnlock, Typed
  <2>3. CASE MarkDeadCas(t)
        BY Zenon, <2>3, <1>a DEF MarkDeadCas, Typed
  <2> QED BY <2>1, <2>2, <2>3, <1>a, Writers DEF Typed
<1>3. list_status' \in [State -> {"LIST_LIVE", "LIST_LOCK", "LIST_TOMB"}]
  <2>1. CASE RemoveCas(t)
        BY Zenon, <2>1, <1>a DEF RemoveCas, Typed
  <2>2. CASE UnionCasA(t)
        BY <2>2, <1>a DEF UnionCasA, Typed
  <2>3. CASE UnionCasB(t)
        BY <2>3, <1>a DEF UnionCasB, Typed
  <2>4. CASE UnionUnlist(t) \/ UnionUnlistA(t) \/ UnionUnlistB(t)
        BY <2>4, <1>a DEF UnionUnlist, UnionUnlistA, UnionUnlistB, Typed
  <2> QED BY <2>1, <2>2, <2>3, <2>4, <1>a, Writers DEF Typed
<1>4. list_next' \in [State -> Ref]
  <2>1. CASE PickWrite(t)
        BY Zenon, <2>1, <1>a, Here, Refs DEF PickWrite, Typed
  <2>2. CASE UnionSwap(t)
    <3> DEFINE After(u) == IF list_next[u] = 0 THEN u ELSE list_next[u]
    <3>1. /\ loc[t].a_l \in State /\ loc[t].b_l \in State
          /\ list_next' = [list_next EXCEPT
                             ![loc[t].a_l] = After(loc[t].b_l),
                             ![loc[t].b_l] = After(loc[t].a_l)]
          BY Zenon, <2>2, Here DEF UnionSwap
    <3>2. After(loc[t].a_l) \in Ref /\ After(loc[t].b_l) \in Ref
          BY <3>1, <1>a, Refs DEF Typed
    <3> HIDE DEF After
    <3> QED BY <3>1, <3>2, <1>a DEF Typed
  <2> QED BY <2>1, <2>2, <1>a, Writers DEF Typed
<1>5. acc_set' \in [State -> Bits]
  <2>1. \A A, B \in Bits : A \cup B \in Bits
        BY DEF Bits
  <2>2. /\ loc[t] \in Local /\ acc_set \in [State -> Bits]
        BY <1>a DEF Typed
  <2>3. loc[t].bits \in Bits
        BY <2>2 DEF Local
  <2>4. CASE UnionOrAcc(t)
        BY Zenon, <2>1, <2>2, <2>3, <2>4 DEF UnionOrAcc
  <2>5. CASE UnionAcc(t)
        BY Zenon, <2>1, <2>2, <2>3, <2>5 DEF UnionAcc
  <2>6. CASE AccOr(t)
        BY Zenon, <2>1, <2>2, <2>3, <2>6 DEF AccOr
  <2> QED BY <2>2, <2>4, <2>5, <2>6, Writers
<1>6. p_set' \in [State -> Bits]
  <2>1. \A A, B \in Bits : A \cup B \in Bits
        BY DEF Bits
  <2>2. /\ loc[t] \in Local /\ p_set \in [State -> Bits]
        BY <1>a DEF Typed
  <2>3. loc[t].bits \in Bits /\ {t} \in Bits
        BY <2>2 DEF Local, Bits
  <2>4. CASE UnionOrSet(t)
        BY Zenon, <2>1, <2>2, <2>3, <2>4 DEF UnionOrSet
  <2>5. CASE UnionSet(t)
        BY Zenon, <2>1, <2>2, <2>3, <2>5 DEF UnionSet
  <2>6. CASE ClaimOr(t)
        BY Zenon, <2>1, <2>2, <2>3, <2>6 DEF ClaimOr
  <2>7. CASE ClaimSet(t)
        BY Zenon, <2>1, <2>2, <2>3, <2>7 DEF ClaimSet
  <2> QED BY <2>2, <2>4, <2>5, <2>6, <2>7, Writers
<1>7. pc' \in [Thread -> Label]
      BY <1>a, Moves, LabelStep DEF Typed
<1>8. loc' \in [Thread -> Local]
      BY <1>a, Moves, LocalStep DEF Typed
<1> QED BY <1>1, <1>2, <1>3, <1>4, <1>5, <1>6, <1>7, <1>8 DEF Typed

-----------------------------------------------------------------------------
(* The forest                                                              *)

\* Threads other than t, and where they are, are not touched by t's step.
LEMMA Others ==
    ASSUME IInv, NEW t \in Thread, UFStep(t), NEW u \in Thread, u # t
    PROVE  loc'[u] = loc[u] /\ pc'[u] = pc[u]
    BY Moves DEF IInv, Typed

LEMMA ForestStep ==
    ASSUME IInv, NEW t \in Thread, UFStep(t)
    PROVE  ParentHigher'
<1>a. parent \in [State -> Ref] /\ ParentHigher
      BY DEF IInv, Typed
<1>b. \A s, u \in State : s < u => u > s
      BY NAssumption DEF State
<1>1. CASE FindWrite(t)
      BY Zenon, <1>1, <1>a, <1>b, Here DEF FindWrite, ParentHigher
<1>2. CASE UnionLink(t)
      BY Zenon, <1>2, <1>a, <1>b, Here DEF UnionLink, ParentHigher
<1>3. CASE parent' = parent
      BY <1>3, <1>a DEF ParentHigher
<1> QED BY <1>1, <1>2, <1>3, Writers

LEMMA HasParentStep ==
    ASSUME IInv, NEW t \in Thread, UFStep(t)
    PROVE  HasParent'
<1> SUFFICES ASSUME NEW u \in Thread, pc'[u] \in {"find_y", "find_write"}
             PROVE  parent'[loc'[u].x] # 0
      BY DEF HasParent
<1>1. loc'[u].x \in State /\ parent[loc'[u].x] # 0
  <2>1. CASE u = t
        BY Zenon, <2>1, LocalStep DEF Keeps, LocalOK, FindOK, InFind
  <2>2. CASE u # t
    <3>1. loc'[u] = loc[u] /\ pc'[u] = pc[u]
          BY <2>2, Others
    <3>2. FindOK(pc[u], loc[u]) /\ HasParent
          BY DEF IInv, LocalOK
    <3> QED BY Zenon, <3>1, <3>2 DEF FindOK, InFind, HasParent
  <2> QED BY <2>1, <2>2
<1> QED BY <1>1, Stays

-----------------------------------------------------------------------------
(* The locks                                                               *)

\* Where the owners of a lock give it back, and where q is linked.
LEMMA Releases ==
    ASSUME IInv, NEW t \in Thread
    PROVE  /\ UnionRetry(t) \/ UnionFail(t) \/ UnionUnlock(t)
                 => Holds(t) /\ ~Holds(t)'
           /\ UnionLink(t) => Holds(t) /\ Where(pc[t], loc[t])' \notin BeforeLink
<1>a. /\ pc \in [Thread -> Label] /\ loc \in [Thread -> Local] /\ loc[t] \in Local
      /\ PickOK(pc[t], loc[t])
      BY DEF IInv, Typed, LocalOK
<1> USE DEF Holds, Where, Outer, InFind, InPick, BeforeLink, AfterLink, Locked,
            PickOK, Local, Goto, Assign
<1>1. ASSUME UnionRetry(t) PROVE Holds(t) /\ ~Holds(t)'
      BY Zenon, <1>1, <1>a DEF UnionRetry, Find
<1>2. ASSUME UnionFail(t) PROVE Holds(t) /\ ~Holds(t)'
      BY Zenon, <1>2, <1>a, NoLocalType
      DEF UnionFail, ReturnBool, Return, NoLocal
<1>3. ASSUME UnionUnlock(t) PROVE Holds(t) /\ ~Holds(t)'
      BY Zenon, <1>3, <1>a, NoLocalType
      DEF UnionUnlock, ReturnBool, Return, NoLocal
<1>4. ASSUME UnionLink(t)
      PROVE  Holds(t) /\ Where(pc[t], loc[t])' \notin BeforeLink
      BY Zenon, <1>4, <1>a DEF UnionLink
<1> QED BY Zenon, <1>1, <1>2, <1>3, <1>4

\* The entries of uf_status that a step writes: t's own q, or one that was
\* not locked.
LEMMA StatusStep ==
    ASSUME IInv, NEW t \in Thread, UFStep(t), NEW s \in State,
           uf_status[s] = "UF_LOCK", Holds(t) => s # loc[t].q
    PROVE  uf_status'[s] = "UF_LOCK"
<1>a. uf_status \in [State -> {"UF_LIVE", "UF_LOCK", "UF_DEAD"}]
      BY DEF IInv, Typed
<1>1. CASE UnionLock(t)
      BY Zenon, <1>1, <1>a, Here DEF UnionLock
<1>2. CASE UnionRetry(t) \/ UnionFail(t) \/ UnionUnlock(t)
  <2>1. s # loc[t].q
        BY Zenon, <1>2, Releases
  <2>2. uf_status' = [uf_status EXCEPT ![loc[t].q] = "UF_LIVE"]
        BY Zenon, <1>2 DEF UnionRetry, UnionFail, UnionUnlock
  <2> QED BY <2>1, <2>2, <1>a
<1>3. CASE MarkDeadCas(t)
      BY <1>3, <1>a, Here DEF MarkDeadCas
<1> QED BY Zenon, <1>1, <1>2, <1>3, Writers

\* A state without parent gets one only by being t's q.
LEMMA RootStep ==
    ASSUME IInv, NEW t \in Thread, UFStep(t), NEW s \in State,
           parent[s] = 0, UnionLink(t) => s # loc[t].q
    PROVE  parent'[s] = 0
<1>a. parent \in [State -> Ref]
      BY DEF IInv, Typed
<1>1. CASE FindWrite(t)
      BY Zenon, <1>1, <1>a, Here DEF FindWrite
<1>2. CASE UnionLink(t)
      BY <1>2, <1>a DEF UnionLink
<1> QED BY Zenon, <1>1, <1>2, Writers

LEMMA HoldsState ==
    ASSUME IInv, NEW t \in Thread, Holds(t)
    PROVE  loc[t].q \in State
    BY DEF IInv, LocalOK, CallOK, Holds, Locked

LEMMA LocksStep ==
    ASSUME IInv, NEW t \in Thread, UFStep(t)
    PROVE  Locks'
<1>a. Locks
      BY DEF IInv
<1>b. \A u \in Thread : u # t =>
         /\ Holds(u)' <=> Holds(u)
         /\ Where(pc[u], loc[u])' = Where(pc[u], loc[u])
         /\ loc'[u].q = loc[u].q
      BY Zenon, Others DEF Holds, Where, Outer
<1>c. Holds(t)' => /\ loc'[t].q = loc[t].q
                   /\ \/ Holds(t)
                      \/ /\ pc[t] = "union_lock"
                         /\ uf_status[loc[t].q] = "UF_LIVE"
      BY LocalStep DEF Keeps, Holds
<1>d. pc[t] = "union_lock" => UnionLock(t)
      BY DEF UFStep, FindX, FindY, FindWrite, Got, SameA, SameB, SameCheck,
             PickA, PickNext, PickB, PickC, PickWrite, MarkDead,
             MarkDeadCas, MarkDeadRoot, MarkDeadCheck, Picked,
             RemoveRead, RemoveCas, UnionA, UnionB, UnionLock,
             UnionRoot, UnionRetry, UnionListA, UnionCasA, UnionListB,
             UnionCasB, UnionUnlist, UnionFail, UnionSwap, UnionLink,
             UnionAccR, UnionAccQ, UnionOrAcc, UnionUpAcc, UnionAcc,
             UnionSetQ, UnionSetR, UnionOrSet, UnionUpSet, UnionSet,
             UnionUnlistA, UnionUnlistB, UnionUnlock, Claim,
             ClaimFound, ClaimOr, ClaimUp, ClaimSet, Acc, AccOr,
             AccUp
<1>1. ASSUME NEW u \in Thread, Holds(u)'
      PROVE  uf_status'[loc'[u].q] = "UF_LOCK"
  <2>1. CASE u # t
    <3>1. /\ Holds(u) /\ uf_status[loc[u].q] = "UF_LOCK" /\ loc[u].q \in State
          /\ loc'[u].q = loc[u].q /\ (Holds(t) => loc[u].q # loc[t].q)
          BY <2>1, <1>1, <1>a, <1>b, HoldsState DEF Locks
    <3> QED BY <3>1, StatusStep
  <2>2. CASE u = t /\ Holds(t)
    <3>1. /\ loc'[t].q = loc[t].q /\ uf_status[loc[t].q] = "UF_LOCK"
          /\ loc[t].q \in State
          BY <2>2, <1>1, <1>a, <1>c, HoldsState DEF Locks
    <3>2. ~(UnionRetry(t) \/ UnionFail(t) \/ UnionUnlock(t))
          BY <2>2, <1>1, Releases
    <3>3. ~UnionLock(t) \/ uf_status' = uf_status
          BY <3>1 DEF UnionLock
    <3>4. CASE MarkDeadCas(t)
      <4>1. /\ uf_status \in [State -> {"UF_LIVE", "UF_LOCK", "UF_DEAD"}]
            /\ loc[t].f \in State
            BY <3>4, Here DEF IInv, Typed
      <4> QED BY <2>2, <3>1, <3>4, <4>1 DEF MarkDeadCas
    <3> QED BY Zenon, <2>2, <3>1, <3>2, <3>3, <3>4, Writers
  <2>3. CASE u = t /\ ~Holds(t)
    <3>1. /\ UnionLock(t) /\ uf_status[loc[t].q] = "UF_LIVE"
          /\ loc'[t].q = loc[t].q
          BY Zenon, <2>3, <1>1, <1>c, <1>d
    <3>2. loc[t].q \in State /\ uf_status \in [State -> {"UF_LIVE", "UF_LOCK", "UF_DEAD"}]
          BY Zenon, <3>1, Here DEF IInv, Typed
    <3> QED BY <2>3, <3>1, <3>2 DEF UnionLock
  <2> QED BY <2>1, <2>2, <2>3
<1>2. ASSUME NEW u \in Thread, NEW v \in Thread, u # v, Holds(u)', Holds(v)'
      PROVE  loc'[u].q # loc'[v].q
  <2>1. ASSUME NEW w \in Thread, w # t, Holds(w), Holds(t)'
        PROVE  loc'[w].q # loc'[t].q
    <3>1. uf_status[loc[w].q] = "UF_LOCK" /\ loc'[w].q = loc[w].q
          BY Zenon, <2>1, <1>a, <1>b DEF Locks
    <3>2. CASE Holds(t)
          BY <3>1, <3>2, <2>1, <1>a, <1>c DEF Locks
    <3>3. CASE ~Holds(t)
          BY <3>1, <3>3, <2>1, <1>c
    <3> QED BY <3>2, <3>3
  <2>2. CASE u # t /\ v # t
        BY <1>2, <2>2, <1>a, <1>b DEF Locks
  <2>3. CASE u = t
        BY <1>2, <2>1, <2>3, <1>b
  <2>4. CASE v = t
        BY <1>2, <2>1, <2>4, <1>b
  <2> QED BY <2>2, <2>3, <2>4
<1>3. ASSUME NEW u \in Thread, Where(pc[u], loc[u])' \in BeforeLink
      PROVE  parent'[loc'[u].q] = 0
  <2>1. CASE u # t
    <3>1. /\ Where(pc[u], loc[u]) \in BeforeLink /\ Holds(u)
          /\ loc'[u].q = loc[u].q /\ loc[u].q \in State
          BY <2>1, <1>3, <1>b, HoldsState DEF Holds, Locked
    <3>2. parent[loc[u].q] = 0
          BY <3>1, <1>a DEF Locks
    <3>3. UnionLink(t) => loc[u].q # loc[t].q
          BY <2>1, <3>1, <1>a, Releases DEF Locks
    <3> QED BY <3>1, <3>2, <3>3, RootStep
  <2>2. CASE u = t
    <3>1. Holds(t)' /\ ~UnionLink(t)
          BY <2>2, <1>3, Releases DEF Holds, Locked
    <3>2. \/ Where(pc[t], loc[t]) \in BeforeLink
          \/ pc[t] = "union_root" /\ parent[loc[t].q] = 0
          BY <2>2, <1>3, LocalStep DEF Keeps
    <3>3. parent[loc[t].q] = 0
          BY <3>2, <1>a DEF Locks
    <3>4. loc'[t].q = loc[t].q /\ loc[t].q \in State
          BY <3>1, <1>c, <1>d, Here, HoldsState
    <3> QED BY <2>2, <3>1, <3>3, <3>4, RootStep
  <2> QED BY <2>1, <2>2
<1> QED BY <1>1, <1>2, <1>3 DEF Locks

-----------------------------------------------------------------------------
(* The lists                                                               *)

LEMMA ListsStep ==
    ASSUME IInv, NEW t \in Thread, UFStep(t)
    PROVE  Lists'
<1>a. list_next \in [State -> Ref] /\ Lists
      BY DEF IInv, Typed
<1>b. /\ list_next' \in [State -> Ref]
      /\ \A s \in State : list_next[s] # 0 => list_next'[s] # 0
      BY TypeStep, Stays DEF Typed
<1>1. ASSUME NEW s \in State, list_next'[s] # 0
      PROVE  list_next'[list_next'[s]] # 0
  <2>1. CASE PickWrite(t)
        BY Zenon, <1>1, <2>1, <1>a, <1>b, Here, Refs DEF PickWrite, Lists
  <2>2. CASE UnionSwap(t)
    <3> DEFINE After(u) == IF list_next[u] = 0 THEN u ELSE list_next[u]
               x == loc[t].a_l
               y == loc[t].b_l
    <3>1. /\ x \in State /\ y \in State
          /\ list_next' = [list_next EXCEPT ![x] = After(y), ![y] = After(x)]
          BY Zenon, <2>2, Here DEF UnionSwap
    <3>2. /\ After(x) \in State /\ After(y) \in State
          /\ \A u \in State : After(u) = u \/ list_next[After(u)] # 0
          BY <3>1, <1>a, Refs DEF Lists
    <3> HIDE DEF After
    <3>3. list_next'[x] # 0 /\ list_next'[y] # 0
          BY <3>1, <3>2, <1>a, NAssumption DEF State
    <3>4. \A u \in {x, y} : list_next'[After(u)] # 0
          BY <3>1, <3>2, <3>3, <1>b
    <3>5. CASE s \in {x, y}
          BY <3>1, <3>4, <3>5, <1>a
    <3>6. CASE s \notin {x, y}
      <4>1. list_next'[s] = list_next[s] /\ list_next[s] \in State
            BY <3>1, <3>6, <1>1, <1>a, Refs
      <4>2. list_next[list_next[s]] # 0
            BY <4>1, <1>1, <1>a DEF Lists
      <4> QED BY <4>1, <4>2, <1>b
    <3> QED BY <3>5, <3>6
  <2>3. CASE list_next' = list_next
        BY <1>1, <2>3, <1>a DEF Lists
  <2> QED BY <2>1, <2>2, <2>3, Writers
<1>2. ASSUME NEW u \in Thread
      PROVE  /\ pc'[u] \in {"pick_b", "pick_c", "pick_write"} =>
                   list_next'[loc'[u].pa] # 0 /\ list_next'[loc'[u].pb] # 0
             /\ pc'[u] = "pick_write" => list_next'[loc'[u].pn] # 0
  <2>1. /\ pc'[u] \in {"pick_b", "pick_c", "pick_write"} =>
              /\ list_next[loc'[u].pa] # 0 /\ list_next[loc'[u].pb] # 0
              /\ loc'[u].pa \in State /\ loc'[u].pb \in State
        /\ pc'[u] = "pick_write" =>
              list_next[loc'[u].pn] # 0 /\ loc'[u].pn \in State
    <3>1. CASE u = t
          BY Zenon, <3>1, LocalStep
          DEF Keeps, LocalOK, PickOK, Outer, InFind, InPick
    <3>2. CASE u # t
      <4>1. loc'[u] = loc[u] /\ pc'[u] = pc[u]
            BY <3>2, Others
      <4>2. PickOK(pc[u], loc[u])
            BY DEF IInv, LocalOK
      <4> QED BY Zenon, <4>1, <4>2, <1>a
          DEF PickOK, Outer, InFind, InPick, Lists
    <3> QED BY <3>1, <3>2
  <2> QED BY <2>1, <1>b
<1> QED BY <1>1, <1>2 DEF Lists

-----------------------------------------------------------------------------
(* The calls                                                               *)

\* A call with locals m at place p: it holds no lock and is at the start of
\* its operation.
Starts(p, m) ==
    /\ m \in Local /\ p \in {"ready", "find", "pick_a", "remove"}
    /\ FindOK(p, m) /\ PickOK(p, m) /\ CallOK(Where(p, m), m)
    /\ Where(p, m) \notin Locked

LEMMA CallStarts ==
    ASSUME NEW t \in Thread, Call(t)
    PROVE  \E m, p : Starts(p, m) /\ Enter(t, m, p)
<1> USE DEF Starts, FindOK, PickOK, CallOK, Where, Outer, InFind, InPick,
            BeforeLink, AfterLink, Locked, FindReturn, PickReturn, NoLocal
<1>a. \A s \in State : s \in Ref
      BY Refs
<1>1. CASE CallFind(t)
  <2>1. PICK s \in State : uf_find(t, s)
        BY <1>1 DEF CallFind
  <2> DEFINE m == [NoLocal EXCEPT !.a = s, !.x = s, !.fret = "got"]
  <2>2. m \in Local
        BY Zenon, <1>a, NoLocalType DEF Local
  <2>3. Starts("find", m)
        BY <2>2
  <2> QED BY Zenon, <2>1, <2>3 DEF uf_find
<1>2. CASE CallSameSet(t)
  <2>1. PICK a, b \in State : uf_sameset(t, a, b)
        BY <1>2 DEF CallSameSet
  <2> DEFINE m == [NoLocal EXCEPT !.a = a, !.b = b, !.x = a, !.fret = "same_a"]
  <2>2. m \in Local
        BY Zenon, <1>a, NoLocalType DEF Local
  <2>3. Starts("find", m)
        BY <2>2
  <2> QED BY Zenon, <2>1, <2>3 DEF uf_sameset
<1>3. CASE CallUnion(t)
  <2>1. PICK a, b \in State : uf_union(t, a, b)
        BY <1>3 DEF CallUnion
  <2>2. CASE a = b
    <3> DEFINE m == [NoLocal EXCEPT !.v = TRUE]
    <3>1. m \in Local
          BY Zenon, NoLocalType DEF Local
    <3>2. Starts("ready", m)
          BY Zenon, <3>1
    <3> QED BY Zenon, <2>1, <2>2, <3>2 DEF uf_union
  <2>3. CASE a # b
    <3> DEFINE m == [NoLocal EXCEPT !.a = a, !.b = b, !.x = a, !.fret = "union_a"]
    <3>1. m \in Local
          BY Zenon, <1>a, NoLocalType DEF Local
    <3>2. Starts("find", m)
          BY <3>1
    <3> QED BY Zenon, <2>1, <2>3, <3>2 DEF uf_union
  <2> QED BY Zenon, <2>2, <2>3
<1>4. CASE CallClaim(t)
  <2>1. PICK s \in State : uf_make_claim(t, s)
        BY <1>4 DEF CallClaim
  <2> DEFINE m == [NoLocal EXCEPT !.a = s, !.x = s, !.fret = "claim"]
  <2>2. m \in Local
        BY Zenon, <1>a, NoLocalType DEF Local
  <2>3. Starts("find", m)
        BY <2>2
  <2> QED BY Zenon, <2>1, <2>3 DEF uf_make_claim
<1>5. CASE CallAddAcc(t)
  <2>1. PICK s \in State, k \in Mark : uf_add_acc(t, s, {k})
        BY <1>5 DEF CallAddAcc
  <2> DEFINE m == [NoLocal EXCEPT !.a = s, !.bits = {k}, !.x = s, !.fret = "acc"]
  <2>2. {k} \in Bits
        BY DEF Bits
  <2>3. m \in Local
        BY Zenon, <1>a, <2>2, NoLocalType DEF Local
  <2>4. Starts("find", m)
        BY <2>3
  <2> QED BY Zenon, <2>1, <2>4 DEF uf_add_acc
<1>6. CASE CallPick(t)
  <2>1. PICK s \in State : uf_pick_from_list(t, s)
        BY <1>6 DEF CallPick
  <2> DEFINE m == [NoLocal EXCEPT !.pa = s, !.pret = "picked"]
  <2>2. m \in Local
        BY Zenon, <1>a, NoLocalType DEF Local
  <2>3. Starts("pick_a", m)
        BY <2>2
  <2> QED BY Zenon, <2>1, <2>3 DEF uf_pick_from_list
<1>7. CASE CallRemove(t)
  <2>1. PICK s \in State : uf_remove_from_list(t, s)
        BY <1>7 DEF CallRemove
  <2> DEFINE m == [NoLocal EXCEPT !.a = s]
  <2>2. m \in Local
        BY Zenon, <1>a, NoLocalType DEF Local
  <2>3. Starts("remove", m)
        BY Zenon, <2>2
  <2> QED BY Zenon, <2>1, <2>3 DEF uf_remove_from_list
<1> QED BY Zenon, <1>1, <1>2, <1>3, <1>4, <1>5, <1>6, <1>7 DEF Call

LEMMA CallStep ==
    ASSUME IInv, NEW t \in Thread, Call(t)
    PROVE  IInv'
<1>1. PICK m, p : Starts(p, m) /\ Enter(t, m, p)
      BY CallStarts
<1>2. /\ pc \in [Thread -> Label] /\ loc \in [Thread -> Local]
      /\ pc' = [pc EXCEPT ![t] = p] /\ loc' = [loc EXCEPT ![t] = m]
      BY <1>1 DEF Enter, Goto, Assign, IInv, Typed
<1>3. /\ pc'[t] = p /\ loc'[t] = m
      /\ \A u \in Thread : u # t => pc'[u] = pc[u] /\ loc'[u] = loc[u]
      BY <1>2
<1>4. UNCHANGED <<parent, uf_status, list_status, list_next, p_set, acc_set>>
      BY <1>1 DEF Enter, forest, lists, sets
<1>5. Typed'
  <2>1. p \in Label
        BY Zenon, <1>1 DEF Starts, Label, FindReturn, PickReturn
  <2>2. pc' \in [Thread -> Label] /\ loc' \in [Thread -> Local]
        BY <1>1, <1>2, <2>1 DEF Starts
  <2> QED BY <1>4, <2>2 DEF IInv, Typed
<1>6. \A u \in Thread : LocalOK(u)'
      BY Zenon, <1>1, <1>3 DEF IInv, LocalOK, Starts
<1>7. ParentHigher'
      BY <1>4 DEF IInv, ParentHigher
<1>8. HasParent'
  <2>1. p \notin {"find_y", "find_write"}
        BY <1>1 DEF Starts
  <2> QED BY <1>3, <1>4, <2>1 DEF IInv, HasParent
<1>9. Locks'
  <2>1. ~Holds(t)' /\ Where(pc'[t], loc'[t]) \notin BeforeLink
        BY Zenon, <1>1, <1>3 DEF Holds, Starts, Locked
  <2>2. \A u \in Thread : u # t =>
           /\ Holds(u)' <=> Holds(u)
           /\ Where(pc'[u], loc'[u]) = Where(pc[u], loc[u])
           /\ loc'[u].q = loc[u].q
        BY <1>3 DEF Holds
  <2> QED BY <1>4, <2>1, <2>2 DEF IInv, Locks
<1>10. Lists'
  <2>1. p \notin {"pick_b", "pick_c", "pick_write"}
        BY <1>1 DEF Starts
  <2> QED BY <1>3, <1>4, <2>1 DEF IInv, Lists
<1> QED BY <1>5, <1>6, <1>7, <1>8, <1>9, <1>10 DEF IInv

-----------------------------------------------------------------------------
(* The theorems                                                            *)

LEMMA InitIInv == Init => IInv
<1> SUFFICES ASSUME Init
             PROVE  IInv
      OBVIOUS
<1>1. /\ pc = [t \in Thread |-> "ready"] /\ loc = [t \in Thread |-> NoLocal]
      /\ parent = [s \in State |-> 0] /\ list_next = [s \in State |-> 0]
      BY DEF Init, UFInit
<1>2. Typed
  <2>1. {} \in Bits
        BY DEF Bits
  <2>2. "ready" \in Label
        BY DEF Label, FindReturn, PickReturn
  <2> QED BY <2>1, <2>2, Refs, NoLocalType DEF Init, UFInit, Typed
<1>3. NoLocal.pret = ""
      BY Zenon, NoLocalType DEF NoLocal
<1>4. \A t \in Thread : LocalOK(t)
      BY Zenon, <1>1, <1>3, NoLocalType, ReadyOK DEF LocalOK
<1>5. ParentHigher /\ HasParent
      BY <1>1 DEF ParentHigher, HasParent
<1>6. Locks
  <2>1. \A t \in Thread : Where(pc[t], loc[t]) = "ready"
        BY Zenon, <1>1, <1>3 DEF Where, Outer, InFind
  <2> QED BY <2>1 DEF Locks, Holds, Locked, BeforeLink, AfterLink
<1>7. Lists
      BY <1>1 DEF Lists
<1> QED BY <1>2, <1>4, <1>5, <1>6, <1>7 DEF IInv

LEMMA NextIInv == IInv /\ [Next]_vars => IInv'
<1> SUFFICES ASSUME IInv, [Next]_vars
             PROVE  IInv'
      OBVIOUS
<1>1. ASSUME NEW t \in Thread, Call(t)
      PROVE  IInv'
      BY <1>1, CallStep
<1>2. ASSUME NEW t \in Thread, UFStep(t)
      PROVE  IInv'
  <2>1. \A u \in Thread : LocalOK(u)'
    <3> TAKE u \in Thread
    <3>1. CASE u = t
          BY <1>2, <3>1, LocalStep
    <3>2. CASE u # t
          BY <1>2, <3>2, Others DEF IInv, LocalOK
    <3> QED BY <3>1, <3>2
  <2> QED
        BY <1>2, <2>1, TypeStep, ForestStep, HasParentStep, LocksStep,
           ListsStep DEF IInv
<1>3. CASE UNCHANGED vars
      BY <1>3
      DEF vars, ufvars, forest, lists, sets, IInv, Typed, LocalOK, ParentHigher,
          HasParent, Locks, Holds, Lists
<1> QED BY <1>1, <1>2, <1>3 DEF Next, Step, Quiet

\* The inductive invariant holds, whatever the threads call (mc-lib/unionfind.c).
THEOREM Inductive == Spec => []IInv
<1> QED BY InitIInv, NextIInv, PTL DEF Spec

\* The forest has no cycle: a parent has a higher number than its child,
\* although uf_find writes parents without a lock (unionfind.c, uf_find).
THEOREM NoCycle == Spec => []ParentHigher
<1>1. IInv => ParentHigher
      BY DEF IInv
<1> QED BY <1>1, Inductive, PTL

\* A representative that a union has locked and found to be a root stays a
\* root, and locked, until that union links it (unionfind.c, uf_lock_uf).
THEOREM LockedIsRoot == Spec => []LockedRoot
<1>1. IInv => LockedRoot
  <2> SUFFICES ASSUME IInv, NEW t \in Thread, Linking(t)
               PROVE  /\ parent[loc[t].q] = 0
                      /\ uf_status[loc[t].q] = "UF_LOCK"
                      /\ \A u \in Thread \ {t} :
                            Linking(u) \/ Propagating(u) => loc[u].q # loc[t].q
        BY DEF LockedRoot
  <2>1. \A u \in Thread : At(u) = Where(pc[u], loc[u])
        BY DEF At, Where, Outer, InFind
  <2>2. \A u \in Thread : /\ Linking(u) => Where(pc[u], loc[u]) \in BeforeLink
                          /\ Linking(u) \/ Propagating(u) => Holds(u)
        BY <2>1 DEF Linking, Propagating, BeforeLink, AfterLink, Holds, Locked
  <2> QED BY <2>2 DEF IInv, Locks
<1> QED BY <1>1, Inductive, PTL

\* The lists have no loose end: uf_pick_from_list, which goes two entries at a
\* time, never comes to entry 0 (unionfind.c, uf_pick_from_list).
THEOREM NoLooseEnd == Spec => []ListClosed
<1>1. IInv => ListClosed
  <2> SUFFICES ASSUME IInv
               PROVE  ListClosed
        OBVIOUS
  <2>1. \A t \in Thread : PickOK(pc[t], loc[t])
        BY DEF IInv, LocalOK
  <2>2. 0 \notin State
        BY NAssumption DEF State
  <2> QED BY Zenon, <2>1, <2>2
          DEF ListClosed, IInv, Lists, PickOK, Outer, InFind, InPick
<1> QED BY <1>1, Inductive, PTL

\* A state that has got a parent is never a representative again: the answer of
\* uf_find can become stale, but the stale root is never a root again
\* (unionfind.c, uf_find and uf_union).
NeverRootAgain == [][\A s \in State : parent[s] # 0 => parent'[s] # 0]_vars

THEOREM OnceChild == Spec => NeverRootAgain
<1>1. IInv /\ [Next]_vars =>
         [\A s \in State : parent[s] # 0 => parent'[s] # 0]_vars
  <2> SUFFICES ASSUME IInv, Next, NEW s \in State, parent[s] # 0
               PROVE  parent'[s] # 0
        BY DEF Next
  <2>1. ASSUME NEW t \in Thread, Call(t)
        PROVE  parent'[s] # 0
    <3>1. PICK m, p : Enter(t, m, p)
          BY <2>1, CallStarts
    <3> QED BY <3>1 DEF Enter, forest
  <2>2. ASSUME NEW t \in Thread, UFStep(t)
        PROVE  parent'[s] # 0
        BY <2>2, Stays
  <2>3. CASE Quiet
        BY <2>3 DEF Quiet, vars, ufvars, forest
  <2> QED BY <2>1, <2>2, <2>3 DEF Next, Step
<1> QED BY <1>1, Inductive, PTL DEF Spec, NeverRootAgain
=============================================================================
