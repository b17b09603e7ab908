---------------------------- MODULE UFSetsProofs ----------------------------
(***************************************************************************)
(* Proofs about the sets that the union-find structure stands for, for any *)
(* number of states and threads and any calls: every state has a root      *)
(* above it, the halving writes of uf_find, which take no lock, never      *)
(* change a set, and a union only joins two sets (SetsOnlyGrow).           *)
(***************************************************************************)
EXTENDS UnionFindProofs, WellFoundedInduction

\* s and u are states of one set, where g maps states to their roots.
Same(g, s, u) == s \in State /\ u \in State /\ g[s] = g[u]

\* Where uf_find returns to in the operations whose answers are about sets,
\* and the state it was asked about.
FindFrom == {"got", "same_a", "same_b", "union_a", "union_b"}
Arg(w, l) == IF w \in {"same_b", "union_b"} THEN l.b ELSE l.a

SameOp == {"same_a", "same_b", "same_check"}
Before == {"union_lock", "union_root", "union_retry"} \cup BeforeLink

\* What a thread at p with locals l knows about the sets: uf_find stays in the
\* set it was asked about, and uf_union has the representatives of its two
\* arguments, in some order, until it has joined them.
Knows(g, p, l) ==
    /\ p \in {"find_y", "find_write"} => Same(g, l.x, l.y)
    /\ p \in InFind /\ Where(p, l) \in FindFrom
          => Same(g, Arg(Where(p, l), l), l.x)
    /\ p \in FindFrom => Same(g, Arg(p, l), l.f)
    /\ p = "same_check" => Same(g, l.b, l.f)
    /\ Where(p, l) \in SameOp \cup {"union_a", "union_b"}
          => l.a \in State /\ l.b \in State
    /\ Where(p, l) \in {"same_b", "same_check", "union_b"}
          => Same(g, l.a, l.a_r)
    /\ Where(p, l) \in Before =>
          \/ Same(g, l.a, l.r) /\ Same(g, l.b, l.q)
          \/ Same(g, l.a, l.q) /\ Same(g, l.b, l.r)
    /\ Where(p, l) \in AfterLink => Same(g, l.a, l.b)

\* The inductive invariant.
SetsInv ==
    /\ IInv
    /\ \A t \in Thread : Knows(Root, pc[t], loc[t])

-----------------------------------------------------------------------------
(* Roots                                                                   *)

\* Every set of states that is not empty has a greatest element.
LEMMA Greatest ==
    ASSUME NEW T \in SUBSET State, T # {}
    PROVE  \E x \in T : \A y \in T : y <= x
<1> DEFINE V == {N - y : y \in T}
           L == OpToRel(<, Nat)
<1>1. IsWellFoundedOn(L, Nat)
      BY NatLessThanWellFounded, Zenon
<1>2. \A y \in T : y \in Int /\ N - y \in Nat
      BY NAssumption DEF State
<1>3. V \subseteq Nat /\ V # {}
      BY <1>2
<1>4. PICK v \in V : \A w \in V : ~ (<<w, v>> \in L)
      BY <1>1, <1>3, WFMin, Zenon
<1>5. PICK x \in T : v = N - x
      OBVIOUS
<1>6. ASSUME NEW y \in T PROVE y <= x
  <2>1. N - y \in Nat /\ N - x \in Nat /\ N - y \in V
        BY <1>2
  <2>2. ~ (N - y < N - x)
        BY <2>1, <1>4, <1>5, Zenon DEF OpToRel
  <2> QED BY <2>2, <1>2, NAssumption
<1> QED BY <1>6

\* A forest: a parent has a higher number than its child.
Forest(p) ==
    /\ p \in [State -> Ref]
    /\ \A s \in State : p[s] # 0 => p[s] > s

\* g maps a state above n to its root.
RootsAbove(g, p, n) ==
    /\ g \in [State -> State]
    /\ \A s \in State : s > n => g[s] = IF p[s] = 0 THEN s ELSE g[p[s]]

LEMMA Above ==
    ASSUME NEW p, Forest(p)
    PROVE  \A s \in State : p[s] # 0 => p[s] \in State /\ p[s] > s
    BY NAssumption DEF Forest, State, Ref

LEMMA OneMore ==
    ASSUME NEW p, Forest(p), NEW n \in State, NEW g, RootsAbove(g, p, n)
    PROVE  \E h : RootsAbove(h, p, n - 1)
<1> DEFINE h == [g EXCEPT ![n] = IF p[n] = 0 THEN n ELSE g[p[n]]]
<1>1. h \in [State -> State]
      BY Above DEF RootsAbove
<1>2. ASSUME NEW s \in State, s > n - 1
      PROVE  h[s] = IF p[s] = 0 THEN s ELSE h[p[s]]
  <2>1. s \in Int /\ n \in Int
        BY NAssumption DEF State
  <2>2. p[s] # 0 => p[s] \in State /\ p[s] \in Int /\ p[s] > s
        BY Above, NAssumption DEF State
  <2>3. p[s] # 0 => p[s] # n
        BY <1>2, <2>1, <2>2
  <2>4. CASE s = n
        BY <2>2, <2>3, <2>4 DEF RootsAbove
  <2>5. CASE s # n
        BY <1>2, <2>1, <2>2, <2>3, <2>5 DEF RootsAbove
  <2> QED BY <2>4, <2>5
<1> HIDE DEF h
<1> QED BY <1>1, <1>2 DEF RootsAbove

LEMMA RootsExist ==
    ASSUME NEW p, Forest(p)
    PROVE  \E g : RootsAbove(g, p, 0)
<1> DEFINE Good(n) == \E g : RootsAbove(g, p, n)
           Bad == {n \in State : ~ Good(n)}
<1>1. Good(N)
  <2>1. [s \in State |-> s] \in [State -> State]
        OBVIOUS
  <2>2. \A s \in State : ~ (s > N)
        BY NAssumption DEF State
  <2> QED BY <2>1, <2>2, Zenon DEF RootsAbove
<1>2. \A n \in State : Good(n) => Good(n - 1)
      BY OneMore
<1> HIDE DEF Good
<1>3. \A n \in State : Good(n)
  <2> SUFFICES ASSUME Bad # {} PROVE FALSE
        OBVIOUS
  <2>1. Bad \in SUBSET State
        OBVIOUS
  <2>2. PICK n \in Bad : \A k \in Bad : k <= n
        BY <2>1, Greatest, Zenon
  <2>3. n # N
        BY <1>1
  <2>4. n + 1 \in State /\ (n + 1) - 1 = n /\ ~ (n + 1 <= n)
        BY <2>3, NAssumption DEF State
  <2>5. Good(n + 1)
        BY <2>2, <2>4
  <2>6. Good((n + 1) - 1)
        BY <1>2, <2>4, <2>5
  <2> QED BY <2>4, <2>6
<1>4. 1 \in State /\ 1 - 1 = 0
      BY NAssumption DEF State
<1>5. Good(1 - 1)
      BY <1>2, <1>3, <1>4
<1> QED BY <1>4, <1>5 DEF Good

\* g maps each state to its root.
Roots(g, p) == g = [s \in State |-> IF p[s] = 0 THEN s ELSE g[p[s]]]

LEMMA RootsAreRoots ==
    ASSUME NEW p, Forest(p)
    PROVE  \E g : Roots(g, p)
<1>1. PICK g : RootsAbove(g, p, 0)
      BY RootsExist
<1>2. \A s \in State : s > 0
      BY NAssumption DEF State
<1>3. g = [s \in State |-> IF p[s] = 0 THEN s ELSE g[p[s]]]
      BY <1>1, <1>2 DEF RootsAbove
<1> QED BY <1>3 DEF Roots

\* The recursive definition of Root has a solution, before and after a step.
LEMMA RootDef ==
    ASSUME Forest(parent)
    PROVE  Roots(Root, parent)
<1>1. PICK g : Roots(g, parent)
      BY RootsAreRoots
<1> QED BY <1>1, Zenon DEF Root, Roots

LEMMA RootDefNext ==
    ASSUME Forest(parent')
    PROVE  Roots(Root', parent')
<1>1. PICK g : Roots(g, parent')
      BY RootsAreRoots
<1> QED BY <1>1, Zenon DEF Root, Roots

\* The root of a state has no parent and no lower number than the state.
LEMMA RootFacts ==
    ASSUME NEW p, Forest(p), NEW g, Roots(g, p), NEW s \in State
    PROVE  /\ g[s] \in State /\ p[g[s]] = 0 /\ g[s] >= s
           /\ p[s] = 0 => g[s] = s
           /\ p[s] # 0 => p[s] \in State /\ p[s] > s /\ g[s] = g[p[s]]
<1> DEFINE Ok(u) == g[u] \in State /\ p[g[u]] = 0 /\ g[u] >= u
           Bad == {u \in State : ~ Ok(u)}
<1>1. \A u \in State : /\ p[u] = 0 => g[u] = u
                       /\ p[u] # 0 => /\ p[u] \in State /\ p[u] > u
                                      /\ g[u] = g[p[u]]
      BY Above DEF Roots
<1>2. \A u \in State : u \in Int
      BY NAssumption DEF State
<1>3. Bad = {}
  <2> SUFFICES ASSUME Bad # {} PROVE FALSE
        OBVIOUS
  <2>1. PICK u \in Bad : \A k \in Bad : k <= u
        BY Greatest, Bad \in SUBSET State, Zenon
  <2>2. CASE p[u] = 0
        BY <2>2, <1>1, <1>2
  <2>3. CASE p[u] # 0
    <3>1. p[u] \in State /\ p[u] > u /\ g[u] = g[p[u]]
          BY <2>3, <1>1
    <3>2. Ok(p[u])
          BY <2>1, <3>1, <1>2
    <3> QED BY <3>1, <3>2, <1>2
  <2> QED BY <2>2, <2>3
<1> QED BY <1>1, <1>3

\* A halving write: x, which has a parent, gets another parent of its set.
\* No root changes.
LEMMA Halving ==
    ASSUME NEW p, Forest(p), NEW g, Roots(g, p),
           NEW x \in State, NEW z \in State, p[x] # 0, z > x, g[x] = g[z],
           NEW h, Roots(h, [p EXCEPT ![x] = z])
    PROVE  \A s \in State : h[s] = g[s]
<1> DEFINE k == [p EXCEPT ![x] = z]
           Bad == {s \in State : h[s] # g[s]}
<1>1. z \in Ref /\ z # 0
      BY NAssumption DEF State, Ref
<1>2. Forest(k)
      BY <1>1 DEF Forest
<1>a. Roots(h, k)
      OBVIOUS
<1>b. k \in [State -> Ref] /\ k[x] = z /\ \A s \in State : s # x => k[s] = p[s]
      BY <1>1 DEF Forest
<1> HIDE DEF k
<1>c. \A s \in State : /\ p[s] = 0 => g[s] = s
                       /\ p[s] # 0 => /\ p[s] \in State /\ p[s] > s
                                      /\ g[s] = g[p[s]]
      BY RootFacts
<1>d. \A s \in State : /\ k[s] = 0 => h[s] = s
                       /\ k[s] # 0 => h[s] = h[k[s]]
      BY <1>2, <1>a, RootFacts
<1>3. Bad = {}
  <2> SUFFICES ASSUME Bad # {} PROVE FALSE
        OBVIOUS
  <2>1. PICK s \in Bad : \A u \in Bad : u <= s
        BY Greatest, Bad \in SUBSET State, Zenon
  <2>2. \A u \in State : u \in Int
        BY NAssumption DEF State
  <2>3. \A u \in State : u > s => h[u] = g[u]
        BY <2>1, <2>2
  <2>4. CASE s = x
    <3>1. h[x] = h[z]
          BY <1>1, <1>b, <1>d
    <3> QED BY <3>1, <2>1, <2>3, <2>4
  <2>5. CASE s # x
    <3>1. k[s] = p[s]
          BY <2>5, <1>b
    <3> QED BY <3>1, <2>1, <2>3, <1>c, <1>d
  <2> QED BY <2>4, <2>5
<1> QED BY <1>3

\* A link: the root q becomes a child of r.  The states below q get the root
\* of r, all others keep theirs.
LEMMA Linked ==
    ASSUME NEW p, Forest(p), NEW g, Roots(g, p),
           NEW q \in State, NEW r \in State, p[q] = 0, r > q,
           NEW h, Roots(h, [p EXCEPT ![q] = r])
    PROVE  \A s \in State : h[s] = IF g[s] = q THEN g[r] ELSE g[s]
<1> DEFINE k == [p EXCEPT ![q] = r]
           Ok(s) == h[s] = IF g[s] = q THEN g[r] ELSE g[s]
           Bad == {s \in State : ~ Ok(s)}
<1>1. r \in Ref /\ r # 0
      BY NAssumption DEF State, Ref
<1>2. Forest(k)
      BY <1>1 DEF Forest
<1>a. Roots(h, k)
      OBVIOUS
<1>b. k \in [State -> Ref] /\ k[q] = r /\ \A s \in State : s # q => k[s] = p[s]
      BY <1>1 DEF Forest
<1> HIDE DEF k
<1>c. \A s \in State : /\ p[s] = 0 => g[s] = s
                       /\ p[s] # 0 => /\ p[s] \in State /\ p[s] > s
                                      /\ g[s] = g[p[s]]
      BY RootFacts
<1>d. \A s \in State : /\ k[s] = 0 => h[s] = s
                       /\ k[s] # 0 => h[s] = h[k[s]]
      BY <1>2, <1>a, RootFacts
<1>3. \A u \in State : u \in Int
      BY NAssumption DEF State
<1>4. g[r] # q /\ g[q] = q
      BY <1>3, RootFacts
<1>5. Bad = {}
  <2> SUFFICES ASSUME Bad # {} PROVE FALSE
        OBVIOUS
  <2>1. PICK s \in Bad : \A u \in Bad : u <= s
        BY Greatest, Bad \in SUBSET State, Zenon
  <2>2. \A u \in State : u > s => Ok(u)
        BY <2>1, <1>3
  <2>3. CASE s = q
    <3>1. h[q] = h[r]
          BY <1>1, <1>b, <1>d
    <3>2. h[r] = g[r]
          BY <2>2, <2>3, <1>4
    <3> QED BY <3>1, <3>2, <2>1, <2>3, <1>4
  <2>4. CASE s # q
    <3>1. k[s] = p[s]
          BY <2>4, <1>b
    <3>2. CASE p[s] = 0
      <4>1. h[s] = s /\ g[s] = s
            BY <3>1, <3>2, <1>c, <1>d
      <4> QED BY <4>1, <2>1, <2>4
    <3>3. CASE p[s] # 0
      <4>1. /\ p[s] \in State /\ p[s] > s
            /\ h[s] = h[p[s]] /\ g[s] = g[p[s]]
            BY <3>1, <3>3, <1>c, <1>d
      <4> QED BY <4>1, <2>1, <2>2
    <3> QED BY <3>2, <3>3
  <2> QED BY <2>3, <2>4
<1> QED BY <1>5

-----------------------------------------------------------------------------
(* The steps that know nothing new                                         *)

\* A step from p and locals l to q and locals m that does not belong to uf_find
\* or uf_sameset and learns nothing about the sets: it stays on its side of
\* the link of uf_union, or the operation returns.
Plain(p, l, q, m) ==
    /\ {Where(p, l), Where(q, m), q} \cap (FindFrom \cup {"same_check"}) = {}
    /\ q \notin {"find_y", "find_write"}
    /\ Where(q, m) # "union_lock"
    /\ Where(q, m) \in Before \cup AfterLink => m.a = l.a /\ m.b = l.b
    /\ Where(q, m) \in Before => /\ Where(p, l) \in Before
                                 /\ m.r = l.r /\ m.q = l.q
    /\ Where(q, m) \in AfterLink => Where(p, l) \in AfterLink
    /\ Where(p, l) \in Before \cup AfterLink =>
          \/ Where(q, m) \in Before \cup AfterLink
          \/ q = "ready" /\ (m.v <=> Where(p, l) \in AfterLink)

\* The steps that are not plain.
Learns(t) ==
    \/ FindX(t) \/ FindY(t) \/ FindWrite(t) \/ Got(t)
    \/ SameA(t) \/ SameB(t) \/ SameCheck(t) \/ UnionA(t) \/ UnionB(t)
    \/ UnionLock(t) \/ UnionRetry(t) \/ UnionLink(t)

\* A place in an operation that is not about sets.
Aside(w) == w \notin FindFrom \cup {"same_check"} \cup Before \cup AfterLink

LEMMA ReadyPlain ==
    ASSUME NEW p, NEW l, NEW m, m.pret = "", Aside(Where(p, l))
    PROVE  Plain(p, l, "ready", m)
<1>1. Where("ready", m) = "ready"
      BY Zenon DEF Where, Outer, InFind
<1> QED
      BY Zenon, <1>1
      DEF Plain, Aside, FindFrom, Before, BeforeLink, AfterLink

LEMMA PlainStep ==
    ASSUME IInv, NEW t \in Thread, UFStep(t), ~Learns(t)
    PROVE  Plain(pc[t], loc[t], pc'[t], loc'[t])
<1>a. loc \in [Thread -> Local] /\ pc \in [Thread -> Label] /\ loc[t] \in Local
      BY DEF IInv, Typed
<1>b. PickOK(pc[t], loc[t])
      BY DEF IInv, LocalOK
<1> USE DEF Where, Outer, PickOK, InFind, InPick, FindFrom, Before,
            BeforeLink, AfterLink, Local, PickReturn, Goto, Assign
<1>1. CASE PickA(t)
  <2>1. CASE list_status[loc[t].pa] = "LIST_LIVE"
    <3> DEFINE m == [loc[t] EXCEPT !.code = "PICK_SUCCESS", !.ret =
                    loc[t].pa, !.pa = 0, !.pb = 0, !.pn = 0, !.pret = "", !.v
                    = FALSE]
    <3>1. loc'[t] = m /\ pc'[t] = loc[t].pret
          BY Zenon, <1>1, <2>1, <1>a DEF PickA, PickResult, Goto, Assign
    <3>2. Plain(pc[t], loc[t], loc[t].pret, m)
          BY Zenon, <1>1, <1>a, <1>b DEF PickA, Plain
    <3> QED BY Zenon, <3>1, <3>2
  <2>2. CASE ~ (list_status[loc[t].pa] = "LIST_LIVE")
        BY Zenon, <1>1, <2>2, <1>a, <1>b DEF Plain, PickA, PickResult
  <2> QED BY <2>1, <2>2
<1>2. CASE PickNext(t)
  <2>1. CASE list_next[loc[t].pa] = loc[t].pa \/ list_next[loc[t].pa] = 0
    <3> DEFINE m == [loc[t] EXCEPT !.x = loc[t].pa, !.fret = "dead"]
    <3>1. loc'[t] = m /\ pc'[t] = "find"
          BY Zenon, <1>2, <2>1, <1>a DEF PickNext, Find, Goto, Assign
    <3>2. Plain(pc[t], loc[t], "find", m)
          BY Zenon, <1>2, <1>a, <1>b DEF PickNext, Plain
    <3> QED BY Zenon, <3>1, <3>2
  <2>2. CASE ~ (list_next[loc[t].pa] = loc[t].pa \/ list_next[loc[t].pa] = 0)
    <3> DEFINE m == [loc[t] EXCEPT !.pb = list_next[loc[t].pa]]
    <3>1. loc'[t] = m /\ pc'[t] = "pick_b"
          BY Zenon, <1>2, <2>2, <1>a DEF PickNext, Find, Goto, Assign
    <3>2. Plain(pc[t], loc[t], "pick_b", m)
          BY Zenon, <1>2, <1>a, <1>b DEF PickNext, Plain
    <3> QED BY Zenon, <3>1, <3>2
  <2> QED BY <2>1, <2>2
<1>3. CASE PickB(t)
  <2>1. CASE list_status[loc[t].pb] = "LIST_LIVE"
    <3> DEFINE m == [loc[t] EXCEPT !.code = "PICK_SUCCESS", !.ret =
                    loc[t].pb, !.pa = 0, !.pb = 0, !.pn = 0, !.pret = "", !.v
                    = FALSE]
    <3>1. loc'[t] = m /\ pc'[t] = loc[t].pret
          BY Zenon, <1>3, <2>1, <1>a DEF PickB, PickResult, Goto, Assign
    <3>2. Plain(pc[t], loc[t], loc[t].pret, m)
          BY Zenon, <1>3, <1>a, <1>b DEF PickB, Plain
    <3> QED BY Zenon, <3>1, <3>2
  <2>2. CASE ~ (list_status[loc[t].pb] = "LIST_LIVE")
        BY Zenon, <1>3, <2>2, <1>a, <1>b DEF Plain, PickB, PickResult
  <2> QED BY <2>1, <2>2
<1>4. CASE PickC(t)
      BY Zenon, <1>4, <1>a, <1>b DEF Plain, PickC
<1>5. CASE PickWrite(t)
      BY Zenon, <1>5, <1>a, <1>b DEF Plain, PickWrite
<1>6. CASE MarkDead(t)
      BY Zenon, <1>6, <1>a, <1>b DEF Plain, MarkDead
<1>7. CASE MarkDeadCas(t)
      BY Zenon, <1>7, <1>a, <1>b DEF Plain, MarkDeadCas
<1>8. CASE MarkDeadRoot(t)
      BY Zenon, <1>8, <1>a, <1>b DEF Plain, MarkDeadRoot, Find
<1>9. CASE MarkDeadCheck(t)
      BY Zenon, <1>9, <1>a, <1>b DEF Plain, MarkDeadCheck, PickResult
<1>10. CASE Picked(t)
      BY Zenon, <1>10, <1>a, <1>b, NoLocalType
      DEF Plain, Picked, Return, ReturnCode, NoLocal
<1>11. CASE RemoveRead(t)
  <2>1. CASE list_status[loc[t].a] = "LIST_LIVE"
    <3>1. loc'[t] = loc[t] /\ pc'[t] = "remove_cas"
          BY Zenon, <1>11, <2>1, <1>a DEF RemoveRead, Return, ReturnBool,
             Goto, Assign
    <3>2. Plain(pc[t], loc[t], "remove_cas", loc[t])
          BY Zenon, <1>11, <1>a, <1>b DEF RemoveRead, Plain
    <3> QED BY Zenon, <3>1, <3>2
  <2>2. CASE ~ (list_status[loc[t].a] = "LIST_LIVE")
    <3> DEFINE m == [NoLocal EXCEPT !.v = FALSE]
    <3>1. loc'[t] = m /\ pc'[t] = "ready"
          BY Zenon, <1>11, <2>2, <1>a DEF RemoveRead, Return, ReturnBool,
             Goto, Assign
    <3>2. m.pret = ""
          BY Zenon, NoLocalType DEF NoLocal, Local
    <3>3. Aside(Where(pc[t], loc[t]))
          BY Zenon, <1>11, <1>b DEF RemoveRead, Aside
    <3> HIDE DEF m, Where
    <3> QED BY Zenon, <3>1, <3>2, <3>3, ReadyPlain
  <2> QED BY <2>1, <2>2
<1>12. CASE RemoveCas(t)
  <2>1. CASE list_status[loc[t].a] = "LIST_LIVE"
    <3> DEFINE m == [NoLocal EXCEPT !.v = TRUE]
    <3>1. loc'[t] = m /\ pc'[t] = "ready"
          BY Zenon, <1>12, <2>1, <1>a DEF RemoveCas, Return, ReturnBool,
             Goto, Assign
    <3>2. m.pret = ""
          BY Zenon, NoLocalType DEF NoLocal, Local
    <3>3. Aside(Where(pc[t], loc[t]))
          BY Zenon, <1>12, <1>b DEF RemoveCas, Aside
    <3> HIDE DEF m, Where
    <3> QED BY Zenon, <3>1, <3>2, <3>3, ReadyPlain
  <2>2. CASE ~ (list_status[loc[t].a] = "LIST_LIVE")
    <3>1. loc'[t] = loc[t] /\ pc'[t] = "remove"
          BY Zenon, <1>12, <2>2, <1>a DEF RemoveCas, Return, ReturnBool,
             Goto, Assign
    <3>2. Plain(pc[t], loc[t], "remove", loc[t])
          BY Zenon, <1>12, <1>a, <1>b DEF RemoveCas, Plain
    <3> QED BY Zenon, <3>1, <3>2
  <2> QED BY <2>1, <2>2
<1>13. CASE UnionRoot(t)
  <2>1. CASE parent[loc[t].q] = 0
    <3> DEFINE m == [loc[t] EXCEPT !.pa = loc[t].a, !.pret = "union_list_a"]
    <3>1. loc'[t] = m /\ pc'[t] = "pick_a"
          BY Zenon, <1>13, <2>1, <1>a DEF UnionRoot, Pick, Goto, Assign
    <3>2. Plain(pc[t], loc[t], "pick_a", m)
          BY Zenon, <1>13, <1>a, <1>b DEF UnionRoot, Plain
    <3> QED BY Zenon, <3>1, <3>2
  <2>2. CASE ~ (parent[loc[t].q] = 0)
        BY ZenonT(40), <1>13, <2>2, <1>a, <1>b DEF Plain, UnionRoot, Pick
  <2> QED BY <2>1, <2>2
<1>14. CASE UnionListA(t)
      BY Zenon, <1>14, <1>a, <1>b DEF Plain, UnionListA
<1>15. CASE UnionCasA(t)
  <2>1. CASE list_status[loc[t].ret] = "LIST_LIVE"
    <3> DEFINE m == [loc[t] EXCEPT !.a_l = loc[t].ret, !.pa = loc[t].b,
                    !.pret = "union_list_b"]
    <3>1. loc'[t] = m /\ pc'[t] = "pick_a"
          BY Zenon, <1>15, <2>1, <1>a DEF UnionCasA, Pick, Goto, Assign
    <3>2. Plain(pc[t], loc[t], "pick_a", m)
          BY Zenon, <1>15, <1>a, <1>b DEF UnionCasA, Plain
    <3> QED BY Zenon, <3>1, <3>2
  <2>2. CASE ~ (list_status[loc[t].ret] = "LIST_LIVE")
    <3> DEFINE m == [loc[t] EXCEPT !.pa = loc[t].a, !.pret = "union_list_a"]
    <3>1. loc'[t] = m /\ pc'[t] = "pick_a"
          BY Zenon, <1>15, <2>2, <1>a DEF UnionCasA, Pick, Goto, Assign
    <3>2. Plain(pc[t], loc[t], "pick_a", m)
          BY Zenon, <1>15, <1>a, <1>b DEF UnionCasA, Plain
    <3> QED BY Zenon, <3>1, <3>2
  <2> QED BY <2>1, <2>2
<1>16. CASE UnionListB(t)
      BY Zenon, <1>16, <1>a, <1>b DEF Plain, UnionListB
<1>17. CASE UnionCasB(t)
  <2>1. CASE list_status[loc[t].ret] = "LIST_LIVE"
    <3> DEFINE m == [loc[t] EXCEPT !.b_l = loc[t].ret]
    <3>1. loc'[t] = m /\ pc'[t] = "union_swap"
          BY Zenon, <1>17, <2>1, <1>a DEF UnionCasB, Pick, Goto, Assign
    <3>2. Plain(pc[t], loc[t], "union_swap", m)
          BY Zenon, <1>17, <1>a, <1>b DEF UnionCasB, Plain
    <3> QED BY Zenon, <3>1, <3>2
  <2>2. CASE ~ (list_status[loc[t].ret] = "LIST_LIVE")
    <3> DEFINE m == [loc[t] EXCEPT !.pa = loc[t].b, !.pret = "union_list_b"]
    <3>1. loc'[t] = m /\ pc'[t] = "pick_a"
          BY Zenon, <1>17, <2>2, <1>a DEF UnionCasB, Pick, Goto, Assign
    <3>2. Plain(pc[t], loc[t], "pick_a", m)
          BY Zenon, <1>17, <1>a, <1>b DEF UnionCasB, Plain
    <3> QED BY Zenon, <3>1, <3>2
  <2> QED BY <2>1, <2>2
<1>18. CASE UnionUnlist(t)
      BY Zenon, <1>18, <1>a, <1>b DEF Plain, UnionUnlist
<1>19. CASE UnionFail(t)
      BY Zenon, <1>19, <1>a, <1>b, NoLocalType
      DEF Plain, UnionFail, Return, ReturnBool, NoLocal
<1>20. CASE UnionSwap(t)
      BY Zenon, <1>20, <1>a, <1>b DEF Plain, UnionSwap
<1>21. CASE UnionAccR(t)
      BY Zenon, <1>21, <1>a, <1>b DEF Plain, UnionAccR
<1>22. CASE UnionAccQ(t)
      BY Zenon, <1>22, <1>a, <1>b DEF Plain, UnionAccQ
<1>23. CASE UnionOrAcc(t)
      BY Zenon, <1>23, <1>a, <1>b DEF Plain, UnionOrAcc
<1>24. CASE UnionUpAcc(t)
  <2>1. CASE parent[loc[t].r] # 0
    <3> DEFINE m == [loc[t] EXCEPT !.x = loc[t].r, !.fret = "union_acc"]
    <3>1. loc'[t] = m /\ pc'[t] = "find"
          BY Zenon, <1>24, <2>1, <1>a DEF UnionUpAcc, Find, Goto, Assign
    <3>2. Plain(pc[t], loc[t], "find", m)
          BY Zenon, <1>24, <1>a, <1>b DEF UnionUpAcc, Plain
    <3> QED BY Zenon, <3>1, <3>2
  <2>2. CASE ~ (parent[loc[t].r] # 0)
        BY ZenonT(40), <1>24, <2>2, <1>a, <1>b DEF Plain, UnionUpAcc, Find
  <2> QED BY <2>1, <2>2
<1>25. CASE UnionAcc(t)
      BY Zenon, <1>25, <1>a, <1>b DEF Plain, UnionAcc
<1>26. CASE UnionSetQ(t)
      BY Zenon, <1>26, <1>a, <1>b DEF Plain, UnionSetQ
<1>27. CASE UnionSetR(t)
      BY Zenon, <1>27, <1>a, <1>b DEF Plain, UnionSetR
<1>28. CASE UnionOrSet(t)
      BY Zenon, <1>28, <1>a, <1>b DEF Plain, UnionOrSet
<1>29. CASE UnionUpSet(t)
  <2>1. CASE parent[loc[t].r] # 0
    <3> DEFINE m == [loc[t] EXCEPT !.x = loc[t].r, !.fret = "union_set"]
    <3>1. loc'[t] = m /\ pc'[t] = "find"
          BY Zenon, <1>29, <2>1, <1>a DEF UnionUpSet, Find, Goto, Assign
    <3>2. Plain(pc[t], loc[t], "find", m)
          BY Zenon, <1>29, <1>a, <1>b DEF UnionUpSet, Plain
    <3> QED BY Zenon, <3>1, <3>2
  <2>2. CASE ~ (parent[loc[t].r] # 0)
        BY ZenonT(40), <1>29, <2>2, <1>a, <1>b DEF Plain, UnionUpSet, Find
  <2> QED BY <2>1, <2>2
<1>30. CASE UnionSet(t)
      BY Zenon, <1>30, <1>a, <1>b DEF Plain, UnionSet
<1>31. CASE UnionUnlistA(t)
      BY Zenon, <1>31, <1>a, <1>b DEF Plain, UnionUnlistA
<1>32. CASE UnionUnlistB(t)
      BY Zenon, <1>32, <1>a, <1>b DEF Plain, UnionUnlistB
<1>33. CASE UnionUnlock(t)
      BY Zenon, <1>33, <1>a, <1>b, NoLocalType
      DEF Plain, UnionUnlock, Return, ReturnBool, NoLocal
<1>34. CASE Claim(t)
  <2>1. CASE uf_status[loc[t].f] = "UF_DEAD"
    <3> DEFINE m == [NoLocal EXCEPT !.code = "CLAIM_DEAD", !.ret = 0]
    <3>1. loc'[t] = m /\ pc'[t] = "ready"
          BY Zenon, <1>34, <2>1, <1>a DEF Claim, Return, ReturnCode, Goto,
             Assign
    <3>2. m.pret = ""
          BY Zenon, NoLocalType DEF NoLocal, Local
    <3>3. Aside(Where(pc[t], loc[t]))
          BY Zenon, <1>34, <1>b DEF Claim, Aside
    <3> HIDE DEF m, Where
    <3> QED BY Zenon, <3>1, <3>2, <3>3, ReadyPlain
  <2>2. CASE ~ (uf_status[loc[t].f] = "UF_DEAD")
    <3> DEFINE m == [loc[t] EXCEPT !.r = loc[t].f]
    <3>1. loc'[t] = m /\ pc'[t] = "claim_found"
          BY Zenon, <1>34, <2>2, <1>a DEF Claim, Return, ReturnCode, Goto,
             Assign
    <3>2. Plain(pc[t], loc[t], "claim_found", m)
          BY Zenon, <1>34, <1>a, <1>b DEF Claim, Plain
    <3> QED BY Zenon, <3>1, <3>2
  <2> QED BY <2>1, <2>2
<1>35. CASE ClaimFound(t)
  <2>1. CASE t \in p_set[loc[t].r]
    <3> DEFINE m == [NoLocal EXCEPT !.code = "CLAIM_FOUND", !.ret = 0]
    <3>1. loc'[t] = m /\ pc'[t] = "ready"
          BY Zenon, <1>35, <2>1, <1>a DEF ClaimFound, Return, ReturnCode,
             Goto, Assign
    <3>2. m.pret = ""
          BY Zenon, NoLocalType DEF NoLocal, Local
    <3>3. Aside(Where(pc[t], loc[t]))
          BY Zenon, <1>35, <1>b DEF ClaimFound, Aside
    <3> HIDE DEF m, Where
    <3> QED BY Zenon, <3>1, <3>2, <3>3, ReadyPlain
  <2>2. CASE ~ (t \in p_set[loc[t].r])
    <3>1. loc'[t] = loc[t] /\ pc'[t] = "claim_or"
          BY Zenon, <1>35, <2>2, <1>a DEF ClaimFound, Return, ReturnCode,
             Goto, Assign
    <3>2. Plain(pc[t], loc[t], "claim_or", loc[t])
          BY Zenon, <1>35, <1>a, <1>b DEF ClaimFound, Plain
    <3> QED BY Zenon, <3>1, <3>2
  <2> QED BY <2>1, <2>2
<1>36. CASE ClaimOr(t)
      BY Zenon, <1>36, <1>a, <1>b DEF Plain, ClaimOr
<1>37. CASE ClaimUp(t)
  <2>1. CASE parent[loc[t].r] # 0
    <3> DEFINE m == [loc[t] EXCEPT !.x = loc[t].r, !.fret = "claim_set"]
    <3>1. loc'[t] = m /\ pc'[t] = "find"
          BY Zenon, <1>37, <2>1, <1>a DEF ClaimUp, Find, Return, ReturnCode,
             Goto, Assign
    <3>2. Plain(pc[t], loc[t], "find", m)
          BY Zenon, <1>37, <1>a, <1>b DEF ClaimUp, Plain
    <3> QED BY Zenon, <3>1, <3>2
  <2>2. CASE ~ (parent[loc[t].r] # 0)
    <3> DEFINE m == [NoLocal EXCEPT !.code = IF loc[t].first THEN
                    "CLAIM_FIRST" ELSE "CLAIM_SUCCESS", !.ret = 0]
    <3>1. loc'[t] = m /\ pc'[t] = "ready"
          BY Zenon, <1>37, <2>2, <1>a DEF ClaimUp, Find, Return, ReturnCode,
             Goto, Assign
    <3>2. m.pret = ""
          BY Zenon, NoLocalType DEF NoLocal, Local
    <3>3. Aside(Where(pc[t], loc[t]))
          BY Zenon, <1>37, <1>b DEF ClaimUp, Aside
    <3> HIDE DEF m, Where
    <3> QED BY Zenon, <3>1, <3>2, <3>3, ReadyPlain
  <2> QED BY <2>1, <2>2
<1>38. CASE ClaimSet(t)
      BY Zenon, <1>38, <1>a, <1>b DEF Plain, ClaimSet
<1>39. CASE Acc(t)
  <2>1. CASE loc[t].bits \subseteq acc_set[loc[t].f]
    <3> DEFINE m == [NoLocal EXCEPT !.bits = acc_set[loc[t].f]]
    <3>1. loc'[t] = m /\ pc'[t] = "ready"
          BY Zenon, <1>39, <2>1, <1>a DEF Acc, Return, ReturnBits, Goto,
             Assign
    <3>2. m.pret = ""
          BY Zenon, NoLocalType DEF NoLocal, Local
    <3>3. Aside(Where(pc[t], loc[t]))
          BY Zenon, <1>39, <1>b DEF Acc, Aside
    <3> HIDE DEF m, Where
    <3> QED BY Zenon, <3>1, <3>2, <3>3, ReadyPlain
  <2>2. CASE ~ (loc[t].bits \subseteq acc_set[loc[t].f])
    <3>1. loc'[t] = loc[t] /\ pc'[t] = "acc_or"
          BY Zenon, <1>39, <2>2, <1>a DEF Acc, Return, ReturnBits, Goto,
             Assign
    <3>2. Plain(pc[t], loc[t], "acc_or", loc[t])
          BY Zenon, <1>39, <1>a, <1>b DEF Acc, Plain
    <3> QED BY Zenon, <3>1, <3>2
  <2> QED BY <2>1, <2>2
<1>40. CASE AccOr(t)
      BY Zenon, <1>40, <1>a, <1>b DEF Plain, AccOr
<1>41. CASE AccUp(t)
  <2>1. CASE parent[loc[t].r] # 0
    <3> DEFINE m == [loc[t] EXCEPT !.x = loc[t].a, !.fret = "acc"]
    <3>1. loc'[t] = m /\ pc'[t] = "find"
          BY Zenon, <1>41, <2>1, <1>a DEF AccUp, Find, Return, ReturnBits,
             Goto, Assign
    <3>2. Plain(pc[t], loc[t], "find", m)
          BY Zenon, <1>41, <1>a, <1>b DEF AccUp, Plain
    <3> QED BY Zenon, <3>1, <3>2
  <2>2. CASE ~ (parent[loc[t].r] # 0)
    <3> DEFINE m == [NoLocal EXCEPT !.bits = loc[t].seen]
    <3>1. loc'[t] = m /\ pc'[t] = "ready"
          BY Zenon, <1>41, <2>2, <1>a DEF AccUp, Find, Return, ReturnBits,
             Goto, Assign
    <3>2. m.pret = ""
          BY Zenon, NoLocalType DEF NoLocal, Local
    <3>3. Aside(Where(pc[t], loc[t]))
          BY Zenon, <1>41, <1>b DEF AccUp, Aside
    <3> HIDE DEF m, Where
    <3> QED BY Zenon, <3>1, <3>2, <3>3, ReadyPlain
  <2> QED BY <2>1, <2>2
<1> QED
      BY Zenon, <1>1, <1>2, <1>3, <1>4, <1>5, <1>6, <1>7, <1>8, <1>9, <1>10,
         <1>11, <1>12, <1>13, <1>14, <1>15, <1>16, <1>17, <1>18, <1>19,
         <1>20, <1>21, <1>22, <1>23, <1>24, <1>25, <1>26, <1>27, <1>28,
         <1>29, <1>30, <1>31, <1>32, <1>33, <1>34, <1>35, <1>36, <1>37,
         <1>38, <1>39, <1>40, <1>41 DEF UFStep, Learns

-----------------------------------------------------------------------------
(* The sets only grow                                                      *)

\* Whoever is in one set stays in one set.
Coarser(g, h) == \A s, u \in State : g[s] = g[u] => h[s] = h[u]

LEMMA IsForest == IInv => Forest(parent)
    BY DEF IInv, Typed, ParentHigher, Forest

LEMMA IsForestNext ==
    ASSUME IInv, NEW t \in Thread, UFStep(t)
    PROVE  Forest(parent')
<1>1. Typed' /\ ParentHigher'
      BY TypeStep, ForestStep
<1> QED BY <1>1 DEF Typed, ParentHigher, Forest

\* The write of uf_find changes no root.
LEMMA FindWriteRoots ==
    ASSUME IInv, NEW t \in Thread, FindWrite(t), UFStep(t),
           Knows(Root, pc[t], loc[t])
    PROVE  \A s \in State : Root'[s] = Root[s]
<1> DEFINE x == loc[t].x
           y == loc[t].y
<1>1. x \in State /\ y \in State /\ x < y /\ parent[x] # 0
      BY Here
<1>2. Root[x] = Root[y]
      BY Zenon DEF FindWrite, Knows, Same
<1>3. parent' = [parent EXCEPT ![x] = y]
      BY DEF FindWrite
<1>4. Forest(parent) /\ Roots(Root, parent)
      BY IsForest, RootDef
<1>5. Roots(Root', [parent EXCEPT ![x] = y])
      BY <1>3, IsForestNext, RootDefNext, Zenon
<1>6. y > x
      BY <1>1, NAssumption DEF State
<1> HIDE DEF x, y
<1> QED BY <1>1, <1>2, <1>4, <1>5, <1>6, Halving

\* The write of uf_union joins the set of its q to the one of its r.
LEMMA LinkRoots ==
    ASSUME IInv, NEW t \in Thread, UnionLink(t), UFStep(t)
    PROVE  /\ loc[t].q \in State /\ loc[t].r \in State
           /\ Root[loc[t].q] = loc[t].q
           /\ \A s \in State : Root'[s] = IF Root[s] = loc[t].q
                                          THEN Root[loc[t].r] ELSE Root[s]
<1> DEFINE q == loc[t].q
           r == loc[t].r
<1>1. q \in State /\ r \in State /\ q < r
      BY Here
<1>2. parent[q] = 0
  <2>1. Where(pc[t], loc[t]) \in BeforeLink
    <3>1. PickOK(pc[t], loc[t])
          BY DEF IInv, LocalOK
    <3> QED BY Zenon, <3>1
            DEF UnionLink, PickOK, Where, Outer, InFind, InPick, BeforeLink
  <2> QED BY <2>1 DEF IInv, Locks
<1>3. parent' = [parent EXCEPT ![q] = r]
      BY DEF UnionLink
<1>4. Forest(parent) /\ Roots(Root, parent)
      BY IsForest, RootDef
<1>5. Roots(Root', [parent EXCEPT ![q] = r])
      BY <1>3, IsForestNext, RootDefNext, Zenon
<1>6. r > q
      BY <1>1, NAssumption DEF State
<1> HIDE DEF q, r
<1>7. Root[q] = q
      BY <1>1, <1>2, <1>4, RootFacts
<1>8. \A s \in State : Root'[s] = IF Root[s] = q THEN Root[r] ELSE Root[s]
      BY <1>1, <1>2, <1>4, <1>5, <1>6, Linked
<1> QED BY <1>1, <1>7, <1>8 DEF q, r

LEMMA SameParent ==
    ASSUME parent' = parent
    PROVE  Root' = Root
    BY DEF Root

\* Every step of an operation only makes sets larger.
LEMMA SetsStep ==
    ASSUME IInv, NEW t \in Thread, UFStep(t), Knows(Root, pc[t], loc[t])
    PROVE  Coarser(Root, Root')
<1>1. CASE FindWrite(t)
      BY <1>1, FindWriteRoots DEF Coarser
<1>2. CASE UnionLink(t)
      BY <1>2, LinkRoots DEF Coarser
<1>3. CASE parent' = parent
      BY <1>3, SameParent DEF Coarser
<1> QED BY <1>1, <1>2, <1>3, Writers

-----------------------------------------------------------------------------
(* What a thread knows stays true, and what it learns is                   *)

LEMMA KnowsMore ==
    ASSUME NEW g, NEW h, Coarser(g, h), NEW p, NEW l, Knows(g, p, l)
    PROVE  Knows(h, p, l)
<1>1. \A s, u : Same(g, s, u) => Same(h, s, u)
      BY DEF Coarser, Same
<1> QED BY Zenon, <1>1 DEF Knows

LEMMA PlainKnows ==
    ASSUME NEW g, NEW p, NEW l, NEW q, NEW m, Plain(p, l, q, m), Knows(g, p, l)
    PROVE  Knows(g, q, m)
<1>1. /\ Where(q, m) \notin FindFrom \cup {"same_check"}
      /\ q \notin FindFrom \cup {"same_check", "find_y", "find_write"}
      BY DEF Plain
<1>2. Where(q, m) \in Before =>
         \/ Same(g, m.a, m.r) /\ Same(g, m.b, m.q)
         \/ Same(g, m.a, m.q) /\ Same(g, m.b, m.r)
      BY Zenon DEF Plain, Knows
<1>3. Where(q, m) \in AfterLink => Same(g, m.a, m.b)
      BY Zenon DEF Plain, Knows
<1> QED BY Zenon, <1>1, <1>2, <1>3 DEF Knows, FindFrom, SameOp

LEMMA ReadyKnows ==
    ASSUME NEW g, NEW m, m.pret = ""
    PROVE  Knows(g, "ready", m)
<1>1. Where("ready", m) = "ready"
      BY Zenon DEF Where, Outer, InFind
<1> QED BY Zenon, <1>1
        DEF Knows, InFind, FindFrom, SameOp, Before, BeforeLink, AfterLink

\* uf_find returns the root s, which is in the set of its x.
LEMMA FindReturnKnows ==
    ASSUME NEW l \in Local, NEW p \in InFind, NEW s, NEW g, FindOK(p, l),
           PickOK(p, l), Knows(g, p, l), Same(g, l.x, s), NEW m,
           m = [l EXCEPT !.f = s, !.x = 0, !.y = 0, !.fret = ""]
    PROVE  Knows(g, l.fret, m)
<1> DEFINE q == l.fret
<1>1. SameCall(l, m) /\ m.f = s
      BY Zenon DEF Local, SameCall
<1>2. q \in FindReturn \ {""}
      BY Zenon DEF FindOK, Local
<1>3. q \notin InFind \cup {"same_check"}
      BY Zenon, <1>2 DEF InFind, FindReturn
<1>4. Where(q, m) = Where(p, l)
      BY Zenon, <1>1, <1>3 DEF Where, Outer, SameCall
<1>5. q \in FindFrom => Where(p, l) = q
      BY Zenon DEF PickOK, Where, Outer, InPick, FindFrom
<1>6. q \in FindFrom => Same(g, Arg(q, m), m.f)
  <2> SUFFICES ASSUME q \in FindFrom
               PROVE  Same(g, Arg(q, m), m.f)
        OBVIOUS
  <2>1. Same(g, Arg(q, l), l.x)
        BY <1>5 DEF Knows
  <2>2. Arg(q, m) = Arg(q, l)
        BY <1>1 DEF Arg, SameCall
  <2> QED BY <2>1, <2>2, <1>1 DEF Same
<1> HIDE DEF q
<1>7. Knows(g, q, m)
      BY Zenon, <1>1, <1>3, <1>4, <1>6 DEF Knows, SameCall, InFind
<1> QED BY <1>7 DEF q

\* uf_find goes on from a state of the same set.
LEMMA FindGoesOnKnows ==
    ASSUME NEW l, NEW m, NEW p \in InFind, NEW q \in InFind, NEW g,
           SameCall(l, m), m.fret = l.fret, Knows(g, p, l), l.x \in State,
           Same(g, l.x, m.x), q # "find" => Same(g, m.x, m.y)
    PROVE  Knows(g, q, m)
<1>1. Where(q, m) = Where(p, l)
      BY Zenon DEF Where, Outer, SameCall
<1>2. Arg(Where(q, m), m) = Arg(Where(p, l), l)
      BY <1>1 DEF Arg, SameCall
<1>3. Where(p, l) \in FindFrom => Same(g, Arg(Where(q, m), m), m.x)
  <2>1. Where(p, l) \in FindFrom => Same(g, Arg(Where(p, l), l), l.x)
        BY DEF Knows
  <2> QED BY <2>1, <1>2 DEF Same
<1>4. q \notin FindFrom \cup {"same_check"}
      BY Zenon DEF InFind, FindFrom
<1> QED BY Zenon, <1>1, <1>3, <1>4 DEF Knows, SameCall, InFind

\* The steps of uf_find.
LEMMA FindKnows ==
    ASSUME IInv, NEW t \in Thread, FindX(t) \/ FindY(t) \/ FindWrite(t),
           Knows(Root, pc[t], loc[t])
    PROVE  Knows(Root, pc'[t], loc'[t])
<1> DEFINE l == loc[t]
<1>a. loc \in [Thread -> Local] /\ pc \in [Thread -> Label] /\ l \in Local
      BY DEF IInv, Typed
<1>b. FindOK(pc[t], l) /\ PickOK(pc[t], l)
      BY DEF IInv, LocalOK
<1>c. /\ pc[t] \in InFind /\ l.x \in State
      /\ pc[t] # "find" => Same(Root, l.x, l.y)
      BY Zenon, <1>b DEF FindX, FindY, FindWrite, FindOK, InFind, Knows
<1>d. \A s \in State : parent[s] # 0 => Same(Root, s, parent[s])
      BY IsForest, RootDef, RootFacts DEF Same
<1>e. \A q : q \in {"find", "find_y", "find_write"} => q \in InFind
      BY DEF InFind
<1>1. CASE FindX(t)
  <2>1. CASE parent[l.x] = 0
    <3>1. /\ loc'[t] = [l EXCEPT !.f = l.x, !.x = 0, !.y = 0, !.fret = ""]
          /\ pc'[t] = l.fret
          BY Zenon, <1>1, <2>1, <1>a DEF FindX, FindResult, Goto, Assign
    <3>2. Same(Root, l.x, l.x)
          BY <1>c DEF Same
    <3> HIDE DEF l
    <3>3. Knows(Root, pc[t], l) /\ l \in Local
          BY <1>a DEF l
    <3> QED BY <3>1, <3>2, <3>3, <1>b, <1>c, FindReturnKnows, Zenon
  <2>2. CASE parent[l.x] # 0
    <3> DEFINE m == [l EXCEPT !.y = parent[l.x]]
    <3>1. loc'[t] = m /\ pc'[t] = "find_y"
          BY Zenon, <1>1, <2>2, <1>a DEF FindX, Goto, Assign
    <3>2. SameCall(l, m) /\ m.fret = l.fret /\ m.x = l.x /\ m.y = parent[l.x]
          BY Zenon, <1>a DEF Local, SameCall
    <3>3. Same(Root, l.x, m.x) /\ Same(Root, m.x, m.y)
          BY <3>2, <2>2, <1>c, <1>d DEF Same
    <3> HIDE DEF m
    <3> QED BY <3>1, <3>2, <3>3, <1>c, <1>e, FindGoesOnKnows
  <2> QED BY <2>1, <2>2
<1>2. CASE FindY(t)
  <2>a. Same(Root, l.x, l.y)
        BY <1>2, <1>c DEF FindY
  <2>1. CASE parent[l.y] = 0
    <3>1. /\ loc'[t] = [l EXCEPT !.f = l.y, !.x = 0, !.y = 0, !.fret = ""]
          /\ pc'[t] = l.fret
          BY Zenon, <1>2, <2>1, <1>a DEF FindY, FindResult, Goto, Assign
    <3> HIDE DEF l
    <3>3. Knows(Root, pc[t], l) /\ l \in Local
          BY <1>a DEF l
    <3> QED BY <3>1, <2>a, <3>3, <1>b, <1>c, FindReturnKnows, Zenon
  <2>2. CASE parent[l.y] # 0
    <3> DEFINE m == [l EXCEPT !.y = parent[l.y]]
    <3>1. loc'[t] = m /\ pc'[t] = "find_write"
          BY Zenon, <1>2, <2>2, <1>a DEF FindY, Goto, Assign
    <3>2. SameCall(l, m) /\ m.fret = l.fret /\ m.x = l.x /\ m.y = parent[l.y]
          BY Zenon, <1>a DEF Local, SameCall
    <3>3. Same(Root, l.x, m.x) /\ Same(Root, m.x, m.y)
          BY <3>2, <2>2, <2>a, <1>c, <1>d DEF Same
    <3> HIDE DEF m
    <3> QED BY <3>1, <3>2, <3>3, <1>c, <1>e, FindGoesOnKnows
  <2> QED BY <2>1, <2>2
<1>3. CASE FindWrite(t)
  <2> DEFINE m == [l EXCEPT !.x = l.y, !.y = 0]
  <2>1. loc'[t] = m /\ pc'[t] = "find"
        BY Zenon, <1>3, <1>a DEF FindWrite, Goto, Assign
  <2>2. SameCall(l, m) /\ m.fret = l.fret /\ m.x = l.y
        BY Zenon, <1>a DEF Local, SameCall
  <2>3. Same(Root, l.x, m.x)
        BY <2>2, <1>3, <1>c DEF FindWrite
  <2> HIDE DEF m
  <2> QED BY <2>1, <2>2, <2>3, <1>c, <1>e, FindGoesOnKnows
<1> QED BY <1>1, <1>2, <1>3

\* The steps of uf_sameset and uf_union between two calls of uf_find.
LEMMA OpKnows ==
    ASSUME IInv, NEW t \in Thread, Knows(Root, pc[t], loc[t]),
           \/ Got(t) \/ SameA(t) \/ SameB(t) \/ SameCheck(t)
           \/ UnionA(t) \/ UnionB(t) \/ UnionLock(t) \/ UnionRetry(t)
    PROVE  Knows(Root, pc'[t], loc'[t])
<1> DEFINE l == loc[t]
<1>a. loc \in [Thread -> Local] /\ pc \in [Thread -> Label] /\ l \in Local
      BY DEF IInv, Typed
<1>b. l.pret = ""
  <2>1. PickOK(pc[t], l)
        BY DEF IInv, LocalOK
  <2> QED BY Zenon, <2>1
          DEF PickOK, Outer, InFind, InPick, Got, SameA, SameB, SameCheck,
              UnionA, UnionB, UnionLock, UnionRetry
<1>c. /\ pc[t] \in SameOp \cup {"union_a", "union_b", "union_lock", "union_retry"}
            => l.a \in State /\ l.b \in State
      /\ pc[t] \in FindFrom => Same(Root, Arg(pc[t], l), l.f)
      /\ pc[t] = "same_check" => Same(Root, l.b, l.f)
      /\ pc[t] \in {"same_b", "same_check", "union_b"} => Same(Root, l.a, l.a_r)
  <2>1. pc[t] \notin InFind => Where(pc[t], l) = pc[t]
        BY <1>b, Zenon DEF Where, Outer
  <2>2. CallOK(Where(pc[t], l), l)
        BY DEF IInv, LocalOK
  <2> QED BY Zenon, <2>1, <2>2 DEF Knows, CallOK, SameOp, InFind
<1>d. \A s \in State : Same(Root, s, s)
      BY DEF Same
<1>e. ASSUME NEW m, m.pret = "", loc'[t] = m, pc'[t] = "ready"
      PROVE  Knows(Root, pc'[t], loc'[t])
      BY <1>e, ReadyKnows, Zenon
<1>f. ASSUME NEW m, NEW w \in FindFrom, m.pret = "", m.fret = w,
             loc'[t] = m, pc'[t] = "find", Same(Root, Arg(w, m), m.x),
             w # "got" => m.a \in State /\ m.b \in State,
             w \in {"same_b", "union_b"} => Same(Root, m.a, m.a_r)
      PROVE  Knows(Root, pc'[t], loc'[t])
  <2>1. Where("find", m) = w
        BY Zenon, <1>f DEF Where, Outer, InFind
  <2> QED BY Zenon, <1>f, <2>1
          DEF Knows, FindFrom, SameOp, InFind, Before, BeforeLink, AfterLink
<1>1. CASE Got(t)
  <2> DEFINE m == [NoLocal EXCEPT !.code = "", !.ret = l.f]
  <2>1. loc'[t] = m /\ pc'[t] = "ready"
        BY Zenon, <1>1, <1>a DEF Got, Return, ReturnCode, Goto, Assign
  <2>2. m.pret = ""
        BY Zenon, NoLocalType DEF NoLocal
  <2> QED BY Zenon, <2>1, <2>2, <1>e
<1>2. CASE SameA(t)
  <2> DEFINE m == [l EXCEPT !.a_r = l.f, !.x = l.b, !.fret = "same_b"]
  <2>1. loc'[t] = m /\ pc'[t] = "find"
        BY Zenon, <1>2, <1>a DEF SameA, Goto, Assign
  <2>2. /\ m.pret = "" /\ m.fret = "same_b" /\ m.x = l.b /\ m.a = l.a
        /\ m.b = l.b /\ m.a_r = l.f
        BY Zenon, <1>a, <1>b DEF Local
  <2>3. l.a \in State /\ l.b \in State /\ Same(Root, l.a, l.f)
        BY Zenon, <1>2, <1>c DEF SameA, SameOp, FindFrom, Arg
  <2> HIDE DEF m, l
  <2> QED BY Zenon, <2>1, <2>2, <2>3, <1>d, <1>f DEF FindFrom, Arg
<1>3. CASE SameB(t)
  <2>1. CASE l.a_r = l.f
    <3> DEFINE m == [NoLocal EXCEPT !.v = TRUE]
    <3>1. loc'[t] = m /\ pc'[t] = "ready"
          BY Zenon, <1>3, <2>1, <1>a DEF SameB, Return, ReturnBool, Goto, Assign
    <3>2. m.pret = ""
          BY Zenon, NoLocalType DEF NoLocal
    <3> QED BY Zenon, <3>1, <3>2, <1>e
  <2>2. CASE l.a_r # l.f
    <3>1. loc'[t] = l /\ pc'[t] = "same_check"
          BY Zenon, <1>3, <2>2, <1>a DEF SameB, Return, ReturnBool, Goto, Assign
    <3>2. /\ l.a \in State /\ l.b \in State /\ Same(Root, l.b, l.f)
          /\ Same(Root, l.a, l.a_r)
          BY Zenon, <1>3, <1>c DEF SameB, SameOp, FindFrom, Arg
    <3>3. Where("same_check", l) = "same_check"
          BY Zenon, <1>b DEF Where, Outer, InFind
    <3> HIDE DEF l
    <3> QED BY Zenon, <3>1, <3>2, <3>3
            DEF Knows, FindFrom, SameOp, InFind, Before, BeforeLink, AfterLink
  <2> QED BY <2>1, <2>2
<1>4. CASE SameCheck(t)
  <2>1. CASE parent[l.a_r] = 0
    <3> DEFINE m == [NoLocal EXCEPT !.v = FALSE]
    <3>1. loc'[t] = m /\ pc'[t] = "ready"
          BY Zenon, <1>4, <2>1, <1>a
          DEF SameCheck, Return, ReturnBool, Goto, Assign
    <3>2. m.pret = ""
          BY Zenon, NoLocalType DEF NoLocal
    <3> QED BY Zenon, <3>1, <3>2, <1>e
  <2>2. CASE parent[l.a_r] # 0
    <3> DEFINE m == [l EXCEPT !.a = l.a_r, !.b = l.f, !.x = l.a_r,
                              !.fret = "same_a"]
    <3>1. loc'[t] = m /\ pc'[t] = "find"
          BY Zenon, <1>4, <2>2, <1>a DEF SameCheck, Goto, Assign
    <3>2. /\ m.pret = "" /\ m.fret = "same_a" /\ m.x = l.a_r /\ m.a = l.a_r
          /\ m.b = l.f
          BY Zenon, <1>a, <1>b DEF Local
    <3>3. l.a_r \in State /\ l.f \in State
          BY Zenon, <1>4, <1>c DEF SameCheck, Same
    <3> HIDE DEF m, l
    <3> QED BY Zenon, <3>1, <3>2, <3>3, <1>d, <1>f DEF FindFrom, Arg
  <2> QED BY <2>1, <2>2
<1>5. CASE UnionA(t)
  <2> DEFINE m == [l EXCEPT !.a_r = l.f, !.x = l.b, !.fret = "union_b"]
  <2>1. loc'[t] = m /\ pc'[t] = "find"
        BY Zenon, <1>5, <1>a DEF UnionA, Goto, Assign
  <2>2. /\ m.pret = "" /\ m.fret = "union_b" /\ m.x = l.b /\ m.a = l.a
        /\ m.b = l.b /\ m.a_r = l.f
        BY Zenon, <1>a, <1>b DEF Local
  <2>3. l.a \in State /\ l.b \in State /\ Same(Root, l.a, l.f)
        BY Zenon, <1>5, <1>c DEF UnionA, FindFrom, Arg
  <2> HIDE DEF m, l
  <2> QED BY Zenon, <2>1, <2>2, <2>3, <1>d, <1>f DEF FindFrom, Arg
<1>6. CASE UnionB(t)
  <2>1. CASE l.a_r = l.f
    <3> DEFINE m == [NoLocal EXCEPT !.v = FALSE]
    <3>1. loc'[t] = m /\ pc'[t] = "ready"
          BY Zenon, <1>6, <2>1, <1>a
          DEF UnionB, Return, ReturnBool, Goto, Assign
    <3>2. m.pret = ""
          BY Zenon, NoLocalType DEF NoLocal
    <3> QED BY Zenon, <3>1, <3>2, <1>e
  <2>2. CASE l.a_r # l.f
    <3> DEFINE m == [l EXCEPT !.r = IF l.a_r < l.f THEN l.f ELSE l.a_r,
                              !.q = IF l.a_r < l.f THEN l.a_r ELSE l.f]
    <3>1. loc'[t] = m /\ pc'[t] = "union_lock"
          BY Zenon, <1>6, <2>2, <1>a DEF UnionB, Goto, Assign
    <3>2. /\ m.pret = "" /\ m.a = l.a /\ m.b = l.b
          /\ \/ m.r = l.f /\ m.q = l.a_r
             \/ m.r = l.a_r /\ m.q = l.f
          BY Zenon, <1>a, <1>b DEF Local
    <3>3. Same(Root, l.b, l.f) /\ Same(Root, l.a, l.a_r)
          BY Zenon, <1>6, <1>c DEF UnionB, FindFrom, Arg
    <3> HIDE DEF m, l
    <3>4. Where("union_lock", m) = "union_lock"
          BY Zenon, <3>2 DEF Where, Outer, InFind
    <3> QED BY Zenon, <3>1, <3>2, <3>3, <3>4
            DEF Knows, FindFrom, SameOp, InFind, BeforeLink, AfterLink
  <2> QED BY <2>1, <2>2
<1>7. ASSUME loc'[t] = [l EXCEPT !.x = l.a, !.fret = "union_a"],
             pc'[t] = "find", pc[t] \in {"union_lock", "union_retry"}
      PROVE  Knows(Root, pc'[t], loc'[t])
  <2> DEFINE m == [l EXCEPT !.x = l.a, !.fret = "union_a"]
  <2>1. /\ m.pret = "" /\ m.fret = "union_a" /\ m.x = l.a /\ m.a = l.a
        /\ m.b = l.b
        BY Zenon, <1>a, <1>b DEF Local
  <2>2. l.a \in State /\ l.b \in State
        BY Zenon, <1>7, <1>c
  <2>3. loc'[t] = m /\ pc'[t] = "find"
        BY <1>7
  <2> HIDE DEF m, l
  <2> QED BY Zenon, <2>1, <2>2, <2>3, <1>d, <1>f DEF FindFrom, Arg
<1>8. CASE UnionLock(t)
  <2>1. CASE uf_status[l.q] = "UF_LIVE"
    <3>1. loc'[t] = l /\ pc'[t] = "union_root" /\ pc[t] = "union_lock"
          BY Zenon, <1>8, <2>1, <1>a DEF UnionLock, Goto, Assign
    <3>2. /\ Where("union_root", l) = "union_root"
          /\ Where("union_lock", l) = "union_lock"
          BY Zenon, <1>b DEF Where, Outer, InFind
    <3> HIDE DEF l
    <3> QED BY Zenon, <3>1, <3>2
            DEF l, Knows, FindFrom, SameOp, InFind, Before, BeforeLink, AfterLink
  <2>2. CASE uf_status[l.q] # "UF_LIVE"
    <3>1. /\ loc'[t] = [l EXCEPT !.x = l.a, !.fret = "union_a"]
          /\ pc'[t] = "find" /\ pc[t] = "union_lock"
          BY Zenon, <1>8, <2>2, <1>a DEF UnionLock, Find, Goto, Assign
    <3> QED BY Zenon, <3>1, <1>7
  <2> QED BY <2>1, <2>2
<1>9. CASE UnionRetry(t)
  <2>1. /\ loc'[t] = [l EXCEPT !.x = l.a, !.fret = "union_a"]
        /\ pc'[t] = "find" /\ pc[t] = "union_retry"
        BY Zenon, <1>9, <1>a DEF UnionRetry, Find, Goto, Assign
  <2> QED BY Zenon, <2>1, <1>7
<1> QED BY Zenon, <1>1, <1>2, <1>3, <1>4, <1>5, <1>6, <1>8, <1>9

\* The link: the two arguments are in one set now.
LEMMA LinkKnows ==
    ASSUME IInv, NEW t \in Thread, UnionLink(t), UFStep(t),
           Knows(Root, pc[t], loc[t])
    PROVE  Knows(Root', pc'[t], loc'[t])
<1> DEFINE l == loc[t]
<1>1. loc'[t] = l /\ pc'[t] = "union_acc_r" /\ pc[t] = "union_link"
      BY Zenon DEF UnionLink, Goto, IInv, Typed
<1>2. l.pret = ""
  <2>1. PickOK(pc[t], l)
        BY DEF IInv, LocalOK
  <2> QED BY Zenon, <2>1, <1>1 DEF PickOK, Outer, InFind, InPick
<1>3. /\ Where("union_link", l) = "union_link"
      /\ Where("union_acc_r", l) = "union_acc_r"
      BY Zenon, <1>2 DEF Where, Outer, InFind
<1>4. \/ Same(Root, l.a, l.r) /\ Same(Root, l.b, l.q)
      \/ Same(Root, l.a, l.q) /\ Same(Root, l.b, l.r)
      BY Zenon, <1>1, <1>3 DEF Knows, Before, BeforeLink
<1>5. Same(Root', l.a, l.b)
      BY <1>4, LinkRoots DEF Same
<1> HIDE DEF l
<1> QED BY Zenon, <1>1, <1>3, <1>5
        DEF Knows, FindFrom, SameOp, InFind, Before, BeforeLink, AfterLink

\* What a thread knows after its own step.
LEMMA KnowsStep ==
    ASSUME IInv, NEW t \in Thread, UFStep(t), Knows(Root, pc[t], loc[t])
    PROVE  Knows(Root', pc'[t], loc'[t])
<1>1. CASE UnionLink(t)
      BY <1>1, LinkKnows
<1>2. CASE Learns(t) /\ ~UnionLink(t)
      BY <1>2, FindKnows, OpKnows, SetsStep, KnowsMore DEF Learns
<1>3. CASE ~Learns(t)
      BY <1>3, PlainStep, PlainKnows, SetsStep, KnowsMore
<1> QED BY <1>1, <1>2, <1>3

-----------------------------------------------------------------------------
(* The calls                                                               *)

\* The place p and locals m at which operation op starts with arguments a and
\* b: uf_find of the first one, unless it is about lists or has nothing to do.
Entry == [find |-> "got", same |-> "same_a", union |-> "union_a",
          claim |-> "claim", acc |-> "acc"]

Begins(op, a, b, p, m) ==
    \/ /\ op \in DOMAIN Entry /\ p = "find" /\ m.pret = ""
       /\ m.fret = Entry[op] /\ m.x = a /\ m.a = a /\ m.r = 0
       /\ op \in {"same", "union"} => m.b = b
    \/ op = "union" /\ p = "ready" /\ m.pret = "" /\ a = b
    \/ op = "pick" /\ p = "pick_a" /\ m.pret = "picked"
    \/ op = "remove" /\ p = "remove" /\ m.pret = ""

LEMMA CallBegins ==
    ASSUME IInv, NEW t \in Thread, Call(t)
    PROVE  \E op \in Operation, a, b \in State :
              Begins(op, a, b, pc'[t], loc'[t]) /\ Invoke(t, op, a, b)
<1>a. ASSUME NEW m, NEW p, Enter(t, m, p)
      PROVE  pc'[t] = p /\ loc'[t] = m
      BY <1>a DEF Enter, Goto, Assign, IInv, Typed
<1>b. NoLocal \in Local /\ NoLocal.pret = "" /\ NoLocal.r = 0
      BY Zenon, NoLocalType DEF NoLocal
<1> USE DEF Entry, Operation
<1>1. CASE CallFind(t)
  <2>1. PICK s \in State : uf_find(t, s) /\ Invoke(t, "find", s, s)
        BY <1>1 DEF CallFind
  <2>2. /\ pc'[t] = "find"
        /\ loc'[t] = [NoLocal EXCEPT !.a = s, !.x = s, !.fret = "got"]
        BY <2>1, <1>a DEF uf_find
  <2>3. Begins("find", s, s, pc'[t], loc'[t])
        BY <2>2, <1>b, Zenon DEF Begins, Local
  <2> QED BY <2>1, <2>3
<1>2. CASE CallSameSet(t)
  <2>1. PICK a, b \in State : uf_sameset(t, a, b) /\ Invoke(t, "same", a, b)
        BY <1>2 DEF CallSameSet
  <2>2. /\ pc'[t] = "find"
        /\ loc'[t] = [NoLocal EXCEPT !.a = a, !.b = b, !.x = a,
                                     !.fret = "same_a"]
        BY <2>1, <1>a DEF uf_sameset
  <2>3. Begins("same", a, b, pc'[t], loc'[t])
        BY <2>2, <1>b, Zenon DEF Begins, Local
  <2> QED BY <2>1, <2>3
<1>3. CASE CallUnion(t)
  <2>1. PICK a, b \in State : uf_union(t, a, b) /\ Invoke(t, "union", a, b)
        BY <1>3 DEF CallUnion
  <2>2. CASE a = b
    <3>1. pc'[t] = "ready" /\ loc'[t] = [NoLocal EXCEPT !.v = TRUE]
          BY <2>1, <2>2, <1>a DEF uf_union
    <3>2. Begins("union", a, b, pc'[t], loc'[t])
          BY <3>1, <2>2, <1>b, Zenon DEF Begins, Local
    <3> QED BY <2>1, <3>2
  <2>3. CASE a # b
    <3>1. /\ pc'[t] = "find"
          /\ loc'[t] = [NoLocal EXCEPT !.a = a, !.b = b, !.x = a,
                                       !.fret = "union_a"]
          BY <2>1, <2>3, <1>a DEF uf_union
    <3>2. Begins("union", a, b, pc'[t], loc'[t])
          BY <3>1, <1>b, Zenon DEF Begins, Local
    <3> QED BY <2>1, <3>2
  <2> QED BY <2>2, <2>3
<1>4. CASE CallClaim(t)
  <2>1. PICK s \in State : uf_make_claim(t, s) /\ Invoke(t, "claim", s, s)
        BY <1>4 DEF CallClaim
  <2>2. /\ pc'[t] = "find"
        /\ loc'[t] = [NoLocal EXCEPT !.a = s, !.x = s, !.fret = "claim"]
        BY <2>1, <1>a DEF uf_make_claim
  <2>3. Begins("claim", s, s, pc'[t], loc'[t])
        BY <2>2, <1>b, Zenon DEF Begins, Local
  <2> QED BY <2>1, <2>3
<1>5. CASE CallAddAcc(t)
  <2>1. PICK s \in State, k \in Mark :
           uf_add_acc(t, s, {k}) /\ Invoke(t, "acc", s, s)
        BY <1>5 DEF CallAddAcc
  <2>2. /\ pc'[t] = "find"
        /\ loc'[t] = [NoLocal EXCEPT !.a = s, !.bits = {k}, !.x = s,
                                     !.fret = "acc"]
        BY <2>1, <1>a DEF uf_add_acc
  <2>3. Begins("acc", s, s, pc'[t], loc'[t])
        BY <2>2, <1>b, Zenon DEF Begins, Local
  <2> QED BY <2>1, <2>3
<1>6. CASE CallPick(t)
  <2>1. PICK s \in State : uf_pick_from_list(t, s) /\ Invoke(t, "pick", s, s)
        BY <1>6 DEF CallPick
  <2>2. /\ pc'[t] = "pick_a"
        /\ loc'[t] = [NoLocal EXCEPT !.pa = s, !.pret = "picked"]
        BY <2>1, <1>a DEF uf_pick_from_list
  <2>3. Begins("pick", s, s, pc'[t], loc'[t])
        BY <2>2, <1>b, Zenon DEF Begins, Local
  <2> QED BY <2>1, <2>3
<1>7. CASE CallRemove(t)
  <2>1. PICK s \in State :
           uf_remove_from_list(t, s) /\ Invoke(t, "remove", s, s)
        BY <1>7 DEF CallRemove
  <2>2. pc'[t] = "remove" /\ loc'[t] = [NoLocal EXCEPT !.a = s]
        BY <2>1, <1>a DEF uf_remove_from_list
  <2>3. Begins("remove", s, s, pc'[t], loc'[t])
        BY <2>2, <1>b, Zenon DEF Begins, Local
  <2> QED BY <2>1, <2>3
<1> QED BY Zenon, <1>1, <1>2, <1>3, <1>4, <1>5, <1>6, <1>7 DEF Call

LEMMA BeginKnows ==
    ASSUME NEW op, NEW a \in State, NEW b \in State, NEW p, NEW m, NEW g,
           Begins(op, a, b, p, m)
    PROVE  Knows(g, p, m)
<1>1. CASE op \in DOMAIN Entry /\ p = "find"
  <2>1. /\ m.pret = "" /\ m.fret = Entry[op] /\ m.x = a /\ m.a = a
        /\ op \in {"same", "union"} => m.b = b
        BY <1>1, Zenon DEF Begins
  <2>2. Entry[op] \in {"got", "same_a", "union_a", "claim", "acc"}
        BY <1>1 DEF Entry
  <2>3. Entry[op] \in {"same_a", "union_a"} => op \in {"same", "union"}
        BY <1>1 DEF Entry
  <2>4. Where(p, m) = Entry[op]
        BY <2>1, <1>1, Zenon DEF Where, Outer, InFind
  <2>5. Where(p, m) \in {"got", "same_a", "union_a"} =>
           Same(g, Arg(Where(p, m), m), m.x)
        BY <2>1, Zenon DEF Same, Arg
  <2> QED BY Zenon, <1>1, <2>1, <2>2, <2>3, <2>4, <2>5
          DEF Knows, FindFrom, SameOp, InFind, Before, BeforeLink, AfterLink
<1>2. CASE /\ p \in {"ready", "pick_a", "remove"}
           /\ Where(p, m) \in {"ready", "picked", "remove"}
      BY Zenon, <1>2
      DEF Knows, FindFrom, SameOp, InFind, Before, BeforeLink, AfterLink
<1> QED BY Zenon, <1>1, <1>2 DEF Begins, Where, Outer, InFind

LEMMA CallFrame ==
    ASSUME IInv, NEW t \in Thread, Call(t)
    PROVE  /\ parent' = parent /\ Root' = Root
           /\ \A u \in Thread : u # t => pc'[u] = pc[u] /\ loc'[u] = loc[u]
<1>1. PICK m, p : Enter(t, m, p)
      BY CallStarts
<1>2. parent' = parent
      BY <1>1 DEF Enter, forest
<1>3. \A u \in Thread : u # t => pc'[u] = pc[u] /\ loc'[u] = loc[u]
      BY <1>1 DEF Enter, Goto, Assign, IInv, Typed
<1> QED BY <1>2, <1>3, SameParent

-----------------------------------------------------------------------------
(* The theorems                                                            *)

LEMMA InitSets == Init => SetsInv
<1> SUFFICES ASSUME Init
             PROVE  SetsInv
      OBVIOUS
<1>1. IInv
      BY InitIInv
<1>2. \A t \in Thread : pc[t] = "ready" /\ loc[t].pret = ""
  <2>1. NoLocal.pret = ""
        BY Zenon, NoLocalType DEF NoLocal
  <2> QED BY <2>1, Zenon DEF Init, UFInit
<1>3. \A t \in Thread : Knows(Root, pc[t], loc[t])
      BY <1>2, ReadyKnows, Zenon
<1> QED BY <1>1, <1>3 DEF SetsInv

LEMMA StepSets ==
    ASSUME SetsInv, NEW t \in Thread, UFStep(t)
    PROVE  \A u \in Thread : Knows(Root', pc'[u], loc'[u])
<1>1. IInv /\ \A u \in Thread : Knows(Root, pc[u], loc[u])
      BY DEF SetsInv
<1>2. Coarser(Root, Root')
      BY <1>1, SetsStep
<1> TAKE u \in Thread
<1>3. CASE u = t
      BY <1>1, <1>3, KnowsStep
<1>4. CASE u # t
  <2>1. pc'[u] = pc[u] /\ loc'[u] = loc[u]
        BY <1>1, <1>4, Others
  <2>2. Knows(Root', pc[u], loc[u])
        BY <1>1, <1>2, KnowsMore
  <2> QED BY <2>1, <2>2
<1> QED BY <1>3, <1>4

LEMMA CallSets ==
    ASSUME SetsInv, NEW t \in Thread, Call(t)
    PROVE  \A u \in Thread : Knows(Root', pc'[u], loc'[u])
<1>1. IInv /\ \A u \in Thread : Knows(Root, pc[u], loc[u])
      BY DEF SetsInv
<1>2. /\ Root' = Root
      /\ \A u \in Thread : u # t => pc'[u] = pc[u] /\ loc'[u] = loc[u]
      BY <1>1, CallFrame
<1>3. Knows(Root, pc'[t], loc'[t])
      BY <1>1, CallBegins, BeginKnows
<1> QED BY <1>1, <1>2, <1>3

LEMMA NextSets == SetsInv /\ [Next]_vars => SetsInv'
<1> SUFFICES ASSUME SetsInv, [Next]_vars
             PROVE  SetsInv'
      OBVIOUS
<1>1. IInv'
      BY NextIInv DEF SetsInv
<1>2. \A u \in Thread : Knows(Root', pc'[u], loc'[u])
  <2>1. ASSUME NEW t \in Thread, Call(t)
        PROVE  \A u \in Thread : Knows(Root', pc'[u], loc'[u])
        BY <2>1, CallSets
  <2>2. ASSUME NEW t \in Thread, UFStep(t)
        PROVE  \A u \in Thread : Knows(Root', pc'[u], loc'[u])
        BY <2>2, StepSets
  <2>3. CASE UNCHANGED vars
    <3>1. Root' = Root /\ pc' = pc /\ loc' = loc
          BY <2>3, SameParent DEF vars, ufvars, forest
    <3> QED BY <3>1 DEF SetsInv
  <2> QED BY <2>1, <2>2, <2>3 DEF Next, Step, Quiet
<1> QED BY <1>1, <1>2 DEF SetsInv

\* What every thread knows about the sets is true, whatever the others do
\* (unionfind.c, uf_find, uf_sameset and uf_union).
THEOREM SetsInductive == Spec => []SetsInv
<1> QED BY InitSets, NextSets, PTL DEF Spec

\* Every state is in a set: the chain of its parents ends in one root, above
\* it or itself (unionfind.c, the loop of uf_find).
RootAbove ==
    \A s \in State : /\ Root[s] \in State /\ Root[s] >= s
                     /\ parent[Root[s]] = 0
                     /\ parent[s] # 0 => Root[s] = Root[parent[s]]

THEOREM HasRoot == Spec => []RootAbove
<1>1. IInv => RootAbove
  <2> SUFFICES ASSUME IInv
               PROVE  RootAbove
        OBVIOUS
  <2>1. Forest(parent) /\ Roots(Root, parent)
        BY IsForest, RootDef
  <2> QED BY <2>1, RootFacts DEF RootAbove
<1> QED BY <1>1, Inductive, PTL

\* Sets that were merged stay merged: neither the halving writes of uf_find,
\* made without a lock from values read earlier, nor a union detaches a state
\* (unionfind.c, uf_find and uf_union).
THEOREM SetsGrow == Spec => SetsOnlyGrow
<1>1. SetsInv /\ [Next]_vars =>
         [\A s, u \in State : SameSet(s, u) => SameSet(s, u)']_vars
  <2> SUFFICES ASSUME SetsInv, Next, NEW s \in State, NEW u \in State,
                      Root[s] = Root[u]
               PROVE  Root'[s] = Root'[u]
        BY DEF SameSet
  <2>1. ASSUME NEW t \in Thread, Call(t)
        PROVE  Root'[s] = Root'[u]
        BY <2>1, CallFrame DEF SetsInv
  <2>2. ASSUME NEW t \in Thread, UFStep(t)
        PROVE  Root'[s] = Root'[u]
        BY <2>2, SetsStep DEF SetsInv, Coarser
  <2>3. CASE Quiet
        BY <2>3, SameParent DEF Quiet, vars, ufvars, forest
  <2> QED BY <2>1, <2>2, <2>3 DEF Next, Step
<1> QED BY <1>1, SetsInductive, PTL DEF Spec, SetsOnlyGrow
=============================================================================
