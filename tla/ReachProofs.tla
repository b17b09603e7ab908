---------------------------- MODULE ReachProofs -----------------------------
(***************************************************************************)
(* Proofs about Reach, for every number of workers and every model: no     *)
(* state is lost between the stacks, none is explored twice, the stack of  *)
(* a worker is its own while it explores, and a search that ends with      *)
(* empty stacks has found exactly the reachable states.                    *)
(***************************************************************************)
EXTENDS ReachBalancer

-----------------------------------------------------------------------------
(* What a worker holds: every state on its stacks is there once            *)

\* The two stacks of a worker and the new successors it has not pushed yet.
Own(in, out, nw) ==
    /\ IsInjective(in) /\ IsInjective(out) /\ IsInjective(nw)
    /\ Range(in) \cap Range(out) = {}
    /\ Range(in) \cap Range(nw) = {}
    /\ Range(out) \cap Range(nw) = {}

Held(in, out, nw) == Range(in) \cup Range(out) \cup Range(nw)

LEMMA EmptyStack == IsInjective(<<>>) /\ Range(<<>>) = {}
      BY DEF IsInjective, Range

\* A successor found new.
LEMMA HeldVisit ==
    ASSUME NEW S, NEW in \in Seq(S), NEW out \in Seq(S), NEW nw \in Seq(S),
           NEW s \in S, Own(in, out, nw), s \notin Held(in, out, nw)
    PROVE  /\ Append(nw, s) \in Seq(S)
           /\ Own(in, out, Append(nw, s))
           /\ Held(in, out, Append(nw, s)) = Held(in, out, nw) \cup {s}
<1>1. IsInjective(nw) /\ s \notin Range(nw)
      BY Zenon DEF Own, Held
<1>2. /\ Append(nw, s) \in Seq(S)
      /\ IsInjective(Append(nw, s))
      /\ Range(Append(nw, s)) = Range(nw) \cup {s}
      BY <1>1, PushState, Zenon
<1> QED
      BY <1>2, Zenon DEF Own, Held

\* The end of an iteration.
LEMMA HeldExplored ==
    ASSUME NEW S, NEW in \in Seq(S), NEW out \in Seq(S), NEW nw \in Seq(S),
           Own(in, out, nw), in # <<>>
    PROVE  /\ Pop(in) \in Seq(S) /\ out \o nw \in Seq(S)
           /\ Own(Pop(in), out \o nw, <<>>)
           /\ Top(in) \in Held(in, out, nw)
           /\ Held(Pop(in), out \o nw, <<>>) = Held(in, out, nw) \ {Top(in)}
<1>1. IsInjective(in) /\ IsInjective(out) /\ IsInjective(nw)
      BY Zenon DEF Own
<1>2. Range(out) \cap Range(nw) = {}
      BY Zenon DEF Own
<1>3. /\ Pop(in) \in Seq(S) /\ IsInjective(Pop(in)) /\ Top(in) \in Range(in)
      /\ Range(Pop(in)) = Range(in) \ {Top(in)}
      BY <1>1, PopStack, Zenon
<1>4. /\ out \o nw \in Seq(S) /\ IsInjective(out \o nw)
      /\ Range(out \o nw) = Range(out) \cup Range(nw)
      BY <1>1, <1>2, PushStates
<1> QED
      BY <1>3, <1>4, EmptyStack, Zenon DEF Own, Held

\* The stacks are swapped.
LEMMA HeldSwap ==
    ASSUME NEW in, NEW out, NEW nw, Own(in, out, nw)
    PROVE  Own(out, in, nw) /\ Held(out, in, nw) = Held(in, out, nw)
      BY Zenon DEF Own, Held

\* A handoff takes states from one of the stacks ...
LEMMA HeldGive ==
    ASSUME NEW S, NEW in \in Seq(S), NEW out \in Seq(S), NEW nw \in Seq(S),
           Own(in, out, nw), NEW n \in Nat, n <= Len(in),
           NEW rest, NEW moved, Popped(in, n, rest, moved)
    PROVE  /\ rest \in Seq(S) /\ moved \in Seq(S)
           /\ Own(rest, out, nw) /\ IsInjective(moved)
           /\ Range(moved) \subseteq Held(in, out, nw)
           /\ Held(rest, out, nw) = Held(in, out, nw) \ Range(moved)
<1>1. IsInjective(in)
      BY Zenon DEF Own
<1>2. /\ rest \in Seq(S) /\ moved \in Seq(S)
      /\ IsInjective(rest) /\ IsInjective(moved)
      /\ Range(rest) \cup Range(moved) = Range(in)
      /\ Range(rest) \cap Range(moved) = {}
      BY <1>1, CutStack, Zenon
<1> QED
      BY <1>2, Zenon DEF Own, Held

\* ... and pushes them on the in_stack of the requestor.
LEMMA HeldTake ==
    ASSUME NEW S, NEW in \in Seq(S), NEW out \in Seq(S), NEW nw \in Seq(S),
           Own(in, out, nw), NEW moved \in Seq(S), IsInjective(moved),
           Range(moved) \cap Held(in, out, nw) = {}
    PROVE  /\ in \o moved \in Seq(S)
           /\ Own(in \o moved, out, nw)
           /\ Held(in \o moved, out, nw) = Held(in, out, nw) \cup Range(moved)
<1>1. IsInjective(in) /\ Range(in) \cap Range(moved) = {}
      BY Zenon DEF Own, Held
<1>2. /\ in \o moved \in Seq(S) /\ IsInjective(in \o moved)
      /\ Range(in \o moved) = Range(in) \cup Range(moved)
      BY <1>1, PushStates
<1> QED
      BY <1>2, Zenon DEF Own, Held

\* What H and K give to the workers outside P is the same.
Keep(H, K, P) == \A u \in Thread \ P : K[u] = H[u]

\* H says which states each worker holds, E is what was explored and V the
\* store: a state of the store is explored or one worker holds it.
Apart(H, E, V) ==
    /\ \A t \in Thread : H[t] \cap E = {}
    /\ \A t, u \in Thread : t # u => H[t] \cap H[u] = {}
    /\ V = E \cup UNION {H[t] : t \in Thread}

LEMMA ApartVisit ==
    ASSUME NEW H, NEW K, NEW E, NEW V, Apart(H, E, V), NEW t \in Thread, NEW s,
           s \notin V, K[t] = H[t] \cup {s},
           Keep(H, K, {t})
    PROVE  Apart(K, E, V \cup {s})
      BY DEF Apart, Keep

LEMMA ApartExplored ==
    ASSUME NEW H, NEW K, NEW E, NEW V, Apart(H, E, V), NEW t \in Thread, NEW s,
           s \in H[t], K[t] = H[t] \ {s},
           Keep(H, K, {t})
    PROVE  Apart(K, E \cup {s}, V)
<1>1. UNION {H[u] : u \in Thread} = {s} \cup UNION {K[u] : u \in Thread}
      BY Zenon DEF Keep
<1> QED
      BY <1>1, Zenon DEF Apart, Keep

LEMMA ApartSplit ==
    ASSUME NEW H, NEW K, NEW E, NEW V, Apart(H, E, V), NEW M,
           NEW t \in Thread, NEW x \in Thread, x # t,
           M \subseteq H[t], K[t] = H[t] \ M, K[x] = H[x] \cup M,
           Keep(H, K, {t, x})
    PROVE  Apart(K, E, V)
<1>1. UNION {H[u] : u \in Thread} = UNION {K[u] : u \in Thread}
      BY Zenon DEF Keep
<1> QED
      BY <1>1 DEF Apart, Keep

LEMMA ApartSame ==
    ASSUME NEW H, NEW K, NEW E, NEW V, Apart(H, E, V), Keep(H, K, {})
    PROVE  Apart(K, E, V)
<1>1. UNION {H[u] : u \in Thread} = UNION {K[u] : u \in Thread}
      BY Zenon DEF Keep
<1> QED
      BY <1>1, Zenon DEF Apart, Keep

-----------------------------------------------------------------------------
(* The steps of the search                                                 *)

held == [t \in Thread |-> Held(in_stack[t], out_stack[t], new[t])]

OnceInv ==
    /\ \A t \in Thread : Own(in_stack[t], out_stack[t], new[t])
    /\ Apart(held, explored, visited)

LEMMA MinBound ==
    ASSUME NEW a \in Nat, NEW b \in Nat, NEW c \in Nat
    PROVE  Min({a, b, c}) \in Nat /\ Min({a, b, c}) <= a
<1>1. \E x \in {a, b, c} : \A y \in {a, b, c} : x <= y
      OBVIOUS
<1>2. /\ Min({a, b, c}) \in {a, b, c}
      /\ \A y \in {a, b, c} : Min({a, b, c}) <= y
      BY <1>1, Zenon DEF Min
<1> QED
      BY <1>2, Zenon

\* split_bfs and split_sbfs: the top of one of the stacks of t, its in_stack or
\* its out_stack, goes to the in_stack of x.
LEMMA MoveView ==
    ASSUME StackTypes, LBTypes, NEW t \in Thread, NEW x \in Thread,
           MoveStates(t, x)
    PROVE  \E n \in Nat, rest \in Seq(State), moved \in Seq(State) :
              \/ /\ n <= Len(out_stack[t]) /\ Popped(out_stack[t], n, rest, moved)
                 /\ out_stack' = [out_stack EXCEPT ![t] = rest]
                 /\ in_stack' = [in_stack EXCEPT ![x] = @ \o moved]
              \/ /\ n <= Len(in_stack[t]) /\ Popped(in_stack[t], n, rest, moved)
                 /\ out_stack' = out_stack
                 /\ in_stack' = [in_stack EXCEPT ![t] = rest, ![x] = @ \o moved]
<1> DEFINE src == IF FromOut(t) THEN out_stack[t] ELSE in_stack[t]
           n == Handoff(t)
<1>1. src \in Seq(State)
      BY Zenon DEF StackTypes
<1>2. Len(src) \in Nat /\ my_load[t] \in Nat /\ MaxHandoff \in Nat
      BY <1>1, LenProperties, WorkerAssumption, Zenon DEF LBTypes
<1>3. \A k \in Nat : k \div 2 \in Nat /\ \A m \in Nat : m <= k \div 2 => m <= k
      OBVIOUS
<1>4. n = Min({Len(src) \div 2, my_load[t] \div 2, MaxHandoff})
      BY Zenon DEF Handoff
<1> HIDE DEF n
<1>5. n \in Nat /\ n <= Len(src) \div 2
      BY <1>2, <1>3, <1>4, MinBound, Zenon
<1>6. n <= Len(src)
      BY <1>2, <1>3, <1>5, Zenon
<1> DEFINE rest == SubSeq(src, 1, Len(src) - n)
           moved == [i \in 1 .. n |-> src[Len(src) - i + 1]]
<1>7. Popped(src, n, rest, moved)
      BY Zenon DEF Popped
<1> HIDE DEF rest, moved
<1>10. rest \in Seq(State) /\ moved \in Seq(State)
       BY <1>1, <1>5, <1>6, <1>7, CutElements, Zenon
<1>8. CASE FromOut(t)
  <2>1. src = out_stack[t]
        BY <1>8, Zenon
  <2>2. /\ out_stack' = [out_stack EXCEPT ![t] = rest]
        /\ in_stack' = [in_stack EXCEPT ![x] = @ \o moved]
        BY <1>8, Zenon DEF MoveStates, n, rest, moved
  <2> HIDE DEF src
  <2> QED
        BY <1>5, <1>6, <1>7, <1>10, <2>1, <2>2, Zenon
<1>9. CASE ~FromOut(t)
  <2>1. src = in_stack[t]
        BY <1>9, Zenon
  <2>2. /\ out_stack' = out_stack
        /\ in_stack' = [in_stack EXCEPT ![t] = rest, ![x] = @ \o moved]
        BY <1>9, Zenon DEF MoveStates, n, rest, moved
  <2> HIDE DEF src
  <2> QED
        BY <1>5, <1>6, <1>7, <1>10, <2>1, <2>2, Zenon
<1> QED
      BY <1>8, <1>9, Zenon

\* A handoff moves states, without losing or doubling one.
LEMMA MoveOnce ==
    ASSUME StackTypes, LBTypes, OnceInv, NEW t \in Thread, NEW x \in Thread,
           x # t, MoveStates(t, x), UNCHANGED <<explored, visited, new>>
    PROVE  /\ in_stack' \in [Thread -> Seq(State)]
           /\ out_stack' \in [Thread -> Seq(State)]
           /\ OnceInv'
<1>1. /\ in_stack \in [Thread -> Seq(State)] /\ out_stack \in [Thread -> Seq(State)]
      /\ new \in [Thread -> Seq(State)]
      BY Zenon DEF StackTypes
<1>2. /\ \A u \in Thread : Own(in_stack[u], out_stack[u], new[u])
      /\ Apart(held, explored, visited)
      BY Zenon DEF OnceInv
<1>3. \A u \in Thread : held[u] = Held(in_stack[u], out_stack[u], new[u])
      BY Zenon DEF held
<1>4. \A u \in Thread : held'[u] = Held(in_stack'[u], out_stack'[u], new[u])
      BY Zenon DEF held
<1>5. held[t] \cap held[x] = {}
      BY <1>2, Zenon DEF Apart
<1>6. PICK n \in Nat, rest \in Seq(State), moved \in Seq(State) :
              \/ /\ n <= Len(out_stack[t]) /\ Popped(out_stack[t], n, rest, moved)
                 /\ out_stack' = [out_stack EXCEPT ![t] = rest]
                 /\ in_stack' = [in_stack EXCEPT ![x] = @ \o moved]
              \/ /\ n <= Len(in_stack[t]) /\ Popped(in_stack[t], n, rest, moved)
                 /\ out_stack' = out_stack
                 /\ in_stack' = [in_stack EXCEPT ![t] = rest, ![x] = @ \o moved]
      BY MoveView, Zenon
<1> DEFINE Given(in, out) ==
              /\ in \in Seq(State) /\ out \in Seq(State) /\ moved \in Seq(State)
              /\ Own(in, out, new[t]) /\ IsInjective(moved)
              /\ Range(moved) \subseteq held[t]
              /\ Held(in, out, new[t]) = held[t] \ Range(moved)
<1>7. ASSUME Given(in_stack'[t], out_stack'[t]),
             in_stack'[x] = in_stack[x] \o moved, out_stack'[x] = out_stack[x],
             \A u \in Thread : u # t /\ u # x =>
                in_stack'[u] = in_stack[u] /\ out_stack'[u] = out_stack[u],
             in_stack' = [u \in Thread |-> in_stack'[u]],
             out_stack' = [u \in Thread |-> out_stack'[u]]
      PROVE  /\ in_stack' \in [Thread -> Seq(State)]
             /\ out_stack' \in [Thread -> Seq(State)]
             /\ OnceInv'
  <2>1. /\ in_stack[x] \in Seq(State) /\ out_stack[x] \in Seq(State)
        /\ new[x] \in Seq(State) /\ moved \in Seq(State) /\ IsInjective(moved)
        /\ Own(in_stack[x], out_stack[x], new[x])
        BY <1>1, <1>2, <1>7, Zenon
  <2>2. Range(moved) \cap Held(in_stack[x], out_stack[x], new[x]) = {}
        BY <1>3, <1>5, <1>7, Zenon
  <2>3. /\ in_stack'[x] \in Seq(State)
        /\ Own(in_stack'[x], out_stack'[x], new[x])
        /\ Held(in_stack'[x], out_stack'[x], new[x]) = held[x] \cup Range(moved)
    <3>1. /\ in_stack[x] \o moved \in Seq(State)
          /\ Own(in_stack[x] \o moved, out_stack[x], new[x])
          /\ Held(in_stack[x] \o moved, out_stack[x], new[x])
                = Held(in_stack[x], out_stack[x], new[x]) \cup Range(moved)
          BY <2>1, <2>2, HeldTake
    <3> QED
          BY <1>3, <1>7, <3>1, Zenon
  <2>4. \A u \in Thread : in_stack'[u] \in Seq(State) /\ out_stack'[u] \in Seq(State)
        BY <1>1, <1>7, <2>1, <2>3, Zenon
  <2>5. \A u \in Thread : Own(in_stack'[u], out_stack'[u], new[u])
        BY <1>2, <1>7, <2>3, Zenon
  <2>6. /\ held'[t] = held[t] \ Range(moved) /\ held'[x] = held[x] \cup Range(moved)
        /\ Range(moved) \subseteq held[t]
        BY <1>4, <1>7, <2>3, Zenon
  <2>7. Keep(held, held', {t, x})
        BY <1>3, <1>4, <1>7, Zenon DEF Keep
  <2>8. Apart(held', explored, visited)
        BY <1>2, <2>6, <2>7, ApartSplit, Zenon
  <2> QED
        BY <1>7, <2>4, <2>5, <2>8, Zenon DEF OnceInv
<1>8. /\ in_stack[t] \in Seq(State) /\ out_stack[t] \in Seq(State)
      /\ new[t] \in Seq(State) /\ Own(in_stack[t], out_stack[t], new[t])
      /\ Held(in_stack[t], out_stack[t], new[t]) = held[t]
      BY <1>1, <1>2, <1>3, Zenon
<1>9. CASE /\ n <= Len(out_stack[t]) /\ Popped(out_stack[t], n, rest, moved)
           /\ out_stack' = [out_stack EXCEPT ![t] = rest]
           /\ in_stack' = [in_stack EXCEPT ![x] = @ \o moved]
  <2>1. /\ Own(out_stack[t], in_stack[t], new[t])
        /\ Held(out_stack[t], in_stack[t], new[t]) = held[t]
        BY <1>8, HeldSwap, Zenon
  <2>2. Given(in_stack[t], rest)
    <3>1. /\ rest \in Seq(State) /\ moved \in Seq(State)
          /\ Own(rest, in_stack[t], new[t]) /\ IsInjective(moved)
          /\ Range(moved) \subseteq Held(out_stack[t], in_stack[t], new[t])
          /\ Held(rest, in_stack[t], new[t])
                = Held(out_stack[t], in_stack[t], new[t]) \ Range(moved)
          BY <1>8, <1>9, <2>1, HeldGive
    <3>2. /\ Own(in_stack[t], rest, new[t])
          /\ Held(in_stack[t], rest, new[t]) = Held(rest, in_stack[t], new[t])
          BY <3>1, HeldSwap, Zenon
    <3> QED
          BY <1>8, <2>1, <3>1, <3>2, Zenon
  <2>3. /\ in_stack'[t] = in_stack[t] /\ out_stack'[t] = rest
        /\ in_stack'[x] = in_stack[x] \o moved /\ out_stack'[x] = out_stack[x]
        /\ \A u \in Thread : u # t /\ u # x =>
              in_stack'[u] = in_stack[u] /\ out_stack'[u] = out_stack[u]
        /\ in_stack' = [u \in Thread |-> in_stack'[u]]
        /\ out_stack' = [u \in Thread |-> out_stack'[u]]
        BY <1>1, <1>9, Zenon
  <2> QED
        BY <1>7, <2>2, <2>3, Zenon
<1>10. CASE /\ n <= Len(in_stack[t]) /\ Popped(in_stack[t], n, rest, moved)
            /\ out_stack' = out_stack
            /\ in_stack' = [in_stack EXCEPT ![t] = rest, ![x] = @ \o moved]
  <2>1. Given(rest, out_stack[t])
    <3>1. /\ rest \in Seq(State) /\ moved \in Seq(State)
          /\ Own(rest, out_stack[t], new[t]) /\ IsInjective(moved)
          /\ Range(moved) \subseteq Held(in_stack[t], out_stack[t], new[t])
          /\ Held(rest, out_stack[t], new[t])
                = Held(in_stack[t], out_stack[t], new[t]) \ Range(moved)
          BY <1>8, <1>10, HeldGive
    <3> QED
          BY <1>8, <3>1, Zenon
  <2>2. /\ in_stack'[t] = rest /\ out_stack'[t] = out_stack[t]
        /\ in_stack'[x] = in_stack[x] \o moved /\ out_stack'[x] = out_stack[x]
        /\ \A u \in Thread : u # t /\ u # x =>
              in_stack'[u] = in_stack[u] /\ out_stack'[u] = out_stack[u]
        /\ in_stack' = [u \in Thread |-> in_stack'[u]]
        /\ out_stack' = [u \in Thread |-> out_stack'[u]]
        BY <1>1, <1>10, Zenon
  <2> QED
        BY <1>7, <2>1, <2>2, Zenon
<1> QED
      BY <1>6, <1>9, <1>10, Zenon

SearchInv == StackTypes /\ CurInv /\ OnceInv /\ SyncInv

\* What a worker explores does not depend on the others.
LEMMA CurKept ==
    ASSUME NEW u \in Thread, Cur(u), pc'[u] = pc[u], cur'[u] = cur[u],
           trans'[u] = trans[u], new'[u] = new[u], in_stack'[u] = in_stack[u]
    PROVE  Cur(u)'
      BY Zenon DEF Cur

\* No step but those of the stacks changes what the workers hold.
LEMMA OnceKept ==
    ASSUME OnceInv, UNCHANGED <<visited, explored, in_stack, out_stack, new>>
    PROVE  OnceInv'
<1>1. held' = held
      BY Zenon DEF held
<1> QED
      BY <1>1, Zenon DEF OnceInv

\* Only the reduce of sbfs takes a worker to lb_reinit.
LEMMA SyncKept ==
    ASSUME SyncInv, UNCHANGED job,
           \A u \in Thread : pc'[u] \in LB!Reinit => pc[u] \in LB!Reinit
    PROVE  SyncInv'
      BY Zenon DEF SyncInv

LEMMA BeginStep ==
    ASSUME SearchInv, LBTypes, UNCHANGED job, NEW t \in Thread, Begin(t)
    PROVE  SearchInv'
<1>0. StackTypes /\ CurInv /\ OnceInv /\ SyncInv
      BY Zenon DEF SearchInv
<1>1. /\ UNCHANGED <<visited, explored, in_stack, out_stack, level, new>>
      /\ pc[t] = "client" /\ in_stack[t] # <<>>
      BY Zenon DEF Begin
<1>2. Top(in_stack[t]) \in State
  <2>1. in_stack[t] \in Seq(State) /\ in_stack[t] # <<>>
        BY <1>0, <1>1, Zenon DEF StackTypes
  <2>2. Len(in_stack[t]) \in 1 .. Len(in_stack[t])
        BY <2>1, EmptySeq, LenProperties
  <2> QED
        BY <2>1, <2>2, ElementOfSeq, Zenon DEF Top
<1>3. cur' = [cur EXCEPT ![t] = {Top(in_stack[t])}]
      BY Zenon DEF Begin
<1>4. \E T \in SUBSET State : trans' = [trans EXCEPT ![t] = T]
  <2>1. job.succ[Top(in_stack[t])] \in SUBSET State
        BY <1>0, <1>2, JobType, Zenon DEF StackTypes
  <2> QED
        BY <2>1, Zenon DEF Begin
<1>5. StackTypes'
      BY <1>0, <1>1, <1>2, <1>3, <1>4, Zenon DEF StackTypes
<1>6. /\ pc'[t] \in {"client", "try_stop"}
      /\ \A u \in Thread : u # t => pc'[u] = pc[u]
      BY <1>1, Zenon DEF Begin, lbvars, LB!FindError, LB!Goto, LBTypes
<1>7. /\ cur'[t] = {Top(in_stack[t])}
      /\ \A u \in Thread : u # t => cur'[u] = cur[u] /\ trans'[u] = trans[u]
      BY <1>0, <1>3, <1>4, Zenon DEF StackTypes
<1>8. Cur(t)'
      BY <1>1, <1>6, <1>7, Zenon DEF Cur, Exploring
<1>9. \A u \in Thread : u # t => Cur(u)'
      BY <1>0, <1>1, <1>6, <1>7, CurKept, Zenon DEF CurInv
<1>10. SyncInv'
  <2>1. \A u \in Thread : pc'[u] \in LB!Reinit => pc[u] \in LB!Reinit
        BY <1>6, Zenon DEF LB!Reinit
  <2> QED
        BY <1>0, <2>1, SyncKept, Zenon
<1> QED
      BY <1>0, <1>1, <1>5, <1>8, <1>9, <1>10, OnceKept, Zenon DEF SearchInv, CurInv

LEMMA VisitStep ==
    ASSUME SearchInv, LBTypes, UNCHANGED job, NEW t \in Thread, Visit(t)
    PROVE  SearchInv'
<1>0. StackTypes /\ CurInv /\ OnceInv /\ SyncInv
      BY Zenon DEF SearchInv
<1>1. /\ UNCHANGED <<pc, explored, in_stack, out_stack, level, cur>>
      /\ pc[t] \in {"client", "explore"}
      BY Zenon DEF Visit, lbvars
<1>2. PICK s \in trans[t] :
          /\ trans' = [trans EXCEPT ![t] = @ \ {s}]
          /\ visited' = visited \cup {s}
          /\ new' = [new EXCEPT ![t] = IF s \in visited THEN @ ELSE Append(@, s)]
      BY Zenon DEF Visit
<1>3. s \in State /\ cur[t] # {}
      BY <1>0, <1>2, Zenon DEF StackTypes, CurInv, Cur
<1>4. /\ \A u \in Thread : Own(in_stack[u], out_stack[u], new[u])
      /\ Apart(held, explored, visited)
      BY <1>0, Zenon DEF OnceInv
<1>5. /\ in_stack[t] \in Seq(State) /\ out_stack[t] \in Seq(State)
      /\ new[t] \in Seq(State) /\ Own(in_stack[t], out_stack[t], new[t])
      BY <1>0, <1>4, Zenon DEF StackTypes
<1>6. /\ new'[t] = IF s \in visited THEN new[t] ELSE Append(new[t], s)
      /\ \A u \in Thread : u # t => new'[u] = new[u] /\ trans'[u] = trans[u]
      BY <1>0, <1>2, Zenon DEF StackTypes
<1>7. /\ \A u \in Thread : held[u] = Held(in_stack[u], out_stack[u], new[u])
      /\ \A u \in Thread : held'[u] = Held(in_stack[u], out_stack[u], new'[u])
      BY <1>1, Zenon DEF held
<1>8. Keep(held, held', {t})
      BY <1>6, <1>7, Zenon DEF Keep
<1>9. new'[t] \in Seq(State) /\ OnceInv'
  <2>1. CASE s \in visited
    <3>1. new'[t] = new[t] /\ visited' = visited
          BY <1>2, <1>6, <2>1, Zenon
    <3>2. \A u \in Thread : new'[u] = new[u]
          BY <1>6, <3>1, Zenon
    <3>3. held' = held
          BY <1>1, <3>2, Zenon DEF held
    <3> QED
          BY <1>1, <1>4, <1>5, <3>1, <3>2, <3>3, Zenon DEF OnceInv
  <2>2. CASE s \notin visited
    <3>1. new'[t] = Append(new[t], s)
          BY <1>6, <2>2, Zenon
    <3>2. s \notin Held(in_stack[t], out_stack[t], new[t])
          BY <1>4, <1>7, <2>2, Zenon DEF Apart
    <3>3. /\ Append(new[t], s) \in Seq(State)
          /\ Own(in_stack[t], out_stack[t], Append(new[t], s))
          /\ Held(in_stack[t], out_stack[t], Append(new[t], s))
                = Held(in_stack[t], out_stack[t], new[t]) \cup {s}
          BY <1>3, <1>5, <3>2, HeldVisit
    <3>4. held'[t] = held[t] \cup {s}
          BY <1>7, <3>1, <3>3, Zenon
    <3>5. Apart(held', explored, visited \cup {s})
          BY <1>4, <1>8, <2>2, <3>4, ApartVisit, Zenon
    <3> QED
          BY <1>1, <1>2, <1>4, <1>6, <3>1, <3>3, <3>5, Zenon DEF OnceInv
  <2> QED
        BY <2>1, <2>2, Zenon
<1>10. StackTypes'
  <2>1. new' \in [Thread -> Seq(State)]
        BY <1>0, <1>2, <1>9, Zenon DEF StackTypes
  <2> QED
        BY <1>0, <1>1, <1>2, <1>3, <2>1, Zenon DEF StackTypes
<1>11. Cur(t)'
       BY <1>0, <1>1, <1>3, Zenon DEF Cur, CurInv
<1>12. \A u \in Thread : u # t => Cur(u)'
       BY <1>0, <1>1, <1>6, CurKept, Zenon DEF CurInv
<1> QED
      BY <1>0, <1>1, <1>9, <1>10, <1>11, <1>12, Zenon DEF SearchInv, CurInv, SyncInv

LEMMA ExploredStep ==
    ASSUME SearchInv, LBTypes, UNCHANGED job, NEW t \in Thread, Explored(t)
    PROVE  SearchInv'
<1>0. StackTypes /\ CurInv /\ OnceInv /\ SyncInv
      BY Zenon DEF SearchInv
<1>1. /\ cur[t] # {} /\ trans[t] = {}
      /\ in_stack' = [in_stack EXCEPT ![t] = Pop(@)]
      /\ out_stack' = [out_stack EXCEPT ![t] = @ \o new[t]]
      /\ explored' = explored \cup cur[t]
      /\ cur' = [cur EXCEPT ![t] = {}]
      /\ new' = [new EXCEPT ![t] = <<>>]
      /\ UNCHANGED <<visited, level, trans>>
      BY Zenon DEF Explored
<1>2. pc' = [pc EXCEPT ![t] = "balance"]
      BY Zenon DEF Explored, LB!Explore, LB!Goto
<1>3. in_stack[t] # <<>> /\ cur[t] = {Top(in_stack[t])}
      BY <1>0, <1>1, Zenon DEF CurInv, Cur
<1>4. /\ \A u \in Thread : Own(in_stack[u], out_stack[u], new[u])
      /\ Apart(held, explored, visited)
      BY <1>0, Zenon DEF OnceInv
<1>5. /\ in_stack[t] \in Seq(State) /\ out_stack[t] \in Seq(State)
      /\ new[t] \in Seq(State) /\ Own(in_stack[t], out_stack[t], new[t])
      BY <1>0, <1>4, Zenon DEF StackTypes
<1>6. /\ Pop(in_stack[t]) \in Seq(State) /\ out_stack[t] \o new[t] \in Seq(State)
      /\ Own(Pop(in_stack[t]), out_stack[t] \o new[t], <<>>)
      /\ Top(in_stack[t]) \in Held(in_stack[t], out_stack[t], new[t])
      /\ Held(Pop(in_stack[t]), out_stack[t] \o new[t], <<>>)
            = Held(in_stack[t], out_stack[t], new[t]) \ {Top(in_stack[t])}
      BY <1>3, <1>5, HeldExplored
<1>7. <<>> \in Seq(State) /\ cur[t] \in SUBSET State
      BY <1>0 DEF StackTypes
<1>8. StackTypes'
  <2>1. /\ in_stack' \in [Thread -> Seq(State)]
        /\ out_stack' \in [Thread -> Seq(State)]
        /\ new' \in [Thread -> Seq(State)]
        BY <1>0, <1>1, <1>6, <1>7, Zenon DEF StackTypes
  <2>2. cur' \in [Thread -> SUBSET State] /\ explored' \in SUBSET State
        BY <1>0, <1>1, <1>7, Zenon DEF StackTypes
  <2> QED
        BY <1>0, <1>1, <2>1, <2>2, Zenon DEF StackTypes
<1>9. /\ in_stack'[t] = Pop(in_stack[t]) /\ out_stack'[t] = out_stack[t] \o new[t]
      /\ new'[t] = <<>> /\ cur'[t] = {} /\ trans'[t] = {} /\ pc'[t] = "balance"
      BY <1>0, <1>1, <1>2, Zenon DEF StackTypes, LBTypes
<1>10. \A u \in Thread : u # t =>
          /\ in_stack'[u] = in_stack[u] /\ out_stack'[u] = out_stack[u]
          /\ new'[u] = new[u] /\ cur'[u] = cur[u] /\ trans'[u] = trans[u]
          /\ pc'[u] = pc[u]
       BY <1>0, <1>1, <1>2, Zenon DEF StackTypes, LBTypes
<1>11. /\ \A u \in Thread : held[u] = Held(in_stack[u], out_stack[u], new[u])
       /\ \A u \in Thread : held'[u] = Held(in_stack'[u], out_stack'[u], new'[u])
       BY Zenon DEF held
<1>12. Keep(held, held', {t})
       BY <1>10, <1>11, Zenon DEF Keep
<1>13. Top(in_stack[t]) \in held[t] /\ held'[t] = held[t] \ {Top(in_stack[t])}
       BY <1>6, <1>9, <1>11, Zenon
<1>14. Apart(held', explored \cup {Top(in_stack[t])}, visited)
       BY <1>4, <1>12, <1>13, ApartExplored, Zenon
<1>15. \A u \in Thread : Own(in_stack'[u], out_stack'[u], new'[u])
       BY <1>4, <1>6, <1>9, <1>10, Zenon
<1>16. OnceInv'
       BY <1>1, <1>3, <1>14, <1>15, Zenon DEF OnceInv
<1>17. Cur(t)'
       BY <1>9, Zenon DEF Cur, Exploring
<1>18. \A u \in Thread : u # t => Cur(u)'
       BY <1>0, <1>10, CurKept, Zenon DEF CurInv
<1>19. SyncInv'
  <2>1. \A u \in Thread : pc'[u] \in LB!Reinit => pc[u] \in LB!Reinit
        BY <1>9, <1>10, Zenon DEF LB!Reinit
  <2> QED
        BY <1>0, <2>1, SyncKept, Zenon
<1> QED
      BY <1>8, <1>16, <1>17, <1>18, <1>19, Zenon DEF SearchInv, CurInv

LEMMA EmptyStep ==
    ASSUME SearchInv, LBTypes, UNCHANGED job, NEW t \in Thread, Empty(t)
    PROVE  SearchInv'
<1>0. StackTypes /\ CurInv /\ OnceInv /\ SyncInv
      BY Zenon DEF SearchInv
<1>1. /\ in_stack[t] = <<>>
      /\ UNCHANGED <<visited, explored, cur, trans, new>>
      /\ \/ /\ in_stack' = [in_stack EXCEPT ![t] = out_stack[t]]
            /\ out_stack' = [out_stack EXCEPT ![t] = <<>>]
            /\ level' = [level EXCEPT ![t] = @ + 1]
         \/ UNCHANGED <<in_stack, out_stack, level>>
      BY Zenon DEF Empty
<1>2. pc' = [pc EXCEPT ![t] = "balance"]
      BY Zenon DEF Empty, LB!Explore, LB!Goto
<1>3. cur[t] = {} /\ trans[t] = {} /\ new[t] = <<>>
      BY <1>0, <1>1, Zenon DEF CurInv, Cur
<1>4. /\ \A u \in Thread : Own(in_stack[u], out_stack[u], new[u])
      /\ Apart(held, explored, visited)
      BY <1>0, Zenon DEF OnceInv
<1>5. /\ pc'[t] = "balance" /\ \A u \in Thread : u # t => pc'[u] = pc[u]
      BY <1>0, <1>2, Zenon DEF LBTypes
<1>6. StackTypes'
  <2>1. out_stack[t] \in Seq(State) /\ <<>> \in Seq(State)
        BY <1>0 DEF StackTypes
  <2>2. /\ in_stack' \in [Thread -> Seq(State)]
        /\ out_stack' \in [Thread -> Seq(State)]
        BY <1>0, <1>1, <2>1, Zenon DEF StackTypes
  <2>3. level' \in [Thread -> Nat]
        BY <1>0, <1>1 DEF StackTypes
  <2> QED
        BY <1>0, <1>1, <2>2, <2>3, Zenon DEF StackTypes
<1>7. /\ \A u \in Thread : u # t => in_stack'[u] = in_stack[u] /\ out_stack'[u] = out_stack[u]
      /\ \/ in_stack'[t] = in_stack[t] /\ out_stack'[t] = out_stack[t]
         \/ in_stack'[t] = out_stack[t] /\ out_stack'[t] = in_stack[t]
      BY <1>0, <1>1, Zenon DEF StackTypes
<1>8. /\ Own(out_stack[t], in_stack[t], new[t])
      /\ Held(out_stack[t], in_stack[t], new[t]) = Held(in_stack[t], out_stack[t], new[t])
      BY <1>4, HeldSwap, Zenon
<1>9. \A u \in Thread : Own(in_stack'[u], out_stack'[u], new[u])
      BY <1>4, <1>7, <1>8, Zenon
<1>10. /\ \A u \in Thread : held[u] = Held(in_stack[u], out_stack[u], new[u])
       /\ \A u \in Thread : held'[u] = Held(in_stack'[u], out_stack'[u], new[u])
       BY <1>1, Zenon DEF held
<1>11. Keep(held, held', {})
       BY <1>7, <1>8, <1>10, Zenon DEF Keep
<1>12. Apart(held', explored, visited)
       BY <1>4, <1>11, ApartSame, Zenon
<1>13. OnceInv'
       BY <1>1, <1>9, <1>12, Zenon DEF OnceInv
<1>14. Cur(t)'
       BY <1>1, <1>3, <1>5, Zenon DEF Cur, Exploring
<1>15. \A u \in Thread : u # t => Cur(u)'
       BY <1>0, <1>1, <1>5, <1>7, CurKept, Zenon DEF CurInv
<1>16. SyncInv'
  <2>1. \A u \in Thread : pc'[u] \in LB!Reinit => pc[u] \in LB!Reinit
        BY <1>5, Zenon DEF LB!Reinit
  <2> QED
        BY <1>0, <2>1, SyncKept, Zenon
<1> QED
      BY <1>6, <1>13, <1>14, <1>15, <1>16, Zenon DEF SearchInv, CurInv

\* A worker that is handed states has empty stacks, and explores nothing.
LEMMA ServedIsEmpty ==
    ASSUME SearchInv, BalancerInv, NEW t \in Thread, pc[t] = "split",
           NEW x \in todo[t]
    PROVE  x \in Thread /\ x # t /\ in_stack[x] = <<>> /\ cur[x] = {}
<1>0. StackTypes /\ CurInv /\ LBTypes /\ PhaseInv /\ RequestInv /\ UnservedInv
      BY Zenon DEF SearchInv, BalancerInv
<1>1. x \in Thread
      BY <1>0, Zenon DEF LBTypes
<1>2. x # t
      BY <1>0, <1>1, Zenon DEF RequestInv, LB!Pending
<1>3. pc[x] \notin LB!Reinit
      BY <1>0, <1>1, Zenon DEF PhaseInv, LB!Reinit
<1>4. loads[x] = 0
      BY <1>0, <1>1, <1>3, Zenon DEF UnservedInv, Unserved
<1>5. Len(in_stack[x]) \in Nat /\ Len(out_stack[x]) \in Nat /\ in_stack[x] \in Seq(State)
      BY <1>0, <1>1, LenProperties, Zenon DEF StackTypes
<1>6. Load(x) = 0
      BY <1>1, <1>4, Zenon DEF loads
<1>7. Len(in_stack[x]) = 0
  <2>1. CASE job.strategy = "bfs"
    <3>1. Len(in_stack[x]) + Len(out_stack[x]) = 0
          BY <1>6, <2>1, Zenon DEF Load
    <3>2. \A a, b \in Nat : a + b = 0 => a = 0
          OBVIOUS
    <3> QED
          BY <1>5, <3>1, <3>2, Zenon
  <2>2. CASE job.strategy # "bfs"
    <3>1. Len(in_stack[x]) + 0 = 0
          BY <1>6, <2>2, Zenon DEF Load
    <3> QED
          BY <1>5, <3>1
  <2> QED
        BY <2>1, <2>2, Zenon
<1>8. in_stack[x] = <<>>
      BY <1>5, <1>7, EmptySeq, Zenon
<1> QED
      BY <1>0, <1>1, <1>2, <1>8, Zenon DEF CurInv, Cur

LEMMA SplitStep ==
    ASSUME SearchInv, BalancerInv, UNCHANGED job, NEW t \in Thread, Split(t)
    PROVE  SearchInv'
<1>0. StackTypes /\ CurInv /\ OnceInv /\ SyncInv /\ LBTypes
      BY Zenon DEF SearchInv, BalancerInv
<1>1. /\ UNCHANGED <<visited, explored, level, cur, trans, new>>
      /\ pc[t] = "split"
      BY Zenon DEF Split
<1>2. /\ pc'[t] \in {"reply", "wake"}
      /\ \A u \in Thread : u # t => pc'[u] = pc[u]
      BY <1>0, Zenon DEF Split, LB!Split, LB!Goto, LBTypes
<1>3. /\ in_stack' \in [Thread -> Seq(State)]
      /\ out_stack' \in [Thread -> Seq(State)]
      /\ OnceInv'
      /\ \A u \in Thread : cur[u] # {} => in_stack'[u] = in_stack[u]
  <2>1. CASE ~LB!Serve(t)
        BY <1>0, <1>1, <2>1, OnceKept, Zenon DEF Split, StackTypes
  <2>2. CASE LB!Serve(t)
    <3>1. PICK x \in todo[t] : MoveStates(t, x)
          BY <2>2, Zenon DEF Split
    <3>2. x \in Thread /\ x # t /\ cur[x] = {}
          BY <1>1, ServedIsEmpty, Zenon
    <3>3. cur[t] = {}
          BY <1>0, <1>1, Zenon DEF CurInv, Cur, Exploring
    <3>4. \A u \in Thread : u # t /\ u # x => in_stack'[u] = in_stack[u]
          BY <1>0, <3>1, <3>2, Zenon DEF MoveStates, StackTypes
    <3>5. /\ in_stack' \in [Thread -> Seq(State)]
          /\ out_stack' \in [Thread -> Seq(State)]
          /\ OnceInv'
          BY <1>0, <1>1, <3>1, <3>2, MoveOnce, Zenon
    <3> QED
          BY <3>2, <3>3, <3>4, <3>5, Zenon
  <2> QED
        BY <2>1, <2>2, Zenon
<1>4. StackTypes'
      BY <1>0, <1>1, <1>3, Zenon DEF StackTypes
<1>5. ASSUME NEW u \in Thread PROVE Cur(u)'
  <2>1. Cur(u)
        BY <1>0, Zenon DEF CurInv
  <2>2. CASE cur[u] # {}
    <3>1. u # t
          BY <1>1, <2>1, <2>2, Zenon DEF Cur, Exploring
    <3> QED
          BY <1>1, <1>2, <1>3, <2>1, <2>2, <3>1, CurKept, Zenon
  <2>3. CASE cur[u] = {}
    <3>1. pc'[u] \notin Exploring \ {"client"}
          BY <1>2, <2>1, <2>3, Zenon DEF Cur, Exploring
    <3> QED
          BY <1>1, <2>1, <2>3, <3>1, Zenon DEF Cur
  <2> QED
        BY <2>2, <2>3, Zenon
<1>6. SyncInv'
  <2>1. \A u \in Thread : pc'[u] \in LB!Reinit => pc[u] \in LB!Reinit
        BY <1>2, Zenon DEF LB!Reinit
  <2> QED
        BY <1>0, <2>1, SyncKept, Zenon
<1> QED
      BY <1>3, <1>4, <1>5, <1>6, Zenon DEF SearchInv, CurInv

LEMMA BalancerStep ==
    ASSUME SearchInv, LBTypes, UNCHANGED job, NEW t \in Thread, Balancer(t)
    PROVE  SearchInv'
<1>0. StackTypes /\ CurInv /\ OnceInv /\ SyncInv
      BY Zenon DEF SearchInv
<1>1. UNCHANGED reachvars /\ LBControl(t)
      BY LBStepControl, Zenon DEF Balancer
<1>2. UNCHANGED <<visited, explored, in_stack, out_stack, level, cur, trans, new>>
      BY <1>1, Zenon DEF reachvars
<1>3. StackTypes' /\ OnceInv'
      BY <1>0, <1>2, OnceKept, Zenon DEF StackTypes
<1>4. Cur(t)'
  <2>1. Cur(t)
        BY <1>0, Zenon DEF CurInv
  <2> QED
        BY <1>1, <1>2, <2>1, Zenon DEF Cur, LBControl, Exploring
<1>5. \A u \in Thread : u # t => Cur(u)'
      BY <1>0, <1>1, <1>2, CurKept, Zenon DEF CurInv, LBControl
<1>6. SyncInv'
  <2>1. \A u \in Thread : pc'[u] \in LB!Reinit => pc[u] \in LB!Reinit
        BY <1>1, Zenon DEF LBControl
  <2> QED
        BY <1>0, <2>1, SyncKept, Zenon
<1> QED
      BY <1>3, <1>4, <1>5, <1>6, Zenon DEF SearchInv, CurInv

\* The reduce at the end of a level.
LEMMA LevelReduceStep ==
    ASSUME SearchInv, UNCHANGED job, LevelReduce
    PROVE  SearchInv'
<1>0. StackTypes /\ CurInv /\ OnceInv
      BY Zenon DEF SearchInv
<1>1. UNCHANGED <<visited, explored, in_stack, out_stack, level, cur, trans, new>>
      BY Zenon DEF LevelReduce, reachvars
<1>2. /\ \A u \in Thread : pc[u] = "level" /\ pc'[u] = "reinit_requests"
      /\ job.strategy = "sbfs"
      BY SameThreads, Zenon DEF LevelReduce, LB!LevelReduce
<1>3. StackTypes' /\ OnceInv'
      BY <1>0, <1>1, OnceKept, Zenon DEF StackTypes
<1>4. CurInv'
      BY <1>0, <1>1, <1>2, Zenon DEF CurInv, Cur, Exploring
<1>5. SyncInv'
      BY <1>2, Zenon DEF SyncInv
<1> QED
      BY <1>3, <1>4, <1>5, Zenon DEF SearchInv

\* The swap of the stacks after lb_reinit.
LEMMA SwapStep ==
    ASSUME SearchInv, UNCHANGED job, SwapStacks
    PROVE  SearchInv'
<1>0. StackTypes /\ CurInv /\ OnceInv
      BY Zenon DEF SearchInv
<1>1. /\ UNCHANGED <<visited, explored, cur, trans, new>>
      /\ in_stack' = out_stack /\ out_stack' = in_stack
      /\ level' = [u \in Thread |-> level[u] + 1]
      BY Zenon DEF SwapStacks
<1>2. \A u \in Thread : pc[u] = "reinit_wait" /\ pc'[u] \in {"exit", "test_stop"}
      BY Zenon DEF SwapStacks
<1>3. StackTypes'
  <2>1. level' \in [Thread -> Nat]
        BY <1>0, <1>1 DEF StackTypes
  <2> QED
        BY <1>0, <1>1, <2>1, Zenon DEF StackTypes
<1>4. /\ \A u \in Thread : Own(in_stack[u], out_stack[u], new[u])
      /\ Apart(held, explored, visited)
      BY <1>0, Zenon DEF OnceInv
<1>5. \A u \in Thread :
         /\ Own(out_stack[u], in_stack[u], new[u])
         /\ Held(out_stack[u], in_stack[u], new[u]) = Held(in_stack[u], out_stack[u], new[u])
      BY <1>4, HeldSwap, Zenon
<1>6. /\ \A u \in Thread : held[u] = Held(in_stack[u], out_stack[u], new[u])
      /\ \A u \in Thread : held'[u] = Held(out_stack[u], in_stack[u], new[u])
      BY <1>1, Zenon DEF held
<1>7. Keep(held, held', {})
      BY <1>5, <1>6, Zenon DEF Keep
<1>8. Apart(held', explored, visited)
      BY <1>4, <1>7, ApartSame, Zenon
<1>9. OnceInv'
      BY <1>1, <1>5, <1>8, Zenon DEF OnceInv
<1>10. CurInv'
       BY <1>0, <1>1, <1>2, Zenon DEF CurInv, Cur, Exploring
<1>11. SyncInv'
       BY <1>2, Zenon DEF SyncInv, LB!Reinit
<1> QED
      BY <1>3, <1>9, <1>10, <1>11, Zenon DEF SearchInv

-----------------------------------------------------------------------------
(* What the search finds                                                   *)

Closed(S) == Initial \in S /\ \A s \in S : job.succ[s] \subseteq S

\* No worker has come to --max.
Shallow == \A t \in Thread : level[t] < job.max_level

\* The successors of the state a worker explores are in the store or on their
\* way, and an error has been noticed.
Work(t) ==
    /\ \A s \in cur[t] :
          /\ trans[t] \subseteq job.succ[s]
          /\ level[t] < job.max_level => job.succ[s] \subseteq visited \cup trans[t]
          /\ level[t] < job.max_level /\ s \in job.error => pc[t] # "client"
    /\ pc[t] \in {"stop_done", "explore"} => stopped

FoundInv ==
    /\ Initial \in visited
    /\ \A S \in SUBSET State : Closed(S) => visited \subseteq S
    /\ \A t \in Thread : Work(t)
    /\ Shallow => \A s \in explored : /\ job.succ[s] \subseteq visited
                                      /\ s \in job.error => stopped

\* A step that leaves the exploration of a worker as it is.
WorkOn(u) ==
    /\ level'[u] \in Nat /\ level'[u] >= level[u]
    /\ cur[u] # {} => level'[u] = level[u]
    /\ cur[u] # {} /\ pc[u] # "client" => pc'[u] # "client"
    /\ pc'[u] \in {"stop_done", "explore"} => stopped'

LEMMA FoundKept ==
    ASSUME StackTypes, FoundInv, UNCHANGED <<job, visited, explored, cur, trans>>,
           stopped => stopped', \A u \in Thread : WorkOn(u)
    PROVE  FoundInv'
<1>1. Initial \in visited' /\ \A S \in SUBSET State : Closed(S)' => visited' \subseteq S
      BY Zenon DEF FoundInv, Closed
<1>2. ASSUME NEW u \in Thread PROVE Work(u)'
      BY <1>2, Zenon DEF FoundInv, Work, WorkOn
<1>3. ASSUME Shallow' PROVE Shallow
  <2>1. job.max_level \in Nat
        BY JobType, Zenon DEF StackTypes
  <2>2. ASSUME NEW u \in Thread PROVE level[u] < job.max_level
    <3>1. level[u] \in Nat /\ level'[u] \in Nat /\ level'[u] >= level[u]
          BY Zenon DEF StackTypes, WorkOn
    <3>2. level'[u] < job.max_level
          BY <1>3, Zenon DEF Shallow
    <3>3. \A a, b, c \in Nat : a >= b /\ a < c => b < c
          OBVIOUS
    <3> QED
          BY <2>1, <3>1, <3>2, <3>3, Zenon
  <2> QED
        BY <2>2, Zenon DEF Shallow
<1> QED
      BY <1>1, <1>2, <1>3, Zenon DEF FoundInv

\* A state a worker explores is in the store.
LEMMA CurVisited ==
    ASSUME SearchInv, NEW t \in Thread, cur[t] # {}
    PROVE  cur[t] = {Top(in_stack[t])} /\ Top(in_stack[t]) \in visited
<1>1. cur[t] = {Top(in_stack[t])} /\ in_stack[t] # <<>>
      BY Zenon DEF SearchInv, CurInv, Cur
<1>2. in_stack[t] \in Seq(State) /\ Own(in_stack[t], out_stack[t], new[t])
      BY Zenon DEF SearchInv, StackTypes, OnceInv
<1>3. Top(in_stack[t]) \in Range(in_stack[t])
      BY <1>1, <1>2, PopStack, Zenon DEF Own
<1>4. Apart(held, explored, visited) /\ held[t] = Held(in_stack[t], out_stack[t], new[t])
      BY Zenon DEF SearchInv, OnceInv, held
<1> QED
      BY <1>1, <1>3, <1>4, Zenon DEF Apart, Held

LEMMA FoundBegin ==
    ASSUME SearchInv, LBTypes, FoundInv, UNCHANGED job, NEW t \in Thread, Begin(t)
    PROVE  FoundInv'
<1>0. StackTypes
      BY Zenon DEF SearchInv
<1> DEFINE s == Top(in_stack[t])
           deep == level[t] >= job.max_level
<1>1. /\ UNCHANGED <<visited, explored, level>>
      /\ pc[t] = "client"
      /\ cur' = [cur EXCEPT ![t] = {s}]
      /\ trans' = [trans EXCEPT ![t] = IF deep THEN {} ELSE job.succ[s]]
      BY Zenon DEF Begin
<1>2. /\ pc'[t] \in {"client", "try_stop"}
      /\ s \in job.error /\ ~deep => pc'[t] = "try_stop"
      /\ \A u \in Thread : u # t => pc'[u] = pc[u]
      /\ stopped' = stopped
      BY <1>1, Zenon DEF Begin, lbvars, LB!FindError, LB!Goto, LBTypes
<1>3. cur'[t] = {s} /\ trans'[t] = IF deep THEN {} ELSE job.succ[s]
      BY <1>0, <1>1, Zenon DEF StackTypes
<1>4. \A u \in Thread : u # t => cur'[u] = cur[u] /\ trans'[u] = trans[u]
      BY <1>0, <1>1, Zenon DEF StackTypes
<1>5. ~deep <=> level[t] < job.max_level
      BY <1>0, JobType DEF StackTypes
<1> HIDE DEF s, deep
<1>6. Work(t)'
      BY <1>1, <1>2, <1>3, <1>5 DEF Work
<1>7. ASSUME NEW u \in Thread, u # t PROVE Work(u)'
  <2>1. Work(u)
        BY Zenon DEF FoundInv
  <2> QED
        BY <1>1, <1>2, <1>4, <1>7, <2>1, Zenon DEF Work
<1>8. (Shallow => \A e \in explored : job.succ[e] \subseteq visited /\ (e \in job.error => stopped))'
      BY <1>1, <1>2, Zenon DEF FoundInv, Shallow
<1>9. (Initial \in visited /\ \A S \in SUBSET State : Closed(S) => visited \subseteq S)'
      BY <1>1, Zenon DEF FoundInv, Closed
<1> QED
      BY <1>6, <1>7, <1>8, <1>9, Zenon DEF FoundInv

LEMMA FoundVisit ==
    ASSUME SearchInv, LBTypes, FoundInv, UNCHANGED job, NEW t \in Thread, Visit(t)
    PROVE  FoundInv'
<1>0. StackTypes /\ CurInv
      BY Zenon DEF SearchInv
<1>1. UNCHANGED <<pc, stopped, explored, level, cur>>
      BY Zenon DEF Visit, lbvars
<1>2. PICK s \in trans[t] : /\ trans' = [trans EXCEPT ![t] = @ \ {s}]
                            /\ visited' = visited \cup {s}
      BY Zenon DEF Visit
<1>3. cur[t] # {}
      BY <1>0, <1>2, Zenon DEF CurInv, Cur
<1>4. PICK c \in cur[t] : c \in visited
      BY <1>3, CurVisited, Zenon
<1>5. s \in job.succ[c]
      BY <1>2, <1>4, Zenon DEF FoundInv, Work
<1>6. ASSUME NEW S \in SUBSET State, Closed(S)' PROVE visited' \subseteq S
  <2>1. Closed(S)
        BY <1>6, Zenon DEF Closed
  <2>2. visited \subseteq S
        BY <2>1, Zenon DEF FoundInv
  <2> QED
        BY <1>2, <1>4, <1>5, <2>1, <2>2, Zenon DEF Closed
<1>7. trans'[t] = trans[t] \ {s} /\ \A u \in Thread : u # t => trans'[u] = trans[u]
      BY <1>0, <1>2, Zenon DEF StackTypes
<1>8. ASSUME NEW u \in Thread PROVE Work(u)'
  <2>1. Work(u)
        BY Zenon DEF FoundInv
  <2>2. trans'[u] \subseteq trans[u] /\ visited \cup trans[u] \subseteq visited' \cup trans'[u]
        BY <1>2, <1>7, Zenon
  <2> QED
        BY <1>1, <2>1, <2>2, Zenon DEF Work
<1>9. (Shallow => \A e \in explored : job.succ[e] \subseteq visited /\ (e \in job.error => stopped))'
      BY <1>1, <1>2, Zenon DEF FoundInv, Shallow
<1> QED
      BY <1>2, <1>6, <1>8, <1>9, Zenon DEF FoundInv

LEMMA FoundExplored ==
    ASSUME SearchInv, LBTypes, FoundInv, UNCHANGED job, NEW t \in Thread, Explored(t)
    PROVE  FoundInv'
<1>0. StackTypes /\ CurInv
      BY Zenon DEF SearchInv
<1>1. /\ cur[t] # {} /\ trans[t] = {}
      /\ explored' = explored \cup cur[t]
      /\ cur' = [cur EXCEPT ![t] = {}]
      /\ UNCHANGED <<visited, level, trans>>
      BY Zenon DEF Explored
<1>2. /\ pc[t] \in {"client", "explore"}
      /\ pc' = [pc EXCEPT ![t] = "balance"]
      /\ stopped' = stopped
      BY Zenon DEF Explored, LB!Explore, LB!Goto
<1>3. /\ cur'[t] = {} /\ pc'[t] = "balance"
      /\ \A u \in Thread : u # t => cur'[u] = cur[u] /\ pc'[u] = pc[u]
      BY <1>0, <1>1, <1>2, Zenon DEF StackTypes, LBTypes
<1>4. Work(t)'
      BY <1>3, Zenon DEF Work
<1>5. ASSUME NEW u \in Thread, u # t PROVE Work(u)'
  <2>1. Work(u)
        BY Zenon DEF FoundInv
  <2> QED
        BY <1>1, <1>2, <1>3, <1>5, <2>1, Zenon DEF Work
<1>6. ASSUME Shallow', NEW s \in explored'
      PROVE  job.succ[s] \subseteq visited /\ (s \in job.error => stopped)
  <2>1. Shallow /\ level[t] < job.max_level
        BY <1>1, <1>6, Zenon DEF Shallow
  <2>2. CASE s \in explored
        BY <2>1, <2>2, Zenon DEF FoundInv
  <2>3. CASE s \in cur[t]
    <3>1. Work(t)
          BY Zenon DEF FoundInv
    <3> QED
          BY <1>1, <1>2, <2>1, <2>3, <3>1, Zenon DEF Work
  <2> QED
        BY <1>1, <1>6, <2>2, <2>3, Zenon
<1>7. (Initial \in visited /\ \A S \in SUBSET State : Closed(S) => visited \subseteq S)'
      BY <1>1, Zenon DEF FoundInv, Closed
<1> QED
      BY <1>1, <1>2, <1>4, <1>5, <1>6, <1>7, Zenon DEF FoundInv

\* The other steps find nothing.
LEMMA FoundOther ==
    ASSUME SearchInv, LBTypes, FoundInv, UNCHANGED job,
           \/ \E t \in Thread : Empty(t) \/ Split(t) \/ Balancer(t)
           \/ LevelReduce \/ SwapStacks
    PROVE  FoundInv'
<1>0. StackTypes /\ CurInv
      BY Zenon DEF SearchInv
<1>1. \A u \in Thread : level[u] \in Nat /\ level[u] + 1 \in Nat
      BY <1>0 DEF StackTypes
<1>2. \A u \in Thread : pc[u] \in {"stop_done", "explore"} => stopped
      BY Zenon DEF FoundInv, Work
<1>3. ASSUME NEW t \in Thread, Empty(t) PROVE FoundInv'
  <2>1. /\ in_stack[t] = <<>> /\ UNCHANGED <<visited, explored, cur, trans>>
        /\ level' = [level EXCEPT ![t] = @ + 1] \/ level' = level
        BY <1>3, Zenon DEF Empty
  <2>2. pc' = [pc EXCEPT ![t] = "balance"] /\ stopped' = stopped
        BY <1>3, Zenon DEF Empty, LB!Explore, LB!Goto
  <2>3. cur[t] = {}
        BY <1>0, <2>1, Zenon DEF CurInv, Cur
  <2>4. pc'[t] = "balance" /\ \A u \in Thread : u # t => pc'[u] = pc[u]
        BY <2>2, Zenon DEF LBTypes
  <2>5. \A u \in Thread : /\ level'[u] \in Nat /\ level'[u] >= level[u]
                          /\ u # t => level'[u] = level[u]
        BY <1>0, <1>1, <2>1 DEF StackTypes
  <2>6. \A u \in Thread : WorkOn(u)
        BY <1>2, <2>2, <2>3, <2>4, <2>5, Zenon DEF WorkOn
  <2> QED
        BY <1>0, <2>1, <2>2, <2>6, FoundKept, Zenon
<1>4. ASSUME NEW t \in Thread, Split(t) PROVE FoundInv'
  <2>1. UNCHANGED <<visited, explored, level, cur, trans>>
        BY <1>4, Zenon DEF Split
  <2>2. /\ pc'[t] \in {"reply", "wake"} /\ stopped' = stopped
        /\ \A u \in Thread : u # t => pc'[u] = pc[u]
        BY <1>4, Zenon DEF Split, LB!Split, LB!Goto, LBTypes
  <2>3. \A u \in Thread : WorkOn(u)
        BY <1>1, <1>2, <2>1, <2>2 DEF WorkOn
  <2> QED
        BY <1>0, <2>1, <2>2, <2>3, FoundKept, Zenon
<1>5. ASSUME NEW t \in Thread, Balancer(t) PROVE FoundInv'
  <2>1. UNCHANGED <<visited, explored, level, cur, trans>> /\ LBControl(t)
        BY <1>5, LBStepControl, Zenon DEF Balancer, reachvars
  <2>2. \A u \in Thread : cur[u] # {} => pc[u] \in Exploring
        BY <1>0, Zenon DEF CurInv, Cur
  <2>3. \A u \in Thread : level'[u] \in Nat /\ level'[u] >= level[u] /\ level'[u] = level[u]
        BY <1>1, <2>1
  <2>4. ASSUME NEW u \in Thread PROVE WorkOn(u)
        BY <1>2, <2>1, <2>2, <2>3, Zenon DEF WorkOn, LBControl, Exploring
  <2> QED
        BY <1>0, <2>1, <2>4, FoundKept, Zenon DEF LBControl
<1>6. CASE LevelReduce
  <2>1. UNCHANGED <<visited, explored, level, cur, trans>> /\ stopped' = stopped
        BY <1>6, Zenon DEF LevelReduce, reachvars, LB!LevelReduce
  <2>2. \A u \in Thread : pc'[u] = "reinit_requests"
        BY <1>6, SameThreads, Zenon DEF LevelReduce, LB!LevelReduce
  <2>3. \A u \in Thread : WorkOn(u)
        BY <1>1, <2>1, <2>2 DEF WorkOn
  <2> QED
        BY <1>0, <2>1, <2>3, FoundKept, Zenon
<1>7. CASE SwapStacks
  <2>1. /\ UNCHANGED <<visited, explored, cur, trans>> /\ stopped' = stopped
        /\ level' = [u \in Thread |-> level[u] + 1]
        BY <1>7, Zenon DEF SwapStacks
  <2>2. \A u \in Thread : pc[u] = "reinit_wait" /\ pc'[u] \in {"exit", "test_stop"}
        BY <1>7, Zenon DEF SwapStacks
  <2>3. \A u \in Thread : cur[u] = {}
        BY <1>0, <2>2, Zenon DEF CurInv, Cur, Exploring
  <2>4. \A u \in Thread : level'[u] \in Nat /\ level'[u] >= level[u]
        BY <1>1, <2>1
  <2>5. \A u \in Thread : WorkOn(u)
        BY <2>2, <2>3, <2>4, Zenon DEF WorkOn
  <2> QED
        BY <1>0, <2>1, <2>5, FoundKept, Zenon
<1> QED
      BY <1>3, <1>4, <1>5, <1>6, <1>7, Zenon

-----------------------------------------------------------------------------
(* The theorems                                                            *)

ReachInv == SearchInv /\ BalancerInv /\ FoundInv

LEMMA InitBalancer == Init => BalancerInv /\ SyncInv
<1> SUFFICES ASSUME Init PROVE BalancerInv /\ SyncInv
      BY Zenon
<1>1. /\ pc \in [Thread -> {"balance"}]
      /\ requests = [t \in Thread |-> {}] /\ todo = [t \in Thread |-> {}]
      BY Zenon DEF Init
<1>2. LBTypes
      BY Zenon DEF Init, LBTypes, LB!Label
<1>3. PhaseInv /\ TodoInv /\ SyncInv
      BY <1>1, Zenon DEF PhaseInv, TodoInv, SyncInv, LB!Reinit
<1>4. RequestInv /\ IdleInv
      BY <1>1, Zenon DEF RequestInv, IdleInv, LB!Pending
<1>5. UnservedInv /\ AnswerInv
      BY <1>1, Zenon DEF UnservedInv, AnswerInv, Unserved, Answering
<1>6. ASSUME NEW t \in Thread PROVE loads[t] = my_load[t] /\ my_load[t] \in Nat
  <2>1. loads[t] = Load(t) /\ in_stack[t] = <<>>
        BY Zenon DEF loads, Init
  <2>2. /\ out_stack[t] = IF t = 0 THEN <<Initial>> ELSE <<>>
        /\ my_load[t] = IF t = 0 /\ job.strategy = "bfs" THEN 1 ELSE 0
        BY Zenon DEF Init
  <2>3. Len(<<>>) = 0 /\ Len(<<Initial>>) = 1
        BY Zenon
  <2> QED
        BY <2>1, <2>2, <2>3 DEF Load
<1>7. loads \in [Thread -> Nat] /\ KnowsInv
  <2>1. \A t \in Thread : loads[t] \in Nat /\ loads[t] <= my_load[t]
        BY <1>6
  <2>2. loads = [t \in Thread |-> loads[t]]
        BY Zenon DEF loads
  <2> QED
        BY <2>1, <2>2, Zenon DEF KnowsInv, Knows
<1> QED
      BY <1>2, <1>3, <1>4, <1>5, <1>7, Zenon DEF BalancerInv

LEMMA InitReach == Init => ReachInv
<1> SUFFICES ASSUME Init PROVE ReachInv
      BY Zenon
<1>0. 0 \in Thread /\ Initial \in State
      BY WorkerAssumption, ModelAssumption DEF Thread
<1>1. /\ visited = {Initial} /\ explored = {}
      /\ \A t \in Thread : /\ in_stack[t] = <<>> /\ new[t] = <<>>
                           /\ out_stack[t] = IF t = 0 THEN <<Initial>> ELSE <<>>
                           /\ cur[t] = {} /\ trans[t] = {} /\ pc[t] = "balance"
      BY Zenon DEF Init
<1>2. <<>> \in Seq(State) /\ <<Initial>> \in Seq(State)
      BY <1>0
<1>3. StackTypes
  <2>1. out_stack \in [Thread -> Seq(State)]
        BY <1>2, Zenon DEF Init
  <2>2. in_stack \in [Thread -> Seq(State)] /\ new \in [Thread -> Seq(State)]
        BY <1>2, Zenon DEF Init
  <2> QED
        BY <1>0, <2>1, <2>2, Zenon DEF StackTypes, Init
<1>4. CurInv
      BY <1>1, Zenon DEF CurInv, Cur, Exploring
<1>5. IsInjective(<<Initial>>) /\ Range(<<Initial>>) = {Initial}
      BY DEF IsInjective, Range
<1>6. \A t \in Thread : Own(in_stack[t], out_stack[t], new[t])
      BY <1>1, <1>5, EmptyStack, Zenon DEF Own
<1>7. \A t \in Thread : held[t] = IF t = 0 THEN {Initial} ELSE {}
  <2>1. \A t \in Thread : held[t] = Held(in_stack[t], out_stack[t], new[t])
        BY Zenon DEF held
  <2> QED
        BY <1>1, <1>5, <2>1, EmptyStack, Zenon DEF Held
<1>8. UNION {held[t] : t \in Thread} = {Initial}
      BY <1>0, <1>7, Zenon
<1>9. OnceInv
      BY <1>1, <1>6, <1>7, <1>8, Zenon DEF OnceInv, Apart
<1>10. FoundInv
       BY <1>1, Zenon DEF FoundInv, Closed, Work
<1> QED
      BY <1>3, <1>4, <1>9, <1>10, InitBalancer, Zenon DEF ReachInv, SearchInv

\* Every step keeps what the balancer promises.
LEMMA BalancerInvStep ==
    ASSUME BalancerInv, BalancerMove, loads' \in [Thread -> Nat]
    PROVE  BalancerInv'
<1>1. /\ LBTypes /\ loads \in [Thread -> Nat] /\ PhaseInv /\ TodoInv /\ RequestInv
      /\ IdleInv /\ UnservedInv /\ AnswerInv /\ KnowsInv
      BY Zenon DEF BalancerInv
<1>2. LBTypes' /\ PhaseInv'
      BY <1>1, LBTypesStep, PhaseStep, Zenon
<1>3. TodoInv' /\ RequestInv' /\ IdleInv'
      BY <1>1, TodoStep, RequestStep, IdleStep, Zenon
<1>4. UnservedInv' /\ AnswerInv' /\ KnowsInv'
      BY <1>1, UnservedStep, AnswerStep, KnowsStep, Zenon
<1> QED
      BY <1>2, <1>3, <1>4, Zenon DEF BalancerInv

LEMMA ReachStep == ReachInv /\ [Next]_vars => ReachInv'
<1> SUFFICES ASSUME ReachInv, [Next]_vars PROVE ReachInv'
      BY Zenon
<1>1. CASE UNCHANGED vars
  <2>1. /\ UNCHANGED <<job, lbvars, reachvars>> /\ UNCHANGED loads
        BY <1>1, Zenon DEF vars, lbvars, reachvars, loads, Load
  <2>2. SearchInv'
    <3>1. StackTypes' /\ CurInv' /\ SyncInv'
          BY <2>1, Zenon DEF ReachInv, SearchInv, StackTypes, CurInv, Cur, SyncInv,
             reachvars, lbvars
    <3> QED
          BY <2>1, <3>1, OnceKept, Zenon DEF ReachInv, SearchInv, reachvars
  <2>3. BalancerInv'
    <3>1. BalancerMove /\ loads' \in [Thread -> Nat]
          BY <2>1, Zenon DEF BalancerMove, ReachInv, BalancerInv
    <3> QED
          BY <3>1, BalancerInvStep, Zenon DEF ReachInv
  <2>4. FoundInv'
        BY <2>1, Zenon DEF ReachInv, FoundInv, Work, Shallow, Closed, reachvars, lbvars
  <2> QED
        BY <2>2, <2>3, <2>4, Zenon DEF ReachInv
<1>2. CASE UNCHANGED job /\ Step
  <2>0. SearchInv /\ BalancerInv /\ FoundInv /\ LBTypes /\ StackTypes /\ SyncInv
        BY Zenon DEF ReachInv, SearchInv, BalancerInv
  <2>1. SearchInv' /\ FoundInv'
    <3>1. ASSUME NEW t \in Thread, Begin(t) PROVE SearchInv' /\ FoundInv'
          BY <1>2, <2>0, <3>1, BeginStep, FoundBegin, Zenon
    <3>2. ASSUME NEW t \in Thread, Visit(t) PROVE SearchInv' /\ FoundInv'
          BY <1>2, <2>0, <3>2, VisitStep, FoundVisit, Zenon
    <3>3. ASSUME NEW t \in Thread, Explored(t) PROVE SearchInv' /\ FoundInv'
          BY <1>2, <2>0, <3>3, ExploredStep, FoundExplored, Zenon
    <3>4. ASSUME NEW t \in Thread, Empty(t) PROVE SearchInv' /\ FoundInv'
          BY <1>2, <2>0, <3>4, EmptyStep, FoundOther, Zenon
    <3>5. ASSUME NEW t \in Thread, Split(t) PROVE SearchInv' /\ FoundInv'
          BY <1>2, <2>0, <3>5, SplitStep, FoundOther, Zenon
    <3>6. ASSUME NEW t \in Thread, Balancer(t) PROVE SearchInv' /\ FoundInv'
          BY <1>2, <2>0, <3>6, BalancerStep, FoundOther, Zenon
    <3>7. CASE LevelReduce
          BY <1>2, <2>0, <3>7, LevelReduceStep, FoundOther, Zenon
    <3>8. CASE SwapStacks
          BY <1>2, <2>0, <3>8, SwapStep, FoundOther, Zenon
    <3> QED
          BY <1>2, <3>1, <3>2, <3>3, <3>4, <3>5, <3>6, <3>7, <3>8, Zenon DEF Step
  <2>2. loads' \in [Thread -> Nat]
    <3>1. /\ in_stack' \in [Thread -> Seq(State)]
          /\ out_stack' \in [Thread -> Seq(State)]
          BY <2>1, Zenon DEF SearchInv, StackTypes
    <3> DEFINE in == in_stack'
               out == out_stack'
               strategy == job'.strategy
    <3>2. loads' = [t \in Thread |-> Len(in[t]) + (IF strategy = "bfs" THEN Len(out[t]) ELSE 0)]
          BY Zenon DEF loads, Load
    <3> HIDE DEF in, out, strategy
    <3>3. in \in [Thread -> Seq(State)] /\ out \in [Thread -> Seq(State)]
          BY <3>1, Zenon DEF in, out
    <3> QED
          BY <3>2, <3>3, LoadsType
  <2>3. BalancerMove
        BY <1>2, <2>0, BalancerView, Zenon DEF Next
  <2>4. BalancerInv'
        BY <2>0, <2>2, <2>3, BalancerInvStep, Zenon
  <2> QED
        BY <2>1, <2>4, Zenon DEF ReachInv
<1> QED
      BY <1>1, <1>2, Zenon DEF Next, Finished

\* The workers of a search never mix up their stacks: at every moment, for any
\* number of workers, any model and both strategies, the stacks of dfs_stack
\* and the balancer of lb.c agree (ReachInv).
THEOREM ReachInductive == Spec => []ReachInv
<1>1. Init => ReachInv
      BY InitReach, Zenon
<1>2. ReachInv /\ [Next]_vars => ReachInv'
      BY ReachStep, Zenon
<1> QED
      BY <1>1, <1>2, PTL DEF Spec

\* A worker that takes itself for idle has no states.
LEMMA IdleIsEmpty ==
    ASSUME ReachInv, NEW t \in Thread, pc[t] \in {"scan", "request", "set_done"}
    PROVE  Load(t) = 0
<1>1. loads[t] = 0
      BY Zenon DEF ReachInv, BalancerInv, UnservedInv
<1> QED
      BY <1>1, Zenon DEF loads

LEMMA OnceReach == ReachInv => EachStateOnce
<1> SUFFICES ASSUME ReachInv PROVE EachStateOnce
      BY Zenon
<1>1. /\ \A t \in Thread : Own(in_stack[t], out_stack[t], new[t])
      /\ Apart(held, explored, visited) /\ CurInv
      BY Zenon DEF ReachInv, SearchInv, OnceInv
<1>2. \A t \in Thread : held[t] = Range(in_stack[t]) \cup Range(out_stack[t]) \cup Range(new[t])
      BY Zenon DEF held, Held
<1>3. UNION {Range(p) : p \in Places} = UNION {held[t] : t \in Thread}
  <2>1. ASSUME NEW t \in Thread PROVE held[t] \subseteq UNION {Range(p) : p \in Places}
        BY <1>2, Zenon DEF Places
  <2>2. ASSUME NEW p \in Places PROVE Range(p) \subseteq UNION {held[t] : t \in Thread}
        BY <1>2, Zenon DEF Places
  <2> QED
        BY <2>1, <2>2, Zenon
<1>4. visited = explored \cup UNION {Range(p) : p \in Places}
      BY <1>1, <1>3, Zenon DEF Apart
<1>5. ASSUME NEW p \in Places PROVE IsInjective(p) /\ Range(p) \cap explored = {}
  <2>1. PICK t \in Thread : p = in_stack[t] \/ p = out_stack[t] \/ p = new[t]
        BY Zenon DEF Places
  <2>2. IsInjective(p)
        BY <1>1, <2>1, Zenon DEF Own
  <2>3. Range(p) \subseteq held[t] /\ held[t] \cap explored = {}
        BY <1>1, <1>2, <2>1, Zenon DEF Apart
  <2> QED
        BY <2>2, <2>3, Zenon
<1>6. ASSUME NEW t \in Thread, NEW u \in Thread
      PROVE  /\ t # u => Range(in_stack[t]) \cap Range(in_stack[u]) = {}
             /\ t # u => Range(out_stack[t]) \cap Range(out_stack[u]) = {}
             /\ t # u => Range(new[t]) \cap Range(new[u]) = {}
             /\ Range(in_stack[t]) \cap Range(out_stack[u]) = {}
             /\ Range(new[t]) \cap (Range(in_stack[u]) \cup Range(out_stack[u])) = {}
  <2>1. CASE t = u
        BY <1>1, <2>1, Zenon DEF Own
  <2>2. CASE t # u
    <3>1. held[t] \cap held[u] = {}
          BY <1>1, <2>2, Zenon DEF Apart
    <3> QED
          BY <1>2, <2>2, <3>1, Zenon
  <2> QED
        BY <2>1, <2>2, Zenon
<1>7. \A t \in Thread : cur[t] # {} => in_stack[t] # <<>> /\ cur[t] = {Top(in_stack[t])}
      BY <1>1, Zenon DEF CurInv, Cur
<1> QED
      BY <1>4, <1>5, <1>6, <1>7, IdleIsEmpty, Zenon DEF EachStateOnce

\* The states the workers pass each other (split_bfs, split_sbfs, sbfs_level)
\* are never lost and never explored twice, the state being explored stays on
\* top of its stack, and only a worker without states waits for work.
THEOREM StatesOnce == Spec => []EachStateOnce
      BY ReachInductive, OnceReach, PTL

\* The store holds reachable states only: it is part of every set that has the
\* initial state and is closed under the successor function.  When all stacks
\* are empty and no worker came to --max, it is itself such a set and all its
\* states were explored; and if nobody called lb_stop, none of them is a
\* deadlock or a violation that bfs_explore_state looks for.
SearchExact ==
    /\ \A S \in SUBSET State : Closed(S) => visited \subseteq S
    /\ (\A t \in Thread : in_stack[t] = <<>> /\ out_stack[t] = <<>>) /\ Shallow =>
          /\ explored = visited /\ Closed(visited)
          /\ ~stopped => job.error \cap visited = {}

LEMMA ExactReach == ReachInv => SearchExact
<1> SUFFICES ASSUME ReachInv PROVE SearchExact
      BY Zenon
<1>1. FoundInv /\ CurInv /\ Apart(held, explored, visited)
      BY Zenon DEF ReachInv, SearchInv, OnceInv
<1>2. ASSUME \A t \in Thread : in_stack[t] = <<>> /\ out_stack[t] = <<>>, Shallow
      PROVE  /\ explored = visited /\ Closed(visited)
             /\ ~stopped => job.error \cap visited = {}
  <2>1. \A t \in Thread : new[t] = <<>>
        BY <1>1, <1>2, Zenon DEF CurInv, Cur
  <2>2. \A t \in Thread : held[t] = {}
    <3>1. \A t \in Thread : held[t] = Held(in_stack[t], out_stack[t], new[t])
          BY Zenon DEF held
    <3> QED
          BY <1>2, <2>1, <3>1, EmptyStack, Zenon DEF Held
  <2>3. explored = visited
        BY <1>1, <2>2 DEF Apart
  <2> QED
        BY <1>1, <1>2, <2>3, Zenon DEF FoundInv, Closed
<1> QED
      BY <1>1, <1>2, Zenon DEF SearchExact, FoundInv

\* A search that ran out of states found exactly the reachable ones, and its
\* verdict is right.
THEOREM FindsReachable == Spec => []SearchExact
      BY ReachInductive, ExactReach, PTL
=============================================================================
