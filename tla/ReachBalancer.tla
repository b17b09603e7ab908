-------------------------- MODULE ReachBalancer ---------------------------
(***************************************************************************)
(* Lemmas for the proofs about Reach: what pushing, popping and cutting do *)
(* to the states on a stack; the protocol of the load balancer when the    *)
(* loads are the lengths of real stacks (the theorems on LoadBalancer do   *)
(* not carry over to its instance); and how the steps of the search look   *)
(* to the balancer.                                                        *)
(***************************************************************************)
EXTENDS Reach, SequenceTheorems, TLAPS

-----------------------------------------------------------------------------
(* Stacks                                                                  *)

\* dfs_stack_pop: what the stack holds without its top.
LEMMA PopStack ==
    ASSUME NEW S, NEW s \in Seq(S), s # <<>>, IsInjective(s)
    PROVE  /\ Pop(s) \in Seq(S)
           /\ IsInjective(Pop(s))
           /\ Top(s) \in Range(s)
           /\ Range(Pop(s)) = Range(s) \ {Top(s)}
           /\ Len(Pop(s)) = Len(s) - 1
<1>1. Len(s) \in Nat /\ Len(s) >= 1 /\ DOMAIN s = 1 .. Len(s)
      BY EmptySeq, LenProperties
<1>2. /\ Pop(s) \in Seq(S)
      /\ Len(Pop(s)) = Len(s) - 1
      /\ \A i \in 1 .. Len(s) - 1 : Pop(s)[i] = s[i]
      BY <1>1, SubSeqProperties DEF Pop
<1>3. DOMAIN Pop(s) = 1 .. Len(s) - 1
      BY <1>2, LenProperties, Zenon
<1>4. IsInjective(Pop(s))
      BY <1>1, <1>2, <1>3 DEF IsInjective
<1>5. Top(s) \in Range(s)
      BY <1>1 DEF Top, Range
<1>6. \A i \in 1 .. Len(s) - 1 : s[i] # Top(s)
      BY <1>1 DEF Top, IsInjective
<1>7. Range(Pop(s)) = {s[i] : i \in 1 .. Len(s) - 1}
      BY <1>2, <1>3, Zenon DEF Range
<1>8. Range(s) = {s[i] : i \in 1 .. Len(s)}
      BY <1>1, Zenon DEF Range
<1>9. Range(Pop(s)) = Range(s) \ {Top(s)}
      BY <1>1, <1>6, <1>7, <1>8 DEF Top
<1> QED
      BY <1>2, <1>4, <1>5, <1>9, Zenon

\* Pushing the states of one stack on another.
LEMMA PushStates ==
    ASSUME NEW S, NEW r \in Seq(S), NEW s \in Seq(S),
           IsInjective(r), IsInjective(s), Range(r) \cap Range(s) = {}
    PROVE  /\ r \o s \in Seq(S)
           /\ IsInjective(r \o s)
           /\ Range(r \o s) = Range(r) \cup Range(s)
           /\ Len(r \o s) = Len(r) + Len(s)
<1>1. /\ r \o s \in Seq(S)
      /\ Len(r \o s) = Len(r) + Len(s)
      /\ \A i \in 1 .. Len(r) + Len(s) :
            (r \o s)[i] = IF i <= Len(r) THEN r[i] ELSE s[i - Len(r)]
      BY ConcatProperties, Zenon
<1>2. /\ DOMAIN (r \o s) = 1 .. Len(r) + Len(s)
      /\ DOMAIN r = 1 .. Len(r) /\ DOMAIN s = 1 .. Len(s)
      /\ Len(r) \in Nat /\ Len(s) \in Nat
      BY <1>1, LenProperties, Zenon
<1>3. ASSUME NEW i \in 1 .. Len(r) + Len(s)
      PROVE  \/ i \in 1 .. Len(r) /\ (r \o s)[i] = r[i]
             \/ i - Len(r) \in 1 .. Len(s) /\ (r \o s)[i] = s[i - Len(r)]
      BY <1>1, <1>2
<1>4. \A i \in 1 .. Len(r), j \in 1 .. Len(s) : r[i] # s[j]
      BY <1>2, Zenon DEF Range
<1>5. ASSUME NEW i \in 1 .. Len(r) + Len(s), NEW j \in 1 .. Len(r) + Len(s),
             (r \o s)[i] = (r \o s)[j]
      PROVE  i = j
  <2>1. CASE i \in 1 .. Len(r) /\ (r \o s)[i] = r[i]
    <3>1. j \in 1 .. Len(r) /\ (r \o s)[j] = r[j]
          BY <1>3, <1>4, <1>5, <2>1, Zenon
    <3> QED
          BY <1>2, <1>5, <2>1, <3>1, Zenon DEF IsInjective
  <2>2. CASE i - Len(r) \in 1 .. Len(s) /\ (r \o s)[i] = s[i - Len(r)]
    <3>1. j - Len(r) \in 1 .. Len(s) /\ (r \o s)[j] = s[j - Len(r)]
          BY <1>3, <1>4, <1>5, <2>2, Zenon
    <3>2. i - Len(r) = j - Len(r)
          BY <1>2, <1>5, <2>2, <3>1, Zenon DEF IsInjective
    <3> QED
          BY <1>2, <3>2
  <2> QED
        BY <1>3, <2>1, <2>2, Zenon
<1>6. IsInjective(r \o s)
      BY <1>2, <1>5, Zenon DEF IsInjective
<1> QED
      BY <1>1, <1>6, RangeConcatenation

\* reach_handle: pushing one new state.
LEMMA PushState ==
    ASSUME NEW S, NEW s \in Seq(S), NEW x \in S, IsInjective(s), x \notin Range(s)
    PROVE  /\ Append(s, x) \in Seq(S)
           /\ IsInjective(Append(s, x))
           /\ Range(Append(s, x)) = Range(s) \cup {x}
<1> DEFINE r == <<x>>
<1>1. /\ r \in Seq(S) /\ IsInjective(r) /\ Range(r) = {x}
      BY DEF IsInjective, Range
<1>2. Append(s, x) = s \o r
      BY AppendIsConcat, Zenon
<1> HIDE DEF r
<1>3. Range(s) \cap Range(r) = {}
      BY <1>1, Zenon
<1>4. /\ s \o r \in Seq(S)
      /\ IsInjective(s \o r)
      /\ Range(s \o r) = Range(s) \cup Range(r)
      BY <1>1, <1>3, PushStates
<1> QED
      BY <1>1, <1>2, <1>4, Zenon

\* The states at the bottom of a stack.
LEMMA LowerPart ==
    ASSUME NEW S, NEW s \in Seq(S), NEW k \in Nat, k <= Len(s)
    PROVE  /\ SubSeq(s, 1, k) \in Seq(S) /\ Len(SubSeq(s, 1, k)) = k
           /\ \A i \in 1 .. k : SubSeq(s, 1, k)[i] = s[i]
<1>1. Len(s) \in Nat /\ \A i \in 1 .. Len(s) : s[i] \in S
      BY LenProperties, ElementOfSeq, Zenon
<1>2. \A i \in 1 .. k : s[i] \in S
      BY <1>1
<1>3. /\ SubSeq(s, 1, k) \in Seq(S)
      /\ Len(SubSeq(s, 1, k)) = IF 1 <= k THEN k - 1 + 1 ELSE 0
      /\ \A i \in 1 .. k - 1 + 1 : SubSeq(s, 1, k)[i] = s[1 + i - 1]
      BY <1>2, SubSeqProperties
<1>4. (IF 1 <= k THEN k - 1 + 1 ELSE 0) = k /\ k - 1 + 1 = k
      OBVIOUS
<1>5. \A i \in 1 .. k : 1 + i - 1 = i
      OBVIOUS
<1> QED
      BY <1>3, <1>4, <1>5, Zenon

\* The top n states of s are moved to another stack, the top state first.
Cut(s, n, rest, moved) ==
    /\ Len(rest) = Len(s) - n /\ Len(moved) = n
    /\ \A i \in 1 .. Len(s) - n : rest[i] = s[i]
    /\ \A i \in 1 .. n : moved[i] = s[Len(s) - i + 1]

LEMMA CutRange ==
    ASSUME NEW S, NEW s \in Seq(S), NEW n \in Nat, n <= Len(s), IsInjective(s),
           NEW rest \in Seq(S), NEW moved \in Seq(S), Cut(s, n, rest, moved)
    PROVE  /\ rest \in Seq(S) /\ moved \in Seq(S)
           /\ IsInjective(rest) /\ IsInjective(moved)
           /\ Range(rest) \cup Range(moved) = Range(s)
           /\ Range(rest) \cap Range(moved) = {}
<1> USE DEF Cut
<1>1. Len(s) \in Nat /\ DOMAIN s = 1 .. Len(s)
      BY LenProperties, Zenon
<1>2. DOMAIN moved = 1 .. n
      BY LenProperties, Zenon
<1>3. DOMAIN rest = 1 .. Len(s) - n
      BY LenProperties, Zenon
<1>4. IsInjective(rest)
      BY <1>1, <1>3 DEF IsInjective
<1>5. ASSUME NEW i \in 1 .. n, NEW j \in 1 .. n, moved[i] = moved[j]
       PROVE  i = j
  <2>1. Len(s) - i + 1 \in 1 .. Len(s) /\ Len(s) - j + 1 \in 1 .. Len(s)
        BY <1>1
  <2>2. s[Len(s) - i + 1] = s[Len(s) - j + 1]
        BY <1>5, Zenon
  <2>3. Len(s) - i + 1 = Len(s) - j + 1
        BY <1>1, <2>1, <2>2, Zenon DEF IsInjective
  <2> QED
        BY <1>1, <2>3
<1>6. IsInjective(moved)
       BY <1>2, <1>5, Zenon DEF IsInjective
<1>7. ASSUME NEW i \in 1 .. Len(s) - n, NEW j \in 1 .. n PROVE rest[i] # moved[j]
  <2>1. Len(s) - j + 1 \in 1 .. Len(s) /\ i \in 1 .. Len(s) /\ i # Len(s) - j + 1
        BY <1>1
  <2>2. rest[i] = s[i] /\ moved[j] = s[Len(s) - j + 1]
        BY Zenon
  <2> QED
        BY <1>1, <2>1, <2>2, Zenon DEF IsInjective
<1>8. ASSUME NEW e \in Range(rest), e \in Range(moved) PROVE FALSE
  <2>1. PICK i \in 1 .. Len(s) - n : e = rest[i]
        BY <1>3, Zenon DEF Range
  <2>2. PICK j \in 1 .. n : e = moved[j]
        BY <1>2, <1>8, Zenon DEF Range
  <2> QED
        BY <1>7, <2>1, <2>2, Zenon
<1>9. Range(rest) \cup Range(moved) \subseteq Range(s)
  <2>1. \A i \in 1 .. Len(s) - n : rest[i] \in Range(s)
    <3> TAKE i \in 1 .. Len(s) - n
    <3>1. i \in 1 .. Len(s) /\ rest[i] = s[i]
          BY <1>1
    <3> QED
          BY <1>1, <3>1, Zenon DEF Range
  <2>2. \A i \in 1 .. n : moved[i] \in Range(s)
    <3> TAKE i \in 1 .. n
    <3>1. Len(s) - i + 1 \in 1 .. Len(s)
          BY <1>1
    <3> QED
          BY <1>1, <3>1, Zenon DEF Range
  <2> QED
        BY <1>2, <1>3, <2>1, <2>2, Zenon DEF Range
<1>10. ASSUME NEW i \in 1 .. Len(s) PROVE s[i] \in Range(rest) \cup Range(moved)
  <2>1. CASE i <= Len(s) - n
    <3>1. i \in 1 .. Len(s) - n /\ rest[i] = s[i]
          BY <1>1, <2>1
    <3> QED
          BY <1>3, <3>1, Zenon DEF Range
  <2>2. CASE ~(i <= Len(s) - n)
    <3>1. Len(s) - i + 1 \in 1 .. n
          BY <1>1, <2>2
    <3>2. moved[Len(s) - i + 1] = s[Len(s) - (Len(s) - i + 1) + 1]
          BY <3>1, Zenon
    <3>3. Len(s) - (Len(s) - i + 1) + 1 = i
          BY <1>1
    <3> QED
          BY <1>2, <3>1, <3>2, <3>3, Zenon DEF Range
  <2> QED
        BY <2>1, <2>2, Zenon
<1>11. Range(s) \subseteq Range(rest) \cup Range(moved)
       BY <1>1, <1>10, Zenon DEF Range
<1> QED
      BY <1>4, <1>6, <1>8, <1>9, <1>11, Zenon

\* split_bfs and split_sbfs: the top of a stack, popped state by state.
Popped(s, n, rest, moved) ==
    /\ rest = SubSeq(s, 1, Len(s) - n)
    /\ moved = [i \in 1 .. n |-> s[Len(s) - i + 1]]

LEMMA CutElements ==
    ASSUME NEW S, NEW s \in Seq(S), NEW n \in Nat, n <= Len(s),
           NEW rest, NEW moved, Popped(s, n, rest, moved)
    PROVE  rest \in Seq(S) /\ moved \in Seq(S) /\ Cut(s, n, rest, moved)
<1> DEFINE k == Len(s) - n
<1>1. Len(s) \in Nat /\ k \in Nat /\ k <= Len(s)
      BY LenProperties
<1>2. /\ rest \in Seq(S) /\ Len(rest) = k
      /\ \A i \in 1 .. k : rest[i] = s[i]
      BY <1>1, LowerPart, Zenon DEF Popped
<1>3. moved = [i \in 1 .. n |-> s[Len(s) - i + 1]]
      BY Zenon DEF Popped
<1>4. \A i \in 1 .. n : Len(s) - i + 1 \in 1 .. Len(s)
      BY <1>1
<1>5. moved \in [1 .. n -> S]
      BY <1>3, <1>4, ElementOfSeq, Zenon
<1>6. moved \in Seq(S)
      BY <1>5, SeqDef
<1>7. Len(moved) = n
      BY <1>5, <1>6, LenProperties
<1>8. \A i \in 1 .. n : moved[i] = s[Len(s) - i + 1]
      BY <1>3, Zenon
<1> QED
      BY <1>2, <1>6, <1>7, <1>8, Zenon DEF Cut

LEMMA CutStack ==
    ASSUME NEW S, NEW s \in Seq(S), NEW n \in Nat, n <= Len(s), IsInjective(s),
           NEW rest, NEW moved, Popped(s, n, rest, moved)
    PROVE  /\ rest \in Seq(S) /\ moved \in Seq(S)
           /\ IsInjective(rest) /\ IsInjective(moved)
           /\ Range(rest) \cup Range(moved) = Range(s)
           /\ Range(rest) \cap Range(moved) = {}
           /\ Len(rest) = Len(s) - n /\ Len(moved) = n
<1>1. rest \in Seq(S) /\ moved \in Seq(S) /\ Cut(s, n, rest, moved)
      BY CutElements, Zenon
<1>2. Len(rest) = Len(s) - n /\ Len(moved) = n
      BY <1>1, Zenon DEF Cut
<1> QED
      BY <1>1, <1>2, CutRange
-----------------------------------------------------------------------------
(* The search as the balancer sees it                                      *)

\* What a worker does to the state of the balancer.
LBAction(t) == LB!Explore(t) \/ LB!FindError(t) \/ LB!Split(t) \/ LBStep(t)

\* The barrier at the end of sbfs_level.
Barrier ==
    /\ \A t \in Thread : pc[t] = "reinit_wait"
    /\ my_load' = loads'
    /\ pc' = [t \in Thread |-> "exit"] \/ pc' = [t \in Thread |-> "test_stop"]
    /\ UNCHANGED <<stopped, all_done, idle, requests, received, oid, wait_reply,
                   todo, given>>

BalancerMove ==
    \/ \E t \in Thread : LBAction(t)
    \/ LB!LevelReduce
    \/ Barrier
    \/ UNCHANGED <<lbvars, loads>>

LBTypes ==
    /\ stopped \in BOOLEAN
    /\ all_done \in BOOLEAN
    /\ idle \in [Thread -> BOOLEAN]
    /\ requests \in [Thread -> SUBSET Thread]
    /\ received \in [Thread -> Nat]
    /\ my_load \in [Thread -> Nat]
    /\ wait_reply \in [Thread -> BOOLEAN]
    /\ todo \in [Thread -> SUBSET Thread]
    /\ given \in [Thread -> Nat]
    /\ pc \in [Thread -> LB!Label]

\* The reduce and the barrier move all workers together.
PhaseInv ==
    \/ \A t \in Thread : pc[t] \in LB!Reinit
    \/ \A t \in Thread : pc[t] \notin LB!Reinit

\* Only a worker inside handoff has collected requests, and a request is
\* either collected or not.
TodoInv ==
    \A t \in Thread :
       /\ pc[t] \notin {"split", "reply", "wake"} => todo[t] = {}
       /\ requests[t] \cap todo[t] = {}

\* A worker has at most one request out (RequestProtocol of LoadBalancer).
RequestInv ==
    \A x, t \in Thread : LB!Pending(x, t) =>
       /\ x # t
       /\ \A u \in Thread : LB!Pending(x, u) => u = t
       /\ \/ LB!Requesting(x)
          \/ all_done /\ pc[x] \in LB!Abandoned
          \/ pc[x] \in LB!Reinit /\ pc[t] = "reinit_requests"

\* A worker that scans or is about to send a request is idle, and a requestor
\* stays idle until it is answered.
IdleInv ==
    /\ \A t \in Thread : pc[t] \in {"scan", "request", "set_done"} => idle[t]
    /\ \A x, t \in Thread : LB!Pending(x, t) /\ pc[x] \notin LB!Reinit => idle[x]

\* The request of x is at t, and t has not handed it any states.
Unserved(x, t) ==
    \/ x \in requests[t]
    \/ x \in todo[t] /\ ~(pc[t] \in {"reply", "wake"} /\ LB!First(t, x))

\* t has handed x its share and is about to say how much that was.
Answering(t, x) == pc[t] = "reply" /\ x \in todo[t] /\ LB!First(t, x)

\* A worker that asks for states has none until it is served.
UnservedInv ==
    /\ \A x, t \in Thread :
          Unserved(x, t) /\ pc[x] \notin LB!Reinit => loads[x] = 0
    /\ \A x \in Thread : pc[x] \in {"scan", "request", "set_done"} => loads[x] = 0

\* The answer tells a worker that still waits for it of all it was handed.
AnswerInv ==
    \A x, t \in Thread : Answering(t, x) /\ LB!Requesting(x) =>
       loads[x] <= my_load[x] + given[t]

\* A worker has at most the load it believes it has, unless it is being handed
\* states, or it gave up waiting because all_done is set.
Knows(x) ==
    \/ loads[x] <= my_load[x]
    \/ LB!Requesting(x) /\ \E t \in Thread : Answering(t, x)
    \/ /\ LB!Requesting(x) \/ pc[x] = "take"
       /\ loads[x] <= my_load[x] + received[x]
    \/ all_done /\ pc[x] \in LB!Abandoned
    \/ pc[x] \in LB!Reinit

KnowsInv == \A x \in Thread : Knows(x)

BalancerInv ==
    /\ LBTypes
    /\ loads \in [Thread -> Nat]
    /\ PhaseInv
    /\ TodoInv
    /\ RequestInv
    /\ IdleInv
    /\ UnservedInv
    /\ AnswerInv
    /\ KnowsInv

LEMMA SameThreads == LB!Thread = Thread
      BY Zenon DEF LB!Thread, Thread

\* The requestor handoff answers next is the one with the lowest number.
LEMMA FirstUnique ==
    ASSUME NEW t \in Thread, NEW x \in Thread, NEW y \in Thread,
           LB!First(t, x), LB!First(t, y)
    PROVE  x = y
<1>1. x \in Int /\ y \in Int /\ x <= y /\ y <= x
      BY WorkerAssumption DEF Thread, LB!First
<1> QED
      BY <1>1

\* Every step keeps the types of the fields of lb_t and of the locals.
LEMMA LBTypesStep ==
    ASSUME LBTypes, loads' \in [Thread -> Nat],
           BalancerMove
    PROVE  LBTypes'
<1> USE DEF LBTypes, LB!Label
<1>1. ASSUME NEW t \in Thread, LB!Explore(t) PROVE LBTypes'
      BY <1>1, Zenon DEF LB!Explore, LB!Goto
<1>2. ASSUME NEW t \in Thread, LB!FindError(t) PROVE LBTypes'
      BY <1>2, Zenon DEF LB!FindError, LB!Goto
<1>3. ASSUME NEW t \in Thread, LB!TryStop(t) PROVE LBTypes'
      BY <1>3, Zenon DEF LB!TryStop, LB!Goto
<1>4. ASSUME NEW t \in Thread, LB!StopDone(t) PROVE LBTypes'
      BY <1>4, Zenon DEF LB!StopDone, LB!Goto
<1>5. ASSUME NEW t \in Thread, LB!Balance(t) PROVE LBTypes'
      BY <1>5, Zenon DEF LB!Balance, LB!Goto
<1>6. ASSUME NEW t \in Thread, LB!CheckAllDone(t) PROVE LBTypes'
      BY <1>6, Zenon DEF LB!CheckAllDone, LB!Goto
<1>7. ASSUME NEW t \in Thread, LB!Leave(t) PROVE LBTypes'
      BY <1>7, Zenon DEF LB!Leave, LB!Goto
<1>8. ASSUME NEW t \in Thread, LB!UpdateIdle(t) PROVE LBTypes'
  <2>1. (my_load[t] = 0) \in BOOLEAN
        BY Zenon
  <2>2. idle' \in [Thread -> BOOLEAN]
        BY <1>8, <2>1, Zenon DEF LB!UpdateIdle
  <2> QED
        BY <1>8, <2>2, Zenon DEF LB!UpdateIdle, LB!Goto
<1>9. ASSUME NEW t \in Thread, LB!Scan(t) PROVE LBTypes'
      BY <1>9, Zenon DEF LB!Scan, LB!Goto
<1>10. ASSUME NEW t \in Thread, LB!SetAllDone(t) PROVE LBTypes'
      BY <1>10, Zenon DEF LB!SetAllDone, LB!Goto
<1>11. ASSUME NEW t \in Thread, LB!RequestRandom(t) PROVE LBTypes'
  <2>1. requests' \in [Thread -> SUBSET Thread]
        BY <1>11, SameThreads DEF LB!RequestRandom
  <2> QED
        BY <1>11, <2>1, Zenon DEF LB!RequestRandom, LB!Goto
<1>12. ASSUME NEW t \in Thread, LB!Collect(t) PROVE LBTypes'
      BY <1>12, Zenon DEF LB!Collect, LB!Goto, LB!AfterHandoff
<1>13. ASSUME NEW t \in Thread, LB!Split(t) PROVE LBTypes'
  <2>1. CASE LB!Serve(t)
    <3>1. PICK x \in todo[t], n \in 0 .. my_load[t] \div 2 :
             /\ my_load' = [my_load EXCEPT ![t] = @ - n]
             /\ given' = [given EXCEPT ![t] = n]
             /\ LB!Goto(t, "reply")
          BY <1>13, <2>1, Zenon DEF LB!Split
    <3>2. my_load[t] \in Nat
          BY Zenon
    <3>3. n \in Nat /\ my_load[t] - n \in Nat
          BY <3>1, <3>2
    <3> QED
          BY <1>13, <3>1, <3>3, Zenon DEF LB!Split, LB!Goto
  <2>2. CASE ~LB!Serve(t)
        BY <1>13, <2>2, Zenon DEF LB!Split, LB!Goto
  <2> QED
        BY <2>1, <2>2, Zenon
<1>14. ASSUME NEW t \in Thread, LB!Reply(t) PROVE LBTypes'
      BY <1>14, Zenon DEF LB!Reply, LB!Goto, LB!First
<1>15. ASSUME NEW t \in Thread, LB!Wake(t) PROVE LBTypes'
  <2>1. PICK x \in todo[t] :
             /\ idle' = [idle EXCEPT ![x] = FALSE]
             /\ todo' = [todo EXCEPT ![t] = @ \ {x}]
             /\ LB!Goto(t, IF todo[t] = {x} THEN LB!AfterHandoff(t) ELSE "split")
        BY <1>15, Zenon DEF LB!Wake
  <2>2. /\ idle' \in [Thread -> BOOLEAN]
        /\ todo' \in [Thread -> SUBSET Thread]
        BY <2>1, Zenon
  <2>3. pc' \in [Thread -> LB!Label]
        BY <2>1, Zenon DEF LB!Goto, LB!AfterHandoff
  <2> QED
        BY <1>15, <2>2, <2>3, Zenon DEF LB!Wake
<1>16. ASSUME NEW t \in Thread, LB!WaitIdle(t) PROVE LBTypes'
      BY <1>16, Zenon DEF LB!WaitIdle, LB!Goto
<1>17. ASSUME NEW t \in Thread, LB!WaitDone(t) PROVE LBTypes'
      BY <1>17, Zenon DEF LB!WaitDone, LB!Goto
<1>18. ASSUME NEW t \in Thread, LB!Take(t) PROVE LBTypes'
  <2>1. my_load' \in [Thread -> Nat]
        BY <1>18 DEF LB!Take
  <2> QED
        BY <1>18, <2>1, Zenon DEF LB!Take, LB!Goto
<1>19. ASSUME NEW t \in Thread, LB!Clear(t) PROVE LBTypes'
      BY <1>19, Zenon DEF LB!Clear, LB!Goto
<1>20. ASSUME NEW t \in Thread, LB!ReinitRequests(t) PROVE LBTypes'
      BY <1>20, Zenon DEF LB!ReinitRequests, LB!Goto
<1>21. ASSUME NEW t \in Thread, LB!ReinitDone(t) PROVE LBTypes'
      BY <1>21, Zenon DEF LB!ReinitDone, LB!Goto
<1>22. ASSUME NEW t \in Thread, LB!ReinitIdle(t) PROVE LBTypes'
      BY <1>22, Zenon DEF LB!ReinitIdle, LB!Goto
<1>26. ASSUME NEW t \in Thread, LB!TestStop(t) PROVE LBTypes'
      BY <1>26, Zenon DEF LB!TestStop, LB!Goto
<1>23. CASE LB!LevelReduce
      BY <1>23, SameThreads, Zenon DEF LB!LevelReduce
<1>24. CASE Barrier
      BY <1>24, Zenon DEF Barrier
<1>25. CASE UNCHANGED <<lbvars, loads>>
      BY <1>25, Zenon DEF lbvars
<1> QED
      BY <1>1, <1>2, <1>3, <1>4, <1>5, <1>6, <1>7, <1>8, <1>9, <1>10,
         <1>11, <1>12, <1>13, <1>14, <1>15, <1>16, <1>17, <1>18, <1>19, <1>20,
         <1>21, <1>22, <1>23, <1>24, <1>25, <1>26, Zenon
      DEF BalancerMove, LBAction, LBStep

\* Only the reduce and the barrier move workers into and out of lb_reinit.
LEMMA PhaseStep ==
    ASSUME LBTypes, PhaseInv,
           BalancerMove
    PROVE  PhaseInv'
<1> USE DEF LBTypes, PhaseInv, LB!Reinit
<1>1. ASSUME NEW t \in Thread, LB!Explore(t) PROVE PhaseInv'
      BY <1>1, Zenon DEF LB!Explore, LB!Goto
<1>2. ASSUME NEW t \in Thread, LB!FindError(t) PROVE PhaseInv'
      BY <1>2, Zenon DEF LB!FindError, LB!Goto
<1>3. ASSUME NEW t \in Thread, LB!TryStop(t) PROVE PhaseInv'
      BY <1>3, Zenon DEF LB!TryStop, LB!Goto
<1>4. ASSUME NEW t \in Thread, LB!StopDone(t) PROVE PhaseInv'
      BY <1>4, Zenon DEF LB!StopDone, LB!Goto
<1>5. ASSUME NEW t \in Thread, LB!Balance(t) PROVE PhaseInv'
      BY <1>5, Zenon DEF LB!Balance, LB!Goto
<1>6. ASSUME NEW t \in Thread, LB!CheckAllDone(t) PROVE PhaseInv'
      BY <1>6, Zenon DEF LB!CheckAllDone, LB!Goto
<1>7. ASSUME NEW t \in Thread, LB!Leave(t) PROVE PhaseInv'
      BY <1>7, Zenon DEF LB!Leave, LB!Goto
<1>8. ASSUME NEW t \in Thread, LB!UpdateIdle(t) PROVE PhaseInv'
      BY <1>8, Zenon DEF LB!UpdateIdle, LB!Goto
<1>9. ASSUME NEW t \in Thread, LB!Scan(t) PROVE PhaseInv'
      BY <1>9, Zenon DEF LB!Scan, LB!Goto
<1>10. ASSUME NEW t \in Thread, LB!SetAllDone(t) PROVE PhaseInv'
      BY <1>10, Zenon DEF LB!SetAllDone, LB!Goto
<1>11. ASSUME NEW t \in Thread, LB!RequestRandom(t) PROVE PhaseInv'
      BY <1>11, SameThreads, Zenon DEF LB!RequestRandom, LB!Goto
<1>12. ASSUME NEW t \in Thread, LB!Collect(t) PROVE PhaseInv'
      BY <1>12, Zenon DEF LB!Collect, LB!Goto, LB!AfterHandoff
<1>13. ASSUME NEW t \in Thread, LB!Split(t) PROVE PhaseInv'
      BY <1>13, Zenon DEF LB!Split, LB!Goto, LB!First, LB!Serve
<1>14. ASSUME NEW t \in Thread, LB!Reply(t) PROVE PhaseInv'
      BY <1>14, Zenon DEF LB!Reply, LB!Goto, LB!First
<1>15. ASSUME NEW t \in Thread, LB!Wake(t) PROVE PhaseInv'
      BY <1>15 DEF LB!Wake, LB!Goto, LB!AfterHandoff, LB!First
<1>16. ASSUME NEW t \in Thread, LB!WaitIdle(t) PROVE PhaseInv'
      BY <1>16, Zenon DEF LB!WaitIdle, LB!Goto
<1>17. ASSUME NEW t \in Thread, LB!WaitDone(t) PROVE PhaseInv'
      BY <1>17, Zenon DEF LB!WaitDone, LB!Goto
<1>18. ASSUME NEW t \in Thread, LB!Take(t) PROVE PhaseInv'
      BY <1>18, Zenon DEF LB!Take, LB!Goto
<1>19. ASSUME NEW t \in Thread, LB!Clear(t) PROVE PhaseInv'
      BY <1>19, Zenon DEF LB!Clear, LB!Goto
<1>20. ASSUME NEW t \in Thread, LB!ReinitRequests(t) PROVE PhaseInv'
      BY <1>20, Zenon DEF LB!ReinitRequests, LB!Goto
<1>21. ASSUME NEW t \in Thread, LB!ReinitDone(t) PROVE PhaseInv'
      BY <1>21, Zenon DEF LB!ReinitDone, LB!Goto
<1>22. ASSUME NEW t \in Thread, LB!ReinitIdle(t) PROVE PhaseInv'
      BY <1>22, Zenon DEF LB!ReinitIdle, LB!Goto
<1>26. ASSUME NEW t \in Thread, LB!TestStop(t) PROVE PhaseInv'
      BY <1>26, Zenon DEF LB!TestStop, LB!Goto
<1>23. CASE LB!LevelReduce
      BY <1>23, SameThreads, Zenon DEF LB!LevelReduce
<1>24. CASE Barrier
      BY <1>24, Zenon DEF Barrier
<1>25. CASE UNCHANGED <<lbvars, loads>>
      BY <1>25, Zenon DEF lbvars
<1> QED
      BY <1>1, <1>2, <1>3, <1>4, <1>5, <1>6, <1>7, <1>8, <1>9, <1>10,
         <1>11, <1>12, <1>13, <1>14, <1>15, <1>16, <1>17, <1>18, <1>19, <1>20,
         <1>21, <1>22, <1>23, <1>24, <1>25, <1>26, Zenon
      DEF BalancerMove, LBAction, LBStep

\* Only handoff holds collected requests.
LEMMA TodoStep ==
    ASSUME LBTypes, TodoInv, RequestInv,
           BalancerMove
    PROVE  TodoInv'
<1> USE DEF LBTypes, TodoInv, RequestInv, LB!Pending, LB!Requesting, LB!Waiting,
              LB!Abandoned, LB!Reinit
<1>1. ASSUME NEW t \in Thread, LB!Explore(t) PROVE TodoInv'
      BY <1>1 DEF LB!Explore, LB!Goto
<1>2. ASSUME NEW t \in Thread, LB!FindError(t) PROVE TodoInv'
      BY <1>2 DEF LB!FindError, LB!Goto
<1>3. ASSUME NEW t \in Thread, LB!TryStop(t) PROVE TodoInv'
      BY <1>3 DEF LB!TryStop, LB!Goto
<1>4. ASSUME NEW t \in Thread, LB!StopDone(t) PROVE TodoInv'
      BY <1>4 DEF LB!StopDone, LB!Goto
<1>5. ASSUME NEW t \in Thread, LB!Balance(t) PROVE TodoInv'
      BY <1>5 DEF LB!Balance, LB!Goto
<1>6. ASSUME NEW t \in Thread, LB!CheckAllDone(t) PROVE TodoInv'
      BY <1>6 DEF LB!CheckAllDone, LB!Goto
<1>7. ASSUME NEW t \in Thread, LB!Leave(t) PROVE TodoInv'
      BY <1>7 DEF LB!Leave, LB!Goto
<1>8. ASSUME NEW t \in Thread, LB!UpdateIdle(t) PROVE TodoInv'
      BY <1>8 DEF LB!UpdateIdle, LB!Goto
<1>9. ASSUME NEW t \in Thread, LB!Scan(t) PROVE TodoInv'
      BY <1>9 DEF LB!Scan, LB!Goto
<1>10. ASSUME NEW t \in Thread, LB!SetAllDone(t) PROVE TodoInv'
      BY <1>10 DEF LB!SetAllDone, LB!Goto
<1>11. ASSUME NEW t \in Thread, LB!RequestRandom(t) PROVE TodoInv'
  <2>1. PICK res \in Thread \ {t} : requests' = [requests EXCEPT ![res] = @ \cup {t}]
        BY <1>11, SameThreads, Zenon DEF LB!RequestRandom
  <2>2. \A u \in Thread : t \notin todo[u]
        BY <1>11, Zenon DEF LB!RequestRandom
  <2>3. /\ todo' = todo /\ pc[t] = "request" /\ pc' = [pc EXCEPT ![t] = "collect"]
        BY <1>11, SameThreads, Zenon DEF LB!RequestRandom, LB!Goto
  <2>4. \A u \in Thread : requests'[u] \subseteq requests[u] \cup {t}
        BY <2>1
  <2>5. \A u \in Thread : requests'[u] \cap todo'[u] = {}
        BY <2>2, <2>3, <2>4
  <2>6. \A u \in Thread : pc'[u] \notin {"split", "reply", "wake"} => todo'[u] = {}
        BY <2>3
  <2> QED
        BY <2>5, <2>6, Zenon
<1>12. ASSUME NEW t \in Thread, LB!Collect(t) PROVE TodoInv'
      BY <1>12 DEF LB!Collect, LB!Goto, LB!AfterHandoff
<1>13. ASSUME NEW t \in Thread, LB!Split(t) PROVE TodoInv'
      BY <1>13 DEF LB!Split, LB!Goto, LB!First, LB!Serve
<1>14. ASSUME NEW t \in Thread, LB!Reply(t) PROVE TodoInv'
      BY <1>14 DEF LB!Reply, LB!Goto, LB!First
<1>15. ASSUME NEW t \in Thread, LB!Wake(t) PROVE TodoInv'
      BY <1>15 DEF LB!Wake, LB!Goto, LB!AfterHandoff, LB!First
<1>16. ASSUME NEW t \in Thread, LB!WaitIdle(t) PROVE TodoInv'
      BY <1>16 DEF LB!WaitIdle, LB!Goto
<1>17. ASSUME NEW t \in Thread, LB!WaitDone(t) PROVE TodoInv'
      BY <1>17 DEF LB!WaitDone, LB!Goto
<1>18. ASSUME NEW t \in Thread, LB!Take(t) PROVE TodoInv'
      BY <1>18 DEF LB!Take, LB!Goto
<1>19. ASSUME NEW t \in Thread, LB!Clear(t) PROVE TodoInv'
      BY <1>19 DEF LB!Clear, LB!Goto
<1>20. ASSUME NEW t \in Thread, LB!ReinitRequests(t) PROVE TodoInv'
      BY <1>20 DEF LB!ReinitRequests, LB!Goto
<1>21. ASSUME NEW t \in Thread, LB!ReinitDone(t) PROVE TodoInv'
      BY <1>21 DEF LB!ReinitDone, LB!Goto
<1>22. ASSUME NEW t \in Thread, LB!ReinitIdle(t) PROVE TodoInv'
      BY <1>22 DEF LB!ReinitIdle, LB!Goto
<1>26. ASSUME NEW t \in Thread, LB!TestStop(t) PROVE TodoInv'
      BY <1>26 DEF LB!TestStop, LB!Goto
<1>23. CASE LB!LevelReduce
      BY <1>23, SameThreads, Zenon DEF LB!LevelReduce
<1>24. CASE Barrier
      BY <1>24, Zenon DEF Barrier
<1>25. CASE UNCHANGED <<lbvars, loads>>
      BY <1>25, Zenon DEF lbvars
<1> QED
      BY <1>1, <1>2, <1>3, <1>4, <1>5, <1>6, <1>7, <1>8, <1>9, <1>10,
         <1>11, <1>12, <1>13, <1>14, <1>15, <1>16, <1>17, <1>18, <1>19, <1>20,
         <1>21, <1>22, <1>23, <1>24, <1>25, <1>26, Zenon
      DEF BalancerMove, LBAction, LBStep

\* The request protocol is kept by every step.
LEMMA RequestStep ==
    ASSUME LBTypes, PhaseInv, TodoInv, RequestInv, IdleInv,
           BalancerMove
    PROVE  RequestInv'
<1> USE DEF LBTypes, PhaseInv, TodoInv, RequestInv, IdleInv, LB!Pending,
              LB!Requesting, LB!Waiting, LB!Abandoned, LB!Reinit
<1>1. ASSUME NEW t \in Thread, LB!Explore(t) PROVE RequestInv'
      BY <1>1 DEF LB!Explore, LB!Goto
<1>2. ASSUME NEW t \in Thread, LB!FindError(t) PROVE RequestInv'
      BY <1>2 DEF LB!FindError, LB!Goto
<1>3. ASSUME NEW t \in Thread, LB!TryStop(t) PROVE RequestInv'
      BY <1>3 DEF LB!TryStop, LB!Goto
<1>4. ASSUME NEW t \in Thread, LB!StopDone(t) PROVE RequestInv'
      BY <1>4 DEF LB!StopDone, LB!Goto
<1>5. ASSUME NEW t \in Thread, LB!Balance(t) PROVE RequestInv'
      BY <1>5 DEF LB!Balance, LB!Goto
<1>6. ASSUME NEW t \in Thread, LB!CheckAllDone(t) PROVE RequestInv'
      BY <1>6 DEF LB!CheckAllDone, LB!Goto
<1>7. ASSUME NEW t \in Thread, LB!Leave(t) PROVE RequestInv'
      BY <1>7 DEF LB!Leave, LB!Goto
<1>8. ASSUME NEW t \in Thread, LB!UpdateIdle(t) PROVE RequestInv'
      BY <1>8 DEF LB!UpdateIdle, LB!Goto
<1>9. ASSUME NEW t \in Thread, LB!Scan(t) PROVE RequestInv'
  <2>1. /\ pc[t] = "scan" /\ pc'[t] \in {"scan", "request", "set_done"}
        /\ \A y \in Thread : y # t => pc'[y] = pc[y]
        /\ UNCHANGED <<requests, todo, wait_reply, all_done>>
        BY <1>9 DEF LB!Scan, LB!Goto
  <2> QED
        BY <2>1
<1>10. ASSUME NEW t \in Thread, LB!SetAllDone(t) PROVE RequestInv'
      BY <1>10 DEF LB!SetAllDone, LB!Goto
<1>11. ASSUME NEW t \in Thread, LB!RequestRandom(t) PROVE RequestInv'
      BY <1>11, SameThreads DEF LB!RequestRandom, LB!Goto
<1>12. ASSUME NEW t \in Thread, LB!Collect(t) PROVE RequestInv'
      BY <1>12 DEF LB!Collect, LB!Goto, LB!AfterHandoff
<1>13. ASSUME NEW t \in Thread, LB!Split(t) PROVE RequestInv'
  <2>1. UNCHANGED <<requests, todo, wait_reply, all_done>>
        BY <1>13, Zenon DEF LB!Split
  <2>2. pc[t] = "split" /\ pc' \in {[pc EXCEPT ![t] = "reply"], [pc EXCEPT ![t] = "wake"]}
        BY <1>13, Zenon DEF LB!Split, LB!Goto
  <2> QED
        BY <2>1, <2>2
<1>14. ASSUME NEW t \in Thread, LB!Reply(t) PROVE RequestInv'
      BY <1>14 DEF LB!Reply, LB!Goto, LB!First
<1>15. ASSUME NEW t \in Thread, LB!Wake(t) PROVE RequestInv'
      BY <1>15 DEF LB!Wake, LB!Goto, LB!AfterHandoff, LB!First
<1>16. ASSUME NEW t \in Thread, LB!WaitIdle(t) PROVE RequestInv'
      BY <1>16 DEF LB!WaitIdle, LB!Goto
<1>17. ASSUME NEW t \in Thread, LB!WaitDone(t) PROVE RequestInv'
      BY <1>17 DEF LB!WaitDone, LB!Goto
<1>18. ASSUME NEW t \in Thread, LB!Take(t) PROVE RequestInv'
      BY <1>18 DEF LB!Take, LB!Goto
<1>19. ASSUME NEW t \in Thread, LB!Clear(t) PROVE RequestInv'
      BY <1>19 DEF LB!Clear, LB!Goto
<1>20. ASSUME NEW t \in Thread, LB!ReinitRequests(t) PROVE RequestInv'
      BY <1>20 DEF LB!ReinitRequests, LB!Goto
<1>21. ASSUME NEW t \in Thread, LB!ReinitDone(t) PROVE RequestInv'
      BY <1>21 DEF LB!ReinitDone, LB!Goto
<1>22. ASSUME NEW t \in Thread, LB!ReinitIdle(t) PROVE RequestInv'
      BY <1>22 DEF LB!ReinitIdle, LB!Goto
<1>26. ASSUME NEW t \in Thread, LB!TestStop(t) PROVE RequestInv'
      BY <1>26 DEF LB!TestStop, LB!Goto
<1>23. CASE LB!LevelReduce
      BY <1>23, SameThreads DEF LB!LevelReduce
<1>24. CASE Barrier
      BY <1>24, Zenon DEF Barrier
<1>25. CASE UNCHANGED <<lbvars, loads>>
      BY <1>25 DEF lbvars
<1> QED
      BY <1>1, <1>2, <1>3, <1>4, <1>5, <1>6, <1>7, <1>8, <1>9, <1>10,
         <1>11, <1>12, <1>13, <1>14, <1>15, <1>16, <1>17, <1>18, <1>19, <1>20,
         <1>21, <1>22, <1>23, <1>24, <1>25, <1>26, Zenon
      DEF BalancerMove, LBAction, LBStep

\* A requestor is idle until it is answered.
LEMMA IdleStep ==
    ASSUME LBTypes, PhaseInv, TodoInv, RequestInv, IdleInv,
           BalancerMove
    PROVE  IdleInv'
<1> USE DEF LBTypes, PhaseInv, TodoInv, RequestInv, IdleInv, LB!Pending,
              LB!Requesting, LB!Waiting, LB!Abandoned, LB!Reinit
<1>1. ASSUME NEW t \in Thread, LB!Explore(t) PROVE IdleInv'
      BY <1>1 DEF LB!Explore, LB!Goto
<1>2. ASSUME NEW t \in Thread, LB!FindError(t) PROVE IdleInv'
      BY <1>2 DEF LB!FindError, LB!Goto
<1>3. ASSUME NEW t \in Thread, LB!TryStop(t) PROVE IdleInv'
      BY <1>3 DEF LB!TryStop, LB!Goto
<1>4. ASSUME NEW t \in Thread, LB!StopDone(t) PROVE IdleInv'
      BY <1>4 DEF LB!StopDone, LB!Goto
<1>5. ASSUME NEW t \in Thread, LB!Balance(t) PROVE IdleInv'
      BY <1>5 DEF LB!Balance, LB!Goto
<1>6. ASSUME NEW t \in Thread, LB!CheckAllDone(t) PROVE IdleInv'
      BY <1>6 DEF LB!CheckAllDone, LB!Goto
<1>7. ASSUME NEW t \in Thread, LB!Leave(t) PROVE IdleInv'
      BY <1>7 DEF LB!Leave, LB!Goto
<1>8. ASSUME NEW t \in Thread, LB!UpdateIdle(t) PROVE IdleInv'
  <2>1. my_load[t] = 0 => idle'[t] = TRUE
    <3>1. idle'[t] = (my_load[t] = 0)
          BY <1>8 DEF LB!UpdateIdle
    <3> QED
          BY <3>1, Zenon
  <2>2. \A x \in Thread : ~LB!Pending(t, x)
        BY <1>8, Zenon DEF LB!UpdateIdle
  <2>3. \A x \in Thread : x /= t => idle'[x] = idle[x] /\ pc'[x] = pc[x]
        BY <1>8 DEF LB!UpdateIdle, LB!Goto
  <2>4. pc'[t] \in {"scan", "request", "set_done"} => my_load[t] = 0
        BY <1>8 DEF LB!UpdateIdle, LB!Goto
  <2>5. \A x, y \in Thread : (LB!Pending(x, y))' <=> LB!Pending(x, y)
        BY <1>8, Zenon DEF LB!UpdateIdle
  <2> QED
        BY <2>1, <2>2, <2>3, <2>4, <2>5
<1>9. ASSUME NEW t \in Thread, LB!Scan(t) PROVE IdleInv'
      BY <1>9 DEF LB!Scan, LB!Goto
<1>10. ASSUME NEW t \in Thread, LB!SetAllDone(t) PROVE IdleInv'
      BY <1>10 DEF LB!SetAllDone, LB!Goto
<1>11. ASSUME NEW t \in Thread, LB!RequestRandom(t) PROVE IdleInv'
      BY <1>11, SameThreads DEF LB!RequestRandom, LB!Goto
<1>12. ASSUME NEW t \in Thread, LB!Collect(t) PROVE IdleInv'
      BY <1>12 DEF LB!Collect, LB!Goto, LB!AfterHandoff
<1>13. ASSUME NEW t \in Thread, LB!Split(t) PROVE IdleInv'
      BY <1>13 DEF LB!Split, LB!Goto, LB!First, LB!Serve
<1>14. ASSUME NEW t \in Thread, LB!Reply(t) PROVE IdleInv'
      BY <1>14 DEF LB!Reply, LB!Goto, LB!First
<1>15. ASSUME NEW t \in Thread, LB!Wake(t) PROVE IdleInv'
      BY <1>15 DEF LB!Wake, LB!Goto, LB!AfterHandoff, LB!First
<1>16. ASSUME NEW t \in Thread, LB!WaitIdle(t) PROVE IdleInv'
      BY <1>16 DEF LB!WaitIdle, LB!Goto
<1>17. ASSUME NEW t \in Thread, LB!WaitDone(t) PROVE IdleInv'
      BY <1>17 DEF LB!WaitDone, LB!Goto
<1>18. ASSUME NEW t \in Thread, LB!Take(t) PROVE IdleInv'
      BY <1>18 DEF LB!Take, LB!Goto
<1>19. ASSUME NEW t \in Thread, LB!Clear(t) PROVE IdleInv'
      BY <1>19 DEF LB!Clear, LB!Goto
<1>20. ASSUME NEW t \in Thread, LB!ReinitRequests(t) PROVE IdleInv'
      BY <1>20 DEF LB!ReinitRequests, LB!Goto
<1>21. ASSUME NEW t \in Thread, LB!ReinitDone(t) PROVE IdleInv'
      BY <1>21 DEF LB!ReinitDone, LB!Goto
<1>22. ASSUME NEW t \in Thread, LB!ReinitIdle(t) PROVE IdleInv'
      BY <1>22 DEF LB!ReinitIdle, LB!Goto
<1>26. ASSUME NEW t \in Thread, LB!TestStop(t) PROVE IdleInv'
      BY <1>26 DEF LB!TestStop, LB!Goto
<1>23. CASE LB!LevelReduce
      BY <1>23, SameThreads, Zenon DEF LB!LevelReduce
<1>24. CASE Barrier
      BY <1>24, Zenon DEF Barrier
<1>25. CASE UNCHANGED <<lbvars, loads>>
      BY <1>25, Zenon DEF lbvars
<1> QED
      BY <1>1, <1>2, <1>3, <1>4, <1>5, <1>6, <1>7, <1>8, <1>9, <1>10,
         <1>11, <1>12, <1>13, <1>14, <1>15, <1>16, <1>17, <1>18, <1>19, <1>20,
         <1>21, <1>22, <1>23, <1>24, <1>25, <1>26, Zenon
      DEF BalancerMove, LBAction, LBStep

\* A worker that asks for states has none until it is served.
LEMMA UnservedStep ==
    ASSUME LBTypes, PhaseInv, TodoInv, RequestInv, IdleInv,
           UnservedInv, AnswerInv, KnowsInv,
           loads \in [Thread -> Nat], loads' \in [Thread -> Nat],
           BalancerMove
    PROVE  UnservedInv'
<1> USE DEF LBTypes, PhaseInv, TodoInv, RequestInv, LB!Pending, LB!Requesting,
              LB!Waiting, LB!Abandoned, LB!Reinit,
              UnservedInv, Unserved, LB!First
<1>1. ASSUME NEW t \in Thread, LB!Explore(t) PROVE UnservedInv'
      BY <1>1 DEF LB!Explore, LB!Goto
<1>2. ASSUME NEW t \in Thread, LB!FindError(t) PROVE UnservedInv'
      BY <1>2 DEF LB!FindError, LB!Goto
<1>3. ASSUME NEW t \in Thread, LB!TryStop(t) PROVE UnservedInv'
      BY <1>3 DEF LB!TryStop, LB!Goto
<1>4. ASSUME NEW t \in Thread, LB!StopDone(t) PROVE UnservedInv'
      BY <1>4 DEF LB!StopDone, LB!Goto
<1>5. ASSUME NEW t \in Thread, LB!Balance(t) PROVE UnservedInv'
      BY <1>5 DEF LB!Balance, LB!Goto
<1>6. ASSUME NEW t \in Thread, LB!CheckAllDone(t) PROVE UnservedInv'
      BY <1>6 DEF LB!CheckAllDone, LB!Goto
<1>7. ASSUME NEW t \in Thread, LB!Leave(t) PROVE UnservedInv'
      BY <1>7 DEF LB!Leave, LB!Goto
<1>8. ASSUME NEW t \in Thread, LB!UpdateIdle(t) PROVE UnservedInv'
  <2>1. loads[t] <= my_load[t]
        BY <1>8, Zenon DEF LB!UpdateIdle, KnowsInv, Knows
  <2>2. pc'[t] = "scan" => loads'[t] = 0
        BY <1>8, <2>1 DEF LB!UpdateIdle, LB!Goto
  <2>3. /\ pc[t] = "upd_idle" /\ pc' \in {[pc EXCEPT ![t] = "scan"], [pc EXCEPT ![t] = "collect"]}
        /\ UNCHANGED <<requests, todo, loads>>
        BY <1>8, Zenon DEF LB!UpdateIdle, LB!Goto
  <2> QED
        BY <2>2, <2>3
<1>9. ASSUME NEW t \in Thread, LB!Scan(t) PROVE UnservedInv'
      BY <1>9 DEF LB!Scan, LB!Goto
<1>10. ASSUME NEW t \in Thread, LB!SetAllDone(t) PROVE UnservedInv'
      BY <1>10 DEF LB!SetAllDone, LB!Goto
<1>11. ASSUME NEW t \in Thread, LB!RequestRandom(t) PROVE UnservedInv'
      BY <1>11 DEF LB!RequestRandom, LB!Goto
<1>12. ASSUME NEW t \in Thread, LB!Collect(t) PROVE UnservedInv'
      BY <1>12 DEF LB!Collect, LB!Goto, LB!AfterHandoff
<1>13. ASSUME NEW t \in Thread, LB!Split(t) PROVE UnservedInv'
  <2>1. CASE LB!Serve(t)
    <3>1. PICK x \in todo[t], n \in 0 .. my_load[t] \div 2 :
             /\ LB!First(t, x)
             /\ n <= loads[t]
             /\ loads' = [loads EXCEPT ![t] = @ - n, ![x] = @ + n]
             /\ my_load' = [my_load EXCEPT ![t] = @ - n]
             /\ given' = [given EXCEPT ![t] = n]
             /\ pc' = [pc EXCEPT ![t] = "reply"]
          BY <1>13, <2>1, Zenon DEF LB!Split, LB!Goto
    <3>2. /\ pc[t] = "split" /\ x \in Thread /\ x # t /\ LB!Pending(x, t)
          /\ UNCHANGED <<requests, todo, wait_reply, received, all_done>>
          BY <1>13, <3>1, Zenon DEF LB!Split
    <3>3. ASSUME NEW y \in Thread, NEW u \in Thread, Unserved(y, u)', pc'[y] \notin LB!Reinit
          PROVE  loads'[y] = 0
      <4>1. Unserved(y, u) /\ pc[y] \notin LB!Reinit
            BY <3>1, <3>2, <3>3
      <4>2. y # x
            BY <3>1, <3>2, <3>3
      <4> QED
            BY <3>1, <3>2, <4>1, <4>2
    <3>4. ASSUME NEW y \in Thread, pc'[y] \in {"scan", "request", "set_done"}
          PROVE  loads'[y] = 0
      <4>1. y # t /\ y # x /\ pc'[y] = pc[y]
            BY <3>1, <3>2, <3>4
      <4> QED
            BY <3>1, <3>4, <4>1
    <3> QED
          BY <3>3, <3>4, Zenon
  <2>2. CASE ~LB!Serve(t)
    <3>1. /\ pc[t] = "split" /\ pc' = [pc EXCEPT ![t] = "wake"]
          /\ UNCHANGED <<requests, todo, loads>>
          BY <1>13, <2>2, Zenon DEF LB!Split, LB!Goto
    <3> QED
          BY <3>1
  <2> QED
        BY <2>1, <2>2, Zenon
<1>14. ASSUME NEW t \in Thread, LB!Reply(t) PROVE UnservedInv'
      BY <1>14 DEF LB!Reply, LB!Goto, LB!First
<1>15. ASSUME NEW t \in Thread, LB!Wake(t) PROVE UnservedInv'
  <2>1. PICK x \in todo[t] :
             /\ LB!First(t, x)
             /\ todo' = [todo EXCEPT ![t] = @ \ {x}]
             /\ pc' = [pc EXCEPT ![t] = IF todo[t] = {x} THEN LB!AfterHandoff(t) ELSE "split"]
        BY <1>15, Zenon DEF LB!Wake, LB!Goto
  <2>2. pc[t] = "wake" /\ UNCHANGED <<requests, loads>>
        BY <1>15, Zenon DEF LB!Wake
  <2>3. pc'[t] \in {"split", "wait_idle", "all_done", "client"}
        BY <2>1 DEF LB!AfterHandoff
  <2>4. ASSUME NEW y \in Thread, NEW u \in Thread, Unserved(y, u)'
        PROVE  Unserved(y, u)
    <3>1. CASE u = t /\ y \in todo'[t]
      <4>1. y \in todo[t] /\ y # x /\ x \in Thread
            BY <2>1, <3>1
      <4>2. ~LB!First(t, y)
            BY <2>1, <4>1, FirstUnique, Zenon
      <4> QED
            BY <3>1, <4>1, <4>2, Zenon
    <3>2. CASE ~(u = t /\ y \in todo'[t])
          BY <2>1, <2>2, <2>4, <3>2
    <3> QED
          BY <3>1, <3>2, Zenon
  <2>5. \A y \in Thread : y # t => pc'[y] = pc[y]
        BY <2>1
  <2> QED
        BY <2>2, <2>3, <2>4, <2>5, Zenon
<1>16. ASSUME NEW t \in Thread, LB!WaitIdle(t) PROVE UnservedInv'
      BY <1>16 DEF LB!WaitIdle, LB!Goto
<1>17. ASSUME NEW t \in Thread, LB!WaitDone(t) PROVE UnservedInv'
      BY <1>17 DEF LB!WaitDone, LB!Goto
<1>18. ASSUME NEW t \in Thread, LB!Take(t) PROVE UnservedInv'
      BY <1>18 DEF LB!Take, LB!Goto
<1>19. ASSUME NEW t \in Thread, LB!Clear(t) PROVE UnservedInv'
      BY <1>19 DEF LB!Clear, LB!Goto
<1>20. ASSUME NEW t \in Thread, LB!ReinitRequests(t) PROVE UnservedInv'
      BY <1>20 DEF LB!ReinitRequests, LB!Goto
<1>21. ASSUME NEW t \in Thread, LB!ReinitDone(t) PROVE UnservedInv'
      BY <1>21 DEF LB!ReinitDone, LB!Goto
<1>22. ASSUME NEW t \in Thread, LB!ReinitIdle(t) PROVE UnservedInv'
      BY <1>22 DEF LB!ReinitIdle, LB!Goto
<1>26. ASSUME NEW t \in Thread, LB!TestStop(t) PROVE UnservedInv'
      BY <1>26 DEF LB!TestStop, LB!Goto
<1>23. CASE LB!LevelReduce
  <2>1. /\ pc' = [t \in Thread |-> "reinit_requests"]
        /\ UNCHANGED <<requests, todo, loads>>
        BY <1>23, SameThreads, Zenon DEF LB!LevelReduce
  <2> QED
        BY <2>1, Zenon
<1>24. CASE Barrier
  <2>1. /\ \A t \in Thread : pc[t] = "reinit_wait" /\ pc'[t] \in {"exit", "test_stop"}
        /\ UNCHANGED <<requests, todo>>
        BY <1>24, Zenon DEF Barrier
  <2>2. \A x, t \in Thread : ~LB!Pending(x, t)
        BY <2>1, Zenon
  <2> QED
        BY <2>1, <2>2, Zenon
<1>25. CASE UNCHANGED <<lbvars, loads>>
      BY <1>25, Zenon DEF lbvars
<1> QED
      BY <1>1, <1>2, <1>3, <1>4, <1>5, <1>6, <1>7, <1>8, <1>9, <1>10,
         <1>11, <1>12, <1>13, <1>14, <1>15, <1>16, <1>17, <1>18, <1>19, <1>20,
         <1>21, <1>22, <1>23, <1>24, <1>25, <1>26, Zenon
      DEF BalancerMove, LBAction, LBStep

\* The answer tells of all that was handed over.
LEMMA AnswerStep ==
    ASSUME LBTypes, PhaseInv, TodoInv, RequestInv, IdleInv,
           UnservedInv, AnswerInv, KnowsInv,
           loads \in [Thread -> Nat], loads' \in [Thread -> Nat],
           BalancerMove
    PROVE  AnswerInv'
<1> USE DEF LBTypes, PhaseInv, TodoInv, RequestInv, LB!Pending, LB!Requesting,
              LB!Waiting, LB!Abandoned, LB!Reinit,
              AnswerInv, Answering, LB!First
<1>1. ASSUME NEW t \in Thread, LB!Explore(t) PROVE AnswerInv'
      BY <1>1 DEF LB!Explore, LB!Goto
<1>2. ASSUME NEW t \in Thread, LB!FindError(t) PROVE AnswerInv'
      BY <1>2 DEF LB!FindError, LB!Goto
<1>3. ASSUME NEW t \in Thread, LB!TryStop(t) PROVE AnswerInv'
      BY <1>3 DEF LB!TryStop, LB!Goto
<1>4. ASSUME NEW t \in Thread, LB!StopDone(t) PROVE AnswerInv'
      BY <1>4 DEF LB!StopDone, LB!Goto
<1>5. ASSUME NEW t \in Thread, LB!Balance(t) PROVE AnswerInv'
      BY <1>5 DEF LB!Balance, LB!Goto
<1>6. ASSUME NEW t \in Thread, LB!CheckAllDone(t) PROVE AnswerInv'
      BY <1>6 DEF LB!CheckAllDone, LB!Goto
<1>7. ASSUME NEW t \in Thread, LB!Leave(t) PROVE AnswerInv'
      BY <1>7 DEF LB!Leave, LB!Goto
<1>8. ASSUME NEW t \in Thread, LB!UpdateIdle(t) PROVE AnswerInv'
      BY <1>8 DEF LB!UpdateIdle, LB!Goto
<1>9. ASSUME NEW t \in Thread, LB!Scan(t) PROVE AnswerInv'
  <2>1. /\ pc[t] = "scan" /\ pc'[t] \in {"scan", "request", "set_done"}
        /\ \A y \in Thread : y # t => pc'[y] = pc[y]
        /\ UNCHANGED <<loads, my_load, given, todo, wait_reply>>
        BY <1>9 DEF LB!Scan, LB!Goto
  <2> QED
        BY <2>1, Zenon
<1>10. ASSUME NEW t \in Thread, LB!SetAllDone(t) PROVE AnswerInv'
  <2>1. /\ pc[t] = "set_done" /\ pc' = [pc EXCEPT ![t] = "level"]
        /\ UNCHANGED <<loads, my_load, given, todo, wait_reply>>
        BY <1>10, Zenon DEF LB!SetAllDone, LB!Goto
  <2> QED
        BY <2>1
<1>11. ASSUME NEW t \in Thread, LB!RequestRandom(t) PROVE AnswerInv'
      BY <1>11 DEF LB!RequestRandom, LB!Goto
<1>12. ASSUME NEW t \in Thread, LB!Collect(t) PROVE AnswerInv'
      BY <1>12 DEF LB!Collect, LB!Goto, LB!AfterHandoff
<1>13. ASSUME NEW t \in Thread, LB!Split(t) PROVE AnswerInv'
  <2>1. CASE LB!Serve(t)
    <3>1. PICK x \in todo[t], n \in 0 .. my_load[t] \div 2 :
             /\ LB!First(t, x)
             /\ n <= loads[t]
             /\ loads' = [loads EXCEPT ![t] = @ - n, ![x] = @ + n]
             /\ my_load' = [my_load EXCEPT ![t] = @ - n]
             /\ given' = [given EXCEPT ![t] = n]
             /\ pc' = [pc EXCEPT ![t] = "reply"]
          BY <1>13, <2>1, Zenon DEF LB!Split, LB!Goto
    <3>2. /\ pc[t] = "split" /\ x \in Thread /\ x # t /\ LB!Pending(x, t)
          /\ UNCHANGED <<requests, todo, wait_reply, received, all_done>>
          BY <1>13, <3>1, Zenon DEF LB!Split
    <3>3. ASSUME NEW y \in Thread, NEW u \in Thread, Answering(u, y)', LB!Requesting(y)'
          PROVE  loads'[y] <= my_load'[y] + given'[u]
      <4>1. CASE u = t
        <5>1. y = x
              BY <3>1, <3>2, <3>3, <4>1, FirstUnique, Zenon
        <5>2. loads[x] = 0
              BY <3>1, <3>2, Zenon DEF UnservedInv, Unserved
        <5>3. loads'[x] = n /\ my_load'[x] = my_load[x] /\ given'[t] = n
              BY <3>1, <3>2, <5>2
        <5> QED
              BY <4>1, <5>1, <5>3
      <4>2. CASE u # t
        <5>1. Answering(u, y) /\ LB!Requesting(y)
              BY <3>1, <3>2, <3>3, <4>2
        <5>2. y # x
              BY <3>2, <4>2, <5>1
        <5>3. loads[y] <= my_load[y] + given[u] /\ given'[u] = given[u]
              BY <3>1, <4>2, <5>1 DEF AnswerInv
        <5>4. CASE y = t
          <6>1. loads'[y] = loads[y] - n /\ my_load'[y] = my_load[y] - n
                BY <3>1, <3>2, <5>2, <5>4
          <6>2. /\ loads[y] \in Nat /\ my_load[y] \in Nat
                /\ given[u] \in Nat /\ n \in Nat
                BY <3>1
          <6>3. \A a, b, c, d \in Nat : a <= b + c => a - d <= b - d + c
                OBVIOUS
          <6> HIDE DEF LBTypes, PhaseInv, TodoInv, RequestInv
          <6> QED
                BY <5>3, <6>1, <6>2, <6>3, Zenon
        <5>5. CASE y # t
          <6>1. loads'[y] = loads[y] /\ my_load'[y] = my_load[y]
                BY <3>1, <3>2, <5>2, <5>5
          <6> QED
                BY <5>3, <6>1, Zenon
        <5> QED
              BY <5>4, <5>5, Zenon
      <4> QED
            BY <4>1, <4>2, Zenon
    <3> QED
          BY <3>3, Zenon
  <2>2. CASE ~LB!Serve(t)
    <3>1. /\ pc[t] = "split" /\ pc' = [pc EXCEPT ![t] = "wake"]
          /\ UNCHANGED <<requests, todo, loads, my_load, given, wait_reply>>
          BY <1>13, <2>2, Zenon DEF LB!Split, LB!Goto
    <3> QED
          BY <3>1
  <2> QED
        BY <2>1, <2>2, Zenon
<1>14. ASSUME NEW t \in Thread, LB!Reply(t) PROVE AnswerInv'
      BY <1>14 DEF LB!Reply, LB!Goto, LB!First
<1>15. ASSUME NEW t \in Thread, LB!Wake(t) PROVE AnswerInv'
  <2>1. PICK x \in todo[t] :
             /\ todo' = [todo EXCEPT ![t] = @ \ {x}]
             /\ pc' = [pc EXCEPT ![t] = IF todo[t] = {x} THEN LB!AfterHandoff(t) ELSE "split"]
        BY <1>15, Zenon DEF LB!Wake, LB!Goto
  <2>2. pc[t] = "wake" /\ UNCHANGED <<loads, my_load, given, wait_reply>>
        BY <1>15, Zenon DEF LB!Wake
  <2>3. /\ pc'[t] \in {"split", "wait_idle", "all_done", "client"}
        /\ pc'[t] = "wait_idle" => wait_reply[t]
        BY <2>1 DEF LB!AfterHandoff
  <2>4. \A y \in Thread : y # t => pc'[y] = pc[y] /\ todo'[y] = todo[y]
        BY <2>1
  <2> QED
        BY <2>2, <2>3, <2>4, Zenon
<1>16. ASSUME NEW t \in Thread, LB!WaitIdle(t) PROVE AnswerInv'
      BY <1>16 DEF LB!WaitIdle, LB!Goto
<1>17. ASSUME NEW t \in Thread, LB!WaitDone(t) PROVE AnswerInv'
      BY <1>17 DEF LB!WaitDone, LB!Goto
<1>18. ASSUME NEW t \in Thread, LB!Take(t) PROVE AnswerInv'
      BY <1>18 DEF LB!Take, LB!Goto
<1>19. ASSUME NEW t \in Thread, LB!Clear(t) PROVE AnswerInv'
      BY <1>19 DEF LB!Clear, LB!Goto
<1>20. ASSUME NEW t \in Thread, LB!ReinitRequests(t) PROVE AnswerInv'
      BY <1>20, Zenon DEF LB!ReinitRequests, LB!Goto
<1>21. ASSUME NEW t \in Thread, LB!ReinitDone(t) PROVE AnswerInv'
      BY <1>21, Zenon DEF LB!ReinitDone, LB!Goto
<1>22. ASSUME NEW t \in Thread, LB!ReinitIdle(t) PROVE AnswerInv'
      BY <1>22, Zenon DEF LB!ReinitIdle, LB!Goto
<1>26. ASSUME NEW t \in Thread, LB!TestStop(t) PROVE AnswerInv'
      BY <1>26, Zenon DEF LB!TestStop, LB!Goto
<1>23. CASE LB!LevelReduce
  <2>1. /\ pc' = [t \in Thread |-> "reinit_requests"]
        BY <1>23, SameThreads, Zenon DEF LB!LevelReduce
  <2> QED
        BY <2>1, Zenon
<1>24. CASE Barrier
      BY <1>24, Zenon DEF Barrier
<1>25. CASE UNCHANGED <<lbvars, loads>>
      BY <1>25, Zenon DEF lbvars
<1> QED
      BY <1>1, <1>2, <1>3, <1>4, <1>5, <1>6, <1>7, <1>8, <1>9, <1>10,
         <1>11, <1>12, <1>13, <1>14, <1>15, <1>16, <1>17, <1>18, <1>19, <1>20,
         <1>21, <1>22, <1>23, <1>24, <1>25, <1>26, Zenon
      DEF BalancerMove, LBAction, LBStep

\* A step of t that changes nothing another worker's knowledge rests on.
Aside(t) ==
    /\ \A x \in Thread \ {t} :
          /\ loads'[x] = loads[x] /\ my_load'[x] = my_load[x]
          /\ received'[x] = received[x] /\ wait_reply'[x] = wait_reply[x]
          /\ pc'[x] = pc[x]
    /\ all_done => all_done'
    /\ \A u, x \in Thread : Answering(u, x) => Answering(u, x)'

LEMMA KnowsAside ==
    ASSUME KnowsInv, NEW t \in Thread, Aside(t), NEW x \in Thread, x # t
    PROVE  Knows(x)'
<1>1. Knows(x) /\ (LB!Requesting(x)' <=> LB!Requesting(x))
      BY Zenon DEF KnowsInv, Aside, LB!Requesting, LB!Waiting
<1>2. (\E u \in Thread : Answering(u, x)) => \E u \in Thread : Answering(u, x)'
      BY Zenon DEF Aside
<1> QED
      BY <1>1, <1>2, Zenon DEF Knows, Aside, LB!Reinit, LB!Abandoned

\* A worker does not lose sight of its states.
LEMMA KnowsStep ==
    ASSUME LBTypes, PhaseInv, TodoInv, RequestInv, IdleInv,
           UnservedInv, AnswerInv, KnowsInv,
           loads \in [Thread -> Nat], loads' \in [Thread -> Nat],
           BalancerMove
    PROVE  KnowsInv'
<1> USE DEF LBTypes, PhaseInv, TodoInv, RequestInv, LB!Pending, LB!Requesting,
              LB!Waiting, LB!Abandoned, LB!Reinit
<1>1. ASSUME NEW t \in Thread, LB!Explore(t) PROVE KnowsInv'
  <2>1. Aside(t)
        BY <1>1 DEF Aside, Answering, LB!First, LB!Explore, LB!Goto
  <2>2. Knows(t)'
        BY <1>1, <2>1 DEF KnowsInv, Knows, Aside, LB!Explore, LB!Goto
  <2> QED
        BY <2>1, <2>2, KnowsAside, Zenon DEF KnowsInv
<1>2. ASSUME NEW t \in Thread, LB!FindError(t) PROVE KnowsInv'
  <2>1. Aside(t)
        BY <1>2 DEF Aside, Answering, LB!First, LB!FindError, LB!Goto
  <2>2. Knows(t)'
        BY <1>2, <2>1, Zenon DEF KnowsInv, Knows, Aside, LB!FindError, LB!Goto
  <2> QED
        BY <2>1, <2>2, KnowsAside, Zenon DEF KnowsInv
<1>3. ASSUME NEW t \in Thread, LB!TryStop(t) PROVE KnowsInv'
  <2>1. Aside(t)
        BY <1>3 DEF Aside, Answering, LB!First, LB!TryStop, LB!Goto
  <2>2. Knows(t)'
        BY <1>3, <2>1, Zenon DEF KnowsInv, Knows, Aside, LB!TryStop, LB!Goto
  <2> QED
        BY <2>1, <2>2, KnowsAside, Zenon DEF KnowsInv
<1>4. ASSUME NEW t \in Thread, LB!StopDone(t) PROVE KnowsInv'
  <2>1. Aside(t)
        BY <1>4 DEF Aside, Answering, LB!First, LB!StopDone, LB!Goto
  <2>2. Knows(t)'
        BY <1>4, <2>1, Zenon DEF KnowsInv, Knows, Aside, LB!StopDone, LB!Goto
  <2> QED
        BY <2>1, <2>2, KnowsAside, Zenon DEF KnowsInv
<1>5. ASSUME NEW t \in Thread, LB!Balance(t) PROVE KnowsInv'
  <2>1. Aside(t)
        BY <1>5 DEF Aside, Answering, LB!First, LB!Balance, LB!Goto
  <2>2. Knows(t)'
        BY <1>5, <2>1, Zenon DEF KnowsInv, Knows, Aside, LB!Balance, LB!Goto
  <2> QED
        BY <2>1, <2>2, KnowsAside, Zenon DEF KnowsInv
<1>6. ASSUME NEW t \in Thread, LB!CheckAllDone(t) PROVE KnowsInv'
  <2>1. Aside(t)
        BY <1>6 DEF Aside, Answering, LB!First, LB!CheckAllDone, LB!Goto
  <2>2. Knows(t)'
        BY <1>6, <2>1, Zenon DEF KnowsInv, Knows, Aside, LB!CheckAllDone, LB!Goto
  <2> QED
        BY <2>1, <2>2, KnowsAside, Zenon DEF KnowsInv
<1>7. ASSUME NEW t \in Thread, LB!Leave(t) PROVE KnowsInv'
  <2>1. Aside(t)
        BY <1>7 DEF Aside, Answering, LB!First, LB!Leave, LB!Goto
  <2>2. Knows(t)'
        BY <1>7, <2>1, Zenon DEF KnowsInv, Knows, Aside, LB!Leave, LB!Goto
  <2> QED
        BY <2>1, <2>2, KnowsAside, Zenon DEF KnowsInv
<1>8. ASSUME NEW t \in Thread, LB!UpdateIdle(t) PROVE KnowsInv'
  <2>1. Aside(t)
        BY <1>8 DEF Aside, Answering, LB!First, LB!UpdateIdle, LB!Goto
  <2>2. Knows(t)'
        BY <1>8, <2>1, Zenon DEF KnowsInv, Knows, Aside, LB!UpdateIdle, LB!Goto
  <2> QED
        BY <2>1, <2>2, KnowsAside, Zenon DEF KnowsInv
<1>9. ASSUME NEW t \in Thread, LB!Scan(t) PROVE KnowsInv'
  <2>1. Aside(t)
        BY <1>9 DEF Aside, Answering, LB!First, LB!Scan, LB!Goto
  <2>2. Knows(t)'
        BY <1>9, <2>1, Zenon DEF KnowsInv, Knows, Aside, LB!Scan, LB!Goto
  <2> QED
        BY <2>1, <2>2, KnowsAside, Zenon DEF KnowsInv
<1>10. ASSUME NEW t \in Thread, LB!SetAllDone(t) PROVE KnowsInv'
  <2>1. Aside(t)
        BY <1>10 DEF Aside, Answering, LB!First, LB!SetAllDone, LB!Goto
  <2>2. Knows(t)'
        BY <1>10, <2>1, Zenon DEF KnowsInv, Knows, Aside, LB!SetAllDone, LB!Goto
  <2> QED
        BY <2>1, <2>2, KnowsAside, Zenon DEF KnowsInv
<1>11. ASSUME NEW t \in Thread, LB!RequestRandom(t) PROVE KnowsInv'
  <2>1. Aside(t)
        BY <1>11 DEF Aside, Answering, LB!First, LB!RequestRandom, LB!Goto
  <2>2. Knows(t)'
        BY <1>11, <2>1, Zenon DEF KnowsInv, Knows, Aside, LB!RequestRandom, LB!Goto
  <2> QED
        BY <2>1, <2>2, KnowsAside, Zenon DEF KnowsInv
<1>12. ASSUME NEW t \in Thread, LB!Collect(t) PROVE KnowsInv'
  <2>1. Aside(t)
        BY <1>12 DEF Aside, Answering, LB!First, LB!Collect, LB!Goto, LB!AfterHandoff
  <2>2. Knows(t)'
        BY <1>12, <2>1, Zenon DEF KnowsInv, Knows, Aside, LB!Collect, LB!Goto, LB!AfterHandoff
  <2> QED
        BY <2>1, <2>2, KnowsAside, Zenon DEF KnowsInv
<1>13. ASSUME NEW t \in Thread, LB!Split(t) PROVE KnowsInv'
  <2>1. CASE LB!Serve(t)
    <3>1. PICK x \in todo[t], n \in 0 .. my_load[t] \div 2 :
             /\ LB!First(t, x)
             /\ n <= loads[t]
             /\ loads' = [loads EXCEPT ![t] = @ - n, ![x] = @ + n]
             /\ my_load' = [my_load EXCEPT ![t] = @ - n]
             /\ given' = [given EXCEPT ![t] = n]
             /\ pc' = [pc EXCEPT ![t] = "reply"]
          BY <1>13, <2>1, Zenon DEF LB!Split, LB!Goto
    <3>2. /\ pc[t] = "split" /\ x \in Thread /\ x # t /\ LB!Pending(x, t)
          /\ UNCHANGED <<requests, todo, wait_reply, received, all_done>>
          BY <1>13, <3>1, Zenon DEF LB!Split
    <3>3. \A u, y \in Thread : Answering(u, y) => Answering(u, y)'
          BY <3>1, <3>2 DEF Answering, LB!First
    <3>4. Knows(x)'
      <4>1. Answering(t, x)'
        <5>1. pc'[t] = "reply"
              BY <3>1
        <5> HIDE DEF LBTypes, PhaseInv, TodoInv, RequestInv
        <5>2. todo' = todo /\ LB!First(t, x)
              BY <3>1, <3>2, Zenon
        <5> QED
              BY <5>1, <5>2, Zenon DEF Answering, LB!First
      <4>2. CASE LB!Requesting(x)
        <5>1. LB!Requesting(x)'
              BY <3>1, <3>2, <4>2
        <5> QED
              BY <4>1, <5>1, Zenon DEF Knows
      <4>3. CASE ~LB!Requesting(x)
        <5>1. all_done' /\ pc'[x] \in LB!Abandoned
              BY <3>1, <3>2, <4>3
        <5> QED
              BY <5>1, Zenon DEF Knows
      <4> QED
            BY <4>2, <4>3, Zenon
    <3>5. Knows(t)'
      <4>1. /\ loads'[t] = loads[t] - n /\ my_load'[t] = my_load[t] - n
            /\ received'[t] = received[t]
            BY <3>1, <3>2
      <4>2. LB!Requesting(t) => LB!Requesting(t)'
            BY <3>1, <3>2
      <4>3. pc[t] \notin LB!Abandoned \cup LB!Reinit /\ pc[t] # "take"
            BY <3>2, Zenon
      <4>4. loads[t] \in Nat /\ my_load[t] \in Nat /\ received[t] \in Nat /\ n \in Nat
            BY <3>1
      <4>5. Knows(t) /\ (\E u \in Thread : Answering(u, t)) =>
               \E u \in Thread : Answering(u, t)'
            BY <3>3, Zenon DEF KnowsInv
      <4>6. /\ loads[t] <= my_load[t] => loads'[t] <= my_load'[t]
            /\ loads[t] <= my_load[t] + received[t] =>
                  loads'[t] <= my_load'[t] + received'[t]
        <5>1. \A a, b, c, d \in Nat : /\ a <= b => a - d <= b - d
                                      /\ a <= b + c => a - d <= b - d + c
              OBVIOUS
        <5> HIDE DEF LBTypes, PhaseInv, TodoInv, RequestInv
        <5> QED
              BY <4>1, <4>4, <5>1, Zenon
      <4>7. Knows(t)
            BY Zenon DEF KnowsInv
      <4> QED
            BY <4>2, <4>3, <4>5, <4>6, <4>7, Zenon DEF Knows
    <3>6. ASSUME NEW y \in Thread, y # x, y # t PROVE Knows(y)'
      <4>1. /\ loads'[y] = loads[y] /\ my_load'[y] = my_load[y]
            /\ received'[y] = received[y] /\ pc'[y] = pc[y]
            /\ LB!Requesting(y)' <=> LB!Requesting(y)
            BY <3>1, <3>2, <3>6
      <4> QED
            BY <3>2, <3>3, <4>1, Zenon DEF KnowsInv, Knows
    <3> QED
          BY <3>4, <3>5, <3>6, Zenon DEF KnowsInv
  <2>2. CASE ~LB!Serve(t)
    <3>1. /\ pc[t] = "split" /\ pc' = [pc EXCEPT ![t] = "wake"]
          /\ UNCHANGED <<requests, todo, loads, my_load, given, wait_reply, received, all_done>>
          BY <1>13, <2>2, Zenon DEF LB!Split, LB!Goto
    <3>2. Aside(t)
          BY <3>1 DEF Aside, Answering, LB!First
    <3>3. Knows(t)'
          BY <3>1, <3>2, Zenon DEF KnowsInv, Knows, Aside
    <3> QED
          BY <3>2, <3>3, KnowsAside, Zenon DEF KnowsInv
  <2> QED
        BY <2>1, <2>2, Zenon
<1>14. ASSUME NEW t \in Thread, LB!Reply(t) PROVE KnowsInv'
  <2>1. PICK x \in todo[t] :
             LB!First(t, x) /\ received' = [received EXCEPT ![x] = given[t]]
        BY <1>14, Zenon DEF LB!Reply
  <2>2. /\ pc[t] = "reply" /\ pc' = [pc EXCEPT ![t] = "wake"]
        /\ UNCHANGED <<all_done, requests, loads, my_load, wait_reply, todo>>
        BY <1>14, Zenon DEF LB!Reply, LB!Goto
  <2>3. x \in Thread /\ x # t /\ LB!Pending(x, t) /\ Answering(t, x)
        BY <2>1, <2>2, Zenon DEF Answering
  <2>4. \A y \in Thread : LB!Requesting(y)' <=> LB!Requesting(y)
        BY <2>2, Zenon
  <2>5. \A u, y \in Thread : Answering(u, y) /\ y # x => Answering(u, y)'
    <3> SUFFICES ASSUME NEW u \in Thread, NEW y \in Thread, Answering(u, y), y # x
                 PROVE  Answering(u, y)'
          BY Zenon
    <3>1. u # t
          BY <2>1, <2>3, FirstUnique DEF Answering
    <3> QED
          BY <2>2, <3>1 DEF Answering, LB!First
  <2>6. Knows(x)'
    <3>1. CASE LB!Requesting(x)
      <4>1. loads[x] <= my_load[x] + given[t]
            BY <2>3, <3>1, Zenon DEF AnswerInv
      <4> QED
            BY <2>1, <2>2, <2>3, <2>4, <3>1, <4>1, Zenon DEF Knows
    <3>2. CASE ~LB!Requesting(x)
      <4>1. all_done /\ pc[x] \in LB!Abandoned
            BY <2>2, <2>3, <3>2, Zenon
      <4> QED
            BY <2>2, <2>3, <4>1 DEF Knows
    <3> QED
          BY <3>1, <3>2, Zenon
  <2>7. ASSUME NEW y \in Thread, y # x PROVE Knows(y)'
    <3>1. received'[y] = received[y]
          BY <2>1, <2>7, Zenon
    <3>2. pc'[y] = pc[y] \/ pc[y] = "reply"
          BY <2>2
    <3> QED
          BY <2>2, <2>4, <2>5, <2>7, <3>1, <3>2, Zenon DEF KnowsInv, Knows
  <2> QED
        BY <2>6, <2>7, Zenon DEF KnowsInv
<1>15. ASSUME NEW t \in Thread, LB!Wake(t) PROVE KnowsInv'
  <2>1. PICK x \in todo[t] :
             /\ todo' = [todo EXCEPT ![t] = @ \ {x}]
             /\ pc' = [pc EXCEPT ![t] = IF todo[t] = {x} THEN LB!AfterHandoff(t) ELSE "split"]
        BY <1>15, Zenon DEF LB!Wake, LB!Goto
  <2>2. pc[t] = "wake" /\ UNCHANGED <<all_done, loads, my_load, received, wait_reply>>
        BY <1>15, Zenon DEF LB!Wake
  <2>3. /\ pc'[t] \in {"split", "wait_idle", "all_done", "client"}
        /\ wait_reply[t] => pc'[t] \in {"split", "wait_idle"}
        BY <2>1 DEF LBTypes, LB!AfterHandoff
  <2>4. \A y \in Thread : y # t => pc'[y] = pc[y] /\ todo'[y] = todo[y]
        BY <2>1 DEF LBTypes
  <2>5. Aside(t)
        BY <2>2, <2>4, Zenon DEF Aside, Answering, LB!First
  <2>6. Knows(t)'
        BY <2>2, <2>3, <2>5, Zenon DEF KnowsInv, Knows, Aside
  <2> QED
        BY <2>5, <2>6, KnowsAside, Zenon DEF KnowsInv
<1>16. ASSUME NEW t \in Thread, LB!WaitIdle(t) PROVE KnowsInv'
  <2>1. Aside(t)
        BY <1>16 DEF Aside, Answering, LB!First, LB!WaitIdle, LB!Goto
  <2>2. Knows(t)'
    <3>1. (\E u \in Thread : Answering(u, t)) => idle[t]
          BY <1>16, Zenon DEF LB!WaitIdle, IdleInv, Answering
    <3> QED
          BY <1>16, <2>1, <3>1, Zenon DEF KnowsInv, Knows, Aside, LB!WaitIdle, LB!Goto
  <2> QED
        BY <2>1, <2>2, KnowsAside, Zenon DEF KnowsInv
<1>17. ASSUME NEW t \in Thread, LB!WaitDone(t) PROVE KnowsInv'
  <2>1. Aside(t)
        BY <1>17 DEF Aside, Answering, LB!First, LB!WaitDone, LB!Goto
  <2>2. Knows(t)'
        BY <1>17, <2>1, Zenon DEF KnowsInv, Knows, Aside, LB!WaitDone, LB!Goto
  <2> QED
        BY <2>1, <2>2, KnowsAside, Zenon DEF KnowsInv
<1>18. ASSUME NEW t \in Thread, LB!Take(t) PROVE KnowsInv'
  <2>1. Aside(t)
        BY <1>18 DEF Aside, Answering, LB!First, LB!Take, LB!Goto
  <2>2. Knows(t)'
    <3>1. /\ my_load'[t] = my_load[t] + received[t] /\ loads'[t] = loads[t]
          /\ pc[t] = "take" /\ pc'[t] = "clear" /\ all_done' = all_done
          BY <1>18 DEF LB!Take, LB!Goto
    <3>2. my_load[t] \in Nat /\ received[t] \in Nat /\ loads[t] \in Nat
          BY Zenon
    <3>3. loads[t] <= my_load[t] => loads[t] <= my_load[t] + received[t]
          BY <3>2
    <3>4. Knows(t) /\ ~LB!Requesting(t)
          BY <3>1, Zenon DEF KnowsInv
    <3> QED
          BY <3>1, <3>3, <3>4, Zenon DEF Knows
  <2> QED
        BY <2>1, <2>2, KnowsAside, Zenon DEF KnowsInv
<1>19. ASSUME NEW t \in Thread, LB!Clear(t) PROVE KnowsInv'
  <2>1. Aside(t)
        BY <1>19 DEF Aside, Answering, LB!First, LB!Clear, LB!Goto
  <2>2. Knows(t)'
        BY <1>19, <2>1, Zenon DEF KnowsInv, Knows, Aside, LB!Clear, LB!Goto
  <2> QED
        BY <2>1, <2>2, KnowsAside, Zenon DEF KnowsInv
<1>20. ASSUME NEW t \in Thread, LB!ReinitRequests(t) PROVE KnowsInv'
  <2>1. Aside(t)
        BY <1>20 DEF Aside, Answering, LB!First, LB!ReinitRequests, LB!Goto
  <2>2. Knows(t)'
    <3>1. pc'[t] \in LB!Reinit
          BY <1>20 DEF LB!ReinitRequests, LB!Goto
    <3> QED
          BY <3>1, Zenon DEF Knows
  <2> QED
        BY <2>1, <2>2, KnowsAside, Zenon DEF KnowsInv
<1>21. ASSUME NEW t \in Thread, LB!ReinitDone(t) PROVE KnowsInv'
      BY <1>21 DEF KnowsInv, Knows, LB!ReinitDone, LB!Goto
<1>22. ASSUME NEW t \in Thread, LB!ReinitIdle(t) PROVE KnowsInv'
  <2>1. Aside(t)
        BY <1>22 DEF Aside, Answering, LB!First, LB!ReinitIdle, LB!Goto
  <2>2. Knows(t)'
    <3>1. pc'[t] \in LB!Reinit
          BY <1>22 DEF LB!ReinitIdle, LB!Goto
    <3> QED
          BY <3>1, Zenon DEF Knows
  <2> QED
        BY <2>1, <2>2, KnowsAside, Zenon DEF KnowsInv
<1>26. ASSUME NEW t \in Thread, LB!TestStop(t) PROVE KnowsInv'
  <2>1. Aside(t)
        BY <1>26 DEF Aside, Answering, LB!First, LB!TestStop, LB!Goto
  <2>2. Knows(t)'
    <3>1. pc[t] = "test_stop" /\ loads'[t] = loads[t] /\ my_load'[t] = my_load[t]
          BY <1>26, Zenon DEF LB!TestStop
    <3>2. loads[t] <= my_load[t]
          BY <3>1, Zenon DEF KnowsInv, Knows
    <3> QED
          BY <3>1, <3>2, Zenon DEF Knows
  <2> QED
        BY <2>1, <2>2, KnowsAside, Zenon DEF KnowsInv
<1>23. CASE LB!LevelReduce
      BY <1>23, SameThreads, Zenon DEF KnowsInv, Knows, LB!LevelReduce
<1>24. CASE Barrier
  <2>1. \A x \in Thread : loads'[x] <= my_load'[x]
        BY <1>24 DEF Barrier
  <2> QED
        BY <2>1, Zenon DEF KnowsInv, Knows
<1>25. CASE UNCHANGED <<lbvars, loads>>
  <2>1. \A x \in Thread : Knows(x)' <=> Knows(x)
        BY <1>25, Zenon DEF lbvars, Knows, Answering, LB!First
  <2> QED
        BY <2>1, Zenon DEF KnowsInv
<1> QED
      BY <1>1, <1>2, <1>3, <1>4, <1>5, <1>6, <1>7, <1>8, <1>9, <1>10,
         <1>11, <1>12, <1>13, <1>14, <1>15, <1>16, <1>17, <1>18, <1>19, <1>20,
         <1>21, <1>22, <1>23, <1>24, <1>25, <1>26, Zenon
      DEF BalancerMove, LBAction, LBStep

-----------------------------------------------------------------------------
(* The stacks, and how a step of the search looks to the balancer          *)

StackTypes ==
    /\ job \in Jobs
    /\ visited \in SUBSET State
    /\ explored \in SUBSET State
    /\ in_stack \in [Thread -> Seq(State)]
    /\ out_stack \in [Thread -> Seq(State)]
    /\ new \in [Thread -> Seq(State)]
    /\ cur \in [Thread -> SUBSET State]
    /\ trans \in [Thread -> SUBSET State]
    /\ level \in [Thread -> Nat]

\* Only sbfs has levels.
SyncInv == (\E t \in Thread : pc[t] \in LB!Reinit) => job.strategy = "sbfs"

\* Where a worker can be while it explores a state.
Exploring == {"client", "try_stop", "stop_done", "explore"}

\* The state a worker explores is the top of its stack, and only a worker that
\* explores has successors in flight.
Cur(t) ==
    /\ cur[t] # {} => /\ pc[t] \in Exploring
                      /\ in_stack[t] # <<>>
                      /\ cur[t] = {Top(in_stack[t])}
    /\ cur[t] = {} => trans[t] = {} /\ new[t] = <<>>
    /\ pc[t] \in Exploring \ {"client"} => cur[t] # {}

CurInv == \A t \in Thread : Cur(t)

LEMMA JobType ==
    ASSUME job \in Jobs
    PROVE  /\ job.succ \in [State -> SUBSET State]
           /\ job.error \in SUBSET State
           /\ job.strategy \in {"bfs", "sbfs"}
           /\ job.max_level \in Nat
      BY ModelAssumption, Zenon

LEMMA LoadsType ==
    ASSUME NEW in \in [Thread -> Seq(State)], NEW out \in [Thread -> Seq(State)],
           NEW strategy
    PROVE  [t \in Thread |-> Len(in[t]) + (IF strategy = "bfs" THEN Len(out[t]) ELSE 0)]
              \in [Thread -> Nat]
<1>1. 0 \in Nat /\ \A a, b \in Nat : a + b \in Nat
      OBVIOUS
<1>2. \A t \in Thread : Len(in[t]) \in Nat /\ Len(out[t]) \in Nat
      BY LenProperties, Zenon
<1> QED
      BY <1>1, <1>2, Zenon

\* Every step of the search is a step of the balancer.
LEMMA BalancerView ==
    ASSUME StackTypes, SyncInv, Next
    PROVE  BalancerMove
<1>1. ASSUME UNCHANGED <<lbvars, job, in_stack, out_stack>>
      PROVE  UNCHANGED <<lbvars, loads>>
      BY <1>1, Zenon DEF loads, Load
<1>2. ASSUME NEW t \in Thread, Begin(t), UNCHANGED job PROVE BalancerMove
      BY <1>1, <1>2, Zenon DEF Begin, BalancerMove, LBAction
<1>3. ASSUME NEW t \in Thread, Visit(t), UNCHANGED job PROVE BalancerMove
      BY <1>1, <1>3, Zenon DEF Visit, BalancerMove
<1>4. ASSUME NEW t \in Thread, Explored(t) PROVE BalancerMove
      BY <1>4, Zenon DEF Explored, BalancerMove, LBAction
<1>5. ASSUME NEW t \in Thread, Empty(t) PROVE BalancerMove
      BY <1>5, Zenon DEF Empty, BalancerMove, LBAction
<1>6. ASSUME NEW t \in Thread, Split(t) PROVE BalancerMove
      BY <1>6, Zenon DEF Split, BalancerMove, LBAction
<1>7. ASSUME NEW t \in Thread, Balancer(t) PROVE BalancerMove
      BY <1>7, Zenon DEF Balancer, BalancerMove, LBAction
<1>8. CASE LevelReduce
      BY <1>8, Zenon DEF LevelReduce, BalancerMove
<1>9. CASE SwapStacks /\ UNCHANGED job
  <2>1. 0 \in Thread /\ pc[0] \in LB!Reinit
    <3>1. 0 \in Thread
          BY WorkerAssumption DEF Thread
    <3>2. pc[0] = "reinit_wait"
          BY <1>9, <3>1, Zenon DEF SwapStacks
    <3> QED
          BY <3>1, <3>2, Zenon DEF LB!Reinit
  <2>2. job'.strategy = "sbfs" /\ in_stack' = out_stack
        BY <1>9, <2>1, Zenon DEF SyncInv, SwapStacks
  <2>3. loads' = [t \in Thread |-> Len(out_stack[t]) + 0]
        BY <2>2, Zenon DEF loads, Load
  <2>4. \A t \in Thread : Len(out_stack[t]) + 0 = Len(out_stack[t])
        BY LenProperties DEF StackTypes
  <2>5. my_load' = loads'
        BY <1>9, <2>3, <2>4, Zenon DEF SwapStacks
  <2> QED
        BY <1>9, <2>5, Zenon DEF SwapStacks, Barrier, BalancerMove
<1>10. CASE Finished
       BY <1>1, <1>10, Zenon DEF Finished, vars, reachvars, BalancerMove
<1> QED
      BY <1>2, <1>3, <1>4, <1>5, <1>6, <1>7, <1>8, <1>9, <1>10, Zenon DEF Next, Step

\* Where the steps of the balancer move a worker.
LBControl(t) ==
    /\ \A u \in Thread : u # t => pc'[u] = pc[u]
    /\ pc'[t] \in LB!Reinit => pc[t] \in LB!Reinit
    /\ pc[t] \in Exploring => /\ pc[t] \in {"try_stop", "stop_done"}
                              /\ pc'[t] \in {"stop_done", "explore"}
    /\ pc[t] \notin Exploring => pc'[t] \notin Exploring \ {"client"}
    /\ pc[t] = "try_stop" => stopped'
    /\ stopped => stopped'

LEMMA LBStepControl ==
    ASSUME LBTypes, NEW t \in Thread, LBStep(t)
    PROVE  LBControl(t)
<1>0. pc \in [Thread -> LB!Label]
      BY Zenon DEF LBTypes
<1> USE DEF LBControl, Exploring, LB!Reinit, LB!Goto
<1>1. CASE LB!TryStop(t)
      BY <1>0, <1>1, Zenon DEF LB!TryStop
<1>2. CASE LB!StopDone(t)
      BY <1>0, <1>2, Zenon DEF LB!StopDone
<1>3. CASE LB!Balance(t)
      BY <1>0, <1>3, Zenon DEF LB!Balance
<1>4. CASE LB!CheckAllDone(t)
      BY <1>0, <1>4, Zenon DEF LB!CheckAllDone
<1>5. CASE LB!Leave(t)
      BY <1>0, <1>5, Zenon DEF LB!Leave
<1>6. CASE LB!UpdateIdle(t)
      BY <1>0, <1>6, Zenon DEF LB!UpdateIdle
<1>7. CASE LB!Scan(t)
      BY <1>0, <1>7, Zenon DEF LB!Scan
<1>8. CASE LB!SetAllDone(t)
      BY <1>0, <1>8, Zenon DEF LB!SetAllDone
<1>9. CASE LB!RequestRandom(t)
      BY <1>0, <1>9, Zenon DEF LB!RequestRandom
<1>10. CASE LB!Collect(t)
      BY <1>0, <1>10, Zenon DEF LB!Collect, LB!AfterHandoff
<1>11. CASE LB!Reply(t)
      BY <1>0, <1>11, Zenon DEF LB!Reply
<1>12. CASE LB!Wake(t)
      BY <1>0, <1>12, Zenon DEF LB!Wake, LB!AfterHandoff
<1>13. CASE LB!WaitIdle(t)
      BY <1>0, <1>13, Zenon DEF LB!WaitIdle
<1>14. CASE LB!WaitDone(t)
      BY <1>0, <1>14, Zenon DEF LB!WaitDone
<1>15. CASE LB!Take(t)
      BY <1>0, <1>15, Zenon DEF LB!Take
<1>16. CASE LB!Clear(t)
      BY <1>0, <1>16, Zenon DEF LB!Clear
<1>17. CASE LB!ReinitRequests(t)
      BY <1>0, <1>17, Zenon DEF LB!ReinitRequests
<1>18. CASE LB!ReinitDone(t)
      BY <1>0, <1>18, Zenon DEF LB!ReinitDone
<1>19. CASE LB!ReinitIdle(t)
      BY <1>0, <1>19, Zenon DEF LB!ReinitIdle
<1>20. CASE LB!TestStop(t)
      BY <1>0, <1>20, Zenon DEF LB!TestStop
<1> QED
      BY <1>1, <1>2, <1>3, <1>4, <1>5, <1>6, <1>7, <1>8, <1>9, <1>10,
         <1>11, <1>12, <1>13, <1>14, <1>15, <1>16, <1>17, <1>18, <1>19, <1>20, Zenon DEF LBStep
=============================================================================
