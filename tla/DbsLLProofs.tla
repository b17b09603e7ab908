---------------------------- MODULE DbsLLProofs -----------------------------
(***************************************************************************)
(* Proofs about the lockless hash table, for any number of threads, any    *)
(* vectors and hashes and any size of the table: no vector is stored twice *)
(* (StoredOnce), no vector is compared while it is written                 *)
(* (ComparesWritten), the table is called full only when it is             *)
(* (FullIsReal), and it implements the atomic set of StateSet.             *)
(***************************************************************************)
EXTENDS DbsLL, FiniteSetTheorems, TLAPS

\* The write bit of b is set, and the vector is v.
Written(b, v) == table[b].done /\ data[b] = v

\* The first k buckets for v are taken, and v is not in them.
Past(v, k) ==
    \A j \in 0 .. k - 1 : table[Bucket(v, j)] # EMPTY /\ ~ Holds(Bucket(v, j), v)

Probing == {"probe", "cas", "copy", "write", "match", "wait", "compare"}

\* What a thread in DBSLLfop_hash knows of its call.
CallInv(t) ==
    /\ pc[t] \in InFop => m[t].v \in Vector /\ m[t].op \in {"lookup", "find"}
    /\ pc[t] \in {"cas", "copy", "write"} => m[t].op = "lookup"
    /\ pc[t] \in InFop \ {"copy", "write", "return"} => m[t].answer = "none" /\ m[t].ref = 0
    /\ pc[t] \in {"copy", "write"} => m[t].answer = "new" /\ m[t].ref = B(t)
    /\ pc[t] = "return" => /\ m[t].answer # "none"
                           /\ m[t].answer = "not_found" => m[t].op = "find"
                           /\ m[t].answer \in {"new", "seen"} =>
                                 Written(m[t].ref, m[t].v)
    /\ pc[t] \in {"read", "swap"} => m[t].op \in {"color", "set", "inc", "dec"}

\* What it knows of the buckets.
BucketInv(t) ==
    /\ pc[t] \in Probing => m[t].k < Threshold * Line
    /\ pc[t] = "full" => full \/ m[t].k >= Threshold * Line
    /\ pc[t] \in InFop \ {"return"} => Past(m[t].v, m[t].k)
    /\ pc[t] \in {"match", "wait", "compare"} => table[B(t)] # EMPTY
    /\ pc[t] \in {"wait", "compare"} => table[B(t)].hash = Memo(m[t].v)
    /\ pc[t] = "compare" => table[B(t)].done

\* Who writes a vector has the bucket for itself.
Writing(t) == pc[t] \in {"copy", "write"}
WriteInv ==
    /\ \A t \in Thread : Writing(t) => table[B(t)] = WAIT(m[t].v)
    /\ \A t \in Thread : pc[t] = "write" => data[B(t)] = m[t].v
    /\ \A t, u \in Thread : Writing(t) /\ Writing(u) /\ t # u => B(t) # B(u)

\* What the write bit says, and the references that were given away.
DoneInv ==
    /\ \A b \in Ref : table[b].done =>
          data[b] \in Vector /\ table[b].hash = Memo(data[b])
    /\ \A t \in Thread, v \in Vector :
          knows[t][v] # NoRef => Written(knows[t][v], v)
    /\ \A t \in Thread : pc[t] \in {"read", "swap"} => table[m[t].ref].done

\* A vector is in the first of its buckets that was free.
Placed ==
    \A b \in Ref, v \in Vector : Holds(b, v) =>
        \E k \in Nat : b = Bucket(v, k) /\ Past(v, k)

IInv ==
    /\ TypeOK
    /\ \A t \in Thread : CallInv(t) /\ BucketInv(t)
    /\ WriteInv
    /\ DoneInv
    /\ Placed
    /\ FullIsReal

-----------------------------------------------------------------------------
(* The operators                                                           *)

LEMMA SizeIsPositive == Size \in Nat \ {0} /\ 0 \in Ref
BY HashAssumption DEF Size, Ref

\* Every bucket that is tried is a bucket of the table.
LEMMA BucketInRef ==
    ASSUME NEW v \in Vector, NEW k \in Nat
    PROVE  Bucket(v, k) \in Ref
<1> DEFINE start == Hash[v].ref + (k \div Line) * Hash[v].prime * Line
           ref == start % Size
           q == ref \div Line
           r == (ref + k) % Line
<1>1. Line \in Nat \ {0} /\ Lines \in Nat \ {0} /\ Hash[v].ref \in Nat /\ Hash[v].prime \in Nat
  BY HashAssumption, Zenon
<1>2. k \div Line \in Nat
  BY <1>1
<1>3. start \in Nat
  BY <1>1, <1>2
<1> HIDE DEF start
<1>4. ref \in Nat /\ ref < Size
  BY <1>3, SizeIsPositive
<1> HIDE DEF ref
<1>5. q \in Nat /\ q * Line <= ref
  BY <1>1, <1>4
<1>6. r \in Nat /\ r < Line
  BY <1>1, <1>4
<1> HIDE DEF q, r
<1>7. q < Lines
  <2> SUFFICES ASSUME q >= Lines PROVE FALSE
    BY <1>1, <1>5
  <2>1. q * Line >= Lines * Line
    BY <1>1, <1>5
  <2> QED
    BY <2>1, <1>1, <1>4, <1>5 DEF Size
<1>8. (q + 1) * Line <= Lines * Line
  BY <1>1, <1>5, <1>7
<1>9. q * Line + r < Size /\ q * Line + r \in Nat
  BY <1>1, <1>5, <1>6, <1>8 DEF Size
<1>10. Bucket(v, k) = q * Line + r
  BY Zenon DEF Bucket, start, ref, q, r
<1> QED
  BY <1>9, <1>10, SizeIsPositive DEF Ref

\* A memoised hash is a number, and never the one of an empty bucket.
LEMMA MemoIsHash ==
    ASSUME NEW v \in Vector
    PROVE  Memo(v) \in Nat \ {0}
BY HashAssumption DEF Memo

\* The line is not left before its end.
LEMMA NextProbe ==
    ASSUME NEW k \in Nat, k < Threshold * Line, (k + 1) % Line # 0
    PROVE  k + 1 < Threshold * Line
<1>1. Line \in Nat \ {0} /\ Threshold \in Nat
  BY HashAssumption, Zenon
<1>2. (Threshold * Line) % Line = 0
  BY <1>1
<1>3. Threshold * Line \in Nat
  BY <1>1
<1> QED
  BY <1>1, <1>2, <1>3

-----------------------------------------------------------------------------
(* Types, and what a step of t leaves alone                                *)

LEMMA EmptyIsWord == EMPTY \in Word
BY DEF EMPTY, Word

LEMMA WordTypes ==
    ASSUME NEW v \in Vector
    PROVE  WAIT(v) \in Word /\ DONE(v) \in Word
BY MemoIsHash DEF WAIT, DONE, Word

LEMMA NoLocalsType == NoLocals \in Local
<1>1. NoArg \in Arg
  BY CountAssumption DEF NoArg, Arg
<1> QED
  BY <1>1, EmptyIsWord, SizeIsPositive, Zenon DEF NoLocals, Local

Answer == {"none", "new", "seen", "not_found", "full"}

\* What the assignments to the local variables do.
LEMMA DecideEffect ==
    ASSUME m \in [Thread -> Local], NEW t \in Thread, NEW a \in Answer, NEW r \in Ref,
           Decide(t, a, r)
    PROVE  /\ m' \in [Thread -> Local]
           /\ m'[t].answer = a /\ m'[t].ref = r
           /\ m'[t].op = m[t].op /\ m'[t].v = m[t].v /\ m'[t].k = m[t].k
           /\ \A u \in Thread \ {t} : m'[u] = m[u]
<1> DEFINE new == [m[t] EXCEPT !.answer = a, !.ref = r]
<1>1. m' = [m EXCEPT ![t] = new]
  BY Zenon DEF Decide
<1>2. /\ new \in Local /\ new.answer = a /\ new.ref = r
      /\ new.op = m[t].op /\ new.v = m[t].v /\ new.k = m[t].k
  BY Zenon DEF Local, Answer
<1> HIDE DEF new
<1> QED
  BY <1>1, <1>2, Zenon

LEMMA AdvanceEffect ==
    ASSUME m \in [Thread -> Local], pc \in [Thread -> Label], NEW t \in Thread, Advance(t)
    PROVE  /\ m' \in [Thread -> Local]
           /\ m'[t].k = m[t].k + 1 /\ m'[t].answer = m[t].answer /\ m'[t].ref = m[t].ref
           /\ m'[t].op = m[t].op /\ m'[t].v = m[t].v
           /\ pc' \in [Thread -> Label]
           /\ pc'[t] = IF (m[t].k + 1) % Line = 0 THEN "loop" ELSE "probe"
           /\ \A u \in Thread \ {t} : m'[u] = m[u] /\ pc'[u] = pc[u]
<1> DEFINE new == [m[t] EXCEPT !.k = m[t].k + 1]
<1>1. m' = [m EXCEPT ![t] = new]
  BY Zenon DEF Advance
<1>2. /\ new \in Local /\ new.k = m[t].k + 1 /\ new.answer = m[t].answer /\ new.ref = m[t].ref
      /\ new.op = m[t].op /\ new.v = m[t].v
  BY DEF Local
<1> HIDE DEF new
<1>3. pc' = [pc EXCEPT ![t] = IF (m[t].k + 1) % Line = 0 THEN "loop" ELSE "probe"]
  BY Zenon DEF Advance, Goto
<1> QED
  BY <1>1, <1>2, <1>3, Zenon DEF Label, InFop

LEMMA FinishEffect ==
    ASSUME m \in [Thread -> Local], NEW t \in Thread, m' = [m EXCEPT ![t] = NoLocals]
    PROVE  m' \in [Thread -> Local]
BY NoLocalsType, Zenon

\* Only the locals of the thread that takes a step change.
Frame(t) ==
    \A u \in Thread \ {t} : pc'[u] = pc[u] /\ m'[u] = m[u] /\ knows'[u] = knows[u]

LEMMA NewSatType ==
    ASSUME NEW op \in {"color", "set", "inc", "dec"}, NEW sat \in Int, NEW arg \in Arg
    PROVE  NewSat(op, sat, arg) \in Int
<1>1. 2 ^ CountBits \in Nat \ {0}
  BY CountAssumption, Zenon
<1>2. arg.new \in Int
  BY DEF Arg
<1> DEFINE p == 2 ^ CountBits
<1>3. Count(sat) \in Int
  BY <1>1 DEF Count
<1>4. p * arg.new \in Int
  BY <1>1, <1>2
<1> QED
  BY <1>3, <1>4 DEF NewSat

LEMMA TypeStep ==
    ASSUME TypeOK, \A u \in Thread : CallInv(u), NEW t \in Thread, Step(t)
    PROVE  TypeOK' /\ Frame(t)
<1> USE DEF TypeOK, Frame, At, Goto
<1>0. /\ m[t] \in Local
      /\ pc[t] \in InFop => m[t].v \in Vector
      /\ m[t].k \in Nat /\ m[t].ref \in Ref
  BY Zenon DEF CallInv, Local
<1>a. pc[t] \in InFop => B(t) \in Ref
  BY <1>0, BucketInRef, Zenon DEF B
<1>1. CASE Fop(t)
  <2>1. todo[t] \in Seq(CallRecord) /\ todo[t] # <<>>
    BY <1>1, Zenon DEF Fop
  <2>2. Head(todo[t]) \in CallRecord /\ Tail(todo[t]) \in Seq(CallRecord)
    BY <2>1
  <2>3. Head(todo[t]).op \in Operation /\ Head(todo[t]).v \in Vector
    BY <2>2, Zenon DEF CallRecord
  <2>4. [NoLocals EXCEPT !.op = Head(todo[t]).op, !.v = Head(todo[t]).v] \in Local
    BY <2>3, NoLocalsType, Zenon DEF Local
  <2> QED
    BY <1>1, <2>2, <2>4, Zenon DEF Fop, shared, InFop, Label
<1>2. CASE LoopHead(t)
  BY <1>2, Zenon DEF LoopHead, shared, client, InFop, Label
<1>3. CASE SetFull(t)
  BY <1>3, DecideEffect, SizeIsPositive, Zenon DEF SetFull, client, InFop, Label, Answer
<1>4. CASE ReadEmpty(t)
  BY <1>4, DecideEffect, SizeIsPositive, Zenon DEF ReadEmpty, shared, client, InFop, Label, Answer
<1>5. CASE CasEmpty(t)
  <2>1. B(t) \in Ref /\ WAIT(m[t].v) \in Word
    BY <1>0, <1>a, <1>5, WordTypes, Zenon DEF CasEmpty, InFop
  <2>2. table' \in [Ref -> Word] /\ pc' \in [Thread -> Label]
        /\ \A u \in Thread \ {t} : pc'[u] = pc[u]
    BY <1>5, <2>1, Zenon DEF CasEmpty, InFop, Label
  <2>3. m' \in [Thread -> Local] /\ \A u \in Thread \ {t} : m'[u] = m[u]
    BY <1>5, <2>1, DecideEffect, Zenon DEF CasEmpty, Answer
  <2> QED
    BY <1>5, <2>2, <2>3, Zenon DEF CasEmpty, client
<1>6. CASE Copy(t)
  BY <1>0, <1>6, Zenon DEF Copy, client, InFop, Label
<1>7. CASE WriteDone(t)
  BY <1>0, <1>7, WordTypes, Zenon DEF WriteDone, client, InFop, Label
<1>8. CASE Match(t)
  BY <1>8, AdvanceEffect, Zenon DEF Match, shared, client, InFop, Label
<1>9. CASE Wait(t)
  BY <1>9, Zenon DEF Wait, shared, client, InFop, Label
<1>10. CASE Compare(t)
  <2>1. B(t) \in Ref
    BY <1>a, <1>10, Zenon DEF Compare, InFop
  <2>2. CASE Goto(t, "return") /\ Decide(t, "seen", B(t))
    BY <1>10, <2>1, <2>2, DecideEffect, Zenon DEF Compare, shared, client, InFop, Label, Answer
  <2>3. CASE Advance(t)
    <3>1. UNCHANGED <<shared, client>>
      BY <1>10, Zenon DEF Compare
    <3>2. /\ m' \in [Thread -> Local] /\ pc' \in [Thread -> Label]
          /\ \A u \in Thread \ {t} : m'[u] = m[u] /\ pc'[u] = pc[u]
      BY <2>3, AdvanceEffect, Zenon
    <3> QED
      BY <3>1, <3>2, Zenon DEF shared, client
  <2> QED
    BY <1>10, <2>2, <2>3, Zenon DEF Compare
<1>11. CASE Return(t)
  <2>1. knows' \in [Thread -> [Vector -> Ref \cup {NoRef}]]
    BY <1>0, <1>11, Zenon DEF Return, InFop
  <2>2. todo' \in [Thread -> Seq(CallRecord)]
    BY <1>11 DEF Return
  <2> QED
    BY <1>11, <2>1, <2>2, NoLocalsType, Zenon DEF Return, shared, InFop, Label
<1>12. CASE SatCall(t)
  <2>1. todo[t] \in Seq(CallRecord) /\ todo[t] # <<>>
    BY <1>12, Zenon DEF SatCall
  <2>2. Head(todo[t]) \in CallRecord /\ Tail(todo[t]) \in Seq(CallRecord)
    BY <2>1
  <2>3. Head(todo[t]).op \in Operation /\ Head(todo[t]).v \in Vector /\ Head(todo[t]).arg \in Arg
    BY <2>2, Zenon DEF CallRecord
  <2>4. knows[t][Head(todo[t]).v] \in Ref
    BY <1>12, <2>3 DEF SatCall
  <2> DEFINE new == [NoLocals EXCEPT !.op = Head(todo[t]).op,
                                     !.ref = knows[t][Head(todo[t]).v],
                                     !.arg = Head(todo[t]).arg]
  <2>5. new \in Local
    BY <2>3, <2>4, NoLocalsType, Zenon DEF Local
  <2>6. m' = [m EXCEPT ![t] = new]
    BY <1>12, Zenon DEF SatCall
  <2> HIDE DEF new
  <2> QED
    BY <1>12, <2>2, <2>5, <2>6, Zenon DEF SatCall, shared, InFop, Label
<1>13. CASE SatRead(t)
  <2>1. [m[t] EXCEPT !.old = table[m[t].ref]] \in Local
    BY <1>0, Zenon DEF Local
  <2> QED
    BY <1>13, <2>1, NoLocalsType, Zenon DEF SatRead, Finish, shared, client, InFop, Label
<1>14. CASE SatSwap(t)
  <2>1. m[t].ref \in Ref /\ table[m[t].ref] \in Word /\ m[t].arg \in Arg
    BY <1>0, Zenon DEF Local
  <2>2. m[t].op \in {"color", "set", "inc", "dec"}
    BY <1>14, Zenon DEF SatSwap, CallInv
  <2> DEFINE sat == NewSat(m[t].op, table[m[t].ref].sat, m[t].arg)
  <2>3. sat \in Int
    BY <2>1, <2>2, NewSatType, Zenon DEF Word
  <2> HIDE DEF sat
  <2>4. [table EXCEPT ![m[t].ref].sat = sat] \in [Ref -> Word]
    BY <2>1, <2>3, Zenon DEF Word
  <2>5. [m[t] EXCEPT !.old = EMPTY] \in Local
    BY <1>0, EmptyIsWord, Zenon DEF Local
  <2>6. table' \in [Ref -> Word]
    BY <1>14, <2>4, Zenon DEF SatSwap, sat
  <2>7. m' \in [Thread -> Local] /\ pc' \in [Thread -> Label]
        /\ \A u \in Thread \ {t} : pc'[u] = pc[u] /\ m'[u] = m[u]
    BY <1>14, <2>5, NoLocalsType, Zenon DEF SatSwap, Finish, InFop, Label
  <2> QED
    BY <1>14, <2>6, <2>7, Zenon DEF SatSwap
<1> QED
  BY <1>1, <1>2, <1>3, <1>4, <1>5, <1>6, <1>7, <1>8, <1>9, <1>10, <1>11, <1>12, <1>13, <1>14, Zenon DEF Step, FopStep

-----------------------------------------------------------------------------
(* The shared memory                                                       *)

LEMMA Buckets ==
    ASSUME IInv, NEW t \in Thread, pc[t] \in InFop
    PROVE  B(t) \in Ref /\ m[t].v \in Vector /\ m[t].k \in Nat
<1>1. m[t].v \in Vector /\ m[t].k \in Nat
  BY Zenon DEF IInv, TypeOK, Local, CallInv
<1> QED
  BY <1>1, BucketInRef, Zenon DEF B

\* What is written stays, a bucket that is taken keeps its hash, and nobody
\* touches the bucket that another thread writes.
Kept(t) ==
    /\ \A b \in Ref : table[b].done =>
          table'[b].done /\ table'[b].hash = table[b].hash /\ data'[b] = data[b]
    /\ \A b \in Ref : table[b] # EMPTY =>
          table'[b] # EMPTY /\ table'[b].hash = table[b].hash
    /\ \A u \in Thread \ {t} : Writing(u) =>
          table'[B(u)] = table[B(u)] /\ data'[B(u)] = data[B(u)]

LEMMA MemoryStep ==
    ASSUME IInv, NEW t \in Thread, Step(t)
    PROVE  Kept(t)
<1> USE DEF Kept
<1>0. table \in [Ref -> Word] /\ data \in [Ref -> Vector \cup {NoVector}]
  BY Zenon DEF IInv, TypeOK
<1>w. \A u \in Thread : Writing(u) =>
          /\ B(u) \in Ref /\ table[B(u)] = WAIT(m[u].v)
          /\ Memo(m[u].v) # 0 /\ ~ table[B(u)].done /\ table[B(u)] # EMPTY
  <2> SUFFICES ASSUME NEW u \in Thread, Writing(u)
               PROVE  /\ B(u) \in Ref /\ table[B(u)] = WAIT(m[u].v)
                      /\ Memo(m[u].v) # 0 /\ ~ table[B(u)].done /\ table[B(u)] # EMPTY
    BY Zenon
  <2>1. B(u) \in Ref /\ m[u].v \in Vector
    BY Buckets, Zenon DEF Writing, InFop
  <2>2. Memo(m[u].v) # 0
    BY <2>1, MemoIsHash, Zenon
  <2>3. table[B(u)] = WAIT(m[u].v)
    BY Zenon DEF IInv, WriteInv
  <2> QED
    BY <2>1, <2>2, <2>3 DEF WAIT, EMPTY
<1>1. CASE UNCHANGED shared
  BY <1>1, Zenon DEF shared
<1>2. CASE SetFull(t)
  BY <1>2, Zenon DEF SetFull
<1>3. CASE CasEmpty(t)
  <2>1. CASE table[B(t)] = EMPTY
    <3>1. B(t) \in Ref
      BY <1>3, Buckets, Zenon DEF CasEmpty, At, InFop
    <3>2. table' = [table EXCEPT ![B(t)] = WAIT(m[t].v)] /\ data' = data
      BY <1>3, <2>1, Zenon DEF CasEmpty
    <3>3. \A b \in Ref : b # B(t) => table'[b] = table[b]
      BY <1>0, <3>1, <3>2, Zenon
    <3>4. ~ table[B(t)].done
      BY <2>1 DEF EMPTY
    <3>5. \A u \in Thread : Writing(u) => B(u) \in Ref /\ B(u) # B(t)
      BY <1>w, <2>1, Zenon
    <3> QED
      BY <2>1, <3>2, <3>3, <3>4, <3>5, Zenon
  <2> QED
    BY <1>3, <2>1, Zenon DEF CasEmpty
<1>4. CASE Copy(t)
  <2>1. Writing(t)
    BY <1>4, Zenon DEF Copy, At, Writing
  <2>2. table' = table /\ data' = [data EXCEPT ![B(t)] = m[t].v]
    BY <1>4, Zenon DEF Copy
  <2>3. \A u \in Thread \ {t} : Writing(u) => B(u) # B(t)
    BY <2>1, Zenon DEF IInv, WriteInv
  <2> QED
    BY <1>0, <1>w, <2>1, <2>2, <2>3, Zenon
<1>5. CASE WriteDone(t)
  <2>1. Writing(t)
    BY <1>5, Zenon DEF WriteDone, At, Writing
  <2>2. table' = [table EXCEPT ![B(t)] = DONE(m[t].v)] /\ data' = data
    BY <1>5, Zenon DEF WriteDone
  <2>3. \A u \in Thread \ {t} : Writing(u) => B(u) # B(t)
    BY <2>1, Zenon DEF IInv, WriteInv
  <2>4. DONE(m[t].v).done /\ DONE(m[t].v) # EMPTY /\ DONE(m[t].v).hash = table[B(t)].hash
    <3>1. table[B(t)] = WAIT(m[t].v)
      BY <1>w, <2>1, Zenon
    <3> QED
      BY <3>1 DEF DONE, WAIT, EMPTY
  <2> QED
    BY <1>0, <1>w, <2>1, <2>2, <2>3, <2>4, Zenon
<1>6. CASE SatSwap(t)
  <2>1. m[t].ref \in Ref /\ table[m[t].ref].done
    BY <1>6, Zenon DEF SatSwap, At, IInv, TypeOK, Local, DoneInv
  <2>2. PICK sat : table' = [table EXCEPT ![m[t].ref].sat = sat] \/ table' = table
    BY <1>6, Zenon DEF SatSwap
  <2>3. data' = data
    BY <1>6, Zenon DEF SatSwap
  <2>4. /\ \A b \in Ref : table'[b].hash = table[b].hash /\ table'[b].done = table[b].done
        /\ \A b \in Ref \ {m[t].ref} : table'[b] = table[b]
    BY <1>0, <2>1, <2>2 DEF Word
  <2>5. table'[m[t].ref] # EMPTY
    BY <2>1, <2>4 DEF EMPTY
  <2>6. \A u \in Thread : Writing(u) => B(u) # m[t].ref
    BY <1>w, <2>1, Zenon
  <2> QED
    BY <1>w, <2>3, <2>4, <2>5, <2>6, Zenon
<1> QED
  BY <1>1, <1>2, <1>3, <1>4, <1>5, <1>6, Zenon
     DEF Step, FopStep, Fop, LoopHead, ReadEmpty, Match, Wait, Compare, Return, SatCall, SatRead

\* Only its writer sets the write bit of a bucket.
LEMMA NewDone ==
    ASSUME IInv, NEW t \in Thread, Step(t), NEW b \in Ref, table'[b].done, ~ table[b].done
    PROVE  WriteDone(t) /\ b = B(t)
<1>0. table \in [Ref -> Word]
  BY Zenon DEF IInv, TypeOK
<1>1. table' # table
  BY Zenon
<1>2. CASE CasEmpty(t)
  <2>1. table[B(t)] = EMPTY /\ table' = [table EXCEPT ![B(t)] = WAIT(m[t].v)]
    BY <1>1, <1>2, Zenon DEF CasEmpty
  <2> QED
    BY <1>0, <2>1, Zenon DEF WAIT
<1>3. CASE WriteDone(t)
  BY <1>0, <1>3, Zenon DEF WriteDone
<1>4. CASE SatSwap(t)
  <2>1. PICK sat : table' = [table EXCEPT ![m[t].ref].sat = sat] \/ table' = table
    BY <1>4, Zenon DEF SatSwap
  <2> QED
    BY <1>0, <2>1, Zenon DEF Word
<1> QED
  BY <1>1, <1>2, <1>3, <1>4, Zenon
     DEF Step, FopStep, Fop, LoopHead, SetFull, ReadEmpty, Copy, Match, Wait, Compare, Return,
         SatCall, SatRead, shared

\* Only the winner of the compare and swap starts to write.
LEMMA NewWriter ==
    ASSUME IInv, NEW t \in Thread, Step(t), Writing(t)'
    PROVE  \/ Copy(t)
           \/ CasEmpty(t) /\ table[B(t)] = EMPTY
<1>0. pc \in [Thread -> Label] /\ m \in [Thread -> Local]
  BY Zenon DEF IInv, TypeOK
<1>1. pc'[t] \in {"copy", "write"}
  BY Zenon DEF Writing
<1>2. \A l : Goto(t, l) => pc'[t] = l
  BY <1>0, Zenon DEF Goto
<1>3. ~ Advance(t)
  BY <1>1, <1>2, Zenon DEF Advance
<1> QED
  BY <1>1, <1>2, <1>3, Zenon
     DEF Step, FopStep, Fop, LoopHead, SetFull, ReadEmpty, CasEmpty, WriteDone, Match, Wait,
         Compare, Return, SatCall, SatRead, SatSwap, Finish

\* A vector that is held stays held.
LEMMA HoldsStays ==
    ASSUME IInv, NEW t \in Thread, Step(t), NEW b \in Ref, NEW v \in Vector, Holds(b, v)
    PROVE  Holds(b, v)'
<1>0. pc \in [Thread -> Label] /\ m \in [Thread -> Local] /\ table \in [Ref -> Word]
  BY Zenon DEF IInv, TypeOK
<1>1. Kept(t) /\ Frame(t)
  BY MemoryStep, TypeStep, Zenon DEF IInv
<1>2. CASE table[b].done /\ data[b] = v
  BY <1>1, <1>2, Zenon DEF Kept, Holds
<1>3. ASSUME NEW u \in Thread, pc[u] \in {"copy", "write"}, m[u].v = v, B(u) = b
      PROVE  Holds(b, v)'
  <2>1. CASE u # t
    BY <1>1, <1>3, <2>1, Zenon DEF Frame, Holds, B
  <2>2. CASE u = t
    <3>1. CASE Copy(t)
      BY <1>0, <1>3, <2>2, <3>1, Zenon DEF Copy, Goto, Holds, B
    <3>2. CASE WriteDone(t)
      <4>1. data[b] = v
        BY <1>3, <2>2, <3>2, Zenon DEF WriteDone, At, IInv, WriteInv
      <4>2. table'[b].done /\ data'[b] = v
        BY <1>0, <1>3, <2>2, <3>2, <4>1, Zenon DEF WriteDone, DONE
      <4> QED
        BY <4>2, Zenon DEF Holds
    <3> QED
      BY <1>3, <2>2, <3>1, <3>2, Zenon
         DEF Step, FopStep, Fop, LoopHead, SetFull, ReadEmpty, CasEmpty, Match, Wait, Compare,
             Return, SatCall, SatRead, SatSwap, At
  <2> QED
    BY <2>1, <2>2, Zenon
<1> QED
  BY <1>2, <1>3, Zenon DEF Holds

\* A vector comes to be held by the compare and swap on an empty bucket.
LEMMA HoldsNew ==
    ASSUME IInv, NEW t \in Thread, Step(t), NEW b \in Ref, NEW v \in Vector,
           Holds(b, v)', ~ Holds(b, v)
    PROVE  CasEmpty(t) /\ table[b] = EMPTY /\ b = B(t) /\ v = m[t].v
<1>0. pc \in [Thread -> Label] /\ m \in [Thread -> Local] /\ table \in [Ref -> Word]
  BY Zenon DEF IInv, TypeOK
<1>1. Kept(t) /\ Frame(t)
  BY MemoryStep, TypeStep, Zenon DEF IInv
<1>2. ASSUME table'[b].done, data'[b] = v PROVE FALSE
  <2>1. ~ table[b].done
    BY <1>1, <1>2, Zenon DEF Kept, Holds
  <2>2. WriteDone(t) /\ b = B(t)
    BY <1>2, <2>1, NewDone, Zenon
  <2>3. pc[t] = "write" /\ data' = data
    BY <2>2, Zenon DEF WriteDone, At
  <2>4. m[t].v = v
    BY <1>2, <2>2, <2>3, Zenon DEF IInv, WriteInv
  <2> QED
    BY <2>2, <2>3, <2>4, Zenon DEF Holds
<1>3. PICK u \in Thread : pc'[u] \in {"copy", "write"} /\ m'[u].v = v /\ B(u)' = b
  BY <1>2, Zenon DEF Holds
<1>4. u = t
  BY <1>1, <1>3, Zenon DEF Frame, Holds, B
<1>5. ~ Copy(t)
  BY <1>3, <1>4, Zenon DEF Copy, At, Holds, B
<1>6. CasEmpty(t) /\ table[B(t)] = EMPTY
  BY <1>3, <1>4, <1>5, NewWriter, Zenon DEF Writing
<1>7. Decide(t, "new", B(t)) /\ B(t) \in Ref
  BY <1>6, Buckets, Zenon DEF CasEmpty, At, InFop
<1>8. m'[t].v = m[t].v /\ m'[t].k = m[t].k
  BY <1>0, <1>7, DecideEffect, Zenon DEF Answer
<1> QED
  BY <1>3, <1>4, <1>6, <1>8, Zenon DEF B

\* A thread does not come back to buckets it has passed: they stay taken, and
\* not by its vector.
LEMMA PastStays ==
    ASSUME IInv, NEW t \in Thread, Step(t), NEW v \in Vector, NEW k \in Nat, Past(v, k)
    PROVE  Past(v, k)'
<1> SUFFICES ASSUME NEW j \in 0 .. k - 1
             PROVE  table'[Bucket(v, j)] # EMPTY /\ ~ Holds(Bucket(v, j), v)'
  BY Zenon DEF Past
<1>1. Bucket(v, j) \in Ref
  BY BucketInRef
<1>2. table[Bucket(v, j)] # EMPTY /\ ~ Holds(Bucket(v, j), v)
  BY Zenon DEF Past
<1>3. table'[Bucket(v, j)] # EMPTY
  BY <1>1, <1>2, MemoryStep, Zenon DEF Kept
<1> QED
  BY <1>1, <1>2, <1>3, HoldsNew, Zenon

LEMMA FullStays ==
    ASSUME NEW t \in Thread, Step(t), full
    PROVE  full'
BY Zenon DEF Step, FopStep, Fop, LoopHead, SetFull, ReadEmpty, CasEmpty, Copy, WriteDone, Match, Wait,
       Compare, Return, SatCall, SatRead, SatSwap, shared

-----------------------------------------------------------------------------
(* The search goes on                                                      *)

\* What the other threads know stays true.
LEMMA OtherThreads ==
    ASSUME IInv, NEW t \in Thread, Step(t), NEW u \in Thread \ {t}
    PROVE  CallInv(u)' /\ BucketInv(u)'
<1>1. Kept(t) /\ pc'[u] = pc[u] /\ m'[u] = m[u]
  BY MemoryStep, TypeStep, Zenon DEF IInv, Frame
<1>2. CallInv(u) /\ BucketInv(u) /\ m[u].ref \in Ref
  BY Zenon DEF IInv, TypeOK, Local
<1>3. CallInv(u)'
  BY <1>1, <1>2 DEF CallInv, Kept, Written, B
<1>4. ASSUME pc[u] \in InFop
      PROVE  /\ B(u) \in Ref /\ B(u)' = B(u) /\ m[u].v \in Vector
             /\ Past(m[u].v, m[u].k) => Past(m[u].v, m[u].k)'
  BY <1>1, <1>4, Buckets, PastStays, Zenon DEF B
<1>5. ASSUME pc[u] \in InFop \ {"return"} PROVE Past(m[u].v, m[u].k)'
  BY <1>2, <1>4, <1>5, Zenon DEF BucketInv
<1>6. BucketInv(u)'
  <2>1. (pc[u] \in InFop \ {"return"} => Past(m[u].v, m[u].k))'
    BY <1>1, <1>5, Zenon
  <2>2. pc[u] = "full" => full' \/ m[u].k >= Threshold * Line
    BY <1>2, FullStays, Zenon DEF BucketInv
  <2>3. /\ pc[u] \in {"match", "wait", "compare"} => table'[B(u)] # EMPTY
        /\ pc[u] \in {"wait", "compare"} => table'[B(u)].hash = Memo(m[u].v)
        /\ pc[u] = "compare" => table'[B(u)].done
    BY <1>1, <1>2, <1>4, Zenon DEF BucketInv, Kept, InFop
  <2>4. pc[u] \in {"match", "wait", "compare"} => B(u)' = B(u)
    BY <1>4, Zenon DEF InFop
  <2> QED
    BY <1>1, <1>2, <2>1, <2>2, <2>3, <2>4, Zenon DEF BucketInv
<1> QED
  BY <1>3, <1>6, Zenon

\* A bucket that is being written looks like it.
LEMMA WriterWord ==
    ASSUME IInv, NEW u \in Thread, pc[u] \in {"copy", "write"}
    PROVE  table[B(u)].hash = Memo(m[u].v) /\ ~ table[B(u)].done
<1>1. table[B(u)] = WAIT(m[u].v)
  BY Zenon DEF IInv, WriteInv, Writing
<1>2. ASSUME NEW v PROVE WAIT(v).hash = Memo(v) /\ WAIT(v).done = FALSE
  BY Zenon DEF WAIT
<1> QED
  BY <1>1, <1>2, Zenon

\* From one bucket to the next.
LEMMA AdvanceInv ==
    ASSUME IInv, NEW t \in Thread, Step(t), Advance(t),
           pc[t] \in {"match", "compare"}, ~ Holds(B(t), m[t].v)
    PROVE  CallInv(t)' /\ BucketInv(t)'
<1>1. CallInv(t) /\ BucketInv(t) /\ TypeOK
  BY Zenon DEF IInv
<1>2. m[t].k \in Nat /\ m[t].v \in Vector /\ m[t].k < Threshold * Line
  BY <1>1, Zenon DEF TypeOK, Local, CallInv, BucketInv, InFop, Probing
<1>3. Past(m[t].v, m[t].k + 1)
  BY <1>1, <1>2, SMTT(30) DEF Past, BucketInv, B, InFop
<1>4. \A v \in Vector, k \in Nat : Past(v, k) => Past(v, k)'
  BY PastStays, Zenon
<1>5. /\ m'[t].k = m[t].k + 1 /\ m'[t].answer = m[t].answer /\ m'[t].ref = m[t].ref
      /\ m'[t].op = m[t].op /\ m'[t].v = m[t].v
      /\ pc'[t] = IF (m[t].k + 1) % Line = 0 THEN "loop" ELSE "probe"
  BY <1>1, AdvanceEffect, Zenon DEF TypeOK
<1>6. Past(m[t].v, m[t].k)'
  BY <1>2, <1>3, <1>4, <1>5
<1>7. CallInv(t)'
  BY <1>1, <1>5, Zenon DEF CallInv, InFop
<1>8. pc'[t] \in Probing => m'[t].k < Threshold * Line
  BY <1>2, <1>5, NextProbe, Zenon DEF Probing
<1>9. BucketInv(t)'
  BY <1>5, <1>6, <1>8, Zenon DEF BucketInv
<1> QED
  BY <1>7, <1>9, Zenon

-----------------------------------------------------------------------------
(* The steps of a call                                                     *)

\* The steps of a call that decide nothing.
LEMMA OwnSearch ==
    ASSUME IInv, NEW t \in Thread, Step(t),
           Fop(t) \/ LoopHead(t) \/ Match(t) \/ Wait(t) \/ Compare(t)
    PROVE  CallInv(t)' /\ BucketInv(t)'
<1>1. CallInv(t) /\ BucketInv(t) /\ TypeOK /\ WriteInv /\ DoneInv
  BY Zenon DEF IInv
<1>2. \A v \in Vector, k \in Nat : Past(v, k) => Past(v, k)'
  BY PastStays, Zenon
<1>3. CASE Fop(t)
  <2>1. /\ pc'[t] = "loop" /\ m'[t].k = 0 /\ m'[t].answer = "none" /\ m'[t].ref = 0
        /\ m'[t].v = Head(todo[t]).v /\ m'[t].op = Head(todo[t]).op
    BY <1>1, <1>3, Zenon DEF Fop, Goto, TypeOK, NoLocals
  <2>2. Head(todo[t]) \in CallRecord
    BY <1>1, <1>3 DEF Fop, TypeOK
  <2>3. m'[t].v \in Vector /\ m'[t].op \in {"lookup", "find"}
    BY <2>1, <2>2, <1>3, Zenon DEF CallRecord, Fop
  <2>4. CallInv(t)'
    BY <2>1, <2>3, Zenon DEF CallInv, InFop
  <2>5. Past(m[t].v, m[t].k)'
    BY <2>1 DEF Past
  <2> QED
    BY <2>1, <2>4, <2>5, Zenon DEF BucketInv, Probing
<1>4. CASE LoopHead(t)
  <2>1. /\ m' = m /\ full' = full
        /\ pc'[t] = IF m[t].k < Threshold * Line /\ ~full THEN "probe" ELSE "full"
        /\ pc[t] = "loop"
    BY <1>1, <1>4, Zenon DEF LoopHead, Goto, TypeOK, At, shared
  <2>2. m[t].v \in Vector /\ m[t].k \in Nat /\ Past(m[t].v, m[t].k)
    BY <1>1, <2>1, Zenon DEF CallInv, BucketInv, InFop, TypeOK, Local
  <2>3. Past(m[t].v, m[t].k)'
    BY <1>2, <2>1, <2>2, Zenon
  <2>4. CallInv(t)'
    BY <1>1, <2>1, Zenon DEF CallInv, InFop
  <2>5. Threshold * Line \in Nat
    BY HashAssumption
  <2> QED
    BY <2>1, <2>2, <2>3, <2>4, <2>5 DEF BucketInv, Probing
<1>5. CASE Match(t)
  <2>1. B(t) \in Ref /\ m[t].v \in Vector
    BY <1>1, <1>5, Buckets, Zenon DEF Match, At, InFop, IInv
  <2>2. CASE table[B(t)].hash = Memo(m[t].v)
    <3>1. /\ m' = m /\ table' = table /\ pc'[t] = "wait" /\ pc[t] = "match"
      BY <1>1, <1>5, <2>2, Zenon DEF Match, Goto, TypeOK, At, shared
    <3>2. m[t].k \in Nat /\ Past(m[t].v, m[t].k)
      BY <1>1, <3>1, Zenon DEF BucketInv, InFop, TypeOK, Local
    <3>3. Past(m[t].v, m[t].k)' /\ B(t)' = B(t)
      BY <1>2, <2>1, <3>1, <3>2, Zenon DEF B
    <3>4. CallInv(t)'
      BY <1>1, <3>1, Zenon DEF CallInv, InFop
    <3> QED
      BY <1>1, <2>2, <3>1, <3>3, <3>4, Zenon DEF BucketInv, Probing
  <2>3. CASE table[B(t)].hash # Memo(m[t].v)
    <3>1. Advance(t) /\ pc[t] = "match"
      BY <1>5, <2>3, Zenon DEF Match, At
    <3>2. ~ (table[B(t)].done /\ data[B(t)] = m[t].v)
      BY <1>1, <2>1, <2>3, Zenon DEF DoneInv
    <3>3. ASSUME NEW u \in Thread, pc[u] \in {"copy", "write"}, m[u].v = m[t].v, B(u) = B(t)
          PROVE  FALSE
      BY <2>3, <3>3, WriterWord, Zenon
    <3>4. ~ Holds(B(t), m[t].v)
      BY <3>2, <3>3, Zenon DEF Holds
    <3> QED
      BY <3>1, <3>4, AdvanceInv, Zenon
  <2> QED
    BY <2>2, <2>3, Zenon
<1>6. CASE Wait(t)
  <2>1. /\ m' = m /\ table' = table /\ pc'[t] = "compare" /\ pc[t] = "wait"
        /\ ~ (table[B(t)].hash = Memo(m[t].v) /\ ~ table[B(t)].done)
    BY <1>1, <1>6, Zenon DEF Wait, Goto, TypeOK, At, shared
  <2>2. m[t].v \in Vector /\ m[t].k \in Nat /\ Past(m[t].v, m[t].k)
    BY <1>1, <2>1, Zenon DEF CallInv, BucketInv, InFop, TypeOK, Local
  <2>3. Past(m[t].v, m[t].k)' /\ B(t)' = B(t)
    BY <1>2, <2>1, <2>2, Zenon DEF B
  <2>4. CallInv(t)'
    BY <1>1, <2>1, Zenon DEF CallInv, InFop
  <2> QED
    BY <1>1, <2>1, <2>3, <2>4, Zenon DEF BucketInv, Probing
<1>7. CASE Compare(t)
  <2>1. B(t) \in Ref /\ m[t].v \in Vector /\ pc[t] = "compare"
    BY <1>1, <1>7, Buckets, Zenon DEF Compare, At, InFop, IInv
  <2>2. table[B(t)].done /\ data[B(t)] \in Vector
    BY <1>1, <2>1, Zenon DEF BucketInv, DoneInv
  <2>3. CASE Goto(t, "return") /\ Decide(t, "seen", B(t)) /\ data[B(t)] = m[t].v
    <3>1. /\ m'[t].answer = "seen" /\ m'[t].ref = B(t) /\ m'[t].v = m[t].v
          /\ m'[t].op = m[t].op /\ pc'[t] = "return" /\ table' = table /\ data' = data
      BY <1>1, <1>7, <2>1, <2>3, DecideEffect, Zenon DEF TypeOK, Goto, Compare, shared, Answer
    <3>2. CallInv(t)'
      BY <1>1, <2>1, <2>2, <2>3, <3>1, Zenon DEF CallInv, InFop, Written
    <3> QED
      BY <3>1, <3>2, Zenon DEF BucketInv, Probing
  <2>4. CASE data[B(t)] # m[t].v /\ Advance(t)
    <3>1. ASSUME NEW u \in Thread, pc[u] \in {"copy", "write"}, m[u].v = m[t].v, B(u) = B(t)
          PROVE  FALSE
      BY <2>2, <3>1, WriterWord, Zenon
    <3>2. ~ Holds(B(t), m[t].v)
      BY <2>4, <3>1, Zenon DEF Holds
    <3> QED
      BY <2>1, <2>4, <3>2, AdvanceInv, Zenon
  <2>5. data[B(t)] # NoVector
    BY <2>2, NoVectorAssumption, Zenon
  <2> QED
    BY <1>7, <2>3, <2>4, <2>5, Zenon DEF Compare
<1> QED
  BY <1>3, <1>4, <1>5, <1>6, <1>7, Zenon

\* The steps that decide a call, or write.
LEMMA OwnDecide ==
    ASSUME IInv, NEW t \in Thread, Step(t),
           SetFull(t) \/ ReadEmpty(t) \/ CasEmpty(t) \/ Copy(t) \/ WriteDone(t)
    PROVE  CallInv(t)' /\ BucketInv(t)'
<1>1. CallInv(t) /\ BucketInv(t) /\ TypeOK /\ WriteInv
  BY Zenon DEF IInv
<1>2. \A v \in Vector, k \in Nat : Past(v, k) => Past(v, k)'
  BY PastStays, Zenon
<1>3. pc[t] \in InFop \ {"return"}
  BY Zenon DEF SetFull, ReadEmpty, CasEmpty, Copy, WriteDone, At, InFop
<1>4. B(t) \in Ref /\ m[t].v \in Vector /\ m[t].k \in Nat /\ Past(m[t].v, m[t].k)
  BY <1>1, <1>3, Buckets, Zenon DEF BucketInv, TypeOK, Local, IInv
<1>5. ASSUME m'[t].v = m[t].v, m'[t].k = m[t].k
      PROVE  Past(m[t].v, m[t].k)' /\ B(t)' = B(t)
  BY <1>2, <1>4, <1>5, Zenon DEF B
<1>6. CASE SetFull(t)
  <2>1. m'[t].answer = "full" /\ pc'[t] = "return" /\ m'[t].op = m[t].op /\ m'[t].v = m[t].v
    BY <1>1, <1>6, DecideEffect, SizeIsPositive, Zenon DEF SetFull, Goto, TypeOK, Answer
  <2>2. CallInv(t)'
    BY <1>1, <1>3, <2>1, Zenon DEF CallInv, InFop
  <2> QED
    BY <2>1, <2>2, Zenon DEF BucketInv, Probing
<1>7. CASE ReadEmpty(t)
  <2>1. pc[t] = "probe"
    BY <1>7, Zenon DEF ReadEmpty, At
  <2>2. CASE table[B(t)] # EMPTY \/ m[t].op = "lookup"
    <3>1. /\ m' = m /\ table' = table
          /\ pc'[t] = IF table[B(t)] # EMPTY THEN "match" ELSE "cas"
      BY <1>1, <1>7, <2>2, Zenon DEF ReadEmpty, Goto, TypeOK, shared
    <3>2. CallInv(t)'
      BY <1>1, <2>1, <2>2, <3>1, Zenon DEF CallInv, InFop
    <3>3. Past(m[t].v, m[t].k)' /\ B(t)' = B(t)
      BY <1>5, <3>1, Zenon
    <3> QED
      BY <1>1, <2>1, <3>1, <3>2, <3>3, Zenon DEF BucketInv, Probing
  <2>3. CASE table[B(t)] = EMPTY /\ m[t].op # "lookup"
    <3>1. m'[t].answer = "not_found" /\ pc'[t] = "return" /\ m'[t].op = m[t].op /\ m'[t].v = m[t].v
      BY <1>1, <1>7, <2>3, DecideEffect, SizeIsPositive, Zenon DEF ReadEmpty, Goto, TypeOK, Answer
    <3>2. CallInv(t)'
      BY <1>1, <2>1, <2>3, <3>1, Zenon DEF CallInv, InFop
    <3> QED
      BY <3>1, <3>2, Zenon DEF BucketInv, Probing
  <2> QED
    BY <2>2, <2>3, Zenon
<1>8. CASE CasEmpty(t)
  <2>1. pc[t] = "cas"
    BY <1>8, Zenon DEF CasEmpty, At
  <2>2. CASE table[B(t)] = EMPTY
    <3>1. /\ m'[t].answer = "new" /\ m'[t].ref = B(t) /\ m'[t].v = m[t].v /\ m'[t].k = m[t].k
          /\ m'[t].op = m[t].op /\ pc'[t] = "copy"
      BY <1>1, <1>4, <1>8, <2>2, DecideEffect, Zenon DEF CasEmpty, Goto, TypeOK, Answer
    <3>2. Past(m[t].v, m[t].k)' /\ B(t)' = B(t)
      BY <1>5, <3>1, Zenon
    <3>3. CallInv(t)'
      BY <1>1, <2>1, <3>1, <3>2, Zenon DEF CallInv, InFop
    <3> QED
      BY <1>1, <2>1, <3>1, <3>2, <3>3, Zenon DEF BucketInv, Probing
  <2>3. CASE table[B(t)] # EMPTY
    <3>1. m' = m /\ table' = table /\ pc'[t] = "match"
      BY <1>1, <1>8, <2>3, Zenon DEF CasEmpty, Goto, TypeOK
    <3>2. Past(m[t].v, m[t].k)' /\ B(t)' = B(t)
      BY <1>5, <3>1, Zenon
    <3>3. CallInv(t)'
      BY <1>1, <2>1, <3>1, Zenon DEF CallInv, InFop
    <3> QED
      BY <1>1, <2>1, <2>3, <3>1, <3>2, <3>3, Zenon DEF BucketInv, Probing
  <2> QED
    BY <2>2, <2>3, Zenon
<1>9. CASE Copy(t)
  <2>1. m' = m /\ table' = table /\ pc'[t] = "write" /\ pc[t] = "copy"
    BY <1>1, <1>9, Zenon DEF Copy, Goto, TypeOK, At
  <2>2. Past(m[t].v, m[t].k)' /\ B(t)' = B(t)
    BY <1>5, <2>1, Zenon
  <2>3. CallInv(t)'
    BY <1>1, <2>1, <2>2, Zenon DEF CallInv, InFop
  <2> QED
    BY <1>1, <2>1, <2>2, <2>3, Zenon DEF BucketInv, Probing
<1>10. CASE WriteDone(t)
  <2>1. /\ m' = m /\ data' = data /\ pc'[t] = "return" /\ pc[t] = "write"
        /\ table'[B(t)] = DONE(m[t].v)
    BY <1>1, <1>4, <1>10, Zenon DEF WriteDone, Goto, TypeOK, At
  <2>2. table'[B(t)].done /\ data'[B(t)] = m[t].v
    BY <1>1, <2>1 DEF WriteInv, DONE
  <2>3. CallInv(t)'
    BY <1>1, <2>1, <2>2, Zenon DEF CallInv, InFop, Written
  <2> QED
    BY <2>1, <2>3, Zenon DEF BucketInv, Probing
<1> QED
  BY <1>6, <1>7, <1>8, <1>9, <1>10, Zenon

\* Outside of DBSLLfop_hash there is little to know.
LEMMA OwnOther ==
    ASSUME IInv, NEW t \in Thread, Step(t),
           Return(t) \/ SatCall(t) \/ SatRead(t) \/ SatSwap(t)
    PROVE  CallInv(t)' /\ BucketInv(t)'
<1>1. CallInv(t) /\ TypeOK /\ TypeOK'
  BY TypeStep, Zenon DEF IInv
<1>2. pc'[t] \in {"idle", "read", "swap"}
  BY <1>1, Zenon DEF Return, SatCall, SatRead, SatSwap, Finish, Goto, TypeOK
<1>3. BucketInv(t)'
  BY <1>2, Zenon DEF BucketInv, Probing, InFop
<1>4. pc'[t] \in {"read", "swap"} => m'[t].op \in {"color", "set", "inc", "dec"}
  <2>1. CASE SatCall(t)
    BY <1>1, <2>1, Zenon DEF SatCall, TypeOK, NoLocals
  <2>2. CASE SatRead(t)
    BY <1>1, <2>2 DEF SatRead, Finish, Goto, TypeOK, CallInv, At, Local
  <2>3. CASE SatSwap(t)
    BY <1>1, <2>3 DEF SatSwap, Finish, Goto, TypeOK, CallInv, At, Local
  <2>4. CASE Return(t)
    BY <1>1, <2>4, Zenon DEF Return, Goto, TypeOK
  <2> QED
    BY <2>1, <2>2, <2>3, <2>4, Zenon
<1>5. CallInv(t)'
  BY <1>2, <1>4, Zenon DEF CallInv, InFop
<1> QED
  BY <1>3, <1>5, Zenon

LEMMA WriteStep ==
    ASSUME IInv, NEW t \in Thread, Step(t)
    PROVE  WriteInv'
<1>1. Kept(t) /\ Frame(t) /\ TypeOK /\ WriteInv
  BY MemoryStep, TypeStep, Zenon DEF IInv
<1>2. ASSUME NEW u \in Thread \ {t}, Writing(u)'
      PROVE  /\ Writing(u) /\ B(u)' = B(u) /\ m'[u] = m[u] /\ pc'[u] = pc[u]
             /\ table'[B(u)] = table[B(u)] /\ data'[B(u)] = data[B(u)]
  BY <1>1, <1>2, Zenon DEF Frame, Writing, Kept, B
<1>3. ASSUME Writing(t)'
      PROVE  /\ m'[t].v = m[t].v /\ B(t)' = B(t) /\ table'[B(t)] = WAIT(m[t].v)
             /\ pc'[t] = "write" => data'[B(t)] = m[t].v
             /\ Writing(t) \/ table[B(t)] = EMPTY
  <2>1. CASE Copy(t)
    <3>1. B(t) \in Ref /\ Writing(t)
      BY <2>1, Buckets, Zenon DEF Copy, At, InFop, Writing
    <3> QED
      BY <1>1, <2>1, <3>1, Zenon DEF Copy, B, WriteInv, TypeOK
  <2>2. CASE CasEmpty(t) /\ table[B(t)] = EMPTY
    <3>1. B(t) \in Ref
      BY <2>2, Buckets, Zenon DEF CasEmpty, At, InFop
    <3>2. m'[t].v = m[t].v /\ m'[t].k = m[t].k
      BY <1>1, <2>2, <3>1, DecideEffect, Zenon DEF CasEmpty, TypeOK, Answer
    <3>3. pc'[t] = "copy" /\ table'[B(t)] = WAIT(m[t].v)
      BY <1>1, <2>2, <3>1, Zenon DEF CasEmpty, TypeOK, Goto
    <3> QED
      BY <2>2, <3>2, <3>3, Zenon DEF B
  <2> QED
    BY <1>3, <2>1, <2>2, NewWriter, Zenon
<1>4. ASSUME NEW u \in Thread \ {t}, Writing(t)', Writing(u)'
      PROVE  B(t)' # B(u)'
  <2>1. Writing(u) /\ B(u)' = B(u) /\ table[B(u)] # EMPTY
    <3>1. Writing(u) /\ B(u)' = B(u) /\ m[u].v \in Vector
      BY <1>2, <1>4, Buckets, Zenon DEF Writing, InFop
    <3>2. table[B(u)].hash # 0
      BY <3>1, WriterWord, MemoIsHash, Zenon DEF Writing
    <3> QED
      BY <3>1, <3>2 DEF EMPTY
  <2> QED
    BY <1>1, <1>3, <1>4, <2>1, Zenon DEF WriteInv
<1>5. ASSUME NEW u \in Thread, Writing(u)' PROVE table'[B(u)'] = WAIT(m'[u].v)
  BY <1>1, <1>2, <1>3, <1>5 DEF WriteInv
<1>6. ASSUME NEW u \in Thread, pc'[u] = "write" PROVE data'[B(u)'] = m'[u].v
  <2>1. Writing(u)'
    BY <1>6, Zenon DEF Writing
  <2> QED
    BY <1>1, <1>2, <1>3, <1>6, <2>1 DEF WriteInv
<1>7. ASSUME NEW u \in Thread, NEW w \in Thread, Writing(u)', Writing(w)', u # w
      PROVE  B(u)' # B(w)'
  BY <1>1, <1>2, <1>4, <1>7, Zenon DEF WriteInv
<1> QED
  BY <1>5, <1>6, <1>7, Zenon DEF WriteInv

LEMMA DoneStep ==
    ASSUME IInv, NEW t \in Thread, Step(t)
    PROVE  DoneInv'
<1>1. Kept(t) /\ Frame(t) /\ TypeOK /\ TypeOK' /\ DoneInv /\ WriteInv /\ CallInv(t)
  BY MemoryStep, TypeStep, Zenon DEF IInv
<1>2. ASSUME NEW b \in Ref, table'[b].done
      PROVE  data'[b] \in Vector /\ table'[b].hash = Memo(data'[b])
  <2>1. CASE table[b].done
    BY <1>1, <2>1, Zenon DEF Kept, DoneInv
  <2>2. CASE ~ table[b].done
    <3>1. WriteDone(t) /\ b = B(t)
      BY <1>2, <2>2, NewDone, Zenon
    <3>2. m[t].v \in Vector /\ data'[b] = m[t].v /\ table'[b] = DONE(m[t].v)
      BY <1>1, <3>1, Buckets, Zenon DEF WriteDone, At, InFop, WriteInv, TypeOK
    <3> QED
      BY <3>2 DEF DONE
  <2> QED
    BY <2>1, <2>2, Zenon
<1>3. ASSUME NEW b \in Ref, NEW v \in Vector, Written(b, v)
      PROVE  Written(b, v)'
  BY <1>1, <1>3, Zenon DEF Kept, Written
<1>4. ASSUME NEW u \in Thread, NEW v \in Vector, knows'[u][v] # NoRef
      PROVE  Written(knows[u][v], v)'
  <2>1. CASE knows'[u][v] = knows[u][v]
    <3>1. knows[u][v] \in Ref /\ Written(knows[u][v], v)
      BY <1>1, <1>4, <2>1 DEF DoneInv, TypeOK
    <3> QED
      BY <1>3, <2>1, <3>1, Zenon DEF Written
  <2>2. CASE knows'[u][v] # knows[u][v]
    <3>1. Return(t) /\ u = t
      BY <1>1, <2>2, Zenon DEF Frame, Step, FopStep, Fop, LoopHead, SetFull, ReadEmpty, CasEmpty, Copy,
                        WriteDone, Match, Wait, Compare, SatCall, SatRead, SatSwap, client
    <3>2. /\ m[t].op = "lookup" /\ m[t].answer # "full" /\ v = m[t].v
          /\ knows'[t][v] = m[t].ref /\ pc[t] = "return" /\ m[t].ref \in Ref
      BY <1>1, <2>2, <3>1 DEF Return, At, TypeOK, Local
    <3>3. Written(m[t].ref, m[t].v)
      BY <1>1, <3>2, Zenon DEF CallInv, TypeOK, Local
    <3> QED
      BY <1>3, <3>1, <3>2, <3>3, Zenon DEF Written
  <2> QED
    BY <2>1, <2>2, Zenon
<1>5. ASSUME NEW u \in Thread, pc'[u] \in {"read", "swap"}
      PROVE  table'[m'[u].ref].done
  <2>1. CASE u # t
    BY <1>1, <1>5, <2>1, Zenon DEF Frame, Kept, DoneInv, TypeOK, Local
  <2>2. CASE u = t /\ SatCall(t)
    <3> DEFINE v == Head(todo[t]).v
    <3>1. knows[t][v] # NoRef /\ m'[t].ref = knows[t][v] /\ table' = table
      BY <1>1, <2>2, Zenon DEF SatCall, TypeOK, shared, NoLocals
    <3>2. Head(todo[t]) \in CallRecord
      BY <1>1, <2>2 DEF SatCall, TypeOK
    <3>3. v \in Vector
      BY <3>2, Zenon DEF CallRecord
    <3> QED
      BY <1>1, <2>2, <3>1, <3>3, Zenon DEF DoneInv, Written
  <2>3. CASE u = t /\ pc[t] \in {"read", "swap"}
    <3>1. m'[t].ref = m[t].ref
      BY <1>1, <1>5, <2>3 DEF Step, FopStep, Fop, LoopHead, SetFull, ReadEmpty, CasEmpty, Copy,
             WriteDone, Match, Wait, Compare, Return, SatCall, SatRead, SatSwap, Finish, At, Goto,
             TypeOK, Local
    <3>2. m[t].ref \in Ref /\ table[m[t].ref].done
      BY <1>1, <2>3, Zenon DEF TypeOK, Local, DoneInv
    <3> QED
      BY <1>1, <2>3, <3>1, <3>2, Zenon DEF Kept
  <2>4. pc[t] \notin {"read", "swap"} /\ u = t => SatCall(t)
    <3>1. \A l : Goto(t, l) => pc'[t] = l
      BY <1>1, Zenon DEF Goto, TypeOK
    <3> QED
      BY <1>5, <3>1, Zenon DEF Step, FopStep, Fop, LoopHead, SetFull, ReadEmpty, CasEmpty, Copy, Advance,
             WriteDone, Match, Wait, Compare, Return, SatRead, SatSwap, At
  <2> QED
    BY <2>1, <2>2, <2>3, <2>4, Zenon
<1> QED
  BY <1>2, <1>4, <1>5, Zenon DEF DoneInv

LEMMA PlacedStep ==
    ASSUME IInv, NEW t \in Thread, Step(t)
    PROVE  Placed'
<1> SUFFICES ASSUME NEW b \in Ref, NEW v \in Vector, Holds(b, v)'
             PROVE  \E k \in Nat : b = Bucket(v, k) /\ Past(v, k)'
  BY Zenon DEF Placed
<1>1. CASE Holds(b, v)
  <2>1. PICK k \in Nat : b = Bucket(v, k) /\ Past(v, k)
    BY <1>1, Zenon DEF IInv, Placed
  <2> QED
    BY <2>1, PastStays, Zenon
<1>2. CASE ~ Holds(b, v)
  <2>1. CasEmpty(t) /\ b = B(t) /\ v = m[t].v
    BY <1>2, HoldsNew, Zenon
  <2>2. pc[t] = "cas" /\ BucketInv(t) /\ m[t].k \in Nat
    BY <2>1, Zenon DEF CasEmpty, At, IInv, TypeOK, Local
  <2>3. Past(v, m[t].k)
    BY <2>1, <2>2, Zenon DEF BucketInv, InFop
  <2> QED
    BY <2>1, <2>2, <2>3, PastStays, Zenon DEF B
<1> QED
  BY <1>1, <1>2, Zenon

LEMMA FullStep ==
    ASSUME IInv, NEW t \in Thread, Step(t)
    PROVE  FullIsReal'
<1> DEFINE last == Threshold * Line
<1>1. last \in Nat
  BY HashAssumption
<1> HIDE DEF last
<1>2. FullIsReal <=> (full => \E v \in Vector : Past(v, last))
  BY Zenon DEF FullIsReal, Past, last
<1>3. FullIsReal' <=> (full' => \E v \in Vector : Past(v, last)')
  BY Zenon DEF FullIsReal, Past, last
<1> SUFFICES ASSUME full' PROVE \E v \in Vector : Past(v, last)'
  BY <1>3, Zenon
<1>4. CASE full
  <2>1. PICK v \in Vector : Past(v, last)
    BY <1>2, <1>4, Zenon DEF IInv
  <2> QED
    BY <1>1, <2>1, PastStays, Zenon
<1>5. CASE ~ full
  <2>1. SetFull(t)
    BY <1>5, Zenon DEF Step, FopStep, Fop, LoopHead, ReadEmpty, CasEmpty, Copy, WriteDone, Match, Wait,
                Compare, Return, SatCall, SatRead, SatSwap, shared
  <2>2. /\ pc[t] = "full" /\ BucketInv(t)
        /\ m[t].v \in Vector /\ m[t].k \in Nat
    BY <2>1, Buckets, Zenon DEF SetFull, At, InFop, IInv
  <2>3. Past(m[t].v, m[t].k) /\ m[t].k >= last
    BY <1>5, <2>2, Zenon DEF BucketInv, InFop, last
  <2>4. Past(m[t].v, last)
    BY <1>1, <2>2, <2>3 DEF Past
  <2> QED
    BY <1>1, <2>2, <2>4, PastStays, Zenon
<1> QED
  BY <1>4, <1>5, Zenon

LEMMA InitInv == Init => IInv
<1> SUFFICES ASSUME Init PROVE IInv
  BY Zenon
<1>1. TypeOK
  <2>1. todo \in [Thread -> Seq(CallRecord)]
    BY ScriptAssumption, Zenon DEF Init
  <2>2. knows \in [Thread -> [Vector -> Ref \cup {NoRef}]]
    BY Zenon DEF Init
  <2> QED
    BY <2>1, <2>2, EmptyIsWord, NoLocalsType, Zenon DEF Init, TypeOK, Label
<1>2. \A t \in Thread : CallInv(t) /\ BucketInv(t)
  BY Zenon DEF Init, CallInv, BucketInv, InFop, Probing
<1>3. \A b \in Ref : ~ table[b].done
  BY Zenon DEF Init, EMPTY
<1>4. \A t \in Thread : pc[t] = "idle"
  BY Zenon DEF Init
<1>5. WriteInv /\ DoneInv
  BY <1>3, <1>4, Zenon DEF Init, WriteInv, DoneInv, Writing
<1>6. Placed
  BY <1>3, <1>4, Zenon DEF Placed, Holds
<1>7. FullIsReal
  BY Zenon DEF Init, FullIsReal
<1> QED
  BY <1>1, <1>2, <1>5, <1>6, <1>7, Zenon DEF IInv

LEMMA InvStep == IInv /\ [Next]_vars => IInv'
<1> SUFFICES ASSUME IInv, [Next]_vars PROVE IInv'
  BY Zenon
<1>1. ASSUME NEW t \in Thread, Step(t) PROVE IInv'
  <2>1. TypeOK'
    BY <1>1, TypeStep, Zenon DEF IInv
  <2>2. CallInv(t)' /\ BucketInv(t)'
    BY <1>1, OwnSearch, OwnDecide, OwnOther, Zenon DEF Step, FopStep
  <2>3. \A u \in Thread : CallInv(u)' /\ BucketInv(u)'
    BY <1>1, <2>2, OtherThreads, Zenon
  <2> QED
    BY <1>1, <2>1, <2>3, WriteStep, DoneStep, PlacedStep, FullStep, Zenon DEF IInv
<1>2. CASE UNCHANGED vars
  <2>1. UNCHANGED <<table, data, full, pc, m, knows>>
    BY <1>2, Zenon DEF vars, shared, client
  <2>2. /\ \A b, v : Holds(b, v)' <=> Holds(b, v)
        /\ \A b, v : Written(b, v)' <=> Written(b, v)
        /\ \A t : B(t)' = B(t)
    BY <2>1, Zenon DEF Holds, Written, B
  <2>3. \A v, k : Past(v, k)' <=> Past(v, k)
    BY <2>1, <2>2, Zenon DEF Past
  <2>4. TypeOK'
    BY <1>2, Zenon DEF vars, shared, client, IInv, TypeOK
  <2>5. \A t \in Thread : CallInv(t)' /\ BucketInv(t)'
    BY <2>1, <2>2, <2>3, Zenon DEF IInv, CallInv, BucketInv
  <2>6. WriteInv' /\ DoneInv'
    BY <2>1, <2>2, Zenon DEF IInv, WriteInv, DoneInv, Writing
  <2>7. Placed'
    BY <2>2, <2>3, Zenon DEF IInv, Placed
  <2>8. FullIsReal'
    BY <2>1, <2>2, Zenon DEF IInv, FullIsReal
  <2> QED
    BY <2>4, <2>5, <2>6, <2>7, <2>8, Zenon DEF IInv
<1> QED
  BY <1>1, <1>2, Zenon DEF Next, Finished

\* The invariant of the table: IInv is kept by every step of every thread.
THEOREM Inductive == Spec => []IInv
BY InitInv, InvStep, PTL DEF Spec

\* A vector that is looked up by any number of threads at the same time gets
\* one bucket (DBSLLfop_hash): every vector is in the first of its buckets
\* that was free, and all threads try them in the same order.
THEOREM VectorsStoredOnce == Spec => []StoredOnce
<1>1. IInv => StoredOnce
  <2> SUFFICES ASSUME IInv, NEW v \in Vector, NEW b \in Ref, NEW c \in Ref,
                      Holds(b, v), Holds(c, v)
               PROVE  b = c
    BY Zenon DEF StoredOnce
  <2>1. PICK i \in Nat : b = Bucket(v, i) /\ Past(v, i)
    BY Zenon DEF IInv, Placed
  <2>2. PICK j \in Nat : c = Bucket(v, j) /\ Past(v, j)
    BY Zenon DEF IInv, Placed
  <2>3. ~ (i < j) /\ ~ (j < i)
    BY <2>1, <2>2 DEF Past
  <2> QED
    BY <2>1, <2>2, <2>3
<1> QED
  BY <1>1, Inductive, PTL

\* No thread compares its vector with one that is being copied
\* (DBSLLfop_hash, the loop on the write bit before memcmp).
THEOREM OnlyWrittenCompared == Spec => []ComparesWritten
<1>1. IInv => ComparesWritten
  <2> SUFFICES ASSUME IInv, NEW t \in Thread, pc[t] = "compare"
               PROVE  data[B(t)] # NoVector
    BY Zenon DEF ComparesWritten, At
  <2>1. B(t) \in Ref /\ BucketInv(t) /\ DoneInv
    BY Buckets, Zenon DEF IInv, InFop
  <2>2. data[B(t)] \in Vector
    BY <2>1, Zenon DEF BucketInv, DoneInv
  <2> QED
    BY <2>2, NoVectorAssumption, Zenon
<1> QED
  BY <1>1, Inductive, PTL

\* DB_FULL is returned only when some vector has no bucket left.
THEOREM FullOnlyWhenFull == Spec => []FullIsReal
<1>1. IInv => FullIsReal
  BY Zenon DEF IInv
<1> QED
  BY <1>1, Inductive, PTL

-----------------------------------------------------------------------------
(* The table implements the atomic set of StateSet: a call takes effect in *)
(* one step, at the cas that claims a bucket, at the comparison that finds *)
(* the vector, or where the search ends.                                   *)

\* A bucket that holds a vector is not empty.
LEMMA HoldsTaken ==
    ASSUME IInv, NEW b \in Ref, NEW v \in Vector, Holds(b, v)
    PROVE  table[b] # EMPTY
<1>1. CASE table[b].done
  BY <1>1 DEF EMPTY
<1>2. ASSUME NEW u \in Thread, pc[u] \in {"copy", "write"}, m[u].v = v, B(u) = b
      PROVE  table[b] # EMPTY
  <2>1. table[b].hash # 0
    BY <1>2, WriterWord, MemoIsHash, Zenon
  <2> QED
    BY <2>1 DEF EMPTY
<1> QED
  BY <1>1, <1>2, Zenon DEF Holds

\* A thread that has come to an empty bucket knows that its vector is nowhere
\* in the table: before the bucket it has looked, and after it the vector
\* would have been put into this one.
LEMMA NowhereElse ==
    ASSUME IInv, NEW t \in Thread, pc[t] \in {"probe", "cas"}, table[B(t)] = EMPTY,
           NEW b \in Ref
    PROVE  ~ Holds(b, m[t].v)
<1>1. m[t].v \in Vector /\ m[t].k \in Nat /\ Past(m[t].v, m[t].k)
  BY Buckets, Zenon DEF IInv, BucketInv, InFop
<1> SUFFICES ASSUME Holds(b, m[t].v) PROVE FALSE
  BY Zenon
<1>2. PICK k \in Nat : b = Bucket(m[t].v, k) /\ Past(m[t].v, k)
  BY <1>1, Zenon DEF IInv, Placed
<1>3. ~ (k < m[t].k) /\ ~ (m[t].k < k)
  BY <1>1, <1>2 DEF Past, B
<1>4. b = B(t)
  BY <1>1, <1>2, <1>3 DEF B
<1> QED
  BY <1>1, <1>4, HoldsTaken, Zenon

Undecided == InFop \ {"copy", "write", "return"}

\* Calls that are not decided, and calls that are.
LEMMA CallStages ==
    ASSUME IInv, NEW t \in Thread
    PROVE  /\ pc[t] \in Undecided =>
                 CallOf(t) = Abstract!Asked(m[t].v, m[t].op = "lookup")
           /\ pc[t] \in {"copy", "write", "return"} => CallOf(t).stage = "decided"
           /\ pc[t] \notin InFop => CallOf(t) = Abstract!Idle
<1>1. CallInv(t)
  BY Zenon DEF IInv
<1>2. ASSUME pc[t] \in Undecided
      PROVE  CallOf(t) = Abstract!Asked(m[t].v, m[t].op = "lookup")
  <2>1. pc[t] \in InFop /\ m[t].answer = "none" /\ m[t].ref = 0
    BY <1>1, <1>2, Zenon DEF CallInv, Undecided
  <2> QED
    BY <2>1, Zenon DEF CallOf, Abstract!Asked
<1>3. ASSUME pc[t] \in {"copy", "write", "return"} PROVE CallOf(t).stage = "decided"
  <2>1. pc[t] \in InFop /\ m[t].answer # "none"
    BY <1>1, <1>3, Zenon DEF CallInv, InFop
  <2> QED
    BY <2>1, Zenon DEF CallOf
<1>4. pc[t] \notin InFop => CallOf(t) = Abstract!Idle
  BY Zenon DEF CallOf, Abstract!Idle
<1> QED
  BY <1>2, <1>3, <1>4, Zenon

LEMMA InsertOf ==
    ASSUME NEW v, NEW insert \in BOOLEAN
    PROVE  Abstract!Asked(v, insert).insert = insert /\ Abstract!Asked(v, insert).v = v
BY Zenon DEF Abstract!Asked

\* A step of t is a step of the call of t.
LEMMA CallsStep ==
    ASSUME IInv, NEW t \in Thread, Step(t)
    PROVE  Calls' = [Calls EXCEPT ![t] = CallOf(t)']
<1>1. ASSUME NEW u \in Thread \ {t} PROVE CallOf(u)' = CallOf(u)
  <2>1. pc'[u] = pc[u] /\ m'[u] = m[u]
    BY TypeStep, Zenon DEF IInv, Frame
  <2> QED
    BY <2>1, Zenon DEF CallOf
<1> QED
  BY <1>1, Zenon DEF Calls

\* The set changes when a bucket is taken, and only then.
LEMMA StoredStep ==
    ASSUME IInv, NEW t \in Thread, Step(t)
    PROVE  StoredSet' = IF CasEmpty(t) /\ table[B(t)] = EMPTY
                        THEN StoredSet \cup {<<B(t), m[t].v>>} ELSE StoredSet
<1>1. \A b \in Ref, v \in Vector : Holds(b, v) => Holds(b, v)'
  BY HoldsStays, Zenon
<1>2. \A b \in Ref, v \in Vector : Holds(b, v)' /\ ~ Holds(b, v) =>
          CasEmpty(t) /\ table[B(t)] = EMPTY /\ b = B(t) /\ v = m[t].v
  BY HoldsNew, Zenon
<1>3. CASE CasEmpty(t) /\ table[B(t)] = EMPTY
  <2>1. B(t) \in Ref /\ m[t].v \in Vector /\ TypeOK
    BY <1>3, Buckets, Zenon DEF CasEmpty, At, InFop, IInv
  <2>2. pc'[t] = "copy" /\ m'[t].v = m[t].v /\ m'[t].k = m[t].k
    BY <1>3, <2>1, DecideEffect, Zenon DEF CasEmpty, Goto, TypeOK, Answer
  <2>3. Holds(B(t), m[t].v)'
    BY <2>2, Zenon DEF Holds, B
  <2>4. B(t)' = B(t)
    BY <2>2, Zenon DEF B
  <2>5. \A b \in Ref, v \in Vector :
            Holds(b, v)' <=> Holds(b, v) \/ (b = B(t) /\ v = m[t].v)
    BY <1>1, <1>2, <2>2, <2>3, <2>4, Zenon
  <2> QED
    BY <1>3, <2>1, <2>5 DEF StoredSet
<1>4. CASE ~ (CasEmpty(t) /\ table[B(t)] = EMPTY)
  <2>1. \A b \in Ref, v \in Vector : Holds(b, v)' <=> Holds(b, v)
    BY <1>1, <1>2, <1>4, Zenon
  <2> QED
    BY <1>4, <2>1, Zenon DEF StoredSet
<1> QED
  BY <1>3, <1>4, Zenon

\* The step that decides the call of t.
LEMMA DecideRefines ==
    ASSUME IInv, NEW t \in Thread, Step(t), pc[t] \in Undecided, pc'[t] \in InFop,
           NEW a \in Answer \ {"none"}, NEW r \in Ref,
           m'[t].answer = a, m'[t].ref = r, m'[t].v = m[t].v, m'[t].op = m[t].op
    PROVE  Abstract!Decide(t, a, r)
<1>1. Calls[t] = Abstract!Asked(m[t].v, m[t].op = "lookup")
  BY CallStages, Zenon DEF Calls
<1>2. CallOf(t)' = Abstract!Decided(Calls[t], a, r)
  BY <1>1 DEF CallOf, Abstract!Decided, Abstract!Asked
<1>3. Calls[t].stage = "asked"
  BY <1>1 DEF Abstract!Asked
<1> QED
  BY <1>2, <1>3, CallsStep, Zenon DEF Abstract!Decide

\* A step of t that leaves its call as it is changes nothing that can be seen.
LEMMA StutterRefines ==
    ASSUME IInv, NEW t \in Thread, Step(t), CallOf(t)' = CallOf(t),
           ~ (CasEmpty(t) /\ table[B(t)] = EMPTY)
    PROVE  UNCHANGED <<StoredSet, Calls>>
<1>1. Calls' = Calls
  BY CallsStep, Zenon DEF Calls
<1>2. StoredSet' = StoredSet
  BY StoredStep, Zenon
<1> QED
  BY <1>1, <1>2, Zenon

LEMMA AskRefines ==
    ASSUME IInv, NEW t \in Thread, Fop(t)
    PROVE  \E v \in Vector, insert \in BOOLEAN : Abstract!Ask(t, v, insert)
<1>1. TypeOK /\ pc[t] = "idle" /\ Step(t) /\ IInv'
  BY InvStep, Zenon DEF Fop, At, IInv, Step, Next
<1>2. m'[t].v = Head(todo[t]).v /\ pc'[t] = "loop"
  BY <1>1, Zenon DEF Fop, Goto, TypeOK, NoLocals
<1>3. Head(todo[t]) \in CallRecord
  BY <1>1 DEF Fop, TypeOK
<1>4. m'[t].v \in Vector
  BY <1>2, <1>3, Zenon DEF CallRecord
<1>5. CallInv(t)'
  BY <1>1, Zenon DEF IInv
<1>6. CallOf(t)' = Abstract!Asked(m'[t].v, m'[t].op = "lookup")
  <2>1. pc'[t] \in InFop /\ m'[t].answer = "none" /\ m'[t].ref = 0
    BY <1>2, <1>5, Zenon DEF CallInv, InFop
  <2> QED
    BY <2>1, Zenon DEF CallOf, Abstract!Asked
<1>7. Calls[t] = Abstract!Idle
  BY <1>1, CallStages, Zenon DEF Calls, InFop
<1>8. StoredSet' = StoredSet
  BY <1>1, StoredStep, Zenon DEF CasEmpty, At
<1>9. Abstract!Ask(t, m'[t].v, m'[t].op = "lookup")
  BY <1>1, <1>6, <1>7, <1>8, CallsStep, Zenon DEF Abstract!Ask
<1> QED
  BY <1>4, <1>9, Zenon

LEMMA AddRefines ==
    ASSUME IInv, NEW t \in Thread, CasEmpty(t), table[B(t)] = EMPTY
    PROVE  \E b \in Ref : Abstract!Add(t, b)
<1>1. TypeOK /\ pc[t] = "cas" /\ Step(t) /\ CallInv(t)
  BY Zenon DEF CasEmpty, At, IInv, Step, FopStep
<1>2. B(t) \in Ref /\ m[t].v \in Vector
  BY <1>1, Buckets, Zenon DEF InFop
<1>3. /\ pc'[t] = "copy" /\ m'[t].answer = "new" /\ m'[t].ref = B(t)
      /\ m'[t].v = m[t].v /\ m'[t].op = m[t].op
  BY <1>1, <1>2, DecideEffect, Zenon DEF CasEmpty, Goto, TypeOK, Answer
<1>4. Abstract!Decide(t, "new", B(t))
  BY <1>1, <1>2, <1>3, DecideRefines, Zenon DEF Undecided, InFop, Answer
<1>5. Calls[t].insert /\ Calls[t].v = m[t].v
  <2>1. Calls[t] = Abstract!Asked(m[t].v, m[t].op = "lookup")
    BY <1>1, CallStages, Zenon DEF Calls, Undecided, InFop
  <2>2. m[t].op = "lookup"
    BY <1>1, Zenon DEF CallInv
  <2> QED
    BY <2>1, <2>2, InsertOf, Zenon
<1>6. ASSUME NEW p \in StoredSet PROVE p[1] # B(t) /\ p[2] # m[t].v
  <2>1. p[1] \in Ref /\ p[2] \in Vector /\ Holds(p[1], p[2])
    BY <1>6, Zenon DEF StoredSet
  <2> QED
    BY <1>1, <2>1, HoldsTaken, NowhereElse, Zenon
<1>7. StoredSet' = StoredSet \cup {<<B(t), m[t].v>>}
  BY <1>1, StoredStep, Zenon
<1> QED
  BY <1>2, <1>4, <1>5, <1>6, <1>7, Zenon DEF Abstract!Add

LEMMA SeenRefines ==
    ASSUME IInv, NEW t \in Thread, Compare(t)
    PROVE  UNCHANGED <<StoredSet, Calls>> \/ \E b \in Ref : Abstract!Seen(t, b)
<1>1. TypeOK /\ pc[t] = "compare" /\ Step(t) /\ BucketInv(t) /\ DoneInv
  BY Zenon DEF Compare, At, IInv, Step, FopStep
<1>2. B(t) \in Ref /\ m[t].v \in Vector
  BY <1>1, Buckets, Zenon DEF InFop
<1>3. table[B(t)].done /\ data[B(t)] # NoVector
  BY <1>1, <1>2, NoVectorAssumption, Zenon DEF BucketInv, DoneInv
<1>4. StoredSet' = StoredSet
  BY <1>1, StoredStep, Zenon DEF CasEmpty, At
<1>5. CASE data[B(t)] = m[t].v /\ Goto(t, "return") /\ Decide(t, "seen", B(t))
  <2>1. /\ pc'[t] = "return" /\ m'[t].answer = "seen" /\ m'[t].ref = B(t)
        /\ m'[t].v = m[t].v /\ m'[t].op = m[t].op
    BY <1>1, <1>2, <1>5, DecideEffect, Zenon DEF Goto, TypeOK, Answer
  <2>2. Abstract!Decide(t, "seen", B(t))
    BY <1>1, <1>2, <2>1, DecideRefines, Zenon DEF Undecided, InFop, Answer
  <2>3. Calls[t].v = m[t].v
    BY <1>1, CallStages DEF Calls, Undecided, InFop, Abstract!Asked
  <2>4. <<B(t), m[t].v>> \in StoredSet
    BY <1>2, <1>3, <1>5, Zenon DEF StoredSet, Holds
  <2> QED
    BY <1>2, <1>4, <2>2, <2>3, <2>4, Zenon DEF Abstract!Seen
<1>6. CASE Advance(t)
  <2>1. /\ m'[t].answer = m[t].answer /\ m'[t].ref = m[t].ref
        /\ m'[t].op = m[t].op /\ m'[t].v = m[t].v /\ pc'[t] \in {"loop", "probe"}
    BY <1>1, <1>6, AdvanceEffect, Zenon DEF TypeOK
  <2>2. CallOf(t)' = CallOf(t)
    BY <1>1, <2>1, Zenon DEF CallOf, InFop
  <2> QED
    BY <1>1, <2>2, StutterRefines, Zenon DEF CasEmpty, At
<1> QED
  BY <1>3, <1>5, <1>6, Zenon DEF Compare

LEMMA NotFoundRefines ==
    ASSUME IInv, NEW t \in Thread, ReadEmpty(t)
    PROVE  UNCHANGED <<StoredSet, Calls>> \/ Abstract!NotFound(t)
<1>1. TypeOK /\ pc[t] = "probe" /\ Step(t) /\ CallInv(t)
  BY Zenon DEF ReadEmpty, At, IInv, Step, FopStep
<1>2. StoredSet' = StoredSet
  BY <1>1, StoredStep, Zenon DEF CasEmpty, At
<1>3. CASE table[B(t)] # EMPTY \/ m[t].op = "lookup"
  <2>1. m' = m /\ pc'[t] \in {"match", "cas"}
    BY <1>1, <1>3, Zenon DEF ReadEmpty, Goto, TypeOK
  <2>2. CallOf(t)' = CallOf(t)
    BY <1>1, <2>1, Zenon DEF CallOf, InFop
  <2> QED
    BY <1>1, <2>2, StutterRefines, Zenon DEF CasEmpty, At
<1>4. CASE table[B(t)] = EMPTY /\ m[t].op # "lookup"
  <2>1. /\ pc'[t] = "return" /\ m'[t].answer = "not_found" /\ m'[t].ref = 0
        /\ m'[t].v = m[t].v /\ m'[t].op = m[t].op
    BY <1>1, <1>4, DecideEffect, SizeIsPositive, Zenon DEF ReadEmpty, Goto, TypeOK, Answer
  <2>2. Abstract!Decide(t, "not_found", 0)
    BY <1>1, <2>1, DecideRefines, SizeIsPositive, Zenon DEF Undecided, InFop, Answer
  <2>3. Calls[t].v = m[t].v /\ ~ Calls[t].insert
    <3>1. Calls[t] = Abstract!Asked(m[t].v, m[t].op = "lookup")
      BY <1>1, CallStages, Zenon DEF Calls, Undecided, InFop
    <3> QED
      BY <1>4, <3>1, InsertOf, Zenon
  <2>4. ASSUME NEW p \in StoredSet PROVE p[2] # m[t].v
    <3>1. p[1] \in Ref /\ p[2] \in Vector /\ Holds(p[1], p[2])
      BY <2>4, Zenon DEF StoredSet
    <3> QED
      BY <1>1, <1>4, <3>1, NowhereElse, Zenon
  <2> QED
    BY <1>2, <2>2, <2>3, <2>4, Zenon DEF Abstract!NotFound
<1> QED
  BY <1>3, <1>4, Zenon

LEMMA GiveUpRefines ==
    ASSUME IInv, NEW t \in Thread, SetFull(t)
    PROVE  Abstract!GiveUp(t)
<1>1. TypeOK /\ pc[t] = "full" /\ Step(t)
  BY Zenon DEF SetFull, At, IInv, Step, FopStep
<1>2. StoredSet' = StoredSet
  BY <1>1, StoredStep, Zenon DEF CasEmpty, At
<1>3. /\ pc'[t] = "return" /\ m'[t].answer = "full" /\ m'[t].ref = 0
      /\ m'[t].v = m[t].v /\ m'[t].op = m[t].op
  BY <1>1, DecideEffect, SizeIsPositive, Zenon DEF SetFull, Goto, TypeOK, Answer
<1>4. Abstract!Decide(t, "full", 0)
  BY <1>1, <1>3, DecideRefines, SizeIsPositive, Zenon DEF Undecided, InFop, Answer
<1> QED
  BY <1>2, <1>4, Zenon DEF Abstract!GiveUp

LEMMA ReturnRefines ==
    ASSUME IInv, NEW t \in Thread, Return(t)
    PROVE  Abstract!Return(t)
<1>1. TypeOK /\ pc[t] = "return" /\ Step(t)
  BY Zenon DEF Return, At, IInv, Step, FopStep
<1>2. StoredSet' = StoredSet
  BY <1>1, StoredStep, Zenon DEF CasEmpty, At
<1>3. Calls[t].stage = "decided"
  BY <1>1, CallStages, Zenon DEF Calls
<1>4. CallOf(t)' = Abstract!Idle
  <2>1. pc'[t] = "idle"
    BY <1>1, Zenon DEF Return, Goto, TypeOK
  <2> QED
    BY <2>1, Zenon DEF CallOf, InFop, Abstract!Idle
<1> QED
  BY <1>1, <1>2, <1>3, <1>4, CallsStep, Zenon DEF Abstract!Return

\* The other steps cannot be seen.
LEMMA InnerSteps ==
    ASSUME IInv, NEW t \in Thread,
           \/ LoopHead(t) \/ Copy(t) \/ WriteDone(t) \/ Match(t) \/ Wait(t)
           \/ CasEmpty(t) /\ table[B(t)] # EMPTY
           \/ SatCall(t) \/ SatRead(t) \/ SatSwap(t)
    PROVE  UNCHANGED <<StoredSet, Calls>>
<1>1. TypeOK /\ Step(t) /\ ~ (CasEmpty(t) /\ table[B(t)] = EMPTY)
  BY Zenon DEF IInv, Step, FopStep, LoopHead, Copy, WriteDone, Match, Wait, CasEmpty, SatCall,
               SatRead, SatSwap, At
<1> SUFFICES CallOf(t)' = CallOf(t)
  BY <1>1, StutterRefines, Zenon
<1>2. ASSUME pc[t] \in InFop, pc'[t] \in InFop, m'[t].answer = m[t].answer,
             m'[t].ref = m[t].ref, m'[t].v = m[t].v, m'[t].op = m[t].op
      PROVE  CallOf(t)' = CallOf(t)
  BY <1>2, Zenon DEF CallOf
<1>3. ASSUME pc[t] \notin InFop, pc'[t] \notin InFop PROVE CallOf(t)' = CallOf(t)
  BY <1>3, Zenon DEF CallOf
<1>4. ASSUME m' = m, NEW l \in InFop, Goto(t, l), pc[t] \in InFop
      PROVE  CallOf(t)' = CallOf(t)
  <2>1. pc'[t] = l
    BY <1>1, <1>4, Zenon DEF Goto, TypeOK
  <2> QED
    BY <1>2, <1>4, <2>1, Zenon
<1>5. CASE LoopHead(t)
  BY <1>4, <1>5, Zenon DEF LoopHead, At, InFop
<1>6. CASE Copy(t)
  BY <1>4, <1>6, Zenon DEF Copy, At, InFop
<1>7. CASE WriteDone(t)
  BY <1>4, <1>7, Zenon DEF WriteDone, At, InFop
<1>8. CASE Wait(t)
  BY <1>4, <1>8, Zenon DEF Wait, At, InFop
<1>9. CASE CasEmpty(t) /\ table[B(t)] # EMPTY
  BY <1>4, <1>9, Zenon DEF CasEmpty, At, InFop
<1>10. CASE Match(t)
  <2>1. CASE m' = m /\ Goto(t, "wait")
    BY <1>4, <1>10, <2>1, Zenon DEF Match, At, InFop
  <2>2. CASE Advance(t)
    BY <1>1, <1>2, <1>10, <2>2, AdvanceEffect, Zenon DEF Match, At, TypeOK, InFop
  <2> QED
    BY <1>10, <2>1, <2>2, Zenon DEF Match
<1>11. CASE SatCall(t) \/ SatRead(t) \/ SatSwap(t)
  <2>1. pc[t] \notin InFop /\ pc'[t] \notin InFop
    BY <1>1, <1>11, Zenon DEF SatCall, SatRead, SatSwap, Finish, Goto, TypeOK, At, InFop
  <2> QED
    BY <1>3, <2>1, Zenon
<1> QED
  BY <1>5, <1>6, <1>7, <1>8, <1>9, <1>10, <1>11, Zenon

LEMMA InitRefines == Init => Abstract!Init
<1> SUFFICES ASSUME Init PROVE Abstract!Init
  BY Zenon
<1>1. IInv /\ \A t \in Thread : pc[t] = "idle"
  BY InitInv, Zenon DEF Init
<1>2. \A b \in Ref : ~ table[b].done
  BY Zenon DEF Init, EMPTY
<1>3. StoredSet = {}
  BY <1>1, <1>2, Zenon DEF StoredSet, Holds
<1>4. Calls = [t \in Thread |-> Abstract!Idle]
  BY <1>1, CallStages, Zenon DEF Calls, InFop
<1> QED
  BY <1>3, <1>4, Zenon DEF Abstract!Init

LEMMA StepRefines == IInv /\ [Next]_vars => [Abstract!Next]_<<StoredSet, Calls>>
<1> SUFFICES ASSUME IInv, [Next]_vars PROVE [Abstract!Next]_<<StoredSet, Calls>>
  BY Zenon
<1>1. ASSUME NEW t \in Thread, Step(t) PROVE [Abstract!Next]_<<StoredSet, Calls>>
  <2>1. CASE Fop(t)
    BY <2>1, AskRefines, Zenon DEF Abstract!Next
  <2>2. CASE CasEmpty(t) /\ table[B(t)] = EMPTY
    BY <2>2, AddRefines, Zenon DEF Abstract!Next
  <2>3. CASE Compare(t)
    BY <2>3, SeenRefines, Zenon DEF Abstract!Next
  <2>4. CASE ReadEmpty(t)
    BY <2>4, NotFoundRefines, Zenon DEF Abstract!Next
  <2>5. CASE SetFull(t)
    BY <2>5, GiveUpRefines, Zenon DEF Abstract!Next
  <2>6. CASE Return(t)
    BY <2>6, ReturnRefines, Zenon DEF Abstract!Next
  <2> QED
    BY <1>1, <2>1, <2>2, <2>3, <2>4, <2>5, <2>6, InnerSteps, Zenon DEF Step, FopStep
<1>2. CASE UNCHANGED vars
  BY <1>2, Zenon DEF vars, shared, client, StoredSet, Calls, CallOf, Holds, B
<1> QED
  BY <1>1, <1>2, Zenon DEF Next, Finished

\* The lockless table implements the atomic set of states: every call of
\* DBSLLfop_hash takes effect in one step, the compare and swap for a vector
\* that is new, memcmp for one that is there, the read of an empty bucket for
\* a find that fails.
THEOREM ImplementsStateSet == Spec => IsStateSet
BY InitRefines, StepRefines, Inductive, PTL DEF Spec, IsStateSet, Abstract!Spec

-----------------------------------------------------------------------------
(* The counter in the satellite bits                                       *)

\* Division with remainder, which the provers do not know for a divisor that
\* is not a number.
LEMMA Remainder ==
    ASSUME NEW n \in Nat \ {0}, NEW a \in Int
    PROVE  /\ a = n * (a \div n) + (a % n)
           /\ a \div n \in Int /\ a % n \in 0 .. n - 1
  BY Z3

LEMMA Multiple ==
    ASSUME NEW n \in Nat \ {0}, NEW p \in Int, NEW q \in Int, p > q
    PROVE  n * p \in Int /\ n * q \in Int /\ n * p - n * q >= n
<1>1. n * (p - q) >= n
  <2>1. \A d \in Int : d >= 1 => n * d >= n
    BY Z3
  <2> QED
    BY <2>1
<1>2. n * (p - q) = n * p - n * q
  BY Z3
<1> QED
  BY <1>1, <1>2

LEMMA SameRemainder ==
    ASSUME NEW n \in Nat \ {0}, NEW p \in Int, NEW q \in Int,
           NEW r \in 0 .. n - 1, NEW s \in 0 .. n - 1, n * p + r = n * q + s
    PROVE  r = s
<1> DEFINE x == n * p
           y == n * q
<1>1. x \in Int /\ y \in Int /\ x + r = y + s
  OBVIOUS
<1>2. /\ p > q => x - y >= n
      /\ q > p => y - x >= n
      /\ p = q => x = y
  BY Multiple, Zenon
<1> HIDE DEF x, y
<1> QED
  BY <1>1, <1>2

LEMMA RemainderIs ==
    ASSUME NEW n \in Nat \ {0}, NEW q \in Int, NEW r \in 0 .. n - 1
    PROVE  (n * q + r) % n = r
<1> DEFINE a == n * q + r
<1>1. a \in Int
  OBVIOUS
<1> HIDE DEF a
<1>2. a = n * (a \div n) + (a % n) /\ a \div n \in Int /\ a % n \in 0 .. n - 1
  BY <1>1, Remainder, Zenon
<1>3. n * (a \div n) + (a % n) = n * q + r
  BY <1>2, Zenon DEF a
<1>4. a % n = r
  BY <1>2, <1>3, SameRemainder, Zenon
<1> QED
  BY <1>4, Zenon DEF a

\* The counter is not disturbed by the colours, and counts without a carry
\* into them as long as it is below its maximum.
LEMMA CountOf ==
    ASSUME NEW sat \in Nat, NEW k \in Nat
    PROVE  /\ Count(sat) \in 0 .. 2 ^ CountBits - 1
           /\ Count(sat + 2 ^ CountBits * k) = Count(sat)
           /\ Count(Count(sat) + 2 ^ CountBits * k) = Count(sat)
           /\ Count(sat) < 2 ^ CountBits - 1 => Count(sat + 1) = Count(sat) + 1
           /\ Count(sat) > 0 => sat > 0 /\ Count(sat - 1) = Count(sat) - 1
<1> DEFINE n == 2 ^ CountBits
           q == sat \div n
           r == sat % n
<1>1. n \in Nat \ {0}
  BY CountAssumption, Zenon
<1> HIDE DEF n
<1>2. sat = n * q + r /\ q \in Int /\ r \in 0 .. n - 1
  BY <1>1, Remainder
<1>3. Count(sat) = r
  BY Zenon DEF Count, n
<1> HIDE DEF q, r
<1>4. n * q \in Int /\ n * k \in Nat /\ n * (q + k) = n * q + n * k
  BY <1>1, <1>2
<1>5. (n * (q + k) + r) % n = r /\ (n * k + r) % n = r
  BY <1>1, <1>2, RemainderIs
<1>6. sat + n * k = n * (q + k) + r /\ r + n * k = n * k + r
  <2> DEFINE x == n * q
             y == n * k
             z == n * (q + k)
  <2>1. x \in Int /\ y \in Int /\ z = x + y /\ sat = x + r
    BY <1>2, <1>4
  <2> HIDE DEF x, y, z
  <2>2. sat + y = z + r /\ r + y = y + r
    BY <1>2, <2>1
  <2> QED
    BY <2>2, Zenon DEF y, z
<1>7. Count(sat + n * k) = r /\ Count(r + n * k) = r
  BY <1>5, <1>6, Zenon DEF Count, n
<1>8. ASSUME r < n - 1 PROVE Count(sat + 1) = r + 1
  <2>1. r + 1 \in 0 .. n - 1
    BY <1>1, <1>2, <1>8
  <2>2. (n * q + (r + 1)) % n = r + 1
    BY <1>1, <1>2, <2>1, RemainderIs, Zenon
  <2>3. sat + 1 = n * q + (r + 1)
    BY <1>2, <1>4
  <2> QED
    BY <2>2, <2>3, Zenon DEF Count, n
<1>9. ASSUME r > 0 PROVE sat > 0 /\ Count(sat - 1) = r - 1
  <2>1. r - 1 \in 0 .. n - 1
    BY <1>1, <1>2, <1>9
  <2>2. (n * q + (r - 1)) % n = r - 1
    BY <1>1, <1>2, <2>1, RemainderIs, Zenon
  <2>3. sat - 1 = n * q + (r - 1)
    BY <1>2, <1>4
  <2>4. sat # 0
    <3>1. 0 % n = 0
      BY <1>1
    <3> QED
      BY <1>9, <3>1 DEF r
  <2> QED
    BY <2>2, <2>3, <2>4 DEF Count, n
<1> QED
  BY <1>2, <1>3, <1>7, <1>8, <1>9, Zenon DEF n

\* A worker counts itself in when it is not, and out when it is.
CountInv ==
    /\ wip \in [Thread -> SUBSET Ref]
    /\ \A b \in Ref : /\ table[b].sat \in Nat
                      /\ Count(table[b].sat) = Cardinality(Counted(b))
    /\ \A t \in Thread : pc[t] \in {"read", "swap"} =>
          /\ m[t].op = "inc" => m[t].ref \notin wip[t]
          /\ m[t].op = "dec" => m[t].ref \in wip[t]

\* The calls that find or store a vector keep the satellite bits, those that
\* read them keep the counts.
LEMMA SatKept ==
    ASSUME IInv, NEW t \in Thread, Step(t), ~ SatSwap(t)
    PROVE  /\ wip' = wip
           /\ \A b \in Ref : table'[b].sat = table[b].sat
<1>1. TypeOK /\ WriteInv
  BY Zenon DEF IInv
<1>2. CASE CasEmpty(t)
  <2>1. B(t) \in Ref /\ m[t].v \in Vector /\ pc[t] = "cas"
    BY <1>2, Buckets, Zenon DEF CasEmpty, At, InFop
  <2>2. wip' = wip
    BY <1>2, Zenon DEF CasEmpty, client
  <2>3. CASE table[B(t)] = EMPTY
    <3>1. table' = [table EXCEPT ![B(t)] = WAIT(m[t].v)]
      BY <1>2, <2>3, Zenon DEF CasEmpty
    <3>2. WAIT(m[t].v).sat = 0 /\ EMPTY.sat = 0
      BY Zenon DEF WAIT, EMPTY
    <3> QED
      BY <1>1, <2>1, <2>2, <2>3, <3>1, <3>2, Zenon DEF TypeOK
  <2>4. CASE table[B(t)] # EMPTY
    BY <1>2, <2>2, <2>4, Zenon DEF CasEmpty
  <2> QED
    BY <2>3, <2>4, Zenon
<1>3. CASE WriteDone(t)
  <2>1. B(t) \in Ref /\ m[t].v \in Vector /\ pc[t] = "write"
    BY <1>3, Buckets, Zenon DEF WriteDone, At, InFop
  <2>2. table[B(t)] = WAIT(m[t].v)
    BY <1>1, <2>1, Zenon DEF WriteInv, Writing
  <2>3. table' = [table EXCEPT ![B(t)] = DONE(m[t].v)] /\ wip' = wip
    BY <1>3, Zenon DEF WriteDone, client
  <2>4. WAIT(m[t].v).sat = 0 /\ DONE(m[t].v).sat = 0
    BY Zenon DEF WAIT, DONE
  <2> QED
    BY <1>1, <2>1, <2>2, <2>3, <2>4, Zenon DEF TypeOK
<1>4. CASE Fop(t) \/ SatCall(t) \/ SatRead(t)
  BY <1>4, Zenon DEF Fop, SatCall, SatRead, shared, client
<1>5. CASE LoopHead(t) \/ SetFull(t) \/ ReadEmpty(t) \/ Copy(t) \/ Match(t)
           \/ Wait(t) \/ Compare(t) \/ Return(t)
  BY <1>5, Zenon DEF LoopHead, SetFull, ReadEmpty, Copy, Match, Wait, Compare,
     Return, shared, client
<1> QED
  BY <1>2, <1>3, <1>4, <1>5, Zenon DEF Step, FopStep

\* What a thread at work on the satellite bits does next.
LEMMA SatControl ==
    ASSUME IInv, NEW t \in Thread, Step(t), pc'[t] \in {"read", "swap"}
    PROVE  \/ /\ SatCall(t)
              /\ m'[t].op = "inc" => m'[t].ref \notin wip[t]
              /\ m'[t].op = "dec" => m'[t].ref \in wip[t]
           \/ /\ pc[t] \in {"read", "swap"} /\ wip' = wip
              /\ m'[t].op = m[t].op /\ m'[t].ref = m[t].ref
<1>1. TypeOK /\ m[t] \in Local
  BY DEF IInv, TypeOK
<1>2. CASE SatCall(t)
  <2> DEFINE call == Head(todo[t])
             b == knows[t][call.v]
             local == [NoLocals EXCEPT !.op = call.op, !.ref = b, !.arg = call.arg]
  <2>1. /\ m' = [m EXCEPT ![t] = local]
        /\ call.op = "inc" => b \notin wip[t]
        /\ call.op = "dec" => b \in wip[t]
    BY <1>2, Zenon DEF SatCall
  <2>2. local.op = call.op /\ local.ref = b
    BY Zenon DEF NoLocals
  <2>3. m'[t] = local
    BY <1>1, <2>1, Zenon DEF TypeOK
  <2> QED
    BY <1>2, <2>1, <2>2, <2>3, Zenon
<1>3. CASE SatRead(t)
  <2>1. pc[t] = "read" /\ wip' = wip
    BY <1>3, Zenon DEF SatRead, At, client
  <2>2. m' = [m EXCEPT ![t].old = table[m[t].ref]]
    BY <1>1, <1>3 DEF SatRead, Finish, Goto, TypeOK
  <2>3. m'[t] = [m[t] EXCEPT !.old = table[m[t].ref]]
    BY <1>1, <2>2, Zenon DEF TypeOK
  <2> QED
    BY <1>1, <2>1, <2>3 DEF Local
<1>4. CASE SatSwap(t)
  <2>1. pc[t] = "swap"
    BY <1>4, Zenon DEF SatSwap, At
  <2>2. m' = [m EXCEPT ![t].old = EMPTY] /\ wip' = wip
    BY <1>1, <1>4 DEF SatSwap, Finish, Goto, TypeOK
  <2>3. m'[t] = [m[t] EXCEPT !.old = EMPTY]
    BY <1>1, <2>2, Zenon DEF TypeOK
  <2> QED
    BY <1>1, <2>1, <2>2, <2>3 DEF Local
<1>5. CASE Fop(t) \/ LoopHead(t) \/ SetFull(t) \/ ReadEmpty(t) \/ CasEmpty(t)
           \/ Copy(t) \/ WriteDone(t) \/ Match(t) \/ Wait(t) \/ Compare(t) \/ Return(t)
  BY <1>1, <1>5 DEF Fop, LoopHead, SetFull, ReadEmpty, CasEmpty, Copy, WriteDone,
     Match, Wait, Compare, Return, Advance, Goto, TypeOK
<1> QED
  BY <1>2, <1>3, <1>4, <1>5, Zenon DEF Step, FopStep

\* A counted set is a finite set of at most as many workers as there are.
LEMMA CountedFinite ==
    ASSUME NEW S \in SUBSET Thread
    PROVE  /\ IsFiniteSet(S) /\ Cardinality(S) \in Nat
           /\ \A t \in Thread \ S : /\ Cardinality(S \cup {t}) = Cardinality(S) + 1
                                    /\ Cardinality(S) < 2 ^ CountBits - 1
           /\ \A t \in S : /\ Cardinality(S \ {t}) = Cardinality(S) - 1
                           /\ Cardinality(S) > 0
<1>1. IsFiniteSet(Thread) /\ Cardinality(Thread) \in Nat
      /\ Cardinality(Thread) < 2 ^ CountBits /\ 2 ^ CountBits \in Nat
  BY CountAssumption, FS_CardinalityType
<1>2. IsFiniteSet(S) /\ Cardinality(S) \in Nat
  BY <1>1, FS_Subset, FS_CardinalityType
<1>3. ASSUME NEW t \in Thread \ S
      PROVE  Cardinality(S \cup {t}) = Cardinality(S) + 1 /\ Cardinality(S) < 2 ^ CountBits - 1
  <2>1. Cardinality(S \cup {t}) = Cardinality(S) + 1
    BY <1>2, FS_AddElement
  <2>2. Cardinality(S \cup {t}) <= Cardinality(Thread)
    BY <1>1, FS_Subset
  <2> QED
    BY <1>1, <1>2, <2>1, <2>2
<1>4. ASSUME NEW t \in S
      PROVE  Cardinality(S \ {t}) = Cardinality(S) - 1 /\ Cardinality(S) > 0
  <2>1. Cardinality(S \ {t}) = Cardinality(S) - 1 /\ IsFiniteSet(S \ {t})
    BY <1>2, FS_RemoveElement
  <2>2. Cardinality(S \ {t}) \in Nat
    BY <2>1, FS_CardinalityType
  <2> QED
    BY <1>2, <2>1, <2>2
<1> QED
  BY <1>2, <1>3, <1>4

LEMMA CountStep ==
    ASSUME IInv, CountInv, NEW t \in Thread, Step(t)
    PROVE  CountInv'
<1>0. TypeOK /\ TypeOK' /\ Frame(t) /\ CallInv(t)
  BY TypeStep DEF IInv
<1>1. wip \in [Thread -> SUBSET Ref]
  BY DEF CountInv
<1>2. CASE ~ SatSwap(t)
  <2>1. wip' = wip /\ \A b \in Ref : table'[b].sat = table[b].sat
    BY <1>2, SatKept
  <2>2. ASSUME NEW u \in Thread, pc'[u] \in {"read", "swap"}
        PROVE  /\ m'[u].op = "inc" => m'[u].ref \notin wip[u]
               /\ m'[u].op = "dec" => m'[u].ref \in wip[u]
    <3>1. CASE u = t
      BY <2>2, <3>1, SatControl DEF CountInv
    <3>2. CASE u # t
      BY <1>0, <2>2, <3>2 DEF CountInv, Frame
    <3> QED
      BY <3>1, <3>2
  <2>3. \A b \in Ref : Counted(b)' = Counted(b)
    BY <2>1, Zenon DEF Counted
  <2> QED
    BY <1>1, <2>1, <2>2, <2>3, Zenon DEF CountInv
<1>3. CASE SatSwap(t) /\ table[m[t].ref] # m[t].old
  <2>1. wip' = wip /\ table' = table
    BY <1>3, Zenon DEF SatSwap
  <2>2. ASSUME NEW u \in Thread, pc'[u] \in {"read", "swap"}
        PROVE  /\ m'[u].op = "inc" => m'[u].ref \notin wip[u]
               /\ m'[u].op = "dec" => m'[u].ref \in wip[u]
    <3>1. CASE u = t
      BY <2>2, <3>1, SatControl DEF CountInv
    <3>2. CASE u # t
      BY <1>0, <2>2, <3>2 DEF CountInv, Frame
    <3> QED
      BY <3>1, <3>2
  <2>3. \A b \in Ref : Counted(b)' = Counted(b)
    BY <2>1, Zenon DEF Counted
  <2> QED
    BY <1>1, <2>1, <2>2, <2>3, Zenon DEF CountInv
<1>4. CASE SatSwap(t) /\ table[m[t].ref] = m[t].old
  <2>a. m[t].ref \in Ref
    BY <1>0, Zenon DEF TypeOK, Local
  <2>b. PICK b \in Ref : b = m[t].ref
    BY <2>a
  <2> DEFINE op == m[t].op
             sat == table[b].sat
             k == m[t].arg.new
  <2>1. /\ pc[t] = "swap"
        /\ table' = [table EXCEPT ![b].sat = NewSat(op, @, m[t].arg)]
        /\ Succeeds(t, b) /\ Finish(t)
    BY <1>4, <2>b, Zenon DEF SatSwap, At
  <2>2. k \in Nat /\ op \in {"color", "set", "inc", "dec"} /\ sat \in Nat
    <3>1. m[t] \in Local
      BY <1>0 DEF TypeOK
    <3>2. m[t].arg \in Arg
      BY <3>1, Zenon DEF Local
    <3>3. k \in Nat
      BY <3>2, CountAssumption DEF Arg
    <3> QED
      BY <1>0, <2>1, <3>3 DEF CountInv, CallInv
  <2>3. table'[b].sat = NewSat(op, sat, m[t].arg)
    BY <1>0, <2>1, <2>2 DEF TypeOK, Word
  <2>4. \A c \in Ref : c # b => table'[c] = table[c]
    BY <1>0, <2>1, <2>2 DEF TypeOK
  <2>5. pc'[t] = "idle" /\ \A u \in Thread \ {t} : pc'[u] = pc[u] /\ m'[u] = m[u]
    BY <1>0, <2>1 DEF Finish, Goto, TypeOK, Frame
  <2>6. /\ Counted(b) \in SUBSET Thread
        /\ Count(sat) = Cardinality(Counted(b))
        /\ t \in Counted(b) <=> b \in wip[t]
        /\ op = "inc" => b \notin wip[t]
        /\ op = "dec" => b \in wip[t]
    BY <2>1, <2>2, <2>b DEF CountInv, Counted
  <2> HIDE DEF op, sat, k
  <2>7. /\ wip' \in [Thread -> SUBSET Ref]
        /\ \A u \in Thread \ {t} : wip'[u] = wip[u]
        /\ \A c \in Ref : c # b => Counted(c)' = Counted(c)
    <3>1. /\ op = "inc" => wip' = [wip EXCEPT ![t] = @ \cup {b}]
          /\ op = "dec" => wip' = [wip EXCEPT ![t] = @ \ {b}]
          /\ op \in {"color", "set"} => wip' = wip
      BY <2>1 DEF Succeeds, op
    <3> QED
      BY <1>1, <2>2, <3>1 DEF Counted
  <2>8. table'[b].sat \in Nat /\ Count(table'[b].sat) = Cardinality(Counted(b)')
    <3>1. CASE op = "inc"
      <4>1. table'[b].sat = sat + 1
        BY <2>3, <3>1, Zenon DEF NewSat
      <4>2. Counted(b)' = Counted(b) \cup {t}
        BY <1>1, <2>1, <3>1 DEF Succeeds, op, Counted
      <4>3. Count(sat) < 2 ^ CountBits - 1
        BY <2>6, <3>1, CountedFinite
      <4>4. Count(sat + 1) = Count(sat) + 1
        BY <2>2, <4>3, CountOf
      <4>5. Cardinality(Counted(b) \cup {t}) = Cardinality(Counted(b)) + 1
        BY <2>6, <3>1, CountedFinite
      <4> QED
        BY <2>2, <2>6, <4>1, <4>2, <4>4, <4>5
    <3>2. CASE op = "dec"
      <4>1. table'[b].sat = sat - 1
        BY <2>3, <3>2, Zenon DEF NewSat
      <4>2. Counted(b)' = Counted(b) \ {t}
        BY <1>1, <2>1, <3>2 DEF Succeeds, op, Counted
      <4>3. Count(sat) > 0
        BY <2>6, <3>2, CountedFinite
      <4>4. sat > 0 /\ Count(sat - 1) = Count(sat) - 1
        BY <2>2, <4>3, CountOf
      <4>5. Cardinality(Counted(b) \ {t}) = Cardinality(Counted(b)) - 1
        BY <2>6, <3>2, CountedFinite
      <4> QED
        BY <2>2, <2>6, <4>1, <4>2, <4>4, <4>5
    <3>3. CASE op \in {"color", "set"}
      <4>1. Counted(b)' = Counted(b)
        BY <2>1, <3>3 DEF Succeeds, op, Counted
      <4>2. /\ op = "color" => table'[b].sat = sat + 2 ^ CountBits * k
            /\ op = "set" => table'[b].sat = Count(sat) + 2 ^ CountBits * k
        BY <2>3, Zenon DEF NewSat, k
      <4>3. /\ Count(sat) \in 0 .. 2 ^ CountBits - 1
            /\ Count(sat + 2 ^ CountBits * k) = Count(sat)
            /\ Count(Count(sat) + 2 ^ CountBits * k) = Count(sat)
        BY <2>2, CountOf
      <4>4. 2 ^ CountBits \in Nat /\ 2 ^ CountBits * k \in Nat
        BY <2>2, CountAssumption
      <4> QED
        BY <2>2, <2>6, <3>3, <4>1, <4>2, <4>3, <4>4
    <3> QED
      BY <2>2, <3>1, <3>2, <3>3
  <2>9. \A c \in Ref : table'[c].sat \in Nat /\ Count(table'[c].sat) = Cardinality(Counted(c)')
    BY <2>4, <2>7, <2>8 DEF CountInv
  <2>10. \A u \in Thread : pc'[u] \in {"read", "swap"} =>
            /\ m'[u].op = "inc" => m'[u].ref \notin wip'[u]
            /\ m'[u].op = "dec" => m'[u].ref \in wip'[u]
    BY <2>5, <2>7 DEF CountInv
  <2> QED
    BY <2>7, <2>9, <2>10, Zenon DEF CountInv
<1> QED
  BY <1>2, <1>3, <1>4

\* The assertions hold: the counter is at its maximum only when all workers
\* are counted in, and above 0 while one is.
LEMMA CountSound == IInv /\ CountInv => CountExact
<1> SUFFICES ASSUME IInv, CountInv PROVE CountExact
  OBVIOUS
<1>1. ASSUME NEW t \in Thread, AssertFails(t) PROVE FALSE
  <2> DEFINE b == m[t].ref
             sat == table[b].sat
  <2>1. pc[t] = "read" /\ b \in Ref /\ sat \in Nat
    BY <1>1 DEF AssertFails, At, IInv, TypeOK, Local, CountInv
  <2>2. /\ Count(sat) = Cardinality(Counted(b)) /\ Counted(b) \in SUBSET Thread
        /\ t \in Counted(b) <=> b \in wip[t]
    BY <2>1 DEF CountInv, Counted
  <2>3. CASE m[t].op = "inc" /\ sat = SatRange - 1
    <3>1. Count(sat) < 2 ^ CountBits - 1
      BY <2>1, <2>2, <2>3, CountedFinite DEF CountInv
    <3> DEFINE n == 2 ^ CountBits
               c == 2 ^ ColorBits
    <3>2. n \in Nat \ {0} /\ c \in Nat \ {0} /\ SatRange = n * c
      BY CountAssumption
    <3> HIDE DEF n, c, sat
    <3>3. (n * (c - 1) + (n - 1)) % n = n - 1
      BY <3>2, RemainderIs
    <3>4. n * (c - 1) + (n - 1) = SatRange - 1
      BY <3>2
    <3>5. Count(sat) = n - 1
      BY <2>3, <3>3, <3>4 DEF Count, n
    <3> QED
      BY <3>1, <3>2, <3>5 DEF n
  <2>4. CASE m[t].op = "dec" /\ sat = 0
    <3>1. Count(sat) > 0
      BY <2>1, <2>2, <2>4, CountedFinite DEF CountInv
    <3>2. Count(0) = 0
      BY CountAssumption DEF Count
    <3> QED
      BY <2>4, <3>1, <3>2
  <2> QED
    BY <1>1, <2>3, <2>4 DEF AssertFails
<1> QED
  BY <1>1, Zenon DEF CountExact, CountInv

\* At every moment the counter in the satellite bits of a state is the number
\* of workers that called inc_wip for it and not yet dec_wip, whatever
\* colours are set meanwhile, and no worker is told "Too many incs" or "Too
\* many decs" (DBSLLinc_sat_bits, DBSLLdec_sat_bits).
THEOREM CountsWorkers == Spec => []CountExact
<1>1. Init => CountInv
  <2> SUFFICES ASSUME Init PROVE CountInv
    OBVIOUS
  <2>1. /\ wip \in [Thread -> SUBSET Ref]
        /\ \A t \in Thread : pc[t] = "idle" /\ wip[t] = {}
        /\ \A b \in Ref : table[b].sat = 0
    BY DEF Init, EMPTY
  <2>2. \A b \in Ref : Counted(b) = {}
    BY <2>1 DEF Counted
  <2>3. Count(0) = 0 /\ Cardinality({}) = 0
    BY CountAssumption, FS_EmptySet DEF Count
  <2>4. \A b \in Ref : /\ table[b].sat \in Nat
                     /\ Count(table[b].sat) = Cardinality(Counted(b))
    <3>1. 0 \in Nat
      OBVIOUS
    <3> QED
      BY <2>1, <2>2, <2>3, <3>1, Zenon
  <2>5. \A t \in Thread : pc[t] \notin {"read", "swap"}
    BY <2>1, Zenon
  <2> QED
    BY <2>1, <2>4, <2>5, Zenon DEF CountInv
<1>2. IInv /\ CountInv /\ [Next]_vars => CountInv'
  <2> SUFFICES ASSUME IInv, CountInv, [Next]_vars PROVE CountInv'
    OBVIOUS
  <2>1. ASSUME NEW t \in Thread, Step(t) PROVE CountInv'
    BY <2>1, CountStep
  <2>2. CASE UNCHANGED vars
    <3>1. wip' = wip /\ table' = table /\ pc' = pc /\ m' = m
      BY <2>2 DEF vars, shared, client
    <3> QED
      BY <3>1, Zenon DEF CountInv, Counted
  <2> QED
    BY <2>1, <2>2 DEF Next, Finished
<1> QED
  BY <1>1, <1>2, Inductive, CountSound, PTL DEF Spec
=============================================================================
