-------------------------------- MODULE DbsLL --------------------------------
(***************************************************************************)
(* The lockless hash table of state vectors (mc-lib/dbs-ll.c) with the     *)
(* satellite bits that the search algorithms keep in it through            *)
(* pins2lts-mc/parallel/state-store.c.                                     *)
(*                                                                         *)
(* A bucket is one word: a memoised hash, a write bit and the satellite    *)
(* bits; the vector is in a second array.  A thread takes an empty bucket  *)
(* by compare and swap, copies the vector and sets the write bit; whoever  *)
(* meets the bucket meanwhile, with the same memoised hash, spins until    *)
(* the write bit is set.  The model has one step for each access to shared *)
(* memory.  Workers look states up, and use the satellite bits of states   *)
(* they were given: colours that are set once, and a counter of the        *)
(* workers that are at work on the state.                                  *)
(***************************************************************************)
EXTENDS Integers, Sequences, FiniteSets

CONSTANTS
    Thread,    \* the workers
    Vector,    \* the state vectors
    Hash,      \* their hash: where to start, the prime to jump by, the memo
    Line,      \* the number of buckets in a cache line
    Lines,     \* the number of cache lines of the table
    Threshold, \* the number of lines tried before the table is called full
    MemoBits,  \* the width of the memoised hash above the write bit
    CountBits, \* the satellite bits of the counter
    ColorBits, \* the satellite bits of the colours
    Scripts    \* bound: the calls each thread makes

Size == Line * Lines
Ref == 0 .. Size - 1
MemoRange == 2 ^ MemoBits
SatRange == 2 ^ (CountBits + ColorBits)
Color == 0 .. ColorBits - 1
Operation == {"lookup", "find", "color", "set", "inc", "dec"}

\* The colours a call of try_set_colors expects, and those it is to set.
Arg == [exp : 0 .. 2 ^ ColorBits - 1, new : 0 .. 2 ^ ColorBits - 1]
CallRecord == [op : Operation, v : Vector, arg : Arg]

\* Primes are odd, a memo is not a multiple of a power of two; the counter
\* has ceil(log2(W + 1)) bits.
ASSUME HashAssumption ==
    /\ Line \in Nat \ {0} /\ Lines \in Nat \ {0} /\ Threshold \in Nat
    /\ MemoBits \in Nat \ {0} /\ MemoRange \in Nat \ {0}
    /\ \A v \in Vector : /\ Hash[v].ref \in Nat /\ Hash[v].prime \in Nat
                         /\ Hash[v].memo \in Nat /\ Hash[v].lost \in Nat
                         /\ Hash[v].prime % MemoRange # 0

ASSUME ScriptAssumption == \A s \in Scripts : s \in [Thread -> Seq(CallRecord)]

ASSUME CountAssumption ==
    /\ CountBits \in Nat /\ ColorBits \in Nat
    /\ {2 ^ CountBits, 2 ^ ColorBits, SatRange} \subseteq Nat \ {0}
    /\ SatRange = 2 ^ CountBits * 2 ^ ColorBits
    /\ IsFiniteSet(Thread) /\ Cardinality(Thread) < 2 ^ CountBits

EMPTY == [hash |-> 0, done |-> FALSE, sat |-> 0]
NoVector == "uninitialised"
NoRef == -1

ASSUME NoVectorAssumption == NoVector \notin Vector

\* The memoised hash: the bits that the write bit and the satellite bits
\* displace are added to the others, and 0 is avoided.
Memo(v) ==
    LET hash_memo == (Hash[v].memo + Hash[v].lost) % MemoRange
    IN  IF hash_memo = 0 THEN Hash[v].prime % MemoRange ELSE hash_memo

\* The k-th bucket to try: all buckets of a line, from where the hash points
\* to and around the end of the line, and then a jump to another line.
Bucket(v, k) ==
    LET ref == (Hash[v].ref + (k \div Line) * Hash[v].prime * Line) % Size
    IN  (ref \div Line) * Line + ((ref + k) % Line)

WAIT(v) == [hash |-> Memo(v), done |-> FALSE, sat |-> 0]
DONE(v) == [hash |-> Memo(v), done |-> TRUE, sat |-> 0]

VARIABLES
    table, \* the buckets
    data,  \* the vectors
    full,  \* the flag that the table is full
    pc,    \* where each thread is
    m,     \* its local variables
    todo,  \* the calls each thread has still to make
    knows, \* the reference each thread was given for a vector
    wip,   \* the references each thread has counted itself in
    wins   \* history: how often a thread was told it has set a colour

shared == <<table, data, full>>
client == <<todo, knows, wip, wins>>
vars == <<shared, pc, m, client>>

NoArg == [exp |-> 0, new |-> 0]

NoLocals ==
    [op |-> "none", v |-> NoVector, k |-> 0, ref |-> 0, answer |-> "none",
     old |-> EMPTY, arg |-> NoArg]

Init ==
    /\ table = [b \in Ref |-> EMPTY]
    /\ data = [b \in Ref |-> NoVector]
    /\ full = FALSE
    /\ pc = [t \in Thread |-> "idle"]
    /\ m = [t \in Thread |-> NoLocals]
    /\ todo \in Scripts
    /\ knows = [t \in Thread |-> [v \in Vector |-> NoRef]]
    /\ wip = [t \in Thread |-> {}]
    /\ wins = [b \in Ref |-> [c \in Color |-> 0]]

At(t, place) == pc[t] = place
Goto(t, place) == pc' = [pc EXCEPT ![t] = place]
B(t) == Bucket(m[t].v, m[t].k)

Decide(t, answer, ref) == m' = [m EXCEPT ![t].answer = answer, ![t].ref = ref]

(***************************************************************************)
(* DBSLLfop_hash: find the vector, or put it in the table.                 *)
(***************************************************************************)
Fop(t) ==
    /\ At(t, "idle") /\ todo[t] # <<>>
    /\ Head(todo[t]).op \in {"lookup", "find"}
    /\ Goto(t, "loop")
    /\ m' = [m EXCEPT ![t] = [NoLocals EXCEPT !.op = Head(todo[t]).op,
                                             !.v = Head(todo[t]).v]]
    /\ todo' = [todo EXCEPT ![t] = Tail(@)]
    /\ UNCHANGED <<shared, knows, wip, wins>>

\* A mutant of LoopHead: a line too few.
LoopHeadLess(t) ==
    /\ At(t, "loop")
    /\ Goto(t, IF m[t].k < (Threshold - 1) * Line /\ ~full THEN "probe" ELSE "full")
    /\ UNCHANGED <<shared, m, client>>

\* A mutant of LoopHead that starts all over again instead of giving up.
LoopHeadAgain(t) ==
    /\ At(t, "loop")
    /\ IF m[t].k < Threshold * Line THEN Goto(t, "probe") /\ UNCHANGED m
       ELSE m' = [m EXCEPT ![t].k = 0] /\ UNCHANGED pc
    /\ UNCHANGED <<shared, client>>

LoopHead(t) ==
    /\ At(t, "loop")
    /\ Goto(t, IF m[t].k < Threshold * Line /\ ~full THEN "probe" ELSE "full")
    /\ UNCHANGED <<shared, m, client>>

SetFull(t) ==
    /\ At(t, "full")
    /\ full' = TRUE
    /\ Decide(t, "full", 0)
    /\ Goto(t, "return")
    /\ UNCHANGED <<table, data, client>>

ReadEmpty(t) ==
    /\ At(t, "probe")
    /\ IF table[B(t)] # EMPTY THEN Goto(t, "match") /\ UNCHANGED m
       ELSE IF m[t].op = "lookup" THEN Goto(t, "cas") /\ UNCHANGED m
       ELSE Goto(t, "return") /\ Decide(t, "not_found", 0)
    /\ UNCHANGED <<shared, client>>

\* To the next bucket of the line, or to the next line.
Advance(t) ==
    /\ m' = [m EXCEPT ![t].k = @ + 1]
    /\ Goto(t, IF (m[t].k + 1) % Line = 0 THEN "loop" ELSE "probe")

\* A mutant of CasEmpty: who loses the race goes on to the next bucket.
CasEmptyLost(t) ==
    /\ At(t, "cas")
    /\ IF table[B(t)] = EMPTY
       THEN /\ table' = [table EXCEPT ![B(t)] = WAIT(m[t].v)]
            /\ Goto(t, "copy") /\ Decide(t, "new", B(t))
       ELSE Advance(t) /\ UNCHANGED table
    /\ UNCHANGED <<data, full, client>>

CasEmpty(t) ==
    /\ At(t, "cas")
    /\ IF table[B(t)] = EMPTY
       THEN /\ table' = [table EXCEPT ![B(t)] = WAIT(m[t].v)]
            /\ Goto(t, "copy") /\ Decide(t, "new", B(t))
       ELSE Goto(t, "match") /\ UNCHANGED <<table, m>>
    /\ UNCHANGED <<data, full, client>>

Copy(t) ==
    /\ At(t, "copy")
    /\ data' = [data EXCEPT ![B(t)] = m[t].v]
    /\ Goto(t, "write")
    /\ UNCHANGED <<table, full, m, client>>

WriteDone(t) ==
    /\ At(t, "write")
    /\ table' = [table EXCEPT ![B(t)] = DONE(m[t].v)]
    /\ Goto(t, "return")
    /\ UNCHANGED <<data, full, m, client>>

Match(t) ==
    /\ At(t, "match")
    /\ IF table[B(t)].hash = Memo(m[t].v)
       THEN Goto(t, "wait") /\ UNCHANGED m
       ELSE Advance(t)
    /\ UNCHANGED <<shared, client>>

\* A mutant of Wait that does not wait for the write bit.
WaitNot(t) ==
    /\ At(t, "wait")
    /\ Goto(t, "compare")
    /\ UNCHANGED <<shared, m, client>>

\* The loop on line 198 is left once the write bit is set.
Wait(t) ==
    /\ At(t, "wait")
    /\ ~ (table[B(t)].hash = Memo(m[t].v) /\ ~ table[B(t)].done)
    /\ Goto(t, "compare")
    /\ UNCHANGED <<shared, m, client>>

\* A mutant of Compare: equal hashes are taken for equal vectors.
CompareNot(t) ==
    /\ At(t, "compare")
    /\ Goto(t, "return") /\ Decide(t, "seen", B(t))
    /\ UNCHANGED <<shared, client>>

\* memcmp; what it finds in memory nobody has written can be anything.
Compare(t) ==
    /\ At(t, "compare")
    /\ \/ /\ data[B(t)] \in {m[t].v, NoVector}
          /\ Goto(t, "return") /\ Decide(t, "seen", B(t))
       \/ data[B(t)] # m[t].v /\ Advance(t)
    /\ UNCHANGED <<shared, client>>

\* store_find drops the reference; a worker that is told that the table is
\* full ends the search.
Return(t) ==
    /\ At(t, "return")
    /\ knows' = IF m[t].op = "lookup" /\ m[t].answer # "full"
                THEN [knows EXCEPT ![t][m[t].v] = m[t].ref] ELSE knows
    /\ todo' = IF m[t].answer = "full" THEN [todo EXCEPT ![t] = <<>>] ELSE todo
    /\ Goto(t, "idle")
    /\ m' = [m EXCEPT ![t] = NoLocals]
    /\ UNCHANGED <<shared, wip, wins>>

(***************************************************************************)
(* The satellite bits, as state-store.c uses them: the counter in the low  *)
(* bits, the colours above it.                                             *)
(***************************************************************************)
Count(sat) == sat % 2 ^ CountBits
Colors(sat) == sat \div 2 ^ CountBits
BitsOf(colors) == {c \in Color : (colors \div 2 ^ c) % 2 = 1}

\* try_color and try_set_colors set colours, inc_wip and dec_wip count: a
\* worker counts itself in once, and out when it is in.
SatCall(t) ==
    LET call == Head(todo[t])
        b == knows[t][call.v]
    IN  /\ At(t, "idle") /\ todo[t] # <<>>
        /\ call.op \in {"color", "set", "inc", "dec"}
        /\ b # NoRef
        /\ call.op = "inc" => b \notin wip[t]
        /\ call.op = "dec" => b \in wip[t]
        /\ Goto(t, "read")
        /\ m' = [m EXCEPT ![t] = [NoLocals EXCEPT !.op = call.op, !.ref = b,
                                                 !.arg = call.arg]]
        /\ todo' = [todo EXCEPT ![t] = Tail(@)]
        /\ UNCHANGED <<shared, knows, wip, wins>>

\* HREassert: "Too many incs", "Too many decs".
AssertFails(t) ==
    /\ At(t, "read")
    /\ \/ m[t].op = "inc" /\ table[m[t].ref].sat = SatRange - 1
       \/ m[t].op = "dec" /\ table[m[t].ref].sat = 0

\* There is nothing to do: the colour is there, or the colours are not the
\* ones the caller expects.
Refuses(op, sat, arg) ==
    \/ op = "color" /\ BitsOf(arg.new) \subseteq BitsOf(Colors(sat))
    \/ op = "set" /\ Colors(sat) # arg.exp

Finish(t) == Goto(t, "idle") /\ m' = [m EXCEPT ![t] = NoLocals]

SatRead(t) ==
    /\ At(t, "read") /\ ~ AssertFails(t)
    /\ LET word == table[m[t].ref]
       IN  IF Refuses(m[t].op, word.sat, m[t].arg) THEN Finish(t)
           ELSE m' = [m EXCEPT ![t].old = word] /\ Goto(t, "swap")
    /\ UNCHANGED <<shared, client>>

\* The counter is incremented and decremented as part of the whole word.
NewSat(op, sat, arg) ==
    CASE op = "color" -> sat + 2 ^ CountBits * arg.new
      [] op = "set"   -> Count(sat) + 2 ^ CountBits * arg.new
      [] op = "inc"   -> sat + 1
      [] op = "dec"   -> sat - 1

\* What the caller knows when its compare and swap has succeeded.
Succeeds(t, b) ==
    /\ wip' = CASE m[t].op = "inc" -> [wip EXCEPT ![t] = @ \cup {b}]
                [] m[t].op = "dec" -> [wip EXCEPT ![t] = @ \ {b}]
                [] OTHER -> wip
    /\ wins' = IF m[t].op \in {"color", "set"}
               THEN [wins EXCEPT ![b] = [c \in Color |->
                        @[c] + IF c \in BitsOf(m[t].arg.new - m[t].arg.exp)
                               THEN 1 ELSE 0]]
               ELSE wins

\* A mutant of SatSwap: the word is written without the compare, as
\* DBSLLset_sat_bits does.
SatSwapBlind(t) ==
    LET b == m[t].ref IN
    /\ At(t, "swap")
    /\ table' = [table EXCEPT ![b] =
                    [m[t].old EXCEPT !.sat = NewSat(m[t].op, @, m[t].arg)]]
    /\ Succeeds(t, b) /\ Finish(t)
    /\ UNCHANGED <<data, full, todo, knows>>

\* The compare and swap is tried again when it fails, try_set_sat_bits
\* excepted.
SatSwap(t) ==
    LET b == m[t].ref IN
    /\ At(t, "swap")
    /\ IF table[b] = m[t].old
       THEN /\ table' = [table EXCEPT ![b].sat = NewSat(m[t].op, @, m[t].arg)]
            /\ Succeeds(t, b) /\ Finish(t)
       ELSE /\ UNCHANGED <<table, wip, wins>>
            /\ IF m[t].op = "set" THEN Finish(t)
               ELSE Goto(t, "read") /\ m' = [m EXCEPT ![t].old = EMPTY]
    /\ UNCHANGED <<data, full, todo, knows>>

FopStep(t) ==
    \/ LoopHead(t) \/ SetFull(t) \/ ReadEmpty(t) \/ CasEmpty(t) \/ Copy(t)
    \/ WriteDone(t) \/ Match(t) \/ Wait(t) \/ Compare(t) \/ Return(t)

Step(t) == Fop(t) \/ FopStep(t) \/ SatCall(t) \/ SatRead(t) \/ SatSwap(t)

\* The workers have made all their calls.
Finished == (\A t \in Thread : At(t, "idle") /\ todo[t] = <<>>) /\ UNCHANGED vars

Next == (\E t \in Thread : Step(t)) \/ Finished

Spec == Init /\ [][Next]_vars
FairSpec == Spec /\ \A t \in Thread : WF_vars(Step(t))

-----------------------------------------------------------------------------
(***************************************************************************)
(* Properties                                                              *)
(***************************************************************************)
InFop == {"loop", "full", "probe", "cas", "copy", "write", "match", "wait",
          "compare", "return"}

Label == InFop \cup {"idle", "read", "swap"}
Word == [hash : Nat, done : BOOLEAN, sat : Int]
Local ==
    [op : Operation \cup {"none"}, v : Vector \cup {NoVector}, k : Nat, ref : Ref,
     answer : {"none", "new", "seen", "not_found", "full"}, old : Word, arg : Arg]

TypeOK ==
    /\ table \in [Ref -> Word]
    /\ data \in [Ref -> Vector \cup {NoVector}]
    /\ full \in BOOLEAN
    /\ pc \in [Thread -> Label]
    /\ m \in [Thread -> Local]
    /\ todo \in [Thread -> Seq(CallRecord)]
    /\ knows \in [Thread -> [Vector -> Ref \cup {NoRef}]]

\* A bucket holds a vector from the moment a thread has taken it for it.
Holds(b, v) ==
    \/ table[b].done /\ data[b] = v
    \/ \E t \in Thread : pc[t] \in {"copy", "write"} /\ m[t].v = v /\ B(t) = b

\* No vector is in the table twice, whatever lookups of it run at the same
\* time (DBSLLfop_hash: all of them try the same buckets in the same order).
StoredOnce ==
    \A v \in Vector, b, c \in Ref : Holds(b, v) /\ Holds(c, v) => b = c

\* memcmp never reads a vector that is still being copied: the spin on the
\* write bit (line 198) is enough although only the memoised hash is compared.
ComparesWritten == \A t \in Thread : At(t, "compare") => data[B(t)] # NoVector

\* The flag "full" is raised only when some vector has no bucket: all the
\* buckets that may be tried for it are taken, and none by itself.
FullIsReal ==
    full => \E v \in Vector : \A k \in 0 .. Threshold * Line - 1 :
                table[Bucket(v, k)] # EMPTY /\ ~ Holds(Bucket(v, k), v)

\* The workers that are at work on the state in bucket b.
Counted(b) == {t \in Thread : b \in wip[t]}

\* The counter of a state is the number of workers that are counted in, and
\* the assertions of DBSLLinc_sat_bits and DBSLLdec_sat_bits never fail.
CountExact ==
    /\ \A b \in Ref : Count(table[b].sat) = Cardinality(Counted(b))
    /\ \A t \in Thread : ~ AssertFails(t)

\* The satellite bits of a state are exactly what the workers did to them:
\* every colour was won by one worker, and the counter is right (CountExact);
\* setting the write bit, or a count that overflows, never touches a colour.
SatExact ==
    /\ CountExact
    /\ \A b \in Ref, c \in Color :
          wins[b][c] = IF c \in BitsOf(Colors(table[b].sat)) THEN 1 ELSE 0

\* What the abstract set and its calls are in the table.
StoredSet == {p \in Ref \X Vector : Holds(p[1], p[2])}
CallOf(t) ==
    IF pc[t] \notin InFop THEN [stage |-> "idle"]
    ELSE [stage |-> IF m[t].answer = "none" THEN "asked" ELSE "decided",
          v |-> m[t].v, insert |-> m[t].op = "lookup",
          answer |-> m[t].answer, ref |-> m[t].ref]

Calls == [t \in Thread |-> CallOf(t)]

Abstract == INSTANCE StateSet WITH stored <- StoredSet, calls <- Calls

\* The table is a set of states that answers every call in one step between
\* its beginning and its end: a lookup is told "new" exactly when it put the
\* state in, a find is told "not found" only when the state was not there
\* at some moment of the call, and references never change.
IsStateSet == Abstract!Spec

\* Every call returns: whoever took a bucket finishes writing it, and a
\* compare and swap fails only because another one succeeded.
CallsReturn == \A t \in Thread : ~ At(t, "idle") ~> At(t, "idle")
=============================================================================
