------------------------------ MODULE TreeDbsLL ------------------------------
(***************************************************************************)
(* The tree table (mc-lib/treedbs-ll.c), the default state store of the    *)
(* multi-core tool.  A vector is a binary tree whose nodes are pairs:      *)
(* inner nodes are hash-consed in the table "data", the root in the table  *)
(* "root".  A bucket is one word, the pair plus one, written by a single   *)
(* compare and swap; the satellite bits of a state are the top bits of the *)
(* two halves of its root.  A successor is looked up with its predecessor: *)
(* only the nodes that differ, or that the dependency matrix says may      *)
(* differ, are looked up again.                                            *)
(*                                                                         *)
(* The model has one step for each access to shared memory and keeps the   *)
(* words: HalfBits is 32 in the code.  The Cleary table that can replace   *)
(* the table of roots is not modelled here.                                *)
(***************************************************************************)
EXTENDS Integers, Sequences, FiniteSets, FiniteSetsExt

CONSTANTS
    Thread,   \* the workers
    Vector,   \* the vectors
    NNodes,   \* the length of a vector
    HalfBits, \* the width of a slot and of a reference to an inner node
    LeafLog,  \* log2 of the size of the table of inner nodes
    RootLog,  \* log2 of the size of the table of roots
    Line,     \* the number of buckets in a cache line
    Thres,    \* the number of lines tried before a table is called full
    SatBits,  \* the number of satellite bits
    CountBits, \* how many of them are the counter, the others are colours
    DM,       \* the dependency matrix: the slots each group may change
    Mix(_),   \* mix64, the hash of a word
    Prime(_), \* odd_primes, by the hash
    Scripts   \* bound: the calls each thread makes

Slot == 0 .. NNodes - 1
Half == 2 ^ HalfBits
Word == 0 .. Half * Half - 1
EMPTY == 0

TableSize(table) == 2 ^ (IF table = "root" THEN RootLog ELSE LeafLog)
Refs(table) == 0 .. TableSize(table) - 1

\* TreeDBSLLcreate_dm: a pair of references leaves room for the satellite
\* bits, and a word has two halves.
ASSUME SizeAssumption ==
    /\ Vector \subseteq [Slot -> 0 .. Half - 1] /\ NNodes >= 2
    /\ SatBits + 2 * LeafLog <= 2 * HalfBits
    /\ TableSize("root") % Line = 0 /\ TableSize("data") % Line = 0

(***************************************************************************)
(* The satellite bits of a root.                                           *)
(***************************************************************************)
bit_pos(index) ==
    LET half == (SatBits + 1) \div 2
        part == IF index >= half THEN 2 ELSE 1
    IN  (HalfBits - half) * part + index

IsSet(word, index) == (word \div 2 ^ bit_pos(index)) % 2 = 1
SatSet(word) == {i \in 0 .. SatBits - 1 : IsSet(word, i)}

\* b2s: the bits as a number; sat_mask and sat_nmask: the bits in the word,
\* and the word without them.
b2s(word) == MapThenSumSet(LAMBDA i : 2 ^ i, SatSet(word))
Masked(word) == MapThenSumSet(LAMBDA i : 2 ^ bit_pos(i), SatSet(word))
Unmasked(table, word) == IF table = "root" THEN word - Masked(word) ELSE word

\* s2b: a number as bits of the word; what does not fit is lost.
s2b(sat) ==
    MapThenSumSet(LAMBDA i : 2 ^ bit_pos(i),
                  {i \in 0 .. SatBits - 1 : (sat \div 2 ^ i) % 2 = 1})

(***************************************************************************)
(* Trees: node 1 is the root, node i has the children 2i and 2i + 1, the   *)
(* slots of the vector are the nodes from NNodes on.  Entry 0 is the       *)
(* reference of the root.                                                  *)
(***************************************************************************)
Node == 0 .. 2 * NNodes - 1
Pair(tree, i) == tree[2 * i] + Half * tree[2 * i + 1]
TreeDBSLLdata(tree) == [s \in Slot |-> tree[NNodes + s]]

Down(n) == [j \in 1 .. n |-> n + 1 - j]

\* project_matrix_to_tree: the nodes above a slot the group may change.
Above[i \in Node \ {0}] ==
    IF i >= NNodes THEN {i - NNodes} ELSE Above[2 * i] \cup Above[2 * i + 1]

\* A mutant of Todo: the nodes all of whose slots may change.
TodoAll(group) == SelectSeq(Down(NNodes - 1), LAMBDA i : Above[i] \subseteq DM[group])

Todo(group) == SelectSeq(Down(NNodes - 1), LAMBDA i : Above[i] \cap DM[group] # {})

\* The k-th bucket tried for a word with hash h: around the line, then on to
\* another line and one bucket further (prime_rehash).
Bucket(table, h, k) ==
    LET probe == k \div Line
    IN  (((h \div Line + probe * Prime(h)) * Line) % TableSize(table))
        + ((h + probe + (k % Line)) % Line)

VARIABLES
    nodes, \* the two tables
    pc,    \* where each thread is
    m,     \* its local variables
    todo,  \* the calls each thread has still to make
    knows, \* the reference each thread was given for a vector
    wip,   \* the references each thread has counted itself in
    wins,  \* history: how often a thread was told it has set a bit
    fresh  \* history: how often a vector was said to be new

client == <<todo, knows, wip, wins, fresh>>
vars == <<nodes, pc, m, client>>

NoTree == <<>>
NoLocals ==
    [op |-> "none", v |-> <<>>, prev |-> NoTree, next |-> NoTree, path |-> <<>>,
     k |-> 0, answer |-> "none", ref |-> 0, arg |-> 0, old |-> 0]

Init ==
    /\ nodes = [table \in {"root", "data"} |-> [r \in Refs(table) |-> EMPTY]]
    /\ pc = [t \in Thread |-> "idle"]
    /\ m = [t \in Thread |-> NoLocals]
    /\ todo \in Scripts
    /\ knows = [t \in Thread |-> <<>>]
    /\ wip = [t \in Thread |-> {}]
    /\ wins = [r \in Refs("root") |-> [i \in 0 .. SatBits - 1 |-> 0]]
    /\ fresh = [v \in {} |-> 0]

At(t, place) == pc[t] = place
Goto(t, place) == pc' = [pc EXCEPT ![t] = place]
Get(f, x, default) == IF x \in DOMAIN f THEN f[x] ELSE default
Put(f, x, y) == [z \in DOMAIN f \cup {x} |-> IF z = x THEN y ELSE f[z]]

\* TreeDBSLLget: the tree of a reference, node by node from the root.
GetTree(ref) ==
    LET kid[i \in Node \ {0}] ==
            IF i = 1 THEN 0
            ELSE LET up == i \div 2
                     word == IF up = 1
                             THEN (nodes["root"][ref] - 1) - Masked(nodes["root"][ref] - 1)
                             ELSE nodes["data"][kid[up]] - 1
                 IN  IF i % 2 = 0 THEN word % Half ELSE word \div Half
    IN  [i \in Node |-> IF i = 0 THEN ref ELSE kid[i]]

(***************************************************************************)
(* TreeDBSLLfop_dm, with TreeDBSLLfop_incr and TreeDBSLLfop for a group    *)
(* or a predecessor that is not known.                                     *)
(***************************************************************************)
Fop(t) ==
    LET call == Head(todo[t])
        prev == IF call.prev = <<>> THEN NoTree ELSE GetTree(knows[t][call.prev])
        next == [i \in Node |-> IF i >= NNodes THEN call.v[i - NNodes]
                                ELSE IF prev = NoTree THEN 0 ELSE prev[i]]
        path == IF prev = NoTree \/ call.group = -1 THEN Down(NNodes - 1)
                ELSE SelectSeq(Todo(call.group), LAMBDA i : i # 1) \o <<1>>
    IN  /\ At(t, "idle") /\ todo[t] # <<>> /\ call.op \in {"lookup", "find"}
        /\ m' = [m EXCEPT ![t] =
                    [NoLocals EXCEPT !.op = call.op, !.v = call.v, !.prev = prev,
                                     !.next = next, !.path = path]]
        /\ todo' = [todo EXCEPT ![t] = Tail(@)]
        /\ Goto(t, "node")
        /\ UNCHANGED <<nodes, knows, wip, wins, fresh>>

Decide(t, answer, ref) ==
    /\ m' = [m EXCEPT ![t].answer = answer, ![t].ref = ref]
    /\ Goto(t, "return")

\* The next node to look up: those that are as in the predecessor are known.
\* When nothing has changed the vector is the predecessor.
NextNode(t) ==
    LET i == Head(m[t].path) IN
    /\ At(t, "node")
    /\ IF m[t].path = <<>> THEN Decide(t, "seen", m[t].next[0])
       ELSE IF m[t].prev # NoTree /\ Pair(m[t].prev, i) = Pair(m[t].next, i)
       THEN m' = [m EXCEPT ![t].path = Tail(@)] /\ UNCHANGED pc
       ELSE m' = [m EXCEPT ![t].k = 0] /\ Goto(t, "probe")
    /\ UNCHANGED <<nodes, client>>

(***************************************************************************)
(* lookup: find the pair of a node in its table, or put it there.          *)
(***************************************************************************)
Table(t) == IF Head(m[t].path) = 1 THEN "root" ELSE "data"
Data(t) == Pair(m[t].next, Head(m[t].path))
B(t) == Bucket(Table(t), Mix(Data(t)), m[t].k)
Stored(t) == nodes[Table(t)][B(t)]

\* A node has its reference: on to the next one, or, for the root, done.
Found(t, answer) ==
    IF Table(t) = "root" THEN Decide(t, answer, B(t))
    ELSE /\ m' = [m EXCEPT ![t].next[Head(m[t].path)] = B(t), ![t].path = Tail(@)]
         /\ Goto(t, "node")

ReadEmpty(t) ==
    /\ At(t, "probe")
    /\ IF m[t].k = Thres * Line
       THEN Decide(t, IF Table(t) = "root" THEN "roots full" ELSE "leafs full", 0)
       ELSE IF Stored(t) # EMPTY THEN Goto(t, "match") /\ UNCHANGED m
       ELSE IF m[t].op = "find" THEN Decide(t, "not_found", 0)
       ELSE Goto(t, "cas") /\ UNCHANGED m
    /\ UNCHANGED <<nodes, client>>

CasEmpty(t) ==
    /\ At(t, "cas")
    /\ IF Stored(t) = EMPTY
       THEN /\ nodes' = [nodes EXCEPT ![Table(t)][B(t)] = Data(t) + 1]
            /\ Found(t, "new")
            /\ fresh' = IF Table(t) = "root"
                        THEN Put(fresh, m[t].v, Get(fresh, m[t].v, 0) + 1) ELSE fresh
       ELSE Goto(t, "match") /\ UNCHANGED <<nodes, m, fresh>>
    /\ UNCHANGED <<todo, knows, wip, wins>>

\* Mutants of Match: the satellite bits are compared too.
MatchAll(t) ==
    /\ At(t, "match")
    /\ IF Data(t) + 1 = Stored(t) THEN Found(t, "seen")
       ELSE m' = [m EXCEPT ![t].k = @ + 1] /\ Goto(t, "probe")
    /\ UNCHANGED <<nodes, client>>

Match(t) ==
    /\ At(t, "match")
    /\ IF Data(t) + 1 = Unmasked(Table(t), Stored(t)) THEN Found(t, "seen")
       ELSE m' = [m EXCEPT ![t].k = @ + 1] /\ Goto(t, "probe")
    /\ UNCHANGED <<nodes, client>>

\* store_new_state keeps the reference, store_find drops it; a worker that is
\* told that a table is full ends the search.
Return(t) ==
    LET ended == m[t].answer \in {"roots full", "leafs full"} IN
    /\ At(t, "return")
    /\ knows' = IF m[t].op = "lookup" /\ ~ended
                THEN [knows EXCEPT ![t] = Put(@, m[t].v, m[t].ref)] ELSE knows
    /\ todo' = IF ended THEN [todo EXCEPT ![t] = <<>>] ELSE todo
    /\ m' = [m EXCEPT ![t] = NoLocals]
    /\ Goto(t, "idle")
    /\ UNCHANGED <<nodes, wip, wins, fresh>>

(***************************************************************************)
(* The operations on the satellite bits: "color" is                        *)
(* TreeDBSLLtry_set_sat_bit, a read and a fetch_or; "inc" and "dec" count  *)
(* with a compare and swap that is tried again.                            *)
(***************************************************************************)
SatCall(t) ==
    LET call == Head(todo[t]) IN
    /\ At(t, "idle") /\ todo[t] # <<>> /\ call.op \in {"color", "inc", "dec"}
    /\ m' = [m EXCEPT ![t] = [NoLocals EXCEPT !.op = call.op, !.arg = call.arg,
                                              !.ref = knows[t][call.v]]]
    /\ todo' = [todo EXCEPT ![t] = Tail(@)]
    /\ Goto(t, "read")
    /\ UNCHANGED <<nodes, knows, wip, wins, fresh>>

Finish(t) == Goto(t, "idle") /\ m' = [m EXCEPT ![t] = NoLocals]
RootWord(t) == nodes["root"][m[t].ref]
SetRoot(t, word) == nodes' = [nodes EXCEPT !["root"][m[t].ref] = word]

SatRead(t) ==
    /\ At(t, "read")
    /\ IF m[t].op = "color" /\ IsSet(RootWord(t), m[t].arg) THEN Finish(t)
       ELSE m' = [m EXCEPT ![t].old = RootWord(t)] /\ Goto(t, "write")
    /\ UNCHANGED <<nodes, client>>

\* A mutant of FetchOr: the word that was read is written back with the bit.
FetchOrStale(t) ==
    /\ At(t, "write") /\ m[t].op = "color"
    /\ SetRoot(t, m[t].old + 2 ^ bit_pos(m[t].arg))
    /\ wins' = [wins EXCEPT ![m[t].ref][m[t].arg] = @ + 1]
    /\ Finish(t)
    /\ UNCHANGED <<todo, knows, wip, fresh>>

FetchOr(t) ==
    /\ At(t, "write") /\ m[t].op = "color"
    /\ IF IsSet(RootWord(t), m[t].arg) THEN UNCHANGED <<nodes, wins>>
       ELSE /\ SetRoot(t, RootWord(t) + 2 ^ bit_pos(m[t].arg))
            /\ wins' = [wins EXCEPT ![m[t].ref][m[t].arg] = @ + 1]
    /\ Finish(t)
    /\ UNCHANGED <<todo, knows, wip, fresh>>

\* A mutant of CasSatBits: the word is not read again when the swap fails.
CasSatBitsStale(t) ==
    LET step == IF m[t].op = "inc" THEN 1 ELSE -1 IN
    /\ At(t, "write") /\ m[t].op \in {"inc", "dec"}
    /\ IF RootWord(t) = m[t].old
       THEN /\ SetRoot(t, s2b(b2s(m[t].old) + step) + m[t].old - Masked(m[t].old))
            /\ wip' = [wip EXCEPT ![t] = IF m[t].op = "inc" THEN @ \cup {m[t].ref}
                                         ELSE @ \ {m[t].ref}]
            /\ Finish(t)
       ELSE UNCHANGED <<nodes, wip, m, pc>>
    /\ UNCHANGED <<todo, knows, wins, fresh>>

CasSatBits(t) ==
    LET step == IF m[t].op = "inc" THEN 1 ELSE -1 IN
    /\ At(t, "write") /\ m[t].op \in {"inc", "dec"}
    /\ IF RootWord(t) = m[t].old
       THEN /\ SetRoot(t, s2b(b2s(m[t].old) + step) + m[t].old - Masked(m[t].old))
            /\ wip' = [wip EXCEPT ![t] = IF m[t].op = "inc" THEN @ \cup {m[t].ref}
                                         ELSE @ \ {m[t].ref}]
            /\ Finish(t)
       ELSE Goto(t, "read") /\ UNCHANGED <<nodes, wip, m>>
    /\ UNCHANGED <<todo, knows, wins, fresh>>

Step(t) ==
    \/ Fop(t) \/ NextNode(t) \/ ReadEmpty(t) \/ CasEmpty(t) \/ Match(t) \/ Return(t)
    \/ SatCall(t) \/ SatRead(t) \/ FetchOr(t) \/ CasSatBits(t)

Finished == (\A t \in Thread : At(t, "idle") /\ todo[t] = <<>>) /\ UNCHANGED vars

Next == (\E t \in Thread : Step(t)) \/ Finished

Spec == Init /\ [][Next]_vars
FairSpec == Spec /\ \A t \in Thread : WF_vars(Step(t))

-----------------------------------------------------------------------------
(***************************************************************************)
(* Properties                                                              *)
(***************************************************************************)
\* A pair has one bucket in its table, whatever lookups of it run at the same
\* time and whatever satellite bits are set meanwhile (lookup compares the
\* word without its satellite bits).
NodesOnce ==
    \A table \in {"root", "data"} : \A r, q \in Refs(table) :
        r # q /\ nodes[table][r] # EMPTY =>
            Unmasked(table, nodes[table][r]) # Unmasked(table, nodes[table][q])

\* A vector is said to be new once: "1 if the vector was present, 0 if it was
\* added" (treedbs-ll.h).
NewOnce == \A v \in DOMAIN fresh : fresh[v] <= 1

\* The satellite bits are exactly what the workers did to them, although they
\* share a word with the pair and are spread over its halves.
SatExact ==
    \A r \in Refs("root") :
        /\ b2s(nodes["root"][r]) % 2 ^ CountBits
              = Cardinality({t \in Thread : r \in wip[t]})
        /\ \A i \in CountBits .. SatBits - 1 :
              wins[r][i] = IF IsSet(nodes["root"][r], i) THEN 1 ELSE 0

\* The tree table is an atomic set of vectors: the sequence of lookups of the
\* nodes of a tree takes effect in one step, incremental lookups and finds
\* answer as full ones do, and TreeDBSLLget returns the vector of a reference
\* for ever.
Abstract == INSTANCE StateSet WITH
    Ref <- Refs("root"),
    stored <- {<<r, TreeDBSLLdata(GetTree(r))>> :
                 r \in {q \in Refs("root") : nodes["root"][q] # EMPTY}},
    calls <- [t \in Thread |->
        IF pc[t] \in {"idle", "read", "write"} THEN [stage |-> "idle"]
        ELSE [stage |-> IF m[t].answer = "none" THEN "asked" ELSE "decided",
              v |-> m[t].v, insert |-> m[t].op = "lookup",
              answer |-> IF m[t].answer \in {"roots full", "leafs full"}
                         THEN "full" ELSE m[t].answer,
              ref |-> m[t].ref]]

IsStateSet == Abstract!Spec

\* Every call returns: the probes of a lookup are bounded, and a compare and
\* swap fails only because another one succeeded.
CallsReturn == \A t \in Thread : ~ At(t, "idle") ~> At(t, "idle")
=============================================================================
