-------------------------------- MODULE ListDD ---------------------------------
(* vset-lib/vset_listdd.c: sets of vectors and relations as list decision        *)
(* diagrams.  The whole memory of the package is one record m: the node table    *)
(* with its free list and unique table, the operation cache, the stack that      *)
(* protects intermediate results, and the registered sets and relations.  A C    *)
(* function f(args) that may allocate is an operator f(m, args) that yields the  *)
(* memory it leaves, its result in field ret.                                    *)
EXTENDS Integers, Sequences, SequencesExt, FiniteSetsExt, Functions

CONSTANTS
    N,          \* the length of a vector
    Hash(_, _, _), \* hash()
    NodesFib,   \* nodes_fib: the initial node table has fib(nodes_fib) entries
    CacheFib,   \* cache_fib: the cache has fib(nodes_fib + cache_fib) entries
    Openings,   \* the call sequences a client may start with
    Calls,      \* the calls it may go on with ...
    Budget,     \* ... and how many of them (a bound of the model)
    RelProj,    \* the projection of each relation, positions counted from 0
    Trans       \* the transitions <<src, dst>> the expand callback of a relation adds, in order

VARIABLES
    m,          \* the memory
    todo, left, \* what is left of the prefix and of the budget
    last        \* the call made last

vars == <<m, todo, left, last>>

fib[n \in Nat] == IF n <= 1 THEN n ELSE fib[n - 1] + fib[n - 2]

Code == [count |-> 1, union |-> 2, minus |-> 3, project |-> 4, next |-> 5, prev |-> 6,
         match |-> 7, intersect |-> 8, sat |-> 9, relprod |-> 10]

All == <<-1>>
Unused == [op |-> "unused"]
Blank == [val |-> 0, down |-> 0, right |-> 0]

--------------------------------------------------------------------------------
(* Nodes, the protection stack and the cache.                                    *)

Val(s, x) == s.node[x].val
Down(s, x) == s.node[x].down
Right(s, x) == s.node[x].right

Ret(s, x) == [s EXCEPT !.ret = x]
Abort(s) == [s EXCEPT !.ret = 0, !.aborted = TRUE]
\* The statements F, run in the memory s that the statement before them left; Abort()
\* ends the program.
Then(s, F(_)) == IF s.aborted THEN s ELSE F(s)

mdd_push(s, x) == [s EXCEPT !.stack = Append(@, x)]
mdd_pop(s) == [s EXCEPT !.stack = Front(@)]

\* The key of a cached operation; p is the part of the projection in the op word.
Key(op, p, a, b) == [op |-> op, p |-> p, a |-> a, b |-> b]
Entry(k, res) == [op |-> k.op, p |-> k.p, a |-> k.a, b |-> k.b, res |-> res]
KeyHash(k) == Hash(Code[k.op] + (k.p * 2^16), k.a, k.b)
Slot(s, k) == (KeyHash(k) % Len(s.cache)) + 1
Cached(s, k) == \E res \in {s.cache[Slot(s, k)]} : res.op = k.op /\ res = Entry(k, res.res)
Lookup(s, k) == Ret(s, s.cache[Slot(s, k)].res)
\* An entry for e, in the slot of k.
StoreAt(s, k, e) == [s EXCEPT !.cache[Slot(s, k)] = Entry(e, s.ret)]
Store(s, k) == StoreAt(s, k, k)
\* The cached result for k, or the result in memory t, which is stored.
Memo(s, k, t) == IF Cached(s, k) THEN Lookup(s, k) ELSE Then(t, LAMBDA u : Store(u, k))

\* The nodes marked from those in S on; the order in which they are marked is left out.
RECURSIVE mdd_mark(_, _)
Children(node, S) == {node[x].down : x \in S} \cup {node[x].right : x \in S}
mdd_mark(node, S) ==
    IF Children(node, S) \subseteq S \cup {0, 1} THEN S
    ELSE mdd_mark(node, S \cup (Children(node, S) \ {0, 1}))

\* Mutant: the protection stack is not scanned.
RootsNoStack(s) == UNION {{s.set[x].mdd, s.set[x].p_id} : x \in DOMAIN s.set}
                   \cup UNION {{s.rel[g].mdd, s.rel[g].p_id} : g \in DOMAIN s.rel}
Roots(s) == Range(s.stack)
            \cup UNION {{s.set[x].mdd, s.set[x].p_id} : x \in DOMAIN s.set}
            \cup UNION {{s.rel[g].mdd, s.rel[g].p_id} : g \in DOMAIN s.rel}

\* Mutant: the result of an entry is not looked at.
KeepsResult(M, e) == e.op # "unused" /\ e.a \in M
\* Whether a collection that marked the nodes M keeps the cache entry e.
Keeps(M, e) ==
    CASE e.op = "unused"  -> FALSE
      [] e.op = "count"   -> e.a \in M
      [] e.op = "project" -> {e.a, e.res} \subseteq M
      [] OTHER            -> {e.a, e.b, e.res} \subseteq M

\* The sequence f; the concatenation makes TLC evaluate its elements once.
Plain(f) == <<>> \o f

\* Unmarked entries go; the rest stay where they are, or are hashed anew, by the
\* low byte of their op word, when the table grows.
Purged(cache, M) ==
    Plain([i \in DOMAIN cache |-> IF Keeps(M, cache[i]) THEN cache[i] ELSE Unused])

Rehashed(cache, M, size) ==
    Plain([i \in 1..size |->
        LET from == {j \in DOMAIN cache :
                       Keeps(M, cache[j])
                       /\ (Hash(Code[cache[j].op], cache[j].a, cache[j].b) % size) + 1 = i}
        IN  IF from = {} THEN Unused ELSE cache[Max(from)]])

\* The node numbers below n in S, the largest first.
Falling(S, n) == SelectSeq([i \in 1..n |-> n - i], LAMBDA x : x \in S)

NodeSlot(node, x, size) == (Hash(node[x].val, node[x].down, node[x].right) % size) + 1

\* The unmarked nodes of the unique table as mdd_sweep_bucket leaves them on the free
\* list: freed bucket by bucket and from the head of each chain, the last one first.
Freed(uniq, used) ==
    LET width == Max({Len(uniq[i]) : i \in DOMAIN uniq})
        place == [j \in 1..(Len(uniq) * width) |->
                    <<Len(uniq) - ((j - 1) \div width), width - ((j - 1) % width)>>]
        dead == SelectSeq(place, LAMBDA p : p[2] <= Len(uniq[p[1]]) /\ uniq[p[1]][p[2]] \notin used)
    IN  Plain([j \in DOMAIN dead |-> uniq[dead[j][1]][dead[j][2]]])

\* Unmarked nodes become free, and the tables grow when more than fib(nodes_fib - 1)
\* nodes are marked.  The mark bits of the nodes 0 and 1 are never initialised; s.low
\* holds those that happen to be set.
Collected(s, used) ==
    LET M == used \cup s.low
        old == fib[s.fib]
        new == fib[s.fib + 1]
        uniq == fib[s.fib + 2]
    IN  IF Cardinality(used) <= fib[s.fib - 1]
        THEN [s EXCEPT !.cache = Purged(s.cache, M),
                       !.uniq = Plain([i \in DOMAIN s.uniq |-> SelectSeq(s.uniq[i], LAMBDA x : x \in used)]),
                       !.free = Freed(s.uniq, used)]
        ELSE [s EXCEPT !.fib = @ + 1,
                       !.cache = Rehashed(s.cache, M, fib[s.fib + 1 + CacheFib]),
                       !.node = @ @@ [x \in old..(new - 1) |-> Blank],
                       !.uniq = Plain([i \in 1..uniq |->
                                   Falling({x \in used : NodeSlot(s.node, x, uniq) = i}, old)]),
                       !.free = Falling((2..(old - 1)) \ used, old) \o [i \in 1..(new - old) |-> old + i - 1]]
mdd_collect(s, a, b) ==
    Collected(s, mdd_mark(s.node, (Roots(s) \cup {a, b}) \ {0, 1}))

Bucket(s, n) == (Hash(n.val, n.down, n.right) % Len(s.uniq)) + 1
\* Node n in the first free place, at the head of bucket b.
Insert(t, n, b) ==
    [t EXCEPT !.node[Head(t.free)] = n, !.free = Tail(@),
              !.uniq[b] = <<Head(t.free)>> \o @, !.ret = Head(t.free)]
\* Mutant: the bucket is not computed again when the tables have grown.
mdd_create_nodeSlot(s, val, down, right) ==
    IF down = 0 THEN Ret(s, right)
    ELSE IF right > 1 /\ val >= Val(s, right) THEN Abort(s)
    ELSE LET n == [val |-> val, down |-> down, right |-> right]
             found == SelectSeq(s.uniq[Bucket(s, n)], LAMBDA x : s.node[x] = n)
         IN  IF found # <<>> THEN Ret(s, Head(found))
             ELSE Insert(IF s.free = <<>> THEN mdd_collect(s, down, right) ELSE s, n, Bucket(s, n))
\* The bucket is computed again after a collection, which may have grown the tables.
mdd_create_node(s, val, down, right) ==
    IF down = 0 THEN Ret(s, right)
    ELSE IF right > 1 /\ val >= Val(s, right) THEN Abort(s)
    ELSE LET n == [val |-> val, down |-> down, right |-> right]
             found == SelectSeq(s.uniq[Bucket(s, n)], LAMBDA x : s.node[x] = n)
         IN  IF found # <<>> THEN Ret(s, Head(found))
             ELSE Then(IF s.free = <<>> THEN mdd_collect(s, down, right) ELSE s, LAMBDA t : Insert(t, n, Bucket(t, n)))

--------------------------------------------------------------------------------
(* The set operations.                                                           *)

RECURSIVE mdd_put(_, _, _)
mdd_put(s, x, vec) ==
    IF vec = <<>> /\ x <= 1 THEN Ret(s, 1)
    ELSE IF x > 1 /\ (vec = <<>> \/ Val(s, x) < Head(vec))
    THEN Then(mdd_put(s, Right(s, x), vec),
              LAMBDA t : IF t.ret = Right(t, x) THEN Ret(t, x)
                         ELSE mdd_create_node(t, Val(t, x), Down(t, x), t.ret))
    ELSE IF x > 1 /\ Val(s, x) = Head(vec)
    THEN Then(mdd_put(s, Down(s, x), Tail(vec)),
              LAMBDA t : IF t.ret = Down(t, x) THEN Ret(t, x)
                         ELSE mdd_create_node(t, Val(t, x), t.ret, Right(t, x)))
    ELSE Then(mdd_put(s, 0, Tail(vec)), LAMBDA t : mdd_create_node(t, Head(vec), t.ret, x))

\* Node val over the result kept on the stack, before the result just computed:
\* mdd_create_node(val, mdd_pop(), tmp).
PopDown(s, val) == Then(s, LAMBDA t : mdd_create_node(mdd_pop(t), val, Last(t.stack), t.ret))
\* ... and mdd_create_node(val, tmp, mdd_pop()).
PopRight(s, val) == Then(s, LAMBDA t : mdd_create_node(mdd_pop(t), val, t.ret, Last(t.stack)))
Keep(s) == mdd_push(s, s.ret)

\* Node x again, with the result just computed as the rest of its list.
Relinked(s, x) == Then(s, LAMBDA t : mdd_create_node(t, Val(t, x), Down(t, x), t.ret))

RECURSIVE mdd_union(_, _, _)
Union(s, a, b) ==
    CASE Val(s, a) < Val(s, b) -> Relinked(mdd_union(s, Right(s, a), b), a)
      [] Val(s, a) = Val(s, b) ->
           Then(Keep(mdd_union(s, Down(s, a), Down(s, b))),
                LAMBDA u : PopDown(mdd_union(u, Right(u, a), Right(u, b)), Val(u, a)))
      [] OTHER -> Relinked(mdd_union(s, a, Right(s, b)), b)

mdd_union(s, x, y) ==
    IF x = y \/ y = 0 THEN Ret(s, x)
    ELSE IF x = 0 THEN Ret(s, y)
    ELSE IF x = 1 \/ y = 1 THEN Abort(s)
    ELSE LET a == Min({x, y})
             b == Max({x, y})
         IN  Memo(s, Key("union", 0, a, b), Union(s, a, b))

RECURSIVE mdd_minus(_, _, _)
Minus(s, a, b) ==
    CASE Val(s, a) < Val(s, b) -> Relinked(mdd_minus(s, Right(s, a), b), a)
      [] Val(s, a) = Val(s, b) ->
           Then(Keep(mdd_minus(s, Down(s, a), Down(s, b))),
                LAMBDA u : PopDown(mdd_minus(u, Right(u, a), Right(u, b)), Val(u, a)))
      [] OTHER -> mdd_minus(s, a, Right(s, b))

mdd_minus(s, a, b) ==
    IF a = b \/ a = 0 THEN Ret(s, 0)
    ELSE IF b = 0 THEN Ret(s, a)
    ELSE IF a = 1 \/ b = 1 THEN Abort(s)
    ELSE Memo(s, Key("minus", 0, a, b), Minus(s, a, b))

RECURSIVE mdd_intersect(_, _, _)
Intersect(s, a, b) ==
    CASE Val(s, a) = Val(s, b) ->
           Then(Keep(mdd_intersect(s, Down(s, a), Down(s, b))),
                LAMBDA u : PopDown(mdd_intersect(u, Right(u, a), Right(u, b)), Val(u, a)))
      [] Val(s, a) < Val(s, b) -> mdd_intersect(s, Right(s, a), b)
      [] OTHER -> mdd_intersect(s, a, Right(s, b))

mdd_intersect(s, a, b) ==
    IF a = b THEN Ret(s, a)
    ELSE IF a = 0 \/ b = 0 THEN Ret(s, 0)
    ELSE IF a = 1 \/ b = 1 THEN Abort(s)
    ELSE Memo(s, Key("intersect", 0, a, b), Intersect(s, a, b))

RECURSIVE mdd_count(_, _)
mdd_count(s, x) ==
    IF x <= 1 THEN Ret(s, x)
    ELSE Memo(s, Key("count", 0, x, 0),
              Then(mdd_count(s, Down(s, x)),
                   LAMBDA t : Then(mdd_count(t, Right(t, x)), LAMBDA u : Ret(u, t.ret + u.ret))))

\* res := mdd_union(res, mdd_create_node(val, tmp, 0)) with res, already pushed, and
\* the new node protected by the stack.
JoinNode(s, res, val) ==
    Then(Keep(mdd_create_node(s, val, s.ret, 0)),
         LAMBDA t : mdd_pop(mdd_pop(mdd_union(t, res, t.ret))))
\* The same without a new node.
JoinResult(s, res) == Then(s, LAMBDA t : mdd_pop(mdd_pop(mdd_union(Keep(t), res, t.ret))))

\* The first node of the list x whose value is at least val.
RECURSIVE Seek(_, _, _)
Seek(s, x, val) == IF x > 1 /\ Val(s, x) < val THEN Seek(s, Right(s, x), val) ELSE x
At(s, x, val) == x > 1 /\ Val(s, x) = val

RECURSIVE mdd_copy_match(_, _, _, _, _, _)
RECURSIVE CopyMatchList(_, _, _, _, _, _, _)
CopyMatchList(s, res, p_id, x, pattern, idx, proj) ==
    IF x <= 1 THEN Ret(s, res)
    ELSE Then(Then(mdd_copy_match(mdd_push(s, res), p_id, Down(s, x), pattern, idx + 1, proj),
                   LAMBDA t : JoinNode(t, res, Val(t, x))),
              LAMBDA u : CopyMatchList(u, u.ret, p_id, Right(u, x), pattern, idx, proj))
\* y is the node of the list at which the search for the pattern's value stopped.
CopyMatchAt(s, p_id, y, pattern, idx, proj) ==
    IF ~At(s, y, Val(s, pattern)) THEN Ret(s, 0)
    ELSE Then(mdd_copy_match(s, Down(s, p_id), Down(s, y), Down(s, pattern), idx + 1, Tail(proj)),
              LAMBDA u : mdd_create_node(u, Val(u, y), u.ret, 0))

mdd_copy_match(s, p_id, x, pattern, idx, proj) ==
    IF x <= 1 \/ proj = <<>> THEN Ret(s, x)
    ELSE Memo(s, Key("match", p_id, x, pattern),
              IF Head(proj) = idx
              THEN CopyMatchAt(s, p_id, Seek(s, x, Val(s, pattern)), pattern, idx, proj)
              ELSE CopyMatchList(s, 0, p_id, x, pattern, idx, proj))

RECURSIVE mdd_project(_, _, _, _, _)
RECURSIVE ProjectList(_, _, _, _, _, _)
ProjectList(s, res, p_id, x, idx, proj) ==
    IF x <= 1 THEN Ret(s, res)
    ELSE Then(JoinResult(mdd_project(mdd_push(s, res), p_id, Down(s, x), idx + 1, proj), res),
              LAMBDA u : ProjectList(u, u.ret, p_id, Right(u, x), idx, proj))

mdd_project(s, p_id, x, idx, proj) ==
    IF x = 0 THEN Ret(s, 0)
    ELSE IF proj = <<>> THEN Ret(s, 1)
    ELSE Memo(s, Key("project", 0, x, p_id),
              IF Head(proj) # idx THEN ProjectList(s, 0, p_id, x, idx, proj)
              ELSE Then(Then(Keep(mdd_project(s, p_id, Right(s, x), idx, proj)),
                             LAMBDA u : mdd_project(u, Down(u, p_id), Down(u, x), idx + 1, Tail(proj))),
                        LAMBDA w : PopRight(w, Val(w, x))))

\* The first pair of nodes of the lists x and r with the same value, <<0, 0>> if none.
RECURSIVE Meet(_, _, _)
Meet(s, x, r) ==
    IF x <= 1 \/ r <= 1 THEN <<0, 0>>
    ELSE IF Val(s, x) < Val(s, r) THEN Meet(s, Right(s, x), r)
    ELSE IF Val(s, r) < Val(s, x) THEN Meet(s, x, Right(s, r))
    ELSE <<x, r>>

RECURSIVE mdd_next(_, _, _, _, _, _)
RECURSIVE NextList(_, _, _, _, _, _, _)
NextList(s, res, p_id, x, r, idx, proj) ==
    IF r <= 1 THEN Ret(s, res)
    ELSE Then(Then(mdd_next(mdd_push(s, res), Down(s, p_id), Down(s, x), Down(s, r), idx + 1, Tail(proj)),
                   LAMBDA t : JoinNode(t, res, Val(t, r))),
              LAMBDA u : NextList(u, u.ret, p_id, x, Right(u, r), idx, proj))
\* The image from the nodes x and r on, which hold the same value at a level of proj.
NextFrom(s, p_id, x, r, idx, proj) ==
    Memo(s, Key("next", p_id, x, r),
              IF Head(proj) = idx
              THEN Then(mdd_next(s, p_id, Right(s, x), Right(s, r), idx, proj),
                        LAMBDA u : NextList(u, u.ret, p_id, x, Down(u, r), idx, proj))
              ELSE Then(Then(Keep(mdd_next(s, p_id, Right(s, x), r, idx, proj)),
                             LAMBDA u : mdd_next(u, p_id, Down(u, x), r, idx + 1, proj)),
                        LAMBDA w : PopRight(w, Val(w, x))))
NextAt(s, p_id, meet, idx, proj) ==
    IF meet[1] = 0 THEN Ret(s, 0) ELSE NextFrom(s, p_id, meet[1], meet[2], idx, proj)

mdd_next(s, p_id, set, rel, idx, proj) ==
    IF rel = 0 \/ set = 0 THEN Ret(s, 0)
    ELSE IF proj = <<>> THEN Ret(s, set)
    ELSE IF rel = 1 \/ set = 1 THEN Abort(s)
    ELSE IF Head(proj) # idx THEN NextFrom(s, p_id, set, rel, idx, proj)
    ELSE NextAt(s, p_id, Meet(s, set, rel), idx, proj)

\* The loop of mdd_prev; it leaves the nodes at which it stopped in field at.
RECURSIVE mdd_prev(_, _, _, _, _, _)
RECURSIVE PrevList(_, _, _, _, _, _, _)
PrevList(s, res, p_id, x, r, idx, proj) ==
    IF x <= 1 \/ r <= 1 THEN [s EXCEPT !.ret = res, !.at = <<x, r>>]
    ELSE IF Val(s, r) < Val(s, x) THEN PrevList(s, res, p_id, x, Right(s, r), idx, proj)
    ELSE IF Val(s, x) < Val(s, r) THEN PrevList(s, res, p_id, Right(s, x), r, idx, proj)
    ELSE Then(JoinResult(mdd_prev(mdd_push(s, res), Down(s, p_id), Down(s, x), Down(s, r),
                                  idx + 1, Tail(proj)), res),
              LAMBDA u : PrevList(u, u.ret, p_id, Right(u, x), Right(u, r), idx, proj))
\* The two branches; the first stores its result under the nodes at which it stopped.
PrevHere(s, k, p_id, set, rel, idx, proj) ==
    Then(Keep(mdd_prev(s, p_id, set, Right(s, rel), idx, proj)),
         LAMBDA u : Then(PrevList(u, 0, p_id, set, Down(u, rel), idx, proj),
                         LAMBDA w : StoreAt(PopRight(w, Val(u, rel)), k, Key("prev", p_id, w.at[1], w.at[2]))))
PrevBelow(s, k, p_id, set, rel, idx, proj) ==
    Then(Then(Keep(mdd_prev(s, p_id, Right(s, set), rel, idx, proj)),
              LAMBDA u : mdd_prev(u, p_id, Down(u, set), rel, idx + 1, proj)),
         LAMBDA w : Store(PopRight(w, Val(w, set)), k))

mdd_prev(s, p_id, set, rel, idx, proj) ==
    IF rel = 0 \/ set = 0 THEN Ret(s, 0)
    ELSE IF proj = <<>> THEN Ret(s, set)
    ELSE IF rel = 1 \/ set = 1 THEN Abort(s)
    ELSE LET k == Key("prev", p_id, set, rel)
         IN  IF Cached(s, k) THEN Lookup(s, k)
             ELSE IF Head(proj) = idx THEN PrevHere(s, k, p_id, set, rel, idx, proj)
             ELSE PrevBelow(s, k, p_id, set, rel, idx, proj)

--------------------------------------------------------------------------------
(* Saturation.                                                                   *)

RECURSIVE saturate(_, _, _)
RECURSIVE sat_rel_prod(_, _, _, _, _, _)

RECURSIVE copy_level_sat(_, _, _, _, _, _, _)
copy_level_sat(s, res, p_id, set, rel, idx, proj) ==
    IF set = 0 THEN Ret(s, res)
    ELSE Then(Then(sat_rel_prod(mdd_push(s, res), p_id, Down(s, set), rel, idx + 1, proj),
                   LAMBDA t : JoinNode(t, res, Val(t, set))),
              LAMBDA u : copy_level_sat(u, u.ret, p_id, Right(u, set), rel, idx, proj))

\* The inner loop of apply_rel_prod and apply_rel_fixpoint.
RECURSIVE ProdList(_, _, _, _, _, _, _)
ProdList(s, res, p_id, x, r, idx, proj) ==
    IF r <= 1 THEN Ret(s, res)
    ELSE Then(Then(sat_rel_prod(mdd_push(s, res), Down(s, p_id), Down(s, x), Down(s, r), idx + 1, Tail(proj)),
                   LAMBDA t : JoinNode(t, res, Val(t, r))),
              LAMBDA u : ProdList(u, u.ret, p_id, x, Right(u, r), idx, proj))

RECURSIVE apply_rel_prod(_, _, _, _, _, _, _)
ProdAt(s, res, p_id, meet, idx, proj) ==
    IF meet[1] = 0 THEN Ret(s, res)
    ELSE Then(ProdList(s, res, p_id, meet[1], Down(s, meet[2]), idx, proj),
              LAMBDA t : apply_rel_prod(t, t.ret, p_id, Right(t, meet[1]), Right(t, meet[2]), idx, proj))
apply_rel_prod(s, res, p_id, set, rel, idx, proj) == ProdAt(s, res, p_id, Meet(s, set, rel), idx, proj)

sat_rel_prod(s, p_id, set, rel, idx, proj) ==
    IF proj = <<>> THEN Ret(s, set)
    ELSE IF set = 0 \/ rel = 0 THEN Ret(s, 0)
    ELSE IF set = 1 \/ rel = 1 THEN Abort(s)
    ELSE Memo(s, Key("relprod", p_id, set, rel),
              Then(Keep(IF Head(proj) = idx
                        THEN apply_rel_prod(s, 0, p_id, set, rel, idx, proj)
                        ELSE copy_level_sat(s, 0, p_id, set, rel, idx, proj)),
                   LAMBDA t : mdd_pop(saturate(t, idx, t.ret))))

\* meet: the nodes of set and rel that hold the same value; new_res, the node of the
\* result so far with that value, is not protected while the inner loop runs.
RECURSIVE apply_rel_fixpoint(_, _, _, _, _, _, _)
Fixpoint(s, res, p_id, meet, new_res, idx, proj) ==
    IF ~At(s, new_res, Val(s, meet[2])) THEN Abort(s)
    ELSE Then(ProdList(s, res, p_id, new_res, Down(s, meet[2]), idx, proj),
              LAMBDA t : apply_rel_fixpoint(t, t.ret, p_id, Right(t, meet[1]), Right(t, meet[2]), idx, proj))
FixpointAt(s, res, p_id, meet, idx, proj) ==
    IF meet[1] = 0 THEN Ret(s, res)
    ELSE Fixpoint(s, res, p_id, meet, Seek(s, res, Val(s, meet[2])), idx, proj)
apply_rel_fixpoint(s, res, p_id, set, rel, idx, proj) ==
    FixpointAt(s, res, p_id, Meet(s, set, rel), idx, proj)

\* The vectors of a node.
RECURSIVE Vectors(_, _)
Vectors(node, x) ==
    IF x = 0 THEN {} ELSE IF x = 1 THEN {<<>>}
    ELSE {<<node[x].val>> \o v : v \in Vectors(node, node[x].down)} \cup Vectors(node, node[x].right)

rel_add(s, g, src, dst) ==
    Then(mdd_put(s, s.rel[g].mdd, FlattenSeq(Interleave(src, dst))),
         LAMBDA t : [t EXCEPT !.rel[g].mdd = t.ret])

\* The client's expand callback, with x protected as proj_set[g]: it adds the
\* transitions of the short vectors of x.  (A client may leave out those it added
\* before; adding them again changes nothing.)
RECURSIVE AddAll(_, _, _)
AddAll(s, g, new) ==
    IF new = <<>> THEN s
    ELSE Then(rel_add(s, g, Head(new)[1], Head(new)[2]), LAMBDA t : AddAll(t, g, Tail(new)))

expand(s, g, x) ==
    mdd_pop(AddAll(mdd_push(s, x), g, SelectSeq(Trans[g], LAMBDA t : t[1] \in Vectors(s.node, x))))

\* One round over the groups gs whose topmost level is this one.
RECURSIVE SatGroups(_, _, _, _)
SatGroup(s, level, g, set) ==
    Then(Then(mdd_project(mdd_push(s, set), s.rel[g].p_id, set, level, RelProj[g]),
              LAMBDA t : expand(t, g, t.ret)),
         LAMBDA u : mdd_pop(apply_rel_fixpoint(u, set, u.rel[g].p_id, set, u.rel[g].mdd, level, RelProj[g])))
SatGroups(s, level, gs, set) ==
    IF gs = <<>> THEN Ret(s, set)
    ELSE Then(SatGroup(s, level, Head(gs), set), LAMBDA w : SatGroups(w, level, Tail(gs), w.ret))

TopGroups(level) == SelectSeq([g \in DOMAIN RelProj |-> g], LAMBDA g : RelProj[g][1] = level)

RECURSIVE sat_fixpoint(_, _, _, _)
sat_fixpoint(s, level, old, new) ==
    IF new = old THEN Ret(s, new)
    ELSE IF new = 1 THEN Abort(s)
    ELSE Then(SatGroups(mdd_push(s, new), level, TopGroups(level), new),
              LAMBDA t : sat_fixpoint(mdd_pop(t), level, new, t.ret))

RECURSIVE SatList(_, _, _, _)
SatList(s, res, idx, x) ==
    IF x <= 1 THEN Ret(s, res)
    ELSE Then(Then(saturate(mdd_push(s, res), idx + 1, Down(s, x)),
                   LAMBDA t : JoinNode(t, res, Val(t, x))),
              LAMBDA u : SatList(u, u.ret, idx, Right(u, x)))

saturate(s, idx, x) ==
    IF x <= 1 THEN Ret(s, x)
    ELSE Memo(s, Key("sat", 0, x, s.rels_tot),
              Then(Keep(SatList(s, 0, idx, x)), LAMBDA t : mdd_pop(sat_fixpoint(t, idx, 0, t.ret))))

--------------------------------------------------------------------------------
(* The operations of the vset interface, one action each.  Clients keep to two    *)
(* rules that the package needs and does not check.  The number of a projection   *)
(* list is part of the keys of cached results, but a collection does not ask      *)
(* whether that list is still in use (case OP_PROJECT of mdd_collect, and the     *)
(* number in the op word): the last set with a projection is not destroyed, and   *)
(* copy_match gets a projection that a set or a relation holds.  The results of   *)
(* sat_rel_prod are saturated, but the other relations are not part of their      *)
(* keys: nothing is added to a relation after a fixpoint (m.fixed), except by its *)
(* expand callback.                                                               *)

\* The memory when the sets have been given their new values.
Assigned(s, x, res) == [s EXCEPT !.set[x].mdd = res, !.ret = 0]

\* The list of a projection as a node: p_id.
RECURSIVE ProjNode(_, _)
ProjNode(s, proj) ==
    IF proj = <<>> THEN Ret(s, 1)
    ELSE Then(ProjNode(s, Tail(proj)), LAMBDA t : mdd_create_node(t, Head(proj), t.ret, 0))

set_create(s, x, proj) ==
    Then(IF proj = All THEN Ret(s, 1) ELSE ProjNode(s, proj),
         LAMBDA t : [t EXCEPT !.set = (x :> [mdd |-> 0, p_id |-> t.ret, proj |-> proj]) @@ @, !.ret = 0])

set_destroy(s, x) == [s EXCEPT !.set = [y \in DOMAIN @ \ {x} |-> @[y]]]

\* dst->mdd = <the result just computed>
Result(t, x) == Assigned(t, x, t.ret)

set_add(s, x, vec) == Result(mdd_put(s, s.set[x].mdd, vec), x)

set_union(s, x, y) == Result(mdd_union(s, s.set[x].mdd, s.set[y].mdd), x)

set_minus(s, x, y) == Result(mdd_minus(s, s.set[x].mdd, s.set[y].mdd), x)

set_intersect(s, x, y) == Result(mdd_intersect(s, s.set[x].mdd, s.set[y].mdd), x)

\* The matching vectors of set y, with the pattern and the projection on the stack.
MatchOnStack(s, y, proj, match) ==
    Then(Keep(mdd_put(s, 0, match)),
         LAMBDA single : Then(Keep(mdd_put(single, 0, proj)),
                              LAMBDA p : mdd_copy_match(p, p.ret, p.set[y].mdd, single.ret, 0, proj)))
set_copy_match(s, x, y, proj, match) == Result(mdd_pop(mdd_pop(MatchOnStack(s, y, proj, match))), x)

set_project(s, x, y) ==
    IF s.set[y].proj # All \/ s.set[x].proj = All THEN Assigned(s, x, s.set[y].mdd)
    ELSE Then(Assigned(s, x, 0),
              LAMBDA c : Result(mdd_project(c, c.set[x].p_id, c.set[y].mdd, 0, c.set[x].proj), x))

set_next(s, x, y, g) ==
    Result(mdd_next(s, s.rel[g].p_id, s.set[y].mdd, s.rel[g].mdd, 0, RelProj[g]), x)

\* Mutant: the predecessors are not restricted to the universe.
set_prevAll(s, x, y, g, univ) ==
    Result(mdd_prev(s, s.rel[g].p_id, s.set[y].mdd, s.rel[g].mdd, 0, RelProj[g]), x)
set_prev(s, x, y, g, univ) ==
    set_intersect(Result(mdd_prev(s, s.rel[g].p_id, s.set[y].mdd, s.rel[g].mdd, 0, RelProj[g]), x), x, univ)

\* The list of relations; its node is part of the key of every saturation result.
RelsTot(s) ==
    FoldLeft(LAMBDA q, g : mdd_create_node(q, Len(RelProj) - g + 1, s.rel[g].mdd, q.ret),
             Ret(s, 0), [g \in DOMAIN RelProj |-> g])

set_least_fixpoint(s, x, y) ==
    Then(Keep(RelsTot(s)),
         LAMBDA tot : mdd_pop([Result(saturate([tot EXCEPT !.rels_tot = tot.ret], 0, tot.set[y].mdd), x)
                               EXCEPT !.rels_tot = 0, !.fixed = TRUE]))

Exists(S) == S \subseteq DOMAIN m.set
Same(x, y) == Exists({x, y}) /\ m.set[x].p_id = m.set[y].p_id
Full(S) == Exists(S) /\ \A x \in S : m.set[x].proj = All
\* A set of S or a relation has the projection proj, so that its nodes are not freed.
Held(proj, S) == proj \in Range(RelProj) \cup {m.set[x].proj : x \in S}

VsetCreate(c) == c.op = "create" /\ ~Exists({c.dst}) /\ m' = set_create(m, c.dst, c.proj)
VsetDestroy(c) ==
    /\ c.op = "destroy" /\ Exists({c.dst})
    /\ m.set[c.dst].proj = All \/ Held(m.set[c.dst].proj, DOMAIN m.set \ {c.dst})
    /\ m' = set_destroy(m, c.dst)
VsetAdd(c) == c.op = "add" /\ Exists({c.dst}) /\ m' = set_add(m, c.dst, c.vec)
VsetClear(c) == c.op = "clear" /\ Exists({c.dst}) /\ m' = Assigned(m, c.dst, 0)
VsetCopy(c) == c.op = "copy" /\ Same(c.dst, c.src) /\ m' = Assigned(m, c.dst, m.set[c.src].mdd)
VsetCount(c) == c.op = "count" /\ Exists({c.dst}) /\ m' = mdd_count(m, m.set[c.dst].mdd)
VsetUnion(c) == c.op = "union" /\ Same(c.dst, c.src) /\ m' = set_union(m, c.dst, c.src)
VsetMinus(c) == c.op = "minus" /\ Same(c.dst, c.src) /\ m' = set_minus(m, c.dst, c.src)
VsetIntersect(c) == c.op = "intersect" /\ Same(c.dst, c.src) /\ m' = set_intersect(m, c.dst, c.src)
VsetCopyMatch(c) ==
    /\ c.op = "match" /\ Full({c.dst, c.src}) /\ Held(c.proj, DOMAIN m.set)
    /\ m' = set_copy_match(m, c.dst, c.src, c.proj, c.vec)
VsetProject(c) == c.op = "project" /\ Exists({c.dst, c.src}) /\ m' = set_project(m, c.dst, c.src)
VsetNext(c) == c.op = "next" /\ Full({c.dst, c.src}) /\ m' = set_next(m, c.dst, c.src, c.arg)
VsetPrev(c) ==
    c.op = "prev" /\ Full({c.dst, c.src, c.univ}) /\ m' = set_prev(m, c.dst, c.src, c.arg, c.univ)
VsetLeastFixpoint(c) == c.op = "least" /\ Full({c.dst, c.src}) /\ m' = set_least_fixpoint(m, c.dst, c.src)
VrelAdd(c) == c.op = "relate" /\ ~m.fixed /\ m' = Ret(rel_add(m, c.arg, c.src, c.dst), 0)

Call(c) ==
    \/ VsetCreate(c)
    \/ VsetDestroy(c)
    \/ VsetAdd(c)
    \/ VsetClear(c)
    \/ VsetCopy(c)
    \/ VsetCount(c)
    \/ VsetUnion(c)
    \/ VsetMinus(c)
    \/ VsetIntersect(c)
    \/ VsetCopyMatch(c)
    \/ VsetProject(c)
    \/ VsetNext(c)
    \/ VsetPrev(c)
    \/ VsetLeastFixpoint(c)
    \/ VrelAdd(c)

\* vdom_create_list_native and the relations, which a client creates at the start.
Empty(low) ==
    [node |-> [x \in 0..(fib[NodesFib] - 1) |-> Blank],
     free |-> [i \in 1..(fib[NodesFib] - 2) |-> i + 1],
     uniq |-> [i \in 1..fib[NodesFib + 1] |-> <<>>],
     cache |-> [i \in 1..fib[NodesFib + CacheFib] |-> Unused],
     fib |-> NodesFib, stack |-> <<>>, set |-> <<>>, rel |-> <<>>,
     rels_tot |-> 0, fixed |-> FALSE, low |-> low, ret |-> 0, at |-> <<0, 0>>, aborted |-> FALSE]

rel_create(s, g) ==
    Then(ProjNode(s, RelProj[g]), LAMBDA t : [t EXCEPT !.rel = Append(@, [mdd |-> 0, p_id |-> t.ret])])

NoCall == [op |-> "none"]

Init ==
    /\ \E low \in SUBSET {0, 1} :
          m = FoldLeft(rel_create, Empty(low), [i \in 1..Len(RelProj) |-> i])
    /\ todo \in Openings /\ left = Budget /\ last = NoCall

Prefix ==
    /\ todo # <<>> /\ ~m.aborted
    /\ Call(Head(todo))
    /\ last' = Head(todo) /\ todo' = Tail(todo) /\ UNCHANGED left

Go ==
    /\ todo = <<>> /\ left > 0 /\ ~m.aborted
    /\ \E c \in Calls : Call(c) /\ last' = c
    /\ left' = left - 1 /\ UNCHANGED todo

Next == Prefix \/ Go

Spec == Init /\ [][Next]_vars
--------------------------------------------------------------------------------
(* Properties.                                                                   *)

Ids == 2..(fib[m.fib] - 1)
Allocated == Ids \ Range(m.free)

\* mdd_collect and mdd_create_node keep the tables consistent: every node is either
\* free or in the one unique-table bucket its contents hash to, never both and never
\* twice; the children of a used node and the roots of registered sets are in use;
\* lists are strictly ordered; and after a call nothing is left on the protection stack
\* and no Abort() of the package was reached ("bad order", "missing case").
TablesConsistent ==
    LET chained == FlattenSeq(m.uniq)
    IN  /\ IsInjective(m.free \o chained)
        /\ Range(m.free \o chained) = Ids
        /\ \A i \in DOMAIN m.uniq : \A x \in Range(m.uniq[i]) :
               NodeSlot(m.node, x, Len(m.uniq)) = i
        /\ Roots(m) \cap Range(m.free) = {}
        /\ \A x \in Allocated :
               /\ {Down(m, x), Right(m, x)} \cap Range(m.free) = {}
               /\ Down(m, x) # 0
               /\ Right(m, x) > 1 => Val(m, x) < Val(m, Right(m, x))
        /\ m.stack = <<>> /\ m.rels_tot = 0 /\ ~m.aborted

\* Diagrams are canonical, collections and growth included: two nodes in use that hold
\* the same vectors are one node.  set_equal_mdd, which compares node numbers, and the
\* fixpoint tests built on it rest on this.
Canonical ==
    \A x \in Allocated : \A y \in Allocated :
        Vectors(m.node, x) = Vectors(m.node, y) => x = y

\* The vectors of a node, and how many levels of the domain lie above it.
Vec(x) == Vectors(m.node, x)
LevelOf(x) == N - Len(CHOOSE v \in Vec(x) : TRUE)
\* The projection a node p stands for, relative to the level of node x.
Relative(p, x) == LET v == CHOOSE v \in Vec(p) : TRUE IN [i \in 1..Len(v) |-> v[i] - LevelOf(x)]
AsPairs(V) == {<<[i \in 1..(Len(v) \div 2) |-> v[2 * i - 1]], [i \in 1..(Len(v) \div 2) |-> v[2 * i]]>> : v \in V}
PairsOf(x) == AsPairs(Vec(x))
\* The relations in a list of relations tot, and those of this moment.
RelsOf(tot) ==
    [g \in DOMAIN RelProj |-> AsPairs({Tail(v) : v \in {w \in Vec(tot) : Head(w) = Len(RelProj) - g + 1}})]
RelsNow == [g \in DOMAIN RelProj |-> PairsOf(m.rel[g].mdd)]

VS == INSTANCE VectorSet WITH
          value <- [x \in DOMAIN m.set |-> Vectors(m.node, m.set[x].mdd)],
          shape <- [x \in DOMAIN m.set |-> m.set[x].proj],
          call <- last,
          pairs <- [g \in DOMAIN m.rel |-> PairsOf(m.rel[g].mdd)],
          Trans <- [g \in DOMAIN Trans |-> Range(Trans[g])],
          Calls <- Calls \cup UNION {Range(p) : p \in Openings}

\* The smallest superset of S, a set of vectors from a level on, that is closed under
\* those of the relations R, with what their callbacks know, that start there or below.
RECURSIVE ClosedFrom(_, _, _)
ClosedFrom(level, S, R) ==
    LET below(g) == [i \in DOMAIN RelProj[g] |-> RelProj[g][i] - level]
        T == S \cup UNION {VS!Image(S, below(g), R[g] \cup Range(Trans[g])) :
                             g \in {h \in DOMAIN R : RelProj[h][1] >= level}}
    IN  IF T = S THEN S ELSE ClosedFrom(level, T, R)

\* What an entry of the operation cache claims.  (mdd_prev may store its result under
\* the node 0 or 1, which it never looks up.)
Claim(e) ==
    CASE e.op = "union"     -> Vec(e.res) = Vec(e.a) \cup Vec(e.b)
      [] e.op = "minus"     -> Vec(e.res) = Vec(e.a) \ Vec(e.b)
      [] e.op = "intersect" -> Vec(e.res) = Vec(e.a) \cap Vec(e.b)
      [] e.op = "count"     -> e.res = Cardinality(Vec(e.a))
      [] e.op = "project"   -> Vec(e.res) = {VS!Projected(v, Relative(e.b, e.a)) : v \in Vec(e.a)}
      [] e.op = "match"     -> Vec(e.res) = {v \in Vec(e.a) : VS!Projected(v, Relative(e.p, e.a)) \in Vec(e.b)}
      [] e.op = "next"      -> Vec(e.res) = VS!Image(Vec(e.a), Relative(e.p, e.a), PairsOf(e.b))
      [] e.op = "prev"      -> {e.a, e.b} \cap {0, 1} # {}
                               \/ Vec(e.res) = VS!PreImage(Vec(e.a), Relative(e.p, e.a), PairsOf(e.b))
      [] e.op = "relprod"   -> Vec(e.res) = ClosedFrom(LevelOf(e.a),
                                                VS!Image(Vec(e.a), Relative(e.p, e.a), PairsOf(e.b)), RelsNow)
      [] e.op = "sat"       -> Vec(e.res) = ClosedFrom(LevelOf(e.a), Vec(e.a), RelsOf(e.b))

\* Whatever a collection keeps or rehashes and later allocations do to the numbers it
\* mentions, every entry of the operation cache that a lookup can find names nodes in
\* use and tells the truth about them: the result of a set operation, of a projection,
\* a match, an image or a preimage; for saturate the closure under the relations in its
\* key, and for sat_rel_prod the closure of the image.  So set_count_mdd returns the
\* number of vectors.  (It rests on the two rules the clients keep to.)
CacheSound ==
    /\ \A i \in DOMAIN m.cache :
          LET e == m.cache[i]
          IN  e.op # "unused" /\ Slot(m, e) = i =>
                 /\ {e.a, e.b} \cap Range(m.free) = {}
                 /\ Claim(e)
    /\ last.op = "count" => m.ret = Cardinality(Vec(m.set[last.dst].mdd))

\* vset_least_fixpoint leaves the smallest set that holds src and is closed under the
\* relations, its source untouched (apply_rel_fixpoint and its callers; dst # src).
LeastExact ==
    last.op = "least" =>
        /\ ~m.aborted
        /\ Vec(m.set[last.dst].mdd)
              = VS!Closure(Vec(m.set[last.src].mdd), [g \in DOMAIN Trans |-> Range(Trans[g])])

\* The package implements the contract of vector_set.h: every operation leaves exactly
\* the set, and the relations, that the contract names, and nothing else changes.
IsVectorSet == VS!ASpec
================================================================================
