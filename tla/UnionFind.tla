----------------------------- MODULE UnionFind ------------------------------
(***************************************************************************)
(* The concurrent union-find structure of the SCC algorithms               *)
(* (mc-lib/unionfind.c): a forest with path halving, a cyclic list of the  *)
(* members of each set, and for each set the workers that claimed it, its  *)
(* acceptance marks and its status.  An operation runs as a sequence of    *)
(* steps, one per access to the shared array; a spinning loop is a step    *)
(* that is not enabled until the loop can go on.                           *)
(*                                                                         *)
(* The module has no clients: UFClient lets threads call any operation,    *)
(* UFSCC runs the SCC algorithm.  States are numbered from 1; 0 is no      *)
(* state, as in the code.                                                  *)
(***************************************************************************)
EXTENDS Integers, FiniteSets

CONSTANTS
    N,       \* number of states in the array
    Thread,  \* the workers
    Mark     \* the acceptance marks

ASSUME NAssumption == N \in Nat \ {0}
ASSUME ThreadAssumption == IsFiniteSet(Thread)

State == 1 .. N

VARIABLES
    parent,      \* array[s].parent, 0 at a root
    uf_status,   \* array[s].uf_status
    list_status, \* array[s].list_status
    list_next,   \* array[s].list_next, 0 for a singleton
    p_set,       \* array[s].p_set, a set of workers
    acc_set,     \* array[s].acc_set, a set of marks
    pc,          \* where in an operation the thread is
    loc          \* the local variables of that operation

forest == <<parent, uf_status>>
lists == <<list_status, list_next>>
sets == <<p_set, acc_set>>
ufvars == <<forest, lists, sets, pc, loc>>

\* The local variables.  a and b are the arguments; x and y are those of
\* uf_find, f its result and fret the place it returns to; a_r, r, q, a_l and
\* b_l are those of uf_union; pa, pb and pn are a, b and c of
\* uf_pick_from_list and pret the place it returns to; bits is the set of
\* workers or marks to add, seen one read earlier; first is orig_pset == 0.
\* Results: v of a Boolean operation, code of uf_make_claim and
\* uf_pick_from_list, ret the state found or picked, bits the marks.
Ref == 0 .. N
Bits == SUBSET (Thread \cup Mark)
Code == {"", "CLAIM_FIRST", "CLAIM_FOUND", "CLAIM_SUCCESS", "CLAIM_DEAD",
         "PICK_SUCCESS", "PICK_DEAD", "PICK_MARK_DEAD"}
FindReturn == {"", "got", "same_a", "same_b", "union_a", "union_b",
               "union_acc", "union_set", "claim", "claim_set", "acc", "dead",
               "dead_check"}
PickReturn == {"", "picked", "union_list_a", "union_list_b"}
Label == (FindReturn \cup PickReturn \cup
    {"ready", "find", "find_y", "find_write", "same_check",
     "union_lock", "union_root", "union_retry", "union_cas_a", "union_cas_b",
     "union_unlist", "union_fail", "union_swap", "union_link",
     "union_acc_r", "union_acc_q", "union_or_acc", "union_up_acc",
     "union_set_q", "union_set_r", "union_or_set", "union_up_set",
     "union_unlist_a", "union_unlist_b", "union_unlock",
     "claim_found", "claim_or", "claim_up", "acc_or", "acc_up",
     "pick_a", "pick_next", "pick_b", "pick_c", "pick_write", "dead_cas",
     "dead_root", "remove", "remove_cas"}) \ {""}

Local == [a : Ref, b : Ref, x : Ref, y : Ref, f : Ref, fret : FindReturn,
          a_r : Ref, r : Ref, q : Ref, a_l : Ref, b_l : Ref,
          pa : Ref, pb : Ref, pn : Ref, pret : PickReturn, bits : Bits,
          seen : Bits, first : BOOLEAN, v : BOOLEAN, code : Code, ret : Ref]

NoLocal == [a |-> 0, b |-> 0, x |-> 0, y |-> 0, f |-> 0, fret |-> "",
            a_r |-> 0, r |-> 0, q |-> 0, a_l |-> 0, b_l |-> 0,
            pa |-> 0, pb |-> 0, pn |-> 0, pret |-> "", bits |-> {},
            seen |-> {}, first |-> FALSE, v |-> FALSE, code |-> "", ret |-> 0]

\* uf_create: an array of zeros.
UFInit ==
    /\ parent = [s \in State |-> 0]
    /\ uf_status = [s \in State |-> "UF_LIVE"]
    /\ list_status = [s \in State |-> "LIST_LIVE"]
    /\ list_next = [s \in State |-> 0]
    /\ p_set = [s \in State |-> {}]
    /\ acc_set = [s \in State |-> {}]
    /\ pc = [t \in Thread |-> "ready"]
    /\ loc = [t \in Thread |-> NoLocal]

\* The root above s.
Root[s \in State] == IF parent[s] = 0 THEN s ELSE Root[parent[s]]

SameSet(s, u) == Root[s] = Root[u]
SetOf(s) == {u \in State : SameSet(s, u)}

Goto(t, l) == pc' = [pc EXCEPT ![t] = l]
Assign(t, locals) == loc' = [loc EXCEPT ![t] = locals]

\* Call uf_find(s) and continue at l.
Find(t, s, l) ==
    /\ Assign(t, [loc[t] EXCEPT !.x = s, !.fret = l])
    /\ Goto(t, "find")

\* Call uf_pick_from_list(s) and continue at l.
Pick(t, s, l) ==
    /\ Assign(t, [loc[t] EXCEPT !.pa = s, !.pret = l])
    /\ Goto(t, "pick_a")

\* The operation returns; its local variables are gone, but for the results.
Return(t, result) ==
    /\ Assign(t, result)
    /\ Goto(t, "ready")

ReturnBool(t, value) == Return(t, [NoLocal EXCEPT !.v = value])
ReturnCode(t, c, s) == Return(t, [NoLocal EXCEPT !.code = c, !.ret = s])
ReturnBits(t, m) == Return(t, [NoLocal EXCEPT !.bits = m])

-----------------------------------------------------------------------------
(* The calls                                                               *)

Enter(t, locals, l) ==
    /\ pc[t] = "ready"
    /\ Assign(t, locals)
    /\ Goto(t, l)
    /\ UNCHANGED <<forest, lists, sets>>

uf_find(t, s) ==
    Enter(t, [NoLocal EXCEPT !.a = s, !.x = s, !.fret = "got"], "find")

uf_sameset(t, a, b) ==
    Enter(t, [NoLocal EXCEPT !.a = a, !.b = b, !.x = a, !.fret = "same_a"],
          "find")

uf_union(t, a, b) ==
    IF a = b
    THEN Enter(t, [NoLocal EXCEPT !.v = TRUE], "ready")
    ELSE Enter(t, [NoLocal EXCEPT !.a = a, !.b = b, !.x = a,
                                  !.fret = "union_a"], "find")

uf_make_claim(t, s) ==
    Enter(t, [NoLocal EXCEPT !.a = s, !.x = s, !.fret = "claim"], "find")

\* With no marks to add this is uf_get_acc.
uf_add_acc(t, s, acc) ==
    Enter(t, [NoLocal EXCEPT !.a = s, !.bits = acc, !.x = s, !.fret = "acc"],
          "find")

uf_pick_from_list(t, s) ==
    Enter(t, [NoLocal EXCEPT !.pa = s, !.pret = "picked"], "pick_a")

uf_remove_from_list(t, s) == Enter(t, [NoLocal EXCEPT !.a = s], "remove")

-----------------------------------------------------------------------------
(* uf_find                                                                 *)

FindResult(t, s) ==
    /\ Assign(t, [loc[t] EXCEPT !.f = s, !.x = 0, !.y = 0, !.fret = ""])
    /\ Goto(t, loc[t].fret)

FindX(t) ==
    /\ pc[t] = "find"
    /\ IF parent[loc[t].x] = 0
       THEN FindResult(t, loc[t].x)
       ELSE /\ Assign(t, [loc[t] EXCEPT !.y = parent[loc[t].x]])
            /\ Goto(t, "find_y")
    /\ UNCHANGED <<forest, lists, sets>>

\* Mutant: the test for the root is forgotten.
FindYBlind(t) ==
    /\ pc[t] = "find_y"
    /\ Assign(t, [loc[t] EXCEPT !.y = parent[loc[t].y]])
    /\ Goto(t, "find_write")
    /\ UNCHANGED <<forest, lists, sets>>

FindY(t) ==
    /\ pc[t] = "find_y"
    /\ IF parent[loc[t].y] = 0
       THEN FindResult(t, loc[t].y)
       ELSE /\ Assign(t, [loc[t] EXCEPT !.y = parent[loc[t].y]])
            /\ Goto(t, "find_write")
    /\ UNCHANGED <<forest, lists, sets>>

\* The plain write of the path halving: x skips its parent.
FindWrite(t) ==
    /\ pc[t] = "find_write"
    /\ parent' = [parent EXCEPT ![loc[t].x] = loc[t].y]
    /\ Assign(t, [loc[t] EXCEPT !.x = loc[t].y, !.y = 0])
    /\ Goto(t, "find")
    /\ UNCHANGED <<uf_status, lists, sets>>

Got(t) ==
    /\ pc[t] = "got"
    /\ ReturnCode(t, "", loc[t].f)
    /\ UNCHANGED <<forest, lists, sets>>

-----------------------------------------------------------------------------
(* uf_sameset                                                              *)

SameA(t) ==
    /\ pc[t] = "same_a"
    /\ Assign(t, [loc[t] EXCEPT !.a_r = loc[t].f, !.x = loc[t].b,
                                !.fret = "same_b"])
    /\ Goto(t, "find")
    /\ UNCHANGED <<forest, lists, sets>>

SameB(t) ==
    /\ pc[t] = "same_b"
    /\ IF loc[t].a_r = loc[t].f
       THEN ReturnBool(t, TRUE)
       ELSE Goto(t, "same_check") /\ UNCHANGED loc
    /\ UNCHANGED <<forest, lists, sets>>

\* Mutant: the answer does not wonder whether a_r is still a root.
SameCheckNever(t) ==
    /\ pc[t] = "same_check"
    /\ ReturnBool(t, FALSE)
    /\ UNCHANGED <<forest, lists, sets>>

SameCheck(t) ==
    /\ pc[t] = "same_check"
    /\ IF parent[loc[t].a_r] = 0
       THEN ReturnBool(t, FALSE)
       ELSE /\ Assign(t, [loc[t] EXCEPT !.a = loc[t].a_r, !.b = loc[t].f,
                                        !.x = loc[t].a_r, !.fret = "same_a"])
            /\ Goto(t, "find")
    /\ UNCHANGED <<forest, lists, sets>>

-----------------------------------------------------------------------------
(* uf_pick_from_list and uf_mark_dead                                      *)

PickResult(t, c, s) ==
    /\ Assign(t, [loc[t] EXCEPT !.code = c, !.ret = s, !.pa = 0,
                                !.pb = 0, !.pn = 0, !.pret = "",
                                !.v = FALSE])
    /\ Goto(t, loc[t].pret)

\* Wait while a is locked.
PickA(t) ==
    /\ pc[t] = "pick_a"
    /\ list_status[loc[t].pa] # "LIST_LOCK"
    /\ IF list_status[loc[t].pa] = "LIST_LIVE"
       THEN PickResult(t, "PICK_SUCCESS", loc[t].pa)
       ELSE Goto(t, "pick_next") /\ UNCHANGED loc
    /\ UNCHANGED <<forest, lists, sets>>

\* A removed state that is its own successor: the whole set is removed.
PickNext(t) ==
    /\ pc[t] = "pick_next"
    /\ LET b == list_next[loc[t].pa]
       IN  IF b = loc[t].pa \/ b = 0
           THEN Find(t, loc[t].pa, "dead")
           ELSE Assign(t, [loc[t] EXCEPT !.pb = b]) /\ Goto(t, "pick_b")
    /\ UNCHANGED <<forest, lists, sets>>

\* Mutant: a locked state is taken to be removed.
PickBNoWait(t) ==
    /\ pc[t] = "pick_b"
    /\ IF list_status[loc[t].pb] = "LIST_LIVE"
       THEN PickResult(t, "PICK_SUCCESS", loc[t].pb)
       ELSE Goto(t, "pick_c") /\ UNCHANGED loc
    /\ UNCHANGED <<forest, lists, sets>>

PickB(t) ==
    /\ pc[t] = "pick_b"
    /\ list_status[loc[t].pb] # "LIST_LOCK"
    /\ IF list_status[loc[t].pb] = "LIST_LIVE"
       THEN PickResult(t, "PICK_SUCCESS", loc[t].pb)
       ELSE Goto(t, "pick_c") /\ UNCHANGED loc
    /\ UNCHANGED <<forest, lists, sets>>

PickC(t) ==
    /\ pc[t] = "pick_c"
    /\ Assign(t, [loc[t] EXCEPT !.pn = list_next[loc[t].pb]])
    /\ Goto(t, "pick_write")
    /\ UNCHANGED <<forest, lists, sets>>

\* The plain write that makes the list shorter.
PickWrite(t) ==
    /\ pc[t] = "pick_write"
    /\ list_next' = [list_next EXCEPT ![loc[t].pa] = loc[t].pn]
    /\ Assign(t, [loc[t] EXCEPT !.pa = loc[t].pn, !.pb = 0, !.pn = 0])
    /\ Goto(t, "pick_a")
    /\ UNCHANGED <<forest, list_status, sets>>

\* uf_mark_dead waits while the representative is locked.
MarkDead(t) ==
    /\ pc[t] = "dead"
    /\ uf_status[loc[t].f] # "UF_LOCK"
    /\ Goto(t, IF uf_status[loc[t].f] = "UF_DEAD" THEN "dead_root"
               ELSE "dead_cas")
    /\ UNCHANGED <<forest, lists, sets, loc>>

MarkDeadCas(t) ==
    /\ pc[t] = "dead_cas"
    /\ LET live == uf_status[loc[t].f] = "UF_LIVE"
       IN  /\ uf_status' = IF live THEN [uf_status EXCEPT ![loc[t].f] = "UF_DEAD"]
                           ELSE uf_status
           /\ Assign(t, [loc[t] EXCEPT !.v = live])
    /\ Goto(t, "dead")
    /\ UNCHANGED <<parent, lists, sets>>

\* The assertions at the end: f is a root, and uf_is_dead(state).
MarkDeadRoot(t) ==
    /\ pc[t] = "dead_root"
    /\ Find(t, loc[t].pa, "dead_check")
    /\ UNCHANGED <<forest, lists, sets>>

MarkDeadCheck(t) ==
    /\ pc[t] = "dead_check"
    /\ PickResult(t, IF loc[t].v THEN "PICK_MARK_DEAD" ELSE "PICK_DEAD", 0)
    /\ UNCHANGED <<forest, lists, sets>>

Picked(t) ==
    /\ pc[t] = "picked"
    /\ ReturnCode(t, loc[t].code, loc[t].ret)
    /\ UNCHANGED <<forest, lists, sets>>

-----------------------------------------------------------------------------
(* uf_remove_from_list                                                     *)

\* Wait while the entry is locked.
RemoveRead(t) ==
    /\ pc[t] = "remove"
    /\ list_status[loc[t].a] # "LIST_LOCK"
    /\ IF list_status[loc[t].a] = "LIST_LIVE"
       THEN Goto(t, "remove_cas") /\ UNCHANGED loc
       ELSE ReturnBool(t, FALSE)
    /\ UNCHANGED <<forest, lists, sets>>

RemoveCas(t) ==
    /\ pc[t] = "remove_cas"
    /\ IF list_status[loc[t].a] = "LIST_LIVE"
       THEN /\ list_status' = [list_status EXCEPT ![loc[t].a] = "LIST_TOMB"]
            /\ ReturnBool(t, TRUE)
       ELSE Goto(t, "remove") /\ UNCHANGED <<list_status, loc>>
    /\ UNCHANGED <<forest, list_next, sets>>

-----------------------------------------------------------------------------
(* uf_union                                                                *)

UnionA(t) ==
    /\ pc[t] = "union_a"
    /\ Assign(t, [loc[t] EXCEPT !.a_r = loc[t].f, !.x = loc[t].b,
                                !.fret = "union_b"])
    /\ Goto(t, "find")
    /\ UNCHANGED <<forest, lists, sets>>

\* Mutant: b's representative always goes below a's.
UnionBNoSwap(t) ==
    /\ pc[t] = "union_b"
    /\ IF loc[t].a_r = loc[t].f
       THEN ReturnBool(t, FALSE)
       ELSE /\ Assign(t, [loc[t] EXCEPT !.r = loc[t].a_r, !.q = loc[t].f])
            /\ Goto(t, "union_lock")
    /\ UNCHANGED <<forest, lists, sets>>

\* The representative with the highest number becomes the root.
UnionB(t) ==
    /\ pc[t] = "union_b"
    /\ LET a_r == loc[t].a_r
           b_r == loc[t].f
       IN  IF a_r = b_r
           THEN ReturnBool(t, FALSE)
           ELSE /\ Assign(t, [loc[t] EXCEPT
                               !.r = IF a_r < b_r THEN b_r ELSE a_r,
                               !.q = IF a_r < b_r THEN a_r ELSE b_r])
                /\ Goto(t, "union_lock")
    /\ UNCHANGED <<forest, lists, sets>>

\* uf_lock_uf: the cas (the read before it only saves work), then the check
\* that q is still a root.
UnionLock(t) ==
    /\ pc[t] = "union_lock"
    /\ IF uf_status[loc[t].q] = "UF_LIVE"
       THEN /\ uf_status' = [uf_status EXCEPT ![loc[t].q] = "UF_LOCK"]
            /\ Goto(t, "union_root")
            /\ UNCHANGED loc
       ELSE Find(t, loc[t].a, "union_a") /\ UNCHANGED uf_status
    /\ UNCHANGED <<parent, lists, sets>>

\* Mutant: q is not checked to be a root once it is locked.
UnionRootTrust(t) ==
    /\ pc[t] = "union_root"
    /\ Pick(t, loc[t].a, "union_list_a")
    /\ UNCHANGED <<forest, lists, sets>>

UnionRoot(t) ==
    /\ pc[t] = "union_root"
    /\ IF parent[loc[t].q] = 0
       THEN Pick(t, loc[t].a, "union_list_a")
       ELSE Goto(t, "union_retry") /\ UNCHANGED loc
    /\ UNCHANGED <<forest, lists, sets>>

UnionRetry(t) ==
    /\ pc[t] = "union_retry"
    /\ uf_status' = [uf_status EXCEPT ![loc[t].q] = "UF_LIVE"]
    /\ Find(t, loc[t].a, "union_a")
    /\ UNCHANGED <<parent, lists, sets>>

\* uf_lock_list(a): pick a listed state, lock it with a cas, or pick again.
UnionListA(t) ==
    /\ pc[t] = "union_list_a"
    /\ Goto(t, IF loc[t].code = "PICK_SUCCESS" THEN "union_cas_a"
               ELSE "union_fail")
    /\ UNCHANGED <<forest, lists, sets, loc>>

UnionCasA(t) ==
    /\ pc[t] = "union_cas_a"
    /\ LET l == loc[t].ret
       IN  IF list_status[l] = "LIST_LIVE"
           THEN /\ list_status' = [list_status EXCEPT ![l] = "LIST_LOCK"]
                /\ Assign(t, [loc[t] EXCEPT !.a_l = l, !.pa = loc[t].b,
                                            !.pret = "union_list_b"])
                /\ Goto(t, "pick_a")
           ELSE Pick(t, loc[t].a, "union_list_a") /\ UNCHANGED list_status
    /\ UNCHANGED <<forest, list_next, sets>>

UnionListB(t) ==
    /\ pc[t] = "union_list_b"
    /\ Goto(t, IF loc[t].code = "PICK_SUCCESS" THEN "union_cas_b"
               ELSE "union_unlist")
    /\ UNCHANGED <<forest, lists, sets, loc>>

UnionCasB(t) ==
    /\ pc[t] = "union_cas_b"
    /\ LET l == loc[t].ret
       IN  IF list_status[l] = "LIST_LIVE"
           THEN /\ list_status' = [list_status EXCEPT ![l] = "LIST_LOCK"]
                /\ Assign(t, [loc[t] EXCEPT !.b_l = l])
                /\ Goto(t, "union_swap")
           ELSE Pick(t, loc[t].b, "union_list_b") /\ UNCHANGED list_status
    /\ UNCHANGED <<forest, list_next, sets>>

\* A list turned out to be empty: give the locks back and do not unite.
UnionUnlist(t) ==
    /\ pc[t] = "union_unlist"
    /\ list_status' = [list_status EXCEPT ![loc[t].a_l] = "LIST_LIVE"]
    /\ Goto(t, "union_fail")
    /\ UNCHANGED <<forest, list_next, sets, loc>>

UnionFail(t) ==
    /\ pc[t] = "union_fail"
    /\ uf_status' = [uf_status EXCEPT ![loc[t].q] = "UF_LIVE"]
    /\ ReturnBool(t, FALSE)
    /\ UNCHANGED <<parent, lists, sets>>

\* Mutant: b's singleton is not treated as a list of one.
UnionSwapZero(t) ==
    /\ pc[t] = "union_swap"
    /\ LET a_l == loc[t].a_l
           b_l == loc[t].b_l
       IN  list_next' = [list_next EXCEPT
                           ![a_l] = list_next[b_l],
                           ![b_l] = IF list_next[a_l] = 0 THEN a_l
                                    ELSE list_next[a_l]]
    /\ Goto(t, "union_link")
    /\ UNCHANGED <<forest, list_status, sets, loc>>

\* Swap the successors of the two entries.  Both are locked, and list_next of
\* a locked entry is read and written by nobody else, so this is one step.
UnionSwap(t) ==
    /\ pc[t] = "union_swap"
    /\ LET a_l == loc[t].a_l
           b_l == loc[t].b_l
           After(s) == IF list_next[s] = 0 THEN s ELSE list_next[s]
       IN  list_next' = [list_next EXCEPT ![a_l] = After(b_l),
                                          ![b_l] = After(a_l)]
    /\ Goto(t, "union_link")
    /\ UNCHANGED <<forest, list_status, sets, loc>>

UnionLink(t) ==
    /\ pc[t] = "union_link"
    /\ parent' = [parent EXCEPT ![loc[t].q] = loc[t].r]
    /\ Goto(t, "union_acc_r")
    /\ UNCHANGED <<uf_status, lists, sets, loc>>

\* The marks of q go to r and, when r has got a parent, to its root.
UnionAccR(t) ==
    /\ pc[t] = "union_acc_r"
    /\ Assign(t, [loc[t] EXCEPT !.seen = acc_set[loc[t].r]])
    /\ Goto(t, "union_acc_q")
    /\ UNCHANGED <<forest, lists, sets>>

UnionAccQ(t) ==
    /\ pc[t] = "union_acc_q"
    /\ Assign(t, [loc[t] EXCEPT !.bits = acc_set[loc[t].q]])
    /\ Goto(t, IF acc_set[loc[t].q] \subseteq loc[t].seen
               THEN "union_set_q" ELSE "union_or_acc")
    /\ UNCHANGED <<forest, lists, sets>>

UnionOrAcc(t) ==
    /\ pc[t] = "union_or_acc"
    /\ acc_set' = [acc_set EXCEPT ![loc[t].r] = @ \cup loc[t].bits]
    /\ Goto(t, "union_up_acc")
    /\ UNCHANGED <<forest, lists, p_set, loc>>

\* Mutant: the marks are not passed on when r has got a parent.
UnionUpAccOnce(t) ==
    /\ pc[t] = "union_up_acc"
    /\ Goto(t, "union_set_q")
    /\ UNCHANGED <<forest, lists, sets, loc>>

UnionUpAcc(t) ==
    /\ pc[t] = "union_up_acc"
    /\ IF parent[loc[t].r] # 0
       THEN Find(t, loc[t].r, "union_acc")
       ELSE Goto(t, "union_set_q") /\ UNCHANGED loc
    /\ UNCHANGED <<forest, lists, sets>>

UnionAcc(t) ==
    /\ pc[t] = "union_acc"
    /\ Assign(t, [loc[t] EXCEPT !.r = loc[t].f])
    /\ acc_set' = [acc_set EXCEPT ![loc[t].f] = @ \cup loc[t].bits]
    /\ Goto(t, "union_up_acc")
    /\ UNCHANGED <<forest, lists, p_set>>

\* The same for the workers of q, with the two reads in the other order.
UnionSetQ(t) ==
    /\ pc[t] = "union_set_q"
    /\ Assign(t, [loc[t] EXCEPT !.bits = p_set[loc[t].q]])
    /\ Goto(t, "union_set_r")
    /\ UNCHANGED <<forest, lists, sets>>

UnionSetR(t) ==
    /\ pc[t] = "union_set_r"
    /\ Goto(t, IF loc[t].bits \subseteq p_set[loc[t].r]
               THEN "union_unlist_a" ELSE "union_or_set")
    /\ UNCHANGED <<forest, lists, sets, loc>>

UnionOrSet(t) ==
    /\ pc[t] = "union_or_set"
    /\ p_set' = [p_set EXCEPT ![loc[t].r] = @ \cup loc[t].bits]
    /\ Goto(t, "union_up_set")
    /\ UNCHANGED <<forest, lists, acc_set, loc>>

UnionUpSet(t) ==
    /\ pc[t] = "union_up_set"
    /\ IF parent[loc[t].r] # 0
       THEN Find(t, loc[t].r, "union_set")
       ELSE Goto(t, "union_unlist_a") /\ UNCHANGED loc
    /\ UNCHANGED <<forest, lists, sets>>

UnionSet(t) ==
    /\ pc[t] = "union_set"
    /\ Assign(t, [loc[t] EXCEPT !.r = loc[t].f])
    /\ p_set' = [p_set EXCEPT ![loc[t].f] = @ \cup loc[t].bits]
    /\ Goto(t, "union_up_set")
    /\ UNCHANGED <<forest, lists, acc_set>>

UnionUnlistA(t) ==
    /\ pc[t] = "union_unlist_a"
    /\ list_status' = [list_status EXCEPT ![loc[t].a_l] = "LIST_LIVE"]
    /\ Goto(t, "union_unlist_b")
    /\ UNCHANGED <<forest, list_next, sets, loc>>

UnionUnlistB(t) ==
    /\ pc[t] = "union_unlist_b"
    /\ list_status' = [list_status EXCEPT ![loc[t].b_l] = "LIST_LIVE"]
    /\ Goto(t, "union_unlock")
    /\ UNCHANGED <<forest, list_next, sets, loc>>

UnionUnlock(t) ==
    /\ pc[t] = "union_unlock"
    /\ uf_status' = [uf_status EXCEPT ![loc[t].q] = "UF_LIVE"]
    /\ ReturnBool(t, TRUE)
    /\ UNCHANGED <<parent, lists, sets>>

-----------------------------------------------------------------------------
(* uf_make_claim                                                           *)

Claim(t) ==
    /\ pc[t] = "claim"
    /\ IF uf_status[loc[t].f] = "UF_DEAD"
       THEN ReturnCode(t, "CLAIM_DEAD", 0)
       ELSE /\ Assign(t, [loc[t] EXCEPT !.r = loc[t].f])
            /\ Goto(t, "claim_found")
    /\ UNCHANGED <<forest, lists, sets>>

ClaimFound(t) ==
    /\ pc[t] = "claim_found"
    /\ IF t \in p_set[loc[t].r]
       THEN ReturnCode(t, "CLAIM_FOUND", 0)
       ELSE Goto(t, "claim_or") /\ UNCHANGED loc
    /\ UNCHANGED <<forest, lists, sets>>

ClaimOr(t) ==
    /\ pc[t] = "claim_or"
    /\ Assign(t, [loc[t] EXCEPT !.first = (p_set[loc[t].r] = {})])
    /\ p_set' = [p_set EXCEPT ![loc[t].r] = @ \cup {t}]
    /\ Goto(t, "claim_up")
    /\ UNCHANGED <<forest, lists, acc_set>>

ClaimUp(t) ==
    /\ pc[t] = "claim_up"
    /\ IF parent[loc[t].r] # 0
       THEN Find(t, loc[t].r, "claim_set")
       ELSE ReturnCode(t, IF loc[t].first THEN "CLAIM_FIRST"
                          ELSE "CLAIM_SUCCESS", 0)
    /\ UNCHANGED <<forest, lists, sets>>

ClaimSet(t) ==
    /\ pc[t] = "claim_set"
    /\ Assign(t, [loc[t] EXCEPT !.r = loc[t].f])
    /\ p_set' = [p_set EXCEPT ![loc[t].f] = @ \cup {t}]
    /\ Goto(t, "claim_up")
    /\ UNCHANGED <<forest, lists, acc_set>>

-----------------------------------------------------------------------------
(* uf_add_acc                                                              *)

Acc(t) ==
    /\ pc[t] = "acc"
    /\ IF loc[t].bits \subseteq acc_set[loc[t].f]
       THEN ReturnBits(t, acc_set[loc[t].f])
       ELSE Goto(t, "acc_or") /\ UNCHANGED loc
    /\ UNCHANGED <<forest, lists, sets>>

AccOr(t) ==
    /\ pc[t] = "acc_or"
    /\ acc_set' = [acc_set EXCEPT ![loc[t].f] = @ \cup loc[t].bits]
    /\ Assign(t, [loc[t] EXCEPT !.r = loc[t].f,
                                !.seen = acc_set'[loc[t].f]])
    /\ Goto(t, "acc_up")
    /\ UNCHANGED <<forest, lists, p_set>>

AccUp(t) ==
    /\ pc[t] = "acc_up"
    /\ IF parent[loc[t].r] # 0
       THEN Find(t, loc[t].a, "acc")
       ELSE ReturnBits(t, loc[t].seen)
    /\ UNCHANGED <<forest, lists, sets>>

-----------------------------------------------------------------------------
\* One step of the operation t is in.
UFStep(t) ==
    \/ FindX(t) \/ FindY(t) \/ FindWrite(t) \/ Got(t)
    \/ SameA(t) \/ SameB(t) \/ SameCheck(t)
    \/ PickA(t) \/ PickNext(t) \/ PickB(t) \/ PickC(t) \/ PickWrite(t)
    \/ MarkDead(t) \/ MarkDeadCas(t) \/ MarkDeadRoot(t) \/ MarkDeadCheck(t)
    \/ Picked(t) \/ RemoveRead(t) \/ RemoveCas(t)
    \/ UnionA(t) \/ UnionB(t) \/ UnionLock(t) \/ UnionRoot(t)
    \/ UnionRetry(t) \/ UnionListA(t) \/ UnionCasA(t) \/ UnionListB(t)
    \/ UnionCasB(t) \/ UnionUnlist(t) \/ UnionFail(t) \/ UnionSwap(t)
    \/ UnionLink(t) \/ UnionAccR(t) \/ UnionAccQ(t) \/ UnionOrAcc(t)
    \/ UnionUpAcc(t) \/ UnionAcc(t) \/ UnionSetQ(t) \/ UnionSetR(t)
    \/ UnionOrSet(t) \/ UnionUpSet(t) \/ UnionSet(t) \/ UnionUnlistA(t)
    \/ UnionUnlistB(t) \/ UnionUnlock(t)
    \/ Claim(t) \/ ClaimFound(t) \/ ClaimOr(t) \/ ClaimUp(t) \/ ClaimSet(t)
    \/ Acc(t) \/ AccOr(t) \/ AccUp(t)
=============================================================================
