------------------------------- MODULE ParityGame -------------------------------
(* Symbolic parity games (spg-lib): the attractors and the recursive solver.  A    *)
(* game g has the vertices g.v, those of each player, those of each priority       *)
(* between g.min and g.max, and the edges g.e of each transition group.  Player 0  *)
(* (or) wins when the least priority that occurs infinitely often is even; who     *)
(* cannot move loses.                                                              *)
EXTENDS Projections, FiniteSets, SequencesExt

\* vset_prev with the vertices as universe, and vset_next within the vertices.
PrevBy(g, i, S) == Then(S, LAMBDA T : {p[1] : p \in {q \in g.e[i] : q[2] \in T}} \cap g.v)
NextBy(g, i, S) == Then(S, LAMBDA T : {p[2] : p \in {q \in g.e[i] : q[1] \in T}} \cap g.v)
PrevAll(g, S) == Then(S, LAMBDA T : UNION {PrevBy(g, i, T) : i \in DOMAIN g.e})
NextAll(g, S) == Then(S, LAMBDA T : UNION {NextBy(g, i, T) : i \in DOMAIN g.e})

\* The vertices of prev from which the player forces the game into u.
ForcedAny(g, player, prev, u) == prev
Forced(g, player, prev, u) ==
    Then(prev, LAMBDA P :
        (P \cap g.player[player]) \cup ((P \ PrevAll(g, NextAll(g, P) \ u)) \cap g.player[1 - player]))

\* spg_attractor, and spg_attractor_par, which joins what its tasks find.
RECURSIVE spg_attractor(_, _, _, _)
spg_attractor(g, player, u, level) ==
    IF level = {} THEN u
    ELSE Then(Forced(g, player, PrevAll(g, level), u), LAMBDA new :
         Then([u |-> u \cup new, level |-> new \ u], LAMBDA r : spg_attractor(g, player, r.u, r.level)))

\* spg_attractor_par2: each task goes one step back and forth for its own group.
ForcedPar2(g, player, level, u) ==
    LET prev_b == UNION {PrevAll(g, NextAll(g, PrevBy(g, i, level)) \ u) : i \in DOMAIN g.e}
    IN  (PrevAll(g, level) \cap g.player[player]) \cup ((PrevAll(g, level) \ prev_b) \cap g.player[1 - player])

RECURSIVE spg_attractor_par2(_, _, _, _)
spg_attractor_par2(g, player, u, level) ==
    IF level = {} THEN u
    ELSE Then(ForcedPar2(g, player, level, u), LAMBDA new :
         Then([u |-> u \cup new, level |-> new \ u], LAMBDA r : spg_attractor_par2(g, player, r.u, r.level)))

\* One group of spg_attractor_chaining, once or until it adds nothing; r holds u, the
\* level that is built and the one that is used up.
RECURSIVE ChainGroupBy(_, _, _, _, _, _)
ChainGroupBy(g, player, r, i, group, saturation) ==
    IF group = {} THEN r
    ELSE Then(Forced(g, player, PrevBy(g, i, group), r.u) \ r.u, LAMBDA new :
         Then([u |-> r.u \cup new, level |-> r.level \cup new, previous |-> r.previous \cup new], LAMBDA next :
            IF saturation THEN ChainGroupBy(g, player, next, i, new, saturation) ELSE next))

RECURSIVE spg_attractor_chaining(_, _, _, _, _)
spg_attractor_chaining(g, player, u, level, saturation) ==
    IF level = {} THEN u
    ELSE Then(FoldLeftDomain(LAMBDA r, i : Then(r, LAMBDA x : ChainGroupBy(g, player, x, i, x.previous, saturation)),
                             [u |-> u, level |-> {}, previous |-> level], g.e),
              LAMBDA r : spg_attractor_chaining(g, player, r.u, r.level, saturation))

Attractor(attr, g, player, U) ==
    Then(U, LAMBDA u :
        CASE attr \in {"default", "par"} -> spg_attractor(g, player, u, u)
          [] attr = "par2" -> spg_attractor_par2(g, player, u, u)
          [] attr \in {"chain", "saturate"} -> spg_attractor_chaining(g, player, u, u, attr = "saturate"))

--------------------------------------------------------------------------------
(* The recursive solver (spg-solve.c).                                             *)

\* min_priority is raised past each empty set as the loop meets it, and stops at the
\* first that is not empty; max_priority is lowered past the empty ones.
spg_game_restrict(g, a) ==
    LET pri == [i \in DOMAIN g.priority |-> g.priority[i] \ a]
        used == {i \in g.min..g.max : pri[i] # {}}
        min == IF used = {} THEN g.max ELSE CHOOSE i \in used : \A j \in used : i <= j
        max == IF used = {} THEN min ELSE CHOOSE i \in used : \A j \in used : i >= j
    IN  [g EXCEPT !.v = @ \ a, !.player = [p \in 0..1 |-> @[p] \ a], !.priority = pri, !.min = min, !.max = max]

Deadlocks(g, p) == g.player[p] \ PrevAll(g, g.v)

\* The priority to go on with: the least one that occurs, or 0 or 1 for the deadlocks.
LeastPriority(g) == CHOOSE i \in g.min..g.max : g.priority[i] # {} /\ \A j \in g.min..i - 1 : g.priority[j] = {}
WithDeadlocks(g, m) ==
    IF m > 0 /\ Deadlocks(g, 1) # {} THEN 0 ELSE IF m > 1 /\ Deadlocks(g, 0) # {} THEN 1 ELSE m

\* U: copied from v_priority for the least priority, and again when a deadlock lowered
\* it, unless the lower one is below min_priority.
LeastVertices(g, m, least) ==
    IF m >= 2 THEN g.priority[m]
    ELSE (IF m >= g.min THEN g.priority[m] ELSE g.priority[least]) \cup Deadlocks(g, 1 - (m % 2))

RECURSIVE spg_solve_recursive(_, _)
spg_solve_recursive(attr, g) ==
    IF g.v = {} THEN [p \in 0..1 |-> {}]
    ELSE Then(WithDeadlocks(g, LeastPriority(g)), LAMBDA m :
         LET player == m % 2
         IN  Then(Attractor(attr, g, player, LeastVertices(g, m, LeastPriority(g))), LAMBDA u :
             Then(Then(spg_game_restrict(g, u), LAMBDA h : spg_solve_recursive(attr, h)), LAMBDA x :
                IF x[1 - player] = {}
                THEN [p \in 0..1 |-> IF p = player THEN u \cup x[p] ELSE {}]
                ELSE Then(Attractor(attr, g, 1 - player, x[1 - player]), LAMBDA b :
                     Then(Then(spg_game_restrict(g, b), LAMBDA h : spg_solve_recursive(attr, h)), LAMBDA y :
                        [p \in 0..1 |-> IF p = player THEN y[p] ELSE b \cup y[p]])))))
================================================================================
