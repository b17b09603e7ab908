--------------------------------- MODULE SymTool ---------------------------------
(* pins2lts-sym as a whole: the reachable states are found (SymReach), then the     *)
(* formulas of --mu and --ctl are checked on them (MuCalculus), and when the model  *)
(* is a parity game (MucalcLayer) it is solved (ParityGame).                        *)
EXTENDS MuCalculus, ParityGame, MucalcLayer

VARIABLES
    answers,    \* the states where each formula holds, in the order of the options
    win         \* the winning sets of the players, once the game is solved

toolVars == <<job, pc, visited, known, guide, sat, loc, report, levels, answers, win>>

ToolInit ==
    /\ Init
    /\ answers = <<>>
    /\ win = <<>>

Reaching == Next /\ UNCHANGED <<answers, win>>

\* check_mu: the next formula; before the first the labels are evaluated.
CheckMu ==
    /\ pc = "end" /\ Len(answers) < Len(job.mu)
    /\ \E kn \in {IF answers = <<>> THEN learn_labels(known, UNION {LabelsOf(f[2]) : f \in ToSet(job.mu)}, visited) ELSE known} :
        /\ known' = kn
        /\ answers' = Append(answers, check_mu_go(kn, job.mu[Len(answers) + 1], visited))
    /\ UNCHANGED <<job, pc, visited, guide, sat, loc, report, levels, win>>

\* compute_symbolic_parity_game: the subformula in the last position gives the player
\* and the priority of a vertex.
compute_symbolic_parity_game ==
    LET node(v) == Last(v)
        pris == {M.priority[k] : k \in DOMAIN M.priority}
    IN  [v |-> visited,
         player |-> [p \in 0..1 |-> {v \in visited : M.player[node(v)] = p}],
         priority |-> [i \in 0..Max(pris) |-> {v \in visited : M.priority[node(v)] = i}],
         min |-> Min(pris), max |-> Max(pris),
         e |-> [g \in Group |-> UNION {{<<v, w>> : w \in Image({v}, M.proj[g], known.rel[g])} : v \in visited}]]

\* lts_to_pg_solve.
SolveGame ==
    /\ pc = "end" /\ Len(answers) = Len(job.mu) /\ job.attr # "none" /\ win = <<>>
    /\ win' = Then(compute_symbolic_parity_game, LAMBDA g : spg_solve_recursive(job.attr, g))
    /\ UNCHANGED <<job, pc, visited, known, guide, sat, loc, report, levels, answers>>

\* Nothing is left to do.
Answered == pc = "exit" \/ (pc = "end" /\ Len(answers) = Len(job.mu) /\ (job.attr # "none" => win # <<>>))
Finished == Answered /\ UNCHANGED toolVars

ToolNext ==
    \/ Reaching
    \/ CheckMu
    \/ SolveGame
    \/ Finished

ToolSpec == ToolInit /\ [][ToolNext]_toolVars

\* One process, and with par its tasks, all of which are run: it goes on until it has
\* answered.
FairSpec == ToolSpec /\ ([]<><<ToolNext>>_toolVars \/ []<>Answered)

--------------------------------------------------------------------------------
(* What the formulas mean, state by state.                                          *)

\* The reachable states of model m and the labelled steps between them.
System(m) ==
    Then(ReachFrom(m, {m.init}), LAMBDA R :
        [m |-> m, states |-> R,
         steps |-> {<<s, t.act, Written(s, m.proj[g], t.dst)>> : <<s, g, t>> \in
            UNION {UNION {{<<s, g, t>> : t \in Taken(m, s, g)} : g \in Moves(m, s)} : s \in R}}])

\* The same states with the steps that add_step goes back along: a short transition
\* that was learned in one state counts in all states with the same short vector, the
\* guards of the group being left out, as long as it leads to a reachable state.
LearnedSystem(m) ==
    Then(System(m), LAMBDA sys :
        LET Learned(g) == UNION {Taken(m, s, g) : s \in sys.states}
            Ways(s, g) == {<<s, t.act, Written(s, m.proj[g], t.dst)>> :
                             t \in {u \in Learned(g) : u.src = Projected(s, m.proj[g])}}
        IN  [sys EXCEPT !.steps = {q \in UNION {Ways(s, g) : s \in sys.states, g \in DOMAIN m.proj} :
                                     q[3] \in sys.states}])

Into(sys, expr, T) == {p[1] : p \in {q \in sys.steps : q[3] \in T /\ Matches(expr, q[2])}}
AnyAction == <<FALSE, "">>

\* The least fixpoint is the intersection of the sets that its body maps into themselves,
\* the greatest the union of the sets that are mapped to larger ones.
RECURSIVE Meaning(_, _, _)
Meaning(sys, f, env) ==
    LET R == sys.states
        Of(g) == Meaning(sys, g, env)
        Body(X) == Meaning(sys, f[3], [x \in {f[2]} |-> X] @@ env)
    IN  CASE f[1] = "true" -> R
          [] f[1] = "false" -> {}
          [] f[1] = "label" -> {s \in R : sys.m.value[f[2]][Projected(s, sys.m.lproj[f[2]])] = 1}
          [] f[1] = "is" -> {s \in R : s[f[2] + 1] = f[3]}
          [] f[1] \in Relational -> {s \in R : Compare(f[1], s[f[2] + 1], f[3])}
          [] f[1] = "not" -> R \ Of(f[2])
          [] f[1] = "and" -> Of(f[2]) \cap Of(f[3])
          [] f[1] = "or" -> Of(f[2]) \cup Of(f[3])
          [] f[1] = "ex" -> Then(Of(f[2]), LAMBDA T : Into(sys, AnyAction, T))
          [] f[1] = "ax" -> Then(Of(f[2]), LAMBDA T : R \ Into(sys, AnyAction, R \ T))
          [] f[1] = "may" -> Then(Of(f[3]), LAMBDA T : Into(sys, f[2], T))
          [] f[1] = "must" -> Then(Of(f[3]), LAMBDA T : R \ Into(sys, f[2], R \ T))
          [] f[1] = "var" -> env[f[2]]
          [] f[1] = "mu" -> R \ UNION {R \ X : X \in {Y \in SUBSET R : Body(Y) \subseteq Y}}
          [] f[1] = "nu" -> UNION {X : X \in {Y \in SUBSET R : Y \subseteq Body(Y)}}

\* The states with a path through P, whose last state may be outside P, to a state of Q.
Until(sys, P, Q) ==
    LET R == sys.states
    IN  Then(TransitiveClosure([p \in R \X R |-> p[1] \in P /\ \E q \in sys.steps : q[1] = p[1] /\ q[3] = p[2]], R),
             LAMBDA path : Q \cup {s \in R : \E t \in Q : path[s, t]})

\* The states with a path through P that never ends, or ends where there is no step.
Always(sys, P) ==
    LET R == sys.states
    IN  Then(TransitiveClosure([p \in R \X R |-> {p[1], p[2]} \subseteq P /\ \E q \in sys.steps : q[1] = p[1] /\ q[3] = p[2]], R),
             LAMBDA path : {s \in P : \E t \in P : /\ s = t \/ path[s, t]
                                                   /\ path[t, t] \/ ~\E q \in sys.steps : q[1] = t})

\* CTL by the paths from a state.
RECURSIVE PathMeaning(_, _)
PathMeaning(sys, f) ==
    LET R == sys.states
        Of(i) == PathMeaning(sys, f[i])
        No(i) == R \ PathMeaning(sys, f[i])
    IN  CASE f[1] \in Atoms -> Meaning(sys, f, <<>>)
          [] f[1] = "not" -> No(2)
          [] f[1] = "and" -> Of(2) \cap Of(3)
          [] f[1] = "or" -> Of(2) \cup Of(3)
          [] f[1] = "ex" -> Into(sys, AnyAction, Of(2))
          [] f[1] = "ax" -> R \ Into(sys, AnyAction, No(2))
          [] f[1] = "EU" -> Until(sys, Of(2), Of(3))
          [] f[1] = "AU" -> R \ (Always(sys, No(3)) \cup Until(sys, No(3), No(2) \cap No(3)))
          [] f[1] = "EF" -> Until(sys, R, Of(2))
          [] f[1] = "AF" -> R \ Always(sys, No(2))
          [] f[1] = "EG" -> Always(sys, Of(2))
          [] f[1] = "AG" -> R \ Until(sys, R, No(2))

\* The states of a system where formula f of --mu, --ctl or the layer holds.
SatisfyingIn(system, f) ==
    Then(system, LAMBDA sys : IF f[1] = "ctl" THEN PathMeaning(sys, f[2]) ELSE Meaning(sys, f[2], <<>>))
Satisfying(m, f) == SatisfyingIn(System(m), f)

--------------------------------------------------------------------------------
(* Properties.                                                                      *)

\* With --mu-opt the answer is the set of states where the formula holds, for nested and
\* alternating fixpoints, although mu_rec goes on from old values of the variables; and
\* the mu-calculus formula that ctlmu makes of a CTL formula holds where the paths from a
\* state, up to a deadlock or forever, satisfy the CTL formula.  The default mu_compute
\* is as exact, but about the steps that add_step takes: they are those of the model when
\* it has no guards, and may be more when it has.
MuExact ==
    answers # <<>> =>
        Last(answers) = SatisfyingIn(IF job.mu_opt \/ ~Guarded THEN System(M) ELSE LearnedSystem(M),
                                     job.mu[Len(answers)])

\* The layer and the solver together: the winning sets divide the vertices, and player 0
\* wins the whole formula in exactly the reachable states of the model where it holds,
\* whichever attractor is used.
WinExact ==
    win # <<>> =>
        /\ win[0] \cap win[1] = {} /\ win[0] \cup win[1] = visited
        /\ {Front(v) : v \in {w \in win[0] : Last(w) = Last(M.init)}}
             = {Front(v) : v \in {w \in visited : Last(w) = Last(M.init)}} \cap Satisfying(job.parent, <<"mu", job.formula>>)

\* "generate a parity game that encodes M |= f": the result reported for the initial
\* state is whether the model satisfies the formula.
VerdictRight ==
    win # <<>> => (M.init \in win[0] <=> job.parent.init \in Satisfying(job.parent, <<"mu", job.formula>>))

\* The run ends with every formula answered and every game solved: the loops of every
\* order, strategy and guide reach their end in every interleaving.  (A formula and a game
\* are one step each; that their loops end is part of computing that step.)
Terminates == <>Answered
================================================================================
