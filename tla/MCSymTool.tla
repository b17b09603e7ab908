------------------------------ MODULE MCSymTool --------------------------------
(* Small models, each with options of pins2lts-sym that fit it: orders,         *)
(* saturations and guides, then what is asked of the search.                     *)
EXTENDS SymTool

Tr(src, dst, act) == [src |-> src, dst |-> dst, act |-> act]
None == [mf |-> TRUE, guards |-> [g \in 1..5 |-> <<>>], lproj |-> <<>>, value |-> <<>>,
         classes |-> 0, class |-> <<>>, inhibit |-> {}, inv |-> <<>>, valid |-> {}, priority |-> <<>>, player |-> <<>>]

\* Four positions; the levels overlap only with their neighbours.  "go" needs all the
\* groups, "b" only two of them, and "no" is never taken.
Chain ==
    [init |-> <<0, 0, 0, 0>>,
     proj |-> <<<<0, 1>>, <<2>>, <<2, 3>>, <<1, 2>>, <<0, 1>>>>,
     trans |-> <<{Tr(<<0, 0>>, <<1, 0>>, "a"), Tr(<<1, 2>>, <<0, 0>>, "no")},
                 {Tr(<<0>>, <<1>>, "c")},
                 {Tr(<<1, 0>>, <<0, 1>>, "b")},
                 {Tr(<<0, 1>>, <<1, 1>>, "d")},
                 {Tr(<<1, 1>>, <<0, 2>>, "go")}>>,
     rd |-> <<{0, 1}, {2}, {2, 3}, {1, 2}, {0, 1}>>, wr |-> <<{0, 1}, {2}, {2, 3}, {1}, {0, 1}>>,
     inv |-> <<{v \in (0..1) \X (0..2) \X (0..1) \X (0..1) : v[2] < 2},
               {v \in (0..1) \X (0..2) \X (0..1) \X (0..1) : v[1] + v[2] < 3}>>,
     valid |-> {}] @@ None

\* A clock that runs forever beside a buffer that may end full.
Clock ==
    [init |-> <<0, 0>>,
     proj |-> <<<<0>>, <<0, 1>>, <<0, 1>>>>,
     trans |-> <<{Tr(<<0>>, <<1>>, "tick"), Tr(<<1>>, <<0>>, "tick")},
                 {Tr(<<1, 0>>, <<1, 1>>, "put")},
                 {Tr(<<0, 1>>, <<2, 1>>, "end")}>>,
     rd |-> <<{0}, {0, 1}, {0, 1}>>, wr |-> <<{0}, {1}, {0}>>,
     inv |-> <<{v \in (0..2) \X (0..1) : v[1] < 2}>>,
     valid |-> {<<2, 1>>}] @@ None

\* Guards: the second guard of group 1 has no answer where the first one is false.
Guarded2 ==
    [init |-> <<0, 0, 0>>,
     proj |-> <<<<0>>, <<1>>, <<2>>>>,
     trans |-> <<{Tr(<<0>>, <<1>>, "a"), Tr(<<1>>, <<2>>, "a")}, {Tr(<<0>>, <<1>>, "b")}, {Tr(<<0>>, <<1>>, "c")}>>,
     rd |-> <<{0, 1, 2}, {1}, {0, 2}>>, wr |-> <<{0}, {1}, {2}>>,
     guards |-> <<<<1, 2>>, <<3>>, <<4>>>>,
     lproj |-> <<<<1>>, <<1, 2>>, <<1>>, <<0>>>>,
     value |-> <<<<0>> :> 0 @@ <<1>> :> 1,
                 <<0, 0>> :> 2 @@ <<0, 1>> :> 2 @@ <<1, 0>> :> 1 @@ <<1, 1>> :> 0,
                 <<0>> :> 1 @@ <<1>> :> 0,
                 <<0>> :> 0 @@ <<1>> :> 1 @@ <<2>> :> 1>>,
     inv |-> <<{v \in (0..2) \X (0..1) \X (0..1) : v[1] < 2}>>] @@ None

\* A guard without an answer in a state that is reached.
Unsound == [Guarded2 EXCEPT !.value[4] = <<0>> :> 0 @@ <<1>> :> 2 @@ <<2>> :> 1]

\* Maximal progress: the internal steps of group 1 go before group 2, not before group 3.
Progress ==
    [init |-> <<0, 0>>,
     proj |-> <<<<0>>, <<1>>, <<0, 1>>>>,
     trans |-> <<{Tr(<<0>>, <<1>>, "tau")}, {Tr(<<0>>, <<1>>, "x")}, {Tr(<<0, 0>>, <<2, 0>>, "y"), Tr(<<2, 1>>, <<0, 1>>, "z")}>>,
     rd |-> <<{0}, {1}, {0, 1}>>, wr |-> <<{0}, {1}, {0, 1}>>,
     classes |-> 3, class |-> <<1, 2, 3>>, inhibit |-> {<<1, 2>>, <<2, 3>>}] @@ None

\* Every state has both actions.
Total ==
    [init |-> <<0, 0>>,
     proj |-> <<<<0, 1>>, <<0>>>>,
     trans |-> <<{Tr(<<0, 0>>, <<1, 0>>, "a"), Tr(<<1, 0>>, <<0, 1>>, "b"), Tr(<<0, 1>>, <<1, 1>>, "a"), Tr(<<1, 1>>, <<0, 0>>, "b")},
                 {Tr(<<0>>, <<0>>, "b"), Tr(<<1>>, <<1>>, "a")}>>,
     rd |-> <<{0, 1}, {0}>>, wr |-> <<{0, 1}, {0}>>] @@ None

Orders == {"bfs", "bfs_prev", "chain", "chain_prev", "par", "par_prev"}
Plain == [model |-> Chain, order |-> "bfs", sat |-> "no_sat", guide |-> "unguided", gran |-> 1, save |-> FALSE,
          sound |-> TRUE, union |-> FALSE, dlk |-> FALSE, act |-> "none", no_exit |-> FALSE, trace |-> FALSE,
          mu |-> <<>>, mu_opt |-> FALSE, attr |-> "none", parent |-> Chain, formula |-> <<"true">>]

\* Every order under every strategy that calls one.
Searches ==
    UNION {{[Plain EXCEPT !.order = o], [Plain EXCEPT !.order = o, !.union = TRUE]} : o \in Orders}
    \cup {[Plain EXCEPT !.order = o, !.sat = s, !.gran = n, !.save = b] :
            o \in Orders, s \in {"sat_like", "sat_loop"}, n \in 1..2, b \in BOOLEAN}
    \cup {[Plain EXCEPT !.sat = s] : s \in {"sat_fix", "sat"}}

Asking(S) ==
    UNION {{[j EXCEPT !.dlk = TRUE, !.trace = j.sat # "sat"],
            [j EXCEPT !.act = "go", !.trace = j.sat # "sat"],
            [j EXCEPT !.act = "b", !.guide = "directed"],
            [j EXCEPT !.act = "no", !.no_exit = TRUE, !.dlk = TRUE]} : j \in S}

SearchJobs ==
    Asking(Searches)
    \cup {[j EXCEPT !.model = Clock, !.dlk = TRUE] : j \in Searches}
    \cup {[Plain EXCEPT !.model = m, !.order = o, !.sat = s, !.gran = 2, !.dlk = TRUE, !.no_exit = TRUE, !.sound = b] :
            m \in {Guarded2, Unsound}, o \in Orders, s \in {"no_sat", "sat_like"}, b \in BOOLEAN}
    \cup {[Plain EXCEPT !.model = Guarded2, !.order = o, !.sat = s, !.gran = 2, !.dlk = b, !.act = IF b THEN "none" ELSE "a", !.trace = TRUE] :
            o \in Orders, s \in {"no_sat", "sat_like"}, b \in BOOLEAN}
    \cup {[Plain EXCEPT !.model = Progress, !.order = o, !.dlk = TRUE, !.no_exit = TRUE] :
            o \in {"bfs", "bfs_prev", "par", "par_prev"}}

--------------------------------------------------------------------------------
(* Formulas of --mu and --ctl.                                                     *)

Eq(i, x) == <<"eq", i, x>>
Var(x) == <<"var", x>>

\* Two and three fixpoints of all signs, in which the inner bodies use the outer variables.
NestedMu ==
    {<<"mu", <<s1, 0, <<s2, 1, <<op, <<"and", Eq(0, 0), <<q1, Var(0)>>>>, <<"and", <<"not", Eq(0, 2)>>, <<q2, Var(1)>>>>>>>>>>>> :
        s1 \in FixOp, s2 \in FixOp, op \in BoolOp, q1 \in Quantified, q2 \in Quantified}
DeepMu ==
    {<<"mu", <<s1, 0, <<s2, 1, <<s3, 2, <<"or", <<"and", Eq(1, 1), <<"ex", Var(0)>>>>,
        <<"or", <<"and", Eq(0, 1), <<"ex", Var(1)>>>>, <<q, Var(2)>>>>>>>>>>>>>> :
        s1 \in FixOp, s2 \in FixOp, s3 \in FixOp, q \in Quantified}

\* Negations over fixpoints, a variable bound twice, every comparison.
OtherMu ==
    {<<"mu", <<"not", <<"mu", 0, <<"or", <<op, 0, 1>>, <<"ex", Var(0)>>>>>>>>>> : op \in Relational \ {"neq"}}
    \cup {<<"mu", <<"and", <<"nu", 5, <<"and", <<"neq", 0, 2>>, <<"ex", Var(5)>>>>>>, <<"mu", 5, <<"or", Eq(1, 1), <<"ax", Var(5)>>>>>>>>>>,
          <<"mu", <<"not", <<"nu", 1, <<"not", <<"mu", 2, <<"or", <<"not", <<"ax", Var(1)>>>>, <<"and", Eq(0, 0), <<"ex", Var(2)>>>>>>>>>>>>>>>>}

P1 == Eq(0, 1)
P2 == <<"gt", 1, 0>>
CtlFormulas ==
    {<<"ctl", <<op, P1, P2>>>> : op \in {"EU", "AU"}}
    \cup {<<"ctl", <<op, p>>>> : op \in {"EF", "AF", "EG", "AG", "ex", "ax"}, p \in {P1, <<"not", P1>>, <<"not", P2>>}}
    \cup {<<"ctl", <<"AG", <<"EF", P1>>>>>>, <<"ctl", <<"not", <<"EG", <<"and", <<"AF", P1>>, <<"EU", <<"not", P2>>, <<"ex", P1>>>>>>>>>>>>}

Labels == {<<"ctl", <<"AU", <<"label", 3>>, <<"not", <<"label", 4>>>>>>>>, <<"mu", <<"nu", 0, <<"and", <<"label", 3>>, <<"ex", Var(0)>>>>>>>>,
           <<"mu", <<"mu", 0, <<"or", <<"not", <<"label", 1>>>>, <<"ex", Var(0)>>>>>>>>, <<"ctl", <<"EF", <<"and", P1, <<"ax", <<"false">>>>>>>>>>}

\* Each formula alone, and several in one run.
MuJobs ==
    {[Plain EXCEPT !.model = [Clock EXCEPT !.inv = <<>>], !.sat = "sat", !.mu = <<f>>, !.mu_opt = b] :
        f \in NestedMu \cup OtherMu \cup CtlFormulas, b \in BOOLEAN}
    \cup {[Plain EXCEPT !.model = Total, !.sat = "sat", !.mu = <<f>>, !.mu_opt = b] : f \in DeepMu, b \in BOOLEAN}
    \cup {[Plain EXCEPT !.model = [Guarded2 EXCEPT !.inv = <<>>], !.order = o, !.mu = SetToSeq(Labels), !.mu_opt = b] :
            o \in {"bfs", "chain_prev"}, b \in BOOLEAN}

--------------------------------------------------------------------------------
(* Formulas of the mu-calculus layer.                                              *)

A(a) == <<FALSE, a>>
NotA(a) == <<TRUE, a>>

\* A loop that can be left for a state that has no step.
Partial ==
    [init |-> <<0>>, proj |-> <<<<0>>>>,
     trans |-> <<{Tr(<<0>>, <<0>>, "a"), Tr(<<0>>, <<1>>, "b"), Tr(<<1>>, <<0>>, "a"), Tr(<<1>>, <<2>>, "c")}>>,
     rd |-> <<{0}>>, wr |-> <<{0}>>] @@ None

\* Two fixpoints of all signs under all modalities; in the other formulas three.
Games(modals) ==
    {<<s1, "X", <<s2, "Y", <<op, <<m1, A("a"), Var("X")>>, <<m2, A("b"), Var("Y")>>>>>>>> :
        s1 \in Fixpoint, s2 \in Fixpoint, op \in Binary, m1 \in modals, m2 \in modals}
    \cup
    {<<s1, "X", <<op, <<"is", 0, 1>>, <<s2, "Y", <<m1, NotA("b"), <<s3, "Z", <<op, <<m1, A(""), Var("Y")>>, <<m1, A("b"), <<op, Var("X"), Var("Z")>>>>>>>>>>>>>>>> :
        s1 \in Fixpoint, s2 \in Fixpoint, s3 \in Fixpoint, op \in Binary, m1 \in modals}

Game(m, f, attr) ==
    [Plain EXCEPT !.model = GBaddMucalc(m, f, 0..1), !.sat = "sat", !.attr = attr, !.parent = m, !.formula = f]

Attractors == {"default", "par", "par2", "chain", "saturate"}
GameJobs ==
    {Game(Total, f, attr) : f \in Games(Modal), attr \in Attractors}
    \cup {Game(Partial, f, attr) : f \in Games({"may"}) \cup Games({"must"}), attr \in Attractors}

JobsDef == SearchJobs \cup MuJobs \cup GameJobs

\* Both players have a vertex without a move: [b] in the loop, and <a> at its exit.
DeadlockJobs ==
    {Game(m, <<"nu", "X", <<"and", <<"or", <<"may", A("a"), Var("X")>>, <<"may", A("c"), Var("X")>>>>, <<"must", A("b"), Var("X")>>>>>>, "default") :
        m \in {Total, [Partial EXCEPT !.trans = <<{Tr(<<0>>, <<0>>, "a"), Tr(<<0>>, <<1>>, "c")}>>]}}
================================================================================
