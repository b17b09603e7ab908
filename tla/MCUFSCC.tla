------------------------------ MODULE MCUFSCC -------------------------------
(***************************************************************************)
(* Instances of UFSCC.                                                     *)
(***************************************************************************)
EXTENDS UFSCC

Model(edges, ltl, accepting) ==
    [edges |-> edges, ltl |-> ltl, accepting |-> accepting]

Plain(pairs) == {[from |-> p[1], to |-> p[2], acc |-> {}] : p \in pairs}

\* Two components: {1, 2} and, with a self-loop, {3}.
TwoEdges == Plain({<<1, 2>>, <<2, 1>>, <<2, 3>>, <<3, 3>>})

\* A cycle {2, 3} below 1, closed from both sides.
ForkEdges == Plain({<<1, 2>>, <<1, 3>>, <<2, 3>>, <<3, 2>>})

\* Two ways around, a long and a short one, to 3 and back.
DiamondEdges == Plain({<<1, 2>>, <<1, 3>>, <<2, 3>>, <<3, 1>>})

\* A TGBA: the marks of the cycle {1, 2} are on different transitions, one of
\* them a self-loop.
MarkedEdges ==
    {[from |-> 1, to |-> 2, acc |-> {}], [from |-> 2, to |-> 1, acc |-> {"m"}],
     [from |-> 2, to |-> 2, acc |-> {"n"}], [from |-> 1, to |-> 3, acc |-> {}],
     [from |-> 3, to |-> 2, acc |-> {"m"}]}

\* The cycle {2, 3} has one mark, the transition into it the other.
ApartEdges ==
    {[from |-> 1, to |-> 2, acc |-> {"n"}], [from |-> 2, to |-> 3, acc |-> {"m"}],
     [from |-> 3, to |-> 2, acc |-> {}]}

MCModels ==
    {Model(ForkEdges, "none", {}), Model(DiamondEdges, "BA", {3}),
     Model(TwoEdges, "BA", {1}), Model(TwoEdges, "BA", {3}),
     Model(MarkedEdges, "TGBA", {}), Model(ApartEdges, "TGBA", {})}
=============================================================================
