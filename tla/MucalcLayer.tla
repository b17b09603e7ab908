------------------------------- MODULE MucalcLayer -------------------------------
(* The mu-calculus PINS layer (pins2pins-mucalc.c): from a model and a formula it   *)
(* makes a model whose states are those of a parity game, a state of the model and  *)
(* a subformula in one more position of the vector.  A formula is a tuple that      *)
(* starts with its operator; <<"may", <<n, a>>, f>> is about the actions that are a,  *)
(* or when n is TRUE those that are not a, and "" is any action; <<"is", i, x>> is  *)
(* the proposition that position i has value x.                                     *)
EXTENDS Projections, FiniteSets, SequencesExt

Fixpoint == {"mu", "nu"}
Modal == {"may", "must"}
Binary == {"and", "or"}

\* mucalc_expr_create: subformulae are numbered as the parser makes them, arguments
\* first; 0 is true and 1 is false.  The result is the nodes so far and the number.
Expr(type, value, arg1, arg2) == [type |-> type, value |-> value, arg1 |-> arg1, arg2 |-> arg2]
TrueAndFalse == <<Expr("true", 0, 0, 0), Expr("false", 0, 0, 0)>>
Created(nodes, e) == [nodes |-> Append(nodes, e), idx |-> Len(nodes)]

\* Negations of negations and of constants are resolved at once.
Negated(nodes, k) ==
    IF k < 2 THEN [nodes |-> nodes, idx |-> 1 - k]
    ELSE IF nodes[k + 1].type = "not" THEN [nodes |-> nodes, idx |-> nodes[k + 1].arg1]
    ELSE Created(nodes, Expr("not", 0, k, 0))

RECURSIVE mucalc_parse(_, _)
mucalc_parse(f, nodes) ==
    CASE f[1] = "true" -> [nodes |-> nodes, idx |-> 0]
      [] f[1] = "false" -> [nodes |-> nodes, idx |-> 1]
      [] f[1] = "var" -> Created(nodes, Expr("var", f[2], 0, 0))
      [] f[1] = "is" -> Created(nodes, Expr("is", <<f[2], f[3]>>, 0, 0))
      [] f[1] = "not" -> Then(mucalc_parse(f[2], nodes), LAMBDA a : Negated(a.nodes, a.idx))
      [] f[1] \in Fixpoint \cup Modal ->
            Then(mucalc_parse(f[3], nodes), LAMBDA a : Created(a.nodes, Expr(f[1], f[2], a.idx, 0)))
      [] f[1] \in Binary ->
            Then(mucalc_parse(f[2], nodes), LAMBDA a :
            Then(mucalc_parse(f[3], a.nodes), LAMBDA b : Created(b.nodes, Expr(f[1], 0, a.idx, b.idx))))

\* A node of priority pri; and, must belong to player 1, the rest to player 0.
Player(type) == IF type \in {"and", "must"} THEN 1 ELSE 0
FixPriorityKept(type, pri) == IF pri > 3 THEN pri ELSE IF (type = "mu") = (pri % 2 = 1) THEN pri ELSE pri + 1
FixPriority(type, pri) == IF (type = "mu") = (pri % 2 = 1) THEN pri ELSE pri + 1

\* mucalc_compute_nodes: the priority and the player of node k and of those below it, and
\* the fixpoint that each variable stands for; fix is the last one with each name.
RECURSIVE mucalc_compute_nodes(_, _, _, _)
mucalc_compute_nodes(nodes, r, k, pri) ==
    LET e == nodes[k + 1]
        Set(s, p) == [s EXCEPT !.priority[k] = p, !.player[k] = Player(e.type)]
    IN  CASE e.type \in {"true", "false"} -> r
          [] e.type \in Fixpoint ->
                Then(FixPriority(e.type, pri), LAMBDA p :
                    mucalc_compute_nodes(nodes, [Set(r, p) EXCEPT !.fix = [x \in {e.value} |-> k] @@ @], e.arg1, p))
          [] e.type = "is" -> Set(r, pri)
          [] e.type \in Modal \cup {"not"} -> mucalc_compute_nodes(nodes, Set(r, pri), e.arg1, pri)
          [] e.type \in Binary ->
                Then(mucalc_compute_nodes(nodes, Set(r, pri), e.arg1, pri), LAMBDA s :
                    mucalc_compute_nodes(nodes, s, e.arg2, pri))
          [] e.type = "var" ->
                Then(r.fix[e.value], LAMBDA x :
                    [r EXCEPT !.priority[k] = r.priority[x], !.player[k] = r.player[x], !.target[k] = x])

mucalc_compute_groupinfo(nodes, initial) ==
    LET ks == 0..Len(nodes) - 1
    IN  mucalc_compute_nodes(nodes,
            [priority |-> [k \in ks |-> IF k = 1 THEN 1 ELSE 0], player |-> [k \in ks |-> IF k = 0 THEN 1 ELSE 0],
             fix |-> <<>>, target |-> [k \in ks |-> 0]], initial, 2)

\* mucalc_compute_groups: one group for a node, for a modal one as many as the model has.
Entries(nodes, groups) ==
    FlattenSeq([k \in 1..Len(nodes) |->
        IF nodes[k].type \in Modal THEN [i \in 1..groups |-> [node |-> k - 1, parent |-> i]]
        ELSE <<[node |-> k - 1, parent |-> 0]>>])

\* mucalc_cb: "" matches every action, another expression the one it names.
MatchesPositive(expr, act) == expr[2] \in {"", act}
Matches(expr, act) == (expr[2] \in {"", act}) # expr[1]

\* The rows of the dependency matrix: propositions read their slot, a negated one does
\* not, so that it is looked up in the initial state, and as proposition number 0.
GroupRow(parent, e, entry, mu) ==
    IF entry.parent # 0 THEN Append(parent.proj[entry.parent], mu)
    ELSE IF e.type = "is" THEN <<e.value[1], mu>> ELSE <<mu>>

Truth(holds) == IF holds THEN 0 ELSE 1
FirstProposition(nodes) == nodes[CHOOSE k \in DOMAIN nodes : nodes[k].type = "is" /\ \A j \in 1..k - 1 : nodes[j].type # "is"].value

\* mucalc_long, for the short vectors with a value of the model's values.
GroupTrans(parent, nodes, info, entry, values) ==
    LET k == entry.node
        e == nodes[k + 1]
        To(S) == {[src |-> <<k>>, dst |-> <<j>>, act |-> ""] : j \in S}
    IN  CASE e.type \in Modal ->
                {[src |-> Append(t.src, k), dst |-> Append(t.dst, e.arg1), act |-> ""] :
                    t \in {u \in parent.trans[entry.parent] : Matches(e.value, u.act)}}
          [] e.type = "is" ->
                {[src |-> <<x, k>>, dst |-> <<x, Truth(x = e.value[2])>>, act |-> ""] : x \in values}
          [] e.type \in Fixpoint -> To({e.arg1})
          [] e.type \in Binary -> To({e.arg1, e.arg2})
          [] e.type = "var" -> To({info.target[k]})
          [] e.type \in {"true", "false"} -> To({k})
          [] e.type = "not" ->
                LET p == FirstProposition(nodes) IN To({Truth(parent.init[p[1] + 1] # p[2])})

\* GBaddMucalc: the model of the game, with the labels of its nodes.
GBaddMucalc(parent, formula, values) ==
    Then(mucalc_parse(formula, TrueAndFalse), LAMBDA tree :
    Then(mucalc_compute_groupinfo(tree.nodes, tree.idx), LAMBDA info :
    Then(Entries(tree.nodes, Len(parent.proj)), LAMBDA entries :
        LET mu == Len(parent.init)
            proj == [i \in DOMAIN entries |-> GroupRow(parent, tree.nodes[entries[i].node + 1], entries[i], mu)]
        IN  [parent EXCEPT
                !.init = Append(@, tree.idx),
                !.proj = proj,
                !.trans = [i \in DOMAIN entries |-> GroupTrans(parent, tree.nodes, info, entries[i], values)],
                !.rd = [i \in DOMAIN entries |-> ToSet(proj[i])],
                !.wr = [i \in DOMAIN entries |-> IF entries[i].parent # 0 THEN ToSet(proj[i]) ELSE {mu}],
                !.guards = [i \in DOMAIN entries |-> <<>>],
                !.priority = info.priority,
                !.player = info.player])))
================================================================================
