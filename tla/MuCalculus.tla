------------------------------- MODULE MuCalculus -------------------------------
(* Mu-calculus and CTL model checking on the visited states (alg/mu.c), with the    *)
(* normal form and the dependencies of the variables that --mu-opt works with and   *)
(* the translation of CTL (ltsmin-lib/ltsmin-tl.c).  A formula is a tuple that      *)
(* starts with its operator: <<"ex", f>> and <<"ax", f>> are E X and A X,           *)
(* <<"label", l>> is state label l, <<"eq", i, x>> compares position i with x.      *)
EXTENDS SymReach, Relation

FixOp == {"mu", "nu"}
BoolOp == {"and", "or"}
Quantified == {"ex", "ax"}

--------------------------------------------------------------------------------
(* Computing the states where a formula holds (mu.c).                              *)

\* rel_expr_cb, on the values that position i takes in S.
Compare(op, a, b) ==
    CASE op = "eq" -> a = b
      [] op = "neq" -> a # b
      [] op = "lt" -> a < b
      [] op = "leq" -> a <= b
      [] op = "gt" -> a > b
      [] op = "geq" -> a >= b
Relational == {"eq", "neq", "lt", "leq", "gt", "geq"}

Atom(kn, f, S) ==
    CASE f[1] = "true" -> S
      [] f[1] = "false" -> {}
      [] f[1] = "label" -> Join(S, M.lproj[f[2]], kn.true[f[2]])
      [] f[1] \in Relational -> {s \in S : Compare(f[1], s[f[2] + 1], f[3])}
Atoms == {"true", "false", "label"} \cup Relational

\* add_step backward: the guards of the groups are not looked at.
add_step(kn, T, S) == UNION {Prev_(kn, g, T, S) : g \in Group}

\* mu_compute: every fixpoint is computed from the start each time it is met, and
\* restores the variable that it hides.
RECURSIVE mu_compute(_, _, _, _)
RECURSIVE Iterate(_, _, _, _, _)
Iterate(kn, f, S, var, X) ==
    Then(mu_compute(kn, f[3], S, [x \in {f[2]} |-> X] @@ var), LAMBDA Y :
        IF X = Y THEN X ELSE Iterate(kn, f, S, var, Y))

mu_compute(kn, f, S, var) ==
    CASE f[1] \in Atoms -> Atom(kn, f, S)
      [] f[1] = "or" -> mu_compute(kn, f[2], S, var) \cup mu_compute(kn, f[3], S, var)
      [] f[1] = "and" -> mu_compute(kn, f[2], S, var) \cap mu_compute(kn, f[3], S, var)
      [] f[1] = "not" -> S \ mu_compute(kn, f[2], S, var)
      [] f[1] = "ex" -> Then(mu_compute(kn, f[2], S, var), LAMBDA T : add_step(kn, T, S))
      [] f[1] = "ax" -> Then(mu_compute(kn, f[2], S, var), LAMBDA T : S \ add_step(kn, S \ T, S))
      [] f[1] = "var" -> var[f[2]]
      [] f[1] = "mu" -> Iterate(kn, f, S, var, {})
      [] f[1] = "nu" -> Iterate(kn, f, S, var, S)

--------------------------------------------------------------------------------
(* The normal form and the dependencies of the variables (ltsmin-tl.c).            *)

\* mu_dual has no dual for "neq": the program ends with an error.
mu_dual(op) ==
    CASE op = "ax" -> "ex" [] op = "ex" -> "ax" [] op = "mu" -> "nu" [] op = "nu" -> "mu"
      [] op = "and" -> "or" [] op = "or" -> "and" [] op = "true" -> "false" [] op = "false" -> "true"
      [] op = "eq" -> "neq" [] op = "leq" -> "gt" [] op = "gt" -> "leq" [] op = "geq" -> "lt" [] op = "lt" -> "geq"

\* Negations are pushed inside and the binders get the numbers 0, 1, ... outermost
\* first; rename keeps the last number given to a name.  The result is the formula,
\* the next free number and the names.
RECURSIVE mu_optimize_rec(_, _, _, _)
mu_optimize_rec(f, negated, free, rename) ==
    LET op == IF negated THEN mu_dual(f[1]) ELSE f[1]
    IN  CASE f[1] \in Atoms \ {"label"} -> [f |-> [f EXCEPT ![1] = op], free |-> free, rename |-> rename]
          [] f[1] = "label" -> [f |-> IF negated THEN <<"not", f>> ELSE f, free |-> free, rename |-> rename]
          [] f[1] = "var" -> [f |-> <<"var", rename[f[2]]>>, free |-> free, rename |-> rename]
          [] f[1] = "not" -> mu_optimize_rec(f[2], ~negated, free, rename)
          [] f[1] \in BoolOp ->
                Then(mu_optimize_rec(f[2], negated, free, rename), LAMBDA a :
                Then(mu_optimize_rec(f[3], negated, a.free, a.rename), LAMBDA b : [b EXCEPT !.f = <<op, a.f, b.f>>]))
          [] f[1] \in Quantified ->
                Then(mu_optimize_rec(f[2], negated, free, rename), LAMBDA a : [a EXCEPT !.f = <<op, a.f>>])
          [] f[1] \in FixOp ->
                Then(mu_optimize_rec(f[3], negated, free + 1, [x \in {f[2]} |-> free] @@ rename), LAMBDA a :
                    [a EXCEPT !.f = <<op, free, a.f>>])

mu_optimize(f) == mu_optimize_rec(f, FALSE, 0, <<>>)

\* The sign of each variable, as a set of pairs.
RECURSIVE Signs(_)
Signs(f) ==
    CASE f[1] \in Atoms \cup {"var"} -> {}
      [] f[1] \in BoolOp -> Signs(f[2]) \cup Signs(f[3])
      [] f[1] \in Quantified \cup {"not"} -> Signs(f[2])
      [] f[1] \in FixOp -> {<<f[2], f[1]>>} \cup Signs(f[3])

\* A variable depends on the binders between its own binder and where it occurs; the
\* stack holds the binders around f, innermost last.
RECURSIVE Dependencies(_, _)
Dependencies(f, stack) ==
    CASE f[1] \in Atoms -> {}
      [] f[1] = "var" -> {<<f[2], x>> : x \in ToSet(SelectSeq(stack, LAMBDA y : y > f[2]))}
      [] f[1] \in BoolOp -> Dependencies(f[2], stack) \cup Dependencies(f[3], stack)
      [] f[1] \in Quantified \cup {"not"} -> Dependencies(f[2], stack)
      [] f[1] \in FixOp -> Dependencies(f[3], Append(stack, f[2]))

\* The sign of variable z and whether y depends on z, closed under transitivity.
mu_object(f, nvars) ==
    LET D == Dependencies(f, <<>>)
        V == 0..nvars - 1
    IN  [sign |-> [z \in V |-> CHOOSE s \in FixOp : <<z, s>> \in Signs(f)],
         deps |-> TransitiveClosure([p \in V \X V |-> p \in D], V)]

--------------------------------------------------------------------------------
(* --mu-opt (mu.c).                                                                *)

\* The variables of the other sign that depend on z start again.
ResetNone(muo, S, var, z) == var
Reset(muo, S, var, z) ==
    [y \in DOMAIN var |-> IF muo.deps[z, y] /\ muo.sign[y] # muo.sign[z]
                          THEN IF muo.sign[y] = "mu" THEN {} ELSE S
                          ELSE var[y]]

\* EX with the guards of the groups.
Before(kn, T, S) == UNION {reduce(kn, g, Prev_(kn, g, T, S)) : g \in Group}

\* mu_rec: a fixpoint goes on from the value that its variable had last.  The result is
\* the set and the variables.
RECURSIVE mu_rec(_, _, _, _, _)
mu_rec(kn, muo, f, S, var) ==
    LET One(B(_)) == Then(mu_rec(kn, muo, f[2], S, var), LAMBDA a : [a EXCEPT !.set = B(a.set)])
        Two(B(_, _)) ==
            Then(mu_rec(kn, muo, f[2], S, var), LAMBDA a :
            Then(mu_rec(kn, muo, f[3], S, a.var), LAMBDA b : [b EXCEPT !.set = B(a.set, b.set)]))
    IN  CASE f[1] \in Atoms -> [set |-> Atom(kn, f, S), var |-> var]
          [] f[1] = "or" -> Two(LAMBDA A, B : A \cup B)
          [] f[1] = "and" -> Two(LAMBDA A, B : A \cap B)
          [] f[1] = "not" -> One(LAMBDA A : S \ A)
          [] f[1] = "ex" -> One(LAMBDA A : Before(kn, A, S))
          [] f[1] = "ax" -> One(LAMBDA A : S \ Before(kn, S \ A, S))
          [] f[1] = "var" -> [set |-> var[f[2]], var |-> var]
          [] f[1] \in FixOp ->
                Then(mu_rec(kn, muo, f[3], S, var), LAMBDA r :
                    IF r.set = var[f[2]] THEN r
                    ELSE mu_rec(kn, muo, f, S, Reset(muo, S, [r.var EXCEPT ![f[2]] = r.set], f[2])))

mu_compute_optimal(kn, f, S) ==
    Then(mu_optimize(f), LAMBDA o :
    Then(mu_object(o.f, o.free), LAMBDA muo :
        mu_rec(kn, muo, o.f, S, [z \in 0..o.free - 1 |-> IF muo.sign[z] = "mu" THEN {} ELSE S]).set))

--------------------------------------------------------------------------------
(* CTL (ltsmin-tl.c).                                                              *)

\* <<"EU", p, q>>, <<"AF", p>> and so on; free is the next variable.
CtlOp == {"EU", "AU", "EF", "AF", "EG", "AG"}
StuckNever == <<"false">>
Stuck == <<"ax", <<"false">>>>
RECURSIVE ctlmu(_, _)
ctlmu(f, free) ==
    LET Z == <<"var", free>>
        all == <<"and", <<"ax", Z>>, <<"ex", <<"true">>>>>>
        p == ctlmu(f[2], free + 1)
    IN  CASE f[1] \in Atoms -> f
          [] f[1] = "not" -> <<"not", ctlmu(f[2], free)>>
          [] f[1] \in BoolOp -> <<f[1], ctlmu(f[2], free), ctlmu(f[3], free)>>
          [] f[1] \in Quantified -> <<f[1], ctlmu(f[2], free)>>
          [] f[1] = "EU" -> <<"mu", free, <<"or", ctlmu(f[3], free + 1), <<"and", p, <<"ex", Z>>>>>>>>
          [] f[1] = "AU" -> <<"mu", free, <<"or", ctlmu(f[3], free + 1), <<"and", p, all>>>>>>
          [] f[1] = "EF" -> <<"mu", free, <<"or", p, <<"ex", Z>>>>>>
          [] f[1] = "AF" -> <<"mu", free, <<"or", p, all>>>>
          [] f[1] = "EG" -> <<"nu", free, <<"and", p, <<"or", <<"ex", Z>>, Stuck>>>>>>
          [] f[1] = "AG" -> <<"nu", free, <<"and", p, <<"ax", Z>>>>>>

\* learn_labels: the labels that the formulas use are evaluated for all visited states.
RECURSIVE LabelsOf(_)
LabelsOf(f) ==
    IF f[1] = "label" THEN {f[2]} ELSE IF f[1] \in Atoms \cup {"var"} THEN {}
    ELSE UNION {LabelsOf(f[i]) : i \in (2..Len(f)) \ (IF f[1] \in FixOp THEN {2} ELSE {})}

learn_labels(kn, used, S) ==
    FoldLeftDomain(LAMBDA r, l : IF l \in used THEN eval_label(r, l, S) ELSE r, kn, M.lproj)

\* check_mu_go.
check_mu_go(kn, f, S) ==
    Then(IF f[1] = "ctl" THEN ctlmu(f[2], 0) ELSE f[2], LAMBDA mu :
        IF job.mu_opt THEN mu_compute_optimal(kn, mu, S) ELSE mu_compute(kn, mu, S, <<>>))
================================================================================
