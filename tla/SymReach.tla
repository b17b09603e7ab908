------------------------------- MODULE SymReach --------------------------------
(* The symbolic tool, pins2lts-sym: reachability over sets of state vectors.  A  *)
(* guide (reach.c) calls a saturation strategy (sat.c), which calls an           *)
(* exploration order (bfs.c, chain.c), which learns the transition groups while  *)
(* it goes (auxiliary.c) and looks for deadlocks, actions and violated           *)
(* invariants (prop.c).  Sets are mathematical sets: what vset-lib promises of   *)
(* them is VectorSet.  Groups, guards and classes are numbered from 1, vector    *)
(* positions and saturation levels from 0 as in the code.                        *)
EXTENDS Projections, FiniteSets, SequencesExt, FiniteSetsExt

CONSTANT Jobs \* the models and options to run with; see MCSymTool

\* max_sat_levels of a run.
SatLevels(j) == (Len(j.model.init) \div j.gran) + 1

\* The runs that the code has room for: prev_vis[nGrps] of reach_sat_like and
\* reach_sat_loop is indexed by level.  No language module has both guards and an
\* inhibit matrix; a leaf whose guards are all false would count as enabled.
ASSUME JobsAssumption ==
    \A j \in Jobs :
        /\ j.sat \in {"sat_like", "sat_loop"} => SatLevels(j) <= Len(j.model.proj)
        /\ j.model.classes > 0 => j.model.lproj = <<>>

VARIABLES
    job,        \* the model and the options of this run
    pc,         \* what runs next
    visited,    \* the states found so far
    known,      \* group_next, group_explored, label_true and label_false, ErrorActions
    guide,      \* directed and unguided: reach_groups, and the ones to come
    sat,        \* the saturation strategies: k, last, old_vis and prev_vis
    loc,        \* the locals of the exploration order
    report,     \* dlk_detect, and what was reported
    levels      \* the sets saved for the construction of a trace

vars == <<job, pc, visited, known, guide, sat, loc, report, levels>>

M == job.model
Group == 1..Len(M.proj)
Label == 1..Len(M.lproj)
N == Len(M.init)
Guarded == Label # {}                    \* PINS_USE_GUARDS
Class == 1..M.classes                    \* none without an inhibit matrix
Inhibiting == M.classes > 0

\* A row of the dependency matrix: what the group and its guards read or write.
Row(g) == Range(M.proj[g]) \cup
          IF Guarded THEN UNION {Range(M.lproj[l]) : l \in Range(M.guards[g])} ELSE {}

--------------------------------------------------------------------------------
(* Learning transitions and guards (auxiliary.c).                                *)

\* The short transitions the model has for the short vectors of S that are new, and
\* the last step of a trace for those with the action that is looked for.
expand_group_next(kn0, g, S) ==
    Then(kn0, LAMBDA kn :
        LET tmp == Project(S, M.proj[g]) \ kn.explored[g]
            new == {t \in M.trans[g] : t.src \in tmp}
        IN  [kn EXCEPT !.rel[g] = @ \cup {<<t.src, t.dst>> : t \in new},
                       !.explored[g] = @ \cup tmp,
                       !.ends = @ \cup UNION {{<<Written(s, M.proj[g], t.dst), s>> :
                                    s \in {v \in S : Projected(v, M.proj[g]) = t.src}} :
                                    t \in {u \in new : u.act = job.act}}])

expand_groups(kn, groups, S) ==
    FoldLeftDomain(LAMBDA r, g : IF g \in groups THEN expand_group_next(r, g, S) ELSE r, kn, M.proj)

\* A label is evaluated once for every short vector; "maybe" is false and, while the
\* soundness of the guards is checked, true as well.
eval_label(kn0, l, S) ==
    Then(kn0, LAMBDA kn :
        LET tmp == (Project(S, M.lproj[l]) \ kn.false[l]) \ kn.true[l]
        IN  [kn EXCEPT !.false[l] = @ \cup {v \in tmp : M.value[l][v] \in {0, 2}},
                       !.true[l] = @ \cup {v \in tmp : M.value[l][v] \in IF job.sound THEN {1, 2} ELSE {1}}])

learn_guards(kn, S) == IF Guarded THEN FoldLeftDomain(LAMBDA r, l : eval_label(r, l, S), kn, M.lproj) ELSE kn

\* For the states seen so far the guards are sound: every "maybe" is a false.
DropMaybes(kn, ls) ==
    IF job.sound THEN [kn EXCEPT !.true = [l \in Label |-> IF l \in ls THEN @[l] \ kn.false[l] ELSE @[l]]] ELSE kn

\* The states of S that pass the guards of g as far as they were evaluated.
reduce(kn, g, S) ==
    IF Guarded THEN {s \in S : \A l \in Range(M.guards[g]) : Projected(s, M.lproj[l]) \in kn.true[l]} ELSE S

\* One guard of learn_guards_reduce: r.set is what is left of the set.
Guard(r0, l) ==
    Then(r0, LAMBDA r :
        IF r.set = {} \/ r.unsound THEN r
        ELSE Then(eval_label(r.kn, l, r.set), LAMBDA kn :
            LET proj == M.lproj[l]
                maybe == Join(r.set, proj, kn.true[l] \cap kn.false[l])
            IN  [kn |-> kn,
                 set |-> Join(r.set, proj, kn.true[l]),
                 maybes |-> r.maybes \cup maybe,
                 falses |-> (r.falses \cup Join(r.set, proj, kn.false[l])) \ maybe,
                 unsound |-> job.sound /\ ~M.mf /\ kn.true[l] \cap kn.false[l] # {}]))

\* The states of S in which g is enabled, with the guards of g evaluated in order.
learn_guards_reduce(kn, g, S) ==
    IF ~Guarded THEN [kn |-> kn, set |-> S, unsound |-> FALSE]
    ELSE Then(FoldLeft(Guard, [kn |-> kn, set |-> S, maybes |-> {}, falses |-> {}, unsound |-> FALSE], M.guards[g]),
            LAMBDA r : [kn |-> DropMaybes(r.kn, Range(M.guards[g])), set |-> r.set,
                        unsound |-> r.unsound \/ (job.sound /\ M.mf /\ r.maybes \ r.falses # {})])

\* The tree that combines the guards of a group: t are the states for which they are
\* true or maybe, f the ones for which they are false or maybe.
RECURSIVE reach_bfs_reduce(_, _, _)
reach_bfs_reduce(kn, S, guards) ==
    IF Len(guards) = 1
    THEN [t |-> Join(S, M.lproj[guards[1]], kn.true[guards[1]]),
          f |-> IF job.sound THEN Join(S, M.lproj[guards[1]], kn.false[guards[1]]) ELSE {}]
    ELSE LET h == Len(guards) \div 2
             y == reach_bfs_reduce(kn, S, SubSeq(guards, 1, h))
             z == reach_bfs_reduce(kn, S, SubSeq(guards, h + 1, Len(guards)))
             maybe == ((y.f \cap y.t) \ (IF M.mf THEN z.f ELSE {})) \cup ((z.f \cap z.t) \ y.f)
         IN  IF job.sound THEN [t |-> (y.t \cap z.t) \cup maybe, f |-> y.f \cup z.f \cup maybe]
             ELSE [t |-> y.t \cap z.t, f |-> {}]

\* vset_next_fn, and vset_prev with its universe.
Next_(kn, g, S) == Image(S, M.proj[g], kn.rel[g]) \cup IF job.union THEN S ELSE {}
Prev_(kn, g, S, univ) == PreImage(S, M.proj[g], kn.rel[g]) \cap univ

--------------------------------------------------------------------------------
(* Traces (prop.c).                                                              *)

\* The states from which a group leads into L, group by group until one of them is
\* in the level that is looked for.
TraceBack(kn, lv, L, level) ==
    LET temp == [g \in Group |-> reduce(kn, g, Prev_(kn, g, L, Last(lv)))]
        hits == {g \in Group : temp[g] \cap level # {}}
        done == IF hits = {} THEN Group ELSE {g \in Group : g <= Min(hits)}
    IN  [all |-> UNION {temp[g] : g \in done}, hit |-> IF hits = {} THEN {} ELSE temp[Min(hits)] \cap level]

\* int_levels, and the states of the level that were found; none when the search back
\* ends without one, where the code calls Abort or goes on for ever.
RECURSIVE IntLevels(_, _, _, _)
IntLevels(kn, lv, ints, level) ==
    Then(TraceBack(kn, lv, Last(ints), level), LAMBDA r :
        IF r.hit # {} \/ r.all \subseteq UNION Range(ints) THEN [ints |-> ints, hit |-> r.hit]
        ELSE IntLevels(kn, lv, Append(ints, r.all), level))

\* The ways down from x through the int_levels 1 .. i, nearest state first.
RECURSIVE Down(_, _, _, _)
DownAnywhere(kn, x, i, ints) ==
    IF i = 0 THEN {<<x>>}
    ELSE UNION {{Append(d, x) : d \in Down(kn, y, i - 1, ints)} : y \in ints[i + 1] \ {x}}

Down(kn, x, i, ints) ==
    IF i = 0 THEN {<<x>>}
    ELSE UNION {{Append(d, x) : d \in Down(kn, y, i - 1, ints)} :
                  y \in (UNION {Next_(kn, g, {x}) : g \in Group} \cap ints[i + 1]) \ {x}}

\* find_trace_to: the state sequences it may write, last state first.
RECURSIVE find_trace_to(_, _, _, _)
find_trace_to(kn, lv, states, prev_level) ==
    IF prev_level < 0 THEN {states}
    ELSE IF Last(states) \in lv[prev_level + 1] THEN find_trace_to(kn, lv, states, prev_level - 1)
    ELSE LET r == IntLevels(kn, lv, <<{Last(states)}>>, lv[prev_level + 1])
         IN  UNION {find_trace_to(kn, lv, states \o d, prev_level - 1) :
                      d \in UNION {Down(kn, x, Len(r.ints) - 1, r.ints) : x \in r.hit}}

\* The traces for the ends found since known, last state first.
find_trace(kn, lv, ends) ==
    IF job.trace THEN UNION {find_trace_to(kn, lv, e, Len(lv) - 2) : e \in ends} ELSE {}

--------------------------------------------------------------------------------
(* Looking for errors (prop.c).                                                  *)

check_invariants(rep, S) == [rep EXCEPT !.inv = @ \cup {i \in DOMAIN M.inv : ~(S \subseteq M.inv[i])}]

\* The groups that were not explored may still have a transition from a state of D.
DeadlockGroupNone(r0, g, groups) == r0

DeadlockGroup(r0, g, groups) ==
    Then(r0, LAMBDA r :
        IF g \in groups \/ r.unsound THEN r
        ELSE Then(learn_guards_reduce(r.kn, g, r.dead), LAMBDA red :
             Then(expand_group_next(red.kn, g, red.set), LAMBDA kn :
                [kn |-> kn, unsound |-> red.unsound,
                 dead |-> r.dead \ reduce(kn, g, Prev_(kn, g, Next_(kn, g, red.set), red.set))])))

deadlock_check(kn, D, groups) ==
    Then([kn |-> kn, dead |-> IF report.dlk THEN D ELSE {}, unsound |-> FALSE], LAMBDA r0 :
        IF r0.dead = {} THEN r0 ELSE FoldLeftDomain(LAMBDA r, g : DeadlockGroup(r, g, groups), r0, M.proj))

\* What deadlock_check reports for the states that are left: any state that is not a
\* valid end state; after the first report dlk_detect is off.
DeadlockReport(rep, r, lv) ==
    LET bad == r.dead \ M.valid
    IN  [rep EXCEPT !.dlk = @ /\ bad = {}, !.unsound = @ \/ r.unsound,
                    !.dead = @ \cup bad, !.traces = @ \cup find_trace(r.kn, lv, {<<e>> : e \in bad} \cup (r.kn.ends \ known.ends))]

\* Where control goes: the program ends when a guard is unsound, and without no_exit
\* when all invariants are violated or a deadlock was found.
Ends(rep) ==
    rep.unsound \/ (~job.no_exit /\ (rep.dead # {} \/ (rep.inv = DOMAIN M.inv /\ rep.inv # {})))

Goto(l, rep) == report' = rep /\ pc' = IF Ends(rep) THEN "exit" ELSE l

\* reach_chain_stop after the relations grew to kn: the program ends when the action
\* was found, without no_exit.
StopOr(l, rep, kn, lv) ==
    /\ report' = [rep EXCEPT !.traces = @ \cup find_trace(kn, lv, kn.ends \ known.ends)]
    /\ pc' = IF Ends(rep) \/ (~job.no_exit /\ kn.ends # {}) THEN "exit" ELSE l

--------------------------------------------------------------------------------
(* The exploration orders (bfs.c, chain.c).                                      *)

Chaining == job.order \in {"chain", "chain_prev"}
OnlyNew == job.order \in {"bfs_prev", "chain_prev", "par_prev"}
Parallel == job.order \in {"par", "par_prev"}

NoLocals == [groups |-> {}, ret |-> "none", cur |-> {}, old |-> {}, dead |-> {}, todo |-> {},
             class |-> 0, set |-> {}, cont |-> {}, anc |-> {}, next |-> {}, unsound |-> FALSE]

\* reach_proc(visited, base, groups, ...) is called; ret is what goes on after it.
Explore(groups, base, ret) ==
    /\ loc' = [NoLocals EXCEPT !.groups = groups, !.ret = ret,
                               !.cur = IF ~OnlyNew THEN {} ELSE IF job.save THEN visited \ base ELSE visited]
    /\ pc' = "level"

FirstClass == IF Inhibiting THEN 1 ELSE 0

\* The states the loop of the order starts a level from.
From == IF OnlyNew THEN loc.cur ELSE visited

Saved == IF job.trace THEN Append(levels, visited) ELSE levels

\* The head of the loop of reach_bfs, reach_par and reach_chain: until nothing is new.
Level ==
    /\ pc = "level" /\ ~OnlyNew
    /\ IF loc.old = visited
       THEN loc' = NoLocals /\ pc' = loc.ret /\ UNCHANGED levels
       ELSE /\ loc' = [loc EXCEPT !.old = visited, !.dead = visited, !.todo = Group, !.class = FirstClass]
            /\ levels' = IF Chaining THEN levels ELSE Saved
            /\ pc' = IF Chaining THEN "group" ELSE "class"
    /\ UNCHANGED <<job, visited, known, guide, sat, report>>

\* The head of the loop of reach_bfs_prev, reach_par_prev and reach_chain_prev: from the
\* states the last level found.
LevelPrev ==
    /\ pc = "level" /\ OnlyNew
    /\ IF loc.cur = {}
       THEN loc' = NoLocals /\ pc' = loc.ret /\ UNCHANGED <<known, levels>>
       ELSE /\ loc' = [loc EXCEPT !.dead = loc.cur, !.next = {}, !.todo = Group, !.class = FirstClass]
            /\ known' = IF Chaining THEN known ELSE [known EXCEPT !.enabled = [c \in Class |-> {}]]
            /\ levels' = IF Chaining THEN levels ELSE Saved
            /\ pc' = IF Chaining THEN "group" ELSE "class"
    /\ UNCHANGED <<job, visited, guide, sat, report>>

\* The next group in order; a group that is not selected is passed over.
NextGroup(g) == pc = "group" /\ loc.todo # {} /\ g = Min(loc.todo)
PassGroup(g) ==
    /\ NextGroup(g) /\ g \notin loc.groups
    /\ loc' = [loc EXCEPT !.todo = @ \ {g}]
    /\ UNCHANGED <<job, pc, visited, known, guide, sat, report, levels>>

\* One group of reach_chain: what it finds is visited at once.
ChainGroup(g) ==
    /\ NextGroup(g) /\ g \in loc.groups /\ ~OnlyNew
    /\ levels' = Saved
    /\ \E r \in {learn_guards_reduce(known, g, visited)} :
       \E kn \in {IF r.unsound THEN r.kn ELSE expand_group_next(r.kn, g, r.set)} :
       \E temp \in {IF r.unsound THEN {} ELSE Next_(kn, g, r.set)} :
            /\ known' = kn
            /\ visited' = visited \cup temp
            /\ loc' = [loc EXCEPT !.todo = @ \ {g}, !.dead = @ \ reduce(kn, g, Prev_(kn, g, temp, @))]
            /\ StopOr("group", [report EXCEPT !.unsound = r.unsound], kn, Saved)
    /\ UNCHANGED <<job, guide, sat>>

\* One group of reach_chain_prev: what it finds joins the new states.
ChainPrevGroup(g) ==
    /\ NextGroup(g) /\ g \in loc.groups /\ OnlyNew
    /\ levels' = Saved
    /\ \E r \in {learn_guards_reduce(known, g, loc.cur)} :
       IF r.unsound \/ r.set = {}
       THEN /\ known' = r.kn
            /\ loc' = [loc EXCEPT !.todo = @ \ {g}]
            /\ Goto("group", [report EXCEPT !.unsound = r.unsound])
       ELSE \E kn \in {expand_group_next(r.kn, g, r.set)} :
            \E temp \in {Next_(kn, g, r.set)} :
                /\ known' = kn
                /\ loc' = [loc EXCEPT !.todo = @ \ {g}, !.cur = @ \cup (temp \ visited),
                                      !.dead = @ \ reduce(kn, g, Prev_(kn, g, temp, @))]
                /\ StopOr("group", report, kn, Saved)
    /\ UNCHANGED <<job, visited, guide, sat>>

\* A class of maximal progress, or all groups: the states to go on from.
ClassStart ==
    /\ pc = "class"
    /\ \E set \in {From \ UNION {known.enabled[i] : i \in {j \in 1..loc.class - 1 : <<j, loc.class>> \in M.inhibit}}} :
        /\ known' = learn_guards(known, set)
        /\ loc' = [loc EXCEPT !.set = set, !.todo = Group, !.cont = {}, !.anc = {}, !.unsound = FALSE]
    /\ pc' = "leaf"
    /\ UNCHANGED <<job, visited, guide, sat, report, levels>>

\* A leaf of the tree of groups.  A leaf that has nothing to do hands the set back as it
\* got it, and unless it is not selected the ancestors too.
LeafStep(g) ==
    /\ \E off \in {g \notin loc.groups \/ (Inhibiting /\ M.class[g] # loc.class)} :
       \E red \in {IF Guarded THEN reach_bfs_reduce(known, loc.set, M.guards[g]) ELSE [t |-> loc.set, f |-> {}]} :
       IF off \/ (Guarded /\ red.t = {})
       THEN /\ loc' = [loc EXCEPT !.todo = @ \ {g}, !.cont = @ \cup loc.set,
                                  !.anc = IF off THEN @ ELSE @ \cup loc.set]
            /\ UNCHANGED <<known, report>>
       ELSE \E kn \in {expand_group_next(known, g, red.t)} :
            \E cont \in {Next_(kn, g, red.t)} :
            \E anc \in {reduce(kn, g, Prev_(kn, g, cont, loc.set))} :
                /\ known' = kn
                /\ report' = [report EXCEPT !.traces = @ \cup find_trace(kn, levels, kn.ends \ known.ends)]
                /\ loc' = [loc EXCEPT !.todo = @ \ {g}, !.cont = @ \cup cont, !.dead = @ \ anc,
                                      !.anc = @ \cup anc, !.unsound = @ \/ red.t \cap red.f # {}]
    /\ UNCHANGED <<job, pc, visited, guide, sat, levels>>

\* reach_bfs_next goes through the tree from left to right, the tasks of reach_par_next
\* run in any order; unions and intersections join what they return.
Leaf(g) == pc = "leaf" /\ ~Parallel /\ loc.todo # {} /\ g = Min(loc.todo) /\ LeafStep(g)
ParLeaf(g) == pc = "leaf" /\ Parallel /\ g \in loc.todo /\ LeafStep(g)

\* All leaves are back: reach_stop, and what they found is added.
ClassEnd ==
    /\ pc = "leaf" /\ loc.todo = {}
    /\ known' = LET kn == IF Guarded THEN DropMaybes(known, Label) ELSE known
                IN  IF Inhibiting
                    THEN [kn EXCEPT !.enabled[loc.class] = IF OnlyNew THEN loc.anc ELSE @ \cup loc.anc]
                    ELSE kn
    /\ loc' = [loc EXCEPT !.next = @ \cup (loc.cont \ visited), !.class = @ + 1]
    /\ StopOr(IF loc.class < M.classes THEN "class" ELSE "level_end",
              [report EXCEPT !.unsound = loc.unsound], known, levels)
    /\ UNCHANGED <<job, visited, guide, sat, levels>>

\* The end of a level: new is added to the visited states; invariants are checked here
\* unless a saturation strategy does it, then the states left are checked for deadlocks.
EndLevel(new, cur, checked) ==
    /\ \E rep \in {IF job.sat = "no_sat" THEN check_invariants(report, checked) ELSE report} :
       \E r \in {deadlock_check(known, loc.dead, loc.groups)} :
            /\ visited' = visited \cup new
            /\ known' = r.kn
            /\ loc' = [loc EXCEPT !.cur = cur, !.next = {}]
            /\ Goto("level", IF Ends(rep) THEN rep ELSE DeadlockReport(rep, r, levels))
    /\ UNCHANGED <<job, guide, sat, levels>>

BfsEnd == pc = "level_end" /\ ~OnlyNew /\ EndLevel(loc.next, {}, visited \cup loc.next)
BfsPrevEnd == pc = "level_end" /\ OnlyNew /\ EndLevel(loc.next, loc.next, loc.next)
ChainEnd == pc = "group" /\ loc.todo = {} /\ ~OnlyNew /\ EndLevel({}, {}, visited)

\* vset_zip: the visited states grow by the new ones, and those visited before are not new.
ChainPrevEndUnzipped == pc = "group" /\ loc.todo = {} /\ OnlyNew /\ EndLevel(loc.cur, loc.cur, loc.cur)
ChainPrevEnd == pc = "group" /\ loc.todo = {} /\ OnlyNew /\ EndLevel(loc.cur, loc.cur \ visited, loc.cur)

--------------------------------------------------------------------------------
(* The saturation strategies (sat.c).                                            *)

MaxSat == SatLevels(job)

\* initialize_levels: the level of a group is that of the first position it depends on.
LevelOf(g) == IF Row(g) = {} THEN 0 ELSE (N - Min(Row(g)) - 1) \div job.gran
LevelGroups(k) == {g \in sat.groups : LevelOf(g) = k}
LevelRow(k) == UNION {Row(g) : g \in {h \in Group : LevelOf(h) = k}}
Back(k) ==
    LET over == {j \in 0..k - 1 : LevelRow(j) \cap LevelRow(k) # {}}
    IN  IF over # {} THEN Min(over) ELSE IF LevelRow(k) # {} THEN k + 1 ELSE MaxSat

SatStart(groups) ==
    [groups |-> groups, k |-> 0, last |-> -1, old |-> {}, prev |-> [k \in 0..Len(M.proj) - 1 |-> {}]]

\* Level k is saturated with the groups of the level, or skipped.
SatLike ==
    /\ pc = "sat_like"
    /\ IF sat.k = MaxSat
       THEN pc' = "guide" /\ UNCHANGED <<sat, loc>>
       ELSE IF sat.k = sat.last \/ LevelGroups(sat.k) = {}
       THEN sat' = [sat EXCEPT !.k = @ + 1] /\ UNCHANGED <<pc, loc>>
       ELSE /\ sat' = [sat EXCEPT !.old = visited]
            /\ Explore(LevelGroups(sat.k), sat.prev[sat.k], "sat_like_return")
    /\ UNCHANGED <<job, visited, known, guide, report, levels>>

SatLikeReturn ==
    /\ pc = "sat_like_return"
    /\ sat' = LET s == [sat EXCEPT !.prev[sat.k] = IF job.save THEN visited ELSE @]
              IN  IF sat.old = visited THEN [s EXCEPT !.k = @ + 1] ELSE [s EXCEPT !.last = sat.k, !.k = Back(sat.k)]
    /\ Goto("sat_like", check_invariants(report, visited))
    /\ UNCHANGED <<job, visited, known, guide, loc, levels>>

\* reach_sat_loop: all levels in turn, until nothing changes.
SatLoop ==
    /\ pc = "sat_loop"
    /\ IF sat.k = 0 /\ sat.old = visited
       THEN pc' = "guide" /\ UNCHANGED <<sat, loc>>
       ELSE LET s == [sat EXCEPT !.old = IF sat.k = 0 THEN visited ELSE @]
            IN  IF LevelGroups(sat.k) = {}
                THEN sat' = [s EXCEPT !.k = (@ + 1) % MaxSat] /\ UNCHANGED <<pc, loc>>
                ELSE sat' = s /\ Explore(LevelGroups(sat.k), sat.prev[sat.k], "sat_loop_return")
    /\ UNCHANGED <<job, visited, known, guide, report, levels>>

SatLoopReturnShared ==
    /\ pc = "sat_loop_return"
    /\ sat' = [sat EXCEPT !.prev = [k \in DOMAIN @ |-> IF job.save THEN visited ELSE {}], !.k = (@ + 1) % MaxSat]
    /\ Goto("sat_loop", check_invariants(report, visited))
    /\ UNCHANGED <<job, visited, known, guide, loc, levels>>

SatLoopReturn ==
    /\ pc = "sat_loop_return"
    /\ sat' = [sat EXCEPT !.prev[sat.k] = IF job.save THEN visited ELSE @, !.k = (@ + 1) % MaxSat]
    /\ Goto("sat_loop", check_invariants(report, visited))
    /\ UNCHANGED <<job, visited, known, guide, loc, levels>>

\* vset_least_fixpoint: the groups of expand learn their relation on the way.
RECURSIVE least_fixpoint(_, _, _)
least_fixpoint(kn, S, expand) ==
    Then(expand_groups(kn, expand, S), LAMBDA k2 :
        Then(S \cup UNION {Image(S, M.proj[g], k2.rel[g]) : g \in Group}, LAMBDA T :
            IF T = S THEN [kn |-> k2, set |-> S] ELSE least_fixpoint(k2, T, expand)))

\* What is left of D when the states with a known successor are taken out.
NoSuccessor(kn, D, all) == D \ UNION {Prev_(kn, g, all, D) : g \in Group}

\* One iteration of reach_sat_fix.
SatFix ==
    /\ pc = "sat_fix"
    /\ IF visited = sat.old
       THEN pc' = "guide" /\ UNCHANGED <<visited, known, sat, report, levels>>
       ELSE \E kn \in {expand_groups(known, sat.groups, visited)} :
            \E fix \in {least_fixpoint(kn, visited, {}).set} :
            \E rep \in {check_invariants(report, fix)} :
            \E r \in {deadlock_check(kn, NoSuccessor(kn, visited, fix), sat.groups)} :
                /\ levels' = Saved
                /\ sat' = [sat EXCEPT !.old = visited]
                /\ visited' = fix
                /\ known' = r.kn
                /\ StopOr("sat_fix",
                          CASE ~job.no_exit /\ kn.ends # {} -> report
                            [] OTHER -> IF Ends(rep) THEN rep ELSE DeadlockReport(rep, r, Saved), kn, Saved)
    /\ UNCHANGED <<job, guide, loc>>

\* reach_sat: one fixpoint, which learns the relations itself.
Sat ==
    /\ pc = "sat"
    /\ \E fix \in {least_fixpoint(known, visited, sat.groups)} :
       \E rep \in {check_invariants(report, fix.set)} :
       \E r \in {deadlock_check(fix.kn, NoSuccessor(fix.kn, fix.set, fix.set), sat.groups)} :
            /\ levels' = Saved
            /\ visited' = fix.set
            /\ known' = r.kn
            /\ Goto("guide", IF Ends(rep) THEN rep ELSE DeadlockReport(rep, r, Saved))
    /\ UNCHANGED <<job, guide, sat, loc>>

--------------------------------------------------------------------------------
(* The guides (reach.c).                                                         *)

\* establish_group_order: first the groups with the action, then one group at a time
\* that writes what one of those found reads.
RECURSIVE GroupOrder(_)
GroupOrder(found) ==
    LET over == {p \in found \X (Group \ found) : M.wr[p[2]] \cap M.rd[p[1]] # {}}
        i == Min({p[1] : p \in over})
        j == Min({p[2] : p \in {q \in over : q[1] = i}})
    IN  IF over = {} THEN <<found>> ELSE <<found>> \o GroupOrder(found \cup {j})

ActionGroups == {g \in Group : \E t \in M.trans[g] : t.act = job.act}

Rounds ==
    IF job.guide = "unguided" THEN <<Group>>
    ELSE Append(GroupOrder(ActionGroups), Group)

\* The next call of sat_proc; directed ends with all groups only for deadlock detection.
Guide ==
    /\ pc = "guide"
    /\ IF guide = <<>> \/ (job.guide = "directed" /\ Len(guide) = 1 /\ ~report.dlk)
       THEN pc' = "end" /\ UNCHANGED <<guide, sat, loc>>
       ELSE /\ guide' = Tail(guide)
            /\ sat' = SatStart(Head(guide))
            /\ IF job.sat = "no_sat" THEN Explore(Head(guide), {}, "guide") ELSE pc' = job.sat /\ UNCHANGED loc
    /\ UNCHANGED <<job, visited, known, report, levels>>

--------------------------------------------------------------------------------
(* actual_main: the initial state is checked, then the reachable states are found. *)

Init ==
    /\ job \in Jobs
    /\ pc = "start"
    /\ visited = {M.init}
    /\ known = [rel |-> [g \in Group |-> {}], explored |-> [g \in Group |-> {}], ends |-> {},
                true |-> [l \in Label |-> {}], false |-> [l \in Label |-> {}], enabled |-> [c \in Class |-> {}]]
    /\ guide = Rounds
    /\ sat = SatStart({})
    /\ loc = NoLocals
    /\ report = [dlk |-> job.dlk, dead |-> {}, inv |-> {}, unsound |-> FALSE, traces |-> {}]
    /\ levels = <<>>

Start ==
    /\ pc = "start"
    /\ Goto("guide", check_invariants(report, visited))
    /\ UNCHANGED <<job, visited, known, guide, sat, loc, levels>>

Next ==
    \/ Start
    \/ Guide
    \/ SatLike
    \/ SatLikeReturn
    \/ SatLoop
    \/ SatLoopReturn
    \/ SatFix
    \/ Sat
    \/ Level
    \/ LevelPrev
    \/ ClassStart
    \/ ClassEnd
    \/ BfsEnd
    \/ BfsPrevEnd
    \/ ChainEnd
    \/ ChainPrevEnd
    \/ \E g \in Group : PassGroup(g) \/ ChainGroup(g) \/ ChainPrevGroup(g) \/ Leaf(g) \/ ParLeaf(g)

Spec == Init /\ [][Next]_vars

--------------------------------------------------------------------------------
(* What the model can do, state by state.                                        *)

Holds(m, s, g) == \A l \in Range(m.guards[g]) : m.value[l][Projected(s, m.lproj[l])] = 1
Taken(m, s, g) ==
    IF Holds(m, s, g) THEN {t \in m.trans[g] : t.src = Projected(s, m.proj[g])} ELSE {}

\* Maximal progress: a class is passed over while a class that inhibits it can move.
Moves(m, s) ==
    LET eff[c \in 1..m.classes] ==
            /\ \E g \in DOMAIN m.proj : m.class[g] = c /\ Taken(m, s, g) # {}
            /\ \A i \in 1..c - 1 : <<i, c>> \in m.inhibit => ~eff[i]
    IN  {g \in DOMAIN m.proj : Taken(m, s, g) # {} /\ (m.classes = 0 \/ eff[m.class[g]])}

Successors(m, s) == UNION {{Written(s, m.proj[g], t.dst) : t \in Taken(m, s, g)} : g \in Moves(m, s)}

RECURSIVE ReachFrom(_, _)
ReachFrom(m, S) ==
    Then(S \cup UNION {Successors(m, s) : s \in S}, LAMBDA T : IF T = S THEN S ELSE ReachFrom(m, T))

Expected ==
    [m \in {j.model : j \in Jobs} |->
        Then(ReachFrom(m, {m.init}), LAMBDA R :
            [states |-> R,
             dead |-> {s \in R : Moves(m, s) = {} /\ s \notin m.valid},
             inv |-> {i \in DOMAIN m.inv : ~(R \subseteq m.inv[i])},
             acts |-> UNION {UNION {{t.act : t \in Taken(m, s, g)} : g \in Moves(m, s)} : s \in R}])]

Over == pc \in {"end", "exit"}

--------------------------------------------------------------------------------
(* Properties.                                                                   *)

\* Whatever the order, the saturation strategy and the guide: only reachable states are
\* visited, and when all groups took part the visited set is the reachable set.
\* reach_sat_like may skip level `last` and step forward from level k: the visited set is
\* closed under the groups of all lower levels and of the level saturated last, although
\* back[k] passes over the levels that do not overlap with level k.  The relation of a
\* group holds exactly the transitions of the short vectors it was explored for, and at
\* the end those are all that a reachable state can use: what the ETF output and the
\* mu-calculus checker go by.
SearchExact ==
    /\ visited \subseteq Expected[M].states
    /\ (pc = "end" /\ (job.guide = "unguided" \/ (job.dlk /\ report.dead = {}))) => visited = Expected[M].states
    /\ pc = "sat_like" =>
          \A s \in visited, g \in sat.groups :
             LevelOf(g) < sat.k \/ LevelOf(g) = sat.last =>
                \A t \in Taken(M, s, g) : Written(s, M.proj[g], t.dst) \in visited
    /\ \A g \in Group :
          /\ known.rel[g] = {<<t.src, t.dst>> : t \in {u \in M.trans[g] : u.src \in known.explored[g]}}
          /\ known.explored[g] \subseteq Project(Expected[M].states, M.proj[g])
          /\ (pc = "end" /\ job.guide = "unguided") =>
                \A s \in visited : g \in Moves(M, s) => Projected(s, M.proj[g]) \in known.explored[g]

\* A guard has no answer in a reachable state: it evaluates to "maybe" while no other
\* guard of its group is false (before it, when the order of evaluation counts).
Unanswered ==
    \E s \in Expected[M].states, g \in Group :
        LET val(i) == M.value[M.guards[g][i]][Projected(s, M.lproj[M.guards[g][i]])]
        IN  \E i \in DOMAIN M.guards[g] :
                val(i) = 2 /\ \A j \in DOMAIN M.guards[g] : (M.mf \/ j < i) => val(j) # 0

\* What is reported is there, and a search that runs to its end reports what is there.
\* Deadlocks are reachable states without a step that are no valid end states, found also
\* when a guide or a saturation level explored only some of the groups; the action is
\* found exactly when a reachable state can take it, also by the directed search, which
\* leaves out the groups that cannot lead to it; a full search reports exactly the
\* violated invariants; and guards are called unsound only when one has no answer.
VerdictsExact ==
    /\ report.dead \subseteq Expected[M].dead
    /\ (pc = "end" /\ job.dlk /\ Expected[M].dead # {}) => report.dead # {}
    /\ known.ends # {} => job.act \in Expected[M].acts
    /\ (pc = "end" /\ job.act \in Expected[M].acts) => known.ends # {}
    /\ report.inv \subseteq Expected[M].inv
    /\ (pc = "end" /\ job.guide = "unguided") => report.inv = Expected[M].inv
    /\ report.unsound => Unanswered

\* find_trace: a trace leads from the initial state over steps of the model to a reported
\* deadlock or over the action looked for.  With a deadlock there is a trace, and with an
\* action too if the state that takes it is in the last level that was saved.  (It need
\* not be with reach_chain_prev, which saves the visited states and goes on from newer
\* ones; find_trace_to then finds no ancestor and calls Abort.)
TracesReal ==
    /\ \A tr \in report.traces :
        LET p == Reverse(tr)
        IN  /\ p[1] = M.init
            /\ \A i \in 1..Len(p) - 1 : p[i + 1] \in Successors(M, p[i])
            /\ tr[1] \in report.dead \/ SubSeq(tr, 1, 2) \in known.ends
    /\ (Over /\ job.trace /\ (report.dead # {} \/ \E e \in known.ends : e[2] \in Last(levels))) => report.traces # {}
================================================================================
