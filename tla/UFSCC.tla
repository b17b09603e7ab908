-------------------------------- MODULE UFSCC --------------------------------
(***************************************************************************)
(* The parallel SCC algorithm of the multi-core tool                       *)
(* (pins2lts-mc/algorithm/ufscc.c) on top of the union-find structure: the *)
(* workers search the graph from the initial state, each in its own order, *)
(* unite the states of the cycles they close, and declare a set dead when  *)
(* its list is empty.  A worker runs the step of UnionFind while it is in  *)
(* an operation, and the steps below in between; these touch only its own  *)
(* stacks, but for the flag of the run and the read of list_status.        *)
(***************************************************************************)
EXTENDS UnionFind, Sequences, SequencesExt

CONSTANTS
    Initial,   \* the initial state
    Models     \* the graphs that may be searched

Edge == [from : State, to : State, acc : SUBSET Mark]

\* ltl tells whether the accepting states of a BA, the marks of a TGBA or
\* neither count.
ASSUME ModelAssumption ==
    /\ Initial \in State
    /\ Models \subseteq [edges : SUBSET Edge, ltl : {"none", "BA", "TGBA"},
                          accepting : SUBSET State]

VARIABLES
    model,         \* the graph
    wpc,           \* where the worker is: what it does when pc is "ready"
    search_stack,  \* the frames of the worker, the last one on top
    roots_stack,   \* its roots stack
    work,          \* its local variables
    lasso,         \* a lasso was reported and the run stopped
    unique_states, \* the counters, summed over the workers (ufscc_reduce)
    scc_count

stacks == <<search_stack, roots_stack>>
counters == <<unique_states, scc_count>>
vars == <<model, ufvars, wpc, stacks, work, lasso, counters>>

\* An entry of a stack: a state and the marks of the transition to it.
Entry == [s : State, acc : SUBSET Mark]

\* state and target as in the code (ctx->state and loc->target); root and
\* acc_set those of the uniting loop, accepting its accepting state; loops are
\* the marks of the self-loops still to handle.
Work == [state : [s : Ref, acc : SUBSET Mark], target : Ref,
         root : [s : Ref, acc : SUBSET Mark], acc_set : SUBSET Mark,
         accepting : BOOLEAN, loops : SUBSET (SUBSET Mark)]

NoEntry == [s |-> 0, acc |-> {}]
NoWork == [state |-> NoEntry, target |-> 0, root |-> NoEntry, acc_set |-> {},
           accepting |-> FALSE, loops |-> {}]

Init ==
    /\ model \in Models
    /\ UFInit
    /\ wpc = [t \in Thread |-> "init"]
    /\ search_stack = [t \in Thread |-> << <<>> >>]
    /\ roots_stack = [t \in Thread |-> <<>>]
    /\ work = [t \in Thread |-> NoWork]
    /\ lasso = FALSE
    /\ unique_states = 0
    /\ scc_count = 0

-----------------------------------------------------------------------------
(* The stacks                                                              *)

At(t, l) == wpc[t] = l /\ pc[t] = "ready"
To(t, l) == wpc' = [wpc EXCEPT ![t] = l]

\* The worker is back in the loop of ufscc_run; its local variables are dead.
Loop(t) ==
    /\ To(t, "loop")
    /\ work' = [work EXCEPT ![t] = NoWork]

PushTop(stack, entry) == Front(stack) \o << Append(Last(stack), entry) >>
PopTop(stack) == Front(stack) \o << Front(Last(stack)) >>

\* dfs_stack_peek_top (stack, 1): the state the top frame belongs to.
Below(stack) == Last(stack[Len(stack) - 1]).s

\* explore_state: push the state on the roots stack and its successors, in any
\* order, in a new frame of stack.  A self-loop is not pushed.
Explore(t, stack, state) ==
    LET out == {e \in model.edges : e.from = state.s}
        succs == {[s |-> e.to, acc |-> e.acc] :
                     e \in {e \in out : e.to # state.s}}
        loops == {e.acc : e \in {e \in out : e.to = state.s}}
    IN  /\ roots_stack' = [roots_stack EXCEPT ![t] = Append(@, state)]
        /\ \E frame \in SetToSeqs(succs) :
              search_stack' = [search_stack EXCEPT ![t] = Append(stack, frame)]
        /\ IF model.ltl = "TGBA" /\ loops # {}
           THEN /\ work' = [work EXCEPT ![t] =
                              [NoWork EXCEPT !.state = state, !.loops = loops]]
                /\ To(t, "selfloop")
           ELSE Loop(t)
        /\ lasso' = (lasso \/ (model.ltl = "BA" /\ loops # {} /\
                                state.s \in model.accepting))

\* ufscc_handle for a self-loop of a TGBA.
SelfLoop(t) ==
    /\ At(t, "selfloop")
    /\ IF work[t].loops = {}
       THEN Loop(t) /\ UNCHANGED ufvars
       ELSE \E m \in work[t].loops :
               /\ uf_add_acc(t, work[t].state.s, m)
               /\ work' = [work EXCEPT ![t].loops = @ \ {m}]
               /\ To(t, "selfloop_acc")
    /\ UNCHANGED <<stacks, lasso, counters>>

SelfLoopAcc(t) ==
    /\ At(t, "selfloop_acc")
    /\ lasso' = (lasso \/ loc[t].bits = Mark)
    /\ To(t, "selfloop")
    /\ UNCHANGED <<ufvars, stacks, work, counters>>

-----------------------------------------------------------------------------
(* ufscc_init                                                              *)

InitClaim(t) ==
    /\ At(t, "init")
    /\ search_stack' = [search_stack EXCEPT ![t] =
                          PushTop(@, [s |-> Initial, acc |-> {}])]
    /\ uf_make_claim(t, Initial)
    /\ To(t, "init_claim")
    /\ UNCHANGED <<roots_stack, work, lasso, counters>>

\* The initial state is explored whatever the claim says.
InitExplore(t) ==
    /\ At(t, "init_claim")
    /\ Explore(t, search_stack[t], [s |-> Initial, acc |-> {}])
    /\ unique_states' = unique_states +
                          (IF loc[t].code = "CLAIM_FIRST" THEN 1 ELSE 0)
    /\ UNCHANGED <<ufvars, scc_count>>

-----------------------------------------------------------------------------
(* ufscc_run and successor                                                 *)

Done(t) ==
    /\ At(t, "loop")
    /\ lasso \/ search_stack[t] = << <<>> >>
    /\ To(t, "done")
    /\ UNCHANGED <<ufvars, stacks, work, lasso, counters>>

\* Mutant: a successor that is skipped stays on the stack.
SuccessorKept(t) ==
    /\ At(t, "loop")
    /\ ~lasso
    /\ Last(search_stack[t]) # <<>>
    /\ LET state == Last(Last(search_stack[t]))
           target == Below(search_stack[t])
       IN  IF list_status[target] = "LIST_TOMB"
           THEN UNCHANGED <<ufvars, wpc, work>>
           ELSE /\ uf_make_claim(t, state.s)
                /\ work' = [work EXCEPT ![t].state = state, ![t].target = target]
                /\ To(t, "claim")
    /\ UNCHANGED <<stacks, lasso, counters>>

\* A successor of a state that is fully explored already is skipped.
Successor(t) ==
    /\ At(t, "loop")
    /\ ~lasso
    /\ Last(search_stack[t]) # <<>>
    /\ LET state == Last(Last(search_stack[t]))
           target == Below(search_stack[t])
       IN  IF list_status[target] = "LIST_TOMB"
           THEN /\ search_stack' = [search_stack EXCEPT ![t] = PopTop(@)]
                /\ UNCHANGED <<ufvars, wpc, work>>
           ELSE /\ uf_make_claim(t, state.s)
                /\ work' = [work EXCEPT ![t].state = state, ![t].target = target]
                /\ To(t, "claim")
                /\ UNCHANGED search_stack
    /\ UNCHANGED <<roots_stack, lasso, counters>>

\* Drop the successor that was looked at.
Drop(t) ==
    /\ search_stack' = [search_stack EXCEPT ![t] = PopTop(@)]
    /\ UNCHANGED roots_stack
    /\ Loop(t)

ClaimDead(t) ==
    /\ At(t, "claim")
    /\ loc[t].code = "CLAIM_DEAD"
    /\ Drop(t)
    /\ UNCHANGED <<ufvars, lasso, counters>>

ClaimNew(t) ==
    /\ At(t, "claim")
    /\ loc[t].code \in {"CLAIM_FIRST", "CLAIM_SUCCESS"}
    /\ Explore(t, search_stack[t], work[t].state)
    /\ unique_states' = unique_states +
                          (IF loc[t].code = "CLAIM_FIRST" THEN 1 ELSE 0)
    /\ UNCHANGED <<ufvars, scc_count>>

ClaimOld(t) ==
    /\ At(t, "claim")
    /\ loc[t].code = "CLAIM_FOUND"
    /\ uf_sameset(t, work[t].target, work[t].state.s)
    /\ To(t, "cycle")
    /\ UNCHANGED <<stacks, work, lasso, counters>>

\* Mutant: a transition into a set claimed before is always dropped.
CycleDropped(t) ==
    /\ At(t, "cycle")
    /\ Drop(t)
    /\ UNCHANGED <<ufvars, lasso, counters>>

\* The cycle lies within a set already, or the sets on it are to be united.
Cycle(t) ==
    /\ At(t, "cycle")
    /\ IF loc[t].v
       THEN IF model.ltl = "TGBA"
            THEN /\ uf_add_acc(t, work[t].state.s, work[t].state.acc)
                 /\ To(t, "cycle_acc")
                 /\ UNCHANGED <<stacks, work>>
            ELSE Drop(t) /\ UNCHANGED ufvars
       ELSE /\ work' = [work EXCEPT ![t].acc_set = work[t].state.acc]
            /\ To(t, "unite")
            /\ UNCHANGED <<ufvars, stacks>>
    /\ UNCHANGED <<lasso, counters>>

CycleAcc(t) ==
    /\ At(t, "cycle_acc")
    /\ lasso' = (lasso \/ loc[t].bits = Mark)
    /\ Drop(t)
    /\ UNCHANGED <<ufvars, counters>>

\* Mutant: the marks of the transition to the root itself are added.
UniteOwnMarks(t) ==
    /\ At(t, "unite")
    /\ LET root == Last(roots_stack[t])
       IN  /\ roots_stack' = [roots_stack EXCEPT ![t] = Front(@)]
           /\ work' = [work EXCEPT ![t].root = root]
           /\ uf_add_acc(t, root.s, root.acc)
           /\ To(t, "unite_acc")
    /\ UNCHANGED <<search_stack, lasso, counters>>

\* The loop that pops the roots and unites them with the target.
Unite(t) ==
    /\ At(t, "unite")
    /\ LET root == Last(roots_stack[t])
       IN  /\ roots_stack' = [roots_stack EXCEPT ![t] = Front(@)]
           /\ work' = [work EXCEPT ![t].root = root,
                                   ![t].accepting = @ \/ root.s \in model.accepting,
                                   ![t].acc_set = root.acc]
           /\ IF model.ltl = "TGBA"
              THEN uf_add_acc(t, root.s, work[t].acc_set) /\ To(t, "unite_acc")
              ELSE uf_union(t, root.s, work[t].target) /\ To(t, "united")
    /\ UNCHANGED <<search_stack, lasso, counters>>

UniteAcc(t) ==
    /\ At(t, "unite_acc")
    /\ uf_union(t, work[t].root.s, work[t].target)
    /\ To(t, "united")
    /\ UNCHANGED <<stacks, work, lasso, counters>>

United(t) ==
    /\ At(t, "united")
    /\ uf_sameset(t, work[t].target, work[t].state.s)
    /\ To(t, "unite_same")
    /\ UNCHANGED <<stacks, work, lasso, counters>>

\* Mutant: the loop goes on until the roots stack is empty.
UniteSameAll(t) ==
    /\ At(t, "unite_same")
    /\ IF roots_stack[t] # <<>>
       THEN To(t, "unite") /\ UNCHANGED <<ufvars, stacks, work, lasso>>
       ELSE /\ roots_stack' = [roots_stack EXCEPT ![t] = Append(@, work[t].root)]
            /\ search_stack' = [search_stack EXCEPT ![t] = PopTop(@)]
            /\ Loop(t)
            /\ UNCHANGED <<ufvars, lasso>>
    /\ UNCHANGED counters

UniteSame(t) ==
    /\ At(t, "unite_same")
    /\ IF ~loc[t].v
       THEN To(t, "unite") /\ UNCHANGED <<ufvars, stacks, work, lasso>>
       ELSE /\ roots_stack' = [roots_stack EXCEPT ![t] = Append(@, work[t].root)]
            /\ IF model.ltl = "TGBA"
               THEN /\ uf_add_acc(t, work[t].state.s, {})
                    /\ To(t, "unite_get")
                    /\ UNCHANGED <<search_stack, work, lasso>>
               ELSE /\ lasso' = (lasso \/ (model.ltl = "BA" /\ work[t].accepting))
                    /\ search_stack' = [search_stack EXCEPT ![t] = PopTop(@)]
                    /\ Loop(t)
                    /\ UNCHANGED ufvars
    /\ UNCHANGED counters

UniteGet(t) ==
    /\ At(t, "unite_get")
    /\ lasso' = (lasso \/ loc[t].bits = Mark)
    /\ Drop(t)
    /\ UNCHANGED <<ufvars, counters>>

-----------------------------------------------------------------------------
(* backtrack                                                               *)

\* Leave the empty frame and take the state it belonged to off the list.
Backtrack(t) ==
    /\ At(t, "loop")
    /\ ~lasso
    /\ Last(search_stack[t]) = <<>>
    /\ Len(search_stack[t]) > 1
    /\ LET left == Front(search_stack[t])
           state == Last(Last(left))
       IN  /\ search_stack' = [search_stack EXCEPT ![t] = PopTop(left)]
           /\ uf_remove_from_list(t, state.s)
           /\ work' = [work EXCEPT ![t].state = state]
           /\ To(t, "removed")
    /\ UNCHANGED <<roots_stack, lasso, counters>>

LastState(t) == Len(search_stack[t]) = 1

Removed(t) ==
    /\ At(t, "removed")
    /\ IF LastState(t)
       THEN /\ uf_pick_from_list(t, work[t].state.s)
            /\ To(t, "pick")
            /\ UNCHANGED work
       ELSE /\ uf_sameset(t, Below(search_stack[t]), work[t].state.s)
            /\ work' = [work EXCEPT ![t].target = Below(search_stack[t])]
            /\ To(t, "back_same")
    /\ UNCHANGED <<stacks, lasso, counters>>

BackSame(t) ==
    /\ At(t, "back_same")
    /\ IF loc[t].v
       THEN Loop(t) /\ UNCHANGED ufvars
       ELSE /\ uf_pick_from_list(t, work[t].state.s)
            /\ To(t, "pick")
            /\ UNCHANGED work
    /\ UNCHANGED <<stacks, lasso, counters>>

\* Another state of the set is left: explore it.
PickedState(t) ==
    /\ At(t, "pick")
    /\ loc[t].code = "PICK_SUCCESS"
    /\ LET state == [s |-> loc[t].ret, acc |-> {}]
       IN  Explore(t, PushTop(search_stack[t], state), state)
    /\ UNCHANGED <<ufvars, counters>>

\* The set is dead.
PickedNone(t) ==
    /\ At(t, "pick")
    /\ loc[t].code # "PICK_SUCCESS"
    /\ scc_count' = scc_count +
                      (IF loc[t].code = "PICK_MARK_DEAD" THEN 1 ELSE 0)
    /\ IF LastState(t)
       THEN Loop(t) /\ UNCHANGED ufvars
       ELSE /\ uf_sameset(t, work[t].target, work[t].state.s)
            /\ To(t, "pick_same")
            /\ UNCHANGED work
    /\ UNCHANGED <<stacks, lasso, unique_states>>

\* Mutant: the roots of the dead set are left on the stack.
PickSameKept(t) ==
    /\ At(t, "pick_same")
    /\ Loop(t)
    /\ UNCHANGED <<ufvars, stacks, lasso, counters>>

PickSame(t) ==
    /\ At(t, "pick_same")
    /\ IF loc[t].v THEN Loop(t) ELSE To(t, "pop_roots") /\ UNCHANGED work
    /\ UNCHANGED <<ufvars, stacks, lasso, counters>>

\* Pop the roots of the dead set.
PopRoots(t) ==
    /\ At(t, "pop_roots")
    /\ uf_sameset(t, work[t].state.s, Last(roots_stack[t]).s)
    /\ To(t, "pop_same")
    /\ UNCHANGED <<stacks, work, lasso, counters>>

PopSame(t) ==
    /\ At(t, "pop_same")
    /\ IF loc[t].v
       THEN /\ roots_stack' = [roots_stack EXCEPT ![t] = Front(@)]
            /\ To(t, "pop_roots")
            /\ UNCHANGED work
       ELSE Loop(t) /\ UNCHANGED roots_stack
    /\ UNCHANGED <<ufvars, search_stack, lasso, counters>>

-----------------------------------------------------------------------------
\* A step of the union-find operation the worker is in.
UFOperation(t) ==
    /\ UFStep(t)
    /\ UNCHANGED <<wpc, stacks, work, lasso, counters>>

WorkerStep(t) ==
    \/ UFOperation(t) \/ SelfLoop(t) \/ SelfLoopAcc(t)
    \/ InitClaim(t) \/ InitExplore(t) \/ Done(t) \/ Successor(t)
    \/ ClaimDead(t) \/ ClaimNew(t) \/ ClaimOld(t)
    \/ Cycle(t) \/ CycleAcc(t) \/ Unite(t) \/ UniteAcc(t) \/ United(t)
    \/ UniteSame(t) \/ UniteGet(t)
    \/ Backtrack(t) \/ Removed(t) \/ BackSame(t) \/ PickedState(t)
    \/ PickedNone(t) \/ PickSame(t) \/ PopRoots(t) \/ PopSame(t)

AllDone == \A t \in Thread : wpc[t] = "done"

Finished == AllDone /\ UNCHANGED vars

Next == (\E t \in Thread : WorkerStep(t) /\ UNCHANGED model) \/ Finished

Spec == Init /\ [][Next]_vars

\* Each worker is an operating system thread that keeps running.
FairSpec == Spec /\ \A t \in Thread : WF_vars(WorkerStep(t) /\ UNCHANGED model)

-----------------------------------------------------------------------------
(* The graph                                                               *)

\* For each graph and state the states that can be reached, in at most n steps.
Near(g) ==
    LET near[n \in 0 .. N] ==
          IF n = 0 THEN [s \in State |-> {s}]
          ELSE [s \in State |-> near[n - 1][s] \cup
                  {e.to : e \in {e \in g.edges : e.from \in near[n - 1][s]}}]
    IN  near[N]

Reaches == [g \in Models |-> Near(g)]
Components == [g \in Models |-> [s \in State |->
                 {u \in Reaches[g][s] : s \in Reaches[g][u]}]]

ReachFrom == Reaches[model]
Reachable == ReachFrom[Initial]
SCC == Components[model]

\* Does the component of s have an accepting cycle?
InnerEdges(s) == {e \in model.edges : e.from \in SCC[s] /\ e.to \in SCC[s]}
AcceptingCycle(s) ==
    /\ InnerEdges(s) # {}
    /\ CASE model.ltl = "none" -> FALSE
         [] model.ltl = "BA"   -> SCC[s] \cap model.accepting # {}
         [] model.ltl = "TGBA" -> UNION {e.acc : e \in InnerEdges(s)} = Mark

-----------------------------------------------------------------------------
(* Properties                                                              *)

\* States are united only when they lie on a common cycle: a set is always
\* part of a strongly connected component (the uniting loop of successor).
SetsInSCC == \A s \in State : SetOf(s) \subseteq SCC[s]

\* A set is declared dead only when it is a whole component, all its states
\* are off the list, and every transition out of it leads to a dead set; the
\* assertions at the end of uf_mark_dead hold.  A state is taken off its list
\* only when each of its successors is in its set or dead.
DeadIsComplete ==
    /\ \A s \in State : uf_status[Root[s]] = "UF_DEAD" =>
          /\ SetOf(s) = SCC[s]
          /\ list_status[s] = "LIST_TOMB"
          /\ \A u \in ReachFrom[s] : uf_status[Root[u]] = "UF_DEAD"
    /\ \A t \in Thread :
          /\ pc[t] = "dead_root" => parent[loc[t].f] = 0
          /\ pc[t] = "dead_check" => uf_status[loc[t].f] = "UF_DEAD"
    /\ \A s \in State : list_status[s] = "LIST_TOMB" =>
          \A e \in {e \in model.edges : e.from = s} :
             SameSet(s, e.to) \/ uf_status[Root[e.to]] = "UF_DEAD"

\* backtrack and successor never take from an empty roots stack, and a union
\* always finds a listed state on both sides (the comments in uf_union).
StacksSuffice ==
    \A t \in Thread :
       /\ wpc[t] \in {"unite", "pop_roots"} /\ pc[t] = "ready" =>
             roots_stack[t] # <<>>
       /\ pc[t] \notin {"union_unlist", "union_fail"}

\* A lasso is reported only if there is an accepting cycle, and none is missed;
\* when all workers are done without one, every reachable state is in a dead
\* set, and the counts that ufscc_print_stats prints are exact.
VerdictRight ==
    LET exists == \E s \in Reachable : AcceptingCycle(s)
    IN  /\ lasso => exists
        /\ AllDone /\ exists => lasso
        /\ AllDone /\ ~lasso =>
              /\ \A s \in Reachable : uf_status[Root[s]] = "UF_DEAD"
              /\ unique_states = Cardinality(Reachable)
              /\ scc_count = Cardinality({SCC[s] : s \in Reachable})

\* Every worker finishes.
Terminates == <>AllDone
=============================================================================
